---------------------------- MODULE DesktopShell ----------------------------
(***************************************************************************)
(* The desktop shell starts the app-service as its child, waits until the  *)
(* port answers, and ends the service when its window is closed.  Another  *)
(* service may hold the port already.  What a service runs is one job and  *)
(* one managed runtime; the page in the window holds an event stream open. *)
(* The server that carries the app (uvicorn) and the system calls are      *)
(* external.                                                               *)
(***************************************************************************)
VARIABLES
    platform,   \* "posix" or "windows"
    shell,      \* where the shell's main thread is
    service,    \* the two services, see Stages
    terminating,\* services whose /admin/shutdown has started its thread
    jobs,       \* services with a job worker running
    runtimes,   \* services with a managed runtime worker running
    streams     \* services the page has an event stream to

shellVars == <<platform, shell, service, terminating, jobs, runtimes, streams>>

Mine == "mine"      \* the child
Other == "other"    \* a service that was there before
Services == {Mine, Other}
Stages == {"none", "booting", "serving", "draining", "exited"}

\* Who answers on the port.
Answering == {s \in Services : service[s] = "serving"}

ShellInit ==
    /\ platform \in {"posix", "windows"}
    /\ shell = "starting"
    /\ \E other \in {"none", "serving"} :
          service = [s \in Services |-> IF s = Other THEN other ELSE "none"]
    /\ terminating = {} /\ jobs = {} /\ runtimes = {} /\ streams = {}

-----------------------------------------------------------------------------
\* A process that is ended at once leaves its workers behind.
Dies(s) ==
    /\ service' = [service EXCEPT ![s] = "exited"]
    /\ streams' = streams \ {s} /\ terminating' = terminating \ {s}
    /\ UNCHANGED <<jobs, runtimes>>

\* Mutant: the lifespan leaves out runtime_control_service.shutdown().
EndsWithoutRuntimePass(s) == Dies(s)
\* The lifespan's finally clause: both shutdown passes, then the process ends.
EndsInOrder(s) ==
    /\ service' = [service EXCEPT ![s] = "exited"]
    /\ runtimes' = runtimes \ {s} /\ jobs' = jobs \ {s}
    /\ streams' = streams \ {s} /\ terminating' = terminating \ {s}

\* taskkill /T /F: the process and all it has started.
DiesWithTree(s) == EndsInOrder(s)

Spawn ==
    /\ shell = "starting" /\ service[Mine] = "none"
    /\ service' = [service EXCEPT ![Mine] = "booting"]
    /\ shell' = "probing"
    /\ UNCHANGED <<platform, terminating, jobs, runtimes, streams>>

\* The server binds the port, or gives up when it is taken.
Bind ==
    /\ service[Mine] = "booting"
    /\ service' = [service EXCEPT ![Mine] = IF Answering = {} THEN "serving" ELSE "exited"]
    /\ UNCHANGED <<platform, shell, terminating, jobs, runtimes, streams>>

(* wait_for_readiness: the child is looked at, then the port is asked; any  *)
(* service with the session token answers 200.                             *)
ProbeChild ==
    /\ shell = "probing"
    /\ shell' = IF service[Mine] = "exited" THEN "failed" ELSE "asking"
    /\ UNCHANGED <<platform, service, terminating, jobs, runtimes, streams>>

ProbePort ==
    /\ shell = "asking"
    /\ shell' = IF Answering = {} THEN "probing" ELSE "ready"
    /\ UNCHANGED <<platform, service, terminating, jobs, runtimes, streams>>

\* kill_process_tree; a server that boots ends after its start-up.
KillProcessTree ==
    \/ /\ platform = "windows" /\ service[Mine] # "exited" /\ DiesWithTree(Mine)
    \/ /\ platform = "posix" /\ service[Mine] \in {"booting", "serving"}
       /\ service' = [service EXCEPT ![Mine] = "draining"]
       /\ UNCHANGED <<terminating, jobs, runtimes, streams>>
    \/ /\ service[Mine] = "exited" \/ (platform = "posix" /\ service[Mine] = "draining")
       /\ UNCHANGED <<service, terminating, jobs, runtimes, streams>>

ReadinessTimesOut ==
    /\ shell = "probing"
    /\ shell' = "failed"
    /\ KillProcessTree /\ UNCHANGED platform

-----------------------------------------------------------------------------
\* What the page asks of the service on the port.
OpenStream ==
    /\ shell = "ready"
    /\ \E s \in Answering \ streams : streams' = streams \cup {s}
    /\ UNCHANGED <<platform, shell, service, terminating, jobs, runtimes>>

StartJobInService ==
    /\ shell = "ready"
    /\ \E s \in Answering \ jobs : jobs' = jobs \cup {s}
    /\ UNCHANGED <<platform, shell, service, terminating, runtimes, streams>>

StartRuntimeInService ==
    /\ shell = "ready"
    /\ \E s \in Answering \ runtimes : runtimes' = runtimes \cup {s}
    /\ UNCHANGED <<platform, shell, service, terminating, jobs, streams>>

\* The window's page goes, and its connection with it.
StreamCloses ==
    /\ shell \notin {"starting", "probing", "asking", "ready"} /\ streams # {}
    /\ streams' = {}
    /\ UNCHANGED <<platform, shell, service, terminating, jobs, runtimes>>

-----------------------------------------------------------------------------
CloseWindow ==
    /\ shell = "ready" /\ shell' = "closing"
    /\ UNCHANGED <<platform, service, terminating, jobs, runtimes, streams>>

\* POST /admin/shutdown: jobs are stopped, the publisher is stopped, and a
\* thread sends SIGTERM 0.25 s later.
JobsAfterRequest(s) == jobs \ {s}

RequestShutdown ==
    /\ shell = "closing" /\ shell' = "waiting"
    /\ IF Answering = {} THEN UNCHANGED <<terminating, jobs>>
       ELSE \E s \in Answering : /\ terminating' = terminating \cup {s}
                                 /\ jobs' = JobsAfterRequest(s)
    /\ UNCHANGED <<platform, service, runtimes, streams>>

\* os.kill(os.getpid(), SIGTERM): on Windows this is TerminateProcess.
DelayedSigterm(s) ==
    /\ s \in terminating /\ service[s] \in {"serving", "draining"}
    /\ UNCHANGED <<platform, shell>>
    /\ \/ /\ platform = "posix"
          /\ service' = [service EXCEPT ![s] = "draining"]
          /\ terminating' = terminating \ {s}
          /\ UNCHANGED <<jobs, runtimes, streams>>
       \/ platform = "windows" /\ Dies(s)

\* The server waits for open connections before it ends the lifespan.
Drained(s) ==
    /\ service[s] = "draining" /\ s \notin streams
    /\ EndsInOrder(s) /\ UNCHANGED <<platform, shell>>

\* shutdown_managed_app_service looks every 250 ms, for eight seconds.
ChildHasExited ==
    /\ shell \in {"waiting", "reaping"} /\ service[Mine] = "exited"
    /\ shell' = "gone"
    /\ UNCHANGED <<platform, service, terminating, jobs, runtimes, streams>>

AfterKill == "reaping"

ShutdownTimesOut ==
    /\ shell = "waiting" /\ service[Mine] # "exited"
    /\ shell' = AfterKill
    /\ KillProcessTree /\ UNCHANGED platform

ShellNext ==
    \/ Spawn \/ Bind \/ ProbeChild \/ ProbePort \/ ReadinessTimesOut
    \/ OpenStream \/ StartJobInService \/ StartRuntimeInService \/ StreamCloses
    \/ CloseWindow \/ RequestShutdown \/ ChildHasExited \/ ShutdownTimesOut
    \/ \E s \in Services : DelayedSigterm(s) \/ Drained(s)

ShellSpec == ShellInit /\ [][ShellNext]_shellVars

-----------------------------------------------------------------------------
ShellTypeOK ==
    /\ platform \in {"posix", "windows"}
    /\ shell \in {"starting", "probing", "asking", "ready", "failed", "closing",
                  "waiting", "reaping", "gone"}
    /\ service \in [Services -> Stages]
    /\ terminating \subseteq Services /\ jobs \subseteq Services
    /\ runtimes \subseteq Services /\ streams \subseteq Services

(* A service that has ended has no job worker left, on either platform and  *)
(* whichever of the request, the signal and the shell's kill ended it.     *)
NoJobSurvives == \A s \in Services : service[s] = "exited" => s \notin jobs

(* Where the lifespan gets to run, no managed runtime outlives its service  *)
(* either.  On Windows the delayed signal ends the process before that.    *)
NoRuntimeSurvives ==
    platform = "posix" => \A s \in Services : service[s] = "exited" => s \notin runtimes

(* A shell that has ended has not left its own service running, whoever     *)
(* answered its requests.                                                  *)
NoServiceSurvives == shell = "gone" => service[Mine] \in {"none", "exited"}

(* Whatever order the window's request, the readiness probe, the signal and *)
(* the kill come in, the end of each process takes along what it ran.      *)
NothingSurvives == NoJobSurvives /\ NoRuntimeSurvives /\ NoServiceSurvives
=============================================================================
