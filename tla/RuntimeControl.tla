--------------------------- MODULE RuntimeControl ---------------------------
(***************************************************************************)
(* RuntimeControlService of the app-service: the spot and futures runtimes *)
(* as child processes, started and stopped by concurrent HTTP requests on  *)
(* one asyncio event loop.                                                 *)
(*                                                                         *)
(* Runs are filed under the runtime, not under the process: _finalize_run  *)
(* of an old process pops whatever run is filed there, and every process   *)
(* of a runtime polls the same control file {runtime}.stop.  One action is *)
(* the code between two suspensions; the sleep(0) of _finalize_run inside  *)
(* start() is such a suspension.  As in JobSupervisor, the timeout of      *)
(* wait_for cancels the wait task.                                         *)
(***************************************************************************)
EXTENDS Naturals, FiniteSets

CONSTANTS
    Runtimes,     \* runtime ids: spot, futures
    Callers,      \* clients of POST /runtime-control/{id}/start and /stop
    App,          \* the lifespan exit, which calls shutdown()
    MaxProcs,     \* bound: processes spawned
    None          \* no process

Procs == 1..MaxProcs

ASSUME RuntimeControlAssumption ==
    /\ MaxProcs \in Nat
    /\ App \notin Callers
    /\ None \notin Procs

VARIABLES
    runs,         \* _runs: the process tracked for each runtime, or None
    controlFile,  \* runtimes whose control file exists
    spawned,      \* number of processes spawned so far
    owner,        \* the runtime each process was spawned for
    proc,         \* none/alive/leaving/exited; leaving: it is stopping itself
    asked,        \* ManagedRuntime.stop_requested
    signalled,    \* processes terminate() was sent to
    waitTask,     \* _wait_for_completion: none/waiting/done/cancelled
    pc,           \* idle/respawn/fileWait/expired/termWait, for each caller
    target,       \* the process a caller is stopping
    subject,      \* the runtime a caller is starting
    todo,         \* runtimes shutdown() has still to stop
    phase         \* serving/closing/down

procVars   == <<spawned, owner, proc, signalled>>
callerVars == <<pc, target, subject>>
appVars    == <<todo, phase>>
vars == <<runs, controlFile, asked, waitTask, procVars, callerVars, appVars>>

AllCallers == Callers \cup {App}
Running(p) == proc[p] \in {"alive", "leaving"}     \* poll() is None

Init ==
    /\ runs        = [r \in Runtimes |-> None]
    /\ controlFile = {}
    /\ spawned     = 0
    /\ owner       \in {[p \in Procs |-> r] : r \in Runtimes}
    /\ proc        = [p \in Procs |-> "none"]
    /\ asked       = {}
    /\ signalled   = {}
    /\ waitTask    = [p \in Procs |-> "none"]
    /\ pc          = [c \in AllCallers |-> "idle"]
    /\ target      = [c \in AllCallers |-> None]
    /\ subject     \in {[c \in AllCallers |-> r] : r \in Runtimes}
    /\ todo        = {}
    /\ phase       = "serving"

-----------------------------------------------------------------------------
(* _finalize_run: the run filed under the runtime is popped, whichever     *)
(* process it belongs to, and the shared control file is removed.          *)
\* Mutants: the run stays on file; the control file stays on disk.
FinalizeKeepsRun(r)  == controlFile' = controlFile \ {r} /\ UNCHANGED runs
FinalizeKeepsFile(r) == runs' = [runs EXCEPT ![r] = None] /\ UNCHANGED controlFile

Finalize(r) ==
    /\ runs' = [runs EXCEPT ![r] = None]
    /\ controlFile' = controlFile \ {r}

(* _build_command removes a control file left behind.                      *)
RemoveStaleFile(r) == controlFile' = controlFile \ {r}

(* _build_command and the rest of start() after the last suspension.       *)
Spawn(r) ==
    LET p == spawned + 1
    IN  /\ spawned < MaxProcs
        /\ RemoveStaleFile(r)
        /\ spawned'  = p
        /\ owner'    = [owner EXCEPT ![p] = r]
        /\ proc'     = [proc EXCEPT ![p] = "alive"]
        /\ waitTask' = [waitTask EXCEPT ![p] = "waiting"]
        /\ runs'     = [runs EXCEPT ![r] = p]
        /\ UNCHANGED <<asked, signalled>>

\* start() of a runtime with no run: it spawns at once.  With a live run
\* start() returns and changes nothing.
Start(c, r) ==
    /\ phase = "serving" /\ pc[c] = "idle"
    /\ runs[r] = None
    /\ Spawn(r)
    /\ UNCHANGED <<callerVars, appVars>>

\* start() of a runtime whose process has exited: the old run is finalized,
\* and start() suspends before it spawns.
StartOverExited(c, r) ==
    /\ phase = "serving" /\ pc[c] = "idle"
    /\ runs[r] # None /\ ~Running(runs[r])
    /\ Finalize(r)
    /\ pc'      = [pc EXCEPT ![c] = "respawn"]
    /\ subject' = [subject EXCEPT ![c] = r]
    /\ UNCHANGED <<procVars, asked, waitTask, target, appVars>>

\* It does not look again at what is filed under the runtime by now.
Respawn(c) ==
    /\ pc[c] = "respawn"
    /\ Spawn(subject[c])
    /\ pc' = [pc EXCEPT ![c] = "idle"]
    /\ UNCHANGED <<target, subject, appVars>>

\* The launcher raises: only the stale control file is gone.
SpawnFails(c) ==
    /\ pc[c] = "respawn"
    /\ RemoveStaleFile(subject[c])
    /\ pc' = [pc EXCEPT ![c] = "idle"]
    /\ UNCHANGED <<runs, procVars, asked, waitTask, target, subject, appVars>>

-----------------------------------------------------------------------------
(* stop(): up to its first wait.                                           *)
RequestStop(c, r) ==
    /\ pc[c] = "idle"
    /\ runs[r] # None
    /\ asked'       = asked \cup {runs[r]}
    /\ controlFile' = controlFile \cup {r}
    /\ pc'          = [pc EXCEPT ![c] = "fileWait"]
    /\ target'      = [target EXCEPT ![c] = runs[r]]
    /\ UNCHANGED <<runs, procVars, waitTask, subject>>

Stop(c, r) ==
    /\ phase = "serving"
    /\ RequestStop(c, r)
    /\ UNCHANGED appVars

StopReturns(c) ==
    /\ pc[c] \in {"fileWait", "termWait"}
    /\ waitTask[target[c]] = "done"
    /\ pc' = [pc EXCEPT ![c] = "idle"]
    /\ UNCHANGED <<runs, controlFile, asked, waitTask, procVars, target,
                   subject, appVars>>

\* The stop timeout: the wait task is cancelled and finalizes the run.
Expire(c) ==
    /\ pc[c] = "fileWait"
    /\ waitTask[target[c]] = "waiting"
    /\ waitTask' = [waitTask EXCEPT ![target[c]] = "cancelled"]
    /\ Finalize(owner[target[c]])
    /\ pc' = [pc EXCEPT ![c] = "expired"]
    /\ UNCHANGED <<asked, procVars, target, subject, appVars>>

\* Mutants: terminate() is not called; it is called with the runtime.
SendTerminateNever(p)     == UNCHANGED signalled
SendTerminateByRuntime(p) == signalled' = signalled \cup {owner[p]}

\* except TimeoutError: terminate().
SendTerminate(p) == signalled' = IF Running(p) THEN signalled \cup {p}
                                 ELSE signalled

Escalate(c) ==
    /\ pc[c] = "expired"
    /\ SendTerminate(target[c])
    /\ pc' = [pc EXCEPT ![c] = "termWait"]
    /\ UNCHANGED <<runs, controlFile, asked, waitTask, spawned, owner, proc,
                   target, subject, appVars>>

\* Waiting on the cancelled task raises CancelledError, past the handler of
\* TimeoutError that would kill the tree; it also ends shutdown().
StopAborts(c) ==
    /\ pc[c] \in {"fileWait", "termWait"}
    /\ waitTask[target[c]] = "cancelled"
    /\ pc' = [pc EXCEPT ![c] = "idle"]
    /\ phase' = IF c = App THEN "down" ELSE phase
    /\ UNCHANGED <<runs, controlFile, asked, waitTask, procVars, target,
                   subject, todo>>

-----------------------------------------------------------------------------
(* _wait_for_completion, its readers folded in: they end with the process. *)
Complete(p) ==
    /\ phase # "down"
    /\ waitTask[p] = "waiting"
    /\ proc[p] = "exited"
    /\ waitTask' = [waitTask EXCEPT ![p] = "done"]
    /\ Finalize(owner[p])
    /\ UNCHANGED <<asked, procVars, callerVars, appVars>>

-----------------------------------------------------------------------------
(* shutdown(), called when the lifespan ends: requests are over by then.   *)
BeginClosing ==
    /\ phase = "serving"
    /\ \A c \in Callers : pc[c] = "idle"
    /\ phase' = "closing"
    /\ todo'  = {r \in Runtimes : runs[r] # None}
    /\ UNCHANGED <<runs, controlFile, asked, waitTask, procVars, callerVars>>

ShutdownStops(r) ==
    /\ phase = "closing" /\ pc[App] = "idle"
    /\ r \in todo
    /\ todo' = todo \ {r}
    /\ \/ RequestStop(App, r)
       \/ /\ runs[r] = None
          /\ UNCHANGED <<runs, controlFile, asked, waitTask, procVars,
                         callerVars>>
    /\ UNCHANGED phase

\* The second loop of shutdown() finalizes what is still tracked.
EndShutdown ==
    /\ phase = "closing" /\ pc[App] = "idle"
    /\ todo = {}
    /\ controlFile' = controlFile \ {r \in Runtimes : runs[r] # None}
    /\ runs'  = [r \in Runtimes |-> None]
    /\ phase' = "down"
    /\ UNCHANGED <<asked, waitTask, procVars, callerVars, todo>>

-----------------------------------------------------------------------------
(* managed_runtime_worker: polls the control file, handles SIGTERM.        *)
HeedFile(p) ==
    /\ proc[p] = "alive"
    /\ owner[p] \in controlFile
    /\ proc' = [proc EXCEPT ![p] = "leaving"]
    /\ UNCHANGED <<runs, controlFile, asked, waitTask, spawned, owner,
                   signalled, callerVars, appVars>>

HeedSignal(p) ==
    /\ proc[p] = "alive"
    /\ p \in signalled
    /\ proc' = [proc EXCEPT ![p] = "leaving"]
    /\ UNCHANGED <<runs, controlFile, asked, waitTask, spawned, owner,
                   signalled, callerVars, appVars>>

Leave(p) ==
    /\ proc[p] = "leaving"
    /\ proc' = [proc EXCEPT ![p] = "exited"]
    /\ UNCHANGED <<runs, controlFile, asked, waitTask, spawned, owner,
                   signalled, callerVars, appVars>>

\* The runner returns or raises.
Crash(p) ==
    /\ proc[p] = "alive"
    /\ proc' = [proc EXCEPT ![p] = "exited"]
    /\ UNCHANGED <<runs, controlFile, asked, waitTask, spawned, owner,
                   signalled, callerVars, appVars>>

-----------------------------------------------------------------------------
CallerSteps(c) ==
    \/ Respawn(c) \/ SpawnFails(c)
    \/ StopReturns(c) \/ Expire(c) \/ Escalate(c) \/ StopAborts(c)

WorkerEnds(p) == HeedSignal(p) \/ Leave(p)

Next ==
    \/ \E c \in Callers, r \in Runtimes :
          Start(c, r) \/ StartOverExited(c, r) \/ Stop(c, r)
    \/ \E c \in AllCallers : CallerSteps(c)
    \/ \E p \in Procs : Complete(p) \/ HeedFile(p) \/ Crash(p) \/ WorkerEnds(p)
    \/ \E r \in Runtimes : ShutdownStops(r)
    \/ BeginClosing \/ EndShutdown

Spec == Init /\ [][Next]_vars

(* The event loop runs, its timers fire, and a worker that was signalled   *)
(* or is stopping itself ends.  It need not notice the control file.       *)
FairSpec ==
    /\ Spec
    /\ \A c \in AllCallers : WF_vars(CallerSteps(c))
    /\ \A p \in Procs : WF_vars(Complete(p)) /\ WF_vars(WorkerEnds(p))

-----------------------------------------------------------------------------
(* Type invariant. *)
TypeOK ==
    /\ runs \in [Runtimes -> Procs \cup {None}]
    /\ controlFile \subseteq Runtimes
    /\ spawned \in 0..MaxProcs
    /\ owner \in [Procs -> Runtimes]
    /\ proc \in [Procs -> {"none", "alive", "leaving", "exited"}]
    /\ asked \subseteq Procs
    /\ signalled \subseteq Procs
    /\ waitTask \in [Procs -> {"none", "waiting", "done", "cancelled"}]
    /\ pc \in [AllCallers -> {"idle", "respawn", "fileWait", "expired", "termWait"}]
    /\ target \in [AllCallers -> Procs \cup {None}]
    /\ subject \in [AllCallers -> Runtimes]
    /\ todo \subseteq Runtimes
    /\ phase \in {"serving", "closing", "down"}

(* A tracked process is one of its runtime whose end is still awaited: no  *)
(* interleaving of starts, stops and timeouts leaves a finished or given   *)
(* up run on file, which would make every later stop wait for nothing.     *)
TrackedIsAwaited ==
    \A r \in Runtimes : runs[r] # None =>
        /\ waitTask[runs[r]] = "waiting"
        /\ owner[runs[r]] = r

(* The shared control file exists only while the run on file was asked to  *)
(* stop: a process that was just started never finds the stop request that *)
(* was meant for the one before it.                                        *)
StopFileIsForTrackedRun ==
    \A r \in controlFile : runs[r] # None /\ runs[r] \in asked

(* A live process nobody waits for any more was sent terminate(), or the   *)
(* stop call that gave it up is about to send it.                          *)
AbandonedIsTerminated ==
    \A p \in Procs : Running(p) /\ waitTask[p] = "cancelled" =>
        \/ p \in signalled
        \/ \E c \in AllCallers : pc[c] = "expired" /\ target[c] = p

(* A process that was asked to stop ends, although its control file may be *)
(* removed by the end of another process before it is noticed.             *)
StopEndsRuntime ==
    \A p \in Procs : p \in asked ~> proc[p] = "exited"

(* A runtime reported as offline, "no matching runtime process detected",  *)
(* has no live process but those that were asked to stop.  observations()  *)
(* reports the live run on file; the process probe looks for the command   *)
(* lines of the legacy runners, which the managed worker's does not match. *)
Offline(r) == runs[r] = None \/ ~Running(runs[r])
OfflineMeansNoProcess ==
    \A r \in Runtimes : phase = "serving" /\ Offline(r) =>
        ~ \E p \in Procs : owner[p] = r /\ Running(p) /\ p \notin asked
=============================================================================
