---------------------------- MODULE JobSupervisor ----------------------------
(***************************************************************************)
(* The job layer of the app-service: JobManager, JobSupervisor, JobStore   *)
(* and ProcessAdapter on one asyncio event loop, the worker processes they *)
(* own, the callers of POST /jobs/{id}/stop, and the two passes of         *)
(* JobManager.shutdown (POST /admin/shutdown, then the lifespan exit).     *)
(*                                                                         *)
(* One action is the code between two points where its coroutine really    *)
(* suspends.  EventPublisher puts into unbounded queues, so publishing     *)
(* never suspends: start-and-spawn is one step, and so is the settlement   *)
(* at the end of _wait_for_completion.  The states "queued" and "starting" *)
(* are therefore never visible between steps, and no code sets "orphaned". *)
(*                                                                         *)
(* asyncio.wait_for cancels the task it waits on when it times out; a task *)
(* cancelled that way runs its finally block and every later or concurrent *)
(* wait on it raises CancelledError, which no except clause here catches.  *)
(***************************************************************************)
EXTENDS Naturals, FiniteSets

CONSTANTS
    Jobs,          \* identifiers of the jobs that may be started
    ControlJobs,   \* those with a control file: the training_control jobs
    Stubborn,      \* those whose worker survives terminate()
    Callers,       \* clients of POST /jobs/{id}/stop
    App,           \* the caller that runs JobManager.shutdown
    LineKinds,     \* kinds of stdout lines: "progress", "log", "malformed"
    MaxLines,      \* bound: lines a worker writes
    PipeCapacity   \* bound: lines the stdout pipe holds before a write blocks

ASSUME JobSupervisorAssumption ==
    /\ ControlJobs \subseteq Jobs
    /\ Stubborn \subseteq Jobs
    /\ App \notin Callers
    /\ LineKinds \subseteq {"progress", "log", "malformed"}
    /\ MaxLines \in Nat
    /\ PipeCapacity \in Nat \ {0}

VARIABLES
    state,          \* JobStore: state of each job, "none" before its start
    exitCode,       \* JobStore: exit_code, with 2 standing for None
    runs,           \* JobSupervisor._runs: the jobs with a ManagedRun
    stopRequested,  \* ManagedRun.stop_requested
    controlFile,    \* jobs whose control file exists on disk
    waitTask,       \* _wait_for_completion: none/waiting/draining/done/cancelled
    reader,         \* _consume_stream: none/open/eof/dead
    proc,           \* the worker process: none/alive/exited
    code,           \* its exit code: 0, or 1 for every other value
    child,          \* jobs whose worker has a live training child process
    signal,         \* strongest signal sent to the worker: none/term/kill
    left,           \* lines the worker has still to write
    pipe,           \* lines written and not read yet
    pc,             \* where each caller is in terminate()
    target,         \* the job each caller is stopping
    todo,           \* jobs the current shutdown pass has still to visit
    phase           \* serving/admin/signalled/closing/down

storeVars  == <<state, exitCode>>
loopVars   == <<runs, stopRequested, controlFile, waitTask, reader>>
procVars   == <<proc, code, child, signal, left, pipe>>
callerVars == <<pc, target>>
appVars    == <<todo, phase>>
vars == <<storeVars, loopVars, procVars, callerVars, appVars>>

NoCode  == 2
AllCallers == Callers \cup {App}
Settled == {"completed", "failed", "cancelled"}
Active  == {"running", "stopping"}   \* with queued and starting, never visible
Pcs     == {"idle", "fileWait", "fileExpired", "termWait", "termExpired",
            "killWait"}

Init ==
    /\ state         = [j \in Jobs |-> "none"]
    /\ exitCode      = [j \in Jobs |-> NoCode]
    /\ runs          = {}
    /\ stopRequested = [j \in Jobs |-> FALSE]
    /\ controlFile   = {}
    /\ waitTask      = [j \in Jobs |-> "none"]
    /\ reader        = [j \in Jobs |-> "none"]
    /\ proc          = [j \in Jobs |-> "none"]
    /\ code          = [j \in Jobs |-> 0]
    /\ child         = {}
    /\ signal        = [j \in Jobs |-> "none"]
    /\ left          = [j \in Jobs |-> 0]
    /\ pipe          = [j \in Jobs |-> 0]
    /\ pc            = [c \in AllCallers |-> "idle"]
    /\ target        \in [AllCallers -> Jobs]
    /\ todo          = {}
    /\ phase         = "serving"

Accepting == phase \in {"serving", "admin", "signalled"}  \* HTTP still served
LoopRuns  == phase # "down"

-----------------------------------------------------------------------------
(* JobManager.start and JobSupervisor.spawn.                               *)

Start(j) ==
    /\ Accepting
    /\ state[j] = "none"
    /\ state'    = [state EXCEPT ![j] = "running"]
    /\ runs'     = runs \cup {j}
    /\ waitTask' = [waitTask EXCEPT ![j] = "waiting"]
    /\ reader'   = [reader EXCEPT ![j] = "open"]
    /\ proc'     = [proc EXCEPT ![j] = "alive"]
    /\ \E n \in 0..MaxLines : left' = [left EXCEPT ![j] = n]
    /\ UNCHANGED <<exitCode, stopRequested, controlFile, code, child, signal,
                   pipe, callerVars, appVars>>

\* The launcher or Popen raises: the job fails with exit code -1.
StartFails(j) ==
    /\ Accepting
    /\ state[j] = "none"
    /\ state'    = [state EXCEPT ![j] = "failed"]
    /\ exitCode' = [exitCode EXCEPT ![j] = 1]
    /\ UNCHANGED <<loopVars, procVars, callerVars, appVars>>

-----------------------------------------------------------------------------
(* The worker process, outside the event loop.                             *)

\* The training worker starts the legacy training as a process of its own.
SpawnChild(j) ==
    /\ proc[j] = "alive" /\ j \in ControlJobs \ child
    /\ left[j] > 0
    /\ child' = child \cup {j}
    /\ UNCHANGED <<storeVars, loopVars, proc, code, signal, left, pipe,
                   callerVars, appVars>>

ChildEnds(j) ==
    /\ j \in child
    /\ child' = child \ {j}
    /\ UNCHANGED <<storeVars, loopVars, proc, code, signal, left, pipe,
                   callerVars, appVars>>

\* A print: blocks while the pipe is full.
WriteLine(j) ==
    /\ proc[j] = "alive"
    /\ left[j] > 0
    /\ pipe[j] < PipeCapacity
    /\ left' = [left EXCEPT ![j] = @ - 1]
    /\ pipe' = [pipe EXCEPT ![j] = @ + 1]
    /\ UNCHANGED <<storeVars, loopVars, proc, code, child, signal, callerVars,
                   appVars>>

\* The training worker sees its control file: it stops its child and has
\* only its last line to write.
HeedControlFile(j) ==
    /\ proc[j] = "alive"
    /\ j \in controlFile
    /\ left[j] > 1 \/ j \in child
    /\ child' = child \ {j}
    /\ left'  = [left EXCEPT ![j] = IF @ > 1 THEN 1 ELSE @]
    /\ UNCHANGED <<storeVars, loopVars, proc, code, signal, pipe, callerVars,
                   appVars>>

Exit(j, c) ==
    /\ proc' = [proc EXCEPT ![j] = "exited"]
    /\ code' = [code EXCEPT ![j] = c]
    /\ left' = [left EXCEPT ![j] = 0]
    /\ UNCHANGED <<storeVars, loopVars, signal, pipe, callerVars, appVars>>

\* The worker has written everything and returns 0 or an error status.
WorkerReturns(j) ==
    /\ proc[j] = "alive"
    /\ left[j] = 0
    /\ j \notin child
    /\ \E c \in {0, 1} : Exit(j, c)
    /\ UNCHANGED child

\* An unhandled exception, or a signal from outside the app-service.
WorkerCrashes(j) ==
    /\ proc[j] = "alive"
    /\ Exit(j, 1)
    /\ UNCHANGED child

\* terminate() or kill() takes effect on the worker itself.
WorkerDies(j) ==
    /\ proc[j] = "alive"
    /\ signal[j] = "kill" \/ (signal[j] = "term" /\ j \notin Stubborn)
    /\ Exit(j, 1)
    /\ UNCHANGED child

-----------------------------------------------------------------------------
(* _consume_stream and _handle_worker_line.                                *)

\* Mutants: the handler ignores a pending stop; it reports a start.
StateAfterProgressNoStop(j)   == "running"
StateAfterProgressStarting(j) == "starting"
StateAfterProgress(j) == IF state[j] = "stopping" THEN "stopping" ELSE "running"

ReadLine(j, kind) ==
    /\ LoopRuns
    /\ reader[j] = "open"
    /\ pipe[j] > 0
    /\ pipe'  = [pipe EXCEPT ![j] = @ - 1]
    /\ state' = IF kind = "progress"
                THEN [state EXCEPT ![j] = StateAfterProgress(j)]
                ELSE state
    \* JSON that is not an object, or a bad number, ends the task
    /\ reader' = IF kind = "malformed"
                 THEN [reader EXCEPT ![j] = "dead"]
                 ELSE reader
    /\ UNCHANGED <<exitCode, runs, stopRequested, controlFile, waitTask, proc,
                   code, child, signal, left, callerVars, appVars>>

ReadEof(j) ==
    /\ LoopRuns
    /\ reader[j] = "open"
    /\ proc[j] = "exited"
    /\ pipe[j] = 0
    /\ reader' = [reader EXCEPT ![j] = "eof"]
    /\ UNCHANGED <<storeVars, runs, stopRequested, controlFile, waitTask,
                   procVars, callerVars, appVars>>

-----------------------------------------------------------------------------
(* _wait_for_completion.                                                   *)

\* process.wait returned in its thread; the task awaits the readers.
ProcessWaited(j) ==
    /\ LoopRuns
    /\ waitTask[j] = "waiting"
    /\ proc[j] = "exited"
    /\ waitTask' = [waitTask EXCEPT ![j] = "draining"]
    /\ UNCHANGED <<storeVars, runs, stopRequested, controlFile, reader,
                   procVars, callerVars, appVars>>

Verdict(j) ==
    IF stopRequested[j] THEN "cancelled"
    ELSE IF code[j] = 0 THEN "completed" ELSE "failed"

\* Mutants: the finally block leaves the run, or leaves the control file.
ForgetKeepsRun(J)  == controlFile' = controlFile \ J /\ UNCHANGED runs
ForgetKeepsFile(J) == runs' = runs \ J /\ UNCHANGED controlFile

\* The finally block of the task, for the jobs in J.
Forget(J) ==
    /\ runs' = runs \ J
    /\ controlFile' = controlFile \ J

\* Mutants: the readers are not awaited; a reader's exception is not caught.
DrainedNoGather(j)     == TRUE
DrainedNoExceptions(j) == reader[j] = "eof"

\* gather(..., return_exceptions=True) over the two readers.
Drained(j) == reader[j] \in {"eof", "dead"}

Complete(j) ==
    /\ LoopRuns
    /\ waitTask[j] = "draining"
    /\ Drained(j)
    /\ state'    = [state EXCEPT ![j] = Verdict(j)]
    /\ exitCode' = [exitCode EXCEPT ![j] = code[j]]
    /\ waitTask' = [waitTask EXCEPT ![j] = "done"]
    /\ Forget({j})
    /\ UNCHANGED <<stopRequested, reader, procVars, callerVars, appVars>>

-----------------------------------------------------------------------------
(* JobSupervisor.terminate, one coroutine per caller.                      *)

SendTerminate(j) ==
    signal' = IF proc[j] = "alive" /\ signal[j] = "none"
              THEN [signal EXCEPT ![j] = "term"]
              ELSE signal

\* Everything up to the first wait_for, for a job that has a ManagedRun.
RequestStop(c, j) ==
    /\ j \in runs
    /\ pc[c] = "idle"
    /\ target'        = [target EXCEPT ![c] = j]
    /\ stopRequested' = [stopRequested EXCEPT ![j] = TRUE]
    /\ state'         = [state EXCEPT ![j] = "stopping"]
    /\ IF j \in ControlJobs
       THEN /\ controlFile' = controlFile \cup {j}
            /\ pc' = [pc EXCEPT ![c] = "fileWait"]
            /\ UNCHANGED signal
       ELSE /\ SendTerminate(j)
            /\ pc' = [pc EXCEPT ![c] = "termWait"]
            /\ UNCHANGED controlFile
    /\ UNCHANGED <<exitCode, runs, waitTask, reader, proc, code, child, left,
                   pipe>>

\* A client's stop of a job without a ManagedRun changes nothing.
Stop(c, j) ==
    /\ Accepting
    /\ RequestStop(c, j)
    /\ UNCHANGED appVars

Waits(c) == pc[c] \in {"fileWait", "termWait", "killWait"}

\* The wait task has finished: terminate() returns.
StopReturns(c) ==
    /\ LoopRuns
    /\ Waits(c)
    /\ waitTask[target[c]] = "done"
    /\ pc' = [pc EXCEPT ![c] = "idle"]
    /\ UNCHANGED <<storeVars, loopVars, procVars, target, appVars>>

\* stop_timeout_seconds went by: wait_for cancels the wait task, whose
\* finally block forgets the run, and raises TimeoutError here.
Expire(c) ==
    LET j == target[c]
        cancels == waitTask[j] \in {"waiting", "draining"}
    IN  /\ LoopRuns
        /\ pc[c] \in {"fileWait", "termWait"}
        /\ waitTask[j] # "cancelled"
        /\ pc' = [pc EXCEPT ![c] =
                    IF @ = "fileWait" THEN "fileExpired" ELSE "termExpired"]
        /\ waitTask' = IF cancels
                       THEN [waitTask EXCEPT ![j] = "cancelled"]
                       ELSE waitTask
        \* a cancelled gather cancels the readers it waits on
        /\ reader' = IF waitTask[j] = "draining" /\ reader[j] = "open"
                     THEN [reader EXCEPT ![j] = "dead"]
                     ELSE reader
        /\ IF cancels THEN Forget({j}) ELSE UNCHANGED <<runs, controlFile>>
        /\ UNCHANGED <<storeVars, stopRequested, procVars, target, appVars>>

\* TimeoutError of the control-file wait is swallowed: terminate the worker.
EscalateToTerminate(c) ==
    /\ LoopRuns
    /\ pc[c] = "fileExpired"
    /\ SendTerminate(target[c])
    /\ pc' = [pc EXCEPT ![c] = "termWait"]
    /\ UNCHANGED <<storeVars, loopVars, proc, code, child, left, pipe, target,
                   appVars>>

\* Mutant: the tree is not killed.
KillTreeNothing(j) == UNCHANGED <<signal, child>>

\* ProcessAdapter.kill_tree: nothing is killed once the root is gone.
KillTree(j) ==
    IF proc[j] = "alive"
    THEN /\ signal' = [signal EXCEPT ![j] = "kill"]
         /\ child' = child \ {j}
    ELSE UNCHANGED <<signal, child>>

EscalateToKill(c) ==
    /\ LoopRuns
    /\ pc[c] = "termExpired"
    /\ KillTree(target[c])
    /\ pc' = [pc EXCEPT ![c] = "killWait"]
    /\ UNCHANGED <<storeVars, loopVars, proc, code, left, pipe, target,
                   appVars>>

\* The wait task was cancelled, by this caller or by another one: waiting on
\* it raises CancelledError out of terminate().  When the caller is a
\* shutdown pass the rest of the pass is lost: /admin/shutdown fails before
\* it raises SIGTERM, the lifespan exit goes down with the error.
StopAborts(c) ==
    /\ LoopRuns
    /\ Waits(c)
    /\ waitTask[target[c]] = "cancelled"
    /\ pc' = [pc EXCEPT ![c] = "idle"]
    /\ phase' = IF c # App THEN phase
                ELSE IF phase = "admin" THEN "serving" ELSE "down"
    /\ UNCHANGED <<storeVars, loopVars, procVars, target, todo>>

-----------------------------------------------------------------------------
(* JobManager.shutdown, run by POST /admin/shutdown and by the lifespan.   *)

\* Mutant: the lifespan exit reuses what /admin/shutdown saw.
ActiveJobsOnce ==
    IF phase = "serving" THEN {j \in Jobs : state[j] \in Active} ELSE todo
ActiveJobs == {j \in Jobs : state[j] \in Active}

BeginAdminShutdown ==
    /\ phase = "serving"
    /\ phase' = "admin"
    /\ todo' = ActiveJobs
    /\ UNCHANGED <<storeVars, loopVars, procVars, callerVars>>

\* SIGTERM, from /admin/shutdown or from outside: uvicorn serves the requests
\* it has accepted, then leaves the lifespan.
BeginClosing ==
    /\ phase \in {"serving", "signalled"}
    /\ \A c \in Callers : pc[c] = "idle"
    /\ phase' = "closing"
    /\ todo' = ActiveJobs
    /\ UNCHANGED <<storeVars, loopVars, procVars, callerVars>>

ShutdownStops(j) ==
    /\ phase \in {"admin", "closing"}
    /\ pc[App] = "idle"
    /\ j \in todo
    /\ todo' = todo \ {j}
    /\ \/ RequestStop(App, j)
       \/ /\ j \notin runs
          /\ UNCHANGED <<storeVars, loopVars, procVars, callerVars>>
    /\ UNCHANGED phase

EndPass ==
    /\ phase \in {"admin", "closing"}
    /\ pc[App] = "idle"
    /\ todo = {}
    /\ phase' = IF phase = "admin" THEN "signalled" ELSE "down"
    /\ UNCHANGED <<storeVars, loopVars, procVars, callerVars, todo>>

-----------------------------------------------------------------------------
Worker(j) ==
    \/ SpawnChild(j) \/ ChildEnds(j) \/ WriteLine(j) \/ HeedControlFile(j)
    \/ WorkerReturns(j) \/ WorkerCrashes(j) \/ WorkerDies(j)

Reader(j) == ReadEof(j) \/ \E kind \in LineKinds : ReadLine(j, kind)

Waiter(j) == ProcessWaited(j) \/ Complete(j)

CallerSteps(c) ==
    StopReturns(c) \/ Expire(c) \/ EscalateToTerminate(c) \/ EscalateToKill(c)
    \/ StopAborts(c)

Next ==
    \/ \E j \in Jobs : Start(j) \/ StartFails(j) \/ Worker(j) \/ Reader(j)
                       \/ Waiter(j) \/ ShutdownStops(j)
    \/ \E c \in Callers, j \in Jobs : Stop(c, j)
    \/ \E c \in AllCallers : CallerSteps(c)
    \/ BeginAdminShutdown \/ BeginClosing \/ EndPass

Spec == Init /\ [][Next]_vars

(* The event loop keeps running its ready callbacks, its timers fire, and  *)
(* the operating system delivers signals to a live process.  Workers,      *)
(* clients and the shutdown owe nothing.                                   *)
Fairness ==
    /\ \A j \in Jobs : /\ WF_vars(Reader(j))
                       /\ WF_vars(Waiter(j))
                       /\ WF_vars(WorkerDies(j))
    /\ \A c \in AllCallers : WF_vars(CallerSteps(c))

FairSpec == Spec /\ Fairness

-----------------------------------------------------------------------------
(* Type invariant. *)
TypeOK ==
    /\ state \in [Jobs -> {"none"} \cup Active \cup Settled]
    /\ exitCode \in [Jobs -> {0, 1, NoCode}]
    /\ runs \subseteq Jobs
    /\ stopRequested \in [Jobs -> BOOLEAN]
    /\ controlFile \subseteq ControlJobs
    /\ waitTask \in [Jobs -> {"none", "waiting", "draining", "done", "cancelled"}]
    /\ reader \in [Jobs -> {"none", "open", "eof", "dead"}]
    /\ proc \in [Jobs -> {"none", "alive", "exited"}]
    /\ code \in [Jobs -> {0, 1}]
    /\ child \subseteq ControlJobs
    /\ signal \in [Jobs -> {"none", "term", "kill"}]
    /\ left \in [Jobs -> 0..MaxLines]
    /\ pipe \in [Jobs -> 0..PipeCapacity]
    /\ pc \in [AllCallers -> Pcs]
    /\ target \in [AllCallers -> Jobs]
    /\ todo \subseteq Jobs
    /\ phase \in {"serving", "admin", "signalled", "closing", "down"}

(* A settled job is over for every part of the supervisor: its worker is   *)
(* gone, nothing reads its output any more, so no late progress line can   *)
(* move it back to running, and neither a run nor a control file is left.  *)
SettledMeansOver ==
    \A j \in Jobs : state[j] \in Settled =>
        /\ proc[j] # "alive"
        /\ reader[j] # "open"
        /\ j \notin runs
        /\ j \notin controlFile

(* The supervisor tracks a run exactly while a task waits for its end:     *)
(* however a wait ends (completion, or cancelled by the timeout of any     *)
(* stop call) the run is forgotten, and never earlier.                     *)
TrackedIffAwaited ==
    \A j \in Jobs : j \in runs <=> waitTask[j] \in {"waiting", "draining"}

(* The supervisor asks a worker to stop only by request: a control file    *)
(* exists, or a signal was sent, only for a job somebody asked to stop,    *)
(* and the file never outlives the run it is meant for.                    *)
StopSignalsAreAsked ==
    \A j \in Jobs :
        /\ j \in controlFile => j \in runs
        /\ j \in controlFile \/ signal[j] # "none" => stopRequested[j]

(* When both shutdown passes have run to the end, every job that is still  *)
(* tracked was asked to stop, whenever it was started: also between the    *)
(* snapshot of /admin/shutdown and the snapshot of the lifespan exit.      *)
ShutdownMissesNobody ==
    phase = "down" /\ todo = {} => \A j \in runs : stopRequested[j]

(* The job layer keeps the contract of JobLifecycle: legal moves only,     *)
(* settled once, after the worker's end, with the verdict its exit code    *)
(* and the stop request call for.                                          *)
Contract == INSTANCE JobLifecycle WITH worker <- proc
KeepsContract == Contract!Spec

(* A job nobody stops is settled once its worker has exited.               *)
FinishedJobIsSettled ==
    \A j \in Jobs : (state[j] = "running" /\ proc[j] = "exited")
                        ~> (state[j] # "running" \/ phase = "down")

(* A stop ends the worker's process and the processes it started: after    *)
(* the bounded timeouts the tree is killed.                                *)
StopEndsTree ==
    \A j \in Jobs : stopRequested[j] ~> (proc[j] = "exited" /\ j \notin child)

(* A job asked to stop is eventually marked cancelled (or otherwise        *)
(* settled) unless the app-service itself goes down first.                 *)
StoppedJobIsSettled ==
    \A j \in Jobs : stopRequested[j] ~> (state[j] \in Settled \/ phase = "down")
=============================================================================
