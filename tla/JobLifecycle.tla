---------------------------- MODULE JobLifecycle ----------------------------
(***************************************************************************)
(* What the job layer promises to the clients of /jobs: the life of a job  *)
(* as its state, whether its worker process is alive and the exit code it  *)
(* left, without the asyncio tasks, pipes, files and timeouts that         *)
(* JobSupervisor needs to keep the promise.                                *)
(*                                                                         *)
(* A job is launched or fails to launch; a client may ask it to stop; it   *)
(* is settled, once and for good, only after its worker is gone, as        *)
(* "cancelled" exactly when somebody asked it to stop, else by the exit    *)
(* code of the worker.                                                     *)
(***************************************************************************)
EXTENDS Naturals

CONSTANT Jobs        \* the identifiers of the jobs that may be started

VARIABLES
    state,           \* the JobState a client reads, "none" before POST /jobs
    worker,          \* "none", "alive" or "exited"
    code             \* exit code of the worker: 0, or 1 for every other value

lifecycleVars == <<state, worker, code>>

Settled == {"completed", "failed", "cancelled"}

Init ==
    /\ state  = [j \in Jobs |-> "none"]
    /\ worker = [j \in Jobs |-> "none"]
    /\ code   = [j \in Jobs |-> 0]

Launch(j) ==
    /\ state[j] = "none"
    /\ state'  = [state EXCEPT ![j] = "running"]
    /\ worker' = [worker EXCEPT ![j] = "alive"]
    /\ UNCHANGED code

FailLaunch(j) ==
    /\ state[j] = "none"
    /\ state' = [state EXCEPT ![j] = "failed"]
    /\ UNCHANGED <<worker, code>>

AskStop(j) ==
    /\ state[j] = "running"
    /\ state' = [state EXCEPT ![j] = "stopping"]
    /\ UNCHANGED <<worker, code>>

WorkerEnds(j) ==
    /\ worker[j] = "alive"
    /\ worker' = [worker EXCEPT ![j] = "exited"]
    /\ \E c \in {0, 1} : code' = [code EXCEPT ![j] = c]
    /\ UNCHANGED state

Verdict(j) ==
    IF state[j] = "stopping" THEN "cancelled"
    ELSE IF code[j] = 0 THEN "completed" ELSE "failed"

Settle(j) ==
    /\ state[j] \in {"running", "stopping"}
    /\ worker[j] = "exited"
    /\ state' = [state EXCEPT ![j] = Verdict(j)]
    /\ UNCHANGED <<worker, code>>

Next ==
    \E j \in Jobs :
        Launch(j) \/ FailLaunch(j) \/ AskStop(j) \/ WorkerEnds(j) \/ Settle(j)

Spec == Init /\ [][Next]_lifecycleVars
=============================================================================
