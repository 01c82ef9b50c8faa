------------------------ MODULE JobSupervisorProofs ------------------------
(***************************************************************************)
(* Proofs about JobSupervisor, for every set of jobs, callers and bounds:  *)
(* the type invariant, the invariant that couples the record of a job, its *)
(* wait task, its readers and its process, the safety invariants that      *)
(* follow from it, and that every behaviour keeps the JobLifecycle         *)
(* contract.                                                               *)
(***************************************************************************)
EXTENDS JobSupervisor, TLAPS

Awaited(j) == waitTask[j] \in {"waiting", "draining"}

(* What ties the store, the wait task, the readers and the process of one  *)
(* job together.                                                           *)
JobInv(j) ==
    /\ j \in runs <=> Awaited(j)
    /\ waitTask[j] = "none" =>
          /\ state[j] \in {"none", "failed"}
          /\ proc[j] = "none"
          /\ reader[j] = "none"
          /\ ~stopRequested[j]
    /\ state[j] = "none" => waitTask[j] = "none" /\ code[j] = 0
    /\ Awaited(j) =>
          /\ state[j] = IF stopRequested[j] THEN "stopping" ELSE "running"
          /\ proc[j] \in {"alive", "exited"}
    /\ waitTask[j] \in {"draining", "done"} => proc[j] = "exited"
    /\ waitTask[j] = "done" => state[j] \in Settled /\ reader[j] \in {"eof", "dead"}
    /\ waitTask[j] = "cancelled" => state[j] = "stopping" /\ stopRequested[j]
    /\ j \in controlFile => j \in runs /\ stopRequested[j]
    /\ signal[j] # "none" => stopRequested[j]

(* A caller inside terminate() is stopping a job that was asked to stop.   *)
CallerInv(c) ==
    pc[c] # "idle" => stopRequested[target[c]] /\ waitTask[target[c]] # "none"

IInv ==
    /\ TypeOK
    /\ \A j \in Jobs : JobInv(j)
    /\ \A c \in AllCallers : CallerInv(c)

(* The configuration constants of the model, named for the proofs.         *)
USE JobSupervisorAssumption

LEMMA InitTypeOK == Init => TypeOK
  BY DEF Init, TypeOK, Active, Settled, NoCode, Pcs, AllCallers

(* Every step keeps the types.                                             *)
LEMMA NextTypeOK == TypeOK /\ [Next]_vars => TypeOK'
<1> SUFFICES ASSUME TypeOK, [Next]_vars PROVE TypeOK'
  OBVIOUS
<1> USE DEF TypeOK, storeVars, loopVars, procVars, callerVars, appVars
<1>1. ASSUME NEW j \in Jobs, Start(j) PROVE TypeOK'
  BY <1>1 DEF Start, Active
<1>2. ASSUME NEW j \in Jobs, StartFails(j) PROVE TypeOK'
  BY <1>2 DEF StartFails, Settled
<1>3. ASSUME NEW j \in Jobs, Worker(j) PROVE TypeOK'
  <2>1. CASE SpawnChild(j) BY <2>1 DEF SpawnChild
  <2>2. CASE ChildEnds(j) BY <2>2 DEF ChildEnds
  <2>3. CASE WriteLine(j) BY <2>3 DEF WriteLine
  <2>4. CASE HeedControlFile(j) BY <2>4 DEF HeedControlFile
  <2>5. CASE WorkerReturns(j) BY <2>5 DEF WorkerReturns, Exit
  <2>6. CASE WorkerCrashes(j) BY <2>6 DEF WorkerCrashes, Exit
  <2>7. CASE WorkerDies(j) BY <2>7 DEF WorkerDies, Exit
  <2> QED BY <1>3, <2>1, <2>2, <2>3, <2>4, <2>5, <2>6, <2>7 DEF Worker
<1>4. ASSUME NEW j \in Jobs, Reader(j) PROVE TypeOK'
  <2>1. CASE ReadEof(j) BY <2>1 DEF ReadEof
  <2>2. ASSUME NEW kind \in LineKinds, ReadLine(j, kind) PROVE TypeOK'
    BY <2>2 DEF ReadLine, StateAfterProgress, Active
  <2> QED BY <1>4, <2>1, <2>2 DEF Reader
<1>5. ASSUME NEW j \in Jobs, Waiter(j) PROVE TypeOK'
  <2>1. CASE ProcessWaited(j) BY <2>1 DEF ProcessWaited
  <2>2. CASE Complete(j)
    BY <2>2 DEF Complete, Forget, Verdict, Settled, Drained
  <2> QED BY <1>5, <2>1, <2>2 DEF Waiter
<1>6. ASSUME NEW c \in AllCallers, NEW j \in Jobs, RequestStop(c, j),
             todo' \subseteq Jobs, UNCHANGED phase
      PROVE TypeOK'
  BY <1>6 DEF RequestStop, SendTerminate, Active, Pcs
<1>7. ASSUME NEW c \in Callers, NEW j \in Jobs, Stop(c, j) PROVE TypeOK'
  BY <1>6, <1>7 DEF Stop, AllCallers
<1>8. ASSUME NEW j \in Jobs, ShutdownStops(j) PROVE TypeOK'
  <2>1. todo' \subseteq Jobs /\ UNCHANGED phase /\ App \in AllCallers
    BY <1>8 DEF ShutdownStops, AllCallers
  <2>2. CASE RequestStop(App, j) BY <1>6, <2>1, <2>2
  <2>3. CASE ~RequestStop(App, j) BY <1>8, <2>1, <2>3 DEF ShutdownStops
  <2> QED BY <2>2, <2>3
<1>9. ASSUME NEW c \in AllCallers, CallerSteps(c) PROVE TypeOK'
  <2>1. CASE StopReturns(c) BY <2>1 DEF StopReturns, Pcs
  <2>2. CASE Expire(c) BY <2>2 DEF Expire, Forget, Pcs
  <2>3. CASE EscalateToTerminate(c)
    BY <2>3 DEF EscalateToTerminate, SendTerminate, Pcs
  <2>4. CASE EscalateToKill(c) BY <2>4 DEF EscalateToKill, KillTree, Pcs
  <2>5. CASE StopAborts(c) BY <2>5 DEF StopAborts, Pcs
  <2> QED BY <1>9, <2>1, <2>2, <2>3, <2>4, <2>5 DEF CallerSteps
<1>10. CASE BeginAdminShutdown BY <1>10 DEF BeginAdminShutdown, ActiveJobs
<1>11. CASE BeginClosing BY <1>11 DEF BeginClosing, ActiveJobs
<1>12. CASE EndPass BY <1>12 DEF EndPass
<1>13. CASE UNCHANGED vars BY <1>13 DEF vars
<1> QED
  BY <1>1, <1>2, <1>3, <1>4, <1>5, <1>7, <1>8, <1>9, <1>10, <1>11, <1>12, <1>13
  DEF Next

(* Every record the supervisor keeps stays in its type, in every behaviour.*)
THEOREM TypeCorrect == Spec => []TypeOK
<1> QED BY InitTypeOK, NextTypeOK, PTL DEF Spec

-----------------------------------------------------------------------------
LEMMA InitIInv == Init => IInv
<1> SUFFICES ASSUME Init PROVE IInv
  OBVIOUS
<1>1. TypeOK BY InitTypeOK
<1>2. \A j \in Jobs : JobInv(j) BY DEF Init, JobInv, Awaited
<1>3. \A c \in AllCallers : CallerInv(c) BY DEF Init, CallerInv
<1> QED BY <1>1, <1>2, <1>3 DEF IInv

(* The steps of the store, the event loop and the worker on job j leave    *)
(* every other job alone; the callers keep their jobs asked to stop.       *)
LEMMA NextIInv == IInv /\ [Next]_vars => IInv'
<1> SUFFICES ASSUME IInv, [Next]_vars PROVE IInv'
  OBVIOUS
<1>0. TypeOK' BY NextTypeOK DEF IInv
<1> USE DEF IInv, TypeOK, JobInv, Awaited, CallerInv, storeVars, loopVars,
            procVars, callerVars, appVars
<1>1. ASSUME NEW j \in Jobs, Start(j) PROVE IInv'
  <2>1. \A k \in Jobs : JobInv(k)' BY <1>1 DEF Start
  <2>2. \A c \in AllCallers : CallerInv(c)' BY <1>1 DEF Start
  <2> QED BY <1>0, <2>1, <2>2
<1>2. ASSUME NEW j \in Jobs, StartFails(j) PROVE IInv'
  BY <1>0, <1>2 DEF StartFails
<1>3. ASSUME NEW j \in Jobs, Worker(j) PROVE IInv'
  <2>1. CASE SpawnChild(j) BY <1>0, <2>1 DEF SpawnChild
  <2>2. CASE ChildEnds(j) BY <1>0, <2>2 DEF ChildEnds
  <2>3. CASE WriteLine(j) BY <1>0, <2>3 DEF WriteLine
  <2>4. CASE HeedControlFile(j) BY <1>0, <2>4 DEF HeedControlFile
  <2>5. CASE WorkerReturns(j) BY <1>0, <2>5 DEF WorkerReturns, Exit
  <2>6. CASE WorkerCrashes(j) BY <1>0, <2>6 DEF WorkerCrashes, Exit
  <2>7. CASE WorkerDies(j) BY <1>0, <2>7 DEF WorkerDies, Exit
  <2> QED BY <1>3, <2>1, <2>2, <2>3, <2>4, <2>5, <2>6, <2>7 DEF Worker
<1>4. ASSUME NEW j \in Jobs, Reader(j) PROVE IInv'
  <2>1. CASE ReadEof(j) BY <1>0, <2>1 DEF ReadEof
  <2>2. ASSUME NEW kind \in LineKinds, ReadLine(j, kind) PROVE IInv'
    BY <1>0, <2>2 DEF ReadLine, StateAfterProgress
  <2> QED BY <1>4, <2>1, <2>2 DEF Reader
<1>5. ASSUME NEW j \in Jobs, Waiter(j) PROVE IInv'
  <2>1. CASE ProcessWaited(j) BY <1>0, <2>1 DEF ProcessWaited
  <2>2. CASE Complete(j)
    BY <1>0, <2>2 DEF Complete, Forget, Verdict, Settled, Drained
  <2> QED BY <1>5, <2>1, <2>2 DEF Waiter
<1>6. ASSUME NEW c \in AllCallers, NEW j \in Jobs, RequestStop(c, j)
      PROVE IInv'
  <2>1. \A k \in Jobs : JobInv(k)'
    BY <1>6 DEF RequestStop, SendTerminate
  <2>2. \A d \in AllCallers : CallerInv(d)'
    BY <1>6 DEF RequestStop
  <2> QED BY <1>0, <2>1, <2>2
<1>7. ASSUME NEW c \in Callers, NEW j \in Jobs, Stop(c, j) PROVE IInv'
  BY <1>6, <1>7 DEF Stop, AllCallers
<1>8. ASSUME NEW j \in Jobs, ShutdownStops(j) PROVE IInv'
  <2>1. CASE RequestStop(App, j) BY <1>6, <2>1 DEF AllCallers
  <2>2. CASE ~RequestStop(App, j) BY <1>0, <1>8, <2>2 DEF ShutdownStops
  <2> QED BY <2>1, <2>2
<1>9. ASSUME NEW c \in AllCallers, CallerSteps(c) PROVE IInv'
  <2>1. CASE StopReturns(c) BY <1>0, <2>1 DEF StopReturns
  <2>2. CASE Expire(c)
    <3>1. \A k \in Jobs : JobInv(k)'
      BY <2>2 DEF Expire, Forget
    <3>2. \A d \in AllCallers : CallerInv(d)'
      BY <2>2 DEF Expire
    <3> QED BY <1>0, <3>1, <3>2
  <2>3. CASE EscalateToTerminate(c)
    BY <1>0, <2>3 DEF EscalateToTerminate, SendTerminate
  <2>4. CASE EscalateToKill(c) BY <1>0, <2>4 DEF EscalateToKill, KillTree
  <2>5. CASE StopAborts(c) BY <1>0, <2>5 DEF StopAborts
  <2> QED BY <1>9, <2>1, <2>2, <2>3, <2>4, <2>5 DEF CallerSteps
<1>10. CASE BeginAdminShutdown BY <1>0, <1>10 DEF BeginAdminShutdown
<1>11. CASE BeginClosing BY <1>0, <1>11 DEF BeginClosing
<1>12. CASE EndPass BY <1>0, <1>12 DEF EndPass
<1>13. CASE UNCHANGED vars BY <1>0, <1>13 DEF vars
<1> QED
  BY <1>1, <1>2, <1>3, <1>4, <1>5, <1>7, <1>8, <1>9, <1>10, <1>11, <1>12, <1>13
  DEF Next

(* No interleaving of requests, workers, time-outs, shutdowns and crashes   *)
(* leads out of the inductive invariant.                                   *)
THEOREM Invariance == Spec => []IInv
<1> QED BY InitIInv, NextIInv, PTL DEF Spec

(* A settled job is over: no live worker, no reader that could still move  *)
(* it, no run and no control file.                                         *)
THEOREM SettledIsOver == Spec => []SettledMeansOver
<1>1. IInv => SettledMeansOver
  BY DEF IInv, JobInv, Awaited, SettledMeansOver, Settled, TypeOK
<1> QED BY <1>1, Invariance, PTL

(* _runs holds exactly the runs whose end a task awaits.                   *)
THEOREM TrackedExactlyWhileAwaited == Spec => []TrackedIffAwaited
<1>1. IInv => TrackedIffAwaited
  BY DEF IInv, JobInv, Awaited, TrackedIffAwaited
<1> QED BY <1>1, Invariance, PTL

(* Nothing is stopped unasked, and no control file outlives its run.       *)
THEOREM StopsAreAsked == Spec => []StopSignalsAreAsked
<1>1. IInv => StopSignalsAreAsked
  BY DEF IInv, JobInv, StopSignalsAreAsked
<1> QED BY <1>1, Invariance, PTL

-----------------------------------------------------------------------------
(* What the two shutdown passes have left to do: App is inside terminate() *)
(* only during a pass, and from the last snapshot on every tracked job was *)
(* asked to stop or is still to be.                                        *)
ClosingInv ==
    /\ pc[App] # "idle" => phase \in {"admin", "closing"}
    /\ phase \in {"closing", "down"} => \A j \in runs : stopRequested[j] \/ j \in todo

LEMMA InitClosing == Init => ClosingInv
  BY DEF Init, ClosingInv, AllCallers

(* No job is started once the lifespan has begun to close, and no step     *)
(* takes a stop request back.                                              *)
LEMMA NextClosing == IInv /\ ClosingInv /\ [Next]_vars => ClosingInv'
<1> SUFFICES ASSUME IInv, ClosingInv, [Next]_vars PROVE ClosingInv'
  OBVIOUS
<1> USE DEF IInv, TypeOK, ClosingInv, AllCallers, storeVars, loopVars,
            procVars, callerVars, appVars
<1>1. ASSUME NEW j \in Jobs, Start(j) PROVE ClosingInv'
  BY <1>1 DEF Start, Accepting
<1>2. ASSUME NEW j \in Jobs, StartFails(j) PROVE ClosingInv'
  BY <1>2 DEF StartFails
<1>3. ASSUME NEW j \in Jobs, Worker(j) PROVE ClosingInv'
  BY <1>3 DEF Worker, SpawnChild, ChildEnds, WriteLine, HeedControlFile,
              WorkerReturns, WorkerCrashes, WorkerDies, Exit
<1>4. ASSUME NEW j \in Jobs, Reader(j) PROVE ClosingInv'
  BY <1>4 DEF Reader, ReadEof, ReadLine
<1>5. ASSUME NEW j \in Jobs, Waiter(j) PROVE ClosingInv'
  BY <1>5 DEF Waiter, ProcessWaited, Complete, Forget
<1>6. ASSUME NEW c \in Callers, NEW j \in Jobs, Stop(c, j) PROVE ClosingInv'
  BY <1>6 DEF Stop, RequestStop
<1>7. ASSUME NEW j \in Jobs, ShutdownStops(j) PROVE ClosingInv'
  BY <1>7 DEF ShutdownStops, RequestStop
<1>8. ASSUME NEW c \in AllCallers, CallerSteps(c) PROVE ClosingInv'
  <2>1. CASE StopReturns(c) BY <2>1 DEF StopReturns
  <2>2. CASE Expire(c) BY <2>2 DEF Expire, Forget
  <2>3. CASE EscalateToTerminate(c) BY <2>3 DEF EscalateToTerminate
  <2>4. CASE EscalateToKill(c) BY <2>4 DEF EscalateToKill
  <2>5. CASE StopAborts(c) BY <2>5 DEF StopAborts, Waits
  <2> QED BY <1>8, <2>1, <2>2, <2>3, <2>4, <2>5 DEF CallerSteps
<1>9. CASE BeginAdminShutdown BY <1>9 DEF BeginAdminShutdown
<1>10. CASE BeginClosing
  BY <1>10 DEF BeginClosing, ActiveJobs, Active, JobInv, Awaited
<1>11. CASE EndPass BY <1>11 DEF EndPass
<1>12. CASE UNCHANGED vars BY <1>12 DEF vars
<1> QED
  BY <1>1, <1>2, <1>3, <1>4, <1>5, <1>6, <1>7, <1>8, <1>9, <1>10, <1>11, <1>12
  DEF Next

(* Once both shutdown passes have run to the end, every job that is still  *)
(* tracked was asked to stop, whenever it was started.                     *)
THEOREM ShutdownReachesAll == Spec => []ShutdownMissesNobody
<1>1. ClosingInv => ShutdownMissesNobody
  BY DEF ClosingInv, ShutdownMissesNobody
<1> QED BY <1>1, InitClosing, NextClosing, Invariance, PTL DEF Spec

-----------------------------------------------------------------------------
(* Every step of the supervisor is a step of the contract, or changes      *)
(* nothing the contract speaks of.                                         *)
LEMMA StepKeepsContract ==
  IInv /\ [Next]_vars => [Contract!Next]_(Contract!lifecycleVars)
<1> SUFFICES ASSUME IInv, [Next]_vars
             PROVE  \/ \E j \in Jobs :
                          \/ Contract!Launch(j) \/ Contract!FailLaunch(j)
                          \/ Contract!AskStop(j) \/ Contract!WorkerEnds(j)
                          \/ Contract!Settle(j)
                    \/ UNCHANGED <<state, proc, code>>
  BY DEF Contract!Next, Contract!lifecycleVars
<1> USE DEF IInv, TypeOK, JobInv, Awaited, storeVars, loopVars, procVars,
            callerVars, appVars
<1>1. ASSUME NEW j \in Jobs, Start(j) PROVE Contract!Launch(j)
  BY <1>1 DEF Start, Contract!Launch
<1>2. ASSUME NEW j \in Jobs, StartFails(j) PROVE Contract!FailLaunch(j)
  BY <1>2 DEF StartFails, Contract!FailLaunch
<1>3. ASSUME NEW j \in Jobs, Worker(j)
      PROVE  Contract!WorkerEnds(j) \/ UNCHANGED <<state, proc, code>>
  BY <1>3 DEF Worker, SpawnChild, ChildEnds, WriteLine, HeedControlFile,
              WorkerReturns, WorkerCrashes, WorkerDies, Exit,
              Contract!WorkerEnds
<1>4. ASSUME NEW j \in Jobs, Reader(j) PROVE UNCHANGED <<state, proc, code>>
  <2>1. CASE ReadEof(j) BY <2>1 DEF ReadEof
  <2>2. ASSUME NEW kind \in LineKinds, ReadLine(j, kind)
        PROVE  UNCHANGED <<state, proc, code>>
    <3>1. state[j] \in {"running", "stopping"} \/ reader[j] # "open"
      BY DEF Settled
    <3> QED BY <2>2, <3>1 DEF ReadLine, StateAfterProgress
  <2> QED BY <1>4, <2>1, <2>2 DEF Reader
<1>5. ASSUME NEW j \in Jobs, Waiter(j)
      PROVE  Contract!Settle(j) \/ UNCHANGED <<state, proc, code>>
  <2>1. CASE ProcessWaited(j) BY <2>1 DEF ProcessWaited
  <2>2. CASE Complete(j)
    BY <2>2 DEF Complete, Verdict, Contract!Settle, Contract!Verdict
  <2> QED BY <1>5, <2>1, <2>2 DEF Waiter
<1>6. ASSUME NEW c \in AllCallers, NEW j \in Jobs, RequestStop(c, j)
      PROVE  Contract!AskStop(j) \/ UNCHANGED <<state, proc, code>>
  BY <1>6 DEF RequestStop, Contract!AskStop
<1>7. ASSUME NEW c \in Callers, NEW j \in Jobs, Stop(c, j)
      PROVE  Contract!AskStop(j) \/ UNCHANGED <<state, proc, code>>
  BY <1>6, <1>7 DEF Stop, AllCallers
<1>8. ASSUME NEW j \in Jobs, ShutdownStops(j)
      PROVE  Contract!AskStop(j) \/ UNCHANGED <<state, proc, code>>
  BY <1>6, <1>8 DEF ShutdownStops, AllCallers
<1>9. ASSUME NEW c \in AllCallers, CallerSteps(c)
      PROVE  UNCHANGED <<state, proc, code>>
  BY <1>9 DEF CallerSteps, StopReturns, Expire, EscalateToTerminate,
              EscalateToKill, StopAborts
<1>10. ASSUME BeginAdminShutdown \/ BeginClosing \/ EndPass \/ UNCHANGED vars
       PROVE  UNCHANGED <<state, proc, code>>
  BY <1>10 DEF BeginAdminShutdown, BeginClosing, EndPass, vars
<1> QED
  BY <1>1, <1>2, <1>3, <1>4, <1>5, <1>7, <1>8, <1>9, <1>10 DEF Next

(* The supervisor implements the job contract.                             *)
THEOREM SupervisorKeepsContract == Spec => KeepsContract
<1>1. Init => Contract!Init
  BY DEF Init, Contract!Init
<1> QED
  BY <1>1, StepKeepsContract, Invariance, PTL DEF Spec, KeepsContract, Contract!Spec
=============================================================================
