------------------------ MODULE RuntimeControlProofs ------------------------
(***************************************************************************)
(* Proofs about RuntimeControl, for every set of runtimes and callers and  *)
(* any number of processes: the type invariant, and that whatever way      *)
(* starts, stops, time-outs and ends of processes interleave on the event  *)
(* loop, what is filed under a runtime is awaited, the shared control file *)
(* belongs to it, and a process that was given up is sent terminate(), as  *)
(* no other is; a stop call returns once the process has exited.           *)
(***************************************************************************)
EXTENDS RuntimeControl, TLAPS

(* A caller inside stop() holds on to a process.                           *)
CallerInv(c) ==
    pc[c] \in {"fileWait", "expired", "termWait"} => target[c] \in Procs

TypeInv == TypeOK /\ \A c \in AllCallers : CallerInv(c)

(* The assumption on the constants, named for the proofs.                  *)
USE RuntimeControlAssumption

LEMMA InitTypeInv == Init => TypeInv
  BY DEF Init, TypeInv, TypeOK, CallerInv, Procs, AllCallers

(* Spawning a process of a runtime keeps what it writes in its type.       *)
LEMMA SpawnTypes ==
  ASSUME TypeOK, NEW r \in Runtimes, Spawn(r)
  PROVE  /\ runs' \in [Runtimes -> Procs \cup {None}]
         /\ controlFile' \subseteq Runtimes
         /\ spawned' \in 0..MaxProcs
         /\ owner' \in [Procs -> Runtimes]
         /\ proc' \in [Procs -> {"none", "alive", "leaving", "exited"}]
         /\ waitTask' \in [Procs -> {"none", "waiting", "done", "cancelled"}]
<1>1. spawned + 1 \in Procs BY DEF TypeOK, Spawn, Procs
<1> QED BY <1>1 DEF TypeOK, Spawn, RemoveStaleFile

(* Every step keeps the types; that terminate() is called with a process   *)
(* rests on CallerInv.                                                     *)
LEMMA NextTypeInv == TypeInv /\ [Next]_vars => TypeInv'
<1> SUFFICES ASSUME TypeInv, [Next]_vars PROVE TypeInv'
  OBVIOUS
<1> USE DEF TypeInv, TypeOK, CallerInv, procVars, callerVars, appVars
<1>1. ASSUME NEW c \in Callers, NEW r \in Runtimes, Start(c, r) PROVE TypeInv'
  BY <1>1, SpawnTypes DEF Start, Spawn
<1>2. ASSUME NEW c \in Callers, NEW r \in Runtimes, StartOverExited(c, r)
      PROVE TypeInv'
  BY <1>2 DEF StartOverExited, Finalize, AllCallers
<1>3. ASSUME NEW c \in AllCallers, NEW r \in Runtimes, RequestStop(c, r),
             todo' \subseteq Runtimes, phase' \in {"serving", "closing", "down"}
      PROVE TypeInv'
  BY <1>3 DEF RequestStop
<1>4. ASSUME NEW c \in Callers, NEW r \in Runtimes, Stop(c, r) PROVE TypeInv'
  BY <1>3, <1>4 DEF Stop, AllCallers
<1>5. ASSUME NEW c \in AllCallers, CallerSteps(c) PROVE TypeInv'
  <2>1. CASE Respawn(c)
    <3>1. subject[c] \in Runtimes OBVIOUS
    <3>2. Spawn(subject[c]) BY <2>1 DEF Respawn
    <3>3. /\ runs' \in [Runtimes -> Procs \cup {None}]
          /\ controlFile' \subseteq Runtimes
          /\ spawned' \in 0..MaxProcs
          /\ owner' \in [Procs -> Runtimes]
          /\ proc' \in [Procs -> {"none", "alive", "leaving", "exited"}]
          /\ waitTask' \in [Procs -> {"none", "waiting", "done", "cancelled"}]
      <4> HIDE DEF TypeOK
      <4> QED BY <3>1, <3>2, SpawnTypes
    <3> QED BY <2>1, <3>3 DEF Respawn, Spawn
  <2>2. CASE SpawnFails(c) BY <2>2 DEF SpawnFails, RemoveStaleFile
  <2>3. CASE StopReturns(c) BY <2>3 DEF StopReturns
  <2>4. CASE Expire(c) BY <2>4 DEF Expire, Finalize
  <2>5. CASE Escalate(c) BY <2>5 DEF Escalate, SendTerminate
  <2>6. CASE StopAborts(c) BY <2>6 DEF StopAborts
  <2> QED BY <1>5, <2>1, <2>2, <2>3, <2>4, <2>5, <2>6 DEF CallerSteps
<1>6. ASSUME NEW p \in Procs, Complete(p) PROVE TypeInv'
  BY <1>6 DEF Complete, Finalize
<1>7. ASSUME NEW p \in Procs, HeedFile(p) \/ Crash(p) \/ WorkerEnds(p)
      PROVE TypeInv'
  BY <1>7 DEF HeedFile, Crash, WorkerEnds, HeedSignal, Leave
<1>8. ASSUME NEW r \in Runtimes, ShutdownStops(r) PROVE TypeInv'
  <2>1. CASE RequestStop(App, r)
    BY <1>3, <1>8, <2>1 DEF ShutdownStops, AllCallers
  <2>2. CASE ~RequestStop(App, r) BY <1>8, <2>2 DEF ShutdownStops
  <2> QED BY <2>1, <2>2
<1>9. CASE BeginClosing BY <1>9 DEF BeginClosing
<1>10. CASE EndShutdown BY <1>10 DEF EndShutdown
<1>11. CASE UNCHANGED vars BY <1>11 DEF vars
<1> QED
  BY <1>1, <1>2, <1>4, <1>5, <1>6, <1>7, <1>8, <1>9, <1>10, <1>11 DEF Next

LEMMA TypeInvariance == Spec => []TypeInv
<1> QED BY InitTypeInv, NextTypeInv, PTL DEF Spec

(* What the service keeps of runs, callers and processes stays in its type *)
(* in every behaviour.                                                     *)
THEOREM TypeCorrect == Spec => []TypeOK
<1>1. TypeInv => TypeOK BY DEF TypeInv
<1> QED BY <1>1, TypeInvariance, PTL

-----------------------------------------------------------------------------
(* A number that has not been given to a process has no wait task, so the  *)
(* next process to be spawned is filed under no runtime.                   *)
FreshNumbers == \A p \in Procs : p > spawned => waitTask[p] = "none"

(* With it the three safety invariants are inductive together.             *)
SafetyInv ==
    /\ FreshNumbers
    /\ TrackedIsAwaited
    /\ StopFileIsForTrackedRun
    /\ AbandonedIsTerminated

LEMMA InitSafety == Init => SafetyInv
  BY DEF Init, SafetyInv, FreshNumbers, TrackedIsAwaited, StopFileIsForTrackedRun,
         AbandonedIsTerminated, Running

(* A process that is spawned has a number of its own, and the stop request *)
(* of the one before it is gone.                                           *)
LEMMA SpawnIsSafe ==
  ASSUME TypeInv, SafetyInv, NEW r \in Runtimes, Spawn(r),
         UNCHANGED target,
         \A c \in AllCallers : pc[c] = "expired" => pc'[c] = "expired"
  PROVE  SafetyInv'
<1> USE DEF TypeInv, TypeOK, SafetyInv, Spawn, RemoveStaleFile
<1>1. spawned + 1 \in Procs BY DEF Procs
<1>2. waitTask[spawned + 1] = "none" BY <1>1 DEF FreshNumbers
<1>3. FreshNumbers' BY <1>1 DEF FreshNumbers, Procs
<1>4. TrackedIsAwaited' BY <1>1, <1>2 DEF TrackedIsAwaited
<1>5. StopFileIsForTrackedRun' BY <1>1 DEF StopFileIsForTrackedRun
<1>6. AbandonedIsTerminated' BY <1>1 DEF AbandonedIsTerminated, Running
<1> QED BY <1>3, <1>4, <1>5, <1>6

(* A step that ends the wait for a process takes its run and the control   *)
(* file away with it.                                                      *)
LEMMA NextSafety == TypeInv /\ SafetyInv /\ [Next]_vars => SafetyInv'
<1> SUFFICES ASSUME TypeInv, SafetyInv, [Next]_vars PROVE SafetyInv'
  OBVIOUS
<1> USE DEF procVars, callerVars, appVars
<1>1. ASSUME NEW c \in Callers, NEW r \in Runtimes, Start(c, r) PROVE SafetyInv'
  <2>1. Spawn(r) /\ UNCHANGED <<pc, target>> BY <1>1 DEF Start
  <2>2. \A d \in AllCallers : pc[d] = "expired" => pc'[d] = "expired"
    BY <2>1
  <2> QED BY <2>1, <2>2, SpawnIsSafe
<1>2. ASSUME NEW c \in AllCallers, Respawn(c) PROVE SafetyInv'
  <2>1. subject[c] \in Runtimes BY DEF TypeInv, TypeOK
  <2>2. Spawn(subject[c]) /\ UNCHANGED target BY <1>2 DEF Respawn
  <2>3. \A d \in AllCallers : pc[d] = "expired" => pc'[d] = "expired"
    BY <1>2 DEF Respawn, TypeInv, TypeOK
  <2> QED BY <2>1, <2>2, <2>3, SpawnIsSafe
<1> USE DEF TypeInv, TypeOK, CallerInv, SafetyInv, FreshNumbers, TrackedIsAwaited,
            StopFileIsForTrackedRun, AbandonedIsTerminated, Running
<1>3. ASSUME NEW c \in Callers, NEW r \in Runtimes, StartOverExited(c, r)
      PROVE SafetyInv'
  BY <1>3 DEF StartOverExited, Finalize, AllCallers
<1>4. ASSUME NEW c \in AllCallers, NEW r \in Runtimes, RequestStop(c, r)
      PROVE SafetyInv'
  BY <1>4 DEF RequestStop
<1>5. ASSUME NEW c \in AllCallers, CallerSteps(c) PROVE SafetyInv'
  <2>1. CASE SpawnFails(c) BY <2>1 DEF SpawnFails, RemoveStaleFile
  <2>2. CASE StopReturns(c) BY <2>2 DEF StopReturns
  <2>3. CASE Expire(c) BY <2>3 DEF Expire, Finalize
  <2>4. CASE Escalate(c) BY <2>4 DEF Escalate, SendTerminate
  <2>5. CASE StopAborts(c) BY <2>5 DEF StopAborts
  <2> QED BY <1>2, <1>5, <2>1, <2>2, <2>3, <2>4, <2>5 DEF CallerSteps
<1>6. ASSUME NEW p \in Procs, Complete(p) PROVE SafetyInv'
  BY <1>6 DEF Complete, Finalize
<1>7. ASSUME NEW p \in Procs, HeedFile(p) \/ Crash(p) \/ WorkerEnds(p)
      PROVE SafetyInv'
  BY <1>7 DEF HeedFile, Crash, WorkerEnds, HeedSignal, Leave
<1>8. ASSUME NEW r \in Runtimes, ShutdownStops(r) PROVE SafetyInv'
  BY <1>4, <1>8 DEF ShutdownStops, AllCallers
<1>9. CASE BeginClosing BY <1>9 DEF BeginClosing
<1>10. CASE EndShutdown BY <1>10 DEF EndShutdown
<1>11. CASE UNCHANGED vars BY <1>11 DEF vars
<1> QED
  BY <1>1, <1>3, <1>4, <1>5, <1>6, <1>7, <1>8, <1>9, <1>10, <1>11
  DEF Next, Stop, AllCallers

LEMMA Safety == Spec => []SafetyInv
<1> QED BY InitSafety, NextSafety, TypeInvariance, PTL DEF Spec

(* No interleaving of starts, stops and time-outs leaves a finished or     *)
(* given up run on file: _finalize_run pops by runtime id, but it never    *)
(* pops too little.                                                        *)
THEOREM TrackedRunsAreAwaited == Spec => []TrackedIsAwaited
<1>1. SafetyInv => TrackedIsAwaited BY DEF SafetyInv
<1> QED BY <1>1, Safety, PTL

(* A process just started never finds the stop request that was meant for  *)
(* the one before it in the control file they share.                       *)
THEOREM StopFileBelongsToRun == Spec => []StopFileIsForTrackedRun
<1>1. SafetyInv => StopFileIsForTrackedRun BY DEF SafetyInv
<1> QED BY <1>1, Safety, PTL

(* Every live process whose wait task a time-out cancelled has been sent   *)
(* terminate(), or its stop call is about to.                              *)
THEOREM GivenUpIsTerminated == Spec => []AbandonedIsTerminated
<1>1. SafetyInv => AbandonedIsTerminated BY DEF SafetyInv
<1> QED BY <1>1, Safety, PTL

-----------------------------------------------------------------------------
(* terminate() is sent to processes somebody asked to stop, and no other.  *)
OnlyAskedAreTerminated == signalled \subseteq asked

(* What a stop call knows of the process it stops, whatever is filed under *)
(* the runtime meanwhile: it asked that process, and a wait that was not   *)
(* cancelled ended with it.                                                *)
StopInv ==
    /\ \A c \in AllCallers :
          pc[c] \in {"fileWait", "expired", "termWait"} => target[c] \in asked
    /\ \A p \in Procs : waitTask[p] = "done" => proc[p] = "exited"
    /\ OnlyAskedAreTerminated

LEMMA SpawnKeepsStops ==
  ASSUME TypeInv, SafetyInv, StopInv, NEW r \in Runtimes, Spawn(r),
         UNCHANGED target,
         \A c \in AllCallers : pc'[c] = pc[c] \/ pc'[c] = "idle"
  PROVE  StopInv'
<1>1. spawned + 1 \in Procs BY DEF TypeInv, TypeOK, Spawn, Procs
<1>2. /\ proc' = [proc EXCEPT ![spawned + 1] = "alive"]
      /\ waitTask' = [waitTask EXCEPT ![spawned + 1] = "waiting"]
      /\ UNCHANGED <<asked, signalled, target>>
  BY DEF Spawn
<1> QED BY <1>1, <1>2 DEF TypeInv, TypeOK, StopInv, OnlyAskedAreTerminated

LEMMA NextStops == TypeInv /\ SafetyInv /\ StopInv /\ [Next]_vars => StopInv'
<1> SUFFICES ASSUME TypeInv, SafetyInv, StopInv, [Next]_vars PROVE StopInv'
  OBVIOUS
<1> USE DEF procVars, callerVars, appVars
<1>1. ASSUME NEW c \in Callers, NEW r \in Runtimes, Start(c, r) PROVE StopInv'
  BY <1>1, SpawnKeepsStops DEF Start
<1>2. ASSUME NEW c \in AllCallers, Respawn(c) PROVE StopInv'
  <2>1. subject[c] \in Runtimes BY DEF TypeInv, TypeOK
  <2>2. \A d \in AllCallers : pc'[d] = pc[d] \/ pc'[d] = "idle"
    BY <1>2 DEF Respawn, TypeInv, TypeOK
  <2> QED BY <1>2, <2>1, <2>2, SpawnKeepsStops DEF Respawn
<1> USE DEF TypeInv, TypeOK, CallerInv, StopInv, OnlyAskedAreTerminated
<1>3. ASSUME NEW c \in Callers, NEW r \in Runtimes, StartOverExited(c, r)
      PROVE StopInv'
  BY <1>3 DEF StartOverExited, AllCallers
<1>4. ASSUME NEW c \in AllCallers, NEW r \in Runtimes, RequestStop(c, r)
      PROVE StopInv'
  BY <1>4 DEF RequestStop
<1>5. ASSUME NEW c \in AllCallers, CallerSteps(c) PROVE StopInv'
  <2>1. CASE SpawnFails(c) BY <2>1 DEF SpawnFails
  <2>2. CASE StopReturns(c) BY <2>2 DEF StopReturns
  <2>3. CASE Expire(c) BY <2>3 DEF Expire
  <2>4. CASE Escalate(c) BY <2>4 DEF Escalate, SendTerminate
  <2>5. CASE StopAborts(c) BY <2>5 DEF StopAborts
  <2> QED BY <1>2, <1>5, <2>1, <2>2, <2>3, <2>4, <2>5 DEF CallerSteps
<1>6. ASSUME NEW p \in Procs, Complete(p) PROVE StopInv'
  BY <1>6 DEF Complete
<1>7. ASSUME NEW p \in Procs, HeedFile(p) \/ Crash(p) \/ WorkerEnds(p)
      PROVE StopInv'
  BY <1>7 DEF HeedFile, Crash, WorkerEnds, HeedSignal, Leave
<1>8. ASSUME NEW r \in Runtimes, ShutdownStops(r) PROVE StopInv'
  BY <1>4, <1>8 DEF ShutdownStops, AllCallers
<1>9. CASE BeginClosing BY <1>9 DEF BeginClosing
<1>10. CASE EndShutdown BY <1>10 DEF EndShutdown
<1>11. CASE UNCHANGED vars BY <1>11 DEF vars
<1> QED
  BY <1>1, <1>3, <1>4, <1>5, <1>6, <1>7, <1>8, <1>9, <1>10, <1>11
  DEF Next, Stop, AllCallers

LEMMA Stops == Spec => []StopInv
<1>1. Init => StopInv
  BY DEF Init, StopInv, OnlyAskedAreTerminated, AllCallers
<1> QED BY <1>1, NextStops, TypeInvariance, Safety, PTL DEF Spec

(* Though runs and control files are shared by the processes of a runtime, *)
(* terminate() reaches no process that was not asked to stop: stop() holds *)
(* on to the ManagedRuntime it asked.                                      *)
THEOREM NobodyElseIsTerminated == Spec => []OnlyAskedAreTerminated
<1>1. StopInv => OnlyAskedAreTerminated BY DEF StopInv
<1> QED BY <1>1, Stops, PTL

(* A stop call returns without an error only when the process it asked has *)
(* exited; a process started over meanwhile does not answer for it.        *)
THEOREM StopReturnsAfterExit ==
  Spec => [][\A c \in AllCallers : StopReturns(c) => proc[target[c]] = "exited"]_vars
<1>1. TypeInv /\ StopInv => \A c \in AllCallers : StopReturns(c) => proc[target[c]] = "exited"
  BY DEF TypeInv, CallerInv, StopInv, StopReturns
<1> QED BY <1>1, TypeInvariance, Stops, PTL
=============================================================================
