------------------------ MODULE FuturesRuntimeProofs ------------------------
(***************************************************************************)
(* Proofs about FuturesRuntime, for any bounds on quantities, orders,      *)
(* executions and restarts: the type invariant, the lock on rows without a *)
(* position, that every execution counts once, and that the runtime        *)
(* implements ProtectionLifecycle.                                         *)
(***************************************************************************)
EXTENDS FuturesRuntime, FiniteSetFacts, TLAPS

(* The code between a write of the protection phase and its outcome has a  *)
(* position.                                                               *)
Protecting == pc \in {"apply", "verify", "verified", "emergency"}

(* Before the recovery nothing is known; the loop proper runs after it.    *)
RecoveryInv ==
    /\ pc \in {"cancelAll", "recover", "replay"} => ~started
    /\ pc \notin {"reconcile", "reconciled", "cancelAll", "recover", "replay"} =>
           started
    /\ pc # "replay" /\ ~started => seen = {}

TypeInv == TypeOK /\ (Protecting => net # 0) /\ RecoveryInv

(* The assumption on the constants, named for the proofs.                  *)
USE FuturesRuntimeAssumption

(* The oldest of some executions is one of them.                           *)
LEMMA Next1IsLeast ==
  ASSUME NEW n \in Nat, NEW S, S \subseteq 1..n, S # {}
  PROVE  Next1(S) \in S
<1>1. \E i \in S : \A k \in S : i <= k
  <2>1. 1 \in Int /\ n \in Int OBVIOUS
  <2> QED BY <2>1, LeastOfInterval
<1> QED BY <1>1 DEF Next1

LEMMA SideTypes ==
  ASSUME NEW q \in Int
  PROVE  /\ Side(q) \in {-1, 0, 1}
         /\ q # 0 => Side(q) \in Sides /\ Side(-q) \in Sides
         /\ Size(q) \in Nat /\ Size(-q) \in Nat
  BY DEF Side, Size, Sides

LEMMA WriteRowTypes ==
  ASSUME TypeOK, NEW s \in Sides, NEW o \in BOOLEAN, NEW st \in Statuses,
         WriteRow(s, o, st)
  PROVE  /\ row' \in [Sides -> [open : BOOLEAN, status : Statuses]]
         /\ latest' \subseteq Sides
  BY DEF TypeOK, WriteRow, Stamp

LEMMA OrdersWithTypes ==
  ASSUME NEW resting \in [Kinds -> [Sides -> Nat]], NEW k \in Kinds,
         NEW q \in Int, q # 0
  PROVE  OrdersWith(resting, k, q) \in [Kinds -> [Sides -> Nat]]
  BY SideTypes DEF OrdersWith

LEMMA InitTypeInv == Init => TypeInv
<1> SUFFICES ASSUME Init PROVE TypeInv
  OBVIOUS
<1>1. execs \in Seq(Int \ {0}) /\ Len(execs) = 0 BY DEF Init
<1>2. orders \in [Kinds -> [Sides -> Nat]] BY DEF Init, NoOrders
<1>3. row \in [Sides -> [open : BOOLEAN, status : Statuses]]
  BY DEF Init, Statuses
<1>4. answer \in [ok : BOOLEAN, side : {-1, 0, 1}, stops : BOOLEAN]
  BY DEF Init, NoAnswer
<1>5. Len(execs) <= MaxExecs BY <1>1
<1>6. crashes \in 0..MaxCrashes BY DEF Init
<1>7. ~xstops BY Zenon DEF Init
<1>8. xstops \in BOOLEAN /\ started \in BOOLEAN /\ attempted \in BOOLEAN
      /\ phantom \in BOOLEAN
  BY DEF Init
<1>9. /\ xpos = 0 /\ net = 0 /\ pc = "reconcile" /\ stored = {} /\ latest = {}
      /\ locks = {} /\ seen = {} /\ todo = {}
  BY DEF Init
<1> QED
  BY <1>1, <1>2, <1>3, <1>4, <1>5, <1>6, <1>7, <1>8, <1>9
  DEF TypeInv, TypeOK, Protecting, RecoveryInv, RecoveryInv

(* An execution on the exchange lengthens the list and moves the position; *)
(* a stop loss and a take profit do not outlive the position.              *)
LEMMA ExecutesTypes ==
  ASSUME TypeInv, NEW q \in Int, q # 0, Executes(q),
         orders' \in [Kinds -> [Sides -> Nat]],
         UNCHANGED <<database, pc, memory>>
  PROVE  TypeInv'
<1> USE DEF TypeInv, TypeOK
<1>1. execs' \in Seq(Int \ {0}) /\ Len(execs') = Len(execs) + 1
  BY DEF Executes
<1>2. AllExecs \subseteq AllExecs' BY <1>1 DEF AllExecs
<1>3. xpos' \in Int BY DEF Executes
<1>4. xstops' \in BOOLEAN BY DEF Executes
<1>5. xstops' => xpos' # 0
  <2>1. xpos + q = 0 /\ xpos # 0 => Side(xpos + q) # Side(xpos) BY DEF Side
  <2>2. xpos' = xpos + q BY DEF Executes
  <2>3. xstops' => xstops /\ Side(xpos + q) = Side(xpos) BY Zenon DEF Executes
  <2>4. xstops => xpos # 0 OBVIOUS
  <2> HIDE DEF TypeOK
  <2> QED BY <2>1, <2>2, <2>3, <2>4
<1>6. Len(execs') <= MaxExecs BY <1>1 DEF Executes
<1>7. UNCHANGED <<stored, row, latest, locks, pc, started, net, seen, todo, attempted,
                  answer, phantom, crashes>>
  BY DEF database, memory
<1> QED BY <1>1, <1>2, <1>3, <1>4, <1>5, <1>6, <1>7 DEF Protecting, RecoveryInv

LEMMA ExchangeTypes == TypeInv /\ Exchange => TypeInv'
<1> SUFFICES ASSUME TypeInv, Exchange PROVE TypeInv'
  OBVIOUS
<1>1. CASE StopFires
  <2>1. -xpos \in Int /\ -xpos # 0 BY <1>1 DEF StopFires, TypeInv, TypeOK
  <2>2. orders' \in [Kinds -> [Sides -> Nat]]
    BY <1>1 DEF StopFires, TypeInv, TypeOK
  <2> QED BY <1>1, <2>1, <2>2, ExecutesTypes DEF StopFires
<1>2. ASSUME NEW k \in Kinds, NEW s \in Sides, OrderFills(k, s) PROVE TypeInv'
  <2>1. PICK n \in 1..orders[k][s] :
          /\ orders' = [orders EXCEPT ![k][s] = @ - n]
          /\ Executes(s * n)
          /\ UNCHANGED <<database, pc, memory>>
    BY <1>2 DEF OrderFills
  <2>2. orders[k][s] \in Nat BY DEF TypeInv, TypeOK
  <2>3. s * n \in Int /\ s * n # 0 BY <2>2 DEF Sides
  <2>4. orders' \in [Kinds -> [Sides -> Nat]]
    BY <2>1, <2>2 DEF TypeInv, TypeOK
  <2> QED BY <2>1, <2>3, <2>4, ExecutesTypes
<1>3. ASSUME NEW k \in Kinds, NEW s \in Sides, OrderLapses(k, s) PROVE TypeInv'
  BY <1>3 DEF OrderLapses, TypeInv, TypeOK, Protecting, RecoveryInv, database, memory, AllExecs
<1> QED BY <1>1, <1>2, <1>3 DEF Exchange

LEMMA ReconciliationTypes == TypeInv /\ Reconciliation => TypeInv'
<1> SUFFICES ASSUME TypeInv, Reconciliation PROVE TypeInv'
  OBVIOUS
<1>1. CASE GetPositions
  <2>1. answer' \in [ok : BOOLEAN, side : {-1, 0, 1}, stops : BOOLEAN]
    <3>1. xpos \in Int /\ xstops \in BOOLEAN BY DEF TypeInv, TypeOK
    <3>2. Side(xpos) \in {-1, 0, 1} BY <3>1, SideTypes
    <3>3. ExchangeView \in [ok : BOOLEAN, side : {-1, 0, 1}, stops : BOOLEAN]
      BY <3>1, <3>2 DEF ExchangeView
    <3>4. NoAnswer \in [ok : BOOLEAN, side : {-1, 0, 1}, stops : BOOLEAN]
      BY DEF NoAnswer
    <3> QED BY <1>1, <3>3, <3>4 DEF GetPositions
  <2>2. \/ pc = "reconcile" /\ pc' = "reconciled"
        \/ pc = "verify" /\ pc' = "verified"
    BY <1>1 DEF GetPositions, AsksPositions, Answered
  <2> QED
    BY <1>1, <2>1, <2>2
    DEF GetPositions, TypeInv, TypeOK, Protecting, RecoveryInv, exchange, database, AllExecs
<1>2. CASE ReconcilePositions
  <2>1. /\ row' \in [Sides -> [open : BOOLEAN, status : Statuses]]
        /\ latest' \subseteq Sides
    <3>1. CASE answer.ok /\ answer.side # 0
      <4>1. answer.side \in Sides BY <3>1 DEF TypeInv, TypeOK, Sides
      <4>2. ImportedStatus \in Statuses BY DEF ImportedStatus, Statuses, BLOCKING_PROTECTION_STATUSES
      <4>3. WriteRow(answer.side, TRUE, ImportedStatus)
        BY <1>2, <3>1 DEF ReconcilePositions
      <4> QED BY <4>1, <4>2, <4>3, WriteRowTypes DEF TypeInv
    <3>2. CASE ~(answer.ok /\ answer.side # 0)
      BY <1>2, <3>2 DEF ReconcilePositions, TypeInv, TypeOK
    <3> QED BY <3>1, <3>2
  <2>2. locks' \subseteq {"orphaned_position", "local_position_missing"}
    BY <1>2 DEF ReconcilePositions, ActiveLockIssues, TypeInv, TypeOK
  <2>3. pc' \in {"listing", "cancelAll"} BY <1>2 DEF ReconcilePositions
  <2> QED
    BY <1>2, <2>1, <2>2, <2>3
    DEF ReconcilePositions, TypeInv, TypeOK, Protecting, RecoveryInv, exchange, memory, AllExecs
<1> QED BY <1>1, <1>2 DEF Reconciliation

(* An execution that is taken up was there and not seen before.            *)
LEMMA OldestExecution ==
  ASSUME TypeInv, todo # {}, NEW i, i = Next1(todo)
  PROVE  /\ i \in todo /\ i \in AllExecs /\ i \notin seen
         /\ execs[i] \in Int /\ execs[i] # 0
<1>1. AllExecs = 1..Len(execs) /\ Len(execs) \in Nat BY DEF TypeInv, TypeOK, AllExecs
<1>2. todo \subseteq 1..Len(execs) BY <1>1 DEF TypeInv, TypeOK
<1>3. i \in todo BY <1>1, <1>2, Next1IsLeast
<1>4. \A k \in 1..Len(execs) : execs[k] \in Int \ {0} BY DEF TypeInv, TypeOK
<1> QED BY <1>1, <1>3, <1>4 DEF TypeInv, TypeOK

LEMMA ConsumeTypes ==
  ASSUME TypeInv, NEW i \in 1..MaxExecs, Consume(i)
  PROVE  /\ net' \in Int
         /\ stored' \subseteq AllExecs' /\ seen' \subseteq AllExecs'
         /\ todo' \subseteq AllExecs' \ seen'
         /\ UNCHANGED <<xpos, xstops, orders, execs, locks, started, answer,
                        phantom, crashes>>
  BY OldestExecution
  DEF Consume, apply_fill, TypeInv, TypeOK, AllExecs, exchange

LEMMA FillTypes ==
  ASSUME TypeInv, NEW i \in 1..MaxExecs,
         FillFlattens(i) \/ FillThrottled(i) \/ FillProtects(i) \/ FillPlanFails(i)
  PROVE  TypeInv'
<1>1. Consume(i) BY DEF FillFlattens, FillThrottled, FillProtects, FillPlanFails
<1>2. net' \in Int BY <1>1, ConsumeTypes
<1>3. /\ row' \in [Sides -> [open : BOOLEAN, status : Statuses]]
      /\ latest' \subseteq Sides
  <2> USE DEF Statuses, BLOCKING_PROTECTION_STATUSES, TypeInv
  <2>1. CASE FillFlattens(i)
    <3>1. WriteRow(IF net > 0 THEN 1 ELSE -1, FALSE, "closed")
      BY <2>1 DEF FillFlattens
    <3>2. (IF net > 0 THEN 1 ELSE -1) \in Sides BY DEF Sides
    <3> QED BY <3>1, <3>2, WriteRowTypes
  <2>2. CASE FillThrottled(i) BY <2>2 DEF FillThrottled, TypeOK
  <2>3. CASE FillProtects(i)
    <3>1. WriteRow(Side(net'), TRUE, ApplyPhase(Side(net')))
      BY <2>3 DEF FillProtects
    <3>2. Side(net') \in Sides BY <1>2, <2>3, SideTypes DEF FillProtects
    <3>3. ApplyPhase(Side(net')) \in Statuses BY DEF ApplyPhase
    <3> QED BY <3>1, <3>2, <3>3, WriteRowTypes
  <2>4. CASE FillPlanFails(i)
    <3>1. WriteRow(Side(net'), TRUE, "failed") BY <2>4 DEF FillPlanFails
    <3>2. Side(net') \in Sides BY <1>2, <2>4, SideTypes DEF FillPlanFails
    <3> QED BY <3>1, <3>2, WriteRowTypes
  <2> QED BY <2>1, <2>2, <2>3, <2>4
<1>4. /\ pc' = "fills" \/ (pc' = "apply" /\ net' # 0)
      /\ attempted' \in BOOLEAN
  BY DEF FillFlattens, FillThrottled, FillProtects, FillPlanFails, Consume,
         TypeInv, TypeOK
<1>5. started BY <1>1 DEF Consume, TypeInv, RecoveryInv
<1> QED BY <1>1, <1>2, <1>3, <1>4, <1>5, ConsumeTypes DEF TypeInv, TypeOK, Protecting, RecoveryInv

(* What _ensure_futures_protection does after the row is written.          *)
LEMMA ProtectionTypes ==
  ASSUME TypeInv,
         \/ SetTradingStop \/ SetTradingStopFails
         \/ EmergencyClose \/ EmergencyCloseFails \/ VerifyProtection
  PROVE  TypeInv'
<1>1. CASE SetTradingStop
  BY <1>1 DEF SetTradingStop, TypeInv, TypeOK, Protecting, RecoveryInv, database, memory, AllExecs
<1>2. CASE SetTradingStopFails
  <2>1. xstops' \in BOOLEAN /\ (xstops' => xpos # 0)
    <3>1. xstops \in BOOLEAN /\ (xstops => xpos # 0) BY DEF TypeInv, TypeOK
    <3>2. (xpos # 0) \in BOOLEAN OBVIOUS
    <3>3. xstops' = xstops \/ xstops' = (xpos # 0)
      BY <1>2 DEF SetTradingStopFails
    <3>4. CASE xstops' = xstops BY <3>1, <3>4
    <3>5. CASE xstops' = (xpos # 0) BY <3>2, <3>5, Zenon
    <3> QED BY <3>3, <3>4, <3>5
  <2> QED
    BY <1>2, <2>1
    DEF SetTradingStopFails, TypeInv, TypeOK, Protecting, RecoveryInv, database, memory, AllExecs
<1> SUFFICES ASSUME EmergencyClose \/ EmergencyCloseFails \/ VerifyProtection
             PROVE  TypeInv'
  BY <1>1, <1>2
<1>3. /\ net \in Int /\ net # 0 /\ -net \in Int /\ -net # 0
      /\ Side(net) \in Sides
  <2>1. net \in Int /\ net # 0
    BY DEF EmergencyClose, EmergencyCloseFails, VerifyProtection, TypeInv, TypeOK,
           Protecting
  <2> QED BY <2>1, SideTypes
<1>4. /\ row' \in [Sides -> [open : BOOLEAN, status : Statuses]]
      /\ latest' \subseteq Sides
  <2>1. "failed" \in Statuses BY DEF Statuses, BLOCKING_PROTECTION_STATUSES
  <2>2. TransitionProtectionStatus(row[Side(net)].status, VerifyStatus) \in Statuses
    BY DEF TransitionProtectionStatus, VerifyStatus, Statuses,
           BLOCKING_PROTECTION_STATUSES
  <2>3. PICK st \in Statuses : WriteRow(Side(net), TRUE, st)
    BY <2>1, <2>2 DEF EmergencyClose, EmergencyCloseFails, VerifyProtection
  <2> QED BY <1>3, <2>3, WriteRowTypes DEF TypeInv
<1>5. orders' \in [Kinds -> [Sides -> Nat]]
  <2>1. orders \in [Kinds -> [Sides -> Nat]] BY DEF TypeInv, TypeOK
  <2>2. "market" \in Kinds BY DEF Kinds
  <2>3. OrdersWith(orders, "market", -net) \in [Kinds -> [Sides -> Nat]]
    BY <1>3, <2>1, <2>2, OrdersWithTypes
  <2> QED
    BY <2>1, <2>3
    DEF EmergencyClose, EmergencyCloseFails, VerifyProtection, exchange
<1>6. pc' = "fills" /\ net' \in Int
  <2>1. net' = 0 \/ net' = net
    BY DEF EmergencyClose, EmergencyCloseFails, VerifyProtection, memory
  <2>2. pc' = "fills"
    BY DEF EmergencyClose, EmergencyCloseFails, VerifyProtection
  <2> QED BY <1>3, <2>1, <2>2
<1>8. phantom' \in BOOLEAN
  <2>1. phantom' = TRUE \/ phantom' = phantom
    BY DEF EmergencyClose, EmergencyCloseFails, VerifyProtection, memory
  <2> QED BY <2>1 DEF TypeInv, TypeOK
<1>9. started
  BY DEF EmergencyClose, EmergencyCloseFails, VerifyProtection, TypeInv, RecoveryInv
<1>7. UNCHANGED <<xpos, xstops, execs, stored, locks, started, seen, todo, attempted,
                  answer, crashes>>
  BY DEF EmergencyClose, EmergencyCloseFails, VerifyProtection, exchange, memory
<1> QED BY <1>3, <1>4, <1>5, <1>6, <1>7, <1>8, <1>9 DEF TypeInv, TypeOK, Protecting, RecoveryInv, AllExecs

LEMMA RefreshTypes == TypeInv /\ Refresh => TypeInv'
<1> SUFFICES ASSUME TypeInv, Refresh PROVE TypeInv'
  OBVIOUS
<1> USE DEF exchange, database, memory, AllExecs
<1>1. NoAnswer \in [ok : BOOLEAN, side : {-1, 0, 1}, stops : BOOLEAN]
  BY DEF NoAnswer
<1>2. CASE FetchExecutions
  BY <1>1, <1>2 DEF FetchExecutions, Unseen, TypeInv, TypeOK, Protecting, RecoveryInv
<1>3. CASE FillsDone
  BY <1>1, <1>3 DEF FillsDone, TypeInv, TypeOK, Protecting, RecoveryInv
<1> QED BY <1>2, <1>3, FillTypes, ProtectionTypes DEF Refresh

(* The recovery after a restart.                                           *)
LEMMA RecoveryTypes ==
  ASSUME TypeInv,
         Recover \/ Recovered \/ \E i \in 1..MaxExecs : Replay(i)
  PROVE  TypeInv'
<1>1. CASE Recovered
  <2>1. NoAnswer \in [ok : BOOLEAN, side : {-1, 0, 1}, stops : BOOLEAN]
    BY DEF NoAnswer
  <2> QED
    BY <1>1, <2>1
    DEF Recovered, TypeInv, TypeOK, Protecting, RecoveryInv, exchange, database, AllExecs
<1>2. CASE Recover
  BY <1>2 DEF Recover, TypeInv, TypeOK, Protecting, RecoveryInv, exchange, database, AllExecs
<1>3. ASSUME NEW i \in 1..MaxExecs, Replay(i) PROVE TypeInv'
  <2>1. i \in todo /\ i \in AllExecs /\ execs[i] \in Int
    BY <1>3, OldestExecution DEF Replay
  <2>2. /\ net' = net + execs[i] /\ execs' = execs
        /\ seen' = seen \cup {i} /\ todo' = todo \ {i}
    BY <1>3 DEF Replay, Remember, apply_fill, exchange
  <2>3. /\ net' \in Int
        /\ seen' \subseteq AllExecs' /\ todo' \subseteq AllExecs' \ seen'
    BY <2>1, <2>2 DEF AllExecs, TypeInv, TypeOK
  <2> QED
    BY <1>3, <2>2, <2>3 DEF Replay, TypeInv, TypeOK, Protecting, RecoveryInv,
       exchange, database, AllExecs
<1> QED BY <1>1, <1>2, <1>3

LEMMA CancelledTypes ==
  ASSUME TypeInv
  PROVE  /\ AllCancelled \in [Kinds -> [Sides -> Nat]]
         /\ \A k \in Kinds : [orders EXCEPT ![k] = NoOrders[k]]
                               \in [Kinds -> [Sides -> Nat]]
  BY DEF AllCancelled, NoOrders, TypeInv, TypeOK

(* A step of the loop that only sends or cancels orders.                   *)
LEMMA OrderStepTypes ==
  ASSUME TypeInv, orders' \in [Kinds -> [Sides -> Nat]],
         UNCHANGED <<xpos, xstops, execs, database, memory>>,
         pc \notin {"replay"}, pc = "cancelAll" \/ started,
         \/ pc = "cancelAll" /\ pc' = "recover"
         \/ pc # "cancelAll" /\ pc' \in {"loop", "exits", "quotes", "intents", "fetch", "stopped"}
  PROVE  TypeInv'
<1> QED
  BY DEF TypeInv, TypeOK, Protecting, RecoveryInv, database, memory, AllExecs

LEMMA LoopTypes == TypeInv /\ Loop => TypeInv'
<1> SUFFICES ASSUME TypeInv, Loop PROVE TypeInv'
  OBVIOUS
<1>1. /\ orders \in [Kinds -> [Sides -> Nat]]
      /\ AllCancelled \in [Kinds -> [Sides -> Nat]]
      /\ net \in Int /\ (net # 0 => -net \in Int /\ -net # 0)
  BY CancelledTypes DEF TypeInv, TypeOK
<1>2. pc \notin {"reconcile", "reconciled", "cancelAll", "recover", "replay"} => started
  BY DEF TypeInv, RecoveryInv
<1>3. /\ "entry" \in Kinds /\ "quote" \in Kinds /\ "force" \in Kinds
  BY DEF Kinds
<1>4. CASE CancelAll
  BY <1>1, <1>4, OrderStepTypes DEF CancelAll
<1>5. CASE Recover \/ Recovered \/ \E i \in 1..MaxExecs : Replay(i)
  BY <1>5, RecoveryTypes
<1>6. CASE BeginIteration
  <2>1. NoAnswer \in [ok : BOOLEAN, side : {-1, 0, 1}, stops : BOOLEAN]
    BY DEF NoAnswer
  <2> QED
    BY <1>6, <2>1 DEF BeginIteration, TypeInv, TypeOK, Protecting, RecoveryInv,
       exchange, database, AllExecs
<1>7. CASE Panic
  BY <1>1, <1>2, <1>7, OrderStepTypes DEF Panic
<1>8. CASE ListOrders
  BY <1>1, <1>2, <1>8, OrderStepTypes DEF ListOrders, exchange
<1>9. CASE CancelEntries
  BY <1>1, <1>2, <1>3, <1>9, OrderStepTypes, CancelledTypes DEF CancelEntries
<1>10. CASE NoForceExit
  BY <1>1, <1>2, <1>10, OrderStepTypes DEF NoForceExit, exchange
<1>11. CASE ForceExit
  <2>1. OrdersWith(orders, "force", -net) \in [Kinds -> [Sides -> Nat]]
    BY <1>1, <1>3, <1>11, OrdersWithTypes DEF ForceExit
  <2> QED BY <1>2, <1>11, <2>1, OrderStepTypes DEF ForceExit
<1>12. CASE NoQuote
  BY <1>1, <1>2, <1>12, OrderStepTypes DEF NoQuote, exchange
<1>13. CASE Requote
  <2>1. PICK resting \in {orders, [orders EXCEPT !["quote"] = NoOrders["quote"]]} :
          \/ orders' = resting
          \/ orders' = OrdersWith(resting, "quote", -net)
    BY <1>13 DEF Requote
  <2>2. resting \in [Kinds -> [Sides -> Nat]] BY <1>1, <1>3, CancelledTypes
  <2>3. OrdersWith(resting, "quote", -net) \in [Kinds -> [Sides -> Nat]]
    BY <1>1, <1>3, <1>13, <2>2, OrdersWithTypes DEF Requote
  <2> QED BY <1>2, <1>13, <2>1, <2>2, <2>3, OrderStepTypes DEF Requote
<1>14. CASE IntentsDone
  BY <1>1, <1>2, <1>14, OrderStepTypes DEF IntentsDone, exchange
<1>15. ASSUME NEW s \in EntrySides, PlaceEntry(s) PROVE TypeInv'
  <2>1. PICK q \in 1..MaxQty : orders' = OrdersWith(orders, "entry", s * q)
    BY <1>15 DEF PlaceEntry
  <2>2. s * q \in Int /\ s * q # 0
    <3>1. s = 1 \/ s = -1 OBVIOUS
    <3> QED BY <3>1
  <2>3. orders' \in [Kinds -> [Sides -> Nat]]
    BY <1>1, <1>3, <2>1, <2>2, OrdersWithTypes
  <2> QED BY <1>2, <1>15, <2>3, OrderStepTypes DEF PlaceEntry
<1> QED
  BY <1>4, <1>5, <1>6, <1>7, <1>8, <1>9, <1>10, <1>11, <1>12, <1>13, <1>14, <1>15
  DEF Loop

LEMMA RestartTypes == TypeInv /\ Restart => TypeInv'
<1> SUFFICES ASSUME TypeInv, Restart PROVE TypeInv'
  OBVIOUS
<1>1. NoAnswer \in [ok : BOOLEAN, side : {-1, 0, 1}, stops : BOOLEAN]
  BY DEF NoAnswer
<1>2. crashes' \in 0..MaxCrashes BY DEF Restart, TypeInv, TypeOK
<1>3. UNCHANGED <<xpos, xstops, orders, execs, stored, row, latest, locks>>
  BY DEF Restart, exchange, database
<1>4. ~started' BY Zenon DEF Restart
<1>5. /\ pc' = "reconcile" /\ net' = 0 /\ seen' = {} /\ todo' = {}
      /\ answer' = NoAnswer
  BY DEF Restart
<1>6. started' \in BOOLEAN /\ attempted' \in BOOLEAN /\ phantom' \in BOOLEAN
  BY DEF Restart
<1> QED
  BY <1>1, <1>2, <1>3, <1>4, <1>5, <1>6
  DEF TypeInv, TypeOK, Protecting, RecoveryInv, AllExecs

LEMMA NextTypeInv == TypeInv /\ [Next]_vars => TypeInv'
<1> SUFFICES ASSUME TypeInv, [Next]_vars PROVE TypeInv'
  OBVIOUS
<1>1. CASE UNCHANGED vars
  BY <1>1 DEF vars, exchange, database, memory, TypeInv, TypeOK, Protecting,
     RecoveryInv, AllExecs
<1> QED
  BY <1>1, ExchangeTypes, ReconciliationTypes, RefreshTypes, LoopTypes, RestartTypes
  DEF Next

LEMMA TypeInvariance == Spec => []TypeInv
<1> QED BY InitTypeInv, NextTypeInv, PTL DEF Spec

(* What the runtime, its database and the exchange keep stays in its type; *)
(* no execution is taken up that has been seen, and stops need a position. *)
THEOREM TypeCorrect == Spec => []TypeOK
<1>1. TypeInv => TypeOK BY DEF TypeInv
<1> QED BY <1>1, TypeInvariance, PTL

-----------------------------------------------------------------------------
LEMMA NextGhost == TypeInv /\ GhostRowIsLocked /\ [Next]_vars => GhostRowIsLocked'
<1> SUFFICES ASSUME TypeInv, GhostRowIsLocked, [Next]_vars PROVE GhostRowIsLocked'
  OBVIOUS
<1> USE DEF GhostRowIsLocked, OpenSides
<1>1. ASSUME UNCHANGED <<row, locks, pc, answer>> PROVE GhostRowIsLocked'
  BY <1>1
<1>2. ASSUME pc' \notin {"cancelAll", "listing"} PROVE GhostRowIsLocked'
  BY <1>2
<1>3. CASE Exchange
  BY <1>1, <1>3 DEF Exchange, StopFires, OrderFills, OrderLapses, database, memory
<1>4. CASE GetPositions
  BY <1>2, <1>4 DEF GetPositions, AsksPositions, Answered
(* The rows that are left without a position are the ones that lock.       *)
<1>5. CASE ReconcilePositions
  <2>1. answer' = answer BY <1>5 DEF ReconcilePositions, memory
  <2>2. CASE answer.ok
    <3>1. locks' = ActiveLockIssues BY <1>5, <2>2 DEF ReconcilePositions
    <3>2. ASSUME NEW s \in Sides \ {answer.side}, row'[s].open PROVE row[s].open
      <4>1. CASE answer.side = 0
        BY <1>5, <2>2, <3>2, <4>1 DEF ReconcilePositions
      <4>2. CASE answer.side # 0
        <5>1. row' = [row EXCEPT ![answer.side] = [open |-> TRUE, status |-> ImportedStatus]]
          BY <1>5, <2>2, <4>2 DEF ReconcilePositions, WriteRow
        <5> QED BY <3>2, <5>1 DEF TypeInv, TypeOK
      <4> QED BY <4>1, <4>2
    <3> QED BY <2>1, <3>1, <3>2 DEF ActiveLockIssues
  <2>3. CASE ~answer.ok BY <2>1, <2>3
  <2> QED BY <2>2, <2>3
<1>6. CASE Refresh
  <2>1. pc' \in {"fills", "cancelOwn", "apply", "verify", "emergency"}
    BY <1>6
    DEF Refresh, FetchExecutions, FillsDone, FillFlattens, FillThrottled,
        FillProtects, FillPlanFails, Consume, SetTradingStop, SetTradingStopFails,
        EmergencyClose, EmergencyCloseFails, VerifyProtection
  <2> QED BY <1>2, <2>1
<1>7. CASE BeginIteration
  BY <1>7 DEF BeginIteration, NoAnswer
<1>8. CASE Loop /\ ~BeginIteration
  <2>1. pc' \notin {"cancelAll", "listing"}
    BY <1>8
    DEF Loop, CancelAll, Recover, Recovered, Replay, Panic, ListOrders, CancelEntries,
        NoForceExit, ForceExit, NoQuote, Requote, IntentsDone, PlaceEntry
  <2> QED BY <1>2, <2>1
<1>9. CASE Restart BY <1>2, <1>9 DEF Restart
<1>10. CASE UNCHANGED vars
  BY <1>1, <1>10 DEF vars, database, memory
<1> QED
  BY <1>3, <1>4, <1>5, <1>6, <1>7, <1>8, <1>9, <1>10 DEF Next, Reconciliation

(* After every reconciliation that could read the positions, not only the  *)
(* first, a position row the exchange knows nothing of locks the symbol.   *)
THEOREM GhostRowsLock == Spec => []GhostRowIsLocked
<1>1. Init => GhostRowIsLocked BY DEF Init, GhostRowIsLocked
<1> QED BY <1>1, NextGhost, TypeInvariance, PTL DEF Spec

-----------------------------------------------------------------------------
(* The refinement.  While a protection is under way, its row says so: this *)
(* is what lets the outcome of VerifyProtection be read as a confirmation  *)
(* or a refusal of the abstract status.                                    *)
ProtectionInv ==
    Protecting => /\ row[Side(net)].open
                  /\ row[Side(net)].status \in {"pending", "repairing"}

StatusOf == [s \in Sides |-> IF row[s].open THEN row[s].status ELSE "closed"]

LEMMA NextProtectionInv ==
  TypeInv /\ ProtectionInv /\ [Next]_vars => ProtectionInv'
<1> SUFFICES ASSUME TypeInv, ProtectionInv, [Next]_vars PROVE ProtectionInv'
  OBVIOUS
<1> USE DEF ProtectionInv
<1>1. ASSUME UNCHANGED <<row, net>>, Protecting' => Protecting PROVE ProtectionInv'
  BY <1>1
<1>2. ASSUME ~Protecting' PROVE ProtectionInv'
  BY <1>2
<1>3. CASE Exchange
  BY <1>1, <1>3
  DEF Exchange, StopFires, OrderFills, OrderLapses, database, memory, Protecting
<1>4. CASE GetPositions
  BY <1>1, <1>4 DEF GetPositions, AsksPositions, Answered, Protecting, database
<1>5. CASE ReconcilePositions BY <1>2, <1>5 DEF ReconcilePositions, Protecting
<1>6. CASE SetTradingStop \/ SetTradingStopFails
  BY <1>1, <1>6
  DEF SetTradingStop, SetTradingStopFails, Protecting, database, memory
<1>7. ASSUME NEW i \in 1..MaxExecs, FillProtects(i) PROVE ProtectionInv'
  <2>1. net' \in Int /\ net' # 0
    BY <1>7, ConsumeTypes DEF FillProtects
  <2>2. Side(net') \in Sides BY <2>1, SideTypes
  <2>3. row' = [row EXCEPT ![Side(net')] =
                  [open |-> TRUE, status |-> ApplyPhase(Side(net'))]]
    BY <1>7 DEF FillProtects, WriteRow
  <2>4. ApplyPhase(Side(net')) \in {"pending", "repairing"} BY DEF ApplyPhase
  <2>5. row'[Side(net')] = [open |-> TRUE, status |-> ApplyPhase(Side(net'))]
    BY <2>2, <2>3 DEF TypeInv, TypeOK
  <2>6. (row[Side(net)])' = row'[Side(net')]
    BY DEF Side
  <2> QED BY <2>4, <2>5, <2>6
<1>8. CASE Refresh /\ ~(\E i \in 1..MaxExecs : FillProtects(i))
  <2>1. CASE SetTradingStop \/ SetTradingStopFails BY <1>6, <2>1
  <2>2. CASE ~(SetTradingStop \/ SetTradingStopFails)
    <3>1. pc' \in {"fills", "cancelOwn"}
      BY <1>8, <2>2
      DEF Refresh, FetchExecutions, FillsDone, FillFlattens, FillThrottled,
          FillPlanFails, Consume, EmergencyClose, EmergencyCloseFails,
          VerifyProtection
    <3> QED BY <1>2, <3>1 DEF Protecting
  <2> QED BY <2>1, <2>2
<1>9. CASE Loop \/ Restart
  <2>1. ~Protecting'
    BY <1>9
    DEF Loop, CancelAll, Recover, Recovered, Replay, BeginIteration, Panic, ListOrders,
        CancelEntries, NoForceExit, ForceExit, NoQuote, Requote, IntentsDone,
        PlaceEntry, Restart, Protecting
  <2> QED BY <1>2, <2>1
<1>10. CASE UNCHANGED vars
  BY <1>1, <1>10 DEF vars, database, memory, Protecting
<1> QED
  BY <1>3, <1>4, <1>5, <1>7, <1>8, <1>9, <1>10 DEF Next, Reconciliation

(* A write of a row is a step of the abstract status.                      *)
LEMMA WriteIsBecomes ==
  ASSUME TypeInv, NEW s \in Sides, NEW o \in BOOLEAN, NEW st,
         WriteRow(s, o, st), UNCHANGED answer
  PROVE  Contract!Becomes(s, IF o THEN st ELSE "closed")
<1>1. row' = [row EXCEPT ![s] = [open |-> o, status |-> st]] BY DEF WriteRow
<1>2. row'[s].open = o /\ row'[s].status = st BY <1>1 DEF TypeInv, TypeOK
<1>3. \A t \in Sides \ {s} : row'[t] = row[t] BY <1>1 DEF TypeInv, TypeOK
<1>4. StatusOf' = [StatusOf EXCEPT ![s] = IF o THEN st ELSE "closed"]
  BY <1>2, <1>3 DEF StatusOf
<1> QED BY <1>4 DEF Contract!Becomes, StatusOf

LEMMA StutterOrAsk ==
  ASSUME TypeInv', UNCHANGED row
  PROVE  Contract!Next
<1>1. answer' \in Contract!Answers BY DEF TypeInv, TypeOK, Contract!Answers
<1> QED BY <1>1 DEF Contract!Next, Contract!Ask

LEMMA SideMoves ==
  ASSUME NEW s \in Sides,
         \/ Contract!Begin(s) \/ Contract!Fail(s) \/ Contract!Confirm(s)
         \/ Contract!Refuse(s) \/ Contract!Import(s) \/ Contract!Close(s)
  PROVE  Contract!Next
<1>1. s \in Contract!Sides BY DEF Sides, Contract!Sides
<1> QED BY <1>1 DEF Contract!Next

(* The fills begin, fail or close the status.                              *)
LEMMA FillRefines ==
  ASSUME TypeInv, TypeInv', NEW i \in 1..MaxExecs,
         FillFlattens(i) \/ FillThrottled(i) \/ FillProtects(i) \/ FillPlanFails(i)
  PROVE  Contract!Next
<1>1. Consume(i) BY DEF FillFlattens, FillThrottled, FillProtects, FillPlanFails
<1>2. UNCHANGED answer BY <1>1 DEF Consume
<1>3. CASE FillFlattens(i)
  <2>1. PICK s \in Sides : WriteRow(s, FALSE, "closed")
    BY <1>3 DEF FillFlattens, Sides
  <2>2. Contract!Becomes(s, "closed") BY <1>2, <2>1, WriteIsBecomes
  <2> QED BY <2>2, SideMoves DEF Contract!Close
<1>4. CASE FillThrottled(i) BY <1>4, StutterOrAsk DEF FillThrottled
<1>5. CASE FillProtects(i)
  <2>1. PICK s \in Sides : s = Side(net')
    BY <1>5, SideTypes DEF FillProtects, TypeInv, TypeOK
  <2>2. PICK new : new = ApplyPhase(s) OBVIOUS
  <2>3. WriteRow(s, TRUE, new) BY <1>5, <2>1, <2>2 DEF FillProtects
  <2>4. Contract!Becomes(s, new) BY <1>2, <2>3, WriteIsBecomes
  <2>5. new = IF StatusOf[s] \in {"repairing", "unprotected", "failed"}
              THEN "repairing" ELSE "pending"
    BY <2>2 DEF ApplyPhase, StatusOf
  <2>6. Contract!Begin(s)
    BY <2>4, <2>5 DEF Contract!Begin, Contract!Becomes, StatusOf
  <2> QED BY <2>6, SideMoves
<1>6. CASE FillPlanFails(i)
  <2>1. Side(net') \in Sides BY <1>6, SideTypes DEF FillPlanFails, TypeInv, TypeOK
  <2>2. Contract!Becomes(Side(net'), "failed")
    BY <1>2, <1>6, <2>1, WriteIsBecomes DEF FillPlanFails
  <2> QED BY <2>1, <2>2, SideMoves DEF Contract!Fail
<1> QED BY <1>3, <1>4, <1>5, <1>6

(* The outcome of a protection confirms, refuses, fails or closes it.      *)
LEMMA VerifyRefines ==
  ASSUME TypeInv, ProtectionInv, VerifyProtection
  PROVE  Contract!Next
<1>1. PICK s \in Sides : s = Side(net)
  BY SideTypes DEF VerifyProtection, TypeInv, TypeOK, Protecting
<1>2. StatusOf[s] = row[s].status /\ StatusOf[s] \in {"pending", "repairing"}
  BY <1>1 DEF VerifyProtection, ProtectionInv, Protecting, StatusOf
<1>3. PICK new : new = TransitionProtectionStatus(row[s].status, VerifyStatus)
  OBVIOUS
<1>4. Contract!Becomes(s, new)
  <2>1. WriteRow(s, TRUE, new) BY <1>1, <1>3 DEF VerifyProtection
  <2>2. UNCHANGED answer BY DEF VerifyProtection, memory
  <2> QED BY <2>1, <2>2, WriteIsBecomes
<1>5. \/ new \in {"failed", "closed"}
      \/ new = "protected" /\ answer.ok /\ answer.side # 0 /\ answer.stops
      \/ /\ new = "unprotected" /\ StatusOf[s] = "pending"
         /\ answer.ok /\ answer.side # 0 /\ ~answer.stops
  BY <1>2, <1>3 DEF TransitionProtectionStatus, VerifyStatus
<1>6. CASE new = "failed"
  BY <1>4, <1>6, SideMoves DEF Contract!Fail
<1>7. CASE new = "closed"
  BY <1>4, <1>7, SideMoves DEF Contract!Close
<1>8. CASE new = "protected" /\ answer.ok /\ answer.side # 0 /\ answer.stops
  <2>1. Contract!Confirm(s)
    BY <1>2, <1>4, <1>8 DEF Contract!Confirm, Contract!InProgress, StatusOf
  <2> QED BY <2>1, SideMoves
<1>9. CASE /\ new = "unprotected" /\ StatusOf[s] = "pending"
           /\ answer.ok /\ answer.side # 0 /\ ~answer.stops
  <2>1. Contract!Refuse(s)
    BY <1>4, <1>9 DEF Contract!Refuse, StatusOf
  <2> QED BY <2>1, SideMoves
<1> QED BY <1>5, <1>6, <1>7, <1>8, <1>9

LEMMA ReconcileRefines ==
  ASSUME TypeInv, TypeInv', ReconcilePositions
  PROVE  Contract!Next
<1>1. UNCHANGED answer BY DEF ReconcilePositions, memory
<1>2. CASE answer.ok /\ answer.side # 0
  <2>1. PICK s \in Sides : s = answer.side BY <1>2 DEF TypeInv, TypeOK, Sides
  <2>2. PICK new : new = ImportedStatus OBVIOUS
  <2>3. WriteRow(s, TRUE, new) BY <1>2, <2>1, <2>2 DEF ReconcilePositions
  <2>4. Contract!Becomes(s, new) BY <1>1, <2>3, WriteIsBecomes
  <2>5. Contract!Import(s)
    BY <1>2, <2>1, <2>2, <2>4 DEF Contract!Import, Contract!Becomes, ImportedStatus
  <2> QED BY <2>5, SideMoves
<1>3. CASE ~(answer.ok /\ answer.side # 0)
  BY <1>3, StutterOrAsk DEF ReconcilePositions
<1> QED BY <1>2, <1>3

LEMMA StepRefines ==
  TypeInv /\ TypeInv' /\ ProtectionInv /\ [Next]_vars => Contract!Next
<1> SUFFICES ASSUME TypeInv, TypeInv', ProtectionInv, [Next]_vars
             PROVE  Contract!Next
  OBVIOUS
<1>1. ASSUME UNCHANGED row PROVE Contract!Next BY <1>1, StutterOrAsk
<1>2. CASE Exchange
  BY <1>1, <1>2 DEF Exchange, StopFires, OrderFills, OrderLapses, database
<1>3. CASE GetPositions BY <1>1, <1>3 DEF GetPositions, database
<1>4. CASE ReconcilePositions BY <1>4, ReconcileRefines
<1>5. CASE EmergencyClose \/ EmergencyCloseFails
  <2>1. PICK s \in Sides : s = Side(net)
    BY <1>5, SideTypes
    DEF EmergencyClose, EmergencyCloseFails, TypeInv, TypeOK, Protecting
  <2>2. WriteRow(s, TRUE, "failed") /\ UNCHANGED answer
    BY <1>5, <2>1 DEF EmergencyClose, EmergencyCloseFails, memory
  <2>3. Contract!Becomes(s, "failed") BY <2>2, WriteIsBecomes
  <2> QED BY <2>3, SideMoves DEF Contract!Fail
<1>6. CASE FetchExecutions \/ FillsDone \/ SetTradingStop \/ SetTradingStopFails
  BY <1>1, <1>6
  DEF FetchExecutions, FillsDone, SetTradingStop, SetTradingStopFails, database
<1>7. CASE Refresh
  BY <1>5, <1>6, <1>7, FillRefines, VerifyRefines DEF Refresh
<1>8. CASE Loop \/ Restart
  BY <1>1, <1>8
  DEF Loop, CancelAll, Recover, Recovered, Replay, BeginIteration, Panic, ListOrders,
      CancelEntries, NoForceExit, ForceExit, NoQuote, Requote, IntentsDone,
      PlaceEntry, Restart, database
<1>9. CASE UNCHANGED vars BY <1>1, <1>9 DEF vars, database
<1> QED
  BY <1>2, <1>3, <1>4, <1>7, <1>8, <1>9 DEF Next, Reconciliation

(* Whatever the interleaving of fills, verifications, reconciliations and  *)
(* restarts, a row becomes "protected" only on an answer of the exchange   *)
(* that shows both prices.                                                 *)
THEOREM ImplementsProtectionLifecycle == Spec => KeepsProtectionContract
<1>1. Init => ProtectionInv BY DEF Init, ProtectionInv, Protecting
<1>2. Spec => []ProtectionInv
  BY <1>1, NextProtectionInv, TypeInvariance, PTL DEF Spec
<1>3. Init => Contract!Init
  <2>1. Contract!NoAnswer = NoAnswer BY DEF Contract!NoAnswer, NoAnswer
  <2> QED BY <2>1 DEF Init, Contract!Init, Contract!Sides, Sides
<1> QED
  BY <1>2, <1>3, StepRefines, TypeInvariance, PTL
  DEF Spec, KeepsProtectionContract, Contract!Spec

-----------------------------------------------------------------------------
(* The position in memory.  c holds the running total of those executions  *)
(* of e that are not in S: they add up to total.                           *)
RunsUp(c, e, S) ==
    /\ c \in [0..Len(e) -> Int]
    /\ c[0] = 0
    /\ \A i \in 1..Len(e) : c[i] = c[i-1] + (IF i \in S THEN 0 ELSE e[i])

AddUpTo(e, S, total) == \E c : RunsUp(c, e, S) /\ c[Len(e)] = total

(* All executions add up to the position on the exchange; those not seen   *)
(* yet, to what the memory still lacks of it.                              *)
BookInv ==
    /\ AddUpTo(execs, {}, xpos)
    /\ ~phantom => AddUpTo(execs, seen, xpos - net)

(* One more execution on the exchange, not seen.                           *)
LEMMA ExecutionAdds ==
  ASSUME TypeInv, NEW q \in Int, execs' = Append(execs, q),
         NEW S, S \subseteq AllExecs, NEW total \in Int, AddUpTo(execs, S, total)
  PROVE  AddUpTo(execs', S, total + q)
<1> DEFINE n == Len(execs)
<1>1. n \in Nat /\ execs \in Seq(Int) BY DEF TypeInv, TypeOK
<1>2. Len(execs') = n + 1 BY <1>1
<1>3. execs'[n+1] = q /\ \A i \in 1..n : execs'[i] = execs[i] BY <1>1
<1>4. n + 1 \notin S BY <1>1 DEF AllExecs
<1>5. PICK c : RunsUp(c, execs, S) /\ c[n] = total BY DEF AddUpTo
<1> DEFINE d == [i \in 0..n+1 |-> IF i = n + 1 THEN total + q ELSE c[i]]
<1> HIDE DEF n
<1>6. d \in [0..n+1 -> Int] /\ d[0] = 0 /\ d[n+1] = total + q
  BY <1>1, <1>5 DEF RunsUp, n
<1>7. ASSUME NEW i \in 1..n+1
      PROVE  d[i] = d[i-1] + (IF i \in S THEN 0 ELSE execs'[i])
  <2>1. CASE i = n + 1
    <3>1. i - 1 = n /\ n \in 0..n+1 /\ n # n + 1 BY <1>1, <2>1
    <3>2. d[i-1] = total BY <1>5, <3>1
    <3> QED BY <1>3, <1>4, <1>6, <2>1, <3>2
  <2>2. CASE i # n + 1
    <3>1. i \in 1..n /\ i - 1 \in 0..n /\ i - 1 # n + 1 BY <1>1, <2>2
    <3> QED BY <1>1, <1>3, <1>5, <3>1 DEF RunsUp, n
  <2> QED BY <2>1, <2>2
<1> HIDE DEF d
<1> QED BY <1>2, <1>6, <1>7 DEF AddUpTo, RunsUp

(* One of the executions is seen.                                          *)
LEMMA SeeingSubtracts ==
  ASSUME TypeInv, NEW i \in AllExecs, NEW S, i \notin S,
         NEW total \in Int, AddUpTo(execs, S, total)
  PROVE  AddUpTo(execs, S \cup {i}, total - execs[i])
<1> DEFINE n == Len(execs)
<1>1. /\ n \in Nat /\ i \in 1..n
      /\ \A j \in 1..n : execs[j] \in Int
  BY DEF TypeInv, TypeOK, AllExecs
<1>2. PICK c : RunsUp(c, execs, S) /\ c[n] = total BY DEF AddUpTo
<1> DEFINE d == [j \in 0..n |-> IF j >= i THEN c[j] - execs[i] ELSE c[j]]
<1> HIDE DEF n
<1>3. c \in [0..n -> Int] /\ c[0] = 0 BY <1>2 DEF RunsUp, n
<1>4. d \in [0..n -> Int] /\ d[0] = 0 /\ d[n] = total - execs[i]
  BY <1>1, <1>2, <1>3
<1>5. ASSUME NEW j \in 1..n
      PROVE  d[j] = d[j-1] + (IF j \in S \cup {i} THEN 0 ELSE execs[j])
  <2>1. j \in 0..n /\ j - 1 \in 0..n BY <1>1
  <2>2. c[j] = c[j-1] + (IF j \in S THEN 0 ELSE execs[j])
    BY <1>2 DEF RunsUp, n
  <2>3. c[j] \in Int /\ c[j-1] \in Int BY <1>3, <2>1
  <2>4. CASE j = i BY <1>1, <2>1, <2>2, <2>3, <2>4
  <2>5. CASE j # i BY <1>1, <2>1, <2>2, <2>3, <2>5
  <2> QED BY <2>4, <2>5
<1> HIDE DEF d
<1> QED BY <1>4, <1>5 DEF AddUpTo, RunsUp, n

(* When all are seen there is nothing left to add: the first total that is *)
(* not 0 would need an execution that is not seen.                         *)
LEMMA AllSeenIsNothing ==
  ASSUME TypeInv, NEW total, AddUpTo(execs, AllExecs, total)
  PROVE  total = 0
<1> DEFINE n == Len(execs)
<1>1. n \in Nat /\ AllExecs = 1..n BY DEF TypeInv, TypeOK, AllExecs
<1>2. PICK c : RunsUp(c, execs, AllExecs) /\ c[n] = total BY DEF AddUpTo
<1>3. c \in [0..n -> Int] /\ c[0] = 0 BY <1>2 DEF RunsUp
<1>6. ASSUME NEW i \in 1..n PROVE c[i] = c[i-1]
  <2>1. c[i] = c[i-1] + (IF i \in AllExecs THEN 0 ELSE execs[i])
    BY <1>2 DEF RunsUp
  <2>2. i - 1 \in 0..n BY <1>1
  <2> QED BY <1>1, <1>3, <2>1, <2>2
<1> DEFINE T == {i \in 0..n : c[i] # 0}
<1> HIDE DEF n
<1>4. CASE T # {}
  <2>1. T \subseteq 0..n /\ 0 \in Int /\ n \in Int BY <1>1
  <2>2. PICK i \in T : \A k \in T : i <= k BY <1>4, <2>1, LeastOfInterval
  <2>3. i \in 1..n /\ i - 1 \in 0..n BY <1>1, <1>3
  <2>4. i - 1 \notin T BY <2>2, <2>3
  <2> QED BY <1>3, <1>6, <2>3, <2>4
<1>5. CASE T = {}
  <2>1. n \in 0..n BY <1>1
  <2> QED BY <1>2, <1>5, <2>1
<1> QED BY <1>4, <1>5

LEMMA InitBooks == Init => BookInv
<1> SUFFICES ASSUME Init PROVE BookInv
  OBVIOUS
<1>1. Len(execs) = 0 /\ xpos = 0 /\ net = 0 BY DEF Init
<1> DEFINE c == [i \in 0..0 |-> 0]
<1>2. c \in [0..Len(execs) -> Int] /\ c[0] = 0 /\ c[Len(execs)] = 0 BY <1>1
<1>3. 1..Len(execs) = {} BY <1>1
<1> HIDE DEF c
<1>4. \A S : AddUpTo(execs, S, 0) BY <1>2, <1>3 DEF AddUpTo, RunsUp
<1> QED BY <1>1, <1>4 DEF BookInv

LEMMA ExecutesBooks ==
  ASSUME TypeInv, BookInv, NEW q \in Int, Executes(q),
         UNCHANGED <<net, seen, phantom>>
  PROVE  BookInv'
<1>1. xpos \in Int /\ net \in Int /\ seen \subseteq AllExecs BY DEF TypeInv, TypeOK
<1>2. execs' = Append(execs, q) /\ xpos' = xpos + q BY DEF Executes
<1>3. AddUpTo(execs', {}, xpos')
  <2>1. AddUpTo(execs, {}, xpos) BY DEF BookInv
  <2>2. {} \subseteq AllExecs OBVIOUS
  <2> QED BY <1>1, <1>2, <2>1, <2>2, ExecutionAdds
<1>4. ASSUME ~phantom PROVE AddUpTo(execs', seen', xpos' - net')
  <2>1. AddUpTo(execs, seen, xpos - net) BY <1>4 DEF BookInv
  <2>2. AddUpTo(execs', seen, xpos - net + q)
    BY <1>1, <1>2, <2>1, ExecutionAdds
  <2>3. xpos' - net' = xpos - net + q BY <1>1, <1>2
  <2> QED BY <2>2, <2>3
<1> QED BY <1>3, <1>4 DEF BookInv

LEMMA TakesUpBooks ==
  ASSUME TypeInv, BookInv, NEW i \in AllExecs, i \notin seen,
         seen' = seen \cup {i}, net' = net + execs[i],
         UNCHANGED <<xpos, execs, phantom>>
  PROVE  BookInv'
<1>1. xpos \in Int /\ net \in Int /\ execs[i] \in Int
  BY DEF TypeInv, TypeOK, AllExecs
<1>2. ASSUME ~phantom PROVE AddUpTo(execs, seen \cup {i}, xpos - net')
  <2>1. AddUpTo(execs, seen, xpos - net) BY <1>2 DEF BookInv
  <2>2. xpos - net \in Int BY <1>1
  <2>3. AddUpTo(execs, seen \cup {i}, (xpos - net) - execs[i])
    BY <2>1, <2>2, SeeingSubtracts
  <2>4. (xpos - net) - execs[i] = xpos - net' BY <1>1
  <2> QED BY <2>3, <2>4
<1> QED BY <1>2 DEF BookInv

LEMMA NextBooks == TypeInv /\ BookInv /\ [Next]_vars => BookInv'
<1> SUFFICES ASSUME TypeInv, BookInv, [Next]_vars PROVE BookInv'
  OBVIOUS
<1>1. ASSUME UNCHANGED <<xpos, execs, net, seen, phantom>> PROVE BookInv'
  BY <1>1 DEF BookInv
<1>2. CASE StopFires
  <2>1. -xpos \in Int BY DEF TypeInv, TypeOK
  <2> QED BY <1>2, <2>1, ExecutesBooks DEF StopFires, memory
<1>3. ASSUME NEW k \in Kinds, NEW s \in Sides, OrderFills(k, s) PROVE BookInv'
  <2>1. PICK n \in 1..orders[k][s] : Executes(s * n) BY <1>3 DEF OrderFills
  <2>2. s * n \in Int
    <3>1. orders[k][s] \in Nat BY DEF TypeInv, TypeOK
    <3> QED BY <3>1 DEF Sides
  <2>3. UNCHANGED <<net, seen, phantom>> BY <1>3 DEF OrderFills, memory
  <2> QED BY <2>1, <2>2, <2>3, ExecutesBooks
<1>4. ASSUME NEW k \in Kinds, NEW s \in Sides, OrderLapses(k, s) PROVE BookInv'
  BY <1>1, <1>4 DEF OrderLapses, memory
<1>5. CASE Reconciliation
  BY <1>1, <1>5
  DEF Reconciliation, GetPositions, ReconcilePositions, exchange, memory
<1>6. ASSUME NEW i \in 1..MaxExecs, Consume(i) PROVE BookInv'
  <2>1. i \in AllExecs /\ i \notin seen BY <1>6, OldestExecution DEF Consume
  <2> QED BY <1>6, <2>1, TakesUpBooks DEF Consume, apply_fill, exchange
<1>7. ASSUME NEW i \in 1..MaxExecs, Replay(i) PROVE BookInv'
  <2>1. i \in AllExecs /\ i \notin seen BY <1>7, OldestExecution DEF Replay
  <2> QED BY <1>7, <2>1, TakesUpBooks DEF Replay, Remember, apply_fill, exchange
(* The accepted emergency close clears the position without an execution.  *)
<1>8. CASE EmergencyClose
  <2>1. phantom' /\ UNCHANGED <<xpos, execs>> BY <1>8, Zenon DEF EmergencyClose
  <2> QED BY <2>1 DEF BookInv
<1>9. CASE /\ Refresh /\ ~EmergencyClose
           /\ ~(\E i \in 1..MaxExecs : Consume(i))
  BY <1>1, <1>9
  DEF Refresh, FetchExecutions, FillsDone, FillFlattens, FillThrottled, FillProtects,
      FillPlanFails, SetTradingStop, SetTradingStopFails, EmergencyCloseFails,
      VerifyProtection, exchange, memory
<1>10. CASE Loop /\ ~(\E i \in 1..MaxExecs : Replay(i))
  BY <1>1, <1>10
  DEF Loop, CancelAll, Recover, Recovered, BeginIteration, Panic, ListOrders,
      CancelEntries, NoForceExit, ForceExit, NoQuote, Requote, IntentsDone,
      PlaceEntry, exchange, memory
<1>11. CASE Restart
  <2>1. /\ net' = 0 /\ seen' = {} /\ UNCHANGED <<xpos, execs>>
    BY <1>11 DEF Restart, exchange
  <2>2. xpos - 0 = xpos BY DEF TypeInv, TypeOK
  <2> QED BY <2>1, <2>2 DEF BookInv
<1>12. CASE UNCHANGED vars
  BY <1>1, <1>12 DEF vars, exchange, memory
<1> QED
  BY <1>2, <1>3, <1>4, <1>5, <1>6, <1>7, <1>8, <1>9, <1>10, <1>11, <1>12
  DEF Next, Exchange

(* Every execution counts once, through refreshes that fail, restarts and  *)
(* recoveries from a database that lags behind or has gaps.                *)
THEOREM ExecutionsCountOnce == Spec => []MemoryMatchesExchange
<1>1. Spec => []BookInv
  BY InitBooks, NextBooks, TypeInvariance, PTL DEF Spec
<1>2. TypeInv /\ BookInv => MemoryMatchesExchange
  <2> SUFFICES ASSUME TypeInv, BookInv, ~phantom, seen = AllExecs
               PROVE  net = xpos
    BY DEF MemoryMatchesExchange
  <2>1. AddUpTo(execs, AllExecs, xpos - net) BY DEF BookInv
  <2>2. xpos - net = 0 BY <2>1, AllSeenIsNothing
  <2> QED BY <2>2 DEF TypeInv, TypeOK
<1> QED BY <1>1, <1>2, TypeInvariance, PTL
=============================================================================
