---------------------------- MODULE TradingProofs ----------------------------
(***************************************************************************)
(* Proofs about the parts of the trading side that keep what the exchange  *)
(* holds and what the runtime believes of it apart: the hold policy, the   *)
(* reconciliation of orders, the operator's flags and the spot portfolio;  *)
(* and about all parts of MCTrading side by side.                          *)
(***************************************************************************)
EXTENDS MCTrading, PaperProofs

-----------------------------------------------------------------------------
(* HoldPolicy.  Fills move the position between the two bounds, and what   *)
(* was traded since the start has a row.                                   *)
HoldInv ==
    /\ HoldPolicyTypeOK
    /\ tracked + unapplied \in NetRange
    /\ traded => seenAtStart /\ row.reason # "none"
    /\ HoldFollowsOwner

(* What two positions within the bound differ by.                          *)
LEMMA Slack ==
  ASSUME NEW m \in Nat, NEW t \in -m..m, NEW u \in Int, t + u \in -m..m
  PROVE  u \in -(2 * m)..(2 * m)
OBVIOUS

LEMMA InitHold == HoldPolicyInit => HoldInv
<1> SUFFICES ASSUME HoldPolicyInit PROVE HoldInv
  OBVIOUS
<1> USE HoldPolicyAssumption
<1>1. ~heldFor /\ ~traded BY Zenon DEF HoldPolicyInit
<1>2. /\ theirs \in 0..MaxHeld /\ ours = 0 /\ unapplied = 0 /\ tracked = 0
      /\ row = NoRow
  BY DEF HoldPolicyInit
<1>3. seenAtStart \in BOOLEAN /\ traded \in BOOLEAN /\ heldFor \in BOOLEAN
  BY DEF HoldPolicyInit
<1>4. HoldPolicyTypeOK BY <1>2, <1>3 DEF HoldPolicyTypeOK, NetRange
<1> QED
  BY <1>1, <1>2, <1>4
  DEF HoldInv, NetRange, HoldFollowsOwner, FoundCoinIsHeld, OwnCoinIsSellable

LEMMA NextHold == HoldInv /\ [HoldPolicyNext]_holdVars => HoldInv'
<1> SUFFICES ASSUME HoldInv, [HoldPolicyNext]_holdVars PROVE HoldInv'
  OBVIOUS
<1> USE HoldPolicyAssumption
<1>1. ASSUME UNCHANGED <<row, seenAtStart, traded, heldFor, tracked>>,
             theirs' \in 0..MaxHeld, ours' \in 0..MaxHeld,
             tracked + unapplied' \in NetRange, unapplied' \in Int
      PROVE  HoldInv'
  <2>1. unapplied' \in -(2 * MaxHeld)..(2 * MaxHeld)
    <3>1. tracked \in -MaxHeld..MaxHeld /\ tracked + unapplied' \in -MaxHeld..MaxHeld
      BY <1>1 DEF HoldInv, HoldPolicyTypeOK, NetRange
    <3> QED BY <1>1, <3>1, Slack
  <2> QED
    BY <1>1, <2>1
    DEF HoldInv, HoldPolicyTypeOK, HoldFollowsOwner, FoundCoinIsHeld,
        OwnCoinIsSellable, SellBlocked
<1>2. /\ theirs \in 0..MaxHeld /\ ours \in 0..MaxHeld
      /\ unapplied \in Int /\ tracked \in NetRange /\ tracked \in Int
      /\ tracked + unapplied \in NetRange
  BY DEF HoldInv, HoldPolicyTypeOK, NetRange
<1>3. CASE OwnerMoves BY <1>1, <1>2, <1>3 DEF OwnerMoves
<1>4. CASE BuyFills
  <2>1. tracked + unapplied' \in NetRange BY <1>2, <1>4 DEF BuyFills, NetRange
  <2> QED BY <1>1, <1>2, <1>4, <2>1 DEF BuyFills
<1>5. CASE SellIntent
  <2>1. tracked + unapplied' \in NetRange BY <1>2, <1>5 DEF SellIntent, NetRange
  <2>2. theirs' \in 0..MaxHeld /\ ours' \in 0..MaxHeld
    BY <1>2, <1>5 DEF SellIntent, wallet
  <2> QED BY <1>1, <1>2, <1>5, <2>1, <2>2 DEF SellIntent
<1>6. CASE ApplyFills
  <2>1. tracked' \in NetRange /\ tracked' + unapplied' \in NetRange /\ unapplied' = 0
    BY <1>2, <1>6 DEF ApplyFills, LeftToApply, NetRange
  <2>2. seenAtStart /\ seenAtStart' BY <1>6 DEF ApplyFills
  <2>3. theirs' \in 0..MaxHeld /\ ours' \in 0..MaxHeld BY <1>2, <1>6 DEF ApplyFills
  <2>4. CASE tracked' >= 0
    <3>1. row' = AfterFills(tracked') /\ traded' = TRUE /\ heldFor' = FALSE
      BY <1>6, <2>4 DEF ApplyFills
    <3>2. ~heldFor' /\ heldFor' \in BOOLEAN /\ traded' \in BOOLEAN BY <3>1
    <3>3. ~SellBlocked' BY <3>1 DEF SellBlocked, CanAutoSell, AfterFills
    <3>4. row' \in [quantity : 0..2 * MaxHeld, reason : Reasons, autoSell : BOOLEAN]
      BY <2>1, <2>4, <3>1 DEF AfterFills, Reasons, NetRange
    <3>5. row'.reason # "none" BY <3>1 DEF AfterFills
    <3>6. seenAtStart' \in BOOLEAN BY <1>6 DEF ApplyFills, HoldInv, HoldPolicyTypeOK
    <3>7. unapplied' \in -(2 * MaxHeld)..(2 * MaxHeld) BY <2>1
    <3>8. HoldPolicyTypeOK' BY <2>1, <2>3, <3>2, <3>4, <3>6, <3>7 DEF HoldPolicyTypeOK
    <3>9. HoldFollowsOwner'
      BY <3>2, <3>3 DEF HoldFollowsOwner, FoundCoinIsHeld, OwnCoinIsSellable
    <3> QED BY <2>1, <2>2, <3>5, <3>8, <3>9 DEF HoldInv
  <2>5. CASE ~(tracked' >= 0)
    <3>1. UNCHANGED <<row, seenAtStart, traded, heldFor>>
      BY <1>6, <2>5 DEF ApplyFills
    <3>2. unapplied' \in -(2 * MaxHeld)..(2 * MaxHeld) BY <2>1
    <3>3. HoldPolicyTypeOK' BY <2>1, <2>3, <3>1, <3>2 DEF HoldInv, HoldPolicyTypeOK
    <3> QED
      BY <2>1, <3>1, <3>3
      DEF HoldInv, HoldFollowsOwner, FoundCoinIsHeld, OwnCoinIsSellable, SellBlocked
  <2> QED BY <2>4, <2>5
<1>7. ASSUME NEW rebuilt \in NetRange, NEW readable \in BOOLEAN,
             WalletCheck(rebuilt, readable)
      PROVE  HoldInv'
  <2>1. /\ tracked' \in NetRange /\ tracked' + unapplied' \in NetRange /\ unapplied' = 0
        /\ unapplied' \in -(2 * MaxHeld)..(2 * MaxHeld)
    BY <1>2, <1>7 DEF WalletCheck, NetRange
  <2>2. ~seenAtStart /\ seenAtStart' = TRUE BY <1>7 DEF WalletCheck
  <2>3. ~traded' /\ traded' \in BOOLEAN
    BY <1>7, <2>2 DEF WalletCheck, HoldInv, HoldPolicyTypeOK
  <2>4. /\ theirs' \in 0..MaxHeld /\ ours' \in 0..MaxHeld
        /\ UNCHANGED <<theirs, ours>>
    BY <1>2, <1>7 DEF WalletCheck
  <2>5. CASE readable /\ 2 * Magnitude(rebuilt) < wallet
    <3>1. row' = Found /\ heldFor' = TRUE BY <1>7, <2>5 DEF WalletCheck
    <3>2. wallet \in 1..2 * MaxHeld
      BY <1>2, <2>5 DEF wallet, Magnitude, NetRange
    <3>3. SellBlocked' BY <3>1, <3>2 DEF SellBlocked, CanAutoSell, Found
    <3>4. row' \in [quantity : 0..2 * MaxHeld, reason : Reasons, autoSell : BOOLEAN]
      BY <3>1, <3>2 DEF Found, Reasons
    <3>5. heldFor' \in BOOLEAN BY <3>1
    <3>6. HoldPolicyTypeOK' BY <2>1, <2>2, <2>3, <2>4, <3>4, <3>5 DEF HoldPolicyTypeOK
    <3> QED
      BY <2>1, <2>3, <3>3, <3>6
      DEF HoldInv, HoldFollowsOwner, FoundCoinIsHeld, OwnCoinIsSellable
  <2>6. CASE ~(readable /\ 2 * Magnitude(rebuilt) < wallet)
    <3>1. UNCHANGED <<row, heldFor>> BY <1>7, <2>6 DEF WalletCheck
    <3>2. HoldPolicyTypeOK'
      BY <2>1, <2>2, <2>3, <2>4, <3>1 DEF HoldInv, HoldPolicyTypeOK
    <3> QED
      BY <2>1, <2>3, <3>1, <3>2
      DEF HoldInv, HoldFollowsOwner, FoundCoinIsHeld, OwnCoinIsSellable, SellBlocked
  <2> QED BY <2>5, <2>6
<1>8. CASE LoopRestarts
  <2>1. seenAtStart' \in BOOLEAN /\ traded' \in BOOLEAN BY <1>8 DEF LoopRestarts
  <2>2. ~traded' BY <1>8 DEF LoopRestarts
  <2> QED
    BY <1>8, <2>1, <2>2
    DEF LoopRestarts, HoldInv, HoldPolicyTypeOK, HoldFollowsOwner,
        FoundCoinIsHeld, OwnCoinIsSellable, SellBlocked
<1>9. CASE ReconcileWallet
  <2>1. /\ UNCHANGED <<theirs, ours, unapplied, tracked, seenAtStart, traded>>
        /\ row' = Reconciled
        /\ heldFor' = (wallet > 0 /\ (row = NoRow \/ heldFor))
    BY <1>9 DEF ReconcileWallet
  <2>2. heldFor' \in BOOLEAN BY <2>1
  <2>3. wallet \in 0..2 * MaxHeld BY <1>2 DEF wallet
  <2>4. CASE wallet > 0 /\ row = NoRow
    <3>1. row' = Found BY <2>1, <2>4 DEF Reconciled
    <3>2. SellBlocked' BY <2>4, <3>1 DEF SellBlocked, CanAutoSell, Found
    <3>3. row' \in [quantity : 0..2 * MaxHeld, reason : Reasons, autoSell : BOOLEAN]
      BY <2>3, <3>1 DEF Found, Reasons
    <3>4. ~traded' BY <2>1, <2>4 DEF HoldInv, NoRow
    <3>5. HoldPolicyTypeOK' BY <2>1, <2>2, <3>3 DEF HoldInv, HoldPolicyTypeOK
    <3> QED
      BY <2>1, <3>2, <3>4, <3>5
      DEF HoldInv, HoldFollowsOwner, FoundCoinIsHeld, OwnCoinIsSellable
  <2>5. CASE wallet = 0
    <3>1. ~heldFor'
      <4>1. ~(wallet > 0) BY <2>5
      <4> QED BY <2>1, <4>1, Zenon
    <3>2. CASE row.quantity > 0
      <4>1. row' = [row EXCEPT !.reason = "stale_hold"]
        BY <2>1, <2>5, <3>2 DEF Reconciled
      <4>2. row \in [quantity : 0..2 * MaxHeld, reason : Reasons, autoSell : BOOLEAN]
        BY <3>2 DEF HoldInv, HoldPolicyTypeOK, NoRow
      <4>3. /\ row' \in [quantity : 0..2 * MaxHeld, reason : Reasons, autoSell : BOOLEAN]
            /\ row'.reason = "stale_hold"
        BY <4>1, <4>2 DEF Reasons
      <4>4. ~SellBlocked' BY <4>3 DEF SellBlocked, CanAutoSell
      <4>5. HoldPolicyTypeOK' BY <2>1, <2>2, <4>3 DEF HoldInv, HoldPolicyTypeOK
      <4> QED
        BY <2>1, <3>1, <4>3, <4>4, <4>5
        DEF HoldInv, HoldFollowsOwner, FoundCoinIsHeld, OwnCoinIsSellable
    <3>3. CASE ~(row.quantity > 0)
      <4>1. row' = row BY <2>1, <2>5, <3>3 DEF Reconciled
      <4>2. HoldPolicyTypeOK' BY <2>1, <2>2, <4>1 DEF HoldInv, HoldPolicyTypeOK
      <4> QED
        BY <2>1, <3>1, <4>1, <4>2
        DEF HoldInv, HoldFollowsOwner, FoundCoinIsHeld, OwnCoinIsSellable, SellBlocked
    <3> QED BY <3>2, <3>3
  <2>6. CASE wallet > 0 /\ row # NoRow
    <3>1. row' = row BY <2>1, <2>6 DEF Reconciled
    <3>2. heldFor' => heldFor BY <2>1, <2>6
    <3>3. HoldPolicyTypeOK' BY <2>1, <2>2, <3>1 DEF HoldInv, HoldPolicyTypeOK
    <3> QED
      BY <2>1, <3>1, <3>2, <3>3
      DEF HoldInv, HoldFollowsOwner, FoundCoinIsHeld, OwnCoinIsSellable, SellBlocked
  <2> QED BY <2>3, <2>4, <2>5, <2>6
<1>10. CASE UNCHANGED holdVars
  BY <1>1, <1>2, <1>10 DEF holdVars
<1> QED
  BY <1>3, <1>4, <1>5, <1>6, <1>7, <1>8, <1>9, <1>10 DEF HoldPolicyNext

LEMMA HoldAlways == HoldPolicySpec => []HoldInv
  BY InitHold, NextHold, PTL DEF HoldPolicySpec

(* What was found in the wallet stays held and what the strategy bought    *)
(* stays sellable, in whatever order fills, restarts and the two wallet    *)
(* checks write the row of spot_holdings.                                  *)
THEOREM HoldFollows == HoldPolicySpec => []HoldFollowsOwner
<1>1. HoldInv => HoldFollowsOwner BY DEF HoldInv
<1> QED BY <1>1, HoldAlways, PTL

-----------------------------------------------------------------------------
(* OrderReconciliation.  Where a run stands with its keys and issues; an   *)
(* order not placed has left no trace; a row has somebody who wrote it.    *)
RunInv ==
    /\ stage \in {"wallet", "orders"} => active = {}
    /\ stage = "rest" => active = found /\ found \subseteq issues
    /\ LockIsCurrent

TraceInv ==
    \A o \in BookedOrders :
        /\ atExchange[o] = "none" => orderRow[o] = "none" /\ o \notin answer /\ o \notin readers
        /\ orderRow[o] # "none" => o \in legacy \cup flagged \cup copied

AnswerInv ==
    stage \in {"rest", "complete"} => answer \subseteq legacy \cup flagged \cup copied

ReconciliationInv ==
    /\ OrderReconciliationTypeOK
    /\ RunInv /\ TraceInv /\ AnswerInv /\ ReportedOnce

LEMMA InitReconciliation == OrderReconciliationInit => ReconciliationInv
  BY OrderReconciliationAssumption
  DEF OrderReconciliationInit, ReconciliationInv, OrderReconciliationTypeOK, RunInv,
      TraceInv, AnswerInv, LockIsCurrent, ReportedOnce

(* What a list, of a run or of a reader, does to the rows it is saved to.  *)
LEMMA Relisted ==
    ASSUME ReconciliationInv, NEW l, l \subseteq BookedOrders, Relist(l)
    PROVE  /\ relisted' \in [BookedOrders -> 0..MaxRelists]
           /\ \A o \in BookedOrders :
                relisted'[o] = relisted[o] + (IF o \in l /\ orderRow[o] = "missing" THEN 1 ELSE 0)
<1> USE OrderReconciliationAssumption
<1>1. relisted \in [BookedOrders -> 0..MaxRelists]
  BY DEF ReconciliationInv, OrderReconciliationTypeOK
<1>2. \A o \in BookedOrders :
        relisted'[o] = relisted[o] + (IF o \in l /\ orderRow[o] = "missing" THEN 1 ELSE 0)
  BY DEF Relist, Revived
<1>3. \A o \in BookedOrders : relisted'[o] \in 0..MaxRelists
  BY <1>1, <1>2 DEF Relist, Revived
<1> QED BY <1>2, <1>3 DEF Relist

LEMMA NextReconciliation ==
    ReconciliationInv /\ [OrderReconciliationNext]_reconciliationVars => ReconciliationInv'
<1> SUFFICES ASSUME ReconciliationInv, [OrderReconciliationNext]_reconciliationVars
             PROVE  ReconciliationInv'
  OBVIOUS
<1> USE OrderReconciliationAssumption
<1>t. OrderReconciliationTypeOK /\ RunInv /\ TraceInv /\ AnswerInv /\ ReportedOnce
  BY DEF ReconciliationInv
<1>1. ASSUME NEW o \in BookedOrders, NEW answered \in BOOLEAN, NEW mirrored \in BOOLEAN,
             PlaceOrder(o, answered, mirrored)
      PROVE  ReconciliationInv'
  <2>1. /\ orderRow[o] = "none"
        /\ atExchange' = [atExchange EXCEPT ![o] = "open"]
        /\ UNCHANGED <<runVars, readers, seenVars>>
    BY <1>1, <1>t DEF PlaceOrder, TraceInv
  <2>2. legacy' \subseteq BookedOrders /\ legacy \subseteq legacy' /\ (answered => o \in legacy')
    BY <1>1, <1>t DEF PlaceOrder, OrderReconciliationTypeOK
  <2>3. \/ orderRow' = orderRow
        \/ answered /\ orderRow' = [orderRow EXCEPT ![o] = "live"]
    BY <1>1 DEF PlaceOrder
  <2>4. OrderReconciliationTypeOK'
    BY <1>t, <2>1, <2>2, <2>3 DEF OrderReconciliationTypeOK, runVars, seenVars
  <2>5. RunInv' BY <1>t, <2>1 DEF RunInv, LockIsCurrent, runVars
  <2>6. TraceInv'
    BY <1>t, <2>1, <2>2, <2>3
    DEF TraceInv, OrderReconciliationTypeOK, runVars, seenVars
  <2>7. AnswerInv' BY <1>t, <2>1, <2>2 DEF AnswerInv, runVars, seenVars
  <2>8. ReportedOnce'
    BY <1>t, <2>1, <2>3 DEF ReportedOnce, OrderReconciliationTypeOK, seenVars
  <2> QED BY <2>4, <2>5, <2>6, <2>7, <2>8 DEF ReconciliationInv
<1>2. ASSUME NEW o \in BookedOrders, EndOrder(o) PROVE ReconciliationInv'
  BY <1>2, <1>t
  DEF EndOrder, ReconciliationInv, OrderReconciliationTypeOK, RunInv, TraceInv, AnswerInv,
      LockIsCurrent, ReportedOnce, books, runVars, seenVars
<1>3. CASE RunBegins
  BY <1>3, <1>t
  DEF RunBegins, ActiveAtStart, ReconciliationInv, OrderReconciliationTypeOK, RunInv,
      TraceInv, AnswerInv, LockIsCurrent, ReportedOnce, books, seenVars
<1>4. CASE OrdersAnswered
  <2>1. answer' \subseteq OpenThere BY <1>4 DEF OrdersAnswered, Lists
  <2>2. \A o \in BookedOrders : o \in answer' => atExchange[o] # "none"
    BY <2>1 DEF OpenThere
  <2> QED
    BY <1>4, <1>t, <2>1, <2>2
    DEF OrdersAnswered, OpenThere, ReconciliationInv, OrderReconciliationTypeOK, RunInv,
        TraceInv, AnswerInv, LockIsCurrent, ReportedOnce, books, seenVars
<1>5. CASE OrdersRefused
  BY <1>5, <1>t
  DEF OrdersRefused, ReconciliationInv, OrderReconciliationTypeOK, RunInv,
      TraceInv, AnswerInv, LockIsCurrent, ReportedOnce, books, seenVars
<1>6. CASE CompareOrders
  <2> DEFINE orphans == Unknown(answer)
             gone == Live \ answer
             met == (IF orphans # {} THEN {"orphaned_exchange_order"} ELSE {})
                    \cup (IF gone # {} THEN {"local_order_missing_on_exchange"} ELSE {})
  <2>1. /\ stage = "orders" /\ stage' = "rest"
        /\ Relist(answer)
        /\ \A o \in gone : reported[o] <= MaxRelists
        /\ orderRow' = MarkMissing(MadeLive(orderRow, answer), gone)
        /\ issues' = issues \cup met /\ active' = active \cup met /\ found' = met
        /\ flagged' = flagged \cup orphans
        /\ reported' = [o \in BookedOrders |-> reported[o] + (IF o \in gone THEN 1 ELSE 0)]
        /\ UNCHANGED <<atExchange, legacy, answer, readers, copied>>
    BY <1>6 DEF CompareOrders
  <2>2. answer \subseteq BookedOrders BY <1>t DEF OrderReconciliationTypeOK
  <2>3. /\ orderRow' \in [BookedOrders -> {"none", "live", "missing"}]
        /\ \A o \in BookedOrders :
             orderRow'[o] = IF o \in answer THEN "live"
                            ELSE IF orderRow[o] = "live" THEN "missing" ELSE orderRow[o]
    BY <1>t, <2>1 DEF MarkMissing, MadeLive, Live, OrderReconciliationTypeOK
  <2>4. /\ relisted' \in [BookedOrders -> 0..MaxRelists]
        /\ \A o \in BookedOrders :
             relisted'[o] = relisted[o]
                              + (IF o \in answer /\ orderRow[o] = "missing" THEN 1 ELSE 0)
    BY <2>1, <2>2, Relisted
  <2>5. /\ reported' \in [BookedOrders -> 0..MaxRelists + 1]
        /\ \A o \in BookedOrders :
             reported'[o] = reported[o] + (IF orderRow[o] = "live" /\ o \notin answer THEN 1 ELSE 0)
    <3>1. reported \in [BookedOrders -> 0..MaxRelists + 1]
      BY <1>t DEF OrderReconciliationTypeOK
    <3>2. \A o \in BookedOrders : o \in gone <=> orderRow[o] = "live" /\ o \notin answer
      BY DEF Live
    <3> HIDE DEF gone
    <3> QED BY <2>1, <3>1, <3>2
  <2>6. /\ met \subseteq {"orphaned_exchange_order", "local_order_missing_on_exchange"}
        /\ orphans \subseteq answer
    BY DEF Unknown
  <2>7. RunInv'
    BY <1>t, <2>1 DEF RunInv, LockIsCurrent
  <2>8. \A o \in answer : o \in legacy \cup (flagged \cup orphans) \cup copied
    BY <1>t, <2>2 DEF TraceInv, Unknown
  <2> HIDE DEF orphans, gone, met
  <2>9. OrderReconciliationTypeOK'
    BY <1>t, <2>1, <2>2, <2>3, <2>4, <2>5, <2>6 DEF OrderReconciliationTypeOK
  <2>10. TraceInv'
    BY <1>t, <2>1, <2>3, <2>8 DEF TraceInv
  <2>11. AnswerInv' BY <2>1, <2>8 DEF AnswerInv
  <2>12. ReportedOnce'
    <3> SUFFICES ASSUME NEW o \in BookedOrders
                 PROVE  reported'[o] = relisted'[o] + (IF orderRow'[o] = "missing" THEN 1 ELSE 0)
      BY DEF ReportedOnce
    <3>1. reported[o] = relisted[o] + (IF orderRow[o] = "missing" THEN 1 ELSE 0)
      BY <1>t DEF ReportedOnce
    <3>2. reported[o] \in Int /\ relisted[o] \in Int /\ orderRow[o] \in {"none", "live", "missing"}
      BY <1>t DEF OrderReconciliationTypeOK
    <3> QED BY <2>3, <2>4, <2>5, <3>1, <3>2
  <2> QED BY <2>7, <2>9, <2>10, <2>11, <2>12 DEF ReconciliationInv
<1>7. CASE RunCompletes
  BY <1>7, <1>t
  DEF RunCompletes, ReconciliationInv, OrderReconciliationTypeOK, RunInv,
      TraceInv, AnswerInv, LockIsCurrent, ReportedOnce, books, seenVars
<1>8. CASE RunFails
  BY <1>8, <1>t
  DEF RunFails, ReconciliationInv, OrderReconciliationTypeOK, RunInv,
      TraceInv, AnswerInv, LockIsCurrent, ReportedOnce, books, seenVars
<1>9. CASE ReaderAsks
  <2>1. readers' \subseteq OpenThere BY <1>9 DEF ReaderAsks, Lists
  <2>2. \A o \in BookedOrders : o \in readers' => atExchange[o] # "none"
    BY <2>1 DEF OpenThere
  <2> QED
    BY <1>9, <1>t, <2>1, <2>2
    DEF ReaderAsks, OpenThere, ReconciliationInv, OrderReconciliationTypeOK, RunInv,
        TraceInv, AnswerInv, LockIsCurrent, ReportedOnce, books, runVars, seenVars
<1>10. CASE ReaderSaves
  <2>1. /\ Relist(readers)
        /\ orderRow' = MadeLive(orderRow, readers)
        /\ copied' = copied \cup Inserted(readers)
        /\ readers' = {}
        /\ UNCHANGED <<atExchange, legacy, runVars, flagged, reported>>
    BY <1>10 DEF ReaderSaves
  <2>2. readers \subseteq BookedOrders BY <1>t DEF OrderReconciliationTypeOK
  <2>3. /\ orderRow' \in [BookedOrders -> {"none", "live", "missing"}]
        /\ \A o \in BookedOrders :
             orderRow'[o] = IF o \in readers THEN "live" ELSE orderRow[o]
    BY <1>t, <2>1 DEF MadeLive, OrderReconciliationTypeOK
  <2>4. /\ relisted' \in [BookedOrders -> 0..MaxRelists]
        /\ \A o \in BookedOrders :
             relisted'[o] = relisted[o]
                              + (IF o \in readers /\ orderRow[o] = "missing" THEN 1 ELSE 0)
    BY <2>1, <2>2, Relisted
  <2>5. \A o \in readers : o \in legacy \cup flagged \cup copied'
    BY <1>t, <2>1, <2>2 DEF TraceInv, Inserted
  <2>6. copied \subseteq copied' /\ copied' \subseteq BookedOrders
    BY <1>t, <2>1, <2>2 DEF Inserted, OrderReconciliationTypeOK
  <2>7. OrderReconciliationTypeOK'
    BY <1>t, <2>1, <2>3, <2>4, <2>6 DEF OrderReconciliationTypeOK, runVars
  <2>8. RunInv' BY <1>t, <2>1 DEF RunInv, LockIsCurrent, runVars
  <2>9. TraceInv' BY <1>t, <2>1, <2>3, <2>5, <2>6 DEF TraceInv, runVars
  <2>10. AnswerInv' BY <1>t, <2>1, <2>6 DEF AnswerInv, runVars
  <2>11. ReportedOnce'
    <3> SUFFICES ASSUME NEW o \in BookedOrders
                 PROVE  reported'[o] = relisted'[o] + (IF orderRow'[o] = "missing" THEN 1 ELSE 0)
      BY DEF ReportedOnce
    <3>1. reported[o] = relisted[o] + (IF orderRow[o] = "missing" THEN 1 ELSE 0)
      BY <1>t DEF ReportedOnce
    <3>2. reported[o] \in Int /\ relisted[o] \in Int
      BY <1>t DEF OrderReconciliationTypeOK
    <3> QED BY <2>1, <2>3, <2>4, <3>1, <3>2
  <2> QED BY <2>7, <2>8, <2>9, <2>10, <2>11 DEF ReconciliationInv
<1>11. CASE UNCHANGED reconciliationVars
  BY <1>11, <1>t
  DEF reconciliationVars, ReconciliationInv, OrderReconciliationTypeOK, RunInv, TraceInv,
      AnswerInv, LockIsCurrent, ReportedOnce, books, runVars, seenVars
<1> QED
  BY <1>1, <1>2, <1>3, <1>4, <1>5, <1>6, <1>7, <1>8, <1>9, <1>10, <1>11
  DEF OrderReconciliationNext

LEMMA ReconciliationAlways == OrderReconciliationSpec => []ReconciliationInv
  BY InitReconciliation, NextReconciliation, PTL DEF OrderReconciliationSpec

(* A run that completed locks the symbol by the conflicts it met, and by   *)
(* nothing older, whatever runs failed before it.                          *)
THEOREM LocksAreCurrent == OrderReconciliationSpec => []LockIsCurrent
<1>1. ReconciliationInv => LockIsCurrent BY DEF ReconciliationInv, RunInv
<1> QED BY <1>1, ReconciliationAlways, PTL

(* An order the loop does not know of is flagged by the first complete run *)
(* that is shown it, or passed through a reader; an order that is gone is  *)
(* reported once for each time its row was live.                           *)
THEOREM ConflictsComeToLight == OrderReconciliationSpec => []ConflictsAreReported
<1>1. ReconciliationInv => ConflictsAreReported
  BY DEF ReconciliationInv, AnswerInv, ConflictsAreReported, UnknownOrderFlagged
<1> QED BY <1>1, ReconciliationAlways, PTL

(* Nothing lifts a lock but the end of a complete run that did not meet    *)
(* the conflict: no failed or refused run, no reader and no fill does.     *)
LiftedByCleanRun ==
    \A i \in issues \ issues' : stage = "rest" /\ stage' = "complete" /\ i \notin found

(* An issue that locks entries survives every other step of the loop, the  *)
(* readers and the runs, for any orders and any size of a list's page.     *)
THEOREM CleanRunsLiftLocks ==
    OrderReconciliationSpec => [][LiftedByCleanRun]_reconciliationVars
<1>1. ReconciliationInv /\ [OrderReconciliationNext]_reconciliationVars
          => [LiftedByCleanRun]_reconciliationVars
  <2> SUFFICES ASSUME ReconciliationInv, OrderReconciliationNext PROVE LiftedByCleanRun
    OBVIOUS
  <2>1. CASE RunCompletes
    BY <2>1 DEF RunCompletes, ReconciliationInv, RunInv, LiftedByCleanRun
  <2>2. CASE issues \subseteq issues' BY <2>2 DEF LiftedByCleanRun
  <2> QED
    BY <2>1, <2>2
    DEF OrderReconciliationNext, PlaceOrder, EndOrder, RunBegins, OrdersAnswered,
        OrdersRefused, CompareOrders, RunFails, ReaderAsks, ReaderSaves, runVars
<1> QED BY <1>1, ReconciliationAlways, PTL DEF OrderReconciliationSpec

-----------------------------------------------------------------------------
(* OperatorControl.  The quiet after a panic lasts because nothing is past *)
(* the pause's gate; an update that may still pull holds the flag, and a   *)
(* request to restart is only there when no update does.                   *)
QuietInv == quiet => paused /\ ~working /\ loop \notin {"asking", "ordering", "ended"}

Holds(u) == update[u] \in {"pulling", "pulled"}

UpdateInv ==
    ~unsent => /\ \A u \in Updaters : Holds(u) => updating /\ ~restart
               /\ \A u, v \in Updaters : Holds(u) /\ Holds(v) => u = v
               /\ restart => updating
               /\ loop = "reloading" => restart

ControlInv == ControlTypeOK /\ QuietInv /\ UpdateInv

LEMMA InitControl == ControlInit => ControlInv
<1> SUFFICES ASSUME ControlInit PROVE ControlInv
  OBVIOUS
<1>1. /\ paused \in BOOLEAN /\ working \in BOOLEAN
      /\ panic = FALSE /\ updating = FALSE /\ restart = FALSE /\ quiet = FALSE /\ unsent = FALSE
      /\ handling = [h \in Handlers |-> "idle"]
      /\ update = [u \in Updaters |-> "unborn"]
      /\ loop = "starting"
  BY DEF ControlInit
<1>2. ControlTypeOK BY <1>1 DEF ControlTypeOK, Progress, Awaits
<1>3. QuietInv BY <1>1, Zenon DEF QuietInv
<1>4. ~restart BY <1>1, Zenon
<1>5. \A u \in Updaters : ~Holds(u) BY <1>1 DEF Holds
<1>6. loop # "reloading" BY <1>1
<1>7. UpdateInv BY <1>4, <1>5, <1>6, Zenon DEF UpdateInv
<1> QED BY <1>2, <1>3, <1>7 DEF ControlInv

LEMMA NextControlType ==
    ControlTypeOK /\ [ControlNext]_controlVars => ControlTypeOK'
<1> SUFFICES ASSUME ControlTypeOK, [ControlNext]_controlVars PROVE ControlTypeOK'
  OBVIOUS
<1> QED
  BY DEF ControlTypeOK, controlVars, ControlNext, Pause, Resume, Panic, PanicPauses, Update,
     BeginUpdate, Begin, PullEnds, RequestRestart, MarkPending, Tell, RestartRequested,
     ApplyRestart, RestartApplied, StartLoop, Wake, Gate, ServePanic, AskOpenOrders, Trade,
     Fill, RestartOfEnded, Progress, Awaits

LEMMA NextQuiet == QuietInv /\ [ControlNext]_controlVars => QuietInv'
<1> SUFFICES ASSUME QuietInv, [ControlNext]_controlVars PROVE QuietInv'
  OBVIOUS
<1>1. CASE Pause BY <1>1 DEF Pause, QuietInv
<1>2. CASE Resume BY <1>2 DEF Resume, QuietInv
<1>3. ASSUME NEW h \in Handlers, Panic(h) \/ PanicPauses(h) PROVE QuietInv'
  BY <1>3 DEF Panic, PanicPauses, QuietInv
<1>4. ASSUME NEW u \in Updaters,
             \/ Update(u) \/ BeginUpdate(u) \/ PullEnds(u)
             \/ RequestRestart(u) \/ MarkPending(u) \/ Tell(u)
      PROVE  QuietInv'
  BY <1>4 DEF Update, BeginUpdate, PullEnds, RequestRestart, MarkPending, Tell, QuietInv
<1>5. CASE RestartRequested \/ ApplyRestart \/ RestartOfEnded
  BY <1>5 DEF RestartRequested, ApplyRestart, RestartOfEnded, RestartApplied, QuietInv
<1>6. CASE StartLoop BY <1>6 DEF StartLoop, QuietInv
<1>7. CASE Wake BY <1>7 DEF Wake, Gate, QuietInv
<1>8. CASE ServePanic BY <1>8 DEF ServePanic, QuietInv
<1>9. CASE AskOpenOrders \/ Trade BY <1>9 DEF AskOpenOrders, Trade, QuietInv
<1>10. CASE Fill BY <1>10 DEF Fill, QuietInv
<1>11. CASE UNCHANGED controlVars BY <1>11 DEF controlVars, QuietInv
<1> QED
  BY <1>1, <1>2, <1>3, <1>4, <1>5, <1>6, <1>7, <1>8, <1>9, <1>10, <1>11 DEF ControlNext

LEMMA NextUpdate ==
    ControlTypeOK /\ UpdateInv /\ [ControlNext]_controlVars => UpdateInv'
<1> SUFFICES ASSUME ControlTypeOK, UpdateInv, [ControlNext]_controlVars PROVE UpdateInv'
  OBVIOUS
<1>t. update \in [Updaters -> Progress] BY DEF ControlTypeOK
<1>1. ASSUME UNCHANGED <<updating, restart, update, loop, unsent>> PROVE UpdateInv'
  BY <1>1 DEF UpdateInv, Holds
<1>2. CASE Pause \/ Resume \/ Fill BY <1>1, <1>2 DEF Pause, Resume, Fill
<1>3. ASSUME NEW h \in Handlers, Panic(h) \/ PanicPauses(h) PROVE UpdateInv'
  BY <1>1, <1>3 DEF Panic, PanicPauses
<1>4. ASSUME NEW u \in Updaters, Update(u) \/ BeginUpdate(u) PROVE UpdateInv'
  BY <1>4, <1>t DEF Update, BeginUpdate, Begin, UpdateInv, Holds
<1>5. ASSUME NEW u \in Updaters, PullEnds(u) PROVE UpdateInv'
  BY <1>5, <1>t DEF PullEnds, UpdateInv, Holds
<1>6. ASSUME NEW u \in Updaters, RequestRestart(u) PROVE UpdateInv'
  BY <1>6, <1>t DEF RequestRestart, UpdateInv, Holds
<1>7. ASSUME NEW u \in Updaters, MarkPending(u) \/ Tell(u) PROVE UpdateInv'
  BY <1>7, <1>t DEF MarkPending, Tell, UpdateInv, Holds
<1>8. CASE RestartRequested \/ RestartOfEnded
  BY <1>8 DEF RestartRequested, RestartOfEnded, UpdateInv, Holds
<1>9. CASE ApplyRestart
  BY <1>9 DEF ApplyRestart, RestartApplied, UpdateInv, Holds
<1>10. CASE StartLoop \/ Wake \/ ServePanic \/ AskOpenOrders \/ Trade
  BY <1>10 DEF StartLoop, Wake, Gate, ServePanic, AskOpenOrders, Trade, UpdateInv, Holds
<1>11. CASE UNCHANGED controlVars BY <1>1, <1>11 DEF controlVars
<1> QED
  BY <1>2, <1>3, <1>4, <1>5, <1>6, <1>7, <1>8, <1>9, <1>10, <1>11 DEF ControlNext

LEMMA ControlAlways == ControlSpec => []ControlInv
<1>1. ControlInv /\ [ControlNext]_controlVars => ControlInv'
  BY NextControlType, NextQuiet, NextUpdate DEF ControlInv
<1> QED BY <1>1, InitControl, PTL DEF ControlSpec

(* After a panic that was served under the pause no order works until the  *)
(* operator resumes: not after an /update, not after a restart, and not by *)
(* an iteration that was under way.                                        *)
THEOREM PanicStaysQuiet == ControlSpec => []PanicLeavesNothing
<1>1. ControlInv => PanicLeavesNothing BY DEF ControlInv, QuietInv, PanicLeavesNothing
<1> QED BY <1>1, ControlAlways, PTL

(* Only one update thread pulls at a time and none while the modules are   *)
(* reloaded, for any number of threads, while messages can be sent.        *)
THEOREM OnePullAtATime == ControlSpec => []PullsAreExclusive
<1>1. ASSUME UpdateInv, ~unsent PROVE Cardinality(Pulling) <= 1
  <2>1. CASE Pulling = {}
    BY <2>1, FS_EmptySet
  <2>2. CASE Pulling # {}
    <3>1. PICK u \in Pulling : TRUE BY <2>2
    <3>2. Pulling = {u} BY <1>1, <3>1 DEF UpdateInv, Holds, Pulling
    <3>3. Cardinality({u}) = 1 BY FS_Singleton, Zenon
    <3> QED BY <3>2, <3>3
  <2> QED BY <2>1, <2>2
<1>2. ASSUME UpdateInv, ~unsent, loop = "reloading" PROVE Pulling = {}
  BY <1>2 DEF UpdateInv, Holds, Pulling
<1>3. UpdateInv => PullsAreExclusive BY <1>1, <1>2 DEF PullsAreExclusive
<1> QED BY <1>3, ControlAlways, PTL DEF ControlInv

-----------------------------------------------------------------------------
(* SpotPortfolio.  Executions not applied make up the difference between   *)
(* the position and its view; an exit quote has a coin to sell.  From the  *)
(* list of open orders on every working entry is in one of the views, and  *)
(* from the refresh on every coin is, unless executions were left out.     *)
AccountInv ==
    \A s \in Pairs : coins[s] = net[s] + unseen[s] /\ (ask[s] => coins[s] > 0)

Listing == stepNow \in {"refresh", "wallet", "cancel", "exits", "asks", "intents"}
Refreshed == stepNow \in {"wallet", "cancel", "exits", "asks", "intents"}

ViewsInv ==
    \A s \in Pairs :
        /\ Listing /\ quote[s] => s \in listed \cup placed
        /\ ~skipped /\ Refreshed /\ coins[s] > 0 => net[s] # 0 \/ s \in listed \cup placed

PortfolioInv == PortfolioTypeOK /\ AccountInv /\ ViewsInv /\ LimitKept

(* The limit holds on as long as no symbol becomes engaged.                *)
LEMMA LimitHolds ==
    ASSUME LimitKept, ~skipped' => ~skipped, Engaged' \subseteq Engaged
    PROVE  LimitKept'
<1>1. IsFiniteSet(Engaged)
  <2>1. Engaged \in SUBSET Pairs BY DEF Engaged
  <2>2. IsFiniteSet(Pairs) BY SpotPortfolioAssumption
  <2> QED BY <2>1, <2>2, FS_Subset
<1>2. Cardinality(Engaged') \in Nat /\ Cardinality(Engaged) \in Nat
      /\ Cardinality(Engaged') <= Cardinality(Engaged)
  BY <1>1, FS_Subset, FS_CardinalityType
<1> HIDE DEF Engaged
<1>3. ASSUME ~skipped' PROVE Cardinality(Engaged)' <= MaxOpenPositions
  <2>1. Cardinality(Engaged) <= MaxOpenPositions BY <1>3 DEF LimitKept
  <2> QED BY <1>2, <2>1, SpotPortfolioAssumption
<1> QED BY <1>3 DEF LimitKept

LEMMA NextPortfolio == PortfolioInv /\ [PortfolioNext]_portfolioVars => PortfolioInv'
<1> SUFFICES ASSUME PortfolioInv, [PortfolioNext]_portfolioVars PROVE PortfolioInv'
  OBVIOUS
<1> USE SpotPortfolioAssumption
<1>t. PortfolioTypeOK /\ AccountInv /\ ViewsInv /\ LimitKept BY DEF PortfolioInv
<1>e. ASSUME ~skipped' => ~skipped,
             \A s \in Pairs : coins'[s] > 0 \/ quote'[s] => coins[s] > 0 \/ quote[s]
      PROVE  LimitKept'
  <2>1. Engaged' \subseteq Engaged BY <1>e DEF Engaged
  <2> QED BY <1>e, <1>t, <2>1, LimitHolds
<1>1. ASSUME NEW s \in Pairs, Buys(s) PROVE PortfolioInv'
  <2>1. PortfolioTypeOK' BY <1>1, <1>t DEF Buys, PortfolioTypeOK, AccountInv, views
  <2>2. AccountInv' BY <1>1, <1>t DEF Buys, PortfolioTypeOK, AccountInv, views
  <2>3. ViewsInv'
    BY <1>1, <1>t DEF Buys, PortfolioTypeOK, ViewsInv, Listing, Refreshed, views
  <2>4. LimitKept' BY <1>1, <1>t, <1>e DEF Buys, PortfolioTypeOK
  <2> QED BY <2>1, <2>2, <2>3, <2>4 DEF PortfolioInv
<1>2. ASSUME NEW s \in Pairs, Sells(s), coins[s] > 0, UNCHANGED <<quote, views, stepNow, skipped>>,
             ask' \in [Pairs -> BOOLEAN], \A r \in Pairs : ask'[r] => ask[r],
             ask'[s] => coins[s] > 1, todo' \subseteq Pairs
      PROVE  PortfolioInv'
  <2>1. PortfolioTypeOK' BY <1>2, <1>t DEF Sells, PortfolioTypeOK, AccountInv, views
  <2>2. AccountInv' BY <1>2, <1>t DEF Sells, PortfolioTypeOK, AccountInv, views
  <2>3. ViewsInv'
    BY <1>2, <1>t DEF Sells, PortfolioTypeOK, ViewsInv, Listing, Refreshed, views
  <2>4. LimitKept' BY <1>2, <1>t, <1>e DEF Sells, PortfolioTypeOK
  <2> QED BY <2>1, <2>2, <2>3, <2>4 DEF PortfolioInv
<1>3. ASSUME NEW s \in Pairs, AskFills(s) PROVE PortfolioInv'
  BY <1>2, <1>3, <1>t DEF AskFills, PortfolioTypeOK, AccountInv
<1>4. CASE GetOpenOrders
  <2>1. PortfolioTypeOK' BY <1>4, <1>t DEF GetOpenOrders, PortfolioTypeOK, account, Steps
  <2>2. AccountInv' BY <1>4, <1>t DEF GetOpenOrders, AccountInv, account
  <2>3. ViewsInv' BY <1>4 DEF GetOpenOrders, ViewsInv, Listing, Refreshed, account
  <2>4. LimitKept' BY <1>4, <1>e DEF GetOpenOrders, account
  <2> QED BY <2>1, <2>2, <2>3, <2>4 DEF PortfolioInv
<1>5. ASSUME NEW got \in SUBSET Pairs, Apply(got), UNCHANGED coins
      PROVE  /\ net' \in [Pairs -> 0..MaxCoins] /\ unseen' \in [Pairs -> -MaxCoins..MaxCoins]
             /\ \A s \in Pairs : coins'[s] = net'[s] + unseen'[s]
             /\ \A s \in got : net'[s] = coins[s]
  BY <1>5, <1>t DEF Apply, PortfolioTypeOK, AccountInv
<1>6. ASSUME NEW got \in SUBSET Pairs, RefreshPositions(got) PROVE PortfolioInv'
  <2>1. Apply(got) /\ UNCHANGED <<quote, ask, coins, held, listed, placed, todo>>
        /\ stepNow = "refresh" /\ stepNow' = "wallet"
        /\ skipped' = (skipped \/ got # Pairs)
    BY <1>6 DEF RefreshPositions
  <2>2. PortfolioTypeOK' BY <1>5, <1>t, <2>1 DEF PortfolioTypeOK, Steps
  <2>3. AccountInv' BY <1>5, <1>t, <2>1 DEF AccountInv
  <2>4. ~skipped' => ~skipped /\ got = Pairs BY <2>1
  <2>5. ViewsInv' BY <1>5, <1>t, <2>1, <2>4 DEF ViewsInv, Listing, PortfolioTypeOK
  <2>6. LimitKept' BY <1>e, <2>1, <2>4
  <2> QED BY <2>2, <2>3, <2>5, <2>6 DEF PortfolioInv
<1>7. CASE RefreshWallet
  <2>1. PortfolioTypeOK' BY <1>7, <1>t DEF RefreshWallet, PortfolioTypeOK, account, Steps
  <2>2. AccountInv' BY <1>7, <1>t DEF RefreshWallet, AccountInv, account
  <2>3. ViewsInv' BY <1>7, <1>t DEF RefreshWallet, ViewsInv, Listing, Refreshed, account
  <2>4. LimitKept' BY <1>7, <1>e DEF RefreshWallet, account
  <2> QED BY <2>1, <2>2, <2>3, <2>4 DEF PortfolioInv
<1>8. ASSUME NEW s \in Pairs, CancelQuote(s) PROVE PortfolioInv'
  <2>1. PICK obeyed \in BOOLEAN : quote' = [quote EXCEPT ![s] = @ /\ ~obeyed]
    BY <1>8 DEF CancelQuote
  <2>2. /\ UNCHANGED <<ask, coins, unseen, views, stepNow, skipped>>
        /\ todo' \subseteq Pairs
    BY <1>8, <1>t DEF CancelQuote, PortfolioTypeOK
  <2>3. /\ quote' \in [Pairs -> BOOLEAN]
        /\ \A r \in Pairs : quote'[r] => quote[r]
    BY <1>t, <2>1 DEF PortfolioTypeOK
  <2>4. PortfolioTypeOK' BY <1>t, <2>2, <2>3 DEF PortfolioTypeOK, views
  <2>5. AccountInv' BY <1>t, <2>2 DEF AccountInv, views
  <2>6. ViewsInv' BY <1>t, <2>2, <2>3 DEF ViewsInv, Listing, Refreshed, views
  <2>7. LimitKept' BY <1>e, <2>2, <2>3
  <2> QED BY <2>4, <2>5, <2>6, <2>7 DEF PortfolioInv
<1>9. CASE NextStep
  <2>1. PortfolioTypeOK'
    BY <1>9, <1>t DEF NextStep, PortfolioTypeOK, account, views, Steps, Positions
  <2>2. AccountInv' BY <1>9, <1>t DEF NextStep, AccountInv, account, views
  <2>3. ViewsInv' BY <1>9, <1>t DEF NextStep, ViewsInv, Listing, Refreshed, account, views
  <2>4. LimitKept' BY <1>9, <1>e DEF NextStep, account
  <2> QED BY <2>1, <2>2, <2>3, <2>4 DEF PortfolioInv
<1>10. ASSUME NEW s \in Pairs, ForceExit(s) PROVE PortfolioInv'
  <2>1. /\ UNCHANGED <<quote, ask, views, stepNow, skipped>>
        /\ todo' \subseteq Pairs
    BY <1>10, <1>t DEF ForceExit, PortfolioTypeOK
  <2>2. CASE UNCHANGED <<coins, unseen>>
    <3>1. PortfolioTypeOK' BY <1>t, <2>1, <2>2 DEF PortfolioTypeOK, views
    <3>2. AccountInv' BY <1>t, <2>1, <2>2 DEF AccountInv, views
    <3>3. ViewsInv' BY <1>t, <2>1, <2>2 DEF ViewsInv, Listing, Refreshed, views
    <3>4. LimitKept' BY <1>e, <2>1, <2>2
    <3> QED BY <3>1, <3>2, <3>3, <3>4 DEF PortfolioInv
  <2>3. CASE coins[s] > (IF ask[s] THEN 1 ELSE 0) /\ Sells(s)
    <3>1. ask' \in [Pairs -> BOOLEAN] /\ \A r \in Pairs : ask'[r] => ask[r]
      BY <1>t, <2>1 DEF PortfolioTypeOK
    <3>2. coins[s] > 0 /\ (ask'[s] => coins[s] > 1)
      BY <1>t, <2>1, <2>3 DEF PortfolioTypeOK
    <3> QED BY <1>2, <2>1, <2>3, <3>1, <3>2
  <2> QED BY <1>10, <2>2, <2>3 DEF ForceExit
<1>11. ASSUME NEW s \in Pairs, ExitQuote(s) PROVE PortfolioInv'
  <2>1. /\ UNCHANGED <<quote, coins, unseen, views, stepNow, skipped>>
        /\ todo' \subseteq Pairs
    BY <1>11, <1>t DEF ExitQuote, PortfolioTypeOK
  <2>2. PICK works \in {ask[s], coins[s] > 0} : ask' = [ask EXCEPT ![s] = works]
    BY <1>11 DEF ExitQuote
  <2>3. works \in BOOLEAN /\ (works => coins[s] > 0)
    <3>1. CASE works = ask[s] BY <1>t, <3>1 DEF PortfolioTypeOK, AccountInv
    <3>2. CASE works = (coins[s] > 0)
      <4> DEFINE sellable == coins[s] > 0
      <4>1. sellable \in BOOLEAN OBVIOUS
      <4>2. works = sellable BY <3>2
      <4> HIDE DEF sellable
      <4>3. works \in BOOLEAN /\ (works => sellable) BY <4>1, <4>2, Zenon
      <4> QED BY <4>3 DEF sellable
    <3> QED BY <2>2, <3>1, <3>2
  <2>4. PortfolioTypeOK' BY <1>t, <2>1, <2>2, <2>3 DEF PortfolioTypeOK, views
  <2>5. AccountInv' BY <1>t, <2>1, <2>2, <2>3 DEF AccountInv, PortfolioTypeOK, views
  <2>6. ViewsInv' BY <1>t, <2>1 DEF ViewsInv, Listing, Refreshed, views
  <2>7. LimitKept' BY <1>e, <2>1
  <2> QED BY <2>4, <2>5, <2>6, <2>7 DEF PortfolioInv
<1>12. ASSUME NEW s \in Pairs, Enter(s) PROVE PortfolioInv'
  <2>1. /\ stepNow = "intents" /\ WithinLimit(s) /\ GuardedPlaceOrder(s)
        /\ UNCHANGED <<ask, coins, unseen, net, held, listed, todo, skipped>>
    BY <1>12 DEF Enter
  <2>2. /\ quote' \in [Pairs -> BOOLEAN]
        /\ \A r \in Pairs : quote'[r] => quote[r] \/ r = s
        /\ placed \subseteq placed' /\ placed' \subseteq Pairs
        /\ stepNow' \in {"intents", "open", "ended"}
        /\ stepNow' = "intents" /\ quote'[s] => quote[s] \/ s \in placed'
    BY <1>t, <2>1 DEF GuardedPlaceOrder, PortfolioTypeOK
  <2>3. PortfolioTypeOK' BY <1>t, <2>1, <2>2 DEF PortfolioTypeOK, Steps
  <2>4. AccountInv' BY <1>t, <2>1 DEF AccountInv
  <2>5. ViewsInv' BY <1>t, <2>1, <2>2 DEF ViewsInv, Listing, Refreshed
  <2>6. ASSUME ~skipped PROVE Engaged' \subseteq OtherSymbols(s) \cup {s}
    BY <1>t, <2>1, <2>2, <2>6
    DEF ViewsInv, Listing, Refreshed, Engaged, OtherSymbols, Positions
  <2>7. OtherSymbols(s) \in SUBSET Pairs
    BY <1>t DEF OtherSymbols, Positions, PortfolioTypeOK
  <2>8. IsFiniteSet(OtherSymbols(s)) /\ Cardinality(OtherSymbols(s)) \in Nat
    BY <2>7, FS_Subset, FS_CardinalityType
  <2>9. /\ IsFiniteSet(OtherSymbols(s) \cup {s})
        /\ Cardinality(OtherSymbols(s) \cup {s}) <= Cardinality(OtherSymbols(s)) + 1
        /\ Cardinality(OtherSymbols(s) \cup {s}) \in Nat
    <3>1. /\ IsFiniteSet(OtherSymbols(s) \cup {s})
          /\ Cardinality(OtherSymbols(s) \cup {s})
               = IF s \in OtherSymbols(s) THEN Cardinality(OtherSymbols(s))
                                          ELSE Cardinality(OtherSymbols(s)) + 1
      BY <2>8, FS_AddElement, Zenon
    <3> QED BY <2>8, <3>1, FS_CardinalityType
  <2>10. ASSUME ~skipped PROVE Cardinality(Engaged') <= MaxOpenPositions
    <3>1. /\ Cardinality(Engaged') <= Cardinality(OtherSymbols(s) \cup {s})
          /\ Cardinality(Engaged') \in Nat
      BY <2>6, <2>9, <2>10, FS_Subset, FS_CardinalityType
    <3>2. Cardinality(OtherSymbols(s)) < MaxOpenPositions BY <2>1 DEF WithinLimit
    <3> QED BY <2>8, <2>9, <3>1, <3>2
  <2>11. LimitKept' BY <2>1, <2>10 DEF LimitKept
  <2> QED BY <2>3, <2>4, <2>5, <2>11 DEF PortfolioInv
<1>13. ASSUME NEW got \in SUBSET Pairs, Restart(got) PROVE PortfolioInv'
  <2>1. PICK obeyed \in BOOLEAN : /\ quote' = [s \in Pairs |-> quote[s] /\ ~obeyed]
                                  /\ ask' = [s \in Pairs |-> ask[s] /\ ~obeyed]
    BY <1>13 DEF Restart
  <2>2. /\ Apply(got) /\ UNCHANGED <<coins, skipped>>
        /\ held' = {} /\ listed' = {} /\ placed' = {} /\ todo' = {} /\ stepNow' = "open"
    BY <1>13 DEF Restart
  <2>3. /\ quote' \in [Pairs -> BOOLEAN] /\ \A s \in Pairs : quote'[s] => quote[s]
        /\ ask' \in [Pairs -> BOOLEAN] /\ \A s \in Pairs : ask'[s] => ask[s]
    BY <2>1
  <2>4. PortfolioTypeOK' BY <1>5, <1>t, <2>2, <2>3 DEF PortfolioTypeOK, Steps
  <2>5. AccountInv' BY <1>5, <1>t, <2>2, <2>3 DEF AccountInv
  <2>6. ViewsInv' BY <2>2 DEF ViewsInv, Listing, Refreshed
  <2>7. LimitKept' BY <1>e, <2>2, <2>3
  <2> QED BY <2>4, <2>5, <2>6, <2>7 DEF PortfolioInv
<1>14. CASE UNCHANGED portfolioVars
  <2>1. UNCHANGED <<quote, ask, coins, unseen, net, held, listed, placed, todo, stepNow, skipped>>
    BY <1>14 DEF portfolioVars, account, views
  <2>2. PortfolioTypeOK' BY <1>t, <2>1 DEF PortfolioTypeOK
  <2>3. AccountInv' /\ ViewsInv' BY <1>t, <2>1 DEF AccountInv, ViewsInv, Listing, Refreshed
  <2>4. LimitKept' BY <1>e, <2>1
  <2> QED BY <2>2, <2>3, <2>4 DEF PortfolioInv
<1> QED
  BY <1>1, <1>3, <1>4, <1>6, <1>7, <1>8, <1>9, <1>10, <1>11, <1>12, <1>13, <1>14
  DEF PortfolioNext

LEMMA InitPortfolio == PortfolioInit => PortfolioInv
<1> SUFFICES ASSUME PortfolioInit PROVE PortfolioInv
  OBVIOUS
<1> USE SpotPortfolioAssumption
<1>1. /\ quote = [s \in Pairs |-> FALSE] /\ ask = [s \in Pairs |-> FALSE]
      /\ coins = [s \in Pairs |-> 0] /\ unseen = [s \in Pairs |-> 0]
      /\ net = [s \in Pairs |-> 0]
      /\ held = {} /\ listed = {} /\ placed = {} /\ todo = {}
      /\ stepNow = "open" /\ skipped = FALSE
  BY DEF PortfolioInit
<1>2. PortfolioTypeOK
  <2>1. 0 \in 0..MaxCoins /\ 0 \in -MaxCoins..MaxCoins OBVIOUS
  <2>2. /\ quote \in [Pairs -> BOOLEAN] /\ ask \in [Pairs -> BOOLEAN]
        /\ skipped \in BOOLEAN /\ stepNow \in Steps
    BY <1>1 DEF Steps
  <2>3. /\ coins \in [Pairs -> 0..MaxCoins] /\ net \in [Pairs -> 0..MaxCoins]
        /\ unseen \in [Pairs -> -MaxCoins..MaxCoins]
    BY <1>1, <2>1, Zenon
  <2> QED BY <1>1, <2>2, <2>3 DEF PortfolioTypeOK
<1>3. AccountInv /\ ViewsInv BY <1>1 DEF AccountInv, ViewsInv, Listing, Refreshed
<1>4. Engaged = {} BY <1>1 DEF Engaged
<1>5. LimitKept BY <1>4, FS_EmptySet DEF LimitKept
<1> QED BY <1>2, <1>3, <1>5 DEF PortfolioInv

LEMMA PortfolioAlways == PortfolioSpec => []PortfolioInv
  BY InitPortfolio, NextPortfolio, PTL DEF PortfolioSpec

(* Working entries and coins together stay within max_open_positions for   *)
(* any set of symbols and any limit: entries accepted in an iteration are  *)
(* counted, and a fill between two requests moves a symbol from one view   *)
(* to another without dropping it.                                         *)
THEOREM PositionsStayWithinLimit == PortfolioSpec => []LimitKept
<1>1. PortfolioInv => LimitKept BY DEF PortfolioInv
<1> QED BY <1>1, PortfolioAlways, PTL

-----------------------------------------------------------------------------
(* MCTrading.  Every behaviour of the parts side by side is one of each    *)
(* part, so that what was shown of the parts holds of all of them.         *)
LEMMA TradingStarts ==
    TradingInit => /\ FuturesPaperInit /\ SpotPaperInit /\ PortfolioInit
                   /\ ExecutionWindowInit /\ OrderReconciliationInit
                   /\ ControlInit /\ HoldPolicyInit
  BY DEF TradingInit

LEMMA TradingSteps ==
    [TradingNext]_tradingVars =>
        /\ [FuturesPaperNext]_futuresPaperVars
        /\ [SpotPaperNext]_spotPaperVars
        /\ [PortfolioNext]_portfolioVars
        /\ [ExecutionWindowNext]_windowVars
        /\ [OrderReconciliationNext]_reconciliationVars
        /\ [ControlNext]_controlVars
        /\ [HoldPolicyNext]_holdVars
  BY DEF TradingNext, tradingVars

LEMMA TradingParts ==
    TradingSpec => /\ FuturesPaperSpec /\ SpotPaperSpec /\ PortfolioSpec
                   /\ ExecutionWindowSpec /\ OrderReconciliationSpec
                   /\ ControlSpec /\ HoldPolicySpec
  BY TradingStarts, TradingSteps, PTL
  DEF TradingSpec, FuturesPaperSpec, SpotPaperSpec, PortfolioSpec, ExecutionWindowSpec,
      OrderReconciliationSpec, ControlSpec, HoldPolicySpec

(* Side by side, the parts of the trading side keep what each promises.    *)
THEOREM TradingKeepsPromises ==
    TradingSpec => /\ [](WatchedWithOwnStops /\ OutcomeLearnedOnce)
                   /\ [](BooksBalance /\ GuardedUnlessRestored)
                   /\ []LimitKept
                   /\ [](FillsCountOnce /\ OutcomeCatchesUp)
                   /\ [](LockIsCurrent /\ ConflictsAreReported)
                   /\ [](PullsAreExclusive /\ PanicLeavesNothing)
                   /\ []HoldFollowsOwner
  BY TradingParts, TradesHaveOwnStops, OutcomesLearnedOnce, BooksAlwaysBalance,
     GuardsFollowHoldings, PositionsStayWithinLimit, FillsCountExactlyOnce, OutcomesCatchUp,
     LocksAreCurrent, ConflictsComeToLight, OnePullAtATime, PanicStaysQuiet, HoldFollows, PTL

(* The state of every part of the trading side has its type after any      *)
(* number of steps, for any symbols, prices, bounds and limits.            *)
THEOREM TradingKeepsTypes == TradingSpec => []TradingTypeOK
<1>1. /\ FuturesPaperInv => FuturesPaperTypeOK
      /\ BalanceInv => SpotPaperTypeOK
      /\ PortfolioInv => PortfolioTypeOK
      /\ WindowInv => ExecutionWindowTypeOK
      /\ ReconciliationInv => OrderReconciliationTypeOK
      /\ ControlInv => ControlTypeOK
      /\ HoldInv => HoldPolicyTypeOK
  BY DEF FuturesPaperInv, BalanceInv, PortfolioInv, WindowInv, ReconciliationInv,
         ControlInv, HoldInv
<1> QED
  BY <1>1, TradingParts, FuturesPaperAlways, BalanceAlways, PortfolioAlways, WindowAlways,
     ReconciliationAlways, ControlAlways, HoldAlways, PTL
  DEF TradingTypeOK
=============================================================================
