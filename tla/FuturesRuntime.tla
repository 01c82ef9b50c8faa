--------------------------- MODULE FuturesRuntime ---------------------------
(***************************************************************************)
(* The futures ("linear") trading runtime on one symbol: trading_loop with *)
(* refresh_positions_from_executions, _ensure_futures_protection,          *)
(* maybe_force_exit, the exit quote and the entry gates, the futures       *)
(* position part of ExchangeReconciliationService, the recovery after a    *)
(* restart, and the exchange they talk to.                                 *)
(*                                                                         *)
(* The loop is one coroutine: an action is the code between two awaits,    *)
(* and the exchange moves in between.  An order request, a set_trading_stop*)
(* or a get_positions is answered at one moment and the answer is handled  *)
(* later.  A quantity is a whole number of position floors (1 = the least  *)
(* effective position), with the side as its sign, so the dust branches    *)
(* never apply.  Prices are left out: what depends on them may happen.     *)
(***************************************************************************)
EXTENDS Integers, FiniteSets, Sequences

CONSTANTS
    EntrySides,   \* sides the strategy enters on: 1 (Buy), -1 (Sell)
    MaxQty,       \* bound: quantity of an entry order
    MaxOpen,      \* bound: quantity of several orders of a kind and side
    MaxExecs,     \* bound: executions on the exchange
    MaxCrashes    \* bound: crashes and restarts

ASSUME FuturesRuntimeAssumption ==
    /\ EntrySides \subseteq {1, -1}
    /\ MaxQty \in Nat \ {0}
    /\ MaxOpen \in Nat
    /\ MaxExecs \in Nat
    /\ MaxCrashes \in Nat

VARIABLES
    \* the exchange
    xpos,         \* position
    xstops,       \* it has a stop loss and a take profit
    orders,       \* resting quantity, for each kind of order and side
    execs,        \* executions, oldest first: signed quantities
    \* the database
    stored,       \* executions in executions_raw
    row,          \* futures_positions: the row of each side
    latest,       \* the sides with the latest updated_at_utc (in seconds)
    locks,        \* open reconciliation issues that lock the symbol
    \* the memory of the runtime
    pc,           \* where the loop is
    started,      \* the loop proper has begun
    net,          \* net_position_base
    seen,         \* seen_exec_ids
    todo,         \* fetched executions not looked at yet
    attempted,    \* last_protection_apply_ts is set
    answer,       \* the answer to get_positions in the current iteration
    phantom,      \* an emergency close was accepted since the last restart
    crashes       \* number of restarts so far

exchange == <<xpos, xstops, orders, execs>>
database == <<stored, row, latest, locks>>
memory   == <<started, net, seen, todo, attempted, answer, phantom, crashes>>
vars     == <<exchange, database, pc, memory>>

Sides == {1, -1}                                  \* Buy, Sell
Kinds == {"entry", "quote", "force", "market"}    \* mm-, px-, force-exit-, prot-fail-
Side(q) == IF q > 0 THEN 1 ELSE IF q < 0 THEN -1 ELSE 0
Size(q) == IF q < 0 THEN -q ELSE q

AllExecs == DOMAIN execs
apply_fill(position, q) == position + q
Next1(S) == CHOOSE i \in S : \A k \in S : i <= k       \* the oldest one
NoOrders == [k \in Kinds |-> [s \in Sides |-> 0]]
NoAnswer == [ok |-> FALSE, side |-> 0, stops |-> FALSE]
ExchangeView == [ok |-> TRUE, side |-> Side(xpos), stops |-> xstops]

BLOCKING_PROTECTION_STATUSES == {"pending", "repairing", "failed", "unprotected"}
Statuses == BLOCKING_PROTECTION_STATUSES \cup {"protected", "closed"}

Init ==
    /\ xpos = 0 /\ xstops = FALSE /\ orders = NoOrders /\ execs = <<>>
    /\ stored = {} /\ latest = {} /\ locks = {}
    /\ row = [s \in Sides |-> [open |-> FALSE, status |-> "closed"]]
    /\ pc = "reconcile" /\ started = FALSE
    /\ net = 0 /\ seen = {} /\ todo = {}
    /\ attempted = FALSE /\ answer = NoAnswer /\ phantom = FALSE
    /\ crashes = 0

-----------------------------------------------------------------------------
(* The exchange.                                                           *)

Executes(q) ==
    /\ Len(execs) < MaxExecs
    /\ execs'  = Append(execs, q)
    /\ xpos'   = xpos + q
    /\ xstops' = (xstops /\ Side(xpos + q) = Side(xpos))

OrderFills(k, s) ==
    \E n \in 1..orders[k][s] :
        /\ orders' = [orders EXCEPT ![k][s] = @ - n]
        /\ Executes(s * n)
        /\ UNCHANGED <<database, pc, memory>>

\* A PostOnly order that would cross, or the rest of an IOC order.
OrderLapses(k, s) ==
    /\ k # "market"
    /\ orders[k][s] > 0
    /\ orders' = [orders EXCEPT ![k][s] = 0]
    /\ UNCHANGED <<xpos, xstops, execs, database, pc, memory>>

StopFires ==
    /\ xpos # 0 /\ xstops
    /\ Executes(-xpos)
    /\ UNCHANGED <<orders, database, pc, memory>>

\* The orders after one more is accepted.
OrdersWith(resting, k, q) ==
    [resting EXCEPT ![k][Side(q)] = @ + Size(q)]

\* The bound: one order of a kind and side, or several up to MaxOpen.
Room(resting, k, q) ==
    resting[k][Side(q)] = 0 \/ resting[k][Side(q)] + Size(q) <= MaxOpen

-----------------------------------------------------------------------------
(* Restart: an /update restart, or a crash anywhere between two awaits.    *)

Restart ==
    /\ crashes < MaxCrashes
    /\ crashes' = crashes + 1
    /\ pc' = "reconcile" /\ started' = FALSE
    /\ net' = 0 /\ seen' = {} /\ todo' = {}
    /\ attempted' = FALSE /\ answer' = NoAnswer /\ phantom' = FALSE
    /\ UNCHANGED <<exchange, database>>

\* cancel_all_orders: a market order on its way is not cancelled.
AllCancelled == [NoOrders EXCEPT !["market"] = orders["market"]]

\* Before the recovery all orders are cancelled; a failure is only logged.
CancelAll ==
    /\ pc = "cancelAll"
    /\ pc' = "recover"
    /\ orders' \in {AllCancelled, orders}
    /\ UNCHANGED <<xpos, xstops, execs, database, memory>>

\* recover_positions_on_startup: executions of the database, then those the
\* exchange has on top; the query and the exchange may fail.
Recover ==
    /\ pc = "recover"
    /\ pc' = "replay"
    /\ todo' \in {{}, stored, AllExecs}
    /\ UNCHANGED <<exchange, database, started, net, seen, attempted, answer,
                   phantom, crashes>>

\* Mutant: the executions taken from the exchange are not remembered.
RememberStored(i) == seen' = IF i \in stored THEN seen \cup {i} ELSE seen
Remember(i) == seen' = seen \cup {i}

\* They are applied to the position one after the other, oldest first.
Replay(i) ==
    /\ pc = "replay" /\ todo # {} /\ i = Next1(todo)
    /\ todo' = todo \ {i}
    /\ Remember(i)
    /\ net'  = apply_fill(net, execs[i])
    /\ UNCHANGED <<exchange, database, pc, started, attempted, answer, phantom,
                   crashes>>

Recovered ==
    /\ pc = "replay" /\ todo = {}
    /\ pc' = "loop" /\ started' = TRUE
    /\ answer' = NoAnswer
    /\ UNCHANGED <<exchange, database, net, seen, todo, attempted, phantom,
                   crashes>>

-----------------------------------------------------------------------------
(* Writing position rows: all writes overwrite the whole row.  The time    *)
(* stamp has seconds: a write may share it with the one before.            *)

Stamp(s) == latest' \in {{s}, latest \cup {s}}

WriteRow(s, isOpen, status) ==
    /\ row' = [row EXCEPT ![s] = [open |-> isOpen, status |-> status]]
    /\ Stamp(s)

-----------------------------------------------------------------------------
(* Reconciliation, at the start and then by its interval.                  *)

AsksPositions == pc \in {"reconcile", "verify"}
Answered == [reconcile |-> "reconciled", verify |-> "verified"]

\* get_positions: an answer, or an error; for both of its callers.
GetPositions ==
    /\ AsksPositions
    /\ answer' \in {ExchangeView, NoAnswer}
    /\ pc' = Answered[pc]
    /\ UNCHANGED <<exchange, database, started, net, seen, todo, attempted,
                   phantom, crashes>>

\* Mutant: an issue that is open already does not count as active.
NewLockIssues ==
    {issue \in {"local_position_missing", "orphaned_position"} \ locks :
        IF issue = "orphaned_position"
        THEN answer.side # 0 /\ ~row[answer.side].open
        ELSE \E s \in Sides \ {answer.side} : row[s].open}

\* The issues of this run: the position has no row yet, a row no position.
ActiveLockIssues ==
    (IF answer.side # 0 /\ ~row[answer.side].open THEN {"orphaned_position"} ELSE {})
    \cup (IF \E s \in Sides \ {answer.side} : row[s].open
          THEN {"local_position_missing"} ELSE {})

\* Mutant: a position of the exchange counts as protected.
ImportedStatusProtected == "protected"
ImportedStatus == IF answer.stops THEN "protected" ELSE "unprotected"

\* Rows are imported; a row without a position is left as it is.  Issues
\* that are not active are resolved.
ReconcilePositions ==
    /\ pc = "reconciled"
    /\ pc' = IF started THEN "listing" ELSE "cancelAll"
    /\ locks' = IF answer.ok THEN ActiveLockIssues ELSE locks
    /\ IF answer.ok /\ answer.side # 0
       THEN WriteRow(answer.side, TRUE, ImportedStatus)
       ELSE UNCHANGED <<row, latest>>
    /\ UNCHANGED <<exchange, stored, memory>>

-----------------------------------------------------------------------------
(* The head of an iteration.                                               *)

\* While paused the loop stays here.
BeginIteration ==
    /\ pc = "loop"
    /\ pc' \in {"reconcile", "listing"}
    /\ answer' = NoAnswer
    /\ UNCHANGED <<exchange, database, started, net, seen, todo, attempted,
                   phantom, crashes>>

\* A panic cancels all orders, or fails to, and ends the iteration.
Panic ==
    /\ pc = "listing"
    /\ pc' = "loop"
    /\ orders' \in {AllCancelled, orders}
    /\ UNCHANGED <<xpos, xstops, execs, database, memory>>

\* get_open_orders: answered, refused, or refused with 10004 (signature),
\* which pauses the runtime and ends the loop for good.
ListOrders ==
    /\ pc = "listing"
    /\ pc' \in {"fetch", "loop", "stopped"}
    /\ UNCHANGED <<exchange, database, memory>>

-----------------------------------------------------------------------------
(* refresh_positions_from_executions and _ensure_futures_protection.       *)

\* Mutant: executions are not told apart by their identifiers.
UnseenAll == AllExecs
Unseen == AllExecs \ seen

\* Not due, failed, or the executions not seen before.
FetchExecutions ==
    /\ pc = "fetch"
    /\ pc' = "fills"
    /\ todo' \in {{}, Unseen}
    /\ answer' = NoAnswer
    /\ UNCHANGED <<exchange, database, started, net, seen, attempted, phantom,
                   crashes>>

\* The part of the loop body before the protection: the oldest execution is
\* remembered, stored and applied to the position.
Consume(i) ==
    /\ pc = "fills" /\ todo # {} /\ i = Next1(todo)
    /\ todo'   = todo \ {i}
    /\ seen'   = seen \cup {i}
    /\ stored' = stored \cup {i}
    /\ net'    = apply_fill(net, execs[i])
    /\ UNCHANGED <<exchange, locks, started, answer, phantom, crashes>>

\* The position is flat: the row of the side it had is closed.
FillFlattens(i) ==
    /\ Consume(i)
    /\ net' = 0
    /\ WriteRow(IF net > 0 THEN 1 ELSE -1, FALSE, "closed")
    /\ UNCHANGED <<pc, attempted>>

\* Within 8 s of the last attempt, nothing is done about the protection.  How
\* long ago it was is left open: the next two actions may follow it too.
FillThrottled(i) ==
    /\ Consume(i)
    /\ net' # 0 /\ attempted
    /\ UNCHANGED <<pc, row, latest, attempted>>

ApplyPhase(s) ==
    IF row[s].open /\ row[s].status \in {"repairing", "unprotected", "failed"}
    THEN "repairing" ELSE "pending"

FillProtects(i) ==
    /\ Consume(i)
    /\ net' # 0
    /\ attempted' = TRUE
    /\ WriteRow(Side(net'), TRUE, ApplyPhase(Side(net')))
    /\ pc' = "apply"

\* No plan can be built from the stop loss and take profit percentages.
FillPlanFails(i) ==
    /\ Consume(i)
    /\ net' # 0
    /\ attempted' = TRUE
    /\ WriteRow(Side(net'), TRUE, "failed")
    /\ UNCHANGED pc

\* retCode 0: the exchange has a position; the prices need not be set yet.
SetTradingStop ==
    /\ pc = "apply" /\ xpos # 0
    /\ pc' = "verify"
    /\ xstops' \in {TRUE, xstops}
    /\ UNCHANGED <<xpos, orders, execs, database, memory>>

\* All attempts are refused, or their answers are lost.
SetTradingStopFails ==
    /\ pc = "apply"
    /\ pc' = "emergency"
    /\ xstops' \in {xstops, xpos # 0}
    /\ UNCHANGED <<xpos, orders, execs, database, memory>>

\* The market order is accepted: the runtime forgets its position now, and
\* will apply the execution of the order like any other.
EmergencyClose ==
    /\ pc = "emergency"
    /\ Room(orders, "market", -net)
    /\ orders' = OrdersWith(orders, "market", -net)
    /\ WriteRow(Side(net), TRUE, "failed")
    /\ net' = 0 /\ phantom' = TRUE
    /\ pc' = "fills"
    /\ UNCHANGED <<xpos, xstops, execs, stored, locks, started, seen, todo,
                   attempted, answer, crashes>>

\* It is refused, or the answer is lost after the exchange accepted it.
EmergencyCloseFails ==
    /\ pc = "emergency"
    /\ \/ UNCHANGED orders
       \/ Room(orders, "market", -net) /\ orders' = OrdersWith(orders, "market", -net)
    /\ WriteRow(Side(net), TRUE, "failed")
    /\ pc' = "fills"
    /\ UNCHANGED <<xpos, xstops, execs, stored, locks, memory>>

VerifyStatus ==
    IF ~answer.ok THEN "failed"
    ELSE IF answer.side = 0 THEN "closed"
    ELSE IF answer.stops THEN "protected" ELSE "unprotected"

\* Mutant: retCode 0 of set_trading_stop is taken for protection.
TransitionByRetCode(current, verified) ==
    IF verified = "closed" THEN "closed" ELSE "protected"

\* transition_protection_status after a successful apply.
TransitionProtectionStatus(current, verified) ==
    IF verified = "unprotected" /\ current # "pending" THEN "failed" ELSE verified

VerifyProtection ==
    /\ pc = "verified"
    /\ LET s == Side(net)
       IN  WriteRow(s, TRUE, TransitionProtectionStatus(row[s].status, VerifyStatus))
    /\ pc' = "fills"
    /\ UNCHANGED <<exchange, stored, locks, memory>>

FillsDone ==
    /\ pc = "fills" /\ todo = {}
    /\ pc' = "cancelOwn"
    /\ answer' = NoAnswer
    /\ UNCHANGED <<exchange, database, started, net, seen, todo, attempted,
                   phantom, crashes>>

-----------------------------------------------------------------------------
(* Own entry orders are cancelled; the answers are not looked at.          *)
CancelEntries ==
    /\ pc = "cancelOwn"
    /\ pc' = "exits"
    /\ orders' \in {orders, [orders EXCEPT !["entry"] = NoOrders["entry"]]}
    /\ UNCHANGED <<xpos, xstops, execs, database, memory>>

(* maybe_force_exit.                                                       *)
\* No position, no reason to exit, cooldown, or the order was refused.
NoForceExit ==
    /\ pc = "exits"
    /\ pc' = "quotes"
    /\ UNCHANGED <<exchange, database, memory>>

\* The order is accepted, and the cooldown that starts now leaves out the exit
\* quote; when the answer is lost the iteration ends.
ForceExit ==
    /\ pc = "exits" /\ net # 0
    /\ Room(orders, "force", -net)
    /\ orders' = OrdersWith(orders, "force", -net)
    /\ pc' \in {"intents", "loop"}
    /\ UNCHANGED <<xpos, xstops, execs, database, memory>>

(* maybe_place_position_exit_quote.                                        *)
NoQuote ==
    /\ pc = "quotes"
    /\ pc' = "intents"
    /\ UNCHANGED <<exchange, database, memory>>

\* The quotes at another price or quantity are cancelled, the answers not
\* looked at, and a new one is placed, refused, or its answer is lost.
Requote ==
    /\ pc = "quotes" /\ net # 0
    /\ \E resting \in {orders, [orders EXCEPT !["quote"] = NoOrders["quote"]]} :
          \/ orders' = resting
          \/ Room(resting, "quote", -net) /\ orders' = OrdersWith(resting, "quote", -net)
    /\ pc' \in {"intents", "loop"}
    /\ UNCHANGED <<xpos, xstops, execs, database, memory>>

-----------------------------------------------------------------------------
(* The entry intents and their gates.                                      *)

\* The row the gates read: the latest of those with a quantity.
OpenSides == {s \in Sides : row[s].open}
GateSides == IF OpenSides \cap latest # {} THEN OpenSides \cap latest ELSE OpenSides

\* futures_entry_risk_gate and get_futures_blocking_protection_status.
GateOpen ==
    OpenSides = {} \/ \E s \in GateSides :
                         row[s].status \notin BLOCKING_PROTECTION_STATUSES

BlockedSymbol == net # 0         \* what maybe_force_exit returned

EntryAllowed == ~BlockedSymbol /\ locks = {} /\ GateOpen

\* One intent an iteration: a second one is like the next iteration's, whose
\* refresh is not due and whose cancellations fail.
PlaceEntry(s) ==
    /\ pc = "intents"
    /\ EntryAllowed
    /\ \E q \in 1..MaxQty :
          /\ Room(orders, "entry", s * q)
          /\ orders' = OrdersWith(orders, "entry", s * q)
    /\ pc' = "loop"
    /\ UNCHANGED <<xpos, xstops, execs, database, memory>>

\* 10004 on an entry order ends the loop for good.
IntentsDone ==
    /\ pc = "intents"
    /\ pc' \in {"loop", "stopped"}
    /\ UNCHANGED <<exchange, database, memory>>

-----------------------------------------------------------------------------
Exchange ==
    \/ StopFires
    \/ \E k \in Kinds, s \in Sides : OrderFills(k, s) \/ OrderLapses(k, s)

Reconciliation == GetPositions \/ ReconcilePositions

Refresh ==
    \/ FetchExecutions \/ FillsDone
    \/ \E i \in 1..MaxExecs :
          FillFlattens(i) \/ FillThrottled(i) \/ FillProtects(i) \/ FillPlanFails(i)
    \/ SetTradingStop \/ SetTradingStopFails
    \/ EmergencyClose \/ EmergencyCloseFails \/ VerifyProtection

Loop ==
    \/ CancelAll \/ Recover \/ Recovered \/ \E i \in 1..MaxExecs : Replay(i)
    \/ BeginIteration \/ Panic \/ ListOrders
    \/ CancelEntries \/ NoForceExit \/ ForceExit \/ NoQuote \/ Requote
    \/ IntentsDone \/ \E s \in EntrySides : PlaceEntry(s)

Next == Exchange \/ Reconciliation \/ Refresh \/ Loop \/ Restart

Spec == Init /\ [][Next]_vars

\* The latest row says "unprotected": decide_exit_reason or not, there is a
\* reason to leave.
ForceExitDue == \E s \in GateSides : row[s].status = "unprotected"

(* The coroutine keeps running unless it has stopped, and the runtime is   *)
(* not left paused.  Reconciliation falls due again and again, the answers *)
(* of the exchange are not errors for ever, and neither the cooldown of    *)
(* forced exits nor a missing order book lasts for ever.  The exchange     *)
(* owes no execution.                                                      *)
FairSpec ==
    /\ Spec
    /\ WF_vars(Reconciliation) /\ WF_vars(Refresh) /\ WF_vars(Loop)
    /\ SF_vars(BeginIteration /\ pc' = "reconcile")
    /\ SF_vars(GetPositions /\ answer'.ok)
    /\ SF_vars(ListOrders /\ pc' = "fetch")
    /\ SF_vars(FetchExecutions /\ todo' = Unseen)
    /\ SF_vars(ForceExit /\ ForceExitDue)

-----------------------------------------------------------------------------
(* Type invariant. *)
TypeOK ==
    /\ xpos \in Int
    /\ xstops \in BOOLEAN
    /\ xstops => xpos # 0
    /\ orders \in [Kinds -> [Sides -> Nat]]
    /\ execs \in Seq(Int \ {0}) /\ Len(execs) <= MaxExecs
    /\ stored \subseteq AllExecs
    /\ row \in [Sides -> [open : BOOLEAN, status : Statuses]]
    /\ latest \subseteq Sides
    /\ locks \subseteq {"orphaned_position", "local_position_missing"}
    /\ pc \in {"reconcile", "reconciled", "cancelAll", "recover", "replay",
               "loop", "listing", "fetch", "fills", "apply", "verify", "verified",
               "emergency", "cancelOwn", "exits", "quotes", "intents", "stopped"}
    /\ started \in BOOLEAN
    /\ net \in Int
    /\ seen \subseteq AllExecs
    /\ todo \subseteq AllExecs \ seen
    /\ attempted \in BOOLEAN
    /\ answer \in [ok : BOOLEAN, side : {-1, 0, 1}, stops : BOOLEAN]
    /\ phantom \in BOOLEAN
    /\ crashes \in 0..MaxCrashes

(* Every execution counts once, through refreshes that fail, restarts and  *)
(* recoveries from a database that lags: when all are seen, the position   *)
(* in memory is the one on the exchange, unless an emergency close made    *)
(* the runtime forget it.                                                  *)
MemoryMatchesExchange ==
    started /\ ~phantom /\ seen = AllExecs => net = xpos

(* After a run that could read the positions, a row without a position     *)
(* keeps the symbol locked, in every run and not only in the first.        *)
GhostRowIsLocked ==
    pc \in {"cancelAll", "listing"} /\ answer.ok =>
        \A s \in OpenSides \ {answer.side} : locks # {}

(* The statuses of the rows keep the contract of ProtectionLifecycle.      *)
Contract == INSTANCE ProtectionLifecycle WITH
    status <- [s \in Sides |-> IF row[s].open THEN row[s].status ELSE "closed"],
    answer <- answer
KeepsProtectionContract == Contract!Spec

(* A position the runtime knows from an execution it has handled has a     *)
(* position row: it is pending, repairing or further.                      *)
FilledPositionHasStatus ==
    pc = "cancelOwn" /\ net # 0 /\ ~phantom => row[Side(net)].open

(* A position without a stop loss and take profit does not stay so: it is  *)
(* protected, gone, or an order to leave it is sent, unless an emergency   *)
(* close has made the runtime forget it or the loop has stopped.           *)
NakedPositionIsLeft ==
    (xpos # 0 /\ ~xstops) ~>
        \/ xpos = 0 \/ xstops
        \/ \E s \in Sides : orders["force"][s] > 0
        \/ phantom \/ pc = "stopped"

(* The emergency close prevents unprotected exposure: when everything has  *)
(* settled after one and the runtime holds itself for flat, the exchange   *)
(* has no position without a stop loss and a take profit.                  *)
EmergencyEndsExposure ==
    phantom /\ seen = AllExecs /\ orders = NoOrders /\ net = 0 =>
        xpos = 0 \/ xstops
=============================================================================
