-------------------------- MODULE ExecutionWindow --------------------------
(***************************************************************************)
(* How the trading loop learns of its fills.  It polls the exchange's      *)
(* execution list, which shows the newest executions of a symbol only, and *)
(* keeps the ids it has counted in `seen_exec_ids`, which it empties when  *)
(* the set grows too large.  A fill is marked as seen first, then stored   *)
(* in executions_raw and added to the position, and after an await written *)
(* to the ledger and to the outcome of its signal.  A start rebuilds the   *)
(* position from the stored rows of the last day and from the exchange.    *)
(*                                                                         *)
(* Executions are numbered in the order the exchange made them; one symbol *)
(* is enough, for the symbols share the set of seen ids and nothing else.  *)
(***************************************************************************)
EXTENDS Integers, Sequences, FiniteSets

CONSTANTS Signals,       \* the signals whose orders are filled
          Shown,         \* executions a refresh is shown (100 in the code)
          ShownAtStart,  \* executions recovery is shown (200)
          SeenLimit,     \* the size above which the seen ids are dropped (20000)
          MaxFills,      \* bound: executions
          MaxCounts,     \* bound: no refresh once a fill counted so often
          MaxStarts      \* bound: restarts

ASSUME ExecutionWindowAssumption ==
  /\ {Shown, ShownAtStart, SeenLimit, MaxFills, MaxCounts} \subseteq Nat \ {0}
  /\ MaxStarts \in Nat

VARIABLES fills,     \* the executions: side and signal, oldest first
          aged,      \* executions 1..aged are more than a day old
          seen,      \* seen_exec_ids
          rows,      \* ids of the rows of executions_raw, as inserted
          applied,   \* how often each execution was added to the position
          batch,     \* ids of the list a refresh is going through
          at,        \* where the refresh is with the first of them
          written,   \* executions whose ledger rows and outcome were written
          outcome,   \* the outcomes table: quantities bought and sold
          polled,    \* newest execution this process has gone through
          cleared,   \* TRUE once the seen ids were dropped
          slid,      \* executions that were never shown to this process
          failed,    \* executions whose insert raised in this process
          starts     \* restarts so far

exchangeVars == <<fills, aged>>
tables == <<rows, written, outcome>>
history == <<polled, cleared, slid, failed, starts>>
windowVars == <<exchangeVars, seen, applied, batch, at, tables, history>>

Ids == 1..MaxFills
stored == {rows[k] : k \in DOMAIN rows}
Total(s, side, ids) ==
  Cardinality({i \in ids : i <= Len(fills) /\ fills[i] = [side |-> side, signal |-> s]})

ExecutionWindowTypeOK ==
  /\ fills \in Seq([side : {"buy", "sell"}, signal : Signals]) /\ Len(fills) <= MaxFills
  /\ aged \in 0..Len(fills) /\ polled \in 0..Len(fills)
  /\ seen \subseteq Ids /\ rows \in Seq(Ids) /\ written \subseteq Ids
  /\ slid \subseteq Ids /\ failed \subseteq Ids
  /\ applied \in [Ids -> Nat]
  /\ batch \in Seq(Ids) /\ at \in {"next", "store", "write"}
  /\ outcome \in [Signals -> [bought : 0..MaxFills, sold : 0..MaxFills]]
  /\ cleared \in BOOLEAN /\ starts \in 0..MaxStarts

ExecutionWindowInit ==
  /\ fills = <<>> /\ aged = 0
  /\ seen = {} /\ rows = <<>> /\ written = {} /\ slid = {} /\ failed = {}
  /\ applied = [i \in Ids |-> 0]
  /\ batch = <<>> /\ at = "next"
  /\ outcome = [s \in Signals |-> [bought |-> 0, sold |-> 0]]
  /\ polled = 0 /\ cleared = FALSE /\ starts = 0

(* External: an order of signal s is filled, in part or whole.  A sell     *)
(* closes what the signal bought.                                          *)
Execute(s, side) ==
  /\ Len(fills) < MaxFills
  /\ side = "sell" => Total(s, "sell", Ids) < Total(s, "buy", Ids)
  /\ fills' = Append(fills, [side |-> side, signal |-> s])
  /\ UNCHANGED <<aged, seen, applied, batch, at, tables, history>>

(* A day goes by for the oldest of the young executions.                   *)
Age ==
  /\ aged < Len(fills) /\ aged' = aged + 1
  /\ UNCHANGED <<fills, seen, applied, batch, at, tables, history>>

(* The last n executions, oldest first: reversed(items).                   *)
NewestIds(n) == (IF Len(fills) > n THEN Len(fills) - n + 1 ELSE 1)..Len(fills)
InOrder(ids) == [k \in 1..Cardinality(ids) |->
                   CHOOSE i \in ids : Cardinality({j \in ids : j <= i}) = k]

(* refresh_positions_from_executions: the list is fetched.  A call that    *)
(* fails or answers retCode # 0 changes nothing and is not an action.      *)
Refresh ==
  /\ batch = <<>> /\ fills # <<>>
  /\ \A i \in Ids : applied[i] < MaxCounts
  /\ batch' = InOrder(NewestIds(Shown))
  /\ polled' = Len(fills)
  /\ slid' = slid \cup {i \in 1..Len(fills) - Shown : i > polled}
  /\ UNCHANGED <<exchangeVars, seen, applied, at, tables, cleared, failed, starts>>

(* The seen test, and the id added before anything is done with the fill;  *)
(* a set that has grown past the limit is emptied, this id included.       *)
SeenAfter(i) == IF Cardinality(seen \cup {i}) > SeenLimit THEN {} ELSE seen \cup {i}

Take ==
  /\ batch # <<>> /\ at = "next"
  /\ LET i == Head(batch) IN
     IF i \in seen
     THEN batch' = Tail(batch) /\ UNCHANGED <<seen, at, cleared>>
     ELSE /\ seen' = SeenAfter(i)
          /\ cleared' = (cleared \/ seen' = {})
          /\ at' = "store"
          /\ UNCHANGED batch
  /\ UNCHANGED <<exchangeVars, applied, tables, polled, slid, failed, starts>>

(* insert_execution_event (ON CONFLICT DO NOTHING), then apply_fill.       *)
Store ==
  /\ at = "store"
  /\ rows' = IF Head(batch) \in stored THEN rows ELSE Append(rows, Head(batch))
  /\ applied' = [applied EXCEPT ![Head(batch)] = @ + 1]
  /\ at' = "write"
  /\ UNCHANGED <<exchangeVars, seen, batch, written, outcome, history>>

(* The insert raises (a locked or full database): the refresh is over, the *)
(* rest of its list waits for the next one, this id is already seen.       *)
StoreFails ==
  /\ at = "store"
  /\ at' = "next" /\ batch' = <<>>
  /\ failed' = failed \cup {Head(batch)}
  /\ polled' = Head(batch)
  /\ UNCHANGED <<exchangeVars, seen, applied, tables, cleared, slid, starts>>

\* Mutant: the outcome leaves the newest stored fill out.
SyncedWithoutNewest(s, ids) ==
  LET older == {i \in ids : \E j \in ids : j > i}
      bought == Total(s, "buy", older)
      sold == Total(s, "sell", older)
  IN IF bought = 0 \/ sold = 0 THEN outcome[s] ELSE [bought |-> bought, sold |-> sold]

(* _sync_signal_outcome_from_executions: the outcome of the signal is      *)
(* recomputed from all its stored rows, once it has bought and sold.       *)
SyncedOutcome(s, ids) ==
  LET bought == Total(s, "buy", ids)
      sold == Total(s, "sell", ids)
  IN IF bought = 0 \/ sold = 0 THEN outcome[s] ELSE [bought |-> bought, sold |-> sold]

(* After the protection's await: order event, legacy and domain fill,      *)
(* order status, outcome and reward of the fill's signal.                  *)
Write ==
  /\ at = "write"
  /\ LET i == Head(batch)
         s == fills[i].signal
     IN /\ written' = written \cup {i}
        /\ outcome' = [outcome EXCEPT ![s] = SyncedOutcome(s, stored)]
  /\ batch' = Tail(batch) /\ at' = "next"
  /\ UNCHANGED <<exchangeVars, seen, applied, rows, history>>

(* One of those writes raises: the fill counts, its records are missing.   *)
WriteFails ==
  /\ at = "write"
  /\ batch' = <<>> /\ at' = "next"
  /\ polled' = Head(batch)
  /\ UNCHANGED <<exchangeVars, seen, applied, tables, cleared, slid, failed, starts>>

(* recover_positions_on_startup: stored rows of the last day are replayed  *)
(* and seen, then the exchange's list, when it answers, for ids not seen.  *)
(* Neither writes a row.                                                   *)
StoredToday == {i \in stored : i > aged}
\* Mutant: replayed rows are not told from the exchange's.
ReplayedTwice(answered) == IF answered THEN NewestIds(ShownAtStart) ELSE {}
ReplayedFromExchange(answered) ==
  IF answered THEN NewestIds(ShownAtStart) \ StoredToday ELSE {}

Start(answered) ==
  /\ starts < MaxStarts /\ starts' = starts + 1
  /\ seen' = StoredToday \cup ReplayedFromExchange(answered)
  /\ applied' = [i \in Ids |-> (IF i \in StoredToday THEN 1 ELSE 0)
                               + (IF i \in ReplayedFromExchange(answered) THEN 1 ELSE 0)]
  /\ batch' = <<>> /\ at' = "next"
  /\ polled' = IF answered THEN Len(fills) ELSE 0
  /\ slid' = IF answered
             THEN {i \in 1..Len(fills) - ShownAtStart : i \notin stored \/ i <= aged}
             ELSE {}
  /\ cleared' = FALSE /\ failed' = {}
  /\ UNCHANGED <<exchangeVars, tables>>

ExecutionWindowNext ==
  \/ \E s \in Signals, side \in {"buy", "sell"} : Execute(s, side)
  \/ Age \/ Refresh \/ Take \/ Store \/ StoreFails \/ Write \/ WriteFails
  \/ \E answered \in BOOLEAN : Start(answered)

ExecutionWindowSpec == ExecutionWindowInit /\ [][ExecutionWindowNext]_windowVars

(* A process adds an execution to the position at most once as long as it  *)
(* has not dropped its seen ids: neither a window that shows it again, nor *)
(* a restart that finds it both stored and on the exchange counts it twice.*)
CountedOnce == ~cleared => \A i \in Ids : applied[i] <= 1

(* Between two refreshes every execution the exchange has shown so far is  *)
(* in the position, save those that left the window unseen and those whose *)
(* insert failed: dropping the seen ids loses none.                        *)
NothingUncounted ==
  batch = <<>> =>
    \A i \in 1..polled : applied[i] > 0 \/ i \in slid \/ i \in failed

(* Together: every execution the exchange shows counts exactly once.       *)
FillsCountOnce == CountedOnce /\ NothingUncounted

(* Once the records of the fill of a signal stored last were written, its  *)
(* outcome has all the signal's stored fills, also those whose own records *)
(* were cut off by an error or a crash.                                    *)
OutcomeCatchesUp ==
  \A s \in Signals :
    LET ids == {i \in stored : fills[i].signal = s}
    IN /\ \E k \in DOMAIN rows : /\ rows[k] \in ids \cap written
                                 /\ \A n \in DOMAIN rows : n > k => rows[n] \notin ids
       /\ Total(s, "buy", ids) > 0 /\ Total(s, "sell", ids) > 0
       => outcome[s] = [bought |-> Total(s, "buy", ids), sold |-> Total(s, "sell", ids)]
=============================================================================
