------------------------ MODULE OrderReconciliation ------------------------
(***************************************************************************)
(* Open orders of one symbol as the exchange has them, and as the tables   *)
(* do.  The trading loop writes rows for the orders it places; the account *)
(* readers (RestPrivatePoller, AccountSyncWorker) copy the order list into *)
(* the same table from outside the loop; a reconciliation run compares the *)
(* list with the rows, opens an issue for an order without a row and for a *)
(* live row without an order, and in the end resolves the issues that it   *)
(* did not meet again.  An open issue locks the symbol against entries.    *)
(* The list is one page: an account with more orders shows only some.      *)
(***************************************************************************)
EXTENDS Integers, FiniteSets

CONSTANTS EntryOrders, ExitOrders,  \* orders the loop may place
          Page,                     \* orders a list answer holds
          MaxRelists                \* bound: rows that come back to life

ASSUME OrderReconciliationAssumption == Page \in Nat \ {0} /\ MaxRelists \in Nat

VARIABLES atExchange,  \* "none", "open" or "ended"
          orderRow,    \* spot_orders / futures_open_orders: "none", "live", "missing"
          legacy,      \* orders with a row in the legacy table `orders`
          issues,      \* open reconciliation issues of the symbol
          active,      \* _active_lock_issue_keys
          stage,       \* where the reconciliation run is
          answer,      \* the order list the run was answered
          readers,     \* the order list a reader is about to save, or {}
          found,       \* conflicts met by the run that compared last
          flagged,     \* orders ever reported as orphaned
          copied,      \* orders whose row a reader created
          reported,    \* how often each order was reported missing
          relisted     \* how often a missing row was made live again

books == <<orderRow, legacy>>
runVars == <<issues, active, stage, answer, found>>
seenVars == <<flagged, copied, reported, relisted>>
reconciliationVars == <<atExchange, books, runVars, readers, seenVars>>

BookedOrders == EntryOrders \cup ExitOrders
OpenThere == {o \in BookedOrders : atExchange[o] = "open"}
Live == {o \in BookedOrders : orderRow[o] = "live"}

OrderReconciliationTypeOK ==
  /\ atExchange \in [BookedOrders -> {"none", "open", "ended"}]
  /\ orderRow \in [BookedOrders -> {"none", "live", "missing"}]
  /\ legacy \subseteq BookedOrders
  /\ issues \subseteq {"orphaned_exchange_order", "local_order_missing_on_exchange"}
  /\ active \subseteq issues
  /\ stage \in {"never", "wallet", "orders", "rest", "complete", "partial", "failed"}
  /\ answer \subseteq BookedOrders
  /\ readers \subseteq BookedOrders
  /\ found \subseteq {"orphaned_exchange_order", "local_order_missing_on_exchange"}
  /\ flagged \subseteq BookedOrders /\ copied \subseteq BookedOrders
  /\ reported \in [BookedOrders -> 0..MaxRelists + 1]
  /\ relisted \in [BookedOrders -> 0..MaxRelists]

OrderReconciliationInit ==
  /\ atExchange = [o \in BookedOrders |-> "none"]
  /\ orderRow = [o \in BookedOrders |-> "none"]
  /\ legacy = {} /\ issues = {} /\ active = {} /\ stage = "never"
  /\ answer = {} /\ readers = {} /\ found = {}
  /\ flagged = {} /\ copied = {}
  /\ reported = [o \in BookedOrders |-> 0]
  /\ relisted = [o \in BookedOrders |-> 0]

Reconciling == stage \in {"wallet", "orders", "rest"}

(* The loop places an order when it is not reconciling; an entry only      *)
(* while no issue locks the symbol.  The order may reach the exchange      *)
(* though the request raises (a timeout): then no row is written at all.   *)
(* write_runtime_order_legacy_and_domain swallows a failing domain write.  *)
PlaceOrder(o, answered, mirrored) ==
  /\ ~Reconciling /\ stage # "never" /\ atExchange[o] = "none"
  /\ o \in EntryOrders => issues = {}
  /\ atExchange' = [atExchange EXCEPT ![o] = "open"]
  /\ legacy' = IF answered THEN legacy \cup {o} ELSE legacy
  /\ orderRow' = IF answered /\ mirrored THEN [orderRow EXCEPT ![o] = "live"] ELSE orderRow
  /\ UNCHANGED <<runVars, readers, seenVars>>

(* External: an order is filled or cancelled.  No writer but a reader or   *)
(* the next run learns of it: update_order_status changes `orders` only.   *)
EndOrder(o) ==
  /\ atExchange[o] = "open"
  /\ atExchange' = [atExchange EXCEPT ![o] = "ended"]
  /\ UNCHANGED <<books, runVars, readers, seenVars>>

(* What GET /v5/order/realtime answers now: the open orders, or one page.  *)
Lists == {l \in SUBSET OpenThere : \/ l = OpenThere /\ Cardinality(OpenThere) <= Page
                              \/ Cardinality(l) = Page}

\* Mutant: the active keys of the last run are kept.
ActiveKept == active

(* run: the active keys are cleared, the wallet is compared (HoldPolicy).  *)
ActiveAtStart == {}
RunBegins ==
  /\ ~Reconciling
  /\ active' = ActiveAtStart
  /\ stage' = "wallet"
  /\ UNCHANGED <<atExchange, books, issues, answer, found, readers, seenVars>>

OrdersAnswered ==
  /\ stage = "wallet"
  /\ answer' \in Lists
  /\ stage' = "orders"
  /\ UNCHANGED <<atExchange, books, issues, active, found, readers, seenVars>>

(* retCode # 0: open_orders_checked stays FALSE, no issue is resolved.     *)
OrdersRefused ==
  /\ stage = "wallet" /\ stage' = "partial"
  /\ UNCHANGED <<atExchange, books, issues, active, answer, found, readers, seenVars>>

(* The exchange reports the listed orders' status: their rows live again.  *)
MadeLive(rows, l) == [o \in BookedOrders |-> IF o \in l THEN "live" ELSE rows[o]]
Revived(rows, l) == {o \in l : rows[o] = "missing"}
Relist(l) ==
  /\ \A o \in Revived(orderRow, l) : relisted[o] < MaxRelists
  /\ relisted' = [o \in BookedOrders |->
                    relisted[o] + (IF o \in Revived(orderRow, l) THEN 1 ELSE 0)]

\* Mutant: the row is imported before it is looked for.
UnknownAfterImport(l) ==
  {o \in l : o \notin legacy /\ MadeLive(orderRow, l)[o] = "none"}

(* A listed order with neither a legacy nor a domain row is an orphan.     *)
Unknown(l) == {o \in l : o \notin legacy /\ orderRow[o] = "none"}

(* The rows of orders that are gone are taken out of the live ones.        *)
MarkMissing(rows, gone) == [o \in BookedOrders |-> IF o \in gone THEN "missing" ELSE rows[o]]

(* _reconcile_open_orders once the list is there, and _issue_once: an open *)
(* issue of the kind is kept, and its key is active either way.            *)
CompareOrders ==
  /\ stage = "orders"
  /\ LET orphans == Unknown(answer)
         gone == Live \ answer
         met == (IF orphans # {} THEN {"orphaned_exchange_order"} ELSE {})
                \cup (IF gone # {} THEN {"local_order_missing_on_exchange"} ELSE {})
     IN /\ Relist(answer)
        /\ \A o \in gone : reported[o] <= MaxRelists
        /\ orderRow' = MarkMissing(MadeLive(orderRow, answer), gone)
        /\ issues' = issues \cup met
        /\ active' = active \cup met
        /\ found' = met
        /\ flagged' = flagged \cup orphans
        /\ reported' = [o \in BookedOrders |-> reported[o] + (IF o \in gone THEN 1 ELSE 0)]
  /\ stage' = "rest"
  /\ UNCHANGED <<atExchange, legacy, answer, readers, copied>>

(* The rest of the run, then _resolve_stale_entry_lock_issues.             *)
RunCompletes ==
  /\ stage = "rest"
  /\ issues' = issues \cap active
  /\ stage' = "complete"
  /\ UNCHANGED <<atExchange, books, active, answer, found, readers, seenVars>>

(* A request raises: the run ends as failed and resolves nothing.          *)
RunFails ==
  /\ Reconciling /\ stage' = "failed"
  /\ UNCHANGED <<atExchange, books, issues, active, answer, found, readers, seenVars>>

(* _poll_orders, _sync_spot_orders: a list is fetched, and upserted later. *)
ReaderAsks ==
  /\ readers = {}
  /\ readers' \in Lists \ {{}}
  /\ UNCHANGED <<atExchange, books, runVars, seenVars>>

(* The INSERT of an order that has no row by now.                          *)
Inserted(l) == {o \in l : orderRow[o] = "none"}

ReaderSaves ==
  /\ readers # {}
  /\ Relist(readers)
  /\ orderRow' = MadeLive(orderRow, readers)
  /\ copied' = copied \cup Inserted(readers)
  /\ readers' = {}
  /\ UNCHANGED <<atExchange, legacy, runVars, flagged, reported>>

OrderReconciliationNext ==
  \/ \E o \in BookedOrders, answered, mirrored \in BOOLEAN : PlaceOrder(o, answered, mirrored)
  \/ \E o \in BookedOrders : EndOrder(o)
  \/ RunBegins \/ OrdersAnswered \/ OrdersRefused \/ CompareOrders
  \/ RunCompletes \/ RunFails \/ ReaderAsks \/ ReaderSaves

OrderReconciliationSpec ==
  OrderReconciliationInit /\ [][OrderReconciliationNext]_reconciliationVars

(* After a run that completed, the symbol is locked by what that run met   *)
(* and by nothing older: issues of failed and refused runs do not linger   *)
(* and an issue met again is not lost.                                     *)
LockIsCurrent == stage = "complete" => issues = found

(* An order that reached the exchange without the loop knowing is reported *)
(* by the first run that is shown it, unless a reader had copied it into   *)
(* the table before: then it passes for one of the loop's own.             *)
UnknownOrderFlagged ==
  stage = "complete" => answer \subseteq legacy \cup flagged \cup copied

(* An ended order is reported missing once, and once more only after a     *)
(* list, a page or a late reader has made its row live again.              *)
ReportedOnce ==
  \A o \in BookedOrders :
    reported[o] = relisted[o] + (IF orderRow[o] = "missing" THEN 1 ELSE 0)

(* Both conflicts between the order list and the table come to light.      *)
ConflictsAreReported == UnknownOrderFlagged /\ ReportedOnce
=============================================================================
