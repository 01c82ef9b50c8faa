----------------------------- MODULE HoldPolicy -----------------------------
(***************************************************************************)
(* The row of spot_holdings of one coin, and whether a sell intent of the  *)
(* strategy may sell it.  Four writers set the row: fills applied by the   *)
(* trading loop, the wallet check at startup, and the wallet part of a     *)
(* reconciliation, for a coin without a row and for a row without a coin.  *)
(* A coin somebody else put into the wallet is to be held.  Quantities are *)
(* in units of one order.                                                  *)
(***************************************************************************)
EXTENDS Integers

CONSTANT MaxHeld      \* bound: coins of either owner in the wallet

ASSUME HoldPolicyAssumption == MaxHeld \in Nat \ {0}

VARIABLES
    theirs,      \* exchange: coins deposited by the account's owner
    ours,        \* exchange: coins bought by the strategy
    unapplied,   \* executions of the strategy's orders not yet applied
    tracked,     \* net_position_base
    row,         \* the row of spot_holdings, or NoRow
    seenAtStart, \* the wallet check of this start is through
    traded,      \* history: fills were applied since the start
    heldFor      \* history: the row was last written for a coin that was found

wallet == ours + theirs
holdVars == <<theirs, ours, unapplied, tracked, row, seenAtStart, traded, heldFor>>

Reasons == {"strategy_entry", "unknown_recovered_from_exchange", "stale_hold"}
NetRange == -MaxHeld..MaxHeld
NoRow == [quantity |-> 0, reason |-> "none", autoSell |-> FALSE]

HoldPolicyTypeOK ==
    /\ theirs \in 0..MaxHeld /\ ours \in 0..MaxHeld
    /\ unapplied \in -(2 * MaxHeld)..(2 * MaxHeld) /\ tracked \in NetRange
    /\ row \in [quantity : 0..2 * MaxHeld, reason : Reasons, autoSell : BOOLEAN] \cup {NoRow}
    /\ seenAtStart \in BOOLEAN /\ traded \in BOOLEAN /\ heldFor \in BOOLEAN

HoldPolicyInit ==
    /\ theirs \in 0..MaxHeld /\ ours = 0 /\ unapplied = 0 /\ tracked = 0
    /\ row = NoRow /\ seenAtStart = FALSE /\ traded = FALSE /\ heldFor = FALSE

-----------------------------------------------------------------------------
(* PROTECTED_HOLD_REASONS and can_auto_sell_hold.                          *)
CanAutoSell(r) == r.autoSell \/ r.reason # "unknown_recovered_from_exchange"
(* _spot_sell_blocked_by_hold_policy: no row or an empty one blocks no one.*)
SellBlocked == row.quantity > 0 /\ ~CanAutoSell(row)

(* External: the owner moves coins.                                        *)
OwnerMoves ==
    /\ theirs' \in 0..MaxHeld
    /\ UNCHANGED <<ours, unapplied, tracked, row, seenAtStart, traded, heldFor>>

(* External: an entry of the strategy is filled.                           *)
BuyFills ==
    /\ seenAtStart /\ ours < MaxHeld /\ tracked + unapplied < MaxHeld
    /\ ours' = ours + 1 /\ unapplied' = unapplied + 1
    /\ UNCHANGED <<theirs, tracked, row, seenAtStart, traded, heldFor>>

(* A sell intent passes and is filled: it takes the strategy's coins, and  *)
(* the owner's when there are none.                                        *)
SellIntent ==
    /\ seenAtStart /\ ~SellBlocked /\ wallet > 0
    /\ tracked + unapplied > -MaxHeld
    /\ unapplied' = unapplied - 1
    /\ IF ours > 0 THEN ours' = ours - 1 /\ UNCHANGED theirs
                   ELSE theirs' = theirs - 1 /\ UNCHANGED ours
    /\ UNCHANGED <<tracked, row, seenAtStart, traded, heldFor>>

(* The holding as the fills leave it, empty when the position is too small.*)
AfterFills(quantity) == [quantity |-> quantity, reason |-> "strategy_entry", autoSell |-> TRUE]

\* Mutant: executions that were applied are applied again.
LeftApplied == unapplied
LeftToApply == 0
(* _refresh_executions: the position and the holding follow the fills; a   *)
(* net sale of coins that were never tracked leaves the holding alone.     *)
ApplyFills ==
    /\ seenAtStart /\ unapplied # 0
    /\ tracked' = tracked + unapplied
    /\ unapplied' = LeftToApply
    /\ IF tracked' >= 0
       THEN row' = AfterFills(tracked') /\ traded' = TRUE /\ heldFor' = FALSE
       ELSE UNCHANGED <<row, traded, heldFor>>
    /\ UNCHANGED <<theirs, ours, seenAtStart>>

-----------------------------------------------------------------------------
Found == [quantity |-> wallet, reason |-> "unknown_recovered_from_exchange", autoSell |-> FALSE]

Magnitude(n) == IF n < 0 THEN -n ELSE n

(* Startup: the positions are rebuilt from executions, of which some may   *)
(* be missed; a coin of which less than half is known becomes a holding    *)
(* that was found, unless the wallet cannot be read.                       *)
WalletCheck(rebuilt, readable) ==
    /\ ~seenAtStart
    /\ tracked' = rebuilt
    /\ unapplied' = 0
    /\ IF readable /\ 2 * Magnitude(rebuilt) < wallet
       THEN row' = Found /\ heldFor' = TRUE
       ELSE UNCHANGED <<row, heldFor>>
    /\ seenAtStart' = TRUE
    /\ UNCHANGED <<theirs, ours, traded>>

(* The process ends; entries and exits are cancelled at the next start.    *)
LoopRestarts ==
    /\ seenAtStart
    /\ seenAtStart' = FALSE /\ traded' = FALSE
    /\ UNCHANGED <<theirs, ours, unapplied, tracked, row, heldFor>>

\* Mutant: every coin in the wallet gets the row of one that was found.
ReconciledAll == IF wallet > 0 THEN Found ELSE row
(* _reconcile_wallet: a coin without a row was found; a row that says more *)
(* than nothing, without a coin, is stale and keeps its flag.              *)
Reconciled ==
    IF wallet > 0 /\ row = NoRow THEN Found
    ELSE IF wallet = 0 /\ row.quantity > 0 THEN [row EXCEPT !.reason = "stale_hold"]
    ELSE row

ReconcileWallet ==
    /\ seenAtStart
    /\ row' = Reconciled
    /\ heldFor' = (wallet > 0 /\ (row = NoRow \/ heldFor))
    /\ UNCHANGED <<theirs, ours, unapplied, tracked, seenAtStart, traded>>

HoldPolicyNext ==
    \/ OwnerMoves \/ BuyFills \/ SellIntent \/ ApplyFills
    \/ \E rebuilt \in NetRange, readable \in BOOLEAN : WalletCheck(rebuilt, readable)
    \/ LoopRestarts \/ ReconcileWallet

HoldPolicySpec == HoldPolicyInit /\ [][HoldPolicyNext]_holdVars

(* A coin that was found in the wallet cannot be sold by an intent until   *)
(* the strategy's own fills take the row over or the coin goes missing.    *)
FoundCoinIsHeld == heldFor => SellBlocked

(* Once fills were applied in this run, the strategy may sell the symbol:  *)
(* no reconciliation makes a found coin of what it bought.                 *)
OwnCoinIsSellable == traded => ~SellBlocked

(* The policy holds what was found and lets go of what was bought.         *)
HoldFollowsOwner == FoundCoinIsHeld /\ OwnCoinIsSellable
=============================================================================
