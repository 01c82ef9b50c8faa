---------------------------- MODULE SpotPortfolio ----------------------------
(***************************************************************************)
(* The spot branch of trading_loop over several symbols, and the limit on  *)
(* simultaneous positions (max_open_positions).  The loop counts positions *)
(* from four views of the account, each of another age: executions it has  *)
(* applied, the list of open orders, a cached wallet, and what it placed   *)
(* in this iteration.  Quantities are in units of one entry; prices, dust  *)
(* and the percentages that trigger an exit are left to chance.  The       *)
(* exchange is external; a working sell order locks the coin it sells.     *)
(***************************************************************************)
EXTENDS Integers, FiniteSets

CONSTANTS
    Pairs,              \* config.symbols
    MaxOpenPositions,   \* RiskConfig.max_open_positions
    MaxCoins            \* bound: entries held in one symbol

ASSUME SpotPortfolioAssumption ==
    IsFiniteSet(Pairs) /\ MaxOpenPositions \in Nat \ {0} /\ MaxCoins \in Nat \ {0}

VARIABLES
    quote,      \* exchange: an entry order works ("mm-", "spk-")
    ask,        \* exchange: an exit quote works ("px-")
    coins,      \* exchange: what the executions so far add up to
    unseen,     \* the part of it in executions not yet applied
    net,        \* net_position_base
    held,       \* wallet_held_base_symbols
    listed,     \* open_order_symbols
    placed,     \* newly_placed_symbols
    todo,       \* symbols the current step has yet to treat
    stepNow,    \* the step of the iteration
    skipped     \* history: an iteration went on without all executions

account == <<quote, ask, coins, unseen>>
views == <<net, held, listed, placed>>
portfolioVars == <<account, views, todo, stepNow, skipped>>

Steps == {"open", "refresh", "wallet", "cancel", "exits", "asks", "intents", "ended"}

PortfolioInit ==
    /\ quote = [s \in Pairs |-> FALSE] /\ ask = [s \in Pairs |-> FALSE]
    /\ coins = [s \in Pairs |-> 0] /\ unseen = [s \in Pairs |-> 0]
    /\ net = [s \in Pairs |-> 0]
    /\ held = {} /\ listed = {} /\ placed = {} /\ todo = {}
    /\ stepNow = "open" /\ skipped = FALSE

-----------------------------------------------------------------------------
\* The exchange.
Buys(s) ==
    /\ quote[s] /\ coins[s] < MaxCoins
    /\ quote' = [quote EXCEPT ![s] = FALSE]
    /\ coins' = [coins EXCEPT ![s] = @ + 1]
    /\ unseen' = [unseen EXCEPT ![s] = @ + 1]
    /\ UNCHANGED <<ask, views, todo, stepNow, skipped>>

Sells(s) ==
    /\ coins' = [coins EXCEPT ![s] = @ - 1]
    /\ unseen' = [unseen EXCEPT ![s] = @ - 1]

AskFills(s) ==
    /\ ask[s] /\ Sells(s)
    /\ ask' = [ask EXCEPT ![s] = FALSE]
    /\ UNCHANGED <<quote, views, todo, stepNow, skipped>>

-----------------------------------------------------------------------------
\* get_open_orders; an answer with an error ends the iteration, a 10004 the
\* loop.
GetOpenOrders ==
    /\ stepNow = "open"
    /\ \/ /\ listed' = {s \in Pairs : quote[s] \/ ask[s]}
          /\ todo' = {s \in Pairs : quote[s]}
          /\ placed' = {} /\ stepNow' = "refresh"
       \/ stepNow' = "ended" /\ UNCHANGED <<listed, placed, todo>>
    /\ UNCHANGED <<account, net, held, skipped>>

Apply(got) ==
    /\ net' = [s \in Pairs |-> IF s \in got THEN net[s] + unseen[s] ELSE net[s]]
    /\ unseen' = [s \in Pairs |-> IF s \in got THEN 0 ELSE unseen[s]]

(* refresh_positions_from_executions: not due yet, too many symbols for one *)
(* pass, or a request failed: the executions of the others are missing.    *)
RefreshPositions(got) ==
    /\ stepNow = "refresh" /\ stepNow' = "wallet"
    /\ Apply(got)
    /\ skipped' = (skipped \/ got # Pairs)
    /\ UNCHANGED <<quote, ask, coins, held, listed, placed, todo>>

\* refresh_wallet_balance, at most once in 15 s.
RefreshWallet ==
    /\ stepNow = "wallet" /\ stepNow' = "cancel"
    /\ held' \in {held, {s \in Pairs : coins[s] > 0}}
    /\ UNCHANGED <<account, net, listed, placed, todo, skipped>>

\* Entry orders that were listed are cancelled; some are filled by then.
CancelQuote(s) ==
    /\ stepNow = "cancel" /\ s \in todo
    /\ todo' = todo \ {s}
    /\ \E obeyed \in BOOLEAN : quote' = [quote EXCEPT ![s] = @ /\ ~obeyed]
    /\ UNCHANGED <<ask, coins, unseen, views, stepNow, skipped>>

Positions == {s \in Pairs : net[s] # 0}

NextStep ==
    /\ todo = {}
    /\ \/ stepNow = "cancel" /\ stepNow' = "exits" /\ todo' = Positions
       \/ stepNow = "exits" /\ stepNow' = "asks" /\ todo' = Positions
       \/ stepNow = "asks" /\ stepNow' = "intents" /\ UNCHANGED todo
       \/ stepNow = "intents" /\ stepNow' = "open" /\ UNCHANGED todo
    /\ UNCHANGED <<account, views, skipped>>

(* maybe_force_exit: when a rule fires, a market sell of the position; the  *)
(* exchange refuses it when the coin is gone or locked by the exit quote.  *)
ForceExit(s) ==
    /\ stepNow = "exits" /\ s \in todo
    /\ todo' = todo \ {s}
    /\ \/ UNCHANGED <<coins, unseen>>
       \/ coins[s] > (IF ask[s] THEN 1 ELSE 0) /\ Sells(s)
    /\ UNCHANGED <<quote, ask, views, stepNow, skipped>>

\* maybe_place_position_exit_quote keeps the quote or cancels and replaces it.
ExitQuote(s) ==
    /\ stepNow = "asks" /\ s \in todo
    /\ todo' = todo \ {s}
    /\ \E working \in {ask[s], coins[s] > 0} : ask' = [ask EXCEPT ![s] = working]
    /\ UNCHANGED <<quote, coins, unseen, views, stepNow, skipped>>

\* Mutant: only what the account said at the start of the iteration counts.
OtherSymbolsListed(s) == (Positions \cup listed \cup held) \ {s}
\* _all_active_symbols, without the symbol of the intent.
OtherSymbols(s) == (Positions \cup listed \cup held \cup placed) \ {s}

\* RiskManager.check_order.
WithinLimit(s) == Cardinality(OtherSymbols(s)) < MaxOpenPositions

(* _prepare_intent_for_send and guarded_place_order: the entry is held back *)
(* (no book, an old one, a pair that no longer passes) or the exchange      *)
(* refuses it; it is accepted; or it raises, which ends the iteration, and  *)
(* a 10004 ends the loop until a restart: the order may work all the same.  *)
GuardedPlaceOrder(s) ==
    \/ UNCHANGED <<quote, placed, stepNow>>
    \/ /\ quote' = [quote EXCEPT ![s] = TRUE]
       /\ placed' = placed \cup {s} /\ UNCHANGED stepNow
    \/ /\ quote' \in {quote, [quote EXCEPT ![s] = TRUE]}
       /\ stepNow' \in {"open", "ended"} /\ UNCHANGED placed

(* An entry for a symbol without a known position, within the limit.        *)
Enter(s) ==
    /\ stepNow = "intents" /\ s \notin Positions \cup placed
    /\ WithinLimit(s)
    /\ coins[s] < MaxCoins
    /\ GuardedPlaceOrder(s)
    /\ UNCHANGED <<ask, coins, unseen, net, held, listed, todo, skipped>>

(* A restart in any step: the executions in the database are replayed, then *)
(* those the exchange returns; all orders are cancelled before, if it obeys.*)
Restart(got) ==
    /\ Apply(got)
    /\ held' = {} /\ listed' = {} /\ placed' = {} /\ todo' = {} /\ stepNow' = "open"
    /\ \E obeyed \in BOOLEAN :
          /\ quote' = [s \in Pairs |-> quote[s] /\ ~obeyed]
          /\ ask' = [s \in Pairs |-> ask[s] /\ ~obeyed]
    /\ UNCHANGED <<coins, skipped>>

PortfolioNext ==
    \/ GetOpenOrders \/ RefreshWallet \/ NextStep
    \/ \E s \in Pairs : \/ Buys(s) \/ AskFills(s) \/ CancelQuote(s)
                        \/ ForceExit(s) \/ ExitQuote(s) \/ Enter(s)
    \/ \E got \in SUBSET Pairs : RefreshPositions(got) \/ Restart(got)

PortfolioSpec == PortfolioInit /\ [][PortfolioNext]_portfolioVars

-----------------------------------------------------------------------------
PortfolioTypeOK ==
    /\ quote \in [Pairs -> BOOLEAN] /\ ask \in [Pairs -> BOOLEAN]
    /\ coins \in [Pairs -> 0..MaxCoins] /\ net \in [Pairs -> 0..MaxCoins]
    /\ unseen \in [Pairs -> -MaxCoins..MaxCoins]
    /\ held \subseteq Pairs /\ listed \subseteq Pairs /\ placed \subseteq Pairs
    /\ todo \subseteq Pairs /\ stepNow \in Steps /\ skipped \in BOOLEAN

Engaged == {s \in Pairs : coins[s] > 0 \/ quote[s]}

(* Positions and entry orders on the exchange keep within                   *)
(* max_open_positions, whatever is filled between two requests of an        *)
(* iteration and whatever a restart forgets, as long as every iteration     *)
(* applies all executions.  (With execution_refresh_interval_sec above the *)
(* period of the loop, as by default, an iteration does not.)               *)
LimitKept == ~skipped => Cardinality(Engaged) <= MaxOpenPositions
=============================================================================
