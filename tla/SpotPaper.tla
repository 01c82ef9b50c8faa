------------------------------ MODULE SpotPaper ------------------------------
(***************************************************************************)
(* The paper runner for spot: SpotRunner and SpotPaperEngine.  Holdings    *)
(* live in memory with their stops and the balance; spot_holdings is what  *)
(* a restarted runner gets back.  Amounts are in thousandths of a price    *)
(* unit, so the fee of 0.1 % is exact; every purchase has quantity 1.      *)
(***************************************************************************)
EXTENDS Integers, FiniteSets, FiniteSetsExt

CONSTANTS
    SpotSymbols,
    MaxSpotPrice,     \* bound: prices are 1..MaxSpotPrice
    InitialBalance,   \* SPOT_BALANCE, in price units
    MaxSales,         \* bound: sales by one life of the runner
    MaxSpotRestarts   \* bound: restarts

ASSUME SpotPaperAssumption ==
    /\ IsFiniteSet(SpotSymbols)
    /\ MaxSpotPrice \in Nat \ {0}
    /\ InitialBalance \in Nat
    /\ MaxSales \in Nat
    /\ MaxSpotRestarts \in Nat

VARIABLES
    holdings,    \* _holdings: entry price by symbol, 0 when there is none
    guards,      \* _protection: stop loss and take profit by symbol
    balance,     \* _balance
    holdingRows, \* spot_holdings: entry price by symbol, 0 without a row
    \* history
    profit,      \* sum of net_pnl of the sales of this life
    restored,    \* symbols whose holding was loaded at the start of this life
    gifts,       \* cost of the holdings loaded at the start of this life
    unstored,    \* symbols with a failed write
    sales,       \* sales of this life
    restarts

spotMemory  == <<holdings, guards, balance>>
spotHistory == <<profit, restored, gifts, unstored, sales, restarts>>
spotPaperVars == <<spotMemory, holdingRows, spotHistory>>

SpotPrices == 1..MaxSpotPrice
Unguarded == [sl |-> 0, tp |-> 0]
StopsAround(entry) == [sl |-> entry - 1, tp |-> entry + 1]
Held(h) == {y \in SpotSymbols : h[y] # 0}

Gross(p) == 1000 * p
Fee(p) == p
Cost(p) == Gross(p) + Fee(p)
CostOf(h, S) == MapThenSumSet(LAMBDA y : Cost(h[y]), S)

SpotPaperInit ==
    /\ holdings = [y \in SpotSymbols |-> 0]
    /\ guards = [y \in SpotSymbols |-> Unguarded]
    /\ balance = Gross(InitialBalance)
    /\ holdingRows = [y \in SpotSymbols |-> 0]
    /\ profit = 0 /\ restored = {} /\ gifts = 0 /\ unstored = {}
    /\ sales = 0 /\ restarts = 0

-----------------------------------------------------------------------------
\* Mutant: the balance is not charged for the fee.
PaidNoFee(p) == Gross(p)
Paid(p) == Cost(p)

GuardsAfterBuy(y, entry) == [guards EXCEPT ![y] = StopsAround(entry)]

\* Mutant: _protection is not popped.
GuardsLeft(y) == guards
GuardsAfterSale(y) == [guards EXCEPT ![y] = Unguarded]

(* buy: refused when the symbol is held or the balance too small.  Memory  *)
(* comes first; the transaction after it may fail.                         *)
Buy(y, entry) ==
    /\ holdings[y] = 0
    /\ Cost(entry) <= balance
    /\ holdings' = [holdings EXCEPT ![y] = entry]
    /\ guards' = GuardsAfterBuy(y, entry)
    /\ balance' = balance - Paid(entry)
    /\ \/ holdingRows' = [holdingRows EXCEPT ![y] = entry] /\ unstored' = unstored \ {y}
       \/ UNCHANGED holdingRows /\ unstored' = unstored \cup {y}
    /\ UNCHANGED <<profit, restored, gifts, sales, restarts>>

Hit(y, p) == p <= guards[y].sl \/ p >= guards[y].tp

Net(y, p) == Gross(p) - Fee(p) - Cost(holdings[y])

RowsAfterSale(y) == [holdingRows EXCEPT ![y] = 0]

(* sell takes the holding out of memory before it deletes the row.          *)
Sell(y, p) ==
    /\ holdings[y] # 0
    /\ sales < MaxSales
    /\ sales' = sales + 1
    /\ holdings' = [holdings EXCEPT ![y] = 0]
    /\ guards' = GuardsAfterSale(y)
    /\ balance' = balance + Gross(p) - Fee(p)
    /\ profit' = profit + Net(y, p)
    /\ restored' = restored \ {y}
    /\ \/ holdingRows' = RowsAfterSale(y) /\ unstored' = unstored \ {y}
       \/ UNCHANGED holdingRows /\ unstored' = unstored \cup {y}
    /\ UNCHANGED <<gifts, restarts>>

(* on_price_tick: SimpleExitPolicy sees a stop hit, or the holding time is  *)
(* over; without stops every price hits.                                   *)
SellAtStop(y, p) == Hit(y, p) /\ Sell(y, p)
SellAfterTimeout(y, p) == ~Hit(y, p) /\ Sell(y, p)

NoHoldings == [y \in SpotSymbols |-> 0]

(* The runner dies at any moment and is started again: the balance is the  *)
(* configured one, the holdings are those of the table, or none when it    *)
(* cannot be read; stops are not stored.                                   *)
SpotRestart ==
    /\ restarts < MaxSpotRestarts
    /\ restarts' = restarts + 1
    /\ holdings' \in {holdingRows, NoHoldings}
    /\ guards' = [y \in SpotSymbols |-> Unguarded]
    /\ balance' = Gross(InitialBalance)
    /\ profit' = 0 /\ sales' = 0
    /\ restored' = Held(holdings')
    /\ gifts' = CostOf(holdings', restored')
    /\ unstored' = IF holdings' = holdingRows THEN {} ELSE Held(holdingRows)
    /\ UNCHANGED holdingRows

SpotPaperNext ==
    \/ \E y \in SpotSymbols, p \in SpotPrices : 
          Buy(y, p) \/ SellAtStop(y, p) \/ SellAfterTimeout(y, p)
    \/ SpotRestart

SpotPaperSpec == SpotPaperInit /\ [][SpotPaperNext]_spotPaperVars

-----------------------------------------------------------------------------
SpotPaperTypeOK ==
    /\ holdings \in [SpotSymbols -> {0} \cup SpotPrices]
    /\ guards \in [SpotSymbols -> [sl : Int, tp : Int]]
    /\ balance \in Int /\ profit \in Int /\ gifts \in Nat
    /\ holdingRows \in [SpotSymbols -> {0} \cup SpotPrices]
    /\ restored \subseteq Held(holdings)
    /\ unstored \subseteq SpotSymbols
    /\ sales \in 0..MaxSales /\ restarts \in 0..MaxSpotRestarts

(* The books balance: what is free and what the holdings cost is the        *)
(* initial balance and the profit since, once the holdings a restart found  *)
(* are counted, whose cost was paid from a balance that is gone; and the    *)
(* table holds what memory holds, but for symbols whose writes failed.     *)
BooksBalance ==
    /\ balance + CostOf(holdings, Held(holdings))
           = Gross(InitialBalance) + profit + gifts
    /\ \A y \in SpotSymbols \ unstored : holdingRows[y] = holdings[y]

(* Every holding bought in this life of the runner is watched with its own *)
(* stops, and a symbol that is not held has none that a later holding or    *)
(* the next candle could find; only restored holdings have lost theirs.    *)
GuardedUnlessRestored ==
    \A y \in SpotSymbols :
        guards[y] = IF y \in Held(holdings) \ restored
                    THEN StopsAround(holdings[y]) ELSE Unguarded
=============================================================================
