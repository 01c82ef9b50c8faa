---------------------------- MODULE FuturesPaper ----------------------------
(***************************************************************************)
(* The paper runner for futures: FuturesRunner, FuturesPaperEngine and     *)
(* SimpleExitPolicy, on one symbol.  The handlers of the web socket run    *)
(* one after the other in one process; each `with db.connect()` block is   *)
(* a transaction that may fail, which the engine logs and survives, and    *)
(* the process may die between any two of them.                            *)
(***************************************************************************)
EXTENDS Integers, FiniteSets, Sequences

CONSTANTS
    MaxPaperPrice,   \* bound: prices are 1..MaxPaperPrice
    MaxPaperTrades,  \* bound: rows of futures_paper_trades
    MaxRecords       \* bound: how often one trade is closed and recorded

ASSUME FuturesPaperAssumption ==
    /\ MaxPaperPrice \in Nat \ {0}
    /\ MaxPaperTrades \in Nat
    /\ MaxRecords \in Nat \ {0}

VARIABLES
    \* the database
    trades,      \* futures_paper_trades
    size,        \* futures_positions.size is not 0, by side
    stops,       \* futures_protection_orders: stop loss and take profit by side
    \* the runner
    runnerAt,    \* "idle", "saving" the stops, "ticking", "learning"
    price,       \* the price of the candle in hand, NoPrice between candles
    queue,       \* open trades loaded for this candle and not looked at yet
    results,     \* trades closed by this candle, to be given to the learner
    \* history
    learned,     \* how often the outcome of each trade was recorded
    blind,       \* a read of the open trades has failed
    unwritten,   \* a write of a closed trade has failed
    unsaved      \* trades whose stops were not saved

database == <<trades, size, stops>>
faults   == <<blind, unwritten, unsaved>>
futuresPaperVars == <<database, runnerAt, price, queue, results, learned, faults>>

PaperSides == {"long", "short"}
PaperPrices == 1..MaxPaperPrice
NoPrice == 0

\* A missing protection row is read as 0.0 and 0.0.
NoStops == [sl |-> 0, tp |-> 0]

OpenTrades == {t \in DOMAIN trades : trades[t].open}

\* calc_sl_tp, with an average true range of 1.
StopsFor(side, entry) ==
    IF side = "long" THEN [sl |-> entry - 1, tp |-> entry + 1]
                     ELSE [sl |-> entry + 1, tp |-> entry - 1]

\* SimpleExitPolicy.on_tick, without the time-out.
StopsHit(side, s, p) ==
    IF side = "long" THEN p <= s.sl \/ p >= s.tp
                     ELSE p >= s.sl \/ p <= s.tp

FuturesPaperInit ==
    /\ trades = <<>>
    /\ size = [s \in PaperSides |-> FALSE]
    /\ stops = [s \in PaperSides |-> NoStops]
    /\ runnerAt = "idle" /\ price = NoPrice /\ queue = {} /\ results = {}
    /\ learned = <<>> /\ blind = FALSE /\ unwritten = FALSE /\ unsaved = {}

-----------------------------------------------------------------------------
(* _on_orderbook: no open trade on the symbol, or the query failed and      *)
(* returned none; the position row and the trade are one transaction.      *)
Open(side, entry) ==
    /\ runnerAt = "idle"
    /\ Len(trades) < MaxPaperTrades
    /\ \/ OpenTrades = {} /\ UNCHANGED blind
       \/ OpenTrades # {} /\ blind' = TRUE
    /\ trades' = Append(trades, [side |-> side, open |-> TRUE,
                                 own |-> StopsFor(side, entry)])
    /\ learned' = Append(learned, 0)
    /\ size' = [size EXCEPT ![side] = TRUE]
    /\ runnerAt' = "saving"
    /\ unsaved' = unsaved \cup {Len(trades) + 1}
    /\ UNCHANGED <<stops, price, queue, results, unwritten>>

Newest == Len(trades)

\* Mutant: a row that is there already is left alone.
StopsInserted(t) ==
    IF stops[trades[t].side] = NoStops
    THEN [stops EXCEPT ![trades[t].side] = trades[t].own] ELSE stops
StopsSaved(t) == [stops EXCEPT ![trades[t].side] = trades[t].own]

\* _save_protection, in a transaction of its own: a failure is only logged.
SaveProtection ==
    /\ runnerAt = "saving"
    /\ stops' = StopsSaved(Newest)
    /\ unsaved' = unsaved \ {Newest}
    /\ runnerAt' = "idle"
    /\ UNCHANGED <<trades, size, price, queue, results, learned, blind, unwritten>>

SaveProtectionFails ==
    /\ runnerAt = "saving"
    /\ runnerAt' = "idle"
    /\ UNCHANGED <<database, price, queue, results, learned, faults>>

(* _on_kline: on_price_tick loads the open trades, or fails to and sees     *)
(* none.                                                                   *)
Candle(p) ==
    /\ runnerAt = "idle"
    /\ price' = p
    /\ queue' \in {OpenTrades, {}}
    /\ runnerAt' = "ticking"
    /\ UNCHANGED <<database, results, learned, faults>>

NextRow == CHOOSE t \in queue : \A u \in queue : t <= u

Hold ==
    /\ runnerAt = "ticking" /\ queue # {}
    /\ ~StopsHit(trades[NextRow].side, stops[trades[NextRow].side], price)
    /\ queue' = queue \ {NextRow}
    /\ UNCHANGED <<database, runnerAt, price, results, learned, faults>>

PositionClosed(side) == [size EXCEPT ![side] = FALSE]

\* Mutant: closed_at_utc is not written.
TradesAfterExit(t) == trades
TradesAfterClose(t) == [trades EXCEPT ![t].open = FALSE]

(* close_position: a stop is hit, or the holding time is over.  Trade and   *)
(* position row are one transaction.                                       *)
Close ==
    /\ runnerAt = "ticking" /\ queue # {}
    /\ trades' = TradesAfterClose(NextRow)
    /\ size' = PositionClosed(trades[NextRow].side)
    /\ queue' = queue \ {NextRow}
    /\ results' = results \cup {NextRow}
    /\ UNCHANGED <<stops, runnerAt, price, learned, faults>>

\* The transaction fails; the trade counts as closed all the same.
CloseFails ==
    /\ runnerAt = "ticking" /\ queue # {}
    /\ unwritten' = TRUE
    /\ queue' = queue \ {NextRow}
    /\ results' = results \cup {NextRow}
    /\ UNCHANGED <<database, runnerAt, price, learned, blind, unsaved>>

TickDone ==
    /\ runnerAt = "ticking" /\ queue = {}
    /\ runnerAt' = IF results = {} THEN "idle" ELSE "learning"
    /\ price' = NoPrice
    /\ UNCHANGED <<database, queue, results, learned, faults>>

\* OutcomeLearner.record_trade, once for each result.
Learn(t) ==
    /\ runnerAt = "learning" /\ t \in results
    /\ learned[t] < MaxRecords
    /\ learned' = [learned EXCEPT ![t] = @ + 1]
    /\ results' = results \ {t}
    /\ runnerAt' = IF results' = {} THEN "idle" ELSE "learning"
    /\ UNCHANGED <<database, price, queue, faults>>

\* The process dies and is started again: only the database is left.
RunnerRestarts ==
    /\ runnerAt # "idle"
    /\ runnerAt' = "idle" /\ price' = NoPrice /\ queue' = {} /\ results' = {}
    /\ UNCHANGED <<database, learned, faults>>

FuturesPaperNext ==
    \/ \E side \in PaperSides, p \in PaperPrices : Open(side, p)
    \/ \E p \in PaperPrices : Candle(p)
    \/ \E t \in 1..MaxPaperTrades : Learn(t)
    \/ SaveProtection \/ SaveProtectionFails \/ Hold \/ Close \/ CloseFails
    \/ TickDone \/ RunnerRestarts

FuturesPaperSpec == FuturesPaperInit /\ [][FuturesPaperNext]_futuresPaperVars

-----------------------------------------------------------------------------
FuturesPaperTypeOK ==
    /\ trades \in Seq([side : PaperSides, open : BOOLEAN,
                       own : [sl : Int, tp : Int]])
    /\ size \in [PaperSides -> BOOLEAN]
    /\ stops \in [PaperSides -> [sl : Int, tp : Int]]
    /\ runnerAt \in {"idle", "saving", "ticking", "learning"}
    /\ price \in PaperPrices \cup {NoPrice}
    /\ queue \subseteq OpenTrades
    /\ results \subseteq DOMAIN trades
    /\ learned \in Seq(Nat) /\ Len(learned) = Len(trades)
    /\ blind \in BOOLEAN /\ unwritten \in BOOLEAN
    /\ unsaved \subseteq DOMAIN trades

(* The stops an open trade is watched with are its own, never those an      *)
(* earlier trade of that side left behind, unless saving its own failed.   *)
WatchedWithOwnStops ==
    ~blind =>
        \A t \in OpenTrades : t \in unsaved \/ stops[trades[t].side] = trades[t].own

(* An outcome is learned once, and only that of a closed trade, unless the  *)
(* write of a closed trade failed: then the next candle closes it again.   *)
OutcomeLearnedOnce ==
    ~unwritten =>
        \A t \in DOMAIN trades : learned[t] <= (IF trades[t].open \/ t \in results
                                                THEN 0 ELSE 1)
=============================================================================
