----------------------------- MODULE PaperProofs -----------------------------
(***************************************************************************)
(* Proofs about the books of the trading side: the paper runners for       *)
(* futures and for spot, and the window through which the trading loop     *)
(* learns of its fills.                                                    *)
(***************************************************************************)
EXTENDS FuturesPaper, SpotPaper, ExecutionWindow, FiniteSetFacts, TLAPS

-----------------------------------------------------------------------------
(* FuturesPaper.  As long as no read of the open trades failed there is    *)
(* one at most; while its stops are being saved it is the newest one; a    *)
(* closed trade the learner is to hear of is closed, unless a write failed. *)
WatchInv ==
    /\ ~blind => \A t, u \in OpenTrades : t = u
    /\ runnerAt = "saving" => Newest \in OpenTrades
    /\ ~unwritten => results \cap OpenTrades = {}

FuturesPaperInv ==
    /\ FuturesPaperTypeOK /\ WatchInv
    /\ WatchedWithOwnStops /\ OutcomeLearnedOnce

TradeRows == [side : PaperSides, open : BOOLEAN, own : [sl : Int, tp : Int]]

LEMMA InitFuturesPaper == FuturesPaperInit => FuturesPaperInv
<1> SUFFICES ASSUME FuturesPaperInit PROVE FuturesPaperInv
  OBVIOUS
<1>1. /\ trades = <<>> /\ learned = <<>>
      /\ size = [s \in PaperSides |-> FALSE]
      /\ stops = [s \in PaperSides |-> NoStops]
      /\ runnerAt = "idle" /\ price = NoPrice /\ queue = {} /\ results = {}
      /\ blind = FALSE /\ unwritten = FALSE /\ unsaved = {}
  BY DEF FuturesPaperInit
<1>2. OpenTrades = {} /\ DOMAIN trades = {} BY <1>1 DEF OpenTrades
<1>3. FuturesPaperTypeOK
  <2>1. /\ trades \in Seq(TradeRows) /\ learned \in Seq(Nat)
        /\ Len(learned) = Len(trades)
    BY <1>1
  <2>2. NoStops \in [sl : Int, tp : Int] BY DEF NoStops
  <2>3. size \in [PaperSides -> BOOLEAN] /\ stops \in [PaperSides -> [sl : Int, tp : Int]]
    BY <1>1, <2>2
  <2> QED BY <1>1, <1>2, <2>1, <2>3 DEF FuturesPaperTypeOK, TradeRows
<1>4. WatchInv BY <1>1, <1>2 DEF WatchInv
<1> QED
  BY <1>2, <1>3, <1>4
  DEF FuturesPaperInv, WatchedWithOwnStops, OutcomeLearnedOnce

(* The rows of the trades as a candle meets them: the oldest comes first.  *)
LEMMA NextRowIsQueued ==
    ASSUME FuturesPaperTypeOK, queue # {} PROVE NextRow \in queue
<1>1. queue \subseteq 1..Len(trades) /\ Len(trades) \in Nat
  BY DEF FuturesPaperTypeOK, OpenTrades
<1>2. 1 \in Int /\ Len(trades) \in Int BY <1>1
<1>3. \E t \in queue : \A u \in queue : t <= u BY <1>1, <1>2, LeastOfInterval
<1> QED BY <1>3 DEF NextRow

LEMMA NextFuturesPaper ==
    FuturesPaperInv /\ [FuturesPaperNext]_futuresPaperVars => FuturesPaperInv'
<1> SUFFICES ASSUME FuturesPaperInv, [FuturesPaperNext]_futuresPaperVars
             PROVE  FuturesPaperInv'
  OBVIOUS
<1> USE FuturesPaperAssumption
<1>t. FuturesPaperTypeOK /\ WatchInv /\ WatchedWithOwnStops /\ OutcomeLearnedOnce
  BY DEF FuturesPaperInv
<1>d. /\ trades \in Seq(TradeRows) /\ DOMAIN trades = 1..Len(trades) /\ Len(trades) \in Nat
      /\ learned \in Seq(Nat) /\ DOMAIN learned = DOMAIN trades
      /\ OpenTrades \subseteq DOMAIN trades
  BY <1>t DEF FuturesPaperTypeOK, TradeRows, OpenTrades
<1>1. ASSUME NEW side \in PaperSides, NEW p \in PaperPrices, Open(side, p)
      PROVE  FuturesPaperInv'
  <2> DEFINE new == [side |-> side, open |-> TRUE, own |-> StopsFor(side, p)]
  <2>1. /\ runnerAt' = "saving"
        /\ (OpenTrades = {} /\ blind' = blind) \/ blind' = TRUE
        /\ trades' = Append(trades, new) /\ learned' = Append(learned, 0)
        /\ size' = [size EXCEPT ![side] = TRUE]
        /\ unsaved' = unsaved \cup {Len(trades) + 1}
        /\ UNCHANGED <<stops, price, queue, results, unwritten>>
    BY <1>1 DEF Open
  <2>2. new \in TradeRows
    <3>1. StopsFor(side, p) \in [sl : Int, tp : Int]
      BY DEF StopsFor, PaperPrices
    <3> QED BY <3>1 DEF TradeRows
  <2> HIDE DEF new
  <2>3. /\ trades' \in Seq(TradeRows) /\ Len(trades') = Len(trades) + 1
        /\ DOMAIN trades' = 1..Len(trades) + 1
        /\ \A t \in DOMAIN trades : trades'[t] = trades[t]
        /\ trades'[Len(trades) + 1] = new
    BY <1>d, <2>1, <2>2
  <2>4. /\ learned' \in Seq(Nat) /\ Len(learned') = Len(learned) + 1
        /\ \A t \in DOMAIN trades : learned'[t] = learned[t]
        /\ learned'[Len(trades) + 1] = 0
    BY <1>d, <2>1
  <2>5. OpenTrades' = OpenTrades \cup {Len(trades) + 1}
    <3>1. new.open = TRUE BY DEF new
    <3> QED BY <1>d, <2>3, <3>1 DEF OpenTrades
  <2>6. FuturesPaperTypeOK'
    <3>1. size' \in [PaperSides -> BOOLEAN] BY <1>t, <2>1 DEF FuturesPaperTypeOK
    <3>2. blind' \in BOOLEAN BY <1>t, <2>1 DEF FuturesPaperTypeOK
    <3>3. unsaved' \subseteq DOMAIN trades'
      BY <1>t, <1>d, <2>1, <2>3 DEF FuturesPaperTypeOK
    <3> QED
      BY <1>t, <1>d, <2>1, <2>3, <2>4, <2>5, <3>1, <3>2, <3>3
      DEF FuturesPaperTypeOK, TradeRows
  <2>7. ~blind' => ~blind /\ OpenTrades = {} BY <2>1, Zenon
  <2>8. WatchInv'
    <3>1. ~blind' => OpenTrades' = {Len(trades) + 1} BY <2>5, <2>7
    <3>2. Newest' \in OpenTrades' BY <2>3, <2>5 DEF Newest
    <3>3. ~unwritten' => (results \cap OpenTrades)' = {}
      <4>1. Len(trades) + 1 \notin results BY <1>t, <1>d DEF FuturesPaperTypeOK
      <4> QED BY <1>t, <2>1, <2>5, <4>1 DEF WatchInv
    <3> QED BY <3>1, <3>2, <3>3 DEF WatchInv
  <2>9. WatchedWithOwnStops'
    BY <2>1, <2>5, <2>7 DEF WatchedWithOwnStops
  <2>10. OutcomeLearnedOnce'
    <3>1. Len(trades) + 1 \notin results BY <1>t, <1>d DEF FuturesPaperTypeOK
    <3>2. new.open = TRUE BY DEF new
    <3> QED BY <1>t, <1>d, <2>1, <2>3, <2>4, <3>1, <3>2 DEF OutcomeLearnedOnce
  <2> QED BY <2>6, <2>8, <2>9, <2>10 DEF FuturesPaperInv
<1>2. ASSUME UNCHANGED <<trades, size, stops, learned, blind, unwritten, unsaved>>,
             runnerAt' \in {"idle", "ticking", "learning"},
             price' \in PaperPrices \cup {NoPrice},
             queue' \subseteq OpenTrades, results' \subseteq results,
             results' = results \/ results' = {}
      PROVE  FuturesPaperInv'
  <2>1. OpenTrades' = OpenTrades BY <1>2 DEF OpenTrades
  <2>2. FuturesPaperTypeOK' BY <1>2, <1>t, <2>1 DEF FuturesPaperTypeOK
  <2>3. WatchInv' BY <1>2, <1>t, <2>1 DEF WatchInv
  <2>4. WatchedWithOwnStops' BY <1>2, <1>t, <2>1 DEF WatchedWithOwnStops
  <2>5. OutcomeLearnedOnce'
    <3> SUFFICES ASSUME ~unwritten, NEW t \in DOMAIN trades
                 PROVE  learned[t] <= (IF trades[t].open \/ t \in results' THEN 0 ELSE 1)
      BY <1>2 DEF OutcomeLearnedOnce
    <3>1. learned[t] <= (IF trades[t].open \/ t \in results THEN 0 ELSE 1)
      BY <1>t DEF OutcomeLearnedOnce
    <3>2. learned[t] \in Nat BY <1>d
    <3> QED BY <1>2, <3>1, <3>2
  <2> QED BY <2>2, <2>3, <2>4, <2>5 DEF FuturesPaperInv
<1>3. CASE SaveProtection
  <2>1. /\ runnerAt = "saving" /\ runnerAt' = "idle"
        /\ stops' = [stops EXCEPT ![trades[Newest].side] = trades[Newest].own]
        /\ unsaved' = unsaved \ {Newest}
        /\ UNCHANGED <<trades, size, price, queue, results, learned, blind, unwritten>>
    BY <1>3 DEF SaveProtection, StopsSaved
  <2>2. Newest \in OpenTrades /\ Newest \in DOMAIN trades BY <1>t, <1>d, <2>1 DEF WatchInv
  <2>3. trades[Newest] \in TradeRows BY <1>d, <2>2
  <2>4. trades[Newest].side \in PaperSides /\ trades[Newest].own \in [sl : Int, tp : Int]
    BY <2>3 DEF TradeRows
  <2>5. /\ stops' \in [PaperSides -> [sl : Int, tp : Int]]
        /\ stops'[trades[Newest].side] = trades[Newest].own
    BY <1>t, <2>1, <2>4 DEF FuturesPaperTypeOK
  <2>6. OpenTrades' = OpenTrades BY <2>1 DEF OpenTrades
  <2>7. FuturesPaperTypeOK' BY <1>t, <2>1, <2>5, <2>6 DEF FuturesPaperTypeOK
  <2>8. WatchInv' BY <1>t, <2>1, <2>6 DEF WatchInv
  <2>9. WatchedWithOwnStops'
    <3> SUFFICES ASSUME ~blind, NEW t \in OpenTrades
                 PROVE  stops'[trades[t].side] = trades[t].own
      BY <2>1, <2>6 DEF WatchedWithOwnStops
    <3>1. t = Newest BY <1>t, <2>2 DEF WatchInv
    <3> QED BY <2>5, <3>1
  <2>10. OutcomeLearnedOnce' BY <1>t, <2>1 DEF OutcomeLearnedOnce
  <2> QED BY <2>7, <2>8, <2>9, <2>10 DEF FuturesPaperInv
<1>4. CASE SaveProtectionFails
  BY <1>2, <1>4, <1>t DEF SaveProtectionFails, database, faults, FuturesPaperTypeOK
<1>5. ASSUME NEW p \in PaperPrices, Candle(p) PROVE FuturesPaperInv'
  BY <1>2, <1>5 DEF Candle, database, faults
<1>6. CASE Hold
  BY <1>2, <1>6, <1>t DEF Hold, database, faults, FuturesPaperTypeOK
<1>7. CASE Close
  <2>1. /\ runnerAt = "ticking" /\ queue # {}
        /\ trades' = [trades EXCEPT ![NextRow].open = FALSE]
        /\ size' = [size EXCEPT ![trades[NextRow].side] = FALSE]
        /\ queue' = queue \ {NextRow} /\ results' = results \cup {NextRow}
        /\ UNCHANGED <<stops, runnerAt, price, learned, blind, unwritten, unsaved>>
    BY <1>7 DEF Close, TradesAfterClose, PositionClosed, faults
  <2>2. NextRow \in OpenTrades /\ NextRow \in DOMAIN trades
    BY <1>t, <1>d, <2>1, NextRowIsQueued DEF FuturesPaperTypeOK
  <2>3. trades[NextRow] \in TradeRows /\ trades[NextRow].open
    BY <1>d, <2>2 DEF OpenTrades
  <2> DEFINE shut == [trades[NextRow] EXCEPT !.open = FALSE]
  <2>4. /\ shut \in TradeRows /\ shut.open = FALSE
        /\ shut.side = trades[NextRow].side /\ shut.own = trades[NextRow].own
    BY <2>3 DEF TradeRows
  <2>5. trades' = [trades EXCEPT ![NextRow] = shut] BY <2>1
  <2> HIDE DEF shut
  <2>6. /\ trades' \in Seq(TradeRows) /\ DOMAIN trades' = DOMAIN trades
        /\ Len(trades') = Len(trades)
        /\ trades'[NextRow] = shut
        /\ \A t \in DOMAIN trades : t # NextRow => trades'[t] = trades[t]
    BY <1>d, <2>2, <2>4, <2>5
  <2>7. OpenTrades' = OpenTrades \ {NextRow}
    BY <2>4, <2>6 DEF OpenTrades
  <2>8. FuturesPaperTypeOK'
    <3>1. size' \in [PaperSides -> BOOLEAN] BY <1>t, <2>1 DEF FuturesPaperTypeOK
    <3> QED
      BY <1>t, <1>d, <2>1, <2>2, <2>6, <2>7, <3>1 DEF FuturesPaperTypeOK, TradeRows
  <2>9. WatchInv' BY <1>t, <2>1, <2>7 DEF WatchInv
  <2>10. WatchedWithOwnStops'
    BY <1>t, <1>d, <2>1, <2>6, <2>7 DEF WatchedWithOwnStops
  <2>11. OutcomeLearnedOnce'
    <3> SUFFICES ASSUME ~unwritten, NEW t \in DOMAIN trades
                 PROVE  learned[t] <= (IF trades'[t].open \/ t \in results' THEN 0 ELSE 1)
      BY <2>1, <2>6 DEF OutcomeLearnedOnce
    <3>1. learned[t] <= (IF trades[t].open \/ t \in results THEN 0 ELSE 1)
      BY <1>t DEF OutcomeLearnedOnce
    <3>2. CASE t = NextRow BY <2>1, <2>3, <3>1, <3>2
    <3>3. CASE t # NextRow BY <2>1, <2>6, <3>1, <3>3
    <3> QED BY <3>2, <3>3
  <2> QED BY <2>8, <2>9, <2>10, <2>11 DEF FuturesPaperInv
<1>8. CASE CloseFails
  <2>1. /\ runnerAt = "ticking" /\ queue # {} /\ unwritten' = TRUE
        /\ queue' = queue \ {NextRow} /\ results' = results \cup {NextRow}
        /\ UNCHANGED <<trades, size, stops, runnerAt, price, learned, blind, unsaved>>
    BY <1>8 DEF CloseFails, database
  <2>2. NextRow \in DOMAIN trades
    BY <1>t, <1>d, <2>1, NextRowIsQueued DEF FuturesPaperTypeOK
  <2>3. OpenTrades' = OpenTrades BY <2>1 DEF OpenTrades
  <2>4. FuturesPaperTypeOK' BY <1>t, <2>1, <2>2, <2>3 DEF FuturesPaperTypeOK
  <2>5. WatchInv' BY <1>t, <2>1, <2>3 DEF WatchInv
  <2>6. WatchedWithOwnStops' BY <1>t, <2>1, <2>3 DEF WatchedWithOwnStops
  <2>7. OutcomeLearnedOnce' BY <2>1 DEF OutcomeLearnedOnce
  <2> QED BY <2>4, <2>5, <2>6, <2>7 DEF FuturesPaperInv
<1>9. CASE TickDone
  BY <1>2, <1>9, <1>t DEF TickDone, database, faults, FuturesPaperTypeOK
<1>10. ASSUME NEW r \in 1..MaxPaperTrades, Learn(r) PROVE FuturesPaperInv'
  <2>1. /\ r \in results /\ results' = results \ {r}
        /\ learned' = [learned EXCEPT ![r] = learned[r] + 1]
        /\ runnerAt' \in {"idle", "learning"}
        /\ UNCHANGED <<trades, size, stops, price, queue, blind, unwritten, unsaved>>
    BY <1>10 DEF Learn, database, faults
  <2>2. r \in DOMAIN trades /\ learned[r] \in Nat
    BY <1>t, <1>d, <2>1 DEF FuturesPaperTypeOK
  <2>3. /\ learned' \in Seq(Nat) /\ Len(learned') = Len(learned)
        /\ learned'[r] = learned[r] + 1
        /\ \A t \in DOMAIN trades : t # r => learned'[t] = learned[t]
    BY <1>d, <2>1, <2>2
  <2>4. OpenTrades' = OpenTrades BY <2>1 DEF OpenTrades
  <2>5. FuturesPaperTypeOK' BY <1>t, <2>1, <2>3, <2>4 DEF FuturesPaperTypeOK
  <2>6. WatchInv' BY <1>t, <2>1, <2>4 DEF WatchInv
  <2>7. WatchedWithOwnStops' BY <1>t, <2>1, <2>4 DEF WatchedWithOwnStops
  <2>8. OutcomeLearnedOnce'
    <3> SUFFICES ASSUME ~unwritten, NEW t \in DOMAIN trades
                 PROVE  learned'[t] <= (IF trades[t].open \/ t \in results' THEN 0 ELSE 1)
      BY <2>1 DEF OutcomeLearnedOnce
    <3>1. learned[t] <= (IF trades[t].open \/ t \in results THEN 0 ELSE 1)
      BY <1>t DEF OutcomeLearnedOnce
    <3>2. CASE t = r
      <4>1. ~trades[r].open BY <1>t, <2>1, <2>2 DEF WatchInv, OpenTrades
      <4>2. learned[r] <= 0 BY <2>1, <3>1, <3>2
      <4> QED BY <2>1, <2>2, <2>3, <3>2, <4>1, <4>2
    <3>3. CASE t # r BY <2>1, <2>3, <3>1, <3>3
    <3> QED BY <3>2, <3>3
  <2> QED BY <2>5, <2>6, <2>7, <2>8 DEF FuturesPaperInv
<1>11. CASE RunnerRestarts
  BY <1>2, <1>11 DEF RunnerRestarts, database, faults
<1>12. CASE UNCHANGED futuresPaperVars
  <2>1. /\ UNCHANGED <<trades, size, stops, runnerAt, price, queue, results, learned>>
        /\ UNCHANGED <<blind, unwritten, unsaved>>
    BY <1>12 DEF futuresPaperVars, database, faults
  <2>2. OpenTrades' = OpenTrades /\ Newest' = Newest BY <2>1 DEF OpenTrades, Newest
  <2>3. FuturesPaperTypeOK' BY <1>t, <2>1, <2>2 DEF FuturesPaperTypeOK
  <2>4. WatchInv' BY <1>t, <2>1, <2>2 DEF WatchInv
  <2>5. WatchedWithOwnStops' BY <1>t, <2>1, <2>2 DEF WatchedWithOwnStops
  <2>6. OutcomeLearnedOnce' BY <1>t, <2>1 DEF OutcomeLearnedOnce
  <2> QED BY <2>3, <2>4, <2>5, <2>6 DEF FuturesPaperInv
<1> QED
  BY <1>1, <1>3, <1>4, <1>5, <1>6, <1>7, <1>8, <1>9, <1>10, <1>11, <1>12
  DEF FuturesPaperNext

LEMMA FuturesPaperAlways == FuturesPaperSpec => []FuturesPaperInv
  BY InitFuturesPaper, NextFuturesPaper, PTL DEF FuturesPaperSpec

(* No open paper trade is closed by the stops of another one, whatever the *)
(* failures of the database and the deaths of the runner, for any prices.  *)
THEOREM TradesHaveOwnStops == FuturesPaperSpec => []WatchedWithOwnStops
<1>1. FuturesPaperInv => WatchedWithOwnStops BY DEF FuturesPaperInv
<1> QED BY <1>1, FuturesPaperAlways, PTL

(* The learner hears of a closed trade at most once and of an open one     *)
(* never, for any number of trades, unless a write of a trade failed.      *)
THEOREM OutcomesLearnedOnce == FuturesPaperSpec => []OutcomeLearnedOnce
<1>1. FuturesPaperInv => OutcomeLearnedOnce BY DEF FuturesPaperInv
<1> QED BY <1>1, FuturesPaperAlways, PTL

-----------------------------------------------------------------------------
(* SpotPaper.  What is loaded at a start and not yet sold is a holding.    *)
GuardInv ==
    /\ holdings \in [SpotSymbols -> {0} \cup SpotPrices]
    /\ holdingRows \in [SpotSymbols -> {0} \cup SpotPrices]
    /\ guards \in [SpotSymbols -> [sl : Int, tp : Int]]
    /\ restored \subseteq Held(holdings)
    /\ GuardedUnlessRestored

LEMMA InitGuards == SpotPaperInit => GuardInv
<1> SUFFICES ASSUME SpotPaperInit PROVE GuardInv
  OBVIOUS
<1>1. /\ holdings = [y \in SpotSymbols |-> 0] /\ holdingRows = [y \in SpotSymbols |-> 0]
      /\ guards = [y \in SpotSymbols |-> Unguarded] /\ restored = {}
  BY DEF SpotPaperInit
<1>2. Unguarded \in [sl : Int, tp : Int] BY DEF Unguarded
<1>3. Held(holdings) = {} BY <1>1 DEF Held
<1>4. GuardedUnlessRestored BY <1>1, <1>3 DEF GuardedUnlessRestored
<1> QED BY <1>1, <1>2, <1>4 DEF GuardInv

LEMMA NextGuards == GuardInv /\ [SpotPaperNext]_spotPaperVars => GuardInv'
<1> SUFFICES ASSUME GuardInv, [SpotPaperNext]_spotPaperVars PROVE GuardInv'
  OBVIOUS
<1> USE SpotPaperAssumption DEF GuardInv
<1>u. Unguarded \in [sl : Int, tp : Int] /\ 0 \notin SpotPrices /\ SpotPrices \subseteq Int
  BY DEF Unguarded, SpotPrices
<1>1. ASSUME NEW y \in SpotSymbols, NEW p \in SpotPrices, Buy(y, p) PROVE GuardInv'
  <2>1. /\ holdings[y] = 0
        /\ holdings' = [holdings EXCEPT ![y] = p]
        /\ guards' = [guards EXCEPT ![y] = StopsAround(p)]
        /\ holdingRows' = [holdingRows EXCEPT ![y] = p] \/ UNCHANGED holdingRows
        /\ restored' = restored
    BY <1>1 DEF Buy, GuardsAfterBuy
  <2>2. StopsAround(p) \in [sl : Int, tp : Int] BY <1>u DEF StopsAround
  <2>3. Held(holdings') = Held(holdings) \cup {y} /\ y \notin Held(holdings)
    BY <1>u, <2>1 DEF Held
  <2>4. GuardedUnlessRestored'
    BY <2>1, <2>2, <2>3 DEF GuardedUnlessRestored
  <2> QED BY <2>1, <2>2, <2>3, <2>4
<1>2. ASSUME NEW y \in SpotSymbols, NEW p \in SpotPrices, Sell(y, p) PROVE GuardInv'
  <2>1. /\ holdings' = [holdings EXCEPT ![y] = 0]
        /\ guards' = [guards EXCEPT ![y] = Unguarded]
        /\ holdingRows' = [holdingRows EXCEPT ![y] = 0] \/ UNCHANGED holdingRows
        /\ restored' = restored \ {y}
    BY <1>2 DEF Sell, GuardsAfterSale, RowsAfterSale
  <2>2. Held(holdings') = Held(holdings) \ {y} BY <2>1 DEF Held
  <2>3. GuardedUnlessRestored'
    BY <2>1, <2>2 DEF GuardedUnlessRestored
  <2> QED BY <1>u, <2>1, <2>2, <2>3
<1>3. CASE SpotRestart
  <2>1. /\ holdings' \in {holdingRows, NoHoldings}
        /\ guards' = [y \in SpotSymbols |-> Unguarded]
        /\ restored' = Held(holdings')
        /\ UNCHANGED holdingRows
    BY <1>3 DEF SpotRestart
  <2>2. NoHoldings \in [SpotSymbols -> {0} \cup SpotPrices] BY DEF NoHoldings
  <2>3. GuardedUnlessRestored' BY <2>1 DEF GuardedUnlessRestored
  <2> QED BY <1>u, <2>1, <2>2, <2>3
<1>4. CASE UNCHANGED spotPaperVars
  BY <1>4 DEF spotPaperVars, spotMemory, spotHistory, GuardedUnlessRestored, Held
<1> QED
  BY <1>1, <1>2, <1>3, <1>4 DEF SpotPaperNext, SellAtStop, SellAfterTimeout

(* Every holding bought since the start has its own stops and no symbol    *)
(* keeps stops it should not have, whatever is bought, sold, not written,  *)
(* and found again by a restart.                                           *)
THEOREM GuardsFollowHoldings == SpotPaperSpec => []GuardedUnlessRestored
<1>1. GuardInv => GuardedUnlessRestored BY DEF GuardInv
<1> QED BY <1>1, InitGuards, NextGuards, PTL DEF SpotPaperSpec

(* What CostOf computes is such a sum.                                     *)
LEMMA CostIsSum ==
    ASSUME NEW h, NEW S, IsFiniteSet(S)
    PROVE  \E it : Sums(it, [y \in S |-> Cost(h[y])], S) /\ CostOf(h, S) = it[S]
<1> DEFINE v == [y \in S |-> Cost(h[y])]
           Takes(it) == it = [s \in SUBSET S |->
                                 IF s = {} THEN 0
                                 ELSE Cost(h[FirstOf(s)]) + it[s \ {FirstOf(s)}]]
<1>1. CostOf(h, S) = (CHOOSE it : Takes(it))[S]
  BY DEF CostOf, MapThenSumSet, MapThenFoldSet, FirstOf
<1>2. \A s \in SUBSET S : s # {} => v[FirstOf(s)] = Cost(h[FirstOf(s)]) BY FirstIsIn
<1>3. ASSUME NEW it PROVE Takes(it) <=> Sums(it, v, S)
  <2> HIDE DEF v
  <2> QED BY <1>2 DEF Sums
<1>4. \E it : Takes(it)
  <2>1. \E it : Sums(it, v, S) BY SumsExist
  <2> HIDE DEF v, Takes
  <2> QED BY <1>3, <2>1
<1>5. Takes(CHOOSE it : Takes(it))
  <2> HIDE DEF Takes
  <2> QED BY <1>4
<1>6. Sums(CHOOSE it : Takes(it), v, S)
  <2> HIDE DEF v, Takes
  <2> QED BY <1>3, <1>5
<1> HIDE DEF v, Takes
<1> QED BY <1>1, <1>6 DEF v

LEMMA CostOfNothing == \A h : CostOf(h, {}) = 0
<1> TAKE h
<1>1. IsFiniteSet({}) BY FS_EmptySet
<1>2. PICK it : Sums(it, [y \in {} |-> Cost(h[y])], {}) /\ CostOf(h, {}) = it[{}]
  BY <1>1, CostIsSum
<1> QED BY <1>2, SumsAt

(* What is held costs so much more than the same without one of it.        *)
LEMMA CostWithout ==
    ASSUME NEW h, NEW S, IsFiniteSet(S), \A y \in S : h[y] \in Nat, NEW x \in S
    PROVE  /\ CostOf(h, S) \in Nat /\ CostOf(h, S \ {x}) \in Nat
           /\ CostOf(h, S) = CostOf(h, S \ {x}) + Cost(h[x])
<1> DEFINE v == [y \in S |-> Cost(h[y])]
           T == S \ {x}
           w == [y \in T |-> Cost(h[y])]
<1>1. \A y \in S : Cost(h[y]) \in Nat BY DEF Cost, Gross, Fee
<1>2. IsFiniteSet(T) BY FS_Subset
<1>3. PICK f : Sums(f, v, S) /\ CostOf(h, S) = f[S] BY CostIsSum
<1>4. PICK g : Sums(g, w, T) /\ CostOf(h, T) = g[T] BY <1>2, CostIsSum
<1>5. /\ \A y \in S : v[y] = Cost(h[y]) /\ v[y] \in Nat /\ v[y] \in Int
      /\ \A y \in T : w[y] = v[y] /\ w[y] \in Nat
  BY <1>1
<1> HIDE DEF v, w, T
<1>6. f[S] \in Nat /\ g[T] \in Nat BY <1>2, <1>3, <1>4, <1>5, SumNotNegative
<1>7. f[S] = f[T] + v[x] BY <1>3, <1>5, SumWithout DEF T
<1>8. f[T] = g[T]
  <2>1. T \subseteq S BY DEF T
  <2>2. PICK e : Sums(e, v, T) BY <1>2, SumsExist
  <2>3. f[T] = e[T] BY <1>3, <2>1, <2>2, SumsAgree
  <2>4. e[T] = g[T] BY <1>2, <1>4, <1>5, <2>2, SumOfEqualValues
  <2> QED BY <2>3, <2>4
<1> QED BY <1>3, <1>4, <1>5, <1>6, <1>7, <1>8 DEF T

LEMMA CostIsNatural ==
    ASSUME NEW h, NEW S, IsFiniteSet(S), \A y \in S : h[y] \in Nat
    PROVE  CostOf(h, S) \in Nat
<1>1. CASE S = {} BY <1>1, CostOfNothing
<1>2. CASE S # {}
  <2> PICK x \in S : TRUE BY <1>2
  <2> QED BY CostWithout
<1> QED BY <1>1, <1>2

LEMMA CostUnchanged ==
    ASSUME NEW h, NEW k, NEW S, IsFiniteSet(S), \A y \in S : h[y] = k[y]
    PROVE  CostOf(h, S) = CostOf(k, S)
<1> DEFINE v == [y \in S |-> Cost(h[y])]
           w == [y \in S |-> Cost(k[y])]
<1>1. PICK f : Sums(f, v, S) /\ CostOf(h, S) = f[S] BY CostIsSum
<1>2. PICK g : Sums(g, w, S) /\ CostOf(k, S) = g[S] BY CostIsSum
<1>3. v = w OBVIOUS
<1> HIDE DEF v, w
<1> QED BY <1>1, <1>2, <1>3, SumsAgree

(* The books of a life of the runner.                                      *)
BalanceInv ==
    /\ GuardInv
    /\ SpotPaperTypeOK
    /\ BooksBalance

LEMMA NextBalance == BalanceInv /\ [SpotPaperNext]_spotPaperVars => BalanceInv'
<1> SUFFICES ASSUME BalanceInv, [SpotPaperNext]_spotPaperVars PROVE BalanceInv'
  OBVIOUS
<1>0. GuardInv' BY NextGuards DEF BalanceInv
<1>1. /\ balance \in Int /\ profit \in Int /\ gifts \in Nat /\ unstored \subseteq SpotSymbols
      /\ sales \in 0..MaxSales /\ restarts \in 0..MaxSpotRestarts
      /\ holdings \in [SpotSymbols -> Nat] /\ holdingRows \in [SpotSymbols -> Nat]
      /\ SpotPrices \subseteq Nat \ {0} /\ Gross(InitialBalance) \in Int
      /\ MaxSales \in Nat /\ MaxSpotRestarts \in Nat
      /\ balance + CostOf(holdings, Held(holdings)) = Gross(InitialBalance) + profit + gifts
      /\ \A y \in SpotSymbols \ unstored : holdingRows[y] = holdings[y]
  BY SpotPaperAssumption
  DEF BalanceInv, SpotPaperTypeOK, SpotPrices, BooksBalance, Gross
<1>2. \A h : IsFiniteSet(Held(h)) BY SpotPaperAssumption, FS_Subset DEF Held
<1>3. CostOf(holdings, Held(holdings)) \in Nat BY <1>1, <1>2, CostIsNatural DEF Held
<1>4. ASSUME NEW y \in SpotSymbols, NEW p \in SpotPrices, Buy(y, p) PROVE BalanceInv'
  <2>1. /\ holdings[y] = 0
        /\ holdings' = [holdings EXCEPT ![y] = p]
        /\ balance' = balance - Cost(p)
        /\ \/ holdingRows' = [holdingRows EXCEPT ![y] = p] /\ unstored' = unstored \ {y}
           \/ UNCHANGED holdingRows /\ unstored' = unstored \cup {y}
        /\ UNCHANGED <<profit, restored, gifts, sales, restarts>>
    BY <1>4 DEF Buy, Paid
  <2>2. /\ p \in Nat /\ p # 0 /\ holdings' \in [SpotSymbols -> Nat] /\ holdings'[y] = p
        /\ Held(holdings') = Held(holdings) \cup {y} /\ y \notin Held(holdings)
        /\ \A x \in Held(holdings) : holdings'[x] = holdings[x]
    BY <1>1, <2>1 DEF Held
  <2>3. CostOf(holdings', Held(holdings')) = CostOf(holdings', Held(holdings)) + Cost(p)
    <3>1. y \in Held(holdings') /\ Held(holdings') \ {y} = Held(holdings) BY <2>2
    <3>2. \A x \in Held(holdings') : holdings'[x] \in Nat BY <2>2 DEF Held
    <3> QED BY <1>2, <2>2, <3>1, <3>2, CostWithout
  <2>4. CostOf(holdings', Held(holdings)) = CostOf(holdings, Held(holdings))
    BY <1>2, <2>2, CostUnchanged
  <2>5. Cost(p) \in Nat BY <2>2 DEF Cost, Gross, Fee
  <2>6. \A x \in SpotSymbols \ unstored' : holdingRows'[x] = holdings'[x] BY <1>1, <2>1
  <2>7. BooksBalance'
    <3>1. balance' + CostOf(holdings', Held(holdings'))
              = Gross(InitialBalance) + profit' + gifts'
      BY <1>1, <1>3, <2>1, <2>3, <2>4, <2>5
    <3> QED BY <2>6, <3>1 DEF BooksBalance
  <2>8. balance' \in Int /\ unstored' \subseteq SpotSymbols BY <1>1, <2>1, <2>5
  <2>9. SpotPaperTypeOK' BY <1>0, <1>1, <2>1, <2>8 DEF SpotPaperTypeOK, GuardInv
  <2> QED BY <1>0, <2>7, <2>9 DEF BalanceInv
<1>5. ASSUME NEW y \in SpotSymbols, NEW p \in SpotPrices, Sell(y, p) PROVE BalanceInv'
  <2>1. /\ holdings[y] # 0 /\ sales < MaxSales /\ sales' = sales + 1
        /\ holdings' = [holdings EXCEPT ![y] = 0]
        /\ balance' = balance + Gross(p) - Fee(p)
        /\ profit' = profit + (Gross(p) - Fee(p) - Cost(holdings[y]))
        /\ \/ holdingRows' = [holdingRows EXCEPT ![y] = 0] /\ unstored' = unstored \ {y}
           \/ UNCHANGED holdingRows /\ unstored' = unstored \cup {y}
        /\ UNCHANGED <<gifts, restarts>>
    BY <1>5 DEF Sell, Net, RowsAfterSale
  <2>2. /\ holdings' \in [SpotSymbols -> Nat] /\ holdings[y] \in Nat /\ p \in Nat
        /\ Held(holdings') = Held(holdings) \ {y} /\ y \in Held(holdings)
        /\ \A x \in Held(holdings') : holdings'[x] = holdings[x]
    BY <1>1, <2>1 DEF Held
  <2>3. /\ CostOf(holdings, Held(holdings))
               = CostOf(holdings, Held(holdings')) + Cost(holdings[y])
        /\ CostOf(holdings, Held(holdings')) \in Nat
    <3>1. \A x \in Held(holdings) : holdings[x] \in Nat BY <1>1 DEF Held
    <3> QED BY <1>2, <2>2, <3>1, CostWithout
  <2>4. CostOf(holdings', Held(holdings')) = CostOf(holdings, Held(holdings'))
    BY <1>2, <2>2, CostUnchanged
  <2>5. Cost(holdings[y]) \in Int /\ Gross(p) \in Int /\ Fee(p) \in Int
    BY <2>2 DEF Cost, Gross, Fee
  <2>6. \A x \in SpotSymbols \ unstored' : holdingRows'[x] = holdings'[x] BY <1>1, <2>1
  <2>7. BooksBalance'
    <3>1. balance' + CostOf(holdings', Held(holdings'))
              = Gross(InitialBalance) + profit' + gifts'
      BY <1>1, <1>3, <2>1, <2>3, <2>4, <2>5
    <3> QED BY <2>6, <3>1 DEF BooksBalance
  <2>8. /\ balance' \in Int /\ profit' \in Int /\ sales' \in 0..MaxSales
        /\ unstored' \subseteq SpotSymbols
    BY <1>1, <2>1, <2>5
  <2>9. SpotPaperTypeOK' BY <1>0, <1>1, <2>1, <2>8 DEF SpotPaperTypeOK, GuardInv
  <2> QED BY <1>0, <2>7, <2>9 DEF BalanceInv
<1>6. CASE SpotRestart
  <2>1. /\ restarts < MaxSpotRestarts /\ restarts' = restarts + 1
        /\ holdings' \in {holdingRows, NoHoldings}
        /\ balance' = Gross(InitialBalance) /\ profit' = 0 /\ sales' = 0
        /\ gifts' = CostOf(holdings', Held(holdings'))
        /\ unstored' = IF holdings' = holdingRows THEN {} ELSE Held(holdingRows)
        /\ UNCHANGED holdingRows
    BY <1>6 DEF SpotRestart
  <2>2. holdings' \in [SpotSymbols -> Nat] BY <1>1, <2>1 DEF NoHoldings
  <2>3. gifts' \in Nat BY <1>2, <2>1, <2>2, CostIsNatural DEF Held
  <2>4. /\ unstored' \subseteq SpotSymbols
        /\ \A x \in SpotSymbols \ unstored' : holdingRows'[x] = holdings'[x]
    BY <2>1 DEF Held, NoHoldings
  <2>5. BooksBalance' BY <1>1, <2>1, <2>3, <2>4 DEF BooksBalance
  <2>6. restarts' \in 0..MaxSpotRestarts /\ sales' \in 0..MaxSales BY <1>1, <2>1
  <2>7. SpotPaperTypeOK'
    BY <1>0, <1>1, <2>1, <2>3, <2>4, <2>6 DEF SpotPaperTypeOK, GuardInv
  <2> QED BY <1>0, <2>5, <2>7 DEF BalanceInv
<1>7. CASE UNCHANGED spotPaperVars
  BY <1>0, <1>1, <1>7
  DEF spotPaperVars, spotMemory, spotHistory, BalanceInv, BooksBalance, SpotPaperTypeOK, Held
<1> QED
  BY <1>4, <1>5, <1>6, <1>7 DEF SpotPaperNext, SellAtStop, SellAfterTimeout

LEMMA InitBalance == SpotPaperInit => BalanceInv
<1> SUFFICES ASSUME SpotPaperInit PROVE BalanceInv
  OBVIOUS
<1>1. /\ holdings = [y \in SpotSymbols |-> 0] /\ holdingRows = [y \in SpotSymbols |-> 0]
      /\ guards = [y \in SpotSymbols |-> Unguarded] /\ balance = Gross(InitialBalance)
      /\ profit = 0 /\ restored = {} /\ gifts = 0 /\ unstored = {}
      /\ sales = 0 /\ restarts = 0
  BY DEF SpotPaperInit
<1>2. GuardInv BY InitGuards
<1>3. Held(holdings) = {} BY <1>1 DEF Held
<1>4. balance \in Int BY <1>1, SpotPaperAssumption DEF Gross
<1>5. BooksBalance
  <2>1. CostOf(holdings, Held(holdings)) = 0 BY <1>3, CostOfNothing
  <2> QED BY <1>1, <1>4, <2>1 DEF BooksBalance
<1>6. SpotPaperTypeOK
  BY <1>1, <1>2, <1>4, SpotPaperAssumption DEF SpotPaperTypeOK, GuardInv
<1> QED BY <1>2, <1>5, <1>6 DEF BalanceInv

LEMMA BalanceAlways == SpotPaperSpec => []BalanceInv
  BY InitBalance, NextBalance, PTL DEF SpotPaperSpec

(* What is free and what the holdings cost is the initial balance and the  *)
(* profit of this life, and the table has what memory has but for failed   *)
(* writes, for any symbols and prices and any sequence of purchases, sales,*)
(* failed writes and restarts.                                             *)
THEOREM BooksAlwaysBalance == SpotPaperSpec => []BooksBalance
<1>1. BalanceInv => BooksBalance BY DEF BalanceInv
<1> QED BY <1>1, BalanceAlways, PTL

-----------------------------------------------------------------------------
(* ExecutionWindow.  An interval of ids in order is the interval.          *)
LEMMA InOrderOfInterval ==
    ASSUME NEW a \in Nat \ {0}, NEW b \in Nat, a <= b + 1
    PROVE  /\ InOrder(a..b) \in Seq(a..b)
           /\ Len(InOrder(a..b)) = b - a + 1
           /\ \A k \in 1..b - a + 1 : InOrder(a..b)[k] = a + k - 1
<1>1. Cardinality(a..b) = b - a + 1
  <2>1. Cardinality(a..b) = IF a > b THEN 0 ELSE b - a + 1 BY FS_Interval
  <2> QED BY <2>1
<1>2. ASSUME NEW i \in a..b
      PROVE  Cardinality({j \in a..b : j <= i}) = i - a + 1
  <2>1. {j \in a..b : j <= i} = a..i OBVIOUS
  <2>2. Cardinality(a..i) = i - a + 1 BY FS_Interval
  <2> QED BY <2>1, <2>2
<1>3. ASSUME NEW k \in 1..b - a + 1
      PROVE  (CHOOSE i \in a..b : Cardinality({j \in a..b : j <= i}) = k) = a + k - 1
  <2>1. a + k - 1 \in a..b OBVIOUS
  <2>2. Cardinality({j \in a..b : j <= a + k - 1}) = k
    <3> DEFINE i == a + k - 1
    <3>1. i \in a..b /\ i - a + 1 = k BY <2>1
    <3> HIDE DEF i
    <3>2. Cardinality({j \in a..b : j <= i}) = k BY <1>2, <3>1
    <3> QED BY <3>2 DEF i
  <2>3. \A i \in a..b : Cardinality({j \in a..b : j <= i}) = k => i = a + k - 1
    BY <1>2
  <2> QED BY <2>1, <2>2, <2>3
<1>4. InOrder(a..b) = [k \in 1..b - a + 1 |-> a + k - 1]
  BY <1>1, <1>3 DEF InOrder
<1> QED BY <1>4

Accounted(i) == applied[i] > 0 \/ i \in slid \/ i \in failed

(* What a refresh has still to go through is the end of what was polled;   *)
(* everything before it is accounted for, and an id is seen for a reason.  *)
BatchInv ==
    /\ \A k \in 1..Len(batch) : batch[k] = polled - Len(batch) + k
    /\ at # "next" => batch # <<>>
    /\ at = "write" => batch[1] \in stored /\ applied[batch[1]] > 0
    /\ \A i \in 1..polled : i <= polled - Len(batch) => Accounted(i)

SeenInv ==
    /\ \A i \in seen : Accounted(i) \/ (at = "store" /\ i = batch[1])
    /\ ~cleared => /\ \A i \in Ids : applied[i] <= 1 /\ (applied[i] > 0 => i \in seen)
                   /\ at = "store" => applied[batch[1]] = 0 /\ batch[1] \in seen

LedgerInv ==
    /\ written \subseteq stored /\ stored \subseteq 1..Len(fills)
    /\ OutcomeCatchesUp

WindowInv == ExecutionWindowTypeOK /\ BatchInv /\ SeenInv /\ LedgerInv

LEMMA TotalIsBounded ==
    ASSUME NEW s, NEW side, NEW ids, ids \subseteq Ids
    PROVE  Total(s, side, ids) \in 0..MaxFills
<1>1. MaxFills \in Nat BY ExecutionWindowAssumption
<1> DEFINE T == {i \in ids : i <= Len(fills) /\ fills[i] = [side |-> side, signal |-> s]}
<1>2. T \in SUBSET (1..MaxFills) BY DEF Ids
<1> HIDE DEF T
<1>3. IsFiniteSet(1..MaxFills) /\ Cardinality(1..MaxFills) = MaxFills
  BY <1>1, FS_Interval
<1>4. Cardinality(T) \in Nat /\ Cardinality(T) <= MaxFills
  BY <1>2, <1>3, FS_Subset, FS_CardinalityType
<1> QED BY <1>1, <1>4 DEF Total, T

(* The totals of a signal are those of its own executions.                 *)
LEMMA TotalOfOwn ==
    ASSUME NEW s, NEW side, NEW ids
    PROVE  Total(s, side, {i \in ids : fills[i].signal = s}) = Total(s, side, ids)
<1> DEFINE own == {i \in ids : fills[i].signal = s}
           F(S) == {i \in S : i <= Len(fills) /\ fills[i] = [side |-> side, signal |-> s]}
<1>1. F(own) = F(ids) OBVIOUS
<1>2. Cardinality(F(own)) = Cardinality(F(ids)) BY <1>1
<1> QED BY <1>2 DEF Total

FillRows == [side : {"buy", "sell"}, signal : Signals]

(* The types the steps below rely on, and what they say of a batch.        *)
LEMMA WindowTypes ==
    ASSUME WindowInv
    PROVE  /\ fills \in Seq(FillRows) /\ Len(fills) \in 0..MaxFills
           /\ DOMAIN fills = 1..Len(fills)
           /\ MaxFills \in Nat /\ Shown \in Nat \ {0} /\ ShownAtStart \in Nat \ {0}
           /\ batch \in Seq(Ids) /\ Len(batch) \in Nat /\ DOMAIN batch = 1..Len(batch)
           /\ rows \in Seq(Ids) /\ Len(rows) \in Nat /\ DOMAIN rows = 1..Len(rows)
           /\ stored \subseteq Ids
           /\ applied \in [Ids -> Nat]
           /\ aged \in 0..Len(fills) /\ polled \in 0..Len(fills) /\ polled \in Int
           /\ batch # <<>> => /\ Len(batch) > 0 /\ Head(batch) = batch[1]
                              /\ batch[1] \in Ids
                              /\ batch[1] = polled - Len(batch) + 1
                              /\ batch[1] \in 1..polled
<1>1. /\ fills \in Seq(FillRows) /\ Len(fills) <= MaxFills
      /\ batch \in Seq(Ids) /\ rows \in Seq(Ids)
      /\ applied \in [Ids -> Nat]
      /\ aged \in 0..Len(fills) /\ polled \in 0..Len(fills)
  BY DEF WindowInv, ExecutionWindowTypeOK, FillRows
<1>2. MaxFills \in Nat /\ Shown \in Nat \ {0} /\ ShownAtStart \in Nat \ {0}
  BY ExecutionWindowAssumption
<1>3. stored \subseteq Ids BY <1>1 DEF stored
<1>4. ASSUME batch # <<>>
      PROVE  /\ Len(batch) > 0 /\ Head(batch) = batch[1] /\ batch[1] \in Ids
             /\ batch[1] = polled - Len(batch) + 1
             /\ batch[1] \in 1..polled
  <2>1. Len(batch) > 0 /\ Len(batch) \in Nat /\ Head(batch) = batch[1] /\ batch[1] \in Ids
    BY <1>1, <1>4
  <2>2. batch[1] = polled - Len(batch) + 1
    BY <2>1 DEF WindowInv, BatchInv
  <2> QED BY <1>1, <2>1, <2>2 DEF Ids
<1> QED BY <1>1, <1>2, <1>3, <1>4

(* The interval a list of the newest n executions covers.                  *)
LEMMA NewestIdsAre ==
    ASSUME WindowInv, NEW n \in Nat \ {0}
    PROVE  /\ NewestIds(n) \subseteq Ids
           /\ \A i \in 1..Len(fills) : i \in NewestIds(n) <=> i > Len(fills) - n
           /\ NewestIds(n) \subseteq 1..Len(fills)
<1>1. Len(fills) \in 0..MaxFills /\ MaxFills \in Nat BY WindowTypes
<1>2. NewestIds(n) \subseteq 1..Len(fills) BY <1>1 DEF NewestIds
<1>3. \A i \in 1..Len(fills) : i \in NewestIds(n) <=> i > Len(fills) - n
  BY <1>1 DEF NewestIds
<1> QED BY <1>1, <1>2, <1>3 DEF Ids

LEMMA InitWindow == ExecutionWindowInit => WindowInv
<1> SUFFICES ASSUME ExecutionWindowInit PROVE WindowInv
  OBVIOUS
<1>a. MaxFills \in Nat /\ MaxStarts \in Nat BY ExecutionWindowAssumption
<1>1. /\ fills = <<>> /\ aged = 0 /\ seen = {} /\ rows = <<>> /\ written = {}
      /\ slid = {} /\ failed = {} /\ applied = [i \in Ids |-> 0]
      /\ batch = <<>> /\ at = "next"
      /\ outcome = [s \in Signals |-> [bought |-> 0, sold |-> 0]]
      /\ polled = 0 /\ cleared = FALSE /\ starts = 0
  BY DEF ExecutionWindowInit
<1>2. stored = {} BY <1>1 DEF stored
<1>3. ExecutionWindowTypeOK
  <2>1. [bought |-> 0, sold |-> 0] \in [bought : 0..MaxFills, sold : 0..MaxFills]
    BY <1>a
  <2>2. outcome \in [Signals -> [bought : 0..MaxFills, sold : 0..MaxFills]]
    BY <1>1, <2>1
  <2>3. applied \in [Ids -> Nat] BY <1>1
  <2>4. cleared \in BOOLEAN BY <1>1
  <2>5. /\ fills \in Seq([side : {"buy", "sell"}, signal : Signals]) /\ Len(fills) <= MaxFills
        /\ rows \in Seq(Ids) /\ batch \in Seq(Ids)
    BY <1>a, <1>1
  <2> QED
    BY <1>a, <1>1, <2>2, <2>3, <2>4, <2>5 DEF ExecutionWindowTypeOK
<1>4. BatchInv BY <1>1 DEF BatchInv
<1>5. SeenInv BY <1>1 DEF SeenInv
<1>6. LedgerInv BY <1>1, <1>2 DEF LedgerInv, OutcomeCatchesUp
<1> QED BY <1>3, <1>4, <1>5, <1>6 DEF WindowInv

(* A step that leaves the stored rows and the records alone.               *)
LEMMA LedgerStays ==
    ASSUME LedgerInv, UNCHANGED <<fills, rows, written, outcome>> PROVE LedgerInv'
<1>1. stored' = stored BY DEF stored
<1>2. \A s, side, ids : Total(s, side, ids)' = Total(s, side, ids) BY DEF Total
<1> QED BY <1>1, <1>2 DEF LedgerInv, OutcomeCatchesUp

LEMMA ExecuteStep ==
    ASSUME WindowInv, NEW s \in Signals, NEW side \in {"buy", "sell"}, Execute(s, side)
    PROVE  WindowInv'
<1> DEFINE new == [side |-> side, signal |-> s]
<1>t. ExecutionWindowTypeOK /\ BatchInv /\ SeenInv /\ LedgerInv BY DEF WindowInv
<1>1. /\ Len(fills) < MaxFills /\ fills' = Append(fills, new)
      /\ UNCHANGED <<aged, seen, applied, batch, at, rows, written, outcome,
                     polled, cleared, slid, failed, starts>>
  BY DEF Execute, tables, history
<1>2. new \in FillRows BY DEF FillRows
<1> HIDE DEF new
<1>3. /\ fills' \in Seq(FillRows) /\ Len(fills') = Len(fills) + 1
      /\ \A i \in 1..Len(fills) : fills'[i] = fills[i]
  BY <1>1, <1>2, WindowTypes
<1>4. ExecutionWindowTypeOK'
  <2>1. Len(fills') <= MaxFills /\ aged \in 0..Len(fills') /\ polled \in 0..Len(fills')
    BY <1>1, <1>3, WindowTypes
  <2>2. stored' = stored BY <1>1 DEF stored
  <2> QED BY <1>t, <1>1, <1>3, <2>1 DEF ExecutionWindowTypeOK, FillRows
<1>5. stored' = stored BY <1>1 DEF stored
<1>6. BatchInv' BY <1>t, <1>1, <1>5 DEF BatchInv, Accounted
<1>7. SeenInv' BY <1>t, <1>1 DEF SeenInv, Accounted
<1>8. LedgerInv'
  <2>1. stored \subseteq 1..Len(fills) /\ Len(fills) \in Nat BY <1>t, WindowTypes DEF LedgerInv
  <2>2. ASSUME NEW g, NEW d, NEW ids, ids \subseteq 1..Len(fills)
        PROVE  Total(g, d, ids)' = Total(g, d, ids)
    <3>1. {i \in ids : i <= Len(fills') /\ fills'[i] = [side |-> d, signal |-> g]}
            = {i \in ids : i <= Len(fills) /\ fills[i] = [side |-> d, signal |-> g]}
      <4>1. \A i \in ids : i <= Len(fills) /\ i <= Len(fills') /\ fills'[i] = fills[i]
        BY <1>3, <2>1, <2>2
      <4> QED BY <4>1, Zenon
    <3> QED BY <3>1 DEF Total
  <2>3. \A g \in Signals : {i \in stored : fills'[i].signal = g}
                             = {i \in stored : fills[i].signal = g}
    BY <1>3, <2>1
  <2>4. \A g \in Signals : {i \in stored : fills[i].signal = g} \subseteq 1..Len(fills)
    BY <2>1
  <2>5. OutcomeCatchesUp'
    <3> SUFFICES ASSUME NEW g \in Signals,
                        NEW ids, ids = {i \in stored : fills[i].signal = g},
                        \E k \in DOMAIN rows : /\ rows[k] \in ids \cap written
                               /\ \A n \in DOMAIN rows : n > k => rows[n] \notin ids,
                        Total(g, "buy", ids)' > 0, Total(g, "sell", ids)' > 0
                 PROVE  outcome[g] = [bought |-> Total(g, "buy", ids)',
                                      sold |-> Total(g, "sell", ids)']
      BY <1>1, <1>5, <2>3 DEF OutcomeCatchesUp
    <3>1. /\ Total(g, "buy", ids)' = Total(g, "buy", ids)
          /\ Total(g, "sell", ids)' = Total(g, "sell", ids)
      BY <2>2, <2>4
    <3> QED BY <1>t, <3>1 DEF LedgerInv, OutcomeCatchesUp
  <2>6. stored' \subseteq 1..Len(fills') BY <1>3, <1>5, <2>1
  <2> QED BY <1>t, <1>1, <1>5, <2>5, <2>6 DEF LedgerInv
<1> QED BY <1>4, <1>6, <1>7, <1>8 DEF WindowInv

LEMMA RefreshStep == ASSUME WindowInv, Refresh PROVE WindowInv'
<1> DEFINE lo == IF Len(fills) > Shown THEN Len(fills) - Shown + 1 ELSE 1
           hi == Len(fills)
<1>t. ExecutionWindowTypeOK /\ BatchInv /\ SeenInv /\ LedgerInv BY DEF WindowInv
<1>1. /\ batch = <<>> /\ batch' = InOrder(NewestIds(Shown)) /\ polled' = Len(fills)
      /\ slid' = slid \cup {i \in 1..Len(fills) - Shown : i > polled}
      /\ UNCHANGED <<fills, aged, seen, applied, at, rows, written, outcome,
                     cleared, failed, starts>>
  BY DEF Refresh, exchangeVars, tables
<1>2. /\ lo \in Nat \ {0} /\ hi \in Nat /\ lo <= hi + 1 /\ NewestIds(Shown) = lo..hi
      /\ hi <= MaxFills /\ MaxFills \in Nat
  BY WindowTypes DEF NewestIds
<1>3. \A i \in 1..hi : i < lo => i \in 1..hi - Shown
  BY WindowTypes
<1>p. polled \in Nat BY WindowTypes
<1> HIDE DEF lo, hi
<1>4. /\ batch' \in Seq(lo..hi) /\ Len(batch') = hi - lo + 1
      /\ \A k \in 1..hi - lo + 1 : batch'[k] = lo + k - 1
  BY <1>1, <1>2, InOrderOfInterval
<1>5. batch' \in Seq(Ids)
  <2>1. lo..hi \subseteq Ids BY <1>2 DEF Ids
  <2>2. \A k \in 1..Len(batch') : batch'[k] \in Ids
    <3>1. \A k \in 1..hi - lo + 1 : lo + k - 1 \in lo..hi BY <1>2
    <3> QED BY <1>4, <2>1, <3>1
  <2>3. Len(batch') \in Nat /\ batch' = [k \in 1..Len(batch') |-> batch'[k]] BY <1>4
  <2> QED BY <2>2, <2>3
<1>6. slid' \subseteq Ids
  <2>1. {i \in 1..Len(fills) - Shown : i > polled} \subseteq Ids
    BY WindowTypes DEF Ids
  <2> QED BY <1>t, <1>1, <2>1 DEF ExecutionWindowTypeOK
<1>7. ExecutionWindowTypeOK'
  <2>1. stored' = stored /\ polled' \in 0..Len(fills) BY <1>1, WindowTypes DEF stored
  <2> QED BY <1>t, <1>1, <1>5, <1>6, <2>1 DEF ExecutionWindowTypeOK
<1>8. BatchInv'
  <2>1. polled' = hi BY <1>1 DEF hi
  <2>2. \A k \in 1..Len(batch') : batch'[k] = polled' - Len(batch') + k
    BY <1>2, <1>4, <2>1
  <2>3. at = "next" BY <1>t, <1>1 DEF BatchInv, ExecutionWindowTypeOK
  <2>4. ASSUME NEW i \in 1..polled', i <= polled' - Len(batch') PROVE Accounted(i)'
    <3>1. i \in 1..hi /\ i < lo BY <1>2, <1>4, <2>1, <2>4
    <3>2. CASE i > polled
      <4>1. i \in 1..Len(fills) - Shown BY <1>3, <3>1 DEF hi
      <4> QED BY <1>1, <3>2, <4>1 DEF Accounted
    <3>3. CASE ~(i > polled)
      <4>1. i \in 1..polled /\ i <= polled - Len(batch)
        BY <1>1, <1>p, <3>1, <3>3
      <4>2. Accounted(i) BY <1>t, <4>1 DEF BatchInv
      <4> QED BY <1>1, <4>2 DEF Accounted
    <3> QED BY <3>2, <3>3
  <2> QED BY <1>1, <2>2, <2>3, <2>4 DEF BatchInv
<1>9. SeenInv'
  <2>1. at = "next" BY <1>t, <1>1 DEF BatchInv, ExecutionWindowTypeOK
  <2> QED BY <1>t, <1>1, <2>1 DEF SeenInv, Accounted
<1> QED BY <1>1, <1>t, <1>7, <1>8, <1>9, LedgerStays DEF WindowInv

(* The rest of a batch of which the first is accounted for.                *)
LEMMA BatchGoesOn ==
    ASSUME WindowInv, batch # <<>>, batch' = Tail(batch), polled' = polled,
           NEW h, h = batch[1], Accounted(h)', \A i \in Ids : Accounted(i) => Accounted(i)'
    PROVE  /\ batch' \in Seq(Ids)
           /\ \A k \in 1..Len(batch') : batch'[k] = polled' - Len(batch') + k
           /\ \A i \in 1..polled' : i <= polled' - Len(batch') => Accounted(i)'
<1>1. /\ batch \in Seq(Ids) /\ Len(batch) \in Nat /\ Len(batch) > 0
      /\ polled \in Int /\ batch[1] = polled - Len(batch) + 1
  BY WindowTypes
<1>2. /\ batch' \in Seq(Ids) /\ Len(batch') = Len(batch) - 1
      /\ \A k \in 1..Len(batch') : batch'[k] = batch[k + 1]
  BY <1>1
<1>b. BatchInv BY DEF WindowInv
<1>3. ASSUME NEW k \in 1..Len(batch') PROVE batch'[k] = polled' - Len(batch') + k
  <2>1. k + 1 \in 1..Len(batch) BY <1>1, <1>2
  <2>2. batch[k + 1] = polled - Len(batch) + (k + 1) BY <1>b, <2>1 DEF BatchInv
  <2> QED BY <1>1, <1>2, <2>1, <2>2
<1>4. ASSUME NEW i \in 1..polled', i <= polled' - Len(batch') PROVE Accounted(i)'
  <2>1. i \in Ids BY WindowTypes DEF Ids
  <2>2. CASE i <= polled - Len(batch)
    BY <1>b, <2>1, <2>2 DEF BatchInv
  <2>3. CASE ~(i <= polled - Len(batch))
    <3>1. i = h BY <1>1, <1>2, <1>4, <2>3
    <3> QED BY <3>1
  <2> QED BY <2>2, <2>3
<1> QED BY <1>2, <1>3, <1>4

LEMMA TakeStep == ASSUME WindowInv, Take PROVE WindowInv'
<1>t. ExecutionWindowTypeOK /\ BatchInv /\ SeenInv /\ LedgerInv BY DEF WindowInv
<1>1. /\ batch # <<>> /\ at = "next"
      /\ UNCHANGED <<fills, aged, applied, rows, written, outcome, polled, slid, failed, starts>>
  BY DEF Take, exchangeVars, tables
<1>w. Head(batch) = batch[1] /\ batch[1] \in Ids BY <1>1, WindowTypes
<1>s. stored' = stored BY <1>1 DEF stored
<1>2. CASE batch[1] \in seen
  <2>1. batch' = Tail(batch) /\ UNCHANGED <<seen, at, cleared>>
    BY <1>w, <1>2 DEF Take
  <2> PICK h \in Ids : h = batch[1] BY <1>w
  <2>2. Accounted(h) BY <1>t, <1>1, <1>2 DEF SeenInv
  <2>3. \A i : Accounted(i)' <=> Accounted(i) BY <1>1 DEF Accounted
  <2>4. Accounted(h)' BY <1>1, <2>2 DEF Accounted
  <2>5. /\ batch' \in Seq(Ids)
        /\ \A k \in 1..Len(batch') : batch'[k] = polled' - Len(batch') + k
        /\ \A i \in 1..polled' : i <= polled' - Len(batch') => Accounted(i)'
    BY <1>1, <2>1, <2>3, <2>4, BatchGoesOn
  <2>6. ExecutionWindowTypeOK'
    BY <1>t, <1>1, <1>s, <2>1, <2>5 DEF ExecutionWindowTypeOK
  <2>7. BatchInv' BY <1>1, <2>1, <2>5 DEF BatchInv
  <2>8. SeenInv' BY <1>t, <1>1, <2>1 DEF SeenInv, Accounted
  <2> QED BY <1>t, <1>1, <2>6, <2>7, <2>8, LedgerStays DEF WindowInv
<1>3. CASE batch[1] \notin seen
  <2>1. /\ seen' = SeenAfter(batch[1]) /\ cleared' = (cleared \/ seen' = {})
        /\ at' = "store" /\ UNCHANGED batch
    BY <1>w, <1>3 DEF Take
  <2>2. cleared' \in BOOLEAN BY <2>1
  <2>3. seen' = {} \/ seen' = seen \cup {batch[1]} BY <2>1 DEF SeenAfter
  <2>4. ExecutionWindowTypeOK'
    BY <1>t, <1>1, <1>w, <1>s, <2>1, <2>2, <2>3 DEF ExecutionWindowTypeOK
  <2>5. BatchInv' BY <1>t, <1>1, <2>1 DEF BatchInv, Accounted
  <2>6. ~cleared' => ~cleared /\ seen' = seen \cup {batch[1]}
    BY <2>1, <2>3, Zenon
  <2>7. SeenInv'
    <3>1. \A i \in seen' : Accounted(i)' \/ (at' = "store" /\ i = batch'[1])
      BY <1>t, <1>1, <2>1, <2>3 DEF SeenInv, Accounted
    <3>2. ~cleared' => \A i \in Ids : applied'[i] <= 1 /\ (applied'[i] > 0 => i \in seen')
      BY <1>t, <1>1, <2>6 DEF SeenInv
    <3>3. ~cleared' => applied'[batch'[1]] = 0 /\ batch'[1] \in seen'
      <4>1. applied[batch[1]] \in Nat BY <1>w, WindowTypes
      <4>2. ~cleared => ~(applied[batch[1]] > 0) BY <1>t, <1>w, <1>3 DEF SeenInv
      <4> QED BY <1>1, <2>1, <2>6, <4>1, <4>2
    <3> QED BY <3>1, <3>2, <3>3 DEF SeenInv
  <2> QED BY <1>t, <1>1, <2>4, <2>5, <2>7, LedgerStays DEF WindowInv
<1> QED BY <1>2, <1>3

LEMMA StoreFailsStep == ASSUME WindowInv, StoreFails PROVE WindowInv'
<1>t. ExecutionWindowTypeOK /\ BatchInv /\ SeenInv /\ LedgerInv BY DEF WindowInv
<1>1. /\ at = "store" /\ at' = "next" /\ batch' = <<>>
      /\ failed' = failed \cup {Head(batch)} /\ polled' = Head(batch)
      /\ UNCHANGED <<fills, aged, seen, applied, rows, written, outcome, cleared, slid, starts>>
  BY DEF StoreFails, exchangeVars, tables
<1>w. /\ Head(batch) = batch[1] /\ batch[1] \in Ids /\ batch[1] \in 1..polled
      /\ batch[1] = polled - Len(batch) + 1 /\ Len(batch) \in Nat
      /\ polled \in 0..Len(fills) /\ Len(fills) \in Nat
  BY <1>1, <1>t, WindowTypes DEF BatchInv
<1>2. ExecutionWindowTypeOK'
  <2>1. polled' \in 0..Len(fills) BY <1>1, <1>w
  <2>2. failed' \subseteq Ids
    <3>1. failed \subseteq Ids BY <1>t DEF ExecutionWindowTypeOK
    <3> QED BY <1>1, <1>w, <3>1
  <2>3. batch' \in Seq(Ids) BY <1>1
  <2> QED BY <1>t, <1>1, <2>1, <2>2, <2>3 DEF ExecutionWindowTypeOK
<1>3. BatchInv'
  <2>1. ASSUME NEW i \in 1..polled' PROVE Accounted(i)'
    <3>1. CASE i = batch[1] BY <1>1, <1>w, <3>1 DEF Accounted
    <3>2. CASE i # batch[1]
      <4>1. i \in 1..polled /\ i <= polled - Len(batch) BY <1>1, <1>w, <3>2
      <4>2. Accounted(i) BY <1>t, <4>1 DEF BatchInv
      <4> QED BY <1>1, <4>2 DEF Accounted
    <3> QED BY <3>1, <3>2
  <2>2. Len(batch') = 0 BY <1>1
  <2> QED BY <1>1, <2>1, <2>2 DEF BatchInv
<1>4. SeenInv' BY <1>t, <1>1, <1>w DEF SeenInv, Accounted
<1> QED BY <1>t, <1>1, <1>2, <1>3, <1>4, LedgerStays DEF WindowInv

LEMMA WriteFailsStep == ASSUME WindowInv, WriteFails PROVE WindowInv'
<1>t. ExecutionWindowTypeOK /\ BatchInv /\ SeenInv /\ LedgerInv BY DEF WindowInv
<1>1. /\ at = "write" /\ at' = "next" /\ batch' = <<>> /\ polled' = Head(batch)
      /\ UNCHANGED <<fills, aged, seen, applied, rows, written, outcome, cleared, slid,
                     failed, starts>>
  BY DEF WriteFails, exchangeVars, tables
<1>w. /\ Head(batch) = batch[1] /\ batch[1] \in Ids /\ batch[1] \in 1..polled
      /\ batch[1] = polled - Len(batch) + 1 /\ Len(batch) \in Nat
      /\ polled \in 0..Len(fills) /\ Len(fills) \in Nat
  BY <1>1, <1>t, WindowTypes DEF BatchInv
<1>2. ExecutionWindowTypeOK'
  <2>1. stored' = stored /\ polled' \in 0..Len(fills)
    BY <1>1, <1>w DEF stored
  <2>2. batch' \in Seq(Ids) BY <1>1
  <2> QED BY <1>t, <1>1, <2>1, <2>2 DEF ExecutionWindowTypeOK
<1>3. BatchInv'
  <2>1. ASSUME NEW i \in 1..polled' PROVE Accounted(i)'
    <3>1. CASE i = batch[1] BY <1>t, <1>1, <3>1 DEF Accounted, BatchInv
    <3>2. CASE i # batch[1]
      <4>1. i \in 1..polled /\ i <= polled - Len(batch) BY <1>1, <1>w, <3>2
      <4>2. Accounted(i) BY <1>t, <4>1 DEF BatchInv
      <4> QED BY <1>1, <4>2 DEF Accounted
    <3> QED BY <3>1, <3>2
  <2>2. Len(batch') = 0 BY <1>1
  <2> QED BY <1>1, <2>1, <2>2 DEF BatchInv
<1>4. SeenInv' BY <1>t, <1>1 DEF SeenInv, Accounted
<1> QED BY <1>t, <1>1, <1>2, <1>3, <1>4, LedgerStays DEF WindowInv

(* A row is appended: the records of its own signal are due from then on,  *)
(* and those of the other signals are as they were.                        *)
LEMMA RowAppended ==
    ASSUME WindowInv, NEW h \in Ids, h \notin stored, h <= Len(fills),
           rows' = Append(rows, h), UNCHANGED <<fills, written, outcome>>
    PROVE  LedgerInv' /\ stored' = stored \cup {h} /\ rows' \in Seq(Ids)
<1>l. LedgerInv BY DEF WindowInv
<1>1. /\ rows \in Seq(Ids) /\ Len(rows) \in Nat /\ DOMAIN rows = 1..Len(rows)
      /\ Len(fills) \in Nat
  BY WindowTypes
<1>2. /\ rows' \in Seq(Ids) /\ Len(rows') = Len(rows) + 1 /\ DOMAIN rows' = 1..Len(rows) + 1
      /\ \A k \in 1..Len(rows) : rows'[k] = rows[k]
      /\ rows'[Len(rows) + 1] = h
  BY <1>1
<1>3. stored' = stored \cup {h} BY <1>1, <1>2 DEF stored
<1>4. written' \subseteq stored' /\ stored' \subseteq 1..Len(fills)' /\ h \notin written
  BY <1>l, <1>1, <1>3 DEF LedgerInv, Ids
<1>5. OutcomeCatchesUp'
  <2> SUFFICES ASSUME NEW g \in Signals,
                      NEW ids, ids = {i \in stored' : fills[i].signal = g},
                      NEW k \in DOMAIN rows',
                      rows'[k] \in ids \cap written,
                      \A n \in DOMAIN rows' : n > k => rows'[n] \notin ids,
                      Total(g, "buy", ids) > 0, Total(g, "sell", ids) > 0
               PROVE  outcome[g] = [bought |-> Total(g, "buy", ids),
                                    sold |-> Total(g, "sell", ids)]
    <3>1. \A s, side, ids : Total(s, side, ids)' = Total(s, side, ids) BY DEF Total
    <3> QED BY <3>1 DEF OutcomeCatchesUp
  <2>1. k # Len(rows) + 1 BY <1>2, <1>4
  <2>2. k \in 1..Len(rows) BY <1>1, <1>2, <2>1
  <2>3. h \notin ids
    <3>1. Len(rows) + 1 \in DOMAIN rows' /\ Len(rows) + 1 > k BY <1>1, <1>2, <2>2
    <3> QED BY <1>2, <3>1
  <2>4. ids = {i \in stored : fills[i].signal = g} BY <1>3, <2>3
  <2>5. rows[k] \in ids \cap written BY <1>2, <2>2
  <2>6. ASSUME NEW n \in DOMAIN rows, n > k PROVE rows[n] \notin ids
    BY <1>1, <1>2, <2>6
  <2>7. k \in DOMAIN rows BY <1>1, <2>2
  <2> QED BY <1>l, <2>4, <2>5, <2>6, <2>7 DEF LedgerInv, OutcomeCatchesUp
<1> QED BY <1>2, <1>3, <1>4, <1>5 DEF LedgerInv

LEMMA StoreStep == ASSUME WindowInv, Store PROVE WindowInv'
<1>t. ExecutionWindowTypeOK /\ BatchInv /\ SeenInv /\ LedgerInv BY DEF WindowInv
<1>1. /\ at = "store" /\ at' = "write"
      /\ rows' = IF Head(batch) \in stored THEN rows ELSE Append(rows, Head(batch))
      /\ applied' = [applied EXCEPT ![Head(batch)] = applied[Head(batch)] + 1]
      /\ UNCHANGED <<fills, aged, seen, batch, written, outcome, polled, cleared, slid,
                     failed, starts>>
  BY DEF Store, exchangeVars, history
<1>b. batch # <<>> BY <1>1, <1>t DEF BatchInv
<1> PICK h \in Ids : h = batch[1] BY <1>b, WindowTypes
<1>w. /\ Head(batch) = h /\ h <= Len(fills) /\ applied[h] \in Nat
      /\ applied \in [Ids -> Nat]
  BY <1>b, WindowTypes
<1>2. /\ applied' \in [Ids -> Nat] /\ applied'[h] = applied[h] + 1
      /\ \A i \in Ids : i # h => applied'[i] = applied[i]
  BY <1>1, <1>w
<1>3. LedgerInv' /\ stored' = stored \cup {h} /\ rows' \in Seq(Ids)
  <2>1. CASE h \in stored
    <3>1. UNCHANGED <<fills, rows, written, outcome>> BY <1>1, <1>w, <2>1
    <3>2. stored' = stored BY <3>1 DEF stored
    <3> QED BY <1>t, <2>1, <3>1, <3>2, LedgerStays, WindowTypes
  <2>2. CASE h \notin stored
    BY <1>1, <1>w, <2>2, RowAppended
  <2> QED BY <2>1, <2>2
<1>4. \A i \in Ids : Accounted(i) => Accounted(i)'
  BY <1>1, <1>2, <1>w DEF Accounted
<1>5. Accounted(h)' BY <1>2, <1>w DEF Accounted
<1>6. ExecutionWindowTypeOK'
  BY <1>t, <1>1, <1>2, <1>3 DEF ExecutionWindowTypeOK
<1>7. BatchInv'
  <2>1. \A i \in 1..polled : i \in Ids BY WindowTypes DEF Ids
  <2>2. batch'[1] \in stored' /\ applied'[batch'[1]] > 0 BY <1>1, <1>2, <1>3, <1>w
  <2> QED BY <1>t, <1>1, <1>4, <2>1, <2>2 DEF BatchInv
<1>8. SeenInv'
  <2>1. \A i \in seen : Accounted(i)'
    <3>1. seen \subseteq Ids BY <1>t DEF ExecutionWindowTypeOK
    <3> QED BY <1>t, <1>4, <1>5, <3>1 DEF SeenInv
  <2>2. ASSUME ~cleared, NEW i \in Ids
        PROVE  applied'[i] <= 1 /\ (applied'[i] > 0 => i \in seen)
    <3>1. CASE i # h BY <1>t, <1>2, <2>2, <3>1 DEF SeenInv
    <3>2. CASE i = h
      <4>1. applied[h] = 0 /\ h \in seen BY <1>t, <1>1, <2>2 DEF SeenInv
      <4> QED BY <1>2, <3>2, <4>1
    <3> QED BY <3>1, <3>2
  <2> QED BY <1>1, <2>1, <2>2 DEF SeenInv
<1> QED BY <1>3, <1>6, <1>7, <1>8 DEF WindowInv

LEMMA WriteStep == ASSUME WindowInv, Write PROVE WindowInv'
<1>t. ExecutionWindowTypeOK /\ BatchInv /\ SeenInv /\ LedgerInv BY DEF WindowInv
<1>b. batch # <<>> BY <1>t DEF Write, BatchInv
<1> PICK h \in Ids : h = batch[1] BY <1>b, WindowTypes
<1>w. /\ Head(batch) = h /\ h \in 1..Len(fills) /\ Len(fills) \in Nat
      /\ fills \in Seq(FillRows)
  BY <1>b, WindowTypes
<1>s. PICK s \in Signals : s = fills[h].signal
  <2>1. fills[h] \in FillRows BY <1>w
  <2> QED BY <2>1 DEF FillRows
<1>1. /\ at = "write" /\ at' = "next" /\ batch' = Tail(batch)
      /\ written' = written \cup {h}
      /\ outcome' = [outcome EXCEPT ![s] = SyncedOutcome(s, stored)]
      /\ UNCHANGED <<fills, aged, seen, applied, rows, polled, cleared, slid, failed, starts>>
  BY <1>w, <1>s DEF Write, exchangeVars, history
<1>2. h \in stored /\ Accounted(h)
  BY <1>t, <1>1 DEF BatchInv, Accounted
<1>3. stored' = stored BY <1>1 DEF stored
<1>4. \A i \in Ids : Accounted(i) => Accounted(i)' BY <1>1 DEF Accounted
<1>5. Accounted(h)' BY <1>2, <1>4
<1>6. /\ batch' \in Seq(Ids)
      /\ \A k \in 1..Len(batch') : batch'[k] = polled' - Len(batch') + k
      /\ \A i \in 1..polled' : i <= polled' - Len(batch') => Accounted(i)'
  BY <1>b, <1>1, <1>4, <1>5, BatchGoesOn
<1>7. SyncedOutcome(s, stored) \in [bought : 0..MaxFills, sold : 0..MaxFills]
  <2>1. stored \subseteq Ids BY WindowTypes
  <2>2. Total(s, "buy", stored) \in 0..MaxFills /\ Total(s, "sell", stored) \in 0..MaxFills
    BY <2>1, TotalIsBounded
  <2>3. outcome[s] \in [bought : 0..MaxFills, sold : 0..MaxFills]
    BY <1>t DEF ExecutionWindowTypeOK
  <2> QED BY <2>2, <2>3 DEF SyncedOutcome
<1>8. ExecutionWindowTypeOK'
  <2>1. outcome' \in [Signals -> [bought : 0..MaxFills, sold : 0..MaxFills]]
    BY <1>t, <1>1, <1>7 DEF ExecutionWindowTypeOK
  <2> QED BY <1>t, <1>1, <1>3, <1>6, <2>1 DEF ExecutionWindowTypeOK
<1>9. BatchInv' BY <1>1, <1>6 DEF BatchInv
<1>10. SeenInv' BY <1>t, <1>1 DEF SeenInv, Accounted
<1>11. OutcomeCatchesUp'
  <2> SUFFICES ASSUME NEW g \in Signals,
                      NEW ids, ids = {i \in stored : fills[i].signal = g},
                      \E k \in DOMAIN rows : /\ rows[k] \in ids \cap written'
                             /\ \A n \in DOMAIN rows : n > k => rows[n] \notin ids,
                      Total(g, "buy", ids) > 0, Total(g, "sell", ids) > 0
               PROVE  outcome'[g] = [bought |-> Total(g, "buy", ids),
                                     sold |-> Total(g, "sell", ids)]
    <3>1. \A d, side, ids : Total(d, side, ids)' = Total(d, side, ids)
      BY <1>1 DEF Total
    <3> QED BY <1>1, <1>3, <3>1 DEF OutcomeCatchesUp
  <2>1. CASE g = s
    <3>1. /\ Total(g, "buy", ids) = Total(g, "buy", stored)
          /\ Total(g, "sell", ids) = Total(g, "sell", stored)
      BY TotalOfOwn
    <3>2. outcome'[g] = SyncedOutcome(g, stored)
      BY <1>t, <1>1, <2>1 DEF ExecutionWindowTypeOK
    <3>3. Total(g, "buy", stored) > 0 /\ Total(g, "sell", stored) > 0 BY <3>1
    <3>4. Total(g, "buy", stored) # 0 /\ Total(g, "sell", stored) # 0 BY <3>3
    <3> QED BY <3>1, <3>2, <3>4 DEF SyncedOutcome
  <2>2. CASE g # s
    <3>1. h \notin ids BY <1>s, <2>2
    <3>2. outcome'[g] = outcome[g] BY <1>t, <1>1, <2>2 DEF ExecutionWindowTypeOK
    <3>3. \E k \in DOMAIN rows : /\ rows[k] \in ids \cap written
                 /\ \A n \in DOMAIN rows : n > k => rows[n] \notin ids
      BY <1>1, <3>1
    <3> QED BY <1>t, <3>2, <3>3 DEF LedgerInv, OutcomeCatchesUp
  <2> QED BY <2>1, <2>2
<1>12. LedgerInv' BY <1>t, <1>1, <1>2, <1>3, <1>11 DEF LedgerInv
<1> QED BY <1>8, <1>9, <1>10, <1>12 DEF WindowInv

LEMMA StartStep ==
    ASSUME WindowInv, NEW answered \in BOOLEAN, Start(answered) PROVE WindowInv'
<1> DEFINE replayed == ReplayedFromExchange(answered)
<1>t. ExecutionWindowTypeOK /\ BatchInv /\ SeenInv /\ LedgerInv BY DEF WindowInv
<1>1. /\ starts < MaxStarts /\ starts' = starts + 1
      /\ seen' = StoredToday \cup replayed
      /\ applied' = [i \in Ids |-> (IF i \in StoredToday THEN 1 ELSE 0)
                                   + (IF i \in replayed THEN 1 ELSE 0)]
      /\ batch' = <<>> /\ at' = "next"
      /\ polled' = IF answered THEN Len(fills) ELSE 0
      /\ slid' = IF answered
                 THEN {i \in 1..Len(fills) - ShownAtStart : i \notin stored \/ i <= aged}
                 ELSE {}
      /\ cleared' = FALSE /\ failed' = {}
      /\ UNCHANGED <<fills, aged, rows, written, outcome>>
  BY DEF Start, exchangeVars, tables
<1>2. /\ StoredToday \subseteq Ids /\ replayed \subseteq Ids
      /\ StoredToday \cap replayed = {}
  BY WindowTypes, NewestIdsAre DEF StoredToday, ReplayedFromExchange
<1>3. answered => \A i \in 1..Len(fills) :
                    \/ i \in StoredToday \/ i \in replayed
                    \/ i \in 1..Len(fills) - ShownAtStart /\ (i \notin stored \/ i <= aged)
  <2> SUFFICES ASSUME answered, NEW i \in 1..Len(fills), i \notin StoredToday, i \notin replayed
               PROVE  i \in 1..Len(fills) - ShownAtStart /\ (i \notin stored \/ i <= aged)
    OBVIOUS
  <2>1. i \notin NewestIds(ShownAtStart) BY DEF ReplayedFromExchange
  <2>2. /\ Len(fills) \in Nat /\ ShownAtStart \in Nat \ {0} /\ aged \in Nat
    BY WindowTypes
  <2>3. ~(i > Len(fills) - ShownAtStart) BY <2>1, <2>2, NewestIdsAre
  <2> QED BY <2>2, <2>3 DEF StoredToday
<1> HIDE DEF replayed
<1>4. /\ applied' \in [Ids -> Nat]
      /\ \A i \in Ids : applied'[i] = IF i \in seen' THEN 1 ELSE 0
  BY <1>1, <1>2
<1>5. slid' \subseteq Ids
  BY <1>1, WindowTypes DEF Ids
<1>6. ExecutionWindowTypeOK'
  <2>1. stored' = stored BY <1>1 DEF stored
  <2>2. polled' \in 0..Len(fills) BY <1>1, WindowTypes
  <2>3. cleared' \in BOOLEAN /\ failed' \subseteq Ids BY <1>1
  <2>4. starts' \in 0..MaxStarts
    BY <1>t, <1>1, ExecutionWindowAssumption DEF ExecutionWindowTypeOK
  <2>5. seen' \subseteq Ids BY <1>1, <1>2
  <2>6. batch' \in Seq(Ids) BY <1>1
  <2> QED
    BY <1>t, <1>1, <1>4, <1>5, <2>1, <2>2, <2>3, <2>4, <2>5, <2>6 DEF ExecutionWindowTypeOK
<1>7. BatchInv'
  <2>1. ASSUME NEW i \in 1..polled' PROVE Accounted(i)'
    <3>1. answered BY <1>1
    <3>2. i \in 1..Len(fills) /\ i \in Ids BY <1>1, <3>1, WindowTypes DEF Ids
    <3>3. i \in seen' \/ i \in slid' BY <1>1, <1>3, <3>1, <3>2
    <3> QED BY <1>4, <3>2, <3>3 DEF Accounted
  <2>2. Len(batch') = 0 BY <1>1
  <2> QED BY <1>1, <2>1, <2>2 DEF BatchInv
<1>8. SeenInv'
  <2>1. \A i \in seen' : Accounted(i)' BY <1>1, <1>2, <1>4 DEF Accounted
  <2> QED BY <1>1, <1>4, <2>1 DEF SeenInv
<1> QED BY <1>t, <1>1, <1>6, <1>7, <1>8, LedgerStays DEF WindowInv

LEMMA NextWindow == WindowInv /\ [ExecutionWindowNext]_windowVars => WindowInv'
<1> SUFFICES ASSUME WindowInv, [ExecutionWindowNext]_windowVars PROVE WindowInv'
  OBVIOUS
<1>1. ASSUME UNCHANGED <<fills, seen, applied, batch, at, rows, written, outcome, polled,
                         cleared, slid, failed, starts>>,
             aged' \in 0..Len(fills)
      PROVE  WindowInv'
  <2>1. stored' = stored BY <1>1 DEF stored
  <2>2. ExecutionWindowTypeOK' BY <1>1, <2>1 DEF WindowInv, ExecutionWindowTypeOK
  <2>3. BatchInv' /\ SeenInv' BY <1>1, <2>1 DEF WindowInv, BatchInv, SeenInv, Accounted
  <2> QED BY <1>1, <2>2, <2>3, LedgerStays DEF WindowInv
<1>2. CASE Age
  <2>1. aged' \in 0..Len(fills) BY <1>2, WindowTypes DEF Age
  <2> QED BY <1>1, <1>2, <2>1 DEF Age, tables, history
<1>3. CASE UNCHANGED windowVars
  BY <1>1, <1>3, WindowTypes DEF windowVars, exchangeVars, tables, history
<1> QED
  BY <1>2, <1>3, ExecuteStep, RefreshStep, TakeStep, StoreStep, StoreFailsStep, WriteStep,
     WriteFailsStep, StartStep
  DEF ExecutionWindowNext

LEMMA WindowAlways == ExecutionWindowSpec => []WindowInv
  BY InitWindow, NextWindow, PTL DEF ExecutionWindowSpec

(* Every execution the exchange shows is in the position, and in it once,  *)
(* for any sizes of the two windows and of the set of seen ids, and in     *)
(* whatever order fills, failed inserts, dropped ids and restarts come.    *)
THEOREM FillsCountExactlyOnce == ExecutionWindowSpec => []FillsCountOnce
<1>1. ASSUME WindowInv PROVE CountedOnce
  BY <1>1 DEF WindowInv, SeenInv, CountedOnce
<1>2. ASSUME WindowInv PROVE NothingUncounted
  <2> SUFFICES ASSUME batch = <<>>, NEW i \in 1..polled PROVE Accounted(i)
    BY DEF NothingUncounted, Accounted
  <2>1. i <= polled - Len(batch) BY <1>2, WindowTypes
  <2> QED BY <1>2, <2>1 DEF WindowInv, BatchInv
<1> QED BY <1>1, <1>2, WindowAlways, PTL DEF FillsCountOnce

(* A signal's outcome has all of its stored fills as soon as the records   *)
(* of the last of them are written, also after failed writes and restarts. *)
THEOREM OutcomesCatchUp == ExecutionWindowSpec => []OutcomeCatchesUp
<1>1. WindowInv => OutcomeCatchesUp BY DEF WindowInv, LedgerInv
<1> QED BY <1>1, WindowAlways, PTL
=============================================================================
