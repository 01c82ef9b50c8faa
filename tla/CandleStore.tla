----------------------------- MODULE CandleStore -----------------------------
(***************************************************************************)
(* The candles of one symbol: DataRunner and BackfillWorker, two processes *)
(* that fill price_history through an OHLCVWorker each, and the candle     *)
(* count BackfillWorker keeps in symbol_registry.  Time is counted in      *)
(* candles: the exchange has one for every moment up to the clock.         *)
(***************************************************************************)
EXTENDS Integers, FiniteSets, FiniteSetsExt

CONSTANTS
    PageSize,     \* KLINE_LIMIT
    DaysBack,     \* days_back, in candles
    Recent,       \* candles a refresh asks for
    FirstNow,     \* bound: the clock at the start
    LastNow       \* bound: the clock at the end

ASSUME CandleStoreAssumption ==
    /\ PageSize \in Nat \ {0} /\ DaysBack \in Nat \ {0} /\ Recent \in Nat \ {0}
    /\ FirstNow \in Nat /\ LastNow \in Nat /\ FirstNow <= LastNow
    /\ DaysBack <= FirstNow /\ Recent <= FirstNow + 1 \* no candle before time 0

VARIABLES
    clock,
    stored,      \* price_history: the times of the candles in it
    counted,     \* symbol_registry.candle_count
    phase,       \* of each process
    cursor,      \* current_start of its backfill
    nowAtStart,  \* now_ms of its backfill
    total,       \* the count BackfillWorker read and has not written yet
    \* history
    clean        \* nothing failed in its current or last backfill

candleVars == <<clock, stored, counted, phase, cursor, nowAtStart, total, clean>>

Fillers == {"runner", "backfill"}
Times == 0..LastNow
StartOf(f) == nowAtStart[f] - DaysBack

CandleStoreInit ==
    /\ clock = FirstNow /\ stored = {} /\ counted = 0
    /\ phase = [f \in Fillers |-> "off"]
    /\ cursor = [f \in Fillers |-> 0]
    /\ nowAtStart = [f \in Fillers |-> DaysBack]
    /\ total = 0
    /\ clean = [f \in Fillers |-> FALSE]

-----------------------------------------------------------------------------
CandleOpens ==
    /\ clock < LastNow
    /\ clock' = clock + 1
    /\ UNCHANGED <<stored, counted, phase, cursor, nowAtStart, total, clean>>

BeginPaging(f) ==
    /\ phase' = [phase EXCEPT ![f] = "paging"]
    /\ nowAtStart' = [nowAtStart EXCEPT ![f] = clock]
    /\ cursor' = [cursor EXCEPT ![f] = clock - DaysBack]
    /\ clean' = [clean EXCEPT ![f] = TRUE]
    /\ UNCHANGED <<clock, stored, counted, total>>

\* get_candle_count says that 80 % of the history is there: 0 when it fails.
Enough == 10 * Cardinality(stored) >= 8 * DaysBack

(* _phase_backfill: the runner skips the backfill when it has enough.  A    *)
(* history that lacks the candles of a pause, or the end of a backfill      *)
(* that was broken off, is enough too.                                     *)
RunnerBackfills == phase["runner"] = "off" /\ BeginPaging("runner")
RunnerSkipsBackfill ==
    /\ phase["runner"] = "off" /\ Enough
    /\ phase' = [phase EXCEPT !["runner"] = "refresh"]
    /\ UNCHANGED <<clock, stored, counted, cursor, nowAtStart, total, clean>>

\* run_all or run_symbol comes to this symbol.
BackfillStarts == phase["backfill"] = "off" /\ BeginPaging("backfill")

PageOf(f) == {t \in cursor[f]..clock : t < cursor[f] + PageSize}

\* Mutant: the next page begins one candle too late.
NextStartSkips(f) == Max(PageOf(f)) + 2
NextStart(f) == Max(PageOf(f)) + 1

AfterPaging(f) == IF f = "runner" THEN "refresh" ELSE "counting"

LastPage(f) == Cardinality(PageOf(f)) < PageSize \/ NextStart(f) >= nowAtStart[f]

(* One turn of the loop of OHLCVWorker.backfill: INSERT OR IGNORE of the    *)
(* page, or a failed write, which skips it.                                *)
PageArrives(f) ==
    /\ phase[f] = "paging" /\ PageOf(f) # {}
    /\ \/ stored' = stored \cup PageOf(f) /\ UNCHANGED clean
       \/ clean' = [clean EXCEPT ![f] = FALSE] /\ UNCHANGED stored
    /\ cursor' = [cursor EXCEPT ![f] = NextStart(f)]
    /\ phase' = [phase EXCEPT ![f] = IF LastPage(f) THEN AfterPaging(f) ELSE @]
    /\ UNCHANGED <<clock, counted, nowAtStart, total>>

\* _fetch_kline returns nothing on any error, which reads as the end.
PageFails(f) ==
    /\ phase[f] = "paging"
    /\ clean' = [clean EXCEPT ![f] = FALSE]
    /\ phase' = [phase EXCEPT ![f] = AfterPaging(f)]
    /\ UNCHANGED <<clock, stored, counted, cursor, nowAtStart, total>>

\* Mutant: a refresh asks for one candle too many at the end.
RecentAndNext == (clock - Recent + 1)..(clock + 1)
RecentCandles == (clock - Recent + 1)..clock

(* _phase_refresh: fetch_recent, which stores what is new; a fetch or a     *)
(* write that fails is a turn not taken.  A turn that comes after a pause   *)
(* longer than Recent leaves a gap, which nothing fills.                   *)
Refresh ==
    /\ phase["runner"] = "refresh"
    /\ stored' = stored \cup RecentCandles
    /\ UNCHANGED <<clock, counted, phase, cursor, nowAtStart, total, clean>>

\* BackfillWorker._backfill_one: the table is counted, the row is written later.
Count ==
    /\ phase["backfill"] = "counting"
    /\ total' \in {Cardinality(stored), 0}
    /\ phase' = [phase EXCEPT !["backfill"] = "writing"]
    /\ UNCHANGED <<clock, stored, counted, cursor, nowAtStart, clean>>

CountWritten == total

UpdateCandleStats ==
    /\ phase["backfill"] = "writing"
    /\ counted' = CountWritten
    /\ phase' = [phase EXCEPT !["backfill"] = "off"]
    /\ UNCHANGED <<clock, stored, cursor, nowAtStart, total, clean>>

\* The process ends, or is killed; backfilling, it leaves the rest undone.
FillerStops(f) ==
    /\ phase[f] # "off"
    /\ phase' = [phase EXCEPT ![f] = "off"]
    /\ clean' = [clean EXCEPT ![f] = @ /\ phase[f] # "paging"]
    /\ UNCHANGED <<clock, stored, counted, cursor, nowAtStart, total>>

CandleStoreNext ==
    \/ CandleOpens \/ RunnerBackfills \/ RunnerSkipsBackfill \/ BackfillStarts
    \/ Refresh \/ Count \/ UpdateCandleStats
    \/ \E f \in Fillers : PageArrives(f) \/ PageFails(f) \/ FillerStops(f)

CandleStoreSpec == CandleStoreInit /\ [][CandleStoreNext]_candleVars

-----------------------------------------------------------------------------
CandleStoreTypeOK ==
    /\ clock \in FirstNow..LastNow
    /\ stored \subseteq Times
    /\ counted \in Nat /\ total \in Nat
    /\ phase \in [Fillers -> {"off", "paging", "refresh", "counting", "writing"}]
    /\ cursor \in [Fillers -> Nat]
    /\ nowAtStart \in [Fillers -> Nat]
    /\ clean \in [Fillers -> BOOLEAN]

(* A backfill in which nothing failed leaves no gap in the time it was      *)
(* asked for, whatever the other process stores and however far the clock  *)
(* moves meanwhile, and the registry never claims more candles than there  *)
(* are.                                                                    *)
CleanBackfillIsWhole ==
    /\ \A f \in Fillers :
           clean[f] /\ phase[f] # "paging" => StartOf(f)..(nowAtStart[f] - 1) \subseteq stored
    /\ counted <= Cardinality(stored)
=============================================================================
