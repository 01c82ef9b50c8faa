--------------------------- MODULE SchemaBootstrap ---------------------------
(***************************************************************************)
(* One database file, data/botik.db, and the programs that bring it to     *)
(* their schema when they start: the runners through run_migrations, the   *)
(* trading loop through the ensure_*_schema functions of its stores.  DDL  *)
(* statements are transactions of their own, and a program may be killed   *)
(* between any two.  Of every migration and every store one or two tables  *)
(* are here, those on whose columns the two disagree or which a later       *)
(* migration alters where there are such.                                  *)
(***************************************************************************)
EXTENDS Integers, Sequences, FiniteSets, SequencesExt

CONSTANTS
    Runners,        \* processes that call bootstrap_db
    MaxBootstraps   \* bound: starts of programs

ASSUME SchemaAssumption == IsFiniteSet(Runners) /\ MaxBootstraps \in Nat

VARIABLES
    schema,     \* the columns of each table, Absent without the table
    marked,     \* _schema_migrations
    pending,    \* versions each running program has yet to apply, 0 for EnsureSchema
    line,       \* its next statement of the first of them
    starts,     \* starts so far
    \* history
    traded,     \* the trading loop was started
    swallowed,  \* migrations whose ALTER TABLE found the database locked
    raised      \* programs that a statement stopped with an error of the schema

schemaVars == <<schema, marked, pending, line, starts, traded, swallowed, raised>>

Trading == "main.py"
Programs == Runners \cup {Trading}
Absent == {"no such table"}
Versions == 1..15

Create(t, cols) == [op |-> "create", table |-> t, cols |-> cols]
Index(t, col)   == [op |-> "index", table |-> t, cols |-> {col}]
Drop(t, col)    == [op |-> "drop", table |-> t, cols |-> {col}]
AddCol(t, col)  == [op |-> "add", table |-> t, cols |-> {col}]

CoreTables == << Create("account_snapshots", {"snapshot_kind", "total_equity"}),
                 Index("account_snapshots", "snapshot_kind") >>
SpotTables == << Create("spot_fills", {"exec_price", "exec_time_ms"}),
                 Index("spot_fills", "exec_time_ms") >>
FuturesTables == << Create("futures_fills", {"exec_price", "exec_time_ms"}),
                    Index("futures_fills", "exec_time_ms"),
                    Create("futures_funding_events", {"funding_rate"}) >>
LifecycleTables == << Create("signals", {"signal_id", "model_scope"}),
                      Index("signals", "model_scope") >>
HistoryTable == << Create("price_history", {"open_time_ms", "created_at_utc"}) >>
AppLogs == << Create("app_logs", {"message"}) >>
BotSettings == << Create("bot_settings", {"value"}) >>
MlRuns == << Create("ml_training_runs", {"run_id"}) >>
TelegramLog == << Create("telegram_commands", {"command"}) >>
LabeledSamples == << Create("labeled_samples", {"label"}) >>
RegistryTable == << Create("symbol_registry", {"candle_count"}) >>
LabelingStatus == << Create("symbol_labeling_status", {"labeled_count"}) >>
OrderbookTable == << Create("orderbook_snapshots", {"ts_ms"}) >>
DropCreatedAt == << Drop("price_history", "created_at_utc") >>
AddClosedPnl == << AddCol("futures_fills", "closed_pnl") >>

MIGRATIONS ==
    << CoreTables, SpotTables, FuturesTables, LifecycleTables, HistoryTable, AppLogs,
       BotSettings, MlRuns, TelegramLog, LabeledSamples, RegistryTable,
       LabelingStatus, OrderbookTable, DropCreatedAt, AddClosedPnl >>

Mark == [op |-> "mark", table |-> "_schema_migrations", cols |-> {}]

\* Mutant: a migration is marked before its statements.
MarkFirst(v) == <<Mark>> \o MIGRATIONS[v]
ApplyThenMark(v) == Append(MIGRATIONS[v], Mark)

\* _ensure_schema of get_connection, then ensure_lifecycle_schema.
EnsureCore == << Create("account_snapshots", {"snapshot_kind"}),
                 Index("account_snapshots", "snapshot_kind") >>
EnsureSpot == << Create("spot_fills", {"price", "exec_time_ms"}),
                 Index("spot_fills", "exec_time_ms") >>
EnsureFutures == << Create("futures_fills", {"price", "exec_time_ms"}),
                    Index("futures_fills", "exec_time_ms"),
                    Create("futures_funding_events", {"funding_fee", "funding_time_ms"}),
                    Index("futures_funding_events", "funding_time_ms") >>
EnsureLifecycle == << Create("signals", {"signal_id"}) >>

EnsureSchema == EnsureCore \o EnsureSpot \o EnsureFutures \o EnsureLifecycle

Script(v) == IF v = 0 THEN EnsureSchema ELSE ApplyThenMark(v)

SchemaTables == {st.table : st \in UNION {Range(script) : script \in Range(MIGRATIONS)}}

SchemaInit ==
    /\ schema = [t \in SchemaTables |-> Absent]
    /\ marked = {} /\ starts = 0
    /\ pending = [p \in Programs |-> {}] /\ line = [p \in Programs |-> 1]
    /\ traded = FALSE /\ swallowed = {} /\ raised = {}

-----------------------------------------------------------------------------
\* get_connection runs EnsureSchema, bootstrap_db what is not applied yet.
Bootstrap(p) ==
    /\ pending[p] = {} /\ starts < MaxBootstraps
    /\ pending' = [pending EXCEPT ![p] = IF p = Trading THEN {0} ELSE Versions \ marked]
    /\ starts' = starts + 1
    /\ traded' = (traded \/ p = Trading)
    /\ raised' = raised \ {p}
    /\ UNCHANGED <<schema, marked, line, swallowed>>

\* The version p applies: run_migrations goes through them in order.
Applies(p, v) == v \in pending[p] /\ \A u \in pending[p] : v <= u

Stmt(p, v) == Script(v)[line[p]]
Exists(t) == schema[t] # Absent

\* A statement that is not accepted raises.
Accepts(s) == s.op = "index" => Exists(s.table) /\ s.cols \subseteq schema[s.table]

ColumnsAfter(s) ==
    CASE s.op = "create" -> IF Exists(s.table) THEN schema[s.table] ELSE s.cols
      [] s.op = "drop"   -> schema[s.table] \ s.cols
      [] s.op = "add"    -> IF Exists(s.table) THEN schema[s.table] \cup s.cols
                                               ELSE schema[s.table]
      [] OTHER           -> schema[s.table]

\* On to the next statement, of this version or of the next one.
GoOn(p, v) ==
    IF line[p] < Len(Script(v))
    THEN line' = [line EXCEPT ![p] = @ + 1] /\ UNCHANGED pending
    ELSE line' = [line EXCEPT ![p] = 1] /\ pending' = [pending EXCEPT ![p] = @ \ {v}]

Execute(p, v) ==
    /\ Applies(p, v) /\ Stmt(p, v).op # "mark" /\ Accepts(Stmt(p, v))
    /\ schema' = [schema EXCEPT ![Stmt(p, v).table] = ColumnsAfter(Stmt(p, v))]
    /\ GoOn(p, v)
    /\ UNCHANGED <<marked, starts, traded, swallowed, raised>>

\* _mark_applied and its commit: INSERT OR IGNORE.
MarkApplied(p, v) ==
    /\ Applies(p, v) /\ Stmt(p, v).op = "mark"
    /\ marked' = marked \cup {v}
    /\ GoOn(p, v)
    /\ UNCHANGED <<schema, starts, traded, swallowed, raised>>

(* Migrations 14 and 15 catch every exception of their ALTER TABLE, which   *)
(* is meant for "the column is there already" and hides a locked database. *)
SwallowLocked(p, v) ==
    /\ Applies(p, v) /\ Stmt(p, v).op \in {"drop", "add"}
    /\ swallowed' = swallowed \cup {v}
    /\ GoOn(p, v)
    /\ UNCHANGED <<schema, marked, starts, traded, raised>>

Stops(p) ==
    /\ pending' = [pending EXCEPT ![p] = {}]
    /\ line' = [line EXCEPT ![p] = 1]

\* Any other error leaves bootstrap_db, or get_connection, and the program.
Raise(p, v) ==
    /\ Applies(p, v) /\ ~Accepts(Stmt(p, v))
    /\ Stops(p)
    /\ raised' = raised \cup {p}
    /\ UNCHANGED <<schema, marked, starts, traded, swallowed>>

\* Killed, or stopped by a locked database.
BootstrapDies(p) ==
    /\ pending[p] # {}
    /\ Stops(p)
    /\ UNCHANGED <<schema, marked, starts, traded, swallowed, raised>>

SchemaNext ==
    \E p \in Programs :
        \/ Bootstrap(p) \/ BootstrapDies(p)
        \/ \E v \in {0} \cup Versions :
              \/ Execute(p, v) \/ MarkApplied(p, v)
              \/ SwallowLocked(p, v) \/ Raise(p, v)

SchemaSpec == SchemaInit /\ [][SchemaNext]_schemaVars

-----------------------------------------------------------------------------
SchemaTypeOK ==
    /\ \A t \in SchemaTables : schema[t] = Absent \/ Absent \cap schema[t] = {}
    /\ marked \subseteq Versions /\ swallowed \subseteq {14, 15}
    /\ starts \in 0..MaxBootstraps /\ traded \in BOOLEAN
    /\ raised \subseteq Programs
    /\ pending \in [Programs -> SUBSET ({0} \cup Versions)]
    /\ line \in [Programs -> Nat \ {0}]
    /\ \A p \in Programs :
          /\ pending[p] \subseteq IF p = Trading THEN {0} ELSE Versions
          /\ \A v \in pending[p] : Applies(p, v) => line[p] \in DOMAIN Script(v)

\* What a statement is to bring about.
Holds(st) ==
    CASE st.op = "create" -> Exists(st.table)
      [] st.op = "drop"   -> st.cols \cap schema[st.table] = {}
      [] OTHER            -> st.cols \subseteq schema[st.table]

Effect(v) == \A i \in DOMAIN MIGRATIONS[v] : Holds(MIGRATIONS[v][i])

(* Several runners migrate at once from sets of applied versions they read  *)
(* earlier, and die anywhere: a version that is marked has had its effect  *)
(* and keeps it, with every version before it, unless an ALTER TABLE that  *)
(* found the database locked was taken for one that had nothing to do.     *)
MarkedIsApplied ==
    \A v \in marked : /\ v \in swallowed \/ Effect(v)
                      /\ {u \in Versions : u < v} \subseteq marked

(* "Safe to call on every startup": runners among themselves never stop     *)
(* each other with the schema, wherever they were interrupted.  The trading *)
(* loop and the runners do: each creates tables that lack a column which an *)
(* index of the other needs, and whichever comes second cannot start.      *)
RunnersNeverRaise == ~traded => raised = {}

(* Both: runners that migrate at once leave a schema that is what its marks *)
(* say, and stop each other nowhere.                                       *)
RunnersMigrateSafely == MarkedIsApplied /\ RunnersNeverRaise
=============================================================================
