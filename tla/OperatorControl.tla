--------------------------- MODULE OperatorControl ---------------------------
(***************************************************************************)
(* The operator at the Telegram bot and the trading runtime share the      *)
(* flags of TradingState without a lock.  The bot's handler threads set    *)
(* them, an /update runs in a thread of its own, and the runtime's loops   *)
(* look at them between their awaits.  Git and the exchange are external:  *)
(* a pull succeeds or does not, cancel-all is obeyed or is not.            *)
(***************************************************************************)
EXTENDS Naturals, FiniteSets

CONSTANTS
    Handlers,   \* the bot's handler threads
    Updaters    \* bound: threads that /update starts

VARIABLES
    paused, panic, updating, restart,   \* TradingState
    handling,   \* each handler thread: "idle", or "pausing" inside do_panic
    update,     \* each update thread, see Progress
    loop,       \* where the runtime's main task is
    working,    \* an order works on the exchange
    quiet,      \* history: a panic was served while the pause was on
    unsent      \* history: an update thread could not send its message

controlVars == <<paused, panic, updating, restart, handling, update, loop,
                 working, quiet, unsent>>

Progress == {"unborn", "born", "pulling", "pulled", "requested", "telling",
             "refused", "done"}
Awaits == {"starting", "sleeping", "cancelling", "asking", "ordering"}

ControlInit ==
    /\ paused \in BOOLEAN       \* config.start_paused
    /\ panic = FALSE /\ updating = FALSE /\ restart = FALSE
    /\ handling = [h \in Handlers |-> "idle"]
    /\ update = [u \in Updaters |-> "unborn"]
    /\ loop = "starting" /\ working \in BOOLEAN
    /\ quiet = FALSE /\ unsent = FALSE

-----------------------------------------------------------------------------
\* A handler thread takes the next command or button of the chat.
HandlerFree == \E h \in Handlers : handling[h] = "idle"

\* /pause, /stoptrading and their buttons.
Pause ==
    /\ HandlerFree
    /\ paused' = TRUE
    /\ UNCHANGED <<panic, updating, restart, handling, update, loop, working, quiet, unsent>>

\* /resume, /starttrading and their buttons.
Resume ==
    /\ HandlerFree
    /\ paused' = FALSE /\ quiet' = FALSE
    /\ UNCHANGED <<panic, updating, restart, handling, update, loop, working, unsent>>

\* do_panic sets one flag, then the other.
Panic(h) ==
    /\ handling[h] = "idle"
    /\ panic' = TRUE
    /\ handling' = [handling EXCEPT ![h] = "pausing"]
    /\ UNCHANGED <<paused, updating, restart, update, loop, working, quiet, unsent>>

PanicPauses(h) ==
    /\ handling[h] = "pausing"
    /\ paused' = TRUE
    /\ handling' = [handling EXCEPT ![h] = "idle"]
    /\ UNCHANGED <<panic, updating, restart, update, loop, working, quiet, unsent>>

-----------------------------------------------------------------------------
\* do_update: an update that runs already is looked for, without the lock.
Update(u) ==
    /\ HandlerFree
    /\ update[u] = "unborn" /\ ~updating
    /\ update' = [update EXCEPT ![u] = "born"]
    /\ UNCHANGED <<paused, panic, updating, restart, handling, loop, working, quiet, unsent>>

\* _update_worker under update_lock.
Begin(u) ==
    /\ update[u] = "born"
    /\ update' = [update EXCEPT ![u] = IF updating THEN "done" ELSE "pulling"]
    /\ updating' = TRUE

BeginUpdate(u) ==
    /\ Begin(u)
    /\ UNCHANGED <<paused, panic, restart, handling, loop, working, quiet, unsent>>

(* perform_update: nothing to do, no remote, a dirty tree or a failed pull  *)
(* clear the flag before the operator is told.                             *)
PullEnds(u) ==
    /\ update[u] = "pulling"
    /\ \/ update' = [update EXCEPT ![u] = "pulled"] /\ UNCHANGED updating
       \/ update' = [update EXCEPT ![u] = "refused"] /\ updating' = FALSE
    /\ UNCHANGED <<paused, panic, restart, handling, loop, working, quiet, unsent>>

RequestRestart(u) ==
    /\ update[u] = "pulled" /\ restart' = TRUE
    /\ update' = [update EXCEPT ![u] = "requested"]
    /\ UNCHANGED <<paused, panic, updating, handling, loop, working, quiet, unsent>>

\* set_update_in_progress(True, "restart_pending:..."), after the request.
MarkPending(u) ==
    /\ update[u] = "requested" /\ updating' = TRUE
    /\ update' = [update EXCEPT ![u] = "telling"]
    /\ UNCHANGED <<paused, panic, restart, handling, loop, working, quiet, unsent>>

\* send_text; a message that cannot be sent raises, and the except clause
\* clears the flag, whoever has it set by now.
Tell(u) ==
    /\ update[u] \in {"refused", "telling"}
    /\ update' = [update EXCEPT ![u] = "done"]
    /\ \/ UNCHANGED <<updating, unsent>>
       \/ updating' = FALSE /\ unsent' = TRUE
    /\ UNCHANGED <<paused, panic, restart, handling, loop, working, quiet>>

-----------------------------------------------------------------------------
\* Any of the runtime's loops may be the first to see the request; the
\* others are cancelled at their await, and main() reloads the modules.
RestartRequested ==
    /\ restart /\ loop \in Awaits
    /\ loop' = "reloading"
    /\ UNCHANGED <<paused, panic, updating, restart, handling, update, working, quiet, unsent>>

\* Mutant: the flags are cleared before the modules are reloaded.
ReloadingAfterClear == restart' = FALSE /\ updating' = FALSE /\ loop' = "reloading"
RestartApplied == restart' = FALSE /\ updating' = FALSE /\ loop' = "starting"

ApplyRestart ==
    /\ loop = "reloading"
    /\ RestartApplied
    /\ UNCHANGED <<paused, panic, handling, update, working, quiet, unsent>>

\* trading_loop begins with cancel-all; when that fails, the orders stay.
StartLoop ==
    /\ loop = "starting" /\ loop' = "sleeping"
    /\ working' \in {working, FALSE}
    /\ UNCHANGED <<paused, panic, updating, restart, handling, update, quiet, unsent>>

\* Mutant: a pause holds only new signals back.
GateIgnoresPause == IF panic THEN "cancelling" ELSE "asking"
Gate == IF panic THEN "cancelling" ELSE IF paused THEN "sleeping" ELSE "asking"

\* The top of an iteration, after its sleep.
Wake ==
    /\ loop = "sleeping"
    /\ loop' = Gate
    /\ UNCHANGED <<paused, panic, updating, restart, handling, update, working, quiet, unsent>>

(* The flag is cleared after the answer, even when cancel_all_orders failed *)
(* and when the operator has asked again meanwhile.                        *)
ServePanic ==
    /\ loop = "cancelling" /\ loop' = "sleeping"
    /\ \/ working' = FALSE /\ quiet' = paused
       \/ UNCHANGED <<working, quiet>>
    /\ panic' = FALSE
    /\ UNCHANGED <<paused, updating, restart, handling, update, unsent>>

\* get_open_orders; an answer of 10004 (bad signature) pauses and ends the loop.
AskOpenOrders ==
    /\ loop = "asking"
    /\ \/ loop' \in {"sleeping", "ordering"} /\ UNCHANGED paused
       \/ loop' = "ended" /\ paused' = TRUE
    /\ UNCHANGED <<panic, updating, restart, handling, update, working, quiet, unsent>>

\* The rest of an iteration: orders are placed, or are filled or cancelled;
\* a 10004 on an entry pauses and ends the loop.
Trade ==
    /\ loop = "ordering"
    /\ \/ loop' = "sleeping" /\ UNCHANGED paused
       \/ loop' = "ended" /\ paused' = TRUE
    /\ working' \in BOOLEAN
    /\ UNCHANGED <<panic, updating, restart, handling, update, quiet, unsent>>

\* A working order is filled.
Fill ==
    /\ working /\ working' = FALSE
    /\ UNCHANGED <<paused, panic, updating, restart, handling, update, loop, quiet, unsent>>

\* The other loops go on without trading_loop and still see a restart.
RestartOfEnded ==
    /\ loop = "ended" /\ restart /\ loop' = "reloading"
    /\ UNCHANGED <<paused, panic, updating, restart, handling, update, working, quiet, unsent>>

ControlNext ==
    \/ Pause \/ Resume
    \/ \E h \in Handlers : Panic(h) \/ PanicPauses(h)
    \/ \E u \in Updaters : \/ Update(u) \/ BeginUpdate(u) \/ PullEnds(u)
                           \/ RequestRestart(u) \/ MarkPending(u) \/ Tell(u)
    \/ RestartRequested \/ ApplyRestart \/ StartLoop \/ Wake \/ ServePanic
    \/ AskOpenOrders \/ Trade \/ Fill \/ RestartOfEnded

ControlSpec == ControlInit /\ [][ControlNext]_controlVars

-----------------------------------------------------------------------------
ControlTypeOK ==
    /\ {paused, panic, updating, restart, working, quiet, unsent} \subseteq BOOLEAN
    /\ handling \in [Handlers -> {"idle", "pausing"}]
    /\ update \in [Updaters -> Progress]
    /\ loop \in Awaits \cup {"reloading", "ended"}

Pulling == {u \in Updaters : update[u] = "pulling"}

(* Two updates never change the working tree at once, and the modules are   *)
(* never reloaded from a tree that is being pulled, as long as the bot can  *)
(* send its messages: a message that fails clears a flag that another       *)
(* update may hold.                                                        *)
PullsAreExclusive ==
    ~unsent => /\ Cardinality(Pulling) <= 1
               /\ loop = "reloading" => Pulling = {}

(* Once a panic has been served with the pause on and cancel-all obeyed, no  *)
(* order works until the operator resumes, restarts included.  (A panic     *)
(* served between do_panic's two assignments gives no such promise.)        *)
PanicLeavesNothing == quiet => ~working
=============================================================================
