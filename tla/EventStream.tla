----------------------------- MODULE EventStream -----------------------------
(***************************************************************************)
(* Events on their way from the app-service to the job monitor:            *)
(* EventPublisher with its buffer of recent events, one subscription of    *)
(* the browser (GET /events), one of the log bridge, and what the page     *)
(* makes of the events.  Events are numbered; some are about the one job,  *)
(* the others (logs, heartbeats) only take places in the buffer.           *)
(***************************************************************************)
EXTENDS Integers, Sequences, SequencesExt, FiniteSetsExt

CONSTANTS
    BufferSize,     \* event_buffer_size
    MaxEvents,      \* bound: events published
    MaxConnects     \* bound: connections of the browser

ASSUME EventStreamAssumption ==
    BufferSize \in Nat \ {0} /\ MaxEvents \in Nat /\ MaxConnects \in Nat

VARIABLES
    events,     \* the kind of every event published so far
    stopped,    \* EventPublisher._stopped
    link,       \* each subscriber: "off", "open" between two waits, "waits" in
                \* queue.get(), "gone" when the client has disconnected
    replay,     \* recent events it has yet to yield
    inbox,      \* its queue
    seen,       \* what it has yielded since it subscribed
    shown,      \* the job event whose state the page shows, 0 for none
    polled,     \* the job event of the state that GET /jobs last returned
    connects,
    overrun     \* history: job events left the buffer while the page was away

eventVars == <<events, stopped, link, replay, inbox, seen, shown, polled,
               connects, overrun>>

Page == "page"
Bridge == "bridge"
Subscribers == {Page, Bridge}
Kinds == {"job", "other"}

Published == Len(events)
JobEvents(S) == {n \in S : events[n] = "job"}
LastJob(S) == IF JobEvents(S) = {} THEN 0 ELSE Max(JobEvents(S))

\* deque(maxlen=buffer_size)
RecentFrom == Max({1, Published - BufferSize + 1})
RecentEvents == [i \in 1..(Published - RecentFrom + 1) |-> RecentFrom + i - 1]

EventStreamInit ==
    /\ events = <<>> /\ stopped = FALSE
    /\ link = [s \in Subscribers |-> "off"]
    /\ replay = [s \in Subscribers |-> <<>>]
    /\ inbox = [s \in Subscribers |-> <<>>]
    /\ seen = [s \in Subscribers |-> <<>>]
    /\ shown = 0 /\ polled = 0 /\ connects = 0 /\ overrun = FALSE

-----------------------------------------------------------------------------
\* Mutant: subscribers that are still replaying are not in the set yet.
LiveReceivers == {s \in Subscribers : link[s] \in {"waits", "gone"}}
Receivers == {s \in Subscribers : link[s] # "off"}

\* _publish: the queues are unbounded, so put() does not suspend.
Publish(kind) ==
    /\ Published < MaxEvents
    /\ events' = Append(events, kind)
    /\ inbox' = [s \in Subscribers |-> IF s \in Receivers THEN Append(inbox[s], Published + 1)
                                                          ELSE inbox[s]]
    /\ UNCHANGED <<stopped, link, replay, seen, shown, polled, connects, overrun>>

Listening(s) == link[s] \in {"open", "waits"}
LastShownOrSkipped == IF seen[Page] = <<>> THEN 0 ELSE Last(seen[Page])

(* subscribe(): the queue joins the set and the buffer is copied without a  *)
(* suspension in between.                                                  *)
Subscribe(s) ==
    /\ link[s] = "off"
    /\ IF s = Page THEN connects < MaxConnects ELSE seen[s] = <<>> /\ ~stopped
    /\ connects' = connects + (IF s = Page THEN 1 ELSE 0)
    /\ link' = [link EXCEPT ![s] = "open"]
    /\ replay' = [replay EXCEPT ![s] = RecentEvents]
    /\ inbox' = [inbox EXCEPT ![s] = <<>>]
    /\ seen' = [seen EXCEPT ![s] = <<>>]
    /\ overrun' = IF s = Page
                  THEN overrun \/ JobEvents((LastShownOrSkipped + 1)..(RecentFrom - 1)) # {}
                  ELSE overrun
    /\ UNCHANGED <<events, stopped, shown, polled>>

\* Mutant: the page keeps the state it has when a snapshot is there already.
FirstSnapshot(n) == IF shown = 0 /\ events[n] = "job" THEN n ELSE shown
\* useJobEvents: the snapshot of the job is replaced, whatever it was.
SnapshotAfter(n) == IF events[n] = "job" THEN n ELSE shown

Yield(s, n) ==
    /\ seen' = [seen EXCEPT ![s] = Append(@, n)]
    /\ shown' = IF s = Page THEN SnapshotAfter(n) ELSE shown

YieldRecent(s) ==
    /\ link[s] = "open" /\ replay[s] # <<>>
    /\ Yield(s, Head(replay[s]))
    /\ replay' = [replay EXCEPT ![s] = Tail(@)]
    /\ UNCHANGED <<events, stopped, link, inbox, polled, connects, overrun>>

(* `while not self._stopped.is_set(): payload = await queue.get()`: a       *)
(* subscriber that waits already takes one more event after the stop, and  *)
(* waits for good when there is none.                                      *)
Resume(s) ==
    /\ link[s] = "open" /\ replay[s] = <<>>
    /\ link' = [link EXCEPT ![s] = IF stopped THEN "off" ELSE "waits"]
    /\ inbox' = [inbox EXCEPT ![s] = IF stopped THEN <<>> ELSE @]
    /\ UNCHANGED <<events, stopped, replay, seen, shown, polled, connects, overrun>>

YieldLive(s) ==
    /\ link[s] = "waits" /\ inbox[s] # <<>>
    /\ Yield(s, Head(inbox[s]))
    /\ inbox' = [inbox EXCEPT ![s] = Tail(@)]
    /\ link' = [link EXCEPT ![s] = "open"]
    /\ UNCHANGED <<events, stopped, replay, polled, connects, overrun>>

\* The browser loses its connection and has not connected again yet.
ConnectionBreaks ==
    /\ Listening(Page)
    /\ link' = [link EXCEPT ![Page] = "gone"]
    /\ UNCHANGED <<events, stopped, replay, inbox, seen, shown, polled, connects, overrun>>

\* is_disconnected, or the cancellation of the response, ends the generator.
GeneratorEnds ==
    /\ link[Page] = "gone"
    /\ link' = [link EXCEPT ![Page] = "off"]
    /\ replay' = [replay EXCEPT ![Page] = <<>>]
    /\ inbox' = [inbox EXCEPT ![Page] = <<>>]
    /\ UNCHANGED <<events, stopped, seen, shown, polled, connects, overrun>>

PollJobs ==
    /\ polled' = LastJob(1..Published)
    /\ UNCHANGED <<events, stopped, link, replay, inbox, seen, shown, connects, overrun>>

StopPublisher ==
    /\ ~stopped /\ stopped' = TRUE
    /\ UNCHANGED <<events, link, replay, inbox, seen, shown, polled, connects, overrun>>

EventStreamNext ==
    \/ \E kind \in Kinds : Publish(kind)
    \/ \E s \in Subscribers : Subscribe(s) \/ YieldRecent(s) \/ Resume(s) \/ YieldLive(s)
    \/ ConnectionBreaks \/ GeneratorEnds \/ PollJobs \/ StopPublisher

EventStreamSpec == EventStreamInit /\ [][EventStreamNext]_eventVars

-----------------------------------------------------------------------------
EventStreamTypeOK ==
    /\ events \in Seq(Kinds) /\ stopped \in BOOLEAN
    /\ link \in [Subscribers -> {"off", "open", "waits", "gone"}]
    /\ \A s \in Subscribers :
          /\ Range(replay[s]) \cup Range(inbox[s]) \cup Range(seen[s]) \subseteq 1..Published
          /\ Len(replay[s]) <= BufferSize
    /\ shown \in 0..Published /\ polled \in 0..Published
    /\ connects \in 0..MaxConnects /\ overrun \in BOOLEAN

Consecutive(s) == \A i \in 1..(Len(s) - 1) : s[i + 1] = s[i] + 1

(* A subscription has yielded, or is going to yield, every event from its   *)
(* first one to the newest, each once and in order, whatever is published   *)
(* while it is replaying the buffer.                                       *)
NothingSkipped ==
    \A s \in Subscribers : Listening(s) =>
        LET all == seen[s] \o replay[s] \o inbox[s] IN
        /\ Consecutive(all)
        /\ Published > 0 /\ all # <<>> => Last(all) = Published

\* The state on the page: a snapshot of the stream hides the polled state.
Displayed == IF shown # 0 THEN shown ELSE polled

(* A page that has caught up shows the newest state of the job, through any *)
(* number of broken connections, unless a state left the buffer while the   *)
(* page was away: then polling does not help, for the old snapshot hides    *)
(* its answers.                                                            *)
PageShowsNewest ==
    Listening(Page) /\ replay[Page] = <<>> /\ inbox[Page] = <<>> /\ ~overrun
        => Displayed = LastJob(1..Published)
=============================================================================
