----------------------------- MODULE MarketFeed -----------------------------
(***************************************************************************)
(* BybitPublicOrderbookWS: the order books of the symbols in the universe, *)
(* kept from snapshots and deltas over one web socket that may break at    *)
(* any time.  Two tasks send requests on the socket: run() subscribes to   *)
(* the symbols it read when the connection came up, update_symbols() to    *)
(* the ones the universe refresh added, and each pauses between requests,  *)
(* so the two interleave with each other and with a reconnect.             *)
(* A request is modelled as received when it is sent, and as one symbol.   *)
(***************************************************************************)
EXTENDS Integers, Sequences, FiniteSets

CONSTANTS FeedSymbols,    \* symbols the universe refresh may choose from
          MaxOnWire,      \* bound: messages between server and client
          MaxUpdates,     \* bound: universe refreshes
          MaxBreaks       \* bound: broken connections

ASSUME MarketFeedAssumption ==
    /\ IsFiniteSet(FeedSymbols) /\ FeedSymbols # {}
    /\ MaxOnWire \in Nat \ {0} /\ MaxUpdates \in Nat /\ MaxBreaks \in Nat

VARIABLES
    symbols,    \* self.symbols
    book,       \* _bids and _asks: "none" when the symbol has no entry
    shownBooks, \* state.orderbooks, what strategies and exits price with
    connected,  \* self._ws is not None
    toSubscribe,\* symbols run() has yet to subscribe to
    toAdd, toRemove,  \* requests update_symbols() has yet to send
    updatingFeed,     \* update_symbols() has not returned
    subscribed, \* external: topics the server sends on this connection
    onWire,     \* external: messages on their way, in order
    doubled,    \* symbols subscribed to while they were already
    refused,    \* symbols whose request this connection refused
    updates, breaks

requests == <<toSubscribe, toAdd, toRemove, updatingFeed>>
server   == <<subscribed, onWire, doubled, refused>>
feedVars == <<symbols, book, shownBooks, connected, requests, server, updates, breaks>>

\* "whole": a snapshot of this connection and every delta since; "partial":
\* deltas on nothing; "old": what a lost connection left behind.
BookStates == {"none", "empty", "partial", "whole", "old"}

MarketFeedTypeOK ==
    /\ symbols \subseteq FeedSymbols
    /\ book \in [FeedSymbols -> BookStates]
    /\ shownBooks \subseteq symbols
    /\ \A s \in FeedSymbols : book[s] = "none" <=> s \notin symbols
    /\ connected \in BOOLEAN /\ updatingFeed \in BOOLEAN
    /\ toSubscribe \subseteq FeedSymbols
    /\ toAdd \subseteq symbols /\ toRemove \subseteq FeedSymbols \ symbols
    /\ subscribed \subseteq FeedSymbols
    /\ Len(onWire) <= MaxOnWire
    /\ doubled \subseteq FeedSymbols /\ refused \subseteq FeedSymbols
    /\ updates \in 0..MaxUpdates /\ breaks \in 0..MaxBreaks

(* The process starts with the symbols of the configuration.               *)
FeedInit ==
    /\ symbols \in SUBSET FeedSymbols \ {{}}
    /\ book = [s \in FeedSymbols |-> IF s \in symbols THEN "empty" ELSE "none"]
    /\ shownBooks = {} /\ connected = FALSE
    /\ toSubscribe = {} /\ toAdd = {} /\ toRemove = {} /\ updatingFeed = FALSE
    /\ subscribed = {} /\ onWire = <<>> /\ doubled = {} /\ refused = {}
    /\ updates = 0 /\ breaks = 0

-----------------------------------------------------------------------------
\* Mutant: a symbol that has a book is taken for subscribed.
TopicsWithoutBook == {s \in symbols : book[s] = "empty"}
(* run(): connect, and read self.symbols before the first request.         *)
TopicsAtConnect == symbols
Connect ==
    /\ ~connected
    /\ connected' = TRUE
    /\ toSubscribe' = TopicsAtConnect
    /\ UNCHANGED <<symbols, book, shownBooks, toAdd, toRemove, updatingFeed, server, updates, breaks>>

(* External: a subscribe is answered by a snapshot, by nothing when the    *)
(* topic is subscribed to already, or by an error, which the client logs.  *)
SubscribeTopic(s) ==
    \/ /\ s \notin subscribed /\ Len(onWire) < MaxOnWire
       /\ subscribed' = subscribed \cup {s}
       /\ onWire' = Append(onWire, [kind |-> "snapshot", symbol |-> s])
       /\ refused' = refused \ {s}
       /\ UNCHANGED doubled
    \/ /\ s \in subscribed
       /\ doubled' = doubled \cup {s}
       /\ UNCHANGED <<subscribed, onWire, refused>>
    \/ /\ s \notin subscribed
       /\ refused' = refused \cup {s}
       /\ UNCHANGED <<subscribed, onWire, doubled>>

RunSubscribes(s) ==
    /\ connected /\ s \in toSubscribe
    /\ toSubscribe' = toSubscribe \ {s}
    /\ SubscribeTopic(s)
    /\ UNCHANGED <<symbols, book, shownBooks, connected, toAdd, toRemove, updatingFeed, updates, breaks>>

(* The socket breaks: _ws is None until run() connects again; the books    *)
(* are kept as they were.  A task in the middle of its requests fails and  *)
(* sends no more of them, or, between two, does not notice.                *)
Break ==
    /\ connected /\ breaks < MaxBreaks
    /\ connected' = FALSE
    /\ book' = [s \in FeedSymbols |-> IF book[s] = "whole" THEN "old" ELSE book[s]]
    /\ toSubscribe' = {} /\ subscribed' = {} /\ onWire' = <<>>
    /\ doubled' = {} /\ refused' = {}
    /\ \/ UNCHANGED <<toAdd, toRemove, updatingFeed>>
       \/ toAdd' = {} /\ toRemove' = {} /\ UNCHANGED updatingFeed
    /\ breaks' = breaks + 1
    /\ UNCHANGED <<symbols, shownBooks, updates>>

-----------------------------------------------------------------------------
(* New symbols start with an empty book, the others' books go.             *)
BooksAfterUpdate(new) ==
    [s \in FeedSymbols |-> IF s \notin new THEN "none"
                           ELSE IF s \in symbols THEN book[s] ELSE "empty"]

(* universe_loop: a merged list that differs; update_symbols up to its     *)
(* first request.                                                          *)
UpdateSymbols(new) ==
    /\ ~updatingFeed /\ updates < MaxUpdates
    /\ new # {} /\ new # symbols
    /\ symbols' = new
    /\ book' = BooksAfterUpdate(new)
    /\ shownBooks' = shownBooks \cap new
    /\ toAdd' = new \ symbols
    /\ toRemove' = symbols \ new
    /\ updatingFeed' = TRUE
    /\ updates' = updates + 1
    /\ UNCHANGED <<connected, toSubscribe, server, breaks>>

(* Without a socket _send_json returns: run() will read self.symbols.      *)
UpdateSubscribes(s) ==
    /\ s \in toAdd
    /\ toAdd' = toAdd \ {s}
    /\ \/ connected /\ SubscribeTopic(s)
       \/ ~connected /\ UNCHANGED server
    /\ UNCHANGED <<symbols, book, shownBooks, connected, toSubscribe, toRemove, updatingFeed, updates, breaks>>

UpdateUnsubscribes(s) ==
    /\ toAdd = {} /\ s \in toRemove
    /\ toRemove' = toRemove \ {s}
    /\ \/ connected /\ subscribed' = subscribed \ {s} /\ doubled' = doubled \ {s}
          /\ UNCHANGED <<onWire, refused>>
       \/ ~connected /\ UNCHANGED server
    /\ UNCHANGED <<symbols, book, shownBooks, connected, toSubscribe, toAdd, updatingFeed, updates, breaks>>

UpdateReturns ==
    /\ updatingFeed /\ toAdd = {} /\ toRemove = {}
    /\ updatingFeed' = FALSE
    /\ UNCHANGED <<symbols, book, shownBooks, connected, toSubscribe, toAdd, toRemove, server, updates, breaks>>

-----------------------------------------------------------------------------
(* External: the book of a subscribed symbol changes.                      *)
ServerSendsDelta(s) ==
    /\ s \in subscribed /\ Len(onWire) < MaxOnWire
    /\ onWire' = Append(onWire, [kind |-> "delta", symbol |-> s])
    /\ UNCHANGED <<symbols, book, shownBooks, connected, requests, subscribed, doubled, refused, updates, breaks>>

(* A snapshot replaces the levels; a delta changes some of them.           *)
AfterMessage(b, kind) == IF kind = "snapshot" \/ b = "whole" THEN "whole" ELSE "partial"

(* _handle_message, which drops what is not in _bids; the aggregate is     *)
(* shown once there is a level on both sides, which deltas may leave out.  *)
HandleMessage ==
    /\ onWire # <<>>
    /\ onWire' = Tail(onWire)
    /\ LET s == Head(onWire).symbol IN
       \/ /\ book[s] = "none" /\ UNCHANGED <<book, shownBooks>>
       \/ /\ book[s] # "none"
          /\ book' = [book EXCEPT ![s] = AfterMessage(@, Head(onWire).kind)]
          /\ \/ shownBooks' = shownBooks \cup {s}
             \/ book'[s] = "partial" /\ UNCHANGED shownBooks
    /\ UNCHANGED <<symbols, connected, requests, subscribed, doubled, refused, updates, breaks>>

FeedNext ==
    \/ Connect \/ Break \/ UpdateReturns \/ HandleMessage
    \/ \E s \in FeedSymbols : \/ RunSubscribes(s) \/ UpdateSubscribes(s)
                              \/ UpdateUnsubscribes(s) \/ ServerSendsDelta(s)
    \/ \E new \in SUBSET FeedSymbols : UpdateSymbols(new)

FeedSpec == FeedInit /\ [][FeedNext]_feedVars

FeedIsQuiet == connected /\ toSubscribe = {} /\ ~updatingFeed

(* Whichever way a universe refresh and a reconnect interleave, once both  *)
(* are through and nothing is on its way, the book of every symbol of the  *)
(* universe is made of a snapshot and all later deltas of this connection: *)
(* none is priced from what an earlier connection left behind or from      *)
(* deltas on an empty book.  Left out are symbols the exchange refused,    *)
(* and symbols subscribed to twice, which get no second snapshot.          *)
QuietBooksAreWhole ==
    FeedIsQuiet /\ onWire = <<>> =>
        \A s \in symbols \ (refused \cup doubled) : book[s] = "whole"
=============================================================================
