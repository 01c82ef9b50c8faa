---------------------------- MODULE PlatformProofs ----------------------------
(***************************************************************************)
(* Proofs about the parts around the trading loop that hand something over *)
(* to another process: the shell and the services it ends, the event       *)
(* stream and the page, the order books kept over a web socket, and the    *)
(* schema that programs bring one database to; and about all parts of      *)
(* MCPlatform side by side.                                                *)
(***************************************************************************)
EXTENDS MCPlatform, LearningProofs

-----------------------------------------------------------------------------
(* DesktopShell.  A worker runs where its service does; what a service is  *)
(* ended by finds no job: it was requested after the window was closed,    *)
(* when nothing starts jobs any more.                                      *)
HasWindow == shell \in {"starting", "probing", "asking", "ready"}

WorkersInv ==
    /\ \A s \in jobs : service[s] \in {"serving", "draining"}
    /\ platform = "posix" => \A s \in runtimes : service[s] \in {"serving", "draining"}
    /\ HasWindow => terminating = {}
    /\ terminating \cap jobs = {}
    /\ shell = "gone" => service[Mine] = "exited"

ShellInv == ShellTypeOK /\ WorkersInv

LEMMA InitShell == ShellInit => ShellInv
<1> SUFFICES ASSUME ShellInit PROVE ShellInv
  OBVIOUS
<1>1. /\ platform \in {"posix", "windows"} /\ shell = "starting"
      /\ terminating = {} /\ jobs = {} /\ runtimes = {} /\ streams = {}
  BY DEF ShellInit
<1>2. service \in [Services -> Stages] BY DEF ShellInit, Stages
<1> QED BY <1>1, <1>2 DEF ShellInv, ShellTypeOK, WorkersInv

(* A process ends with all it has started.                                 *)
LEMMA EndInOrderStep ==
    ASSUME ShellInv, NEW s \in Services, shell' # "gone" \/ shell' = shell, UNCHANGED platform,
           HasWindow' => HasWindow,
           shell' \in {"starting", "probing", "asking", "ready", "failed", "closing",
                       "waiting", "reaping", "gone"},
           EndsInOrder(s)
    PROVE  ShellInv'
  BY DEF ShellInv, ShellTypeOK, WorkersInv, EndsInOrder, Stages, Services, Mine, Other

LEMMA KillProcessTreeStep ==
    ASSUME ShellInv, shell \in {"probing", "waiting"}, shell' \in {"failed", "reaping"},
           KillProcessTree, UNCHANGED platform
    PROVE  ShellInv'
<1>1. ~HasWindow' /\ shell' # "gone" BY DEF HasWindow
<1>2. CASE /\ service[Mine] \in {"booting", "serving"}
           /\ service' = [service EXCEPT ![Mine] = "draining"]
           /\ UNCHANGED <<terminating, jobs, runtimes, streams>>
  BY <1>1, <1>2 DEF ShellInv, ShellTypeOK, WorkersInv, Stages, Services
<1>3. CASE UNCHANGED <<service, terminating, jobs, runtimes, streams>>
  BY <1>1, <1>3 DEF ShellInv, ShellTypeOK, WorkersInv
<1>4. CASE EndsInOrder(Mine)
  BY <1>1, <1>4, EndInOrderStep DEF Services
<1> QED BY <1>2, <1>3, <1>4 DEF KillProcessTree, DiesWithTree

LEMMA NextShell == ShellInv /\ [ShellNext]_shellVars => ShellInv'
<1> SUFFICES ASSUME ShellInv, [ShellNext]_shellVars PROVE ShellInv'
  OBVIOUS
<1> USE DEF ShellInv, ShellTypeOK, WorkersInv, HasWindow
<1>1. CASE Spawn BY <1>1 DEF Spawn, Stages, Services
<1>2. CASE Bind BY <1>2 DEF Bind, Stages, Services
<1>3. CASE ProbeChild BY <1>3 DEF ProbeChild
<1>4. CASE ProbePort BY <1>4 DEF ProbePort
<1>5. CASE ReadinessTimesOut BY <1>5, KillProcessTreeStep DEF ReadinessTimesOut
<1>6. CASE OpenStream BY <1>6 DEF OpenStream, Answering
<1>7. CASE StartJobInService BY <1>7 DEF StartJobInService, Answering
<1>8. CASE StartRuntimeInService BY <1>8 DEF StartRuntimeInService, Answering
<1>9. CASE StreamCloses BY <1>9 DEF StreamCloses
<1>10. CASE CloseWindow BY <1>10 DEF CloseWindow
<1>11. CASE RequestShutdown BY <1>11 DEF RequestShutdown, JobsAfterRequest, Answering
<1>12. CASE ChildHasExited BY <1>12 DEF ChildHasExited
<1>13. CASE ShutdownTimesOut BY <1>13, KillProcessTreeStep DEF ShutdownTimesOut, AfterKill
<1>14. ASSUME NEW s \in Services, DelayedSigterm(s) PROVE ShellInv'
  <2>1. CASE /\ platform = "posix" /\ service' = [service EXCEPT ![s] = "draining"]
             /\ terminating' = terminating \ {s} /\ UNCHANGED <<jobs, runtimes, streams>>
    BY <1>14, <2>1 DEF DelayedSigterm, Stages
  <2>2. CASE platform = "windows" /\ Dies(s)
    <3>1. /\ s \in terminating /\ UNCHANGED <<platform, shell, jobs, runtimes>>
          /\ service' = [service EXCEPT ![s] = "exited"]
          /\ streams' = streams \ {s} /\ terminating' = terminating \ {s}
          /\ platform' # "posix"
      BY <1>14, <2>2 DEF DelayedSigterm, Dies
    <3>2. ShellTypeOK' BY <3>1 DEF Stages
    <3>3. \A r \in jobs' : service'[r] \in {"serving", "draining"}
      <4>1. s \notin jobs BY <3>1
      <4> QED BY <3>1, <4>1
    <3>4. shell' = "gone" => service'[Mine] = "exited" BY <3>1
    <3> QED BY <3>1, <3>2, <3>3, <3>4
  <2> QED BY <1>14, <2>1, <2>2 DEF DelayedSigterm
<1>15. ASSUME NEW s \in Services, Drained(s) PROVE ShellInv'
  BY <1>15, EndInOrderStep DEF Drained
<1>16. CASE UNCHANGED shellVars BY <1>16 DEF shellVars
<1> QED
  BY <1>1, <1>2, <1>3, <1>4, <1>5, <1>6, <1>7, <1>8, <1>9, <1>10, <1>11, <1>12, <1>13,
     <1>14, <1>15, <1>16
  DEF ShellNext

LEMMA ShellAlways == ShellSpec => []ShellInv
  BY InitShell, NextShell, PTL DEF ShellSpec

(* Whatever ends a service, its jobs are stopped by then; where the        *)
(* lifespan gets to run its managed runtime is too; and a shell that has   *)
(* ended has waited for its own service.                                   *)
THEOREM WorkersEndWithService == ShellSpec => []NothingSurvives
<1>1. ShellInv => NothingSurvives
  BY DEF ShellInv, ShellTypeOK, WorkersInv, NothingSurvives, NoJobSurvives,
     NoRuntimeSurvives, NoServiceSurvives
<1> QED BY <1>1, ShellAlways, PTL

-----------------------------------------------------------------------------
(* MarketFeed.  On a connection that is up every symbol of the universe    *)
(* has a request to come, one that gave it no snapshot, its snapshot on    *)
(* the way, or a book made of it.                                          *)
Messages == [kind : {"snapshot", "delta"}, symbol : FeedSymbols]

Coming(s) == \E k \in 1..Len(onWire) : onWire[k].kind = "snapshot" /\ onWire[k].symbol = s

BooksInv ==
    /\ toAdd # {} => updatingFeed
    /\ connected => \A s \in symbols :
          \/ s \in toSubscribe \cup toAdd \cup refused \cup doubled
          \/ Coming(s) \/ book[s] = "whole"

FeedTypes ==
    /\ symbols \subseteq FeedSymbols
    /\ book \in [FeedSymbols -> BookStates]
    /\ \A s \in FeedSymbols : book[s] = "none" <=> s \notin symbols
    /\ toAdd \subseteq symbols /\ toRemove \subseteq FeedSymbols \ symbols
    /\ onWire \in Seq(Messages)

FeedInv == FeedTypes /\ BooksInv

(* What one request does: its symbol is answered, refused or doubled, and  *)
(* nothing that was coming is lost.                                        *)
LEMMA SubscribeStep ==
    ASSUME FeedInv, NEW s \in FeedSymbols, SubscribeTopic(s)
    PROVE  /\ onWire' \in Seq(Messages)
           /\ s \in refused' \cup doubled' \/ Coming(s)'
           /\ \A r \in FeedSymbols : /\ Coming(r) => Coming(r)'
                                     /\ r # s /\ r \in refused => r \in refused'
                                     /\ r \in doubled => r \in doubled'
<1> DEFINE m == [kind |-> "snapshot", symbol |-> s]
<1>t. onWire \in Seq(Messages) BY DEF FeedInv, FeedTypes
<1>1. CASE /\ onWire' = Append(onWire, m) /\ refused' = refused \ {s} /\ UNCHANGED doubled
  <2>1. m \in Messages /\ m.kind = "snapshot" /\ m.symbol = s BY DEF Messages
  <2> HIDE DEF m
  <2>2. /\ onWire' \in Seq(Messages) /\ Len(onWire') = Len(onWire) + 1 /\ Len(onWire) \in Nat
        /\ \A k \in 1..Len(onWire) : onWire'[k] = onWire[k]
        /\ onWire'[Len(onWire) + 1] = m
    BY <1>t, <1>1, <2>1
  <2>3. Coming(s)' BY <2>1, <2>2 DEF Coming
  <2>4. \A r \in FeedSymbols : Coming(r) => Coming(r)' BY <2>2 DEF Coming
  <2> QED BY <1>1, <2>2, <2>3, <2>4
<1>2. CASE /\ UNCHANGED onWire /\ refused \subseteq refused' /\ doubled \subseteq doubled'
           /\ s \in refused' \cup doubled'
  BY <1>t, <1>2 DEF Coming
<1> QED BY <1>1, <1>2 DEF SubscribeTopic

LEMMA HandleStep == ASSUME FeedInv, HandleMessage PROVE FeedInv'
<1>t. FeedTypes /\ BooksInv BY DEF FeedInv
<1>1. /\ onWire # <<>> /\ onWire' = Tail(onWire)
      /\ UNCHANGED <<symbols, connected, toSubscribe, toAdd, toRemove, updatingFeed, refused,
                     doubled>>
  BY DEF HandleMessage, requests
<1>2. /\ onWire \in Seq(Messages) /\ Len(onWire) \in Nat /\ Len(onWire) > 0
      /\ Head(onWire) = onWire[1]
  BY <1>1, <1>t DEF FeedTypes
<1>3. /\ onWire' \in Seq(Messages) /\ Len(onWire') = Len(onWire) - 1
      /\ \A k \in 1..Len(onWire') : onWire'[k] = onWire[k + 1]
  BY <1>1, <1>2
<1>m. onWire[1] \in Messages BY <1>2
<1> PICK h \in FeedSymbols : h = onWire[1].symbol BY <1>m DEF Messages
<1> PICK kind \in {"snapshot", "delta"} : kind = onWire[1].kind BY <1>m DEF Messages
<1>4. \A s \in FeedSymbols : Coming(s) => Coming(s)' \/ (s = h /\ kind = "snapshot")
  <2> SUFFICES ASSUME NEW s \in FeedSymbols, NEW k \in 1..Len(onWire),
                      onWire[k].kind = "snapshot", onWire[k].symbol = s,
                      ~(s = h /\ kind = "snapshot")
               PROVE  Coming(s)'
    BY DEF Coming
  <2>1. k # 1 OBVIOUS
  <2>2. k - 1 \in 1..Len(onWire') /\ (k - 1) + 1 = k BY <1>2, <1>3, <2>1
  <2>3. onWire'[k - 1] = onWire[k] BY <1>3, <2>2
  <2> QED BY <2>2, <2>3 DEF Coming
<1>5. \/ book[h] = "none" /\ book' = book
      \/ book[h] # "none" /\ book' = [book EXCEPT ![h] = AfterMessage(book[h], kind)]
  BY <1>2 DEF HandleMessage
<1>6. FeedTypes'
  <2>1. AfterMessage(book[h], kind) \in BookStates \ {"none"} BY DEF AfterMessage, BookStates
  <2> QED BY <1>t, <1>1, <1>3, <1>5, <2>1 DEF FeedTypes
<1>7. BooksInv'
  <2>1. ASSUME NEW s \in symbols, book[s] = "whole" \/ (s = h /\ kind = "snapshot")
        PROVE  book'[s] = "whole"
    <3>1. s \in FeedSymbols /\ book[s] # "none" BY <1>t DEF FeedTypes
    <3> QED BY <1>t, <1>5, <2>1, <3>1 DEF AfterMessage, FeedTypes
  <2> QED BY <1>t, <1>1, <1>4, <2>1 DEF BooksInv, FeedTypes
<1> QED BY <1>6, <1>7 DEF FeedInv

LEMMA NextFeed == FeedInv /\ [FeedNext]_feedVars => FeedInv'
<1> SUFFICES ASSUME FeedInv, [FeedNext]_feedVars PROVE FeedInv'
  OBVIOUS
<1>t. FeedTypes /\ BooksInv BY DEF FeedInv
<1>1. CASE Connect
  <2>1. FeedTypes' BY <1>1, <1>t DEF Connect, FeedTypes, server
  <2>2. BooksInv' BY <1>1, <1>t DEF Connect, TopicsAtConnect, BooksInv
  <2> QED BY <2>1, <2>2 DEF FeedInv
<1>2. CASE Break
  <2>1. FeedTypes' BY <1>2, <1>t DEF Break, FeedTypes, BookStates
  <2>2. ~connected' BY <1>2 DEF Break
  <2>3. toAdd' # {} => updatingFeed' BY <1>2, <1>t DEF Break, BooksInv
  <2> QED BY <2>1, <2>2, <2>3 DEF FeedInv, BooksInv
<1>3. CASE UpdateReturns
  <2>1. FeedTypes' BY <1>3, <1>t DEF UpdateReturns, FeedTypes, server
  <2>2. BooksInv' BY <1>3, <1>t DEF UpdateReturns, BooksInv, Coming, server
  <2> QED BY <2>1, <2>2 DEF FeedInv
<1>4. ASSUME NEW s \in FeedSymbols, RunSubscribes(s) PROVE FeedInv'
  <2>1. /\ SubscribeTopic(s) /\ toSubscribe' = toSubscribe \ {s}
        /\ UNCHANGED <<symbols, book, connected, toAdd, toRemove, updatingFeed>>
    BY <1>4 DEF RunSubscribes
  <2>2. FeedTypes' BY <1>t, <2>1, SubscribeStep DEF FeedTypes
  <2>3. BooksInv' BY <1>t, <2>1, SubscribeStep DEF BooksInv, FeedTypes
  <2> QED BY <2>2, <2>3 DEF FeedInv
<1>5. ASSUME NEW s \in FeedSymbols, UpdateSubscribes(s) PROVE FeedInv'
  <2>1. /\ s \in toAdd /\ toAdd' = toAdd \ {s}
        /\ UNCHANGED <<symbols, book, connected, toSubscribe, toRemove, updatingFeed>>
    BY <1>5 DEF UpdateSubscribes
  <2>2. CASE connected /\ SubscribeTopic(s)
    <3>1. FeedTypes' BY <1>t, <2>1, <2>2, SubscribeStep DEF FeedTypes
    <3>2. BooksInv' BY <1>t, <2>1, <2>2, SubscribeStep DEF BooksInv, FeedTypes
    <3> QED BY <3>1, <3>2 DEF FeedInv
  <2>3. CASE ~connected /\ UNCHANGED server
    <3>1. FeedTypes' BY <1>t, <2>1, <2>3 DEF FeedTypes, server
    <3>2. BooksInv' BY <1>t, <2>1, <2>3 DEF BooksInv
    <3> QED BY <3>1, <3>2 DEF FeedInv
  <2> QED BY <1>5, <2>2, <2>3 DEF UpdateSubscribes
<1>6. ASSUME NEW s \in FeedSymbols, UpdateUnsubscribes(s) PROVE FeedInv'
  <2>1. /\ s \notin symbols /\ toRemove' = toRemove \ {s}
        /\ doubled \subseteq doubled' \cup {s}
        /\ UNCHANGED <<symbols, book, connected, toSubscribe, toAdd, updatingFeed, onWire, refused>>
    BY <1>6, <1>t DEF UpdateUnsubscribes, FeedTypes, server
  <2>2. FeedTypes' BY <1>t, <2>1 DEF FeedTypes
  <2>3. BooksInv' BY <1>t, <2>1 DEF BooksInv, Coming
  <2> QED BY <2>2, <2>3 DEF FeedInv
<1>7. ASSUME NEW s \in FeedSymbols, ServerSendsDelta(s) PROVE FeedInv'
  <2> DEFINE m == [kind |-> "delta", symbol |-> s]
  <2>1. /\ onWire' = Append(onWire, m)
        /\ UNCHANGED <<symbols, book, connected, toSubscribe, toAdd, toRemove, updatingFeed,
                       doubled, refused>>
    BY <1>7 DEF ServerSendsDelta, requests
  <2>2. m \in Messages BY DEF Messages
  <2> HIDE DEF m
  <2>3. onWire' \in Seq(Messages) /\ \A r : Coming(r) => Coming(r)'
    BY <1>t, <2>1, <2>2 DEF FeedTypes, Coming
  <2>4. FeedTypes' BY <1>t, <2>1, <2>3 DEF FeedTypes
  <2>5. BooksInv' BY <1>t, <2>1, <2>3 DEF BooksInv
  <2> QED BY <2>4, <2>5 DEF FeedInv
<1>8. ASSUME NEW new \in SUBSET FeedSymbols, UpdateSymbols(new) PROVE FeedInv'
  <2>1. /\ symbols' = new /\ book' = BooksAfterUpdate(new)
        /\ toAdd' = new \ symbols /\ toRemove' = symbols \ new /\ updatingFeed' = TRUE
        /\ UNCHANGED <<connected, toSubscribe, onWire, doubled, refused>>
    BY <1>8 DEF UpdateSymbols, server
  <2>2. FeedTypes'
    BY <1>t, <2>1 DEF FeedTypes, BooksAfterUpdate, BookStates
  <2>3. toAdd' # {} => updatingFeed'
    <3>1. updatingFeed' BY <2>1
    <3> QED BY <3>1, Zenon
  <2>4. ASSUME NEW s \in new, connected
        PROVE  \/ s \in toSubscribe \cup toAdd' \cup refused \cup doubled
               \/ Coming(s) \/ book'[s] = "whole"
    <3>1. CASE s \notin symbols BY <2>1, <3>1
    <3>2. CASE s \in symbols
      <4>1. toAdd = {}
        <5>1. ~updatingFeed BY <1>8 DEF UpdateSymbols
        <5> QED BY <1>t, <5>1 DEF BooksInv
      <4>2. book'[s] = book[s] BY <2>1, <3>2 DEF BooksAfterUpdate
      <4> QED BY <1>t, <2>4, <3>2, <4>1, <4>2 DEF BooksInv
    <3> QED BY <3>1, <3>2
  <2>5. \A s : Coming(s)' <=> Coming(s) BY <2>1 DEF Coming
  <2>6. BooksInv' BY <2>1, <2>3, <2>4, <2>5 DEF BooksInv
  <2> QED BY <2>2, <2>6 DEF FeedInv
<1>9. CASE UNCHANGED feedVars
  <2>1. /\ UNCHANGED <<symbols, book, connected, toSubscribe, toAdd, toRemove, updatingFeed>>
        /\ UNCHANGED <<onWire, doubled, refused>>
    BY <1>9 DEF feedVars, requests, server
  <2> QED BY <1>t, <2>1 DEF FeedInv, FeedTypes, BooksInv, Coming
<1> QED
  BY <1>1, <1>2, <1>3, <1>4, <1>5, <1>6, <1>7, <1>8, <1>9, HandleStep DEF FeedNext

LEMMA InitFeed == FeedInit => FeedInv
<1> SUFFICES ASSUME FeedInit PROVE FeedInv
  OBVIOUS
<1>1. FeedTypes BY DEF FeedInit, FeedTypes, BookStates
<1>2. BooksInv BY DEF FeedInit, BooksInv
<1> QED BY <1>1, <1>2 DEF FeedInv

LEMMA FeedAlways == FeedSpec => []FeedInv
  BY InitFeed, NextFeed, PTL DEF FeedSpec

(* The rest of the state: what is shown is watched, requests and the wire  *)
(* are about symbols there are.                                            *)
RequestsInv ==
    /\ shownBooks \subseteq symbols /\ connected \in BOOLEAN /\ updatingFeed \in BOOLEAN
    /\ toSubscribe \subseteq FeedSymbols /\ subscribed \subseteq FeedSymbols
    /\ Len(onWire) <= MaxOnWire
    /\ doubled \subseteq FeedSymbols /\ refused \subseteq FeedSymbols
    /\ updates \in 0..MaxUpdates /\ breaks \in 0..MaxBreaks

LEMMA SubscribeRequest ==
    ASSUME FeedInv, RequestsInv, NEW s \in FeedSymbols, SubscribeTopic(s)
    PROVE  /\ subscribed' \subseteq FeedSymbols /\ Len(onWire') <= MaxOnWire
           /\ doubled' \subseteq FeedSymbols /\ refused' \subseteq FeedSymbols
<1>1. onWire \in Seq(Messages) /\ [kind |-> "snapshot", symbol |-> s] \in Messages
  BY DEF FeedInv, FeedTypes, Messages
<1>2. MaxOnWire \in Nat /\ Len(onWire) \in Nat BY <1>1, MarketFeedAssumption
<1>3. onWire' = Append(onWire, [kind |-> "snapshot", symbol |-> s]) =>
         Len(onWire') = Len(onWire) + 1
  BY <1>1
<1> QED BY <1>2, <1>3 DEF SubscribeTopic, RequestsInv

LEMMA NextRequests == FeedInv /\ RequestsInv /\ [FeedNext]_feedVars => RequestsInv'
<1> SUFFICES ASSUME FeedInv, RequestsInv, [FeedNext]_feedVars PROVE RequestsInv'
  OBVIOUS
<1>n. /\ MaxOnWire \in Nat /\ MaxUpdates \in Nat /\ MaxBreaks \in Nat
      /\ symbols \subseteq FeedSymbols /\ onWire \in Seq(Messages) /\ Len(onWire) \in Nat
  BY MarketFeedAssumption DEF FeedInv, FeedTypes
<1>1. CASE Connect
  <2>1. connected' \in BOOLEAN BY <1>1 DEF Connect
  <2> QED BY <1>1, <1>n, <2>1 DEF Connect, TopicsAtConnect, RequestsInv, server
<1>2. CASE Break
  <2>1. connected' \in BOOLEAN BY <1>2 DEF Break
  <2>2. breaks' \in 0..MaxBreaks BY <1>2, <1>n DEF Break, RequestsInv
  <2>3. Len(onWire') <= MaxOnWire BY <1>2, <1>n DEF Break
  <2> QED BY <1>2, <2>1, <2>2, <2>3 DEF Break, RequestsInv
<1>3. CASE UpdateReturns
  <2>1. updatingFeed' \in BOOLEAN BY <1>3 DEF UpdateReturns
  <2> QED BY <1>3, <2>1 DEF UpdateReturns, RequestsInv, server
<1>4. CASE HandleMessage
  <2>1. /\ onWire # <<>> /\ onWire' = Tail(onWire)
        /\ UNCHANGED <<symbols, connected, toSubscribe, updatingFeed, subscribed, doubled,
                       refused, updates, breaks>>
    BY <1>4 DEF HandleMessage, requests
  <2>2. Len(onWire') <= MaxOnWire
    <3>1. Len(onWire') = Len(onWire) - 1 BY <1>n, <2>1
    <3> QED BY <1>n, <3>1 DEF RequestsInv
  <2>3. Head(onWire) \in Messages BY <1>n, <2>1
  <2>4. shownBooks' \subseteq symbols
    <3>1. Head(onWire).symbol \in FeedSymbols BY <2>3 DEF Messages
    <3>2. book[Head(onWire).symbol] # "none" => Head(onWire).symbol \in symbols
      BY <3>1 DEF FeedInv, FeedTypes
    <3> QED BY <1>4, <3>2 DEF HandleMessage, RequestsInv
  <2> QED BY <2>1, <2>2, <2>4 DEF RequestsInv
<1>5. ASSUME NEW s \in FeedSymbols, RunSubscribes(s) PROVE RequestsInv'
  BY <1>5, SubscribeRequest DEF RunSubscribes, RequestsInv
<1>6. ASSUME NEW s \in FeedSymbols, UpdateSubscribes(s) PROVE RequestsInv'
  BY <1>6, SubscribeRequest DEF UpdateSubscribes, RequestsInv, server
<1>7. ASSUME NEW s \in FeedSymbols, UpdateUnsubscribes(s) PROVE RequestsInv'
  BY <1>7 DEF UpdateUnsubscribes, RequestsInv, server
<1>8. ASSUME NEW s \in FeedSymbols, ServerSendsDelta(s) PROVE RequestsInv'
  <2>1. [kind |-> "delta", symbol |-> s] \in Messages BY DEF Messages
  <2>2. Len(onWire') = Len(onWire) + 1 /\ Len(onWire) < MaxOnWire
    BY <1>8, <1>n, <2>1 DEF ServerSendsDelta
  <2> QED BY <1>8, <1>n, <2>2 DEF ServerSendsDelta, RequestsInv, requests
<1>9. ASSUME NEW new \in SUBSET FeedSymbols, UpdateSymbols(new) PROVE RequestsInv'
  <2>1. updatingFeed' \in BOOLEAN BY <1>9 DEF UpdateSymbols
  <2>2. updates' \in 0..MaxUpdates BY <1>9, <1>n DEF UpdateSymbols, RequestsInv
  <2> QED BY <1>9, <2>1, <2>2 DEF UpdateSymbols, RequestsInv, server
<1>10. CASE UNCHANGED feedVars
  BY <1>10 DEF feedVars, requests, server, RequestsInv
<1> QED
  BY <1>1, <1>2, <1>3, <1>4, <1>5, <1>6, <1>7, <1>8, <1>9, <1>10 DEF FeedNext

LEMMA FeedTypesAlways == FeedSpec => []MarketFeedTypeOK
<1>1. ASSUME FeedInit PROVE RequestsInv
  <2>1. connected \in BOOLEAN /\ updatingFeed \in BOOLEAN BY <1>1 DEF FeedInit
  <2>2. Len(onWire) <= MaxOnWire BY <1>1, MarketFeedAssumption DEF FeedInit
  <2> QED BY <1>1, <2>1, <2>2, MarketFeedAssumption DEF FeedInit, RequestsInv
<1>2. FeedInv /\ RequestsInv => MarketFeedTypeOK
  BY DEF FeedInv, FeedTypes, RequestsInv, MarketFeedTypeOK
<1> QED BY <1>1, <1>2, NextRequests, FeedAlways, PTL DEF FeedSpec

(* Once a reconnect and a universe refresh are both through, every symbol  *)
(* the exchange accepted is priced from a whole book, for any symbols and  *)
(* in whatever order requests, answers and breaks fall.                    *)
THEOREM BooksAreWhole == FeedSpec => []QuietBooksAreWhole
<1>1. ASSUME FeedInv, FeedIsQuiet, onWire = <<>>, NEW s \in symbols \ (refused \cup doubled)
      PROVE  book[s] = "whole"
  <2>1. connected /\ toSubscribe = {} /\ ~updatingFeed BY <1>1 DEF FeedIsQuiet
  <2>2. ~Coming(s) BY <1>1 DEF Coming
  <2> QED BY <1>1, <2>1, <2>2 DEF FeedInv, BooksInv
<1>2. FeedInv => QuietBooksAreWhole BY <1>1 DEF QuietBooksAreWhole
<1> QED BY <1>2, FeedAlways, PTL

-----------------------------------------------------------------------------
(* EventStream.  What a subscriber has yielded, what it has left of the    *)
(* buffer and its queue are one run of numbers that ends with the newest   *)
(* event: `at' is the last number behind it.                               *)
InPlace(yielded, recent, queue, n) ==
    LET at == n - Len(recent) - Len(queue) IN
    /\ yielded \in Seq(Nat) /\ recent \in Seq(Nat) /\ queue \in Seq(Nat)
    /\ at >= Len(yielded)
    /\ \A k \in 1..Len(yielded) : yielded[k] = at - Len(yielded) + k
    /\ \A k \in 1..Len(recent) : recent[k] = at + k
    /\ \A k \in 1..Len(queue) : queue[k] = at + Len(recent) + k

LEMMA QueuePlaces ==
    ASSUME NEW y, NEW r, NEW q, NEW n \in Nat, InPlace(y, r, q, n)
    PROVE  InPlace(y, r, Append(q, n + 1), n + 1)
<1> DEFINE q1 == Append(q, n + 1)
<1>1. /\ q1 \in Seq(Nat) /\ Len(q1) = Len(q) + 1 /\ q1[Len(q) + 1] = n + 1
      /\ \A k \in 1..Len(q) : q1[k] = q[k]
      /\ Len(q) \in Nat /\ Len(r) \in Nat /\ Len(y) \in Nat
  BY DEF InPlace
<1> HIDE DEF q1
<1>2. n + 1 - Len(r) - Len(q1) = n - Len(r) - Len(q) BY <1>1
<1>3. ASSUME NEW k \in 1..Len(q1) PROVE q1[k] = (n - Len(r) - Len(q)) + Len(r) + k
  <2>1. CASE k \in 1..Len(q) BY <1>1, <2>1 DEF InPlace
  <2>2. CASE k \notin 1..Len(q)
    <3>1. k = Len(q) + 1 BY <1>1, <2>2
    <3> QED BY <1>1, <3>1
  <2> QED BY <2>1, <2>2
<1>4. InPlace(y, r, q1, n + 1) BY <1>1, <1>2, <1>3 DEF InPlace
<1> QED BY <1>4 DEF q1

LEMMA RecentPlaces ==
    ASSUME NEW y, NEW r, NEW q, NEW n \in Nat, InPlace(y, r, q, n), r # <<>>
    PROVE  /\ InPlace(Append(y, Head(r)), Tail(r), q, n)
           /\ Head(r) = n - Len(r) - Len(q) + 1
<1> DEFINE y1 == Append(y, Head(r))
           r1 == Tail(r)
<1>1. Head(r) = n - Len(r) - Len(q) + 1 /\ Head(r) \in Nat
  BY DEF InPlace
<1>2. /\ y1 \in Seq(Nat) /\ Len(y1) = Len(y) + 1 /\ y1[Len(y) + 1] = Head(r)
      /\ \A k \in 1..Len(y) : y1[k] = y[k]
      /\ Len(y) \in Nat /\ Len(q) \in Nat
  BY <1>1 DEF InPlace
<1>3. /\ r1 \in Seq(Nat) /\ Len(r1) = Len(r) - 1 /\ Len(r) \in Nat
      /\ \A k \in 1..Len(r1) : r1[k] = r[k + 1]
  BY DEF InPlace
<1> HIDE DEF y1, r1
<1>4. ASSUME NEW k \in 1..Len(y1) PROVE y1[k] = (n - Len(r1) - Len(q)) - Len(y1) + k
  <2>1. CASE k \in 1..Len(y) BY <1>2, <1>3, <2>1 DEF InPlace
  <2>2. CASE k \notin 1..Len(y)
    <3>1. k = Len(y) + 1 BY <1>2, <2>2
    <3> QED BY <1>1, <1>2, <1>3, <3>1
  <2> QED BY <2>1, <2>2
<1>5. \A k \in 1..Len(r1) : r1[k] = (n - Len(r1) - Len(q)) + k
  BY <1>3, <1>2 DEF InPlace
<1>6. \A k \in 1..Len(q) : q[k] = (n - Len(r1) - Len(q)) + Len(r1) + k
  BY <1>3, <1>2 DEF InPlace
<1>7. InPlace(y1, r1, q, n) BY <1>2, <1>3, <1>4, <1>5, <1>6 DEF InPlace
<1> QED BY <1>1, <1>7 DEF y1, r1

LEMMA LivePlaces ==
    ASSUME NEW y, NEW q, NEW n \in Nat, InPlace(y, <<>>, q, n), q # <<>>
    PROVE  /\ InPlace(Append(y, Head(q)), <<>>, Tail(q), n)
           /\ Head(q) = n - Len(q) + 1
<1> DEFINE y1 == Append(y, Head(q))
           q1 == Tail(q)
<1>1. Head(q) = n - Len(q) + 1 /\ Head(q) \in Nat
  BY DEF InPlace
<1>2. /\ y1 \in Seq(Nat) /\ Len(y1) = Len(y) + 1 /\ y1[Len(y) + 1] = Head(q)
      /\ \A k \in 1..Len(y) : y1[k] = y[k]
      /\ Len(y) \in Nat
  BY <1>1 DEF InPlace
<1>3. /\ q1 \in Seq(Nat) /\ Len(q1) = Len(q) - 1 /\ Len(q) \in Nat
      /\ \A k \in 1..Len(q1) : q1[k] = q[k + 1]
  BY DEF InPlace
<1> HIDE DEF y1, q1
<1>4. ASSUME NEW k \in 1..Len(y1) PROVE y1[k] = (n - Len(q1)) - Len(y1) + k
  <2>1. CASE k \in 1..Len(y)
    <3>1. y[k] = (n - 0 - Len(q)) - Len(y) + k BY <2>1 DEF InPlace
    <3> QED BY <1>2, <1>3, <2>1, <3>1
  <2>2. CASE k \notin 1..Len(y)
    <3>1. k = Len(y) + 1 BY <1>2, <2>2
    <3> QED BY <1>1, <1>2, <1>3, <3>1
  <2> QED BY <2>1, <2>2
<1>5. \A k \in 1..Len(q1) : q1[k] = (n - Len(q1)) + k
  BY <1>3, <1>2 DEF InPlace
<1>7. InPlace(y1, <<>>, q1, n) BY <1>2, <1>3, <1>4, <1>5 DEF InPlace
<1> QED BY <1>1, <1>7 DEF y1, q1

(* Where the page is in the stream; while it has none, the last event of   *)
(* the one it had.                                                         *)
At(s) == Published - Len(replay[s]) - Len(inbox[s])
Reached == IF link[Page] = "off" THEN LastShownOrSkipped ELSE At(Page)

IsJob(n) == n = 0 \/ (n \in 1..Published /\ events[n] = "job")

StreamTypes ==
    /\ events \in Seq(Kinds)
    /\ link \in [Subscribers -> {"off", "open", "waits", "gone"}]
    /\ replay \in [Subscribers -> Seq(Nat)]
    /\ inbox \in [Subscribers -> Seq(Nat)]
    /\ seen \in [Subscribers -> Seq(Nat)]
    /\ \A s \in Subscribers : \A k \in 1..Len(seen[s]) : seen[s][k] \in 1..Published

PlacesInv ==
    \A s \in Subscribers :
        /\ link[s] # "off" => InPlace(seen[s], replay[s], inbox[s], Published)
        /\ link[s] = "waits" => replay[s] = <<>>

PageInv ==
    /\ IsJob(shown) /\ IsJob(polled)
    /\ ~overrun => \A n \in 1..Reached : events[n] = "job" => n <= shown

StreamInv == StreamTypes /\ PlacesInv /\ PageInv

LEMMA BufferRange ==
    ASSUME StreamTypes
    PROVE  /\ Published \in Nat /\ RecentFrom \in 1..(Published + 1)
           /\ InPlace(<<>>, RecentEvents, <<>>, Published)
           /\ Len(RecentEvents) = Published - RecentFrom + 1
<1>1. Published \in Nat BY DEF StreamTypes, Published
<1>2. BufferSize \in Nat /\ BufferSize > 0 BY EventStreamAssumption
<1> DEFINE b == Published - BufferSize + 1
<1>3. RecentFrom = IF b >= 1 THEN b ELSE 1
  <2>1. b \in Int BY <1>1, <1>2
  <2> HIDE DEF b
  <2>2. CASE b >= 1
    <3>1. Max({1, b}) = b BY <2>1, <2>2, MaxIsLargest
    <3> QED BY <2>2, <3>1 DEF RecentFrom, b
  <2>3. CASE ~(b >= 1)
    <3>1. Max({1, b}) = 1 BY <2>1, <2>3, MaxIsLargest
    <3> QED BY <2>3, <3>1 DEF RecentFrom, b
  <2> QED BY <2>2, <2>3
<1>4. RecentFrom \in 1..(Published + 1) BY <1>1, <1>2, <1>3
<1>5. /\ RecentEvents \in Seq(Nat) /\ Len(RecentEvents) = Published - RecentFrom + 1
      /\ \A k \in 1..Len(RecentEvents) : RecentEvents[k] = RecentFrom + k - 1
  BY <1>1, <1>4 DEF RecentEvents
<1>6. InPlace(<<>>, RecentEvents, <<>>, Published)
  BY <1>1, <1>4, <1>5 DEF InPlace
<1> QED BY <1>1, <1>4, <1>5, <1>6

LEMMA InitStream == EventStreamInit => StreamInv
<1> SUFFICES ASSUME EventStreamInit PROVE StreamInv
  OBVIOUS
<1>1. /\ events = <<>> /\ shown = 0 /\ polled = 0
      /\ \A s \in Subscribers : link[s] = "off" /\ seen[s] = <<>>
  BY DEF EventStreamInit
<1>2. StreamTypes
  <2>1. <<>> \in Seq(Nat) /\ events \in Seq(Kinds) BY <1>1
  <2>2. /\ link \in [Subscribers -> {"off", "open", "waits", "gone"}]
        /\ replay \in [Subscribers -> Seq(Nat)] /\ inbox \in [Subscribers -> Seq(Nat)]
        /\ seen \in [Subscribers -> Seq(Nat)]
    BY <2>1 DEF EventStreamInit
  <2> QED BY <1>1, <2>1, <2>2 DEF StreamTypes
<1>3. PlacesInv BY <1>1 DEF PlacesInv
<1>4. PageInv
  <2>1. Reached = 0 BY <1>1 DEF Reached, LastShownOrSkipped, Subscribers
  <2> QED BY <1>1, <2>1 DEF PageInv, IsJob
<1> QED BY <1>2, <1>3, <1>4 DEF StreamInv

(* Where a place in the stream is, in numbers.                             *)
LEMMA PlaceNumbers ==
    ASSUME StreamInv, NEW s \in Subscribers
    PROVE  /\ Published \in Nat
           /\ Len(seen[s]) \in Nat /\ Len(replay[s]) \in Nat /\ Len(inbox[s]) \in Nat
           /\ link[s] # "off" => At(s) \in 0..Published
           /\ s = Page => Reached \in 0..Published
<1>1. /\ Published \in Nat
      /\ Len(seen[s]) \in Nat /\ Len(replay[s]) \in Nat /\ Len(inbox[s]) \in Nat
  BY DEF StreamInv, StreamTypes, Published
<1>2. link[s] # "off" => At(s) \in 0..Published
  <2> SUFFICES ASSUME link[s] # "off" PROVE At(s) \in 0..Published
    OBVIOUS
  <2>1. InPlace(seen[s], replay[s], inbox[s], Published) BY DEF StreamInv, PlacesInv
  <2>2. Published - Len(replay[s]) - Len(inbox[s]) >= Len(seen[s]) BY <2>1 DEF InPlace
  <2>3. At(s) = Published - Len(replay[s]) - Len(inbox[s]) BY DEF At
  <2>4. \A a, b, c, d \in Nat : a - b - c >= d => a - b - c \in 0..a OBVIOUS
  <2>5. Published - Len(replay[s]) - Len(inbox[s]) \in 0..Published BY <1>1, <2>2, <2>4
  <2> QED BY <2>3, <2>5
<1>3. s = Page => LastShownOrSkipped \in 0..Published
  <2>1. CASE seen[s] = <<>> BY <1>1, <2>1 DEF LastShownOrSkipped
  <2>2. CASE seen[s] # <<>>
    <3>1. Len(seen[s]) \in 1..Len(seen[s]) BY <1>1, <2>2 DEF StreamInv, StreamTypes
    <3>2. seen[s][Len(seen[s])] \in 1..Published BY <3>1 DEF StreamInv, StreamTypes
    <3> QED BY <1>1, <2>2, <3>2 DEF LastShownOrSkipped, Last
  <2> QED BY <2>1, <2>2
<1> QED BY <1>1, <1>2, <1>3 DEF Reached

(* While a subscription lasts, the page is where the last event it yielded *)
(* was; when it yielded none, behind the buffer it was given.              *)
LEMMA ReachedIsLast ==
    ASSUME StreamInv, link[Page] # "off"
    PROVE  LastShownOrSkipped \in {0, At(Page)}
<1>1. Page \in Subscribers BY DEF Subscribers
<1>2. InPlace(seen[Page], replay[Page], inbox[Page], Published) /\ At(Page) \in Nat
  BY <1>1, PlaceNumbers DEF StreamInv, PlacesInv
<1>3. CASE seen[Page] = <<>> BY <1>3 DEF LastShownOrSkipped
<1>4. CASE seen[Page] # <<>>
  <2>1. Len(seen[Page]) \in 1..Len(seen[Page])
    BY <1>1, <1>4, PlaceNumbers DEF StreamInv, StreamTypes
  <2>2. seen[Page][Len(seen[Page])] = At(Page)
    <3>1. /\ At(Page) = Published - Len(replay[Page]) - Len(inbox[Page])
          /\ Len(seen[Page]) \in Nat
      BY <1>1, PlaceNumbers DEF At
    <3>2. seen[Page][Len(seen[Page])] = At(Page) - Len(seen[Page]) + Len(seen[Page])
      BY <1>2, <2>1, <3>1 DEF InPlace
    <3> QED BY <1>2, <3>1, <3>2
  <2> QED BY <1>4, <2>2 DEF LastShownOrSkipped, Last
<1> QED BY <1>3, <1>4

LEMMA PublishStep == ASSUME StreamInv, NEW kind \in Kinds, Publish(kind) PROVE StreamInv'
<1>t. StreamTypes /\ PlacesInv /\ PageInv BY DEF StreamInv
<1>1. /\ events' = Append(events, kind)
      /\ inbox' = [s \in Subscribers |-> IF s \in Receivers THEN Append(inbox[s], Published + 1)
                                                            ELSE inbox[s]]
      /\ UNCHANGED <<link, replay, seen, shown, polled, overrun>>
  BY DEF Publish
<1>2. /\ events' \in Seq(Kinds) /\ Published \in Nat /\ Published' = Published + 1
      /\ \A n \in 1..Published : events'[n] = events[n]
  BY <1>1, <1>t DEF StreamTypes, Published
<1>3. ASSUME NEW s \in Subscribers
      PROVE  /\ inbox'[s] \in Seq(Nat)
             /\ link[s] # "off" => inbox'[s] = Append(inbox[s], Published + 1)
  BY <1>1, <1>2, <1>t DEF StreamTypes, Receivers
<1>4. StreamTypes'
  <2>1. inbox' \in [Subscribers -> Seq(Nat)] BY <1>1, <1>3
  <2>2. \A s \in Subscribers : \A k \in 1..Len(seen'[s]) : seen'[s][k] \in 1..Published'
    BY <1>1, <1>2, <1>t DEF StreamTypes
  <2> QED BY <1>1, <1>2, <1>t, <2>1, <2>2 DEF StreamTypes
<1>5. PlacesInv'
  BY <1>1, <1>2, <1>3, <1>t, QueuePlaces DEF PlacesInv
<1>6. Page \in Subscribers BY DEF Subscribers
<1>7. Reached' = Reached
  <2>1. CASE link[Page] = "off" BY <1>1, <2>1 DEF Reached, LastShownOrSkipped
  <2>2. CASE link[Page] # "off"
    <3>1. Len(inbox'[Page]) = Len(inbox[Page]) + 1
      BY <1>2, <1>3, <1>6, <2>2, <1>t DEF StreamTypes
    <3>2. Len(inbox[Page]) \in Nat /\ Len(replay[Page]) \in Nat BY <1>6, PlaceNumbers
    <3>3. At(Page)' = At(Page)
      <4>1. Len(replay'[Page]) = Len(replay[Page]) BY <1>1
      <4>2. At(Page)' = Published' - Len(replay'[Page]) - Len(inbox'[Page])
        BY DEF At
      <4>3. Published \in Nat /\ Published' = Published + 1 BY <1>2
      <4>4. Published' - Len(replay'[Page]) - Len(inbox'[Page])
               = Published - Len(replay[Page]) - Len(inbox[Page])
        <5> HIDE DEF At
        <5> QED BY <3>1, <3>2, <4>1, <4>3
      <4> QED BY <4>2, <4>4 DEF At
    <3> QED BY <1>1, <2>2, <3>3 DEF Reached
  <2> QED BY <2>1, <2>2
<1>8. PageInv'
  <2>1. IsJob(shown)' /\ IsJob(polled)'
    <3>1. ASSUME NEW n, IsJob(n) PROVE n = 0 \/ (n \in 1..Published' /\ events'[n] = "job")
      BY <1>2, <3>1 DEF IsJob
    <3>2. IsJob(shown) /\ IsJob(polled) BY <1>t DEF PageInv
    <3>3. shown' = shown /\ polled' = polled BY <1>1
    <3> QED BY <3>1, <3>2, <3>3 DEF IsJob
  <2>2. \A n \in 1..Reached : events'[n] = events[n]
    BY <1>2, <1>6, PlaceNumbers
  <2> QED BY <1>1, <1>7, <1>t, <2>1, <2>2 DEF PageInv
<1> QED BY <1>4, <1>5, <1>8 DEF StreamInv

LEMMA SubscribeStreamStep == ASSUME StreamInv, NEW s \in Subscribers, Subscribe(s) PROVE StreamInv'
<1>t. StreamTypes /\ PlacesInv /\ PageInv BY DEF StreamInv
<1>p. Page \in Subscribers BY DEF Subscribers
<1>1. /\ link[s] = "off" /\ link' = [link EXCEPT ![s] = "open"]
      /\ replay' = [replay EXCEPT ![s] = RecentEvents]
      /\ inbox' = [inbox EXCEPT ![s] = <<>>] /\ seen' = [seen EXCEPT ![s] = <<>>]
      /\ UNCHANGED <<events, shown, polled>>
      /\ overrun' = IF s = Page
                    THEN overrun \/ JobEvents((LastShownOrSkipped + 1)..(RecentFrom - 1)) # {}
                    ELSE overrun
  BY DEF Subscribe
<1>2. /\ Published \in Nat /\ Published' = Published /\ RecentFrom \in 1..(Published + 1)
      /\ InPlace(<<>>, RecentEvents, <<>>, Published)
      /\ Len(RecentEvents) = Published - RecentFrom + 1 /\ RecentEvents \in Seq(Nat)
  BY <1>1, <1>t, BufferRange DEF InPlace, Published
<1>3. /\ link'[s] = "open" /\ replay'[s] = RecentEvents /\ inbox'[s] = <<>> /\ seen'[s] = <<>>
      /\ \A r \in Subscribers \ {s} : /\ link'[r] = link[r] /\ replay'[r] = replay[r]
                                      /\ inbox'[r] = inbox[r] /\ seen'[r] = seen[r]
  BY <1>1, <1>t DEF StreamTypes
<1>4. StreamTypes'
  <2>1. <<>> \in Seq(Nat) OBVIOUS
  <2>2. /\ link' \in [Subscribers -> {"off", "open", "waits", "gone"}]
        /\ replay' \in [Subscribers -> Seq(Nat)] /\ inbox' \in [Subscribers -> Seq(Nat)]
        /\ seen' \in [Subscribers -> Seq(Nat)]
    BY <1>1, <1>2, <1>t, <2>1 DEF StreamTypes
  <2>3. \A r \in Subscribers : \A k \in 1..Len(seen'[r]) : seen'[r][k] \in 1..Published'
    <3>1. 1..Len(seen'[s]) = {} BY <1>3
    <3>2. ASSUME NEW r \in Subscribers \ {s} PROVE \A k \in 1..Len(seen[r]) : seen[r][k] \in 1..Published
      BY <1>t DEF StreamTypes
    <3> QED BY <1>2, <1>3, <3>1, <3>2
  <2> QED BY <1>1, <1>t, <2>2, <2>3 DEF StreamTypes
<1>5. PlacesInv' BY <1>2, <1>3, <1>t DEF PlacesInv
<1>6. IsJob(shown)' /\ IsJob(polled)' BY <1>1, <1>2, <1>t DEF PageInv, IsJob
<1>7. CASE s # Page
  <2>1. Reached' = Reached BY <1>2, <1>3, <1>p, <1>7 DEF Reached, At, LastShownOrSkipped
  <2>2. PageInv' BY <1>1, <1>6, <1>7, <1>t, <2>1 DEF PageInv
  <2> QED BY <1>4, <1>5, <2>2 DEF StreamInv
<1>8. CASE s = Page
  <2>1. Reached' = RecentFrom - 1
    <3>1. /\ Len(inbox'[Page]) = 0 /\ Len(replay'[Page]) = Published - RecentFrom + 1
          /\ link'[Page] # "off"
      BY <1>2, <1>3, <1>8
    <3>2. At(Page)' = Published' - Len(replay'[Page]) - Len(inbox'[Page]) BY DEF At
    <3>3. Reached' = At(Page)' BY <3>1 DEF Reached
    <3> QED BY <1>2, <3>1, <3>2, <3>3
  <2>2. Reached = LastShownOrSkipped /\ Reached \in 0..Published
    BY <1>1, <1>8, <1>p, PlaceNumbers DEF Reached
  <2>3. ASSUME ~overrun', NEW n \in 1..(RecentFrom - 1), events[n] = "job"
        PROVE  n <= shown
    <3>1. ~overrun /\ JobEvents((LastShownOrSkipped + 1)..(RecentFrom - 1)) = {}
      BY <1>1, <1>8, <2>3
    <3>2. n \notin (LastShownOrSkipped + 1)..(RecentFrom - 1)
      BY <2>3, <3>1 DEF JobEvents
    <3>3. n \in 1..Reached BY <1>2, <2>2, <3>2
    <3> QED BY <1>t, <2>3, <3>1, <3>3 DEF PageInv
  <2>4. PageInv' BY <1>1, <1>6, <2>1, <2>3 DEF PageInv
  <2> QED BY <1>4, <1>5, <2>4 DEF StreamInv
<1> QED BY <1>7, <1>8

LEMMA HeadTaken ==
    ASSUME NEW n \in Nat, NEW r \in Seq(Nat), NEW q \in Seq(Nat)
    PROVE  /\ r # <<>> => n - Len(Tail(r)) - Len(q) = (n - Len(r) - Len(q)) + 1
           /\ q # <<>> => n - Len(r) - Len(Tail(q)) = (n - Len(r) - Len(q)) + 1
<1>1. Len(r) \in Nat /\ Len(q) \in Nat OBVIOUS
<1>2. r # <<>> => Len(Tail(r)) = Len(r) - 1 OBVIOUS
<1>3. q # <<>> => Len(Tail(q)) = Len(q) - 1 OBVIOUS
<1>4. \A a, b, c \in Nat : /\ a - (b - 1) - c = (a - b - c) + 1
                           /\ a - b - (c - 1) = (a - b - c) + 1
  OBVIOUS
<1>5. /\ n - (Len(r) - 1) - Len(q) = (n - Len(r) - Len(q)) + 1
      /\ n - Len(r) - (Len(q) - 1) = (n - Len(r) - Len(q)) + 1
  BY <1>1, <1>4, Zenon
<1>6. CASE r # <<>> /\ q # <<>> BY <1>2, <1>3, <1>5, <1>6, Zenon
<1>7. CASE r # <<>> /\ q = <<>> BY <1>2, <1>5, <1>7, Zenon
<1>8. CASE r = <<>> /\ q # <<>> BY <1>3, <1>5, <1>8, Zenon
<1> QED BY <1>6, <1>7, <1>8, Zenon

(* One event yielded to s: whichever of its two sequences it comes from.   *)
LEMMA YieldStep ==
    ASSUME StreamInv, NEW s \in Subscribers, NEW n \in Nat, link[s] # "off", Yield(s, n),
           n = At(s) + 1, n \in 1..Published,
           UNCHANGED <<events, polled, overrun>>,
           link' \in [Subscribers -> {"off", "open", "waits", "gone"}],
           replay' \in [Subscribers -> Seq(Nat)], inbox' \in [Subscribers -> Seq(Nat)],
           link'[s] \notin {"off", "waits"}, InPlace(seen'[s], replay'[s], inbox'[s], Published),
           At(s)' = n,
           \A r \in Subscribers \ {s} :
              link'[r] = link[r] /\ replay'[r] = replay[r] /\ inbox'[r] = inbox[r]
    PROVE  StreamInv'
<1>t. StreamTypes /\ PlacesInv /\ PageInv BY DEF StreamInv
<1>p. Page \in Subscribers BY DEF Subscribers
<1>1. /\ seen' = [seen EXCEPT ![s] = Append(@, n)]
      /\ shown' = IF s = Page THEN SnapshotAfter(n) ELSE shown
  BY DEF Yield
<1>2. Published' = Published /\ Published \in Nat BY <1>p, PlaceNumbers DEF Published
<1>3. /\ seen' \in [Subscribers -> Seq(Nat)]
      /\ seen'[s] = Append(seen[s], n)
      /\ \A r \in Subscribers \ {s} : seen'[r] = seen[r]
  BY <1>1, <1>t DEF StreamTypes
<1>4. StreamTypes'
  <2>1. ASSUME NEW k \in 1..Len(seen'[s]) PROVE seen'[s][k] \in 1..Published
    <3>1. seen[s] \in Seq(Nat) /\ \A j \in 1..Len(seen[s]) : seen[s][j] \in 1..Published
      BY <1>t DEF StreamTypes
    <3>2. /\ Len(seen'[s]) = Len(seen[s]) + 1 /\ Len(seen[s]) \in Nat
          /\ seen'[s][Len(seen[s]) + 1] = n
          /\ \A j \in 1..Len(seen[s]) : seen'[s][j] = seen[s][j]
      BY <1>3, <3>1
    <3>3. k \in 1..Len(seen[s]) \/ k = Len(seen[s]) + 1 BY <2>1, <3>2
    <3>4. CASE k \in 1..Len(seen[s]) BY <3>1, <3>2, <3>4
    <3>5. CASE k = Len(seen[s]) + 1 BY <3>2, <3>5
    <3> QED BY <3>3, <3>4, <3>5
  <2>2. \A r \in Subscribers : \A k \in 1..Len(seen'[r]) : seen'[r][k] \in 1..Published'
    BY <1>2, <1>3, <1>t, <2>1 DEF StreamTypes
  <2> QED BY <1>3, <1>t, <2>2 DEF StreamTypes
<1>5. PlacesInv' BY <1>2, <1>3, <1>t DEF PlacesInv
<1>6. CASE s # Page
  <2>1. Reached' = Reached BY <1>2, <1>3, <1>p, <1>6 DEF Reached, At, LastShownOrSkipped
  <2>2. PageInv' BY <1>1, <1>2, <1>6, <1>t, <2>1 DEF PageInv, IsJob
  <2> QED BY <1>4, <1>5, <2>2 DEF StreamInv
<1>7. CASE s = Page
  <2>1. Reached = At(Page) /\ Reached \in Nat
    BY <1>p, <1>7, PlaceNumbers DEF Reached
  <2>2. Reached' = n
    <3>1. At(Page)' = n BY <1>7
    <3> QED BY <1>7, <3>1 DEF Reached
  <2>3. shown' = IF events[n] = "job" THEN n ELSE shown BY <1>1, <1>7 DEF SnapshotAfter
  <2>4. IsJob(shown)' /\ IsJob(polled)'
    <3>1. \A k : IsJob(k) => k = 0 \/ (k \in 1..Published' /\ events'[k] = "job")
      BY <1>2 DEF IsJob
    <3>2. IsJob(n) \/ events[n] # "job" BY DEF IsJob
    <3>3. IsJob(shown) /\ IsJob(polled) BY <1>t DEF PageInv
    <3>4. polled' = polled OBVIOUS
    <3> QED BY <2>3, <3>1, <3>2, <3>3, <3>4 DEF IsJob
  <2>5. ASSUME ~overrun', NEW k \in 1..n, events[k] = "job" PROVE k <= shown'
    <3>1. CASE k = n BY <2>3, <2>5, <3>1
    <3>2. CASE k # n
      <4>1. k \in 1..Reached /\ k <= n BY <1>7, <2>1, <3>2
      <4>2. k <= shown
        <5>1. ~overrun BY <2>5
        <5> QED BY <1>t, <2>5, <4>1, <5>1 DEF PageInv
      <4> QED BY <2>3, <4>1, <4>2
    <3> QED BY <3>1, <3>2
  <2>6. PageInv' BY <2>2, <2>4, <2>5 DEF PageInv
  <2> QED BY <1>4, <1>5, <2>6 DEF StreamInv
<1> QED BY <1>6, <1>7

LEMMA YieldRecentStep == ASSUME StreamInv, NEW s \in Subscribers, YieldRecent(s) PROVE StreamInv'
<1>t. StreamTypes /\ PlacesInv BY DEF StreamInv
<1>1. /\ link[s] = "open" /\ replay[s] # <<>> /\ Yield(s, Head(replay[s]))
      /\ replay' = [replay EXCEPT ![s] = Tail(@)]
      /\ UNCHANGED <<events, link, inbox, polled, overrun>>
  BY DEF YieldRecent
<1>2. InPlace(seen[s], replay[s], inbox[s], Published) BY <1>1, <1>t DEF PlacesInv
<1>3. /\ InPlace(Append(seen[s], Head(replay[s])), Tail(replay[s]), inbox[s], Published)
      /\ Head(replay[s]) = At(s) + 1
  BY <1>1, <1>2, RecentPlaces, PlaceNumbers DEF At
<1>4. /\ replay[s] \in Seq(Nat) /\ Tail(replay[s]) \in Seq(Nat)
      /\ Len(Tail(replay[s])) = Len(replay[s]) - 1 /\ Len(replay[s]) \in Nat \ {0}
  BY <1>1, <1>t DEF StreamTypes
<1>5. /\ replay' \in [Subscribers -> Seq(Nat)] /\ replay'[s] = Tail(replay[s])
      /\ \A r \in Subscribers \ {s} : replay'[r] = replay[r]
  BY <1>1, <1>4, <1>t DEF StreamTypes
<1>6. seen'[s] = Append(seen[s], Head(replay[s])) BY <1>1, <1>t DEF Yield, StreamTypes
<1>7. Head(replay[s]) \in 1..Published
  <2>1. At(s) = Published - Len(replay[s]) - Len(inbox[s]) BY DEF At
  <2>2. /\ Published \in Nat /\ Len(inbox[s]) \in Nat /\ At(s) \in 0..Published
    BY <1>1, PlaceNumbers
  <2>3. \A a, b, c, d \in Nat : a = b - c - d /\ c # 0 => a + 1 \in 1..b OBVIOUS
  <2>4. At(s) + 1 \in 1..Published
    <3>1. Len(replay[s]) \in Nat /\ Len(replay[s]) # 0 /\ At(s) \in Nat BY <1>4, <2>2
    <3> QED BY <2>1, <2>2, <2>3, <3>1
  <2> QED BY <1>3, <2>4
<1>8. At(s)' = At(s) + 1
  <2>1. /\ replay'[s] = Tail(replay[s]) /\ inbox'[s] = inbox[s]
        /\ replay[s] \in Seq(Nat) /\ inbox[s] \in Seq(Nat)
    BY <1>1, <1>4, <1>5, <1>t DEF StreamTypes
  <2>2. Published' = Published /\ Published \in Nat BY <1>1, PlaceNumbers DEF Published
  <2>3. At(s)' = Published' - Len(replay'[s]) - Len(inbox'[s]) BY DEF At
  <2>4. At(s)' = Published - Len(Tail(replay[s])) - Len(inbox[s])
    BY <2>1, <2>2, <2>3, Zenon
  <2>5. At(s) = Published - Len(replay[s]) - Len(inbox[s]) BY DEF At
  <2> QED BY <1>1, <2>1, <2>2, <2>4, <2>5, HeadTaken, Zenon
<1>9. /\ link' \in [Subscribers -> {"off", "open", "waits", "gone"}] /\ link'[s] \notin {"off", "waits"}
      /\ inbox' \in [Subscribers -> Seq(Nat)] /\ Head(replay[s]) \in Nat
  BY <1>1, <1>t, <1>7 DEF StreamTypes
<1> QED BY <1>1, <1>2, <1>3, <1>5, <1>6, <1>7, <1>8, <1>9, YieldStep

LEMMA YieldLiveStep == ASSUME StreamInv, NEW s \in Subscribers, YieldLive(s) PROVE StreamInv'
<1>t. StreamTypes /\ PlacesInv BY DEF StreamInv
<1>1. /\ link[s] = "waits" /\ inbox[s] # <<>> /\ Yield(s, Head(inbox[s]))
      /\ inbox' = [inbox EXCEPT ![s] = Tail(@)]
      /\ link' = [link EXCEPT ![s] = "open"]
      /\ UNCHANGED <<events, replay, polled, overrun>>
  BY DEF YieldLive
<1>2. replay[s] = <<>> /\ InPlace(seen[s], <<>>, inbox[s], Published)
  BY <1>1, <1>t DEF PlacesInv
<1>4. /\ inbox[s] \in Seq(Nat) /\ Tail(inbox[s]) \in Seq(Nat)
      /\ Len(Tail(inbox[s])) = Len(inbox[s]) - 1 /\ Len(inbox[s]) \in Nat \ {0}
      /\ Len(replay[s]) = 0
  BY <1>1, <1>2, <1>t DEF StreamTypes
<1>3. /\ InPlace(Append(seen[s], Head(inbox[s])), <<>>, Tail(inbox[s]), Published)
      /\ Head(inbox[s]) = At(s) + 1
  BY <1>1, <1>2, <1>4, LivePlaces, PlaceNumbers DEF At
<1>5. /\ inbox' \in [Subscribers -> Seq(Nat)] /\ inbox'[s] = Tail(inbox[s])
      /\ \A r \in Subscribers \ {s} : inbox'[r] = inbox[r]
  BY <1>1, <1>4, <1>t DEF StreamTypes
<1>6. seen'[s] = Append(seen[s], Head(inbox[s])) BY <1>1, <1>t DEF Yield, StreamTypes
<1>7. Head(inbox[s]) \in 1..Published
  <2>1. At(s) = Published - Len(replay[s]) - Len(inbox[s]) BY DEF At
  <2>2. /\ Published \in Nat /\ At(s) \in 0..Published
    BY <1>1, PlaceNumbers
  <2>3. \A a, b, c, d \in Nat : a = b - c - d /\ d # 0 => a + 1 \in 1..b OBVIOUS
  <2>4. At(s) + 1 \in 1..Published BY <1>4, <2>1, <2>2, <2>3
  <2> QED BY <1>3, <2>4
<1>8. At(s)' = At(s) + 1
  <2>1. /\ replay'[s] = replay[s] /\ inbox'[s] = Tail(inbox[s])
        /\ replay[s] \in Seq(Nat) /\ inbox[s] \in Seq(Nat)
    BY <1>1, <1>4, <1>5, <1>t DEF StreamTypes
  <2>2. Published' = Published /\ Published \in Nat BY <1>1, PlaceNumbers DEF Published
  <2>3. At(s)' = Published' - Len(replay'[s]) - Len(inbox'[s]) BY DEF At
  <2>4. At(s)' = Published - Len(replay[s]) - Len(Tail(inbox[s]))
    BY <2>1, <2>2, <2>3, Zenon
  <2>5. At(s) = Published - Len(replay[s]) - Len(inbox[s]) BY DEF At
  <2> QED BY <1>1, <2>1, <2>2, <2>4, <2>5, HeadTaken, Zenon
<1>9. /\ link' \in [Subscribers -> {"off", "open", "waits", "gone"}] /\ link'[s] \notin {"off", "waits"}
      /\ \A r \in Subscribers \ {s} : link'[r] = link[r]
      /\ replay' \in [Subscribers -> Seq(Nat)] /\ Head(inbox[s]) \in Nat
      /\ replay'[s] = replay[s] /\ \A r \in Subscribers \ {s} : replay'[r] = replay[r]
  BY <1>1, <1>t, <1>7 DEF StreamTypes
<1> QED BY <1>1, <1>2, <1>3, <1>5, <1>6, <1>7, <1>8, <1>9, YieldStep

(* The newest event of the job, when none is newer.                        *)
LEMMA LastJobIsLast ==
    ASSUME events \in Seq(Kinds)
    PROVE  /\ IsJob(LastJob(1..Published))
           /\ \A n \in 1..Published : events[n] = "job" => n <= LastJob(1..Published)
           /\ \A n : IsJob(n) /\ (\A k \in 1..Published : events[k] = "job" => k <= n)
                        => n = LastJob(1..Published)
<1> DEFINE J == JobEvents(1..Published)
<1>1. Published \in Nat BY DEF Published
<1>2. J \subseteq 1..Published /\ \A n \in 1..Published : events[n] = "job" <=> n \in J
  BY DEF JobEvents
<1>3. CASE J = {}
  <2>1. LastJob(1..Published) = 0 BY <1>3 DEF LastJob
  <2> QED BY <1>2, <1>3, <2>1 DEF IsJob
<1>4. CASE J # {}
  <2> HIDE DEF J
  <2>0. 1 \in Int /\ Published \in Int BY <1>1
  <2>1. PICK x \in J : \A y \in J : y <= x BY <2>0, <1>2, <1>4, GreatestOfInterval, Zenon
  <2>2. J \subseteq Int BY <1>1, <1>2
  <2>3. LastJob(1..Published) = x BY <1>4, <2>1, <2>2, MaxIsLargest DEF LastJob, J
  <2>4. ASSUME NEW n, IsJob(n), \A k \in 1..Published : events[k] = "job" => k <= n
        PROVE  n = x
    <3>1. x \in 1..Published /\ x <= n BY <1>2, <2>4
    <3>2. n \in 1..Published /\ n \in J BY <1>1, <1>2, <2>4, <3>1 DEF IsJob
    <3>3. n <= x BY <2>1, <3>2
    <3> QED BY <1>1, <3>1, <3>2, <3>3
  <2> QED BY <1>2, <2>1, <2>3, <2>4 DEF IsJob
<1> QED BY <1>3, <1>4

LEMMA NextStream == StreamInv /\ [EventStreamNext]_eventVars => StreamInv'
<1> SUFFICES ASSUME StreamInv, [EventStreamNext]_eventVars PROVE StreamInv'
  OBVIOUS
<1>t. StreamTypes /\ PlacesInv /\ PageInv BY DEF StreamInv
<1>p. Page \in Subscribers BY DEF Subscribers
<1>1. CASE UNCHANGED <<events, replay, inbox, seen, shown, overrun>>
           /\ link' \in [Subscribers -> {"off", "open", "waits", "gone"}]
           /\ (\A s \in Subscribers : /\ link'[s] = "off" <=> link[s] = "off"
                                      /\ link'[s] = "waits" => replay[s] = <<>>)
           /\ IsJob(polled')
  <2>1. Published' = Published BY <1>1 DEF Published
  <2>2. StreamTypes' BY <1>1, <1>t, <2>1 DEF StreamTypes
  <2>3. PlacesInv' BY <1>1, <1>t, <2>1 DEF PlacesInv
  <2>4. Reached' = Reached BY <1>1, <1>p, <2>1 DEF Reached, At, LastShownOrSkipped
  <2>5. IsJob(shown)' /\ IsJob(polled)' BY <1>1, <1>t, <2>1 DEF PageInv, IsJob
  <2>6. PageInv' BY <1>1, <1>t, <2>4, <2>5 DEF PageInv
  <2> QED BY <2>2, <2>3, <2>6 DEF StreamInv
(* A subscription ends.                                                    *)
<1>2. ASSUME NEW s \in Subscribers, link[s] # "off", link' = [link EXCEPT ![s] = "off"],
             replay' \in [Subscribers -> Seq(Nat)], inbox' \in [Subscribers -> Seq(Nat)],
             \A r \in Subscribers \ {s} : replay'[r] = replay[r] /\ inbox'[r] = inbox[r],
             UNCHANGED <<events, seen, shown, polled, overrun>>
      PROVE  StreamInv'
  <2>1. Published' = Published BY <1>2 DEF Published
  <2>2. /\ link'[s] = "off" /\ \A r \in Subscribers \ {s} : link'[r] = link[r]
        /\ link' \in [Subscribers -> {"off", "open", "waits", "gone"}]
    BY <1>2, <1>t DEF StreamTypes
  <2>3. StreamTypes' BY <1>2, <1>t, <2>1, <2>2 DEF StreamTypes
  <2>4. PlacesInv' BY <1>2, <1>t, <2>1, <2>2 DEF PlacesInv
  <2>5. Reached' \in {Reached, 0}
    <3>1. CASE s = Page
      <4>1. Reached' = LastShownOrSkipped BY <1>2, <2>2, <3>1 DEF Reached, LastShownOrSkipped
      <4>2. LastShownOrSkipped \in {0, At(Page)} BY <1>2, <3>1, ReachedIsLast
      <4>3. Reached = At(Page) BY <1>2, <3>1 DEF Reached
      <4> QED BY <4>1, <4>2, <4>3
    <3>2. CASE s # Page
      BY <1>2, <1>p, <2>1, <2>2, <3>2 DEF Reached, At, LastShownOrSkipped
    <3> QED BY <3>1, <3>2
  <2>6. IsJob(shown)' /\ IsJob(polled)' BY <1>2, <1>t, <2>1 DEF PageInv, IsJob
  <2>7. PageInv' BY <1>2, <1>t, <2>5, <2>6 DEF PageInv
  <2> QED BY <2>3, <2>4, <2>7 DEF StreamInv
<1>3. ASSUME NEW s \in Subscribers, Resume(s) PROVE StreamInv'
  <2>1. CASE stopped
    <3>1. <<>> \in Seq(Nat) OBVIOUS
    <3>2. inbox' \in [Subscribers -> Seq(Nat)] /\ \A r \in Subscribers \ {s} : inbox'[r] = inbox[r]
      BY <1>3, <1>t, <2>1, <3>1 DEF Resume, StreamTypes
    <3>3. link[s] # "off" /\ link' = [link EXCEPT ![s] = "off"]
          /\ UNCHANGED <<events, replay, seen, shown, polled, overrun>>
      BY <1>3, <2>1 DEF Resume
    <3> QED BY <1>2, <1>t, <3>2, <3>3 DEF StreamTypes
  <2>2. CASE ~stopped
    <3>1. /\ link[s] = "open" /\ replay[s] = <<>> /\ link' = [link EXCEPT ![s] = "waits"]
          /\ inbox' = inbox /\ UNCHANGED <<events, replay, seen, shown, polled, overrun>>
      BY <1>3, <1>t, <2>2 DEF Resume, StreamTypes
    <3>2. link' \in [Subscribers -> {"off", "open", "waits", "gone"}]
          /\ \A r \in Subscribers : /\ link'[r] = "off" <=> link[r] = "off"
                                    /\ link'[r] = "waits" => replay[r] = <<>>
      BY <1>t, <3>1 DEF StreamTypes, PlacesInv
    <3> QED BY <1>1, <1>t, <3>1, <3>2 DEF PageInv
  <2> QED BY <2>1, <2>2
<1>4. CASE ConnectionBreaks
  <2>1. /\ link[Page] # "off" /\ link' = [link EXCEPT ![Page] = "gone"]
        /\ UNCHANGED <<events, replay, inbox, seen, shown, polled, overrun>>
    BY <1>4 DEF ConnectionBreaks, Listening
  <2>2. link' \in [Subscribers -> {"off", "open", "waits", "gone"}]
        /\ \A r \in Subscribers : /\ link'[r] = "off" <=> link[r] = "off"
                                  /\ link'[r] = "waits" => replay[r] = <<>>
    BY <1>p, <1>t, <2>1 DEF StreamTypes, PlacesInv
  <2> QED BY <1>1, <1>t, <2>1, <2>2 DEF PageInv
<1>5. CASE GeneratorEnds
  <2>1. <<>> \in Seq(Nat) OBVIOUS
  <2>2. /\ replay' \in [Subscribers -> Seq(Nat)] /\ inbox' \in [Subscribers -> Seq(Nat)]
        /\ \A r \in Subscribers \ {Page} : replay'[r] = replay[r] /\ inbox'[r] = inbox[r]
    BY <1>5, <1>p, <1>t, <2>1 DEF GeneratorEnds, StreamTypes
  <2>3. /\ link[Page] # "off" /\ link' = [link EXCEPT ![Page] = "off"]
        /\ UNCHANGED <<events, seen, shown, polled, overrun>>
    BY <1>5 DEF GeneratorEnds
  <2> QED BY <1>2, <1>p, <2>2, <2>3
<1>6. CASE PollJobs
  <2>1. IsJob(polled') BY <1>6, <1>t, LastJobIsLast DEF PollJobs, StreamTypes
  <2>2. UNCHANGED <<events, link, replay, inbox, seen, shown, overrun>> BY <1>6 DEF PollJobs
  <2> QED BY <1>1, <1>t, <2>1, <2>2 DEF StreamTypes, PlacesInv
<1>7. CASE StopPublisher \/ UNCHANGED eventVars
  <2>1. UNCHANGED <<events, link, replay, inbox, seen, shown, polled, overrun>>
    BY <1>7 DEF StopPublisher, eventVars
  <2> QED BY <1>1, <1>t, <2>1 DEF StreamTypes, PlacesInv, PageInv
<1> QED
  BY <1>3, <1>4, <1>5, <1>6, <1>7, PublishStep, SubscribeStreamStep, YieldRecentStep,
     YieldLiveStep
  DEF EventStreamNext

LEMMA StreamAlways == EventStreamSpec => []StreamInv
  BY InitStream, NextStream, PTL DEF EventStreamSpec

(* What is on its way to a subscriber was published, and the buffer that   *)
(* it was given has its size at most.                                      *)
QueuesInv ==
    /\ \A s \in Subscribers : /\ replay[s] \in Seq(1..Published) /\ Len(replay[s]) <= BufferSize
                              /\ inbox[s] \in Seq(1..Published)
    /\ stopped \in BOOLEAN /\ connects \in 0..MaxConnects /\ overrun \in BOOLEAN

LEMMA TailIsIn ==
    ASSUME NEW S, NEW q \in Seq(S), q # <<>>
    PROVE  Tail(q) \in Seq(S) /\ Len(Tail(q)) = Len(q) - 1 /\ Len(q) \in Nat
  OBVIOUS

LEMMA RangeIsIn ==
    ASSUME NEW S, NEW q \in Seq(S) PROVE Range(q) \subseteq S
  BY DEF Range

LEMMA EachIsIn ==
    ASSUME NEW T, NEW S, NEW q \in Seq(T), \A k \in 1..Len(q) : q[k] \in S
    PROVE  q \in Seq(S)
<1>1. Len(q) \in Nat /\ q = [k \in 1..Len(q) |-> q[k]] OBVIOUS
<1>2. q \in [1..Len(q) -> S] BY <1>1
<1> QED BY <1>1, <1>2

LEMMA RecentIsPublished ==
    ASSUME StreamInv
    PROVE  RecentEvents \in Seq(1..Published) /\ Len(RecentEvents) <= BufferSize
<1>1. /\ Published \in Nat /\ RecentFrom \in 1..(Published + 1)
      /\ Len(RecentEvents) = Published - RecentFrom + 1
  BY BufferRange DEF StreamInv
<1>2. RecentEvents \in Seq(1..Published)
  <2>1. RecentEvents \in Seq(Nat) BY <1>1 DEF RecentEvents
  <2>2. ASSUME NEW k \in 1..Len(RecentEvents) PROVE RecentEvents[k] \in 1..Published
    <3>1. RecentEvents[k] = RecentFrom + k - 1 BY <1>1 DEF RecentEvents
    <3> QED BY <1>1, <3>1
  <2> QED BY <2>1, <2>2, EachIsIn
<1>3. Published - RecentFrom + 1 <= BufferSize
  <2>1. BufferSize \in Nat /\ BufferSize > 0 BY EventStreamAssumption
  <2> DEFINE b == Published - BufferSize + 1
  <2>2. b \in Int BY <1>1, <2>1
  <2>3. b <= RecentFrom
    <3> HIDE DEF b
    <3>1. CASE b >= 1
      <4>1. Max({1, b}) = b BY <2>2, <3>1, MaxIsLargest
      <4> QED BY <2>2, <4>1 DEF RecentFrom, b
    <3>2. CASE ~(b >= 1) BY <1>1, <2>2, <3>2
    <3> QED BY <3>1, <3>2
  <2> QED BY <1>1, <2>1, <2>3
<1> QED BY <1>1, <1>2, <1>3

LEMMA NextQueues == StreamInv /\ QueuesInv /\ [EventStreamNext]_eventVars => QueuesInv'
<1> SUFFICES ASSUME StreamInv, QueuesInv, [EventStreamNext]_eventVars PROVE QueuesInv'
  OBVIOUS
<1>n. /\ Published \in Nat /\ BufferSize \in Nat /\ MaxConnects \in Nat
      /\ events \in Seq(Kinds) /\ Page \in Subscribers
      /\ replay \in [Subscribers -> Seq(Nat)] /\ inbox \in [Subscribers -> Seq(Nat)]
  BY BufferRange, EventStreamAssumption DEF StreamInv, StreamTypes, Subscribers
<1>0. ASSUME UNCHANGED <<events, stopped, connects, overrun>>,
             \A s \in Subscribers : /\ replay'[s] \in Seq(1..Published)
                                     /\ Len(replay'[s]) <= BufferSize
                                     /\ inbox'[s] \in Seq(1..Published)
      PROVE  QueuesInv'
  BY <1>0 DEF QueuesInv, Published
<1>1. ASSUME NEW kind \in Kinds, Publish(kind) PROVE QueuesInv'
  <2>1. Published' = Published + 1 BY <1>1, <1>n DEF Publish, Published
  <2>2. \A S : S \in Seq(1..Published) => S \in Seq(1..Published') BY <1>n, <2>1
  <2>3. Published + 1 \in 1..Published' BY <1>n, <2>1
  <2>4. ASSUME NEW s \in Subscribers
        PROVE  /\ replay'[s] \in Seq(1..Published') /\ Len(replay'[s]) <= BufferSize
               /\ inbox'[s] \in Seq(1..Published')
    <3>1. inbox'[s] = inbox[s] \/ inbox'[s] = Append(inbox[s], Published + 1)
      BY <1>1 DEF Publish
    <3>2. replay' = replay BY <1>1 DEF Publish
    <3>3. inbox[s] \in Seq(1..Published') BY <2>2 DEF QueuesInv
    <3>4. Append(inbox[s], Published + 1) \in Seq(1..Published') BY <2>3, <3>3
    <3> QED BY <2>2, <3>1, <3>2, <3>3, <3>4 DEF QueuesInv
  <2> QED BY <1>1, <2>4 DEF Publish, QueuesInv
<1>2. ASSUME NEW s \in Subscribers, Subscribe(s) PROVE QueuesInv'
  <2>1. /\ replay' = [replay EXCEPT ![s] = RecentEvents] /\ inbox' = [inbox EXCEPT ![s] = <<>>]
        /\ connects' = connects + (IF s = Page THEN 1 ELSE 0)
        /\ s = Page => connects < MaxConnects
        /\ UNCHANGED <<events, stopped>>
    BY <1>2 DEF Subscribe
  <2>2. Published' = Published BY <2>1 DEF Published
  <2>3. <<>> \in Seq(1..Published) OBVIOUS
  <2>4. \A r \in Subscribers : /\ replay'[r] \in Seq(1..Published)
                                /\ Len(replay'[r]) <= BufferSize
                                /\ inbox'[r] \in Seq(1..Published)
    BY <1>n, <2>1, <2>3, RecentIsPublished DEF QueuesInv
  <2>5. connects' \in 0..MaxConnects BY <1>n, <2>1 DEF QueuesInv
  <2>6. overrun' \in BOOLEAN BY <1>2 DEF Subscribe, QueuesInv
  <2> QED BY <2>1, <2>2, <2>4, <2>5, <2>6 DEF QueuesInv
<1>3. ASSUME NEW s \in Subscribers, YieldRecent(s) PROVE QueuesInv'
  <2>1. /\ replay[s] # <<>> /\ replay' = [replay EXCEPT ![s] = Tail(@)]
        /\ UNCHANGED <<events, stopped, inbox, connects, overrun>>
    BY <1>3 DEF YieldRecent
  <2>2. replay[s] \in Seq(1..Published) /\ Len(replay[s]) <= BufferSize BY DEF QueuesInv
  <2>3. /\ Tail(replay[s]) \in Seq(1..Published)
        /\ Len(Tail(replay[s])) = Len(replay[s]) - 1 /\ Len(replay[s]) \in Nat
    BY <2>1, <2>2, TailIsIn
  <2>4. Len(Tail(replay[s])) <= BufferSize BY <1>n, <2>2, <2>3
  <2>5. replay'[s] = Tail(replay[s]) /\ \A r \in Subscribers \ {s} : replay'[r] = replay[r]
    BY <1>n, <2>1
  <2> QED BY <1>0, <2>1, <2>3, <2>4, <2>5 DEF QueuesInv
<1>4. ASSUME NEW s \in Subscribers, YieldLive(s) PROVE QueuesInv'
  <2>1. /\ inbox[s] # <<>> /\ inbox' = [inbox EXCEPT ![s] = Tail(@)]
        /\ UNCHANGED <<events, stopped, replay, connects, overrun>>
    BY <1>4 DEF YieldLive
  <2>2. inbox[s] \in Seq(1..Published) BY DEF QueuesInv
  <2>3. Tail(inbox[s]) \in Seq(1..Published) BY <2>1, <2>2, TailIsIn
  <2> QED BY <1>0, <1>n, <2>1, <2>3 DEF QueuesInv
<1>5. ASSUME NEW s \in Subscribers, Resume(s) PROVE QueuesInv'
  <2>1. /\ inbox' = [inbox EXCEPT ![s] = IF stopped THEN <<>> ELSE @]
        /\ UNCHANGED <<events, stopped, replay, connects, overrun>>
    BY <1>5 DEF Resume
  <2>2. <<>> \in Seq(1..Published) OBVIOUS
  <2> QED BY <1>0, <1>n, <2>1, <2>2 DEF QueuesInv
<1>6. CASE GeneratorEnds
  <2>1. /\ replay' = [replay EXCEPT ![Page] = <<>>] /\ inbox' = [inbox EXCEPT ![Page] = <<>>]
        /\ UNCHANGED <<events, stopped, connects, overrun>>
    BY <1>6 DEF GeneratorEnds
  <2>2. <<>> \in Seq(1..Published) /\ Len(<<>>) <= BufferSize BY <1>n
  <2> QED BY <1>0, <1>n, <2>1, <2>2 DEF QueuesInv
<1>7. CASE StopPublisher
  <2>1. stopped' \in BOOLEAN BY <1>7 DEF StopPublisher
  <2> QED BY <1>7, <2>1 DEF StopPublisher, QueuesInv, Published
<1>8. CASE UNCHANGED <<events, stopped, replay, inbox, connects, overrun>>
  BY <1>8 DEF QueuesInv, Published
<1> QED
  BY <1>1, <1>2, <1>3, <1>4, <1>5, <1>6, <1>7, <1>8
  DEF EventStreamNext, ConnectionBreaks, PollJobs, eventVars

LEMMA StreamTypesAlways == EventStreamSpec => []EventStreamTypeOK
<1>1. ASSUME EventStreamInit PROVE QueuesInv
  <2>1. <<>> \in Seq(1..Published) /\ Len(<<>>) <= BufferSize BY EventStreamAssumption
  <2>2. \A s \in Subscribers : replay[s] = <<>> /\ inbox[s] = <<>>
    BY <1>1 DEF EventStreamInit
  <2>3. stopped \in BOOLEAN /\ overrun \in BOOLEAN BY <1>1 DEF EventStreamInit
  <2>4. connects \in 0..MaxConnects BY <1>1, EventStreamAssumption DEF EventStreamInit
  <2> QED BY <2>1, <2>2, <2>3, <2>4 DEF QueuesInv
<1>2. ASSUME StreamInv, QueuesInv PROVE EventStreamTypeOK
  <2>1. ASSUME NEW s \in Subscribers
        PROVE  /\ Range(replay[s]) \cup Range(inbox[s]) \cup Range(seen[s]) \subseteq 1..Published
               /\ Len(replay[s]) <= BufferSize
    <3>1. seen[s] \in Seq(Nat) /\ \A k \in 1..Len(seen[s]) : seen[s][k] \in 1..Published
      BY <1>2 DEF StreamInv, StreamTypes
    <3>2. /\ replay[s] \in Seq(1..Published) /\ inbox[s] \in Seq(1..Published)
          /\ Len(replay[s]) <= BufferSize
      BY <1>2 DEF QueuesInv
    <3>3. Range(replay[s]) \subseteq 1..Published /\ Range(inbox[s]) \subseteq 1..Published
      BY <3>2, RangeIsIn
    <3>4. Range(seen[s]) \subseteq 1..Published BY <3>1 DEF Range
    <3> QED BY <3>2, <3>3, <3>4
  <2>2. shown \in 0..Published /\ polled \in 0..Published
    <3>1. Published \in Nat BY <1>2, BufferRange DEF StreamInv
    <3> QED BY <1>2, <3>1 DEF StreamInv, PageInv, IsJob
  <2> QED BY <1>2, <2>1, <2>2 DEF StreamInv, StreamTypes, QueuesInv, EventStreamTypeOK
<1> QED BY <1>1, <1>2, NextQueues, StreamAlways, PTL DEF EventStreamSpec

(* A subscription gets every event after its first, once and in order, for *)
(* any size of the buffer and any number of events.                        *)
THEOREM StreamsSkipNothing == EventStreamSpec => []NothingSkipped
<1>1. ASSUME StreamInv, NEW s \in Subscribers, Listening(s)
      PROVE  LET all == seen[s] \o replay[s] \o inbox[s] IN
             /\ Consecutive(all)
             /\ Published > 0 /\ all # <<>> => Last(all) = Published
  <2> DEFINE y == seen[s]
             r == replay[s]
             q == inbox[s]
             all == y \o r \o q
  <2>1. /\ InPlace(y, r, q, Published) /\ Published \in Nat
        /\ y \in Seq(Nat) /\ r \in Seq(Nat) /\ q \in Seq(Nat)
    BY <1>1, PlaceNumbers DEF StreamInv, PlacesInv, Listening, StreamTypes
  <2> HIDE DEF y, r, q
  <2>2. /\ Len(all) = Len(y) + Len(r) + Len(q)
        /\ Len(y) \in Nat /\ Len(r) \in Nat /\ Len(q) \in Nat /\ all \in Seq(Nat)
    BY <2>1
  <2>3. ASSUME NEW k \in 1..Len(all)
        PROVE  all[k] = Published - Len(all) + k
    <3>1. CASE k \in 1..Len(y)
      <4>1. all[k] = y[k] BY <2>1, <3>1
      <4>2. y[k] = (Published - Len(r) - Len(q)) - Len(y) + k BY <2>1, <3>1 DEF InPlace
      <4> HIDE DEF all
      <4> QED BY <2>1, <2>2, <4>1, <4>2
    <3>2. CASE k \in (Len(y) + 1)..(Len(y) + Len(r))
      <4>1. all[k] = r[k - Len(y)] /\ k - Len(y) \in 1..Len(r) BY <2>1, <2>2, <3>2
      <4>2. r[k - Len(y)] = (Published - Len(r) - Len(q)) + (k - Len(y)) BY <2>1, <4>1 DEF InPlace
      <4> HIDE DEF all
      <4> QED BY <2>1, <2>2, <4>1, <4>2
    <3>3. CASE k \in (Len(y) + Len(r) + 1)..(Len(y) + Len(r) + Len(q))
      <4>1. /\ all[k] = q[k - Len(y) - Len(r)] /\ k - Len(y) - Len(r) \in 1..Len(q)
        BY <2>1, <2>2, <3>3
      <4>2. q[k - Len(y) - Len(r)]
              = (Published - Len(r) - Len(q)) + Len(r) + (k - Len(y) - Len(r))
        BY <2>1, <4>1 DEF InPlace
      <4> HIDE DEF all
      <4> QED BY <2>1, <2>2, <4>1, <4>2
    <3> HIDE DEF all
    <3> QED BY <2>2, <3>1, <3>2, <3>3
  <2> HIDE DEF all
  <2>4. Consecutive(all) BY <2>1, <2>2, <2>3 DEF Consecutive
  <2>5. all # <<>> => Last(all) = Published BY <2>1, <2>2, <2>3 DEF Last
  <2> QED BY <2>4, <2>5 DEF all, y, r, q
<1>2. StreamInv => NothingSkipped BY <1>1 DEF NothingSkipped
<1> QED BY <1>2, StreamAlways, PTL

(* The page that caught up shows the newest state of the job, however      *)
(* often its connection broke, unless a state left the buffer meanwhile.   *)
THEOREM PageCatchesUp == EventStreamSpec => []PageShowsNewest
<1>1. ASSUME StreamInv, Listening(Page), replay[Page] = <<>>, inbox[Page] = <<>>, ~overrun
      PROVE  Displayed = LastJob(1..Published)
  <2>1. Published \in Nat /\ Len(replay[Page]) = 0 /\ Len(inbox[Page]) = 0
    BY <1>1, PlaceNumbers DEF Subscribers
  <2>2. Reached = Published BY <1>1, <2>1 DEF Reached, At, Listening
  <2>3. /\ IsJob(shown) /\ IsJob(polled)
        /\ \A n \in 1..Published : events[n] = "job" => n <= shown
    BY <1>1, <2>2 DEF StreamInv, PageInv
  <2>4. shown = LastJob(1..Published)
    BY <1>1, <2>3, LastJobIsLast DEF StreamInv, StreamTypes
  <2>5. CASE shown # 0 BY <2>4, <2>5 DEF Displayed
  <2>6. CASE shown = 0
    <3>1. polled = 0 BY <2>1, <2>3, <2>6 DEF IsJob
    <3> QED BY <2>4, <2>6, <3>1 DEF Displayed
  <2> QED BY <2>5, <2>6
<1>2. StreamInv => PageShowsNewest BY <1>1 DEF PageShowsNewest
<1> QED BY <1>2, StreamAlways, PTL

(* The next live event of the page is the one before all others it waits   *)
(* for.                                                                    *)
LEMMA LiveIsNext ==
    ASSUME StreamInv, YieldLive(Page)
    PROVE  Head(inbox[Page]) = Published - Len(inbox[Page]) + 1
<1>1. Page \in Subscribers /\ Published \in Nat BY PlaceNumbers DEF Subscribers
<1>2. link[Page] = "waits" /\ inbox[Page] # <<>> BY DEF YieldLive
<1>3. InPlace(seen[Page], <<>>, inbox[Page], Published)
  BY <1>1, <1>2 DEF StreamInv, PlacesInv
<1> QED BY <1>1, <1>2, <1>3, LivePlaces

(* What the page shows is no newer than the event before its queue, in     *)
(* spite of states shown from an earlier subscription.                     *)
ShownInv == link[Page] # "off" => shown + Len(inbox[Page]) <= Published

LEMMA NextShown == StreamInv /\ ShownInv /\ [EventStreamNext]_eventVars => ShownInv'
<1> SUFFICES ASSUME StreamInv, ShownInv, [EventStreamNext]_eventVars PROVE ShownInv'
  OBVIOUS
<1>n. /\ Published \in Nat /\ Page \in Subscribers /\ events \in Seq(Kinds)
      /\ Len(inbox[Page]) \in Nat /\ Len(replay[Page]) \in Nat
      /\ replay \in [Subscribers -> Seq(Nat)] /\ inbox \in [Subscribers -> Seq(Nat)]
      /\ link \in [Subscribers -> {"off", "open", "waits", "gone"}]
  BY PlaceNumbers DEF Subscribers, StreamInv, StreamTypes
<1>s. shown \in 0..Published BY <1>n DEF StreamInv, PageInv, IsJob
<1>1. ASSUME NEW kind \in Kinds, Publish(kind) PROVE ShownInv'
  <2>1. Published' = Published + 1 BY <1>1, <1>n DEF Publish, Published
  <2>2. link[Page] # "off" => Len(inbox'[Page]) = Len(inbox[Page]) + 1
    <3>1. inbox[Page] \in Seq(Nat) BY <1>n
    <3>2. link[Page] # "off" => inbox'[Page] = Append(inbox[Page], Published + 1)
      BY <1>1, <1>n DEF Publish, Receivers
    <3> QED BY <3>1, <3>2
  <2> QED BY <1>1, <1>n, <1>s, <2>1, <2>2 DEF Publish, ShownInv
<1>2. ASSUME NEW s \in Subscribers, Subscribe(s) PROVE ShownInv'
  <2>1. Published' = Published /\ shown' = shown BY <1>2 DEF Subscribe, Published
  <2>2. CASE s = Page
    <3>1. Len(inbox'[Page]) = 0 BY <1>2, <1>n, <2>2 DEF Subscribe
    <3> QED BY <1>s, <1>n, <2>1, <3>1 DEF ShownInv
  <2>3. CASE s # Page
    <3>1. inbox'[Page] = inbox[Page] /\ link'[Page] = link[Page]
      BY <1>2, <1>n, <2>3 DEF Subscribe
    <3> QED BY <2>1, <3>1 DEF ShownInv
  <2> QED BY <2>2, <2>3
<1>3. ASSUME NEW s \in Subscribers, YieldRecent(s) PROVE ShownInv'
  <2>1. /\ Published' = Published /\ inbox' = inbox /\ link' = link
        /\ shown' = IF s = Page THEN SnapshotAfter(Head(replay[s])) ELSE shown
    BY <1>3 DEF YieldRecent, Yield, Published
  <2>2. CASE s = Page
    <3>1. /\ link[Page] # "off" /\ replay[Page] # <<>> /\ replay[Page] \in Seq(Nat)
          /\ InPlace(seen[Page], replay[Page], inbox[Page], Published)
      BY <1>3, <1>n, <2>2 DEF YieldRecent, StreamInv, PlacesInv
    <3>2. Head(replay[Page]) = (Published - Len(replay[Page]) - Len(inbox[Page])) + 1
      BY <1>n, <3>1, RecentPlaces
    <3>3. Len(replay[Page]) >= 1 BY <3>1
    <3>4. Head(replay[Page]) + Len(inbox[Page]) <= Published BY <1>n, <3>2, <3>3
    <3> QED BY <2>1, <2>2, <3>1, <3>4 DEF SnapshotAfter, ShownInv
  <2> QED BY <2>1, <2>2 DEF ShownInv
<1>4. ASSUME NEW s \in Subscribers, YieldLive(s) PROVE ShownInv'
  <2>1. /\ Published' = Published
        /\ inbox' = [inbox EXCEPT ![s] = Tail(@)] /\ link' = [link EXCEPT ![s] = "open"]
        /\ shown' = IF s = Page THEN SnapshotAfter(Head(inbox[s])) ELSE shown
    BY <1>4 DEF YieldLive, Yield, Published
  <2>2. CASE s = Page
    <3>1. /\ link[Page] # "off" /\ inbox[Page] # <<>> /\ inbox[Page] \in Seq(Nat)
      BY <1>4, <1>n, <2>2 DEF YieldLive
    <3>2. Head(inbox[Page]) = Published - Len(inbox[Page]) + 1
      BY <1>4, <2>2, LiveIsNext
    <3>3. Len(inbox'[Page]) = Len(inbox[Page]) - 1 /\ Len(inbox[Page]) >= 1
      BY <1>n, <2>1, <2>2, <3>1
    <3>4. Head(inbox[Page]) + Len(inbox'[Page]) <= Published BY <1>n, <3>2, <3>3
    <3>5. shown + Len(inbox'[Page]) <= Published BY <1>n, <1>s, <3>1, <3>3 DEF ShownInv
    <3> QED BY <2>1, <2>2, <3>4, <3>5 DEF SnapshotAfter, ShownInv
  <2>3. CASE s # Page
    <3>1. inbox'[Page] = inbox[Page] /\ link'[Page] = link[Page] BY <1>n, <2>1, <2>3
    <3> QED BY <2>1, <2>3, <3>1 DEF ShownInv
  <2> QED BY <2>2, <2>3
<1>5. CASE /\ UNCHANGED <<events, shown>>
           /\ link'[Page] # "off" => link[Page] # "off" /\ inbox'[Page] = inbox[Page]
  BY <1>5 DEF ShownInv, Published
<1>6. ASSUME NEW s \in Subscribers, Resume(s) PROVE ShownInv'
  BY <1>5, <1>6, <1>n DEF Resume
<1>7. CASE ConnectionBreaks BY <1>5, <1>7, <1>n DEF ConnectionBreaks, Listening
<1>8. CASE GeneratorEnds BY <1>5, <1>8, <1>n DEF GeneratorEnds
<1>9. CASE PollJobs \/ StopPublisher \/ UNCHANGED eventVars
  BY <1>5, <1>9 DEF PollJobs, StopPublisher, eventVars
<1> QED BY <1>1, <1>2, <1>3, <1>4, <1>6, <1>7, <1>8, <1>9 DEF EventStreamNext

LEMMA ShownAlways == EventStreamSpec => []ShownInv
<1>1. EventStreamInit => ShownInv BY DEF EventStreamInit, ShownInv, Subscribers
<1> QED BY <1>1, NextShown, StreamAlways, PTL DEF EventStreamSpec

(* The page goes back to an older state of the job only while it replays   *)
(* the buffer after a lost connection: a live event never takes it back.   *)
BackOnlyInReplay == shown' < shown => replay[Page] # <<>>

(* For any size of the buffer, any number of events and of connections.    *)
THEOREM LiveEventsGoForward == EventStreamSpec => [][BackOnlyInReplay]_eventVars
<1>1. StreamInv /\ ShownInv /\ [EventStreamNext]_eventVars => [BackOnlyInReplay]_eventVars
  <2> SUFFICES ASSUME StreamInv, ShownInv, EventStreamNext, shown' < shown
               PROVE  replay[Page] # <<>>
    BY DEF BackOnlyInReplay
  <2>n. /\ Published \in Nat /\ Page \in Subscribers /\ Len(inbox[Page]) \in Nat
        /\ shown \in Nat
    <3>1. Published \in Nat /\ Page \in Subscribers /\ Len(inbox[Page]) \in Nat
      BY PlaceNumbers DEF Subscribers
    <3> QED BY <3>1 DEF StreamInv, PageInv, IsJob
  <2>1. ~(shown' = shown) BY <2>n
  <2>2. YieldRecent(Page) \/ YieldLive(Page)
    BY <2>1
    DEF EventStreamNext, Publish, Subscribe, Resume, ConnectionBreaks, GeneratorEnds,
        PollJobs, StopPublisher, YieldRecent, YieldLive, Yield
  <2>3. CASE YieldRecent(Page) BY <2>3 DEF YieldRecent
  <2>4. CASE YieldLive(Page)
    <3>1. Head(inbox[Page]) = Published - Len(inbox[Page]) + 1 BY <2>4, LiveIsNext
    <3>2. link[Page] # "off" /\ shown' \in {Head(inbox[Page]), shown}
      BY <2>4 DEF YieldLive, Yield, SnapshotAfter
    <3>3. shown' = Head(inbox[Page]) BY <2>1, <3>2
    <3>4. shown + Len(inbox[Page]) <= Published BY <3>2 DEF ShownInv
    <3>5. \A a, b, c \in Nat : a + b <= c => ~(c - b + 1 < a) OBVIOUS
    <3>6. ~(Published - Len(inbox[Page]) + 1 < shown) BY <2>n, <3>4, <3>5, Zenon
    <3> QED BY <3>1, <3>3, <3>6
  <2> QED BY <2>2, <2>3, <2>4
<1> QED BY <1>1, StreamAlways, ShownAlways, PTL DEF EventStreamSpec

-----------------------------------------------------------------------------
(* SchemaBootstrap.  The statements of the migrations, one by one, then    *)
(* what the programs that go through them leave in the database.           *)

(* The columns of a table that some migration indexes.                     *)
Indexed(t) ==
    CASE t = "account_snapshots"            -> {"snapshot_kind"}
      [] t \in {"spot_fills", "futures_fills"} -> {"exec_time_ms"}
      [] t = "signals"                      -> {"model_scope"}
      [] OTHER                              -> {}

(* What the proof needs of a statement of migration v: only 14 and 15      *)
(* alter tables, which 5 and 3 create; an index comes after its table,     *)
(* which is created with what is indexed.                                  *)
Sound(v, i) ==
    LET st == MIGRATIONS[v][i] IN
    /\ st.op \in {"create", "index", "drop", "add"}
    /\ st.cols # {} /\ Absent \cap st.cols = {}
    /\ st.op = "create" => Indexed(st.table) \subseteq st.cols
    /\ st.op = "index" => /\ v < 14 /\ i > 1 /\ st.table # "price_history"
                          /\ st.cols \subseteq Indexed(st.table)
                          /\ MIGRATIONS[v][i - 1].op = "create"
                          /\ MIGRATIONS[v][i - 1].table = st.table
    /\ st.op = "drop" => v = 14 /\ st.table = "price_history"
    /\ st.op = "add" => v = 15 /\ st.table = "futures_fills"

Whole(v) ==
    /\ MIGRATIONS[v] \in Seq(Range(MIGRATIONS[v])) /\ Len(MIGRATIONS[v]) \in Nat \ {0}
    /\ DOMAIN MIGRATIONS[v] = 1..Len(MIGRATIONS[v])
    /\ \A i \in DOMAIN MIGRATIONS[v] : Sound(v, i)

(* A migration that only creates a table, and one that indexes it, too.    *)
Creates(m, t, cols) ==
    m[1] = [op |-> "create", table |-> t, cols |-> cols] /\ "no such table" \notin cols

LoneTable(m, t, cols) ==
    /\ m \in Seq(Range(m)) /\ Len(m) = 1 /\ DOMAIN m = 1..1 /\ Creates(m, t, cols)
    /\ Indexed(t) = {} /\ cols # {}

TableAndIndex(m, t, cols, c) ==
    /\ m \in Seq(Range(m)) /\ Len(m) = 2 /\ DOMAIN m = 1..2 /\ Creates(m, t, cols)
    /\ m[2] = [op |-> "index", table |-> t, cols |-> {c}]
    /\ Indexed(t) = {c} /\ c \in cols /\ t # "price_history"

LEMMA LoneTableIsWhole ==
    ASSUME NEW v, NEW t, NEW cols, LoneTable(MIGRATIONS[v], t, cols)
    PROVE  Whole(v)
<1> DEFINE st == MIGRATIONS[v][1]
<1>1. st = [op |-> "create", table |-> t, cols |-> cols] BY DEF LoneTable, Creates
<1>2. Absent \cap cols = {} BY DEF LoneTable, Creates, Absent
<1>3. Indexed(t) = {} /\ cols # {} BY DEF LoneTable
<1>4. Sound(v, 1)
  <2>1. st.op = "create" /\ st.table = t /\ st.cols = cols BY <1>1
  <2> HIDE DEF st
  <2> QED BY <2>1, <1>2, <1>3 DEF Sound, st
<1> QED BY <1>4 DEF LoneTable, Whole

LEMMA TableAndIndexAreWhole ==
    ASSUME NEW v \in 1..13, NEW t, NEW cols, NEW c, TableAndIndex(MIGRATIONS[v], t, cols, c)
    PROVE  Whole(v)
<1>1. /\ MIGRATIONS[v][1] = [op |-> "create", table |-> t, cols |-> cols]
      /\ MIGRATIONS[v][2] = [op |-> "index", table |-> t, cols |-> {c}]
  BY DEF TableAndIndex, Creates
<1>2. Absent \cap cols = {} /\ Absent \cap {c} = {} BY DEF TableAndIndex, Creates, Absent
<1>3. Indexed(t) = {c} /\ c \in cols /\ t # "price_history" BY DEF TableAndIndex
<1>4. /\ MIGRATIONS[v][1].op = "create" /\ MIGRATIONS[v][1].table = t
      /\ MIGRATIONS[v][1].cols = cols
      /\ MIGRATIONS[v][2].op = "index" /\ MIGRATIONS[v][2].table = t
      /\ MIGRATIONS[v][2].cols = {c}
  BY <1>1
<1>5. Sound(v, 1) BY <1>2, <1>3, <1>4 DEF Sound
<1>6. Sound(v, 2) BY <1>2, <1>3, <1>4 DEF Sound
<1> QED BY <1>5, <1>6 DEF TableAndIndex, Whole

(* The fifteen migrations, statement by statement.                         *)
LEMMA MigrationsAreSound ==
    DOMAIN MIGRATIONS = Versions /\ \A v \in Versions : Whole(v)
<1>1. DOMAIN MIGRATIONS = Versions BY DEF MIGRATIONS, Versions
<1>2. Whole(1) /\ Whole(2) /\ Whole(4)
  <2>1. /\ MIGRATIONS[1] = CoreTables /\ MIGRATIONS[2] = SpotTables
        /\ MIGRATIONS[4] = LifecycleTables
    BY DEF MIGRATIONS
  <2>2. TableAndIndex(CoreTables, "account_snapshots", {"snapshot_kind", "total_equity"},
                      "snapshot_kind")
    BY DEF TableAndIndex, Creates, CoreTables, Create, Index, Indexed, Range
  <2>3. TableAndIndex(SpotTables, "spot_fills", {"exec_price", "exec_time_ms"}, "exec_time_ms")
    BY DEF TableAndIndex, Creates, SpotTables, Create, Index, Indexed, Range
  <2>4. TableAndIndex(LifecycleTables, "signals", {"signal_id", "model_scope"}, "model_scope")
    BY DEF TableAndIndex, Creates, LifecycleTables, Create, Index, Indexed, Range
  <2> QED BY <2>1, <2>2, <2>3, <2>4, TableAndIndexAreWhole
<1>3. Whole(3)
  <2>1. MIGRATIONS[3] = FuturesTables BY DEF MIGRATIONS
  <2>2. /\ FuturesTables \in Seq(Range(FuturesTables))
        /\ Len(FuturesTables) = 3 /\ DOMAIN FuturesTables = 1..3
    BY DEF FuturesTables, Range
  <2>3. /\ FuturesTables[1] = [op |-> "create", table |-> "futures_fills",
                               cols |-> {"exec_price", "exec_time_ms"}]
        /\ FuturesTables[2] = [op |-> "index", table |-> "futures_fills",
                               cols |-> {"exec_time_ms"}]
        /\ FuturesTables[3] = [op |-> "create", table |-> "futures_funding_events",
                               cols |-> {"funding_rate"}]
    BY DEF FuturesTables, Create, Index
  <2>4. Sound(3, 1) BY <2>1, <2>3 DEF Sound, Absent, Indexed
  <2>5. Sound(3, 2) BY <2>1, <2>3 DEF Sound, Absent, Indexed
  <2>6. Sound(3, 3) BY <2>1, <2>3 DEF Sound, Absent, Indexed
  <2> QED BY <2>1, <2>2, <2>4, <2>5, <2>6 DEF Whole
<1>4. Whole(5) /\ Whole(6) /\ Whole(7) /\ Whole(8) /\ Whole(9)
  <2>1. /\ MIGRATIONS[5] = HistoryTable /\ MIGRATIONS[6] = AppLogs
        /\ MIGRATIONS[7] = BotSettings /\ MIGRATIONS[8] = MlRuns
        /\ MIGRATIONS[9] = TelegramLog
    BY DEF MIGRATIONS
  <2>2. LoneTable(HistoryTable, "price_history", {"open_time_ms", "created_at_utc"})
    BY DEF LoneTable, Creates, HistoryTable, Create, Indexed, Range
  <2>3. LoneTable(AppLogs, "app_logs", {"message"})
    BY DEF LoneTable, Creates, AppLogs, Create, Indexed, Range
  <2>4. LoneTable(BotSettings, "bot_settings", {"value"})
    BY DEF LoneTable, Creates, BotSettings, Create, Indexed, Range
  <2>5. LoneTable(MlRuns, "ml_training_runs", {"run_id"})
    BY DEF LoneTable, Creates, MlRuns, Create, Indexed, Range
  <2>6. LoneTable(TelegramLog, "telegram_commands", {"command"})
    BY DEF LoneTable, Creates, TelegramLog, Create, Indexed, Range
  <2> QED BY <2>1, <2>2, <2>3, <2>4, <2>5, <2>6, LoneTableIsWhole
<1>5. Whole(10) /\ Whole(11) /\ Whole(12) /\ Whole(13)
  <2>1. /\ MIGRATIONS[10] = LabeledSamples /\ MIGRATIONS[11] = RegistryTable
        /\ MIGRATIONS[12] = LabelingStatus /\ MIGRATIONS[13] = OrderbookTable
    BY DEF MIGRATIONS
  <2>2. LoneTable(LabeledSamples, "labeled_samples", {"label"})
    BY DEF LoneTable, Creates, LabeledSamples, Create, Indexed, Range
  <2>3. LoneTable(RegistryTable, "symbol_registry", {"candle_count"})
    BY DEF LoneTable, Creates, RegistryTable, Create, Indexed, Range
  <2>4. LoneTable(LabelingStatus, "symbol_labeling_status", {"labeled_count"})
    BY DEF LoneTable, Creates, LabelingStatus, Create, Indexed, Range
  <2>5. LoneTable(OrderbookTable, "orderbook_snapshots", {"ts_ms"})
    BY DEF LoneTable, Creates, OrderbookTable, Create, Indexed, Range
  <2> QED BY <2>1, <2>2, <2>3, <2>4, <2>5, LoneTableIsWhole
<1>6. Whole(14) /\ Whole(15)
  <2>1. MIGRATIONS[14] = DropCreatedAt /\ MIGRATIONS[15] = AddClosedPnl
    BY DEF MIGRATIONS
  <2>2. /\ DropCreatedAt \in Seq(Range(DropCreatedAt))
        /\ AddClosedPnl \in Seq(Range(AddClosedPnl))
        /\ Len(DropCreatedAt) = 1 /\ DOMAIN DropCreatedAt = 1..1
        /\ Len(AddClosedPnl) = 1 /\ DOMAIN AddClosedPnl = 1..1
    BY DEF DropCreatedAt, AddClosedPnl, Range
  <2>3. /\ DropCreatedAt[1] = [op |-> "drop", table |-> "price_history",
                               cols |-> {"created_at_utc"}]
        /\ AddClosedPnl[1] = [op |-> "add", table |-> "futures_fills",
                              cols |-> {"closed_pnl"}]
    BY DEF DropCreatedAt, AddClosedPnl, Drop, AddCol
  <2>4. Sound(14, 1) BY <2>1, <2>3 DEF Sound, Absent
  <2>5. Sound(15, 1) BY <2>1, <2>3 DEF Sound, Absent
  <2> QED BY <2>1, <2>2, <2>4, <2>5 DEF Whole
<1> QED BY <1>1, <1>2, <1>3, <1>4, <1>5, <1>6 DEF Versions

(* Every statement of a migration is about a table of the schema.          *)
LEMMA TablesExist ==
    \A v \in Versions : \A i \in DOMAIN MIGRATIONS[v] : MIGRATIONS[v][i].table \in SchemaTables
  BY MigrationsAreSound DEF SchemaTables, Range

(* What the ensure functions create and index.                             *)
Ensured ==
    {"account_snapshots", "spot_fills", "futures_fills", "futures_funding_events", "signals"}

Ensures(st) ==
    /\ st.op \in {"create", "index"} /\ st.table \in Ensured
    /\ st.cols # {} /\ Absent \cap st.cols = {}

(* Two lists of ensuring statements, one after the other.                  *)
LEMMA Joined ==
    ASSUME NEW S, NEW a \in Seq(S), NEW b \in Seq(S),
           \A i \in 1..Len(a) : Ensures(a[i]), \A i \in 1..Len(b) : Ensures(b[i])
    PROVE  /\ a \o b \in Seq(S) /\ Len(a \o b) = Len(a) + Len(b)
           /\ \A i \in 1..Len(a \o b) : Ensures((a \o b)[i])
<1>1. Len(a) \in Nat /\ Len(b) \in Nat /\ Len(a \o b) = Len(a) + Len(b) OBVIOUS
<1>2. ASSUME NEW i \in 1..Len(a \o b) PROVE Ensures((a \o b)[i])
  <2>1. CASE i <= Len(a)
    <3>1. (a \o b)[i] = a[i] BY <1>1, <2>1
    <3> QED BY <1>1, <2>1, <3>1
  <2>2. CASE i > Len(a)
    <3>1. (a \o b)[i] = b[i - Len(a)] BY <1>1, <2>2
    <3>2. i - Len(a) \in 1..Len(b) BY <1>1, <2>2
    <3> QED BY <3>1, <3>2
  <2> QED BY <1>1, <2>1, <2>2
<1> QED BY <1>1, <1>2

(* The ensure functions only create and index tables the migrations know,  *)
(* too.                                                                    *)
LEMMA EnsureIsSound ==
    /\ Len(EnsureSchema) \in Nat \ {0} /\ DOMAIN EnsureSchema = 1..Len(EnsureSchema)
    /\ Ensured \subseteq SchemaTables
    /\ \A i \in 1..Len(EnsureSchema) : Ensures(EnsureSchema[i])
<1> DEFINE Stores == UNION {Range(EnsureCore), Range(EnsureSpot), Range(EnsureFutures),
                            Range(EnsureLifecycle)}
<1>1. Ensured \subseteq SchemaTables
  <2>1. /\ MIGRATIONS[1] = CoreTables /\ MIGRATIONS[2] = SpotTables
        /\ MIGRATIONS[3] = FuturesTables /\ MIGRATIONS[4] = LifecycleTables
    BY DEF MIGRATIONS
  <2>2. /\ MIGRATIONS[1][1].table = "account_snapshots" /\ 1 \in DOMAIN MIGRATIONS[1]
        /\ MIGRATIONS[2][1].table = "spot_fills" /\ 1 \in DOMAIN MIGRATIONS[2]
        /\ MIGRATIONS[3][1].table = "futures_fills" /\ 1 \in DOMAIN MIGRATIONS[3]
        /\ MIGRATIONS[3][3].table = "futures_funding_events" /\ 3 \in DOMAIN MIGRATIONS[3]
        /\ MIGRATIONS[4][1].table = "signals" /\ 1 \in DOMAIN MIGRATIONS[4]
    BY <2>1 DEF CoreTables, SpotTables, FuturesTables, LifecycleTables, Create
  <2> QED BY <2>2, TablesExist DEF Versions, Ensured
<1>2. \A t, cols : t \in Ensured /\ cols # {} /\ "no such table" \notin cols =>
          Ensures([op |-> "create", table |-> t, cols |-> cols])
  BY DEF Ensures, Absent
<1>3. \A t, c : t \in Ensured /\ c # "no such table" =>
          Ensures([op |-> "index", table |-> t, cols |-> {c}])
  BY DEF Ensures, Absent
<1>4. EnsureCore \in Seq(Stores) /\ \A i \in 1..Len(EnsureCore) : Ensures(EnsureCore[i])
  <2>1. Len(EnsureCore) = 2 /\ DOMAIN EnsureCore = 1..2 BY DEF EnsureCore
  <2>2. Ensures(EnsureCore[1]) /\ Ensures(EnsureCore[2])
    BY <1>2, <1>3 DEF EnsureCore, Create, Index, Ensured
  <2> QED BY <2>1, <2>2 DEF EnsureCore, Range
<1>5. EnsureSpot \in Seq(Stores) /\ \A i \in 1..Len(EnsureSpot) : Ensures(EnsureSpot[i])
  <2>1. Len(EnsureSpot) = 2 /\ DOMAIN EnsureSpot = 1..2 BY DEF EnsureSpot
  <2>2. Ensures(EnsureSpot[1]) /\ Ensures(EnsureSpot[2])
    BY <1>2, <1>3 DEF EnsureSpot, Create, Index, Ensured
  <2> QED BY <2>1, <2>2 DEF EnsureSpot, Range
<1>6. EnsureFutures \in Seq(Stores) /\ \A i \in 1..Len(EnsureFutures) : Ensures(EnsureFutures[i])
  <2>1. Len(EnsureFutures) = 4 /\ DOMAIN EnsureFutures = 1..4 BY DEF EnsureFutures
  <2>2. /\ Ensures(EnsureFutures[1]) /\ Ensures(EnsureFutures[2])
        /\ Ensures(EnsureFutures[3]) /\ Ensures(EnsureFutures[4])
    BY <1>2, <1>3 DEF EnsureFutures, Create, Index, Ensured
  <2> QED BY <2>1, <2>2 DEF EnsureFutures, Range
<1>7. /\ EnsureLifecycle \in Seq(Stores)
      /\ \A i \in 1..Len(EnsureLifecycle) : Ensures(EnsureLifecycle[i])
  <2>1. Len(EnsureLifecycle) = 1 /\ DOMAIN EnsureLifecycle = 1..1 BY DEF EnsureLifecycle
  <2>2. Ensures(EnsureLifecycle[1])
    BY <1>2, <1>3 DEF EnsureLifecycle, Create, Index, Ensured
  <2> QED BY <2>1, <2>2 DEF EnsureLifecycle, Range
<1>8. /\ EnsureSchema \in Seq(Stores) /\ Len(EnsureSchema) # 0
      /\ \A i \in 1..Len(EnsureSchema) : Ensures(EnsureSchema[i])
  <2> HIDE DEF Stores
  <2>1. Len(EnsureCore) = 2 /\ Len(EnsureSpot) \in Nat BY <1>5 DEF EnsureCore
  <2> DEFINE a == EnsureCore \o EnsureSpot
             b == a \o EnsureFutures
  <2>2. /\ a \in Seq(Stores) /\ Len(a) = 2 + Len(EnsureSpot)
        /\ \A i \in 1..Len(a) : Ensures(a[i])
    BY <1>4, <1>5, <2>1, Joined
  <2> HIDE DEF a
  <2>3. /\ b \in Seq(Stores) /\ Len(b) = Len(a) + Len(EnsureFutures)
        /\ \A i \in 1..Len(b) : Ensures(b[i])
    BY <1>6, <2>2, Joined
  <2> HIDE DEF b
  <2>4. /\ b \o EnsureLifecycle \in Seq(Stores)
        /\ Len(b \o EnsureLifecycle) = Len(b) + Len(EnsureLifecycle)
        /\ \A i \in 1..Len(b \o EnsureLifecycle) : Ensures((b \o EnsureLifecycle)[i])
    BY <1>7, <2>3, Joined
  <2>5. EnsureSchema = b \o EnsureLifecycle BY DEF EnsureSchema, a, b
  <2>6. Len(EnsureFutures) \in Nat /\ Len(EnsureLifecycle) \in Nat BY <1>6, <1>7
  <2>7. Len(EnsureSchema) # 0 BY <2>1, <2>2, <2>3, <2>4, <2>5, <2>6
  <2> QED BY <2>4, <2>5, <2>7
<1> QED
  <2>1. Len(EnsureSchema) \in Nat /\ DOMAIN EnsureSchema = 1..Len(EnsureSchema)
    BY <1>8
  <2> QED BY <1>1, <1>8, <2>1

-----------------------------------------------------------------------------
(* What an executed statement brought about lasts; a dropped column only   *)
(* where its table exists, else the table could still be created with it.  *)
Lasts(st) == Holds(st) /\ (st.op = "drop" => Exists(st.table))

Done(v) == v \in swallowed \/ \A i \in DOMAIN MIGRATIONS[v] : Lasts(MIGRATIONS[v][i])

SchemaTypes ==
    /\ SchemaTypeOK
    /\ schema \in [SchemaTables -> {schema[t] : t \in SchemaTables}]
    /\ \A p \in Programs : pending[p] = {} => line[p] = 1

(* A runner leaves out what is marked, goes through the rest in order, and *)
(* what it is past in its version has been done.                           *)
RunnersInv ==
    \A p \in Programs : p # Trading /\ pending[p] # {} =>
        /\ Versions \ pending[p] \subseteq marked
        /\ \A v \in pending[p] : Applies(p, v) =>
              \/ v \in swallowed
              \/ \A i \in DOMAIN MIGRATIONS[v] : i < line[p] => Lasts(MIGRATIONS[v][i])

MarksInv == \A v \in marked : Done(v) /\ 1..(v - 1) \subseteq marked

(* Without the trading loop every table has the columns that are indexed.  *)
ColumnsInv ==
    ~traded => /\ raised = {} /\ pending[Trading] = {}
               /\ \A t \in SchemaTables : Exists(t) => Indexed(t) \subseteq schema[t]

SchemaInv == SchemaTypes /\ RunnersInv /\ MarksInv /\ ColumnsInv

LEMMA InitSchema == ASSUME SchemaInit PROVE SchemaInv
<1>1. \A p \in Programs : pending[p] = {} /\ line[p] = 1 BY DEF SchemaInit
<1>2. SchemaTypeOK
  <2>1. /\ pending \in [Programs -> SUBSET ({0} \cup Versions)]
        /\ line \in [Programs -> Nat \ {0}]
    BY DEF SchemaInit
  <2>2. (\A t \in SchemaTables : schema[t] = Absent) /\ starts \in 0..MaxBootstraps
    BY SchemaAssumption DEF SchemaInit
  <2>3. traded \in BOOLEAN BY Zenon DEF SchemaInit
  <2> QED BY <1>1, <2>1, <2>2, <2>3 DEF SchemaInit, SchemaTypeOK
<1>3. schema \in [SchemaTables -> {schema[t] : t \in SchemaTables}] BY DEF SchemaInit
<1>4. ColumnsInv BY <1>1 DEF SchemaInit, ColumnsInv, Exists, Programs
<1> QED
  BY <1>1, <1>2, <1>3, <1>4 DEF SchemaInit, SchemaInv, SchemaTypes, RunnersInv, MarksInv

(* Where p is in its script.                                               *)
LEMMA StatementOf ==
    ASSUME SchemaInv, NEW p \in Programs, NEW v \in {0} \cup Versions, Applies(p, v)
    PROVE  /\ line[p] \in Nat \ {0} /\ line[p] <= Len(Script(v)) /\ Len(Script(v)) \in Nat
           /\ v = 0 <=> p = Trading
           /\ v # 0 => /\ Len(Script(v)) = Len(MIGRATIONS[v]) + 1
                       /\ Stmt(p, v).op = "mark" <=> line[p] = Len(Script(v))
                       /\ line[p] # Len(Script(v)) =>
                             /\ line[p] \in DOMAIN MIGRATIONS[v]
                             /\ Stmt(p, v) = MIGRATIONS[v][line[p]]
                             /\ Sound(v, line[p])
           /\ v = 0 => Ensures(Stmt(p, v)) /\ Stmt(p, v).op # "mark"
           /\ Stmt(p, v).op # "mark" => Stmt(p, v).table \in SchemaTables
<1>1. /\ v \in pending[p] /\ line[p] \in DOMAIN Script(v) /\ line[p] \in Nat \ {0}
      /\ pending[p] \subseteq (IF p = Trading THEN {0} ELSE Versions)
  BY DEF SchemaInv, SchemaTypes, SchemaTypeOK, Applies
<1>2. v = 0 <=> p = Trading BY <1>1 DEF Versions
<1>3. CASE v = 0
  <2>1. Script(v) = EnsureSchema BY <1>3 DEF Script
  <2>2. Ensures(Stmt(p, v)) BY <1>1, <2>1, EnsureIsSound DEF Stmt
  <2>3. Stmt(p, v).op # "mark" /\ Stmt(p, v).table \in SchemaTables
    BY <2>2, EnsureIsSound DEF Ensures
  <2>4. line[p] <= Len(Script(v)) /\ Len(Script(v)) \in Nat BY <1>1, <2>1, EnsureIsSound
  <2> QED BY <1>1, <1>2, <1>3, <2>2, <2>3, <2>4
<1>4. CASE v # 0
  <2>1. v \in Versions /\ Script(v) = Append(MIGRATIONS[v], Mark) BY <1>4 DEF Script, ApplyThenMark
  <2>2. Whole(v) BY <2>1, MigrationsAreSound
  <2> DEFINE m == MIGRATIONS[v]
             n == Len(m)
  <2>3. m \in Seq(Range(m)) /\ n \in Nat BY <2>2 DEF Whole
  <2>4. /\ Len(Script(v)) = n + 1 /\ Script(v)[n + 1] = Mark /\ DOMAIN Script(v) = 1..(n + 1)
        /\ \A i \in 1..n : Script(v)[i] = m[i]
    <3> HIDE DEF m
    <3> QED BY <2>1, <2>3 DEF m
  <2>5. line[p] \in 1..(n + 1) /\ Len(Script(v)) \in Nat BY <1>1, <2>3, <2>4
  <2>6. CASE line[p] = n + 1
    <3>1. Stmt(p, v).op = "mark" BY <2>4, <2>6 DEF Stmt, Mark
    <3> QED BY <1>1, <1>2, <1>4, <2>4, <2>5, <2>6, <3>1
  <2>7. CASE line[p] # n + 1
    <3>1. line[p] \in 1..n BY <2>3, <2>5, <2>7
    <3>2. line[p] \in DOMAIN m /\ Stmt(p, v) = m[line[p]] /\ Sound(v, line[p])
      BY <2>2, <2>4, <3>1 DEF Stmt, Whole
    <3>3. Stmt(p, v).op # "mark" BY <3>2 DEF Sound
    <3>4. Stmt(p, v).table \in SchemaTables BY <2>1, <3>2, TablesExist
    <3> QED BY <1>1, <1>2, <1>4, <2>4, <2>5, <2>7, <3>2, <3>3, <3>4
  <2> QED BY <2>6, <2>7
<1> QED BY <1>3, <1>4

(* Whoever comes to a version finds a first statement.                     *)
LEMMA ScriptsStart ==
    \A v \in {0} \cup Versions :
        Len(Script(v)) \in Nat \ {0} /\ DOMAIN Script(v) = 1..Len(Script(v))
<1>1. ASSUME NEW v \in Versions
      PROVE  Len(Script(v)) \in Nat \ {0} /\ DOMAIN Script(v) = 1..Len(Script(v))
  <2> DEFINE m == MIGRATIONS[v]
  <2>1. Script(v) = Append(m, Mark) BY DEF Script, ApplyThenMark, Versions
  <2>2. m \in Seq(Range(m)) BY MigrationsAreSound DEF Whole
  <2> HIDE DEF m
  <2> QED BY <2>1, <2>2
<1>2. Script(0) = EnsureSchema BY DEF Script
<1> QED BY <1>1, <1>2, EnsureIsSound

(* A statement does what it is for, keeps every table and the columns of   *)
(* all but price_history, and keeps the indexed columns in place.          *)
LEMMA ExecuteEffect ==
    ASSUME SchemaInv, NEW p \in Programs, NEW v \in {0} \cup Versions, Execute(p, v)
    PROVE  /\ schema' \in [SchemaTables -> {schema'[t] : t \in SchemaTables}]
           /\ \A t \in SchemaTables :
                 /\ schema'[t] = Absent \/ Absent \cap schema'[t] = {}
                 /\ Exists(t) => Exists(t)'
                 /\ Exists(t) /\ t # "price_history" => schema[t] \subseteq schema'[t]
                 /\ Exists(t) /\ t = "price_history" => schema'[t] \subseteq schema[t]
                 /\ v # 0 /\ (Exists(t) => Indexed(t) \subseteq schema[t]) =>
                       (Exists(t)' => Indexed(t) \subseteq schema'[t])
           /\ v # 0 => \A s : s = Stmt(p, v) => Lasts(s)'
<1> DEFINE st == Stmt(p, v)
           tab == st.table
<1>1. /\ Applies(p, v) /\ st.op # "mark" /\ Accepts(st)
      /\ schema' = [schema EXCEPT ![tab] = ColumnsAfter(st)]
  BY DEF Execute
<1>2. /\ tab \in SchemaTables
      /\ v # 0 => Sound(v, line[p]) /\ st = MIGRATIONS[v][line[p]]
      /\ v = 0 => Ensures(st)
  BY <1>1, StatementOf
<1>3. /\ st.op \in {"create", "index", "drop", "add"}
      /\ st.cols # {} /\ Absent \cap st.cols = {}
      /\ st.op = "drop" => tab = "price_history"
      /\ st.op = "add" => tab = "futures_fills"
      /\ v = 0 => st.op \in {"create", "index"}
      /\ v # 0 /\ st.op = "create" => Indexed(tab) \subseteq st.cols
  BY <1>2 DEF Sound, Ensures
<1>4. /\ schema \in [SchemaTables -> {schema[t] : t \in SchemaTables}]
      /\ \A t \in SchemaTables : schema[t] = Absent \/ Absent \cap schema[t] = {}
  BY DEF SchemaInv, SchemaTypes, SchemaTypeOK
<1> HIDE DEF st
<1>5. /\ schema' \in [SchemaTables -> {schema'[t] : t \in SchemaTables}]
      /\ schema'[tab] = ColumnsAfter(st)
      /\ \A t \in SchemaTables : t # tab => schema'[t] = schema[t]
  BY <1>1, <1>2, <1>4
<1>6. Indexed("price_history") = {} BY DEF Indexed
<1>7. st.op = "drop" \/ st.op = "add" => Exists(tab)
  <2>1. ASSUME st.op = "drop" \/ st.op = "add" PROVE v \in {14, 15}
    BY <1>2, <1>3, <2>1 DEF Sound
  <2>2. ASSUME v \in {14, 15} PROVE {3, 5} \subseteq marked
    <3>1. p # Trading /\ pending[p] # {} BY <1>1, <2>2, StatementOf DEF Applies
    <3>2. Versions \ pending[p] \subseteq marked BY <3>1 DEF SchemaInv, RunnersInv
    <3>3. 3 \notin pending[p] /\ 5 \notin pending[p] BY <1>1, <2>2 DEF Applies
    <3> QED BY <3>2, <3>3 DEF Versions
  <2>3. \A u \in {3, 5} : u \in marked =>
            1 \in DOMAIN MIGRATIONS[u] /\ Lasts(MIGRATIONS[u][1])
    <3>1. swallowed \subseteq {14, 15} BY DEF SchemaInv, SchemaTypes, SchemaTypeOK
    <3>2. \A u \in {3, 5} : /\ Len(MIGRATIONS[u]) \in Nat \ {0}
                            /\ DOMAIN MIGRATIONS[u] = 1..Len(MIGRATIONS[u])
      <4>1. Whole(3) /\ Whole(5) BY MigrationsAreSound DEF Versions
      <4> QED BY <4>1 DEF Whole
    <3> QED BY <3>1, <3>2 DEF SchemaInv, MarksInv, Done
  <2>4. /\ MIGRATIONS[3][1].op = "create" /\ MIGRATIONS[3][1].table = "futures_fills"
        /\ MIGRATIONS[5][1].op = "create" /\ MIGRATIONS[5][1].table = "price_history"
    BY DEF MIGRATIONS, FuturesTables, HistoryTable, Create
  <2>5. {3, 5} \subseteq marked => Exists("futures_fills") /\ Exists("price_history")
    BY <2>3, <2>4 DEF Lasts, Holds
  <2> QED BY <1>3, <2>1, <2>2, <2>5
<1>8. \A t \in SchemaTables : schema'[t] = Absent \/ Absent \cap schema'[t] = {}
  <2>1. ColumnsAfter(st) = Absent \/ Absent \cap ColumnsAfter(st) = {}
    BY <1>2, <1>3, <1>4 DEF ColumnsAfter, Exists
  <2> QED BY <1>4, <1>5, <2>1
<1>9. \A t \in SchemaTables : Exists(t) => schema'[t] # Absent
  <2>1. Exists(tab) => ColumnsAfter(st) # Absent
    <3>1. Exists(tab) => Absent \cap schema[tab] = {} BY <1>2, <1>4 DEF Exists
    <3>2. Absent # {} BY DEF Absent
    <3> QED BY <1>3, <3>1, <3>2 DEF ColumnsAfter, Exists
  <2> QED BY <1>5, <2>1 DEF Exists
<1>10. \A t \in SchemaTables :
          /\ Exists(t) /\ t # "price_history" => schema[t] \subseteq schema'[t]
          /\ Exists(t) /\ t = "price_history" => schema'[t] \subseteq schema[t]
  <2>1. /\ Exists(tab) /\ tab # "price_history" => schema[tab] \subseteq ColumnsAfter(st)
        /\ Exists(tab) /\ tab = "price_history" => ColumnsAfter(st) \subseteq schema[tab]
    BY <1>3 DEF ColumnsAfter
  <2> QED BY <1>5, <2>1
<1>11. ASSUME NEW t \in SchemaTables, v # 0, Exists(t) => Indexed(t) \subseteq schema[t],
              schema'[t] # Absent
       PROVE  Indexed(t) \subseteq schema'[t]
  <2>1. CASE Exists(t) BY <1>6, <1>10, <1>11, <2>1
  <2>2. CASE ~Exists(t)
    <3>1. t = tab /\ st.op = "create" /\ schema'[t] = st.cols
      BY <1>1, <1>2, <1>3, <1>5, <1>7, <1>11, <2>2 DEF ColumnsAfter, Exists
    <3> QED BY <1>3, <1>11, <3>1
  <2> QED BY <2>1, <2>2
<1>12. ASSUME v # 0, NEW s, s = st PROVE Lasts(s)'
  <2>1. /\ s.op = "create" => schema'[s.table] # Absent
        /\ s.op = "index" \/ s.op = "add" => s.cols \subseteq schema'[s.table]
        /\ s.op = "drop" => s.cols \cap schema'[s.table] = {} /\ schema'[s.table] # Absent
    <3>1. /\ s.op = "create" => ColumnsAfter(s) # Absent
          /\ s.op = "index" \/ s.op = "add" => s.cols \subseteq ColumnsAfter(s)
          /\ s.op = "drop" => s.cols \cap ColumnsAfter(s) = {}
      BY <1>1, <1>3, <1>7, <1>12 DEF ColumnsAfter, Accepts, Exists, Absent
    <3>2. s.op = "drop" => schema'[s.table] # Absent BY <1>2, <1>7, <1>9, <1>12
    <3> QED BY <1>5, <1>12, <3>1, <3>2
  <2>2. s.op \in {"create", "index", "drop", "add"} BY <1>3, <1>12
  <2> QED BY <2>1, <2>2 DEF Lasts, Holds, Exists
<1>13. \A t \in SchemaTables : Exists(t)' <=> schema'[t] # Absent BY DEF Exists
<1> HIDE DEF tab
<1> QED BY <1>5, <1>8, <1>9, <1>10, <1>11, <1>12, <1>13 DEF st

(* What a statement brought about is not undone by another one.            *)
LEMMA EffectsLast ==
    ASSUME SchemaInv,
           \A t \in SchemaTables :
              /\ Exists(t) => Exists(t)'
              /\ Exists(t) /\ t # "price_history" => schema[t] \subseteq schema'[t]
              /\ Exists(t) /\ t = "price_history" => schema'[t] \subseteq schema[t],
           NEW v \in Versions, NEW i \in DOMAIN MIGRATIONS[v], Lasts(MIGRATIONS[v][i])
    PROVE  Lasts(MIGRATIONS[v][i])'
<1>1. Whole(v) /\ MIGRATIONS[v][i].table \in SchemaTables BY MigrationsAreSound, TablesExist
<1>2. Sound(v, i) BY <1>1 DEF Whole
<1> PICK st : st = MIGRATIONS[v][i] OBVIOUS
<1>3. /\ st.op \in {"create", "index", "drop", "add"} /\ st.table \in SchemaTables
      /\ st.cols # {} /\ Absent \cap st.cols = {}
      /\ st.op = "drop" => st.table = "price_history"
      /\ st.op \in {"index", "add"} => st.table # "price_history"
  BY <1>1, <1>2 DEF Sound
<1>4. /\ st.op = "create" => Exists(st.table)
      /\ st.op \in {"index", "add"} => st.cols \subseteq schema[st.table]
      /\ st.op = "drop" => Exists(st.table) /\ st.cols \cap schema[st.table] = {}
  BY <1>3 DEF Lasts, Holds
<1>5. st.op \in {"index", "add"} => Exists(st.table) BY <1>3, <1>4 DEF Exists
<1>6. /\ st.op = "create" => Exists(st.table)'
      /\ st.op \in {"index", "add"} => st.cols \subseteq schema'[st.table]
      /\ st.op = "drop" => Exists(st.table)' /\ st.cols \cap schema'[st.table] = {}
  BY <1>3, <1>4, <1>5
<1> QED BY <1>3, <1>6 DEF Lasts, Holds

(* A program goes on: where it is then.                                    *)
LEMMA GoOnPlace ==
    ASSUME SchemaInv, NEW p \in Programs, NEW v \in {0} \cup Versions,
           Applies(p, v), GoOn(p, v)
    PROVE  /\ pending' \in [Programs -> SUBSET ({0} \cup Versions)]
           /\ line' \in [Programs -> Nat \ {0}]
           /\ \A q \in Programs :
                 /\ pending'[q] \subseteq pending[q]
                 /\ pending'[q] = {} => line'[q] = 1
                 /\ \A w \in pending'[q] : Applies(q, w)' => line'[q] \in DOMAIN Script(w)
                 /\ q # p => pending'[q] = pending[q] /\ line'[q] = line[q]
           /\ \/ line[p] < Len(Script(v)) /\ line'[p] = line[p] + 1 /\ pending'[p] = pending[p]
              \/ line[p] = Len(Script(v)) /\ line'[p] = 1 /\ pending'[p] = pending[p] \ {v}
<1>1. /\ pending \in [Programs -> SUBSET ({0} \cup Versions)]
      /\ line \in [Programs -> Nat \ {0}]
      /\ \A q \in Programs :
            /\ pending[q] = {} => line[q] = 1
            /\ \A w \in pending[q] : Applies(q, w) => line[q] \in DOMAIN Script(w)
  BY DEF SchemaInv, SchemaTypes, SchemaTypeOK
<1>2. line[p] \in Nat \ {0} /\ line[p] <= Len(Script(v)) /\ Len(Script(v)) \in Nat
  BY StatementOf
<1>3. /\ pending' \in [Programs -> SUBSET ({0} \cup Versions)]
      /\ line' \in [Programs -> Nat \ {0}]
      /\ \A q \in Programs : q # p => pending'[q] = pending[q] /\ line'[q] = line[q]
      /\ \/ line[p] < Len(Script(v)) /\ line'[p] = line[p] + 1 /\ pending'[p] = pending[p]
         \/ line[p] = Len(Script(v)) /\ line'[p] = 1 /\ pending'[p] = pending[p] \ {v}
  BY <1>1, <1>2 DEF GoOn
<1>4. v \in pending[p] BY DEF Applies
<1>5. \A q \in Programs : pending'[q] \subseteq pending[q] /\ (pending'[q] = {} => line'[q] = 1)
  BY <1>1, <1>3, <1>4
<1>6. ASSUME NEW q \in Programs, NEW w \in pending'[q], Applies(q, w)'
      PROVE  line'[q] \in DOMAIN Script(w)
  <2>1. w \in {0} \cup Versions BY <1>3
  <2>2. CASE q # p
    <3>1. pending'[q] = pending[q] /\ line'[q] = line[q] BY <1>3, <2>2
    <3>2. Applies(q, w) BY <1>6, <3>1 DEF Applies
    <3>3. w \in pending[q] BY <3>2 DEF Applies
    <3>4. line[q] \in DOMAIN Script(w) BY <1>1, <3>2, <3>3
    <3> QED BY <3>1, <3>4
  <2>3. CASE q = p /\ line'[p] = 1
    <3>1. Len(Script(w)) \in Nat \ {0} /\ DOMAIN Script(w) = 1..Len(Script(w))
      BY <2>1, ScriptsStart
    <3>2. 1 \in DOMAIN Script(w) BY <3>1
    <3> QED BY <2>3, <3>2
  <2>4. CASE q = p /\ line[p] < Len(Script(v)) /\ line'[p] = line[p] + 1 /\ pending'[p] = pending[p]
    <3>1. w = v
      <4>1. v <= w /\ w <= v BY <1>6, <2>4 DEF Applies
      <4> QED BY <2>1, <4>1 DEF Versions
    <3> QED BY <1>2, <2>4, <3>1, ScriptsStart
  <2> QED BY <1>3, <2>2, <2>3, <2>4
<1> QED BY <1>3, <1>5, <1>6

(* What runners know about their place, when one of them has gone on.      *)
LEMMA RunnersGoOn ==
    ASSUME SchemaInv, NEW p \in Programs, NEW v \in {0} \cup Versions,
           Applies(p, v), GoOn(p, v),
           marked \subseteq marked', swallowed \subseteq swallowed',
           \A w \in Versions : \A i \in DOMAIN MIGRATIONS[w] :
               Lasts(MIGRATIONS[w][i]) => Lasts(MIGRATIONS[w][i])',
           v # 0 /\ line[p] = Len(Script(v)) => v \in marked',
           v # 0 /\ line[p] # Len(Script(v)) =>
               v \in swallowed' \/ \A s : s = Stmt(p, v) => Lasts(s)'
    PROVE  RunnersInv'
<1> SUFFICES ASSUME NEW q \in Programs, q # Trading, pending'[q] # {}
             PROVE  /\ Versions \ pending'[q] \subseteq marked'
                    /\ \A w \in pending'[q] : Applies(q, w)' =>
                          \/ w \in swallowed'
                          \/ \A i \in DOMAIN MIGRATIONS[w] :
                                i < line'[q] => Lasts(MIGRATIONS[w][i])'
  BY DEF RunnersInv
<1>1. /\ pending'[q] \subseteq pending[q] /\ pending[q] \subseteq Versions
      /\ Versions \ pending[q] \subseteq marked
      /\ \A w \in pending[q] : Applies(q, w) =>
            \/ w \in swallowed
            \/ \A i \in DOMAIN MIGRATIONS[w] : i < line[q] => Lasts(MIGRATIONS[w][i])
  <2>1. pending'[q] \subseteq pending[q] BY GoOnPlace
  <2> QED BY <2>1 DEF SchemaInv, RunnersInv, SchemaTypes, SchemaTypeOK
<1>2. CASE q # p
  <2>1. pending'[q] = pending[q] /\ line'[q] = line[q] BY <1>2, GoOnPlace
  <2>2. \A w : Applies(q, w)' <=> Applies(q, w) BY <2>1 DEF Applies
  <2> QED BY <1>1, <2>1, <2>2
<1>3. CASE q = p
  <2>1. v # 0 /\ v \in Versions BY <1>3, StatementOf
  <2>2. CASE line[p] < Len(Script(v)) /\ line'[p] = line[p] + 1 /\ pending'[p] = pending[p]
    <3>1. \A w : Applies(q, w)' <=> Applies(q, w) BY <1>3, <2>2 DEF Applies
    <3>2. ASSUME NEW w \in pending'[q], Applies(q, w)
          PROVE  \/ w \in swallowed'
                 \/ \A i \in DOMAIN MIGRATIONS[w] : i < line'[q] => Lasts(MIGRATIONS[w][i])'
      <4>1. w = v
        <5>1. w \in pending[p] /\ v \in pending[p] BY <1>3, <2>2, Zenon DEF Applies
        <5>2. v <= w BY <5>1, Zenon DEF Applies
        <5>3. w <= v BY <1>3, <3>2, <5>1, Zenon DEF Applies
        <5>4. w \in Int /\ v \in Int BY <1>1, <1>3, <5>1 DEF Versions
        <5> QED BY <5>2, <5>3, <5>4
      <4>2. line[p] # Len(Script(v)) /\ line[p] \in Nat
        <5>1. line[p] \in Nat /\ Len(Script(v)) \in Nat BY StatementOf, Zenon
        <5> QED BY <2>2, <5>1
      <4>3. Stmt(p, v) = MIGRATIONS[v][line[p]] BY <2>1, <4>2, StatementOf, Zenon
      <4>4. DOMAIN MIGRATIONS[v] \subseteq Nat BY <2>1, MigrationsAreSound DEF Whole
      <4>5. ASSUME v \notin swallowed', NEW i \in DOMAIN MIGRATIONS[v], i < line'[q]
            PROVE  Lasts(MIGRATIONS[v][i])'
        <5>1. i = line[p] \/ i < line[p] BY <1>3, <2>2, <4>2, <4>4, <4>5
        <5>2. CASE i = line[p]
          <6>1. MIGRATIONS[v][i] = Stmt(p, v) BY <4>3, <5>2
          <6> QED BY <2>1, <4>2, <4>5, <6>1, Zenon
        <5>3. CASE i < line[p]
          <6>1. v \notin swallowed BY <4>5
          <6>2. Lasts(MIGRATIONS[v][i])
            <7>1. v \in pending[q] /\ Applies(q, v) BY <1>3, Zenon DEF Applies
            <7> QED BY <1>1, <1>3, <5>3, <6>1, <7>1, Zenon
          <6> QED BY <2>1, <6>2, Zenon
        <5> QED BY <5>1, <5>2, <5>3
      <4> QED BY <4>1, <4>5, Zenon
    <3> QED BY <1>1, <1>3, <2>2, <3>1, <3>2
  <2>3. CASE line[p] = Len(Script(v)) /\ line'[p] = 1 /\ pending'[p] = pending[p] \ {v}
    <3>1. \A w \in Versions : \A i \in DOMAIN MIGRATIONS[w] : ~(i < 1)
      BY MigrationsAreSound DEF Whole
    <3> QED BY <1>1, <1>3, <2>1, <2>3, <3>1
  <2> QED BY <1>3, <2>2, <2>3, GoOnPlace
<1> QED BY <1>2, <1>3

(* The types, but for the variables that the actions treat differently.    *)
LEMMA TypesGoOn ==
    ASSUME SchemaInv, NEW p \in Programs, NEW v \in {0} \cup Versions,
           Applies(p, v), GoOn(p, v),
           starts' = starts, traded' = traded, raised' = raised,
           marked' \subseteq Versions, swallowed' \subseteq {14, 15},
           schema' \in [SchemaTables -> {schema'[t] : t \in SchemaTables}],
           \A t \in SchemaTables : schema'[t] = Absent \/ Absent \cap schema'[t] = {}
    PROVE  SchemaTypes'
<1>1. /\ starts \in 0..MaxBootstraps /\ raised \subseteq Programs
      /\ \A q \in Programs : pending[q] \subseteq (IF q = Trading THEN {0} ELSE Versions)
  BY DEF SchemaInv, SchemaTypes, SchemaTypeOK
<1>2. traded' \in BOOLEAN BY Zenon DEF SchemaInv, SchemaTypes, SchemaTypeOK
<1>3. \A q \in Programs : pending'[q] \subseteq (IF q = Trading THEN {0} ELSE Versions)
  BY <1>1, GoOnPlace
<1>4. /\ pending' \in [Programs -> SUBSET ({0} \cup Versions)]
      /\ line' \in [Programs -> Nat \ {0}]
      /\ \A q \in Programs : \A w \in pending'[q] : Applies(q, w)' => line'[q] \in DOMAIN Script(w)
      /\ \A q \in Programs : pending'[q] = {} => line'[q] = 1
  BY GoOnPlace
<1>5. starts' \in 0..MaxBootstraps /\ raised' \subseteq Programs BY <1>1
<1> QED BY <1>2, <1>3, <1>4, <1>5 DEF SchemaTypes, SchemaTypeOK

LEMMA BootstrapKeeps == ASSUME SchemaInv, NEW p \in Programs, Bootstrap(p) PROVE SchemaInv'
<1>1. /\ pending \in [Programs -> SUBSET ({0} \cup Versions)]
      /\ line \in [Programs -> Nat \ {0}] /\ starts \in Nat
      /\ raised \subseteq Programs
      /\ \A q \in Programs :
            /\ pending[q] \subseteq (IF q = Trading THEN {0} ELSE Versions)
            /\ pending[q] = {} => line[q] = 1
            /\ \A w \in pending[q] : Applies(q, w) => line[q] \in DOMAIN Script(w)
  BY DEF SchemaInv, SchemaTypes, SchemaTypeOK
<1>2. /\ pending[p] = {} /\ starts < MaxBootstraps /\ starts' = starts + 1
      /\ schema' = schema /\ marked' = marked /\ line' = line /\ swallowed' = swallowed
      /\ raised' \subseteq raised
      /\ pending' = [pending EXCEPT ![p] = IF p = Trading THEN {0} ELSE Versions \ marked]
  BY DEF Bootstrap
<1>3. traded' <=> (traded \/ p = Trading) BY Zenon DEF Bootstrap
<1>4. /\ pending' \in [Programs -> SUBSET ({0} \cup Versions)]
      /\ pending'[p] = (IF p = Trading THEN {0} ELSE Versions \ marked)
      /\ \A q \in Programs : q # p => pending'[q] = pending[q]
      /\ line'[p] = 1
  BY <1>1, <1>2
<1>5. \A q \in Programs : \A w : q # p => (Applies(q, w)' <=> Applies(q, w))
  BY <1>2, <1>4 DEF Applies
<1>6. SchemaTypes'
  <2>1. \A q \in Programs : \A w \in pending'[q] : Applies(q, w)' => line'[q] \in DOMAIN Script(w)
    <3>1. \A w \in {0} \cup Versions : 1 \in DOMAIN Script(w) BY ScriptsStart
    <3> QED BY <1>1, <1>2, <1>4, <1>5, <3>1
  <2>2. /\ \A q \in Programs : pending'[q] \subseteq (IF q = Trading THEN {0} ELSE Versions)
        /\ \A q \in Programs : pending'[q] = {} => line'[q] = 1
    BY <1>1, <1>2, <1>4
  <2>3. starts' \in 0..MaxBootstraps BY <1>1, <1>2, SchemaAssumption
  <2>4. traded' \in BOOLEAN BY Zenon DEF Bootstrap
  <2>5. /\ marked' \subseteq Versions /\ swallowed' \subseteq {14, 15} /\ raised' \subseteq Programs
        /\ line' \in [Programs -> Nat \ {0}]
        /\ schema' \in [SchemaTables -> {schema'[t] : t \in SchemaTables}]
        /\ \A t \in SchemaTables : schema'[t] = Absent \/ Absent \cap schema'[t] = {}
    BY <1>1, <1>2 DEF SchemaInv, SchemaTypes, SchemaTypeOK
  <2> QED BY <1>4, <2>1, <2>2, <2>3, <2>4, <2>5 DEF SchemaTypes, SchemaTypeOK
<1>7. \A s : Lasts(s)' <=> Lasts(s) BY <1>2 DEF Lasts, Holds, Exists
<1>8. RunnersInv'
  <2> SUFFICES ASSUME NEW q \in Programs, q # Trading, pending'[q] # {}
               PROVE  /\ Versions \ pending'[q] \subseteq marked'
                      /\ \A w \in pending'[q] : Applies(q, w)' =>
                            \/ w \in swallowed'
                            \/ \A i \in DOMAIN MIGRATIONS[w] :
                                  i < line'[q] => Lasts(MIGRATIONS[w][i])'
    BY DEF RunnersInv
  <2>1. CASE q = p
    <3>1. \A w \in Versions : \A i \in DOMAIN MIGRATIONS[w] : ~(i < 1)
      BY MigrationsAreSound DEF Whole
    <3> QED BY <1>2, <1>4, <2>1, <3>1
  <2>2. CASE q # p
    <3>1. pending'[q] = pending[q] /\ line'[q] = line[q] BY <1>2, <1>4, <2>2
    <3> QED BY <1>2, <1>5, <1>7, <2>2, <3>1 DEF SchemaInv, RunnersInv
  <2> QED BY <2>1, <2>2
<1>9. MarksInv' BY <1>2, <1>7 DEF SchemaInv, MarksInv, Done
<1>10. ColumnsInv'
  <2>1. ~traded' => ~traded /\ p # Trading BY <1>3
  <2>2. Trading \in Programs BY DEF Programs
  <2> QED BY <1>2, <1>4, <2>1, <2>2 DEF SchemaInv, ColumnsInv, Exists
<1> QED BY <1>6, <1>8, <1>9, <1>10 DEF SchemaInv

LEMMA ExecuteKeeps ==
    ASSUME SchemaInv, NEW p \in Programs, NEW v \in {0} \cup Versions, Execute(p, v)
    PROVE  SchemaInv'
<1>1. /\ Applies(p, v) /\ GoOn(p, v) /\ Stmt(p, v).op # "mark"
      /\ marked' = marked /\ starts' = starts /\ traded' = traded
      /\ swallowed' = swallowed /\ raised' = raised
  BY DEF Execute
<1>2. \A w \in Versions : \A i \in DOMAIN MIGRATIONS[w] :
          Lasts(MIGRATIONS[w][i]) => Lasts(MIGRATIONS[w][i])'
  BY ExecuteEffect, EffectsLast
<1>3. SchemaTypes'
  <2>1. marked' \subseteq Versions /\ swallowed' \subseteq {14, 15}
    BY <1>1 DEF SchemaInv, SchemaTypes, SchemaTypeOK
  <2> QED BY <1>1, <2>1, ExecuteEffect, TypesGoOn
<1>4. RunnersInv'
  <2>1. v # 0 => line[p] # Len(Script(v)) BY <1>1, StatementOf
  <2>2. v # 0 => \A s : s = Stmt(p, v) => Lasts(s)' BY ExecuteEffect
  <2> QED BY <1>1, <1>2, <2>1, <2>2, RunnersGoOn
<1>5. MarksInv'
  <2>1. marked \subseteq Versions BY DEF SchemaInv, SchemaTypes, SchemaTypeOK
  <2> QED BY <1>1, <1>2, <2>1 DEF SchemaInv, MarksInv, Done
<1>6. ColumnsInv'
  <2> SUFFICES ASSUME ~traded'
               PROVE  /\ raised' = {} /\ pending'[Trading] = {}
                      /\ \A t \in SchemaTables : Exists(t)' => Indexed(t) \subseteq schema'[t]
    BY DEF ColumnsInv
  <2>1. /\ raised = {} /\ pending[Trading] = {}
        /\ \A t \in SchemaTables : Exists(t) => Indexed(t) \subseteq schema[t]
    <3>1. ~traded BY <1>1
    <3> QED BY <3>1 DEF SchemaInv, ColumnsInv
  <2>2. pending'[Trading] = {} BY <1>1, <2>1, GoOnPlace DEF Programs
  <2>3. v # 0 BY <1>1, <2>1, StatementOf DEF Applies
  <2> QED BY <1>1, <2>1, <2>2, <2>3, ExecuteEffect
<1> QED BY <1>3, <1>4, <1>5, <1>6 DEF SchemaInv

LEMMA MarkAppliedKeeps ==
    ASSUME SchemaInv, NEW p \in Programs, NEW v \in {0} \cup Versions, MarkApplied(p, v)
    PROVE  SchemaInv'
<1>1. /\ Applies(p, v) /\ GoOn(p, v) /\ Stmt(p, v).op = "mark"
      /\ marked' = marked \cup {v} /\ schema' = schema
      /\ starts' = starts /\ traded' = traded /\ swallowed' = swallowed /\ raised' = raised
  BY DEF MarkApplied
<1>2. /\ v # 0 /\ v \in Versions /\ p # Trading
      /\ line[p] = Len(MIGRATIONS[v]) + 1 /\ line[p] = Len(Script(v))
  BY <1>1, StatementOf
<1>3. \A s : Lasts(s)' <=> Lasts(s) BY <1>1 DEF Lasts, Holds, Exists
<1>4. SchemaTypes'
  <2>1. /\ marked' \subseteq Versions /\ swallowed' \subseteq {14, 15}
        /\ schema' \in [SchemaTables -> {schema'[t] : t \in SchemaTables}]
        /\ \A t \in SchemaTables : schema'[t] = Absent \/ Absent \cap schema'[t] = {}
    BY <1>1, <1>2 DEF SchemaInv, SchemaTypes, SchemaTypeOK
  <2> QED BY <1>1, <2>1, TypesGoOn
<1>5. RunnersInv'
  <2>1. v \in marked' /\ marked \subseteq marked' BY <1>1
  <2> QED BY <1>1, <1>2, <1>3, <2>1, RunnersGoOn
<1>6. MarksInv'
  <2>1. v \in pending[p] /\ \A u \in pending[p] : v <= u BY <1>1 DEF Applies
  <2>2. /\ Versions \ pending[p] \subseteq marked
        /\ v \in swallowed \/ \A i \in DOMAIN MIGRATIONS[v] :
                                  i < line[p] => Lasts(MIGRATIONS[v][i])
    BY <1>1, <1>2, <2>1 DEF SchemaInv, RunnersInv
  <2>3. Done(v)
    <3>1. \A i \in DOMAIN MIGRATIONS[v] : i < line[p]
      BY <1>2, MigrationsAreSound DEF Whole
    <3> QED BY <2>2, <3>1 DEF Done
  <2>4. 1..(v - 1) \subseteq marked
    <3>1. ASSUME NEW u \in 1..(v - 1) PROVE u \in Versions /\ ~(v <= u)
      BY <1>2, <3>1 DEF Versions
    <3>2. \A u \in 1..(v - 1) : u \in Versions \ pending[p] BY <2>1, <3>1
    <3> QED BY <2>2, <3>2
  <2> QED BY <1>1, <1>3, <2>3, <2>4 DEF SchemaInv, MarksInv, Done
<1>7. ColumnsInv'
  <2>1. pending[Trading] = {} => pending'[Trading] = {} BY <1>1, GoOnPlace DEF Programs
  <2> QED BY <1>1, <2>1 DEF SchemaInv, ColumnsInv, Exists
<1> QED BY <1>4, <1>5, <1>6, <1>7 DEF SchemaInv

LEMMA SwallowLockedKeeps ==
    ASSUME SchemaInv, NEW p \in Programs, NEW v \in {0} \cup Versions, SwallowLocked(p, v)
    PROVE  SchemaInv'
<1>1. /\ Applies(p, v) /\ GoOn(p, v) /\ Stmt(p, v).op \in {"drop", "add"}
      /\ swallowed' = swallowed \cup {v} /\ schema' = schema
      /\ marked' = marked /\ starts' = starts /\ traded' = traded /\ raised' = raised
  BY DEF SwallowLocked
<1>2. v # 0 /\ line[p] # Len(Script(v)) /\ v \in {14, 15}
  <2>1. v # 0 BY <1>1, StatementOf DEF Ensures
  <2>2. line[p] # Len(Script(v)) BY <1>1, <2>1, StatementOf
  <2>3. Sound(v, line[p]) /\ Stmt(p, v) = MIGRATIONS[v][line[p]] BY <1>1, <2>1, <2>2, StatementOf
  <2> QED BY <1>1, <2>1, <2>2, <2>3 DEF Sound
<1>3. \A s : Lasts(s)' <=> Lasts(s) BY <1>1 DEF Lasts, Holds, Exists
<1>4. SchemaTypes'
  <2>1. /\ marked' \subseteq Versions /\ swallowed' \subseteq {14, 15}
        /\ schema' \in [SchemaTables -> {schema'[t] : t \in SchemaTables}]
        /\ \A t \in SchemaTables : schema'[t] = Absent \/ Absent \cap schema'[t] = {}
    BY <1>1, <1>2 DEF SchemaInv, SchemaTypes, SchemaTypeOK
  <2> QED BY <1>1, <2>1, TypesGoOn
<1>5. RunnersInv' BY <1>1, <1>2, <1>3, RunnersGoOn
<1>6. MarksInv' BY <1>1, <1>3 DEF SchemaInv, MarksInv, Done
<1>7. ColumnsInv'
  <2>1. pending[Trading] = {} => pending'[Trading] = {} BY <1>1, GoOnPlace DEF Programs
  <2> QED BY <1>1, <2>1 DEF SchemaInv, ColumnsInv, Exists
<1> QED BY <1>4, <1>5, <1>6, <1>7 DEF SchemaInv

(* A program that stops, for whatever reason, leaves the schema as it is.  *)
LEMMA StopKeeps ==
    ASSUME SchemaInv, NEW p \in Programs, Stops(p), raised' \subseteq Programs,
           UNCHANGED <<schema, marked, starts, traded, swallowed>>,
           ~traded => raised' = {}
    PROVE  SchemaInv'
<1>1. /\ pending \in [Programs -> SUBSET ({0} \cup Versions)]
      /\ line \in [Programs -> Nat \ {0}]
      /\ \A q \in Programs :
            /\ pending[q] \subseteq (IF q = Trading THEN {0} ELSE Versions)
            /\ pending[q] = {} => line[q] = 1
            /\ \A w \in pending[q] : Applies(q, w) => line[q] \in DOMAIN Script(w)
  BY DEF SchemaInv, SchemaTypes, SchemaTypeOK
<1>2. /\ pending' \in [Programs -> SUBSET ({0} \cup Versions)]
      /\ line' \in [Programs -> Nat \ {0}]
      /\ pending'[p] = {} /\ line'[p] = 1
      /\ \A q \in Programs : q # p => pending'[q] = pending[q] /\ line'[q] = line[q]
  BY <1>1 DEF Stops
<1>3. \A q \in Programs : \A w : q # p => (Applies(q, w)' <=> Applies(q, w))
  BY <1>2 DEF Applies
<1>4. \A s : Lasts(s)' <=> Lasts(s) BY DEF Lasts, Holds, Exists
<1>5. SchemaTypes'
  <2>1. /\ \A q \in Programs : \A w \in pending'[q] :
              Applies(q, w)' => line'[q] \in DOMAIN Script(w)
        /\ \A q \in Programs : pending'[q] \subseteq (IF q = Trading THEN {0} ELSE Versions)
        /\ \A q \in Programs : pending'[q] = {} => line'[q] = 1
    BY <1>1, <1>2, <1>3
  <2>2. traded' \in BOOLEAN BY Zenon DEF SchemaInv, SchemaTypes, SchemaTypeOK
  <2>3. /\ marked' \subseteq Versions /\ swallowed' \subseteq {14, 15}
        /\ starts' \in 0..MaxBootstraps
        /\ schema' \in [SchemaTables -> {schema'[t] : t \in SchemaTables}]
        /\ \A t \in SchemaTables : schema'[t] = Absent \/ Absent \cap schema'[t] = {}
    BY DEF SchemaInv, SchemaTypes, SchemaTypeOK
  <2> QED BY <1>2, <2>1, <2>2, <2>3 DEF SchemaTypes, SchemaTypeOK
<1>6. RunnersInv' BY <1>2, <1>3, <1>4 DEF SchemaInv, RunnersInv
<1>7. MarksInv' BY <1>4 DEF SchemaInv, MarksInv, Done
<1>8. ColumnsInv'
  <2>1. pending[Trading] = {} => pending'[Trading] = {} BY <1>2 DEF Programs
  <2> QED BY <2>1 DEF SchemaInv, ColumnsInv, Exists
<1> QED BY <1>5, <1>6, <1>7, <1>8 DEF SchemaInv

(* Among runners a statement is never refused: the table is there, with    *)
(* what is indexed, since the statement before created it.                 *)
LEMMA RunnersAccept ==
    ASSUME SchemaInv, NEW p \in Programs, NEW v \in {0} \cup Versions, Applies(p, v), ~traded
    PROVE  Accepts(Stmt(p, v))
<1> DEFINE i == line[p]
           m == MIGRATIONS[v]
<1>1. v # 0 /\ p # Trading /\ v \in Versions BY StatementOf DEF SchemaInv, ColumnsInv, Applies
<1> SUFFICES ASSUME Stmt(p, v).op = "index"
             PROVE  /\ Exists(Stmt(p, v).table)
                    /\ Stmt(p, v).cols \subseteq schema[Stmt(p, v).table]
  BY DEF Accepts
<1>2. i # Len(Script(v)) BY <1>1, StatementOf
<1>3. /\ i \in DOMAIN m /\ Stmt(p, v) = m[i] /\ Sound(v, i)
  BY <1>1, <1>2, StatementOf
<1>4. /\ v < 14 /\ i > 1 /\ m[i].cols \subseteq Indexed(m[i].table)
      /\ m[i - 1].op = "create" /\ m[i - 1].table = m[i].table
  BY <1>3 DEF Sound
<1>5. i - 1 \in DOMAIN m /\ i - 1 < i
  <2>1. DOMAIN m = 1..Len(m) /\ Len(m) \in Nat BY <1>1, MigrationsAreSound DEF Whole
  <2> QED BY <1>3, <1>4, <2>1
<1>6. Lasts(m[i - 1])
  <2>1. v \notin swallowed BY <1>4 DEF SchemaInv, SchemaTypes, SchemaTypeOK
  <2>2. v \in pending[p] /\ pending[p] # {} BY DEF Applies
  <2> QED BY <1>1, <1>5, <2>1, <2>2 DEF SchemaInv, RunnersInv
<1>7. Exists(m[i].table) BY <1>4, <1>6 DEF Lasts, Holds
<1>8. m[i].table \in SchemaTables BY <1>1, <1>3, TablesExist
<1>9. Indexed(m[i].table) \subseteq schema[m[i].table]
  BY <1>7, <1>8 DEF SchemaInv, ColumnsInv
<1> QED BY <1>3, <1>4, <1>7, <1>9

LEMMA NextSchema == ASSUME SchemaInv, [SchemaNext]_schemaVars PROVE SchemaInv'
<1>1. ASSUME NEW p \in Programs, BootstrapDies(p) PROVE SchemaInv'
  <2>1. raised' \subseteq Programs /\ (~traded => raised' = {})
    BY <1>1 DEF BootstrapDies, SchemaInv, SchemaTypes, SchemaTypeOK, ColumnsInv
  <2> QED BY <1>1, <2>1, StopKeeps DEF BootstrapDies
<1>2. ASSUME NEW p \in Programs, NEW v \in {0} \cup Versions, Raise(p, v) PROVE SchemaInv'
  <2>1. traded BY <1>2, RunnersAccept DEF Raise
  <2>2. raised' \subseteq Programs
    BY <1>2 DEF Raise, SchemaInv, SchemaTypes, SchemaTypeOK
  <2> QED BY <1>2, <2>1, <2>2, StopKeeps DEF Raise
<1>3. CASE UNCHANGED schemaVars
  <2>1. \A s : Lasts(s)' <=> Lasts(s) BY <1>3 DEF schemaVars, Lasts, Holds, Exists
  <2>2. \A p, v : Applies(p, v)' <=> Applies(p, v) BY <1>3 DEF schemaVars, Applies
  <2>3. SchemaTypes'
    <3>1. traded' \in BOOLEAN BY <1>3, Zenon DEF schemaVars, SchemaInv, SchemaTypes, SchemaTypeOK
    <3> QED BY <1>3, <2>2, <3>1 DEF schemaVars, SchemaInv, SchemaTypes, SchemaTypeOK
  <2>4. RunnersInv' BY <1>3, <2>1, <2>2 DEF schemaVars, SchemaInv, RunnersInv
  <2>5. MarksInv' BY <1>3, <2>1 DEF schemaVars, SchemaInv, MarksInv, Done
  <2>6. ColumnsInv' BY <1>3 DEF schemaVars, SchemaInv, ColumnsInv, Exists
  <2> QED BY <2>3, <2>4, <2>5, <2>6 DEF SchemaInv
<1> QED
  BY <1>1, <1>2, <1>3, BootstrapKeeps, ExecuteKeeps, MarkAppliedKeeps, SwallowLockedKeeps
  DEF SchemaNext

LEMMA SchemaAlways == SchemaSpec => []SchemaInv
  BY InitSchema, NextSchema, PTL DEF SchemaSpec

(* Runners that migrate at once, from the marks each read when it started, *)
(* and that die anywhere, leave a schema in which what is marked has been  *)
(* done (but for an ALTER TABLE whose failure was swallowed), and without  *)
(* the trading loop none of them is stopped by the schema: the statements  *)
(* can be repeated, and nothing undoes what one of them brought about.     *)
THEOREM MigrationsStayApplied == SchemaSpec => []RunnersMigrateSafely
<1>1. SchemaInv => RunnersMigrateSafely
  <2> SUFFICES ASSUME SchemaInv PROVE RunnersMigrateSafely OBVIOUS
  <2>1. \A s : Lasts(s) => Holds(s) BY DEF Lasts
  <2>2. MarkedIsApplied
    <3> SUFFICES ASSUME NEW v \in marked
                 PROVE  /\ v \in swallowed \/ Effect(v)
                        /\ {u \in Versions : u < v} \subseteq marked
      BY DEF MarkedIsApplied
    <3>1. Done(v) /\ 1..(v - 1) \subseteq marked BY DEF SchemaInv, MarksInv
    <3>2. v \in Versions BY DEF SchemaInv, SchemaTypes, SchemaTypeOK
    <3>3. {u \in Versions : u < v} \subseteq 1..(v - 1) BY <3>2 DEF Versions
    <3>4. v \in swallowed \/ Effect(v) BY <2>1, <3>1 DEF Done, Effect
    <3> QED BY <3>1, <3>3, <3>4
  <2>3. RunnersNeverRaise BY DEF SchemaInv, ColumnsInv, RunnersNeverRaise
  <2> QED BY <2>2, <2>3 DEF RunnersMigrateSafely
<1> QED BY <1>1, SchemaAlways, PTL

-----------------------------------------------------------------------------
(* MCPlatform.  Every behaviour of the parts side by side is one of each   *)
(* part, so that what was shown of the parts holds of all of them.         *)
LEMMA PlatformStarts ==
    PlatformInit => /\ CandleStoreInit /\ SchemaInit /\ EventStreamInit /\ ShellInit
                    /\ ModelDeployInit /\ FeedInit /\ MlInit
  BY DEF PlatformInit

LEMMA PlatformSteps ==
    [PlatformNext]_platformVars =>
        /\ [CandleStoreNext]_candleVars
        /\ [SchemaNext]_schemaVars
        /\ [EventStreamNext]_eventVars
        /\ [ShellNext]_shellVars
        /\ [ModelDeployNext]_deployVars
        /\ [FeedNext]_feedVars
        /\ [MlNext]_mlVars
  BY DEF PlatformNext, platformVars

LEMMA PlatformParts ==
    PlatformSpec => /\ CandleStoreSpec /\ SchemaSpec /\ EventStreamSpec /\ ShellSpec
                    /\ ModelDeploySpec /\ FeedSpec /\ MlSpec
  BY PlatformStarts, PlatformSteps, PTL
  DEF PlatformSpec, CandleStoreSpec, SchemaSpec, EventStreamSpec, ShellSpec,
      ModelDeploySpec, FeedSpec, MlSpec

(* Side by side, the parts keep what each promises.                        *)
THEOREM PlatformKeepsPromises ==
    PlatformSpec => /\ []CleanBackfillIsWhole
                    /\ []RunnersMigrateSafely
                    /\ [](NothingSkipped /\ PageShowsNewest)
                    /\ []NothingSurvives
                    /\ []NewestPairLoads
                    /\ []QuietBooksAreWhole
                    /\ []BestModelIsUsed
  BY PlatformParts, BackfillsLeaveNoGap, MigrationsStayApplied, StreamsSkipNothing,
     PageCatchesUp, WorkersEndWithService, PairsLoadTogether, BooksAreWhole,
     BestModelStaysInUse, PTL

(* The state of every part around the trading loop has its type after any  *)
(* number of steps, for any sizes of buffers, pages and sets of symbols.   *)
THEOREM PlatformKeepsTypes == PlatformSpec => []PlatformTypeOK
<1>1. /\ SchemaInv => SchemaTypeOK
      /\ ShellInv => ShellTypeOK
      /\ DeployInv => ModelDeployTypeOK
  BY DEF SchemaInv, SchemaTypes, ShellInv, DeployInv
<1> QED
  BY <1>1, PlatformParts, CandleTypesAlways, SchemaAlways, StreamTypesAlways, ShellAlways,
     DeployAlways, FeedTypesAlways, MlTypesAlways, PTL
  DEF PlatformTypeOK
=============================================================================
