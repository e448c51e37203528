-------------------------- MODULE BrowserViewRelay --------------------------
(***************************************************************************)
(* The gateway's relay of a user's browser to the user's phone:            *)
(* BrowserViewRelayRegistry of packages/cloud-server/src/gateway/tunnel.ts.*)
(* For each computer and user there is a session with one publisher and    *)
(* any number of viewers, which is made by the first and deleted after the *)
(* last of them.  The handlers of a websocket keep the session they were   *)
(* attached to, whatever the Map says later.                               *)
(*                                                                         *)
(* One key stands for each of many.  A websocket's slot is taken again as  *)
(* another websocket.  Messages are kinds without content.                 *)
(***************************************************************************)
EXTENDS Naturals, FiniteSets

CONSTANTS
  Publishers, Viewers,   \* websockets by their role
  NoSocket,
  MaxRelaySessions       \* bound: sessions that are made

ASSUME RelayAssumption ==
  Publishers \cap Viewers = {} /\ NoSocket \notin Publishers /\ MaxRelaySessions \in Nat \ {0}

Sockets == Publishers \cup Viewers
RelaySessions == 1 .. MaxRelaySessions
NoSession == 0
Cacheable == {"metadata", "frame"}   \* what was told of the tabs and the stream; an image

VARIABLES
  relay,        \* the session in the Map, or NoSession
  sessionsMade, \* the number of the last session
  publisher,    \* session.publisher
  subscribers,  \* session.subscribers
  cached,       \* what a session has of the latest...
  socketState,  \* "open", "closing", or "none" when the slot is free
  attachedTo,   \* the session that a websocket's handlers hold
  told          \* the last publisher.status sent to a viewer: "yes", "no", or "missed" when
                \* it was not sent because too much was buffered

relayVars == <<relay, sessionsMade, publisher, subscribers, cached, socketState, attachedTo, told>>

RelayInit ==
  /\ relay = NoSession /\ sessionsMade = 0
  /\ publisher = [s \in RelaySessions |-> NoSocket]
  /\ subscribers = [s \in RelaySessions |-> {}]
  /\ cached = [s \in RelaySessions |-> {}]
  /\ socketState = [w \in Sockets |-> "none"]
  /\ attachedTo = [w \in Sockets |-> NoSession]
  /\ told = [v \in Viewers |-> "no"]

\* getOrCreateSession().
Current == IF relay = NoSession THEN sessionsMade + 1 ELSE relay
GetOrCreate ==
  /\ Current \in RelaySessions
  /\ relay' = Current
  /\ sessionsMade' = IF relay = NoSession THEN Current ELSE sessionsMade

\* broadcastStatus(): to the viewers whose websocket is open and does not lag behind.
BroadcastStatus(s, status) ==
  \E lagging \in SUBSET subscribers[s] :
    told' = [v \in Viewers |->
      IF v \in subscribers[s] /\ socketState[v] = "open"
      THEN IF v \in lagging THEN "missed" ELSE status
      ELSE told[v]]

\* attachPublisher(): it replaces the one that there is and starts with an empty cache.
AttachPublisher(p) ==
  /\ socketState[p] = "none"
  /\ GetOrCreate
  /\ LET s == Current  previous == publisher[s] IN
       /\ socketState' = [w \in Sockets |->
            CASE w = p -> "open"
              [] w = previous /\ socketState[w] = "open" -> "closing"
              [] OTHER -> socketState[w]]
       /\ publisher' = [publisher EXCEPT ![s] = p]
       /\ cached' = [cached EXCEPT ![s] = {}]
       /\ attachedTo' = [attachedTo EXCEPT ![p] = s]
       /\ BroadcastStatus(s, "yes")
  /\ UNCHANGED subscribers

\* attachSubscriber(): it is told whether there is a publisher, and sent what is cached.
AttachSubscriber(v) ==
  /\ socketState[v] = "none"
  /\ GetOrCreate
  /\ LET s == Current IN
       /\ subscribers' = [subscribers EXCEPT ![s] = @ \cup {v}]
       /\ attachedTo' = [attachedTo EXCEPT ![v] = s]
       /\ told' = [told EXCEPT ![v] = IF publisher[s] # NoSocket THEN "yes" ELSE "no"]
  /\ socketState' = [socketState EXCEPT ![v] = "open"]
  /\ UNCHANGED <<publisher, cached>>

\* handlePublisherText() and handlePublisherFrame(): a message of any publisher, also of one
\* that was replaced and is closing.  One that cannot be read, or is too large, closes it.
PublisherMessage(p) ==
  LET s == attachedTo[p] IN
  /\ socketState[p] \in {"open", "closing"}
  /\ \/ /\ \/ \E kind \in Cacheable : cached' = [cached EXCEPT ![s] = @ \cup {kind}]
           \/ cached' = [cached EXCEPT ![s] = {"metadata"}]   \* it streams no longer
        /\ UNCHANGED socketState
     \/ socketState' = [socketState EXCEPT ![p] = "closing"] /\ UNCHANGED cached
  /\ UNCHANGED <<relay, sessionsMade, publisher, subscribers, attachedTo, told>>

\* The other end closes, or is gone: no longer open, the close event is to come.
SocketCloses(w) ==
  /\ socketState[w] = "open"
  /\ socketState' = [socketState EXCEPT ![w] = "closing"]
  /\ UNCHANGED <<relay, sessionsMade, publisher, subscribers, cached, attachedTo, told>>

\* deleteIfUnused(), by what is there after the handler's own changes.
DeleteIfUnused(s) ==
  relay' = IF publisher'[s] = NoSocket /\ subscribers'[s] = {} THEN NoSession ELSE relay

\* Mutant: the close event does not look whether the publisher was replaced.
PublisherCloseEventOfAny(p) ==
  LET s == attachedTo[p] IN
  /\ socketState[p] = "closing"
  /\ socketState' = [socketState EXCEPT ![p] = "none"]
  /\ attachedTo' = [attachedTo EXCEPT ![p] = NoSession]
  /\ publisher' = [publisher EXCEPT ![s] = NoSocket]
  /\ cached' = [cached EXCEPT ![s] = {}]
  /\ BroadcastStatus(s, "no")
  /\ UNCHANGED subscribers
  /\ DeleteIfUnused(s)
  /\ UNCHANGED sessionsMade

\* The "close" event of a publisher; one that was replaced changes nothing.
PublisherCloseEvent(p) ==
  LET s == attachedTo[p] IN
  /\ socketState[p] = "closing"
  /\ socketState' = [socketState EXCEPT ![p] = "none"]
  /\ attachedTo' = [attachedTo EXCEPT ![p] = NoSession]
  /\ IF publisher[s] # p THEN UNCHANGED <<relay, publisher, subscribers, cached, told>>
     ELSE /\ publisher' = [publisher EXCEPT ![s] = NoSocket]
          /\ cached' = [cached EXCEPT ![s] = {}]
          /\ BroadcastStatus(s, "no")
          /\ UNCHANGED subscribers
          /\ DeleteIfUnused(s)
  /\ UNCHANGED sessionsMade

\* The "close" event of a viewer.
SubscriberCloseEvent(v) ==
  LET s == attachedTo[v] IN
  /\ socketState[v] = "closing"
  /\ socketState' = [socketState EXCEPT ![v] = "none"]
  /\ attachedTo' = [attachedTo EXCEPT ![v] = NoSession]
  /\ subscribers' = [subscribers EXCEPT ![s] = @ \ {v}]
  /\ told' = [told EXCEPT ![v] = "no"]
  /\ UNCHANGED <<publisher, sessionsMade, cached>>
  /\ DeleteIfUnused(s)

-----------------------------------------------------------------------------
RelayNext ==
  \/ \E p \in Publishers : AttachPublisher(p) \/ PublisherMessage(p) \/ PublisherCloseEvent(p)
  \/ \E v \in Viewers : AttachSubscriber(v) \/ SubscriberCloseEvent(v)
  \/ \E w \in Sockets : SocketCloses(w)

RelaySpec == RelayInit /\ [][RelayNext]_relayVars

-----------------------------------------------------------------------------
(***************************************************************************)
(* Properties                                                              *)
(***************************************************************************)
\* The types.
RelayTypeOK ==
  /\ relay \in RelaySessions \cup {NoSession} /\ sessionsMade \in 0 .. MaxRelaySessions
  /\ publisher \in [RelaySessions -> Publishers \cup {NoSocket}]
  /\ subscribers \in [RelaySessions -> SUBSET Viewers]
  /\ cached \in [RelaySessions -> SUBSET Cacheable]
  /\ socketState \in [Sockets -> {"none", "open", "closing"}]
  /\ attachedTo \in [Sockets -> RelaySessions \cup {NoSession}]
  /\ told \in [Viewers -> {"yes", "no", "missed"}]

\* All open websockets of a user share the session in the Map, however sessions were deleted
\* and made again and publishers replaced: an open publisher is the session's, a viewer is
\* one of its subscribers, and the last status that a viewer was sent is the session's.
OneRelay ==
  /\ \A p \in Publishers : socketState[p] = "open" =>
       relay # NoSession /\ publisher[relay] = p
  /\ \A v \in Viewers : socketState[v] = "open" =>
       /\ relay # NoSession /\ v \in subscribers[relay]
       /\ told[v] \in {"missed", IF publisher[relay] = NoSocket THEN "no" ELSE "yes"}
=============================================================================
