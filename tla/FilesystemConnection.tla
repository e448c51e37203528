------------------------ MODULE FilesystemConnection ------------------------
(***************************************************************************)
(* How the file browser of the web and of the mobile application keeps its *)
(* websocket to the machine: FilesystemConnectionManager in both           *)
(* filesystem-connection-manager.ts, which reconnects after a delay, pings *)
(* and subscribes again.  The session of a websocket at the machine is     *)
(* modelled in FilesystemSession; here it answers in any order.            *)
(*                                                                         *)
(* A link is one websocket object.  After close() it is "closing" until    *)
(* its "close" event, and delivers nothing else.                           *)
(***************************************************************************)
EXTENDS Naturals, FiniteSets

CONSTANTS
  MaxLinks,       \* bound: websockets whose close event has not come at the same time
  MaxRequests,    \* bound: requests under way at the same time
  Paths, Root,    \* the directories, and the one that is always there
  MaxEvents       \* bound: what users do, lost links, removed directories, restarts ...

ASSUME LinkAssumption ==
  MaxLinks \in Nat \ {0} /\ MaxRequests \in Nat \ {0} /\ Root \in Paths /\ MaxEvents \in Nat

Links == 1 .. MaxLinks
NoLink == 0
Requests == 1 .. MaxRequests

VARIABLES
  app,             \* "web" or "mobile"
  wanted,          \* shouldReconnect
  timer,           \* reconnectTimer is set
  link,            \* this.socket, or NoLink
  status,          \* status; "connecting" is also "reconnecting"
  beating,         \* heartbeatInterval is set
  pinged,          \* the link whose pong heartbeatTimeout waits for, or NoLink
  subscribedPath,  \* subscribedPath
  request,         \* the requests; an "orphan" is one that the manager has rejected and the
                   \* machine still answers
  readyState,      \* readyState of the links; "none" after the close event
  fate,            \* "fine", "cut": delivers nothing and tells nobody, "ended": will close
  greeting,        \* the links whose "hello" is on its way
  there,           \* the directories that exist
  events           \* how much has happened from outside

managerVars == <<app, wanted, timer, link, status, beating, pinged, subscribedPath>>
wireVars == <<readyState, fate, greeting>>
linkVars == <<managerVars, request, wireVars, there, events>>

\* A place for a request that is free.
NoRequest == [kind |-> "free", stage |-> "none", link |-> NoLink, path |-> Root]

\* A manager before connect(), in a directory that was there when it was last seen.
LinkInit ==
  /\ app \in {"web", "mobile"} /\ subscribedPath \in Paths
  /\ wanted = FALSE /\ timer = FALSE /\ link = NoLink /\ status = "idle"
  /\ beating = FALSE /\ pinged = NoLink
  /\ request = [r \in Requests |-> NoRequest]
  /\ readyState = [l \in Links |-> "none"] /\ fate = [l \in Links |-> "fine"]
  /\ greeting = {} /\ there = Paths /\ events = 0

Event == events < MaxEvents /\ events' = events + 1

Open(l) == l # NoLink /\ readyState[l] = "open"

-----------------------------------------------------------------------------
(***************************************************************************)
(* What the manager's operations are made of.                              *)
(***************************************************************************)
\* stopHeartbeat()
StopHeartbeat == beating' = FALSE /\ pinged' = NoLink

\* scheduleReconnect()
ScheduleReconnect == timer' = wanted /\ status' = IF wanted THEN "connecting" ELSE status

\* socket.close() of the links in ls.
Closing(ls) ==
  [l \in Links |-> IF l \in ls /\ readyState[l] # "none" THEN "closing" ELSE readyState[l]]

\* Mutant: the websocket is forgotten and stays open.
ForgetsWebsocket ==
  /\ link' = NoLink
  /\ UNCHANGED <<readyState, wanted>>
  /\ StopHeartbeat
  /\ ScheduleReconnect

\* forceReconnect(): the link is given up, and another attempt scheduled.
ForceReconnect ==
  /\ link' = NoLink
  /\ readyState' = Closing({link})
  /\ StopHeartbeat
  /\ ScheduleReconnect
  /\ UNCHANGED wanted

\* openSocket(): the current link is closed and a new one made.
NewLink ==
  \E l \in Links :
    /\ readyState[l] = "none" /\ \A k \in 1 .. l - 1 : readyState[k] # "none"
    /\ link' = l
    /\ readyState' = [Closing({link}) EXCEPT ![l] = "connecting"]
    /\ timer' = FALSE /\ status' = "connecting"
    /\ StopHeartbeat
    /\ UNCHANGED <<wanted, request>>

\* openSocket() when WebSocket throws, or the url is none: it gives up.
NoNewLink ==
  /\ link' = NoLink
  /\ readyState' = Closing({link})
  /\ StopHeartbeat
  /\ \/ /\ ScheduleReconnect /\ UNCHANGED wanted
        /\ UNCHANGED request
     \/ /\ wanted' = FALSE /\ timer' = FALSE /\ status' = "closed"
        /\ request' = [r \in Requests |->
                         IF request[r].stage = "waiting" THEN NoRequest ELSE request[r]]

OpenSocket ==
  /\ NewLink \/ NoNewLink
  /\ UNCHANGED <<app, subscribedPath, fate, greeting, there>>

\* request() of a message on the link that is open.
Ask(kind, path) ==
  \E r \in Requests :
    /\ request[r].kind = "free" /\ \A q \in 1 .. r - 1 : request[q].kind # "free"
    /\ request' = [request EXCEPT ![r] =
                     [kind |-> kind, stage |-> "asked", link |-> link, path |-> path]]

\* resubscribeAfterReconnect()
Resubscribe == Ask("resubscribe", subscribedPath)

-----------------------------------------------------------------------------
(***************************************************************************)
(* The manager's operations, timers and events.                            *)
(***************************************************************************)
\* connect()
ConnectManager ==
  /\ status = "idle"
  /\ wanted' = TRUE
  /\ \E l \in Links :
       /\ \A k \in 1 .. l - 1 : readyState[k] # "none"
       /\ link' = l
       /\ readyState' = [readyState EXCEPT ![l] = "connecting"]
       /\ status' = "connecting"
  /\ UNCHANGED <<app, timer, beating, pinged, subscribedPath, request, fate, greeting,
                 there, events>>

\* disconnect(): all requests are rejected.
Disconnect ==
  /\ wanted
  /\ wanted' = FALSE /\ timer' = FALSE /\ status' = "closed"
  /\ StopHeartbeat
  /\ link' = NoLink
  /\ readyState' = Closing({link})
  /\ request' = [r \in Requests |-> NoRequest]
  /\ UNCHANGED <<app, subscribedPath, fate, greeting, there, events>>

ReconnectTimerFires ==
  timer /\ OpenSocket /\ IF link' = NoLink THEN Event ELSE UNCHANGED events

\* setUrls() with another url.
SetUrls == wanted /\ link = NoLink /\ Event /\ OpenSocket

\* The page is visible again: the timer is cleared, whatever it was for.
Visible ==
  /\ app = "web" /\ wanted /\ Event
  /\ \/ link = NoLink /\ OpenSocket
     \/ /\ link # NoLink /\ timer' = FALSE
        /\ IF Open(link) THEN Resubscribe ELSE UNCHANGED request
        /\ UNCHANGED <<app, wanted, link, status, beating, pinged, subscribedPath, wireVars,
                       there>>

\* The "open" event: requests that waited for it are sent.
LinkOpens(l) ==
  /\ readyState[l] = "connecting" /\ fate[l] = "fine"
  /\ readyState' = [readyState EXCEPT ![l] = "open"]
  /\ status' = "open" /\ beating' = TRUE /\ pinged' = NoLink
  /\ request' = [r \in Requests |-> IF request[r].stage = "waiting"
                   THEN [request[r] EXCEPT !.stage = "asked", !.link = l] ELSE request[r]]
  /\ greeting' = greeting \cup {l}
  /\ UNCHANGED <<app, wanted, timer, link, subscribedPath, fate, there, events>>

\* The session's "hello": the manager subscribes again.
Hello(l) ==
  /\ l \in greeting /\ Open(l) /\ fate[l] = "fine"
  /\ greeting' = greeting \ {l}
  /\ IF wanted THEN Resubscribe ELSE UNCHANGED request
  /\ UNCHANGED <<managerVars, readyState, fate, there, events>>

\* subscribe() for the user: the web's is rejected without an open link, the mobile's
\* schedules a reconnect and waits, even while a link is connecting.
Navigate(path) ==
  /\ wanted /\ Event
  /\ path # subscribedPath /\ subscribedPath' = path
  /\ \/ Open(link) /\ Ask("navigate", path) /\ UNCHANGED <<timer, status>>
     \/ /\ ~Open(link) /\ app = "mobile"
        /\ ScheduleReconnect
        /\ \E r \in Requests :
             /\ request[r].kind = "free"
             /\ request' = [request EXCEPT ![r] = [kind |-> "navigate", stage |-> "waiting",
                                                   link |-> NoLink, path |-> path]]
     \/ /\ ~Open(link) /\ app = "web"
        /\ UNCHANGED <<timer, status, request>>
  /\ UNCHANGED <<app, wanted, link, beating, pinged, wireVars, there>>

\* The timer of waitForOpen().
WaitTimesOut(r) ==
  /\ request[r].stage = "waiting"
  /\ request' = [request EXCEPT ![r] = NoRequest]
  /\ UNCHANGED <<managerVars, wireVars, there, events>>

\* The requests after those of the manager are all rejected and link l is gone.
Rejected(l) == [r \in Requests |->
  IF request[r].stage = "asked" /\ request[r].link # l
  THEN [request[r] EXCEPT !.kind = "orphan"] ELSE NoRequest]

\* Mutant: the retry is left to the resubscription that is rejected, if there is one.
AfterCloseRetriesLess(l) ==
  LET forces == wanted /\ \E r \in Requests : request[r].kind = "resubscribe"
  IN /\ link' = IF link = l \/ forces THEN NoLink ELSE link
     /\ readyState' = [Closing(IF forces THEN {link} ELSE {}) EXCEPT ![l] = "none"]
     /\ timer' = (timer \/ forces)
     /\ status' = IF wanted THEN "connecting" ELSE "closed"

\* What the "close" event does, whichever link it is of.  A pending resubscription that is
\* rejected forces a reconnect right after the handler.
AfterClose(l) ==
  LET forces == wanted /\ \E r \in Requests : request[r].kind = "resubscribe"
  IN /\ link' = IF link = l \/ forces THEN NoLink ELSE link
     /\ readyState' = [Closing(IF forces THEN {link} ELSE {}) EXCEPT ![l] = "none"]
     /\ timer' = wanted
     /\ status' = IF wanted THEN "connecting" ELSE "closed"

\* The "close" event: of a link that was closed here, closed by the other side, or lost.
LinkCloses(l) ==
  /\ \/ readyState[l] = "closing"
     \/ readyState[l] \in {"connecting", "open"} /\ fate[l] # "fine"
  /\ AfterClose(l)
  /\ StopHeartbeat
  /\ request' = Rejected(l)
  /\ fate' = [fate EXCEPT ![l] = "fine"] /\ greeting' = greeting \ {l}
  /\ UNCHANGED <<app, wanted, subscribedPath, there, events>>

\* sendHeartbeat()
SendPing ==
  /\ beating /\ Open(link) /\ pinged = NoLink
  /\ pinged' = link
  /\ UNCHANGED <<app, wanted, timer, link, status, beating, subscribedPath, request, wireVars,
                 there, events>>

Pong ==
  /\ Open(pinged) /\ fate[pinged] = "fine"
  /\ pinged' = NoLink
  /\ UNCHANGED <<app, wanted, timer, link, status, beating, subscribedPath, request, wireVars,
                 there, events>>

\* heartbeatTimeout fires: the link is cut, or the pong late.
PingTimesOut ==
  /\ pinged # NoLink
  /\ IF fate[pinged] = "fine" THEN Event ELSE UNCHANGED events
  /\ ForceReconnect
  /\ UNCHANGED <<app, subscribedPath, request, fate, greeting, there>>

-----------------------------------------------------------------------------
(***************************************************************************)
(* The machine's answers, and what happens to the links.                   *)
(***************************************************************************)
\* A snapshot arrives: the directory that was listed is the one the manager is subscribed to.
SnapshotArrives(r) ==
  LET l == request[r].link
  IN /\ request[r].stage = "asked" /\ Open(l) /\ fate[l] = "fine" /\ request[r].path \in there
     /\ subscribedPath' = request[r].path
     /\ request' = [request EXCEPT ![r] = NoRequest]
     /\ UNCHANGED <<app, wanted, timer, link, status, beating, pinged, wireVars, there, events>>

\* The directory is missing, or cannot be listed or watched: the request is rejected.  A
\* rejected resubscription forces a reconnect.
ErrorArrives(r) ==
  LET l == request[r].link
  IN /\ request[r].stage = "asked" /\ Open(l) /\ fate[l] = "fine"
     /\ IF request[r].path \in there THEN Event ELSE UNCHANGED events
     /\ request' = [request EXCEPT ![r] = NoRequest]
     /\ IF request[r].kind = "resubscribe" /\ wanted THEN ForceReconnect
        ELSE UNCHANGED <<wanted, timer, link, status, beating, pinged, readyState>>
     /\ UNCHANGED <<app, subscribedPath, fate, greeting, there>>

\* The path of a link is cut or its other end closes it.
LinkFails(l) ==
  /\ readyState[l] # "none" /\ fate[l] = "fine" /\ Event
  /\ \E f \in {"cut", "ended"} : fate' = [fate EXCEPT ![l] = f]
  /\ UNCHANGED <<managerVars, request, readyState, greeting, there>>

DirectoryRemoved(path) ==
  /\ path \in there \ {Root} /\ Event
  /\ there' = there \ {path}
  /\ UNCHANGED <<managerVars, request, wireVars>>

-----------------------------------------------------------------------------
LinkNext ==
  \/ ConnectManager \/ Disconnect \/ ReconnectTimerFires \/ SetUrls \/ Visible
  \/ SendPing \/ Pong \/ PingTimesOut
  \/ \E p \in Paths : Navigate(p) \/ DirectoryRemoved(p)
  \/ \E l \in Links : LinkOpens(l) \/ Hello(l) \/ LinkCloses(l) \/ LinkFails(l)
  \/ \E r \in Requests : WaitTimesOut(r) \/ SnapshotArrives(r) \/ ErrorArrives(r)

LinkSpec == LinkInit /\ [][LinkNext]_linkVars

\* Timers fire, and what is on its way arrives.  Of a link that is cut only the heartbeat
\* and the wait for its opening or closing learn.
LinkFairness ==
  /\ WF_linkVars(ReconnectTimerFires)
  /\ WF_linkVars(SendPing) /\ WF_linkVars(Pong)
  /\ WF_linkVars(pinged # NoLink /\ fate[pinged] # "fine" /\ PingTimesOut)
  /\ \A l \in Links :
       /\ WF_linkVars(LinkOpens(l)) /\ WF_linkVars(Hello(l))
       /\ WF_linkVars((readyState[l] # "open" \/ fate[l] = "ended") /\ LinkCloses(l))
  /\ \A r \in Requests :
       /\ WF_linkVars(WaitTimesOut(r)) /\ WF_linkVars(SnapshotArrives(r))
       /\ WF_linkVars(request[r].path \notin there /\ ErrorArrives(r))

LinkFairSpec == LinkSpec /\ LinkFairness

-----------------------------------------------------------------------------
(***************************************************************************)
(* Properties                                                              *)
(***************************************************************************)
\* The types.
LinkTypeOK ==
  /\ app \in {"web", "mobile"} /\ wanted \in BOOLEAN /\ timer \in BOOLEAN /\ beating \in BOOLEAN
  /\ {link, pinged} \subseteq Links \cup {NoLink}
  /\ status \in {"idle", "connecting", "open", "closed"} /\ subscribedPath \in Paths
  /\ request \in [Requests -> [kind : {"free", "resubscribe", "navigate", "orphan"},
                               stage : {"none", "waiting", "asked"},
                               link : Links \cup {NoLink}, path : Paths]]
  /\ readyState \in [Links -> {"none", "connecting", "open", "closing"}]
  /\ fate \in [Links -> {"fine", "cut", "ended"}]
  /\ greeting \subseteq Links /\ there \subseteq Paths /\ Root \in there
  /\ events \in 0 .. MaxEvents

\* However late the close events come, the manager holds the one websocket that is alive, a
\* connection that is wanted has a websocket or a timer to make one, and one that is not
\* wanted has neither; a heartbeat and the status "open" are about the websocket held.
OneLink ==
  /\ \A l \in Links : readyState[l] \in {"connecting", "open"} => l = link
  /\ link # NoLink => readyState[link] \in {"connecting", "open"}
  /\ wanted => link # NoLink \/ timer
  /\ ~wanted => link = NoLink /\ ~timer /\ \A r \in Requests : request[r].stage # "waiting"
  /\ beating \/ status = "open" => Open(link)
  /\ pinged # NoLink => pinged = link /\ beating

\* The directory is shown over a link that will stay.
Served ==
  /\ Open(link) /\ fate[link] = "fine" /\ ~timer /\ link \notin greeting
  /\ \A r \in Requests : request[r].kind # "resubscribe"

\* A reconnect is scheduled while a websocket has not closed: a close event that comes after
\* the next websocket was made has that one replaced, whose close event will be as late.  A
\* directory that is gone, each subscription to which fails, has the same effect.
Flaps == timer /\ \E l \in Links : readyState[l] # "none"

\* A late close event has stopped the heartbeat of the link, and the page that became
\* visible cleared the timer that would have replaced it.
Unwatched == Open(link) /\ ~beating /\ ~timer

\* The connection comes back after lost links, restarts and late pongs, unless it was given
\* up or one of the above keeps it from it.
LinkIsBack == Served \/ ~wanted \/ Flaps \/ Unwatched
=============================================================================
