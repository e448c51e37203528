---------------------------- MODULE BrowserView ----------------------------
(***************************************************************************)
(* A user's browser shown on the user's phone, from end to end: the hook   *)
(* of the web application that publishes it (useBrowserViewPublisher), the *)
(* relay (BrowserViewRelayRegistry) with what it caches, and the hook of   *)
(* the mobile application that shows it (useBrowserViewSubscription).      *)
(* BrowserViewRelay has the relay with many viewers and without content.   *)
(*                                                                         *)
(* A line is one websocket of a publisher, with a state at either end and  *)
(* the messages on their way.  The viewer handles what it is sent at once: *)
(* it answers nothing, and forgets what a lost websocket was about.        *)
(* A picture is told apart by the tab that it is of.                       *)
(***************************************************************************)
EXTENDS Naturals, Sequences

CONSTANTS
  MaxPages,     \* bound: pages of the web application, of one user and computer
  Tabs, Nothing,
  MaxLines,     \* bound: websockets that have not ended at both ends
  MaxMishaps    \* bound: changes, lost lines, reloads ...

ASSUME ViewAssumption ==
  /\ Nothing \notin Tabs \cup {"yes", "no"} /\ Tabs # {}
  /\ MaxPages \in Nat /\ MaxLines \in Nat \ {0} /\ MaxMishaps \in Nat

Pages == 1 .. MaxPages
Lines == 1 .. MaxLines
NoLine == 0

VARIABLES
  page,      \* the hook: enabled, socketRef, the timer, the tab, streamStatus.streaming; and
             \* whether a picture of the tab was sent (shown), and whether the last close event
             \* said that another page has taken its place (ousted)
  line,      \* the websockets of publishers
  session,   \* the relay's session
  viewer,    \* the viewer's state and pendingFrameMetadataRef
  spoilt,    \* "missed": the viewer was not sent something, too much being buffered;
             \* "mixed": the session has taken a message of a publisher that was replaced
  mishaps    \* how much has happened from outside

viewVars == <<page, line, session, viewer, spoilt, mishaps>>

FreeLine == [owner |-> 0, pageEnd |-> "none", relayEnd |-> "none", up |-> <<>>,
             cut |-> FALSE, stale |-> FALSE, replaced |-> FALSE]
NoSession == [publisher |-> NoLine, tab |-> Nothing, stream |-> Nothing,
              frame |-> Nothing, image |-> Nothing]

\* The hook is not enabled yet, and the viewer is not there.
ViewInit ==
  /\ page = [p \in Pages |->
       [on |-> FALSE, socket |-> NoLine, timer |-> FALSE, tab |-> CHOOSE t \in Tabs : TRUE,
        streaming |-> FALSE, shown |-> FALSE, ousted |-> FALSE]]
  /\ line = [l \in Lines |-> FreeLine]
  /\ session = NoSession
  /\ viewer = [on |-> FALSE, connected |-> FALSE, tab |-> Nothing, stream |-> Nothing,
               image |-> Nothing, frame |-> Nothing, pending |-> Nothing]
  /\ spoilt = {} /\ mishaps = 0

Mishap == mishaps < MaxMishaps /\ mishaps' = mishaps + 1

\* A line that has ended at both ends is free.
Settled(x) == IF x.pageEnd = "none" /\ x.relayEnd = "none" THEN FreeLine ELSE x

\* The page's end that is open, readyState OPEN.
IsOpen(l) == l # NoLine /\ line[l].pageEnd = "open"

-----------------------------------------------------------------------------
(***************************************************************************)
(* The viewer.                                                             *)
(***************************************************************************)
\* handleJsonMessage() and handleSocketMessage().
Told(v, m) ==
  CASE m = <<"publisher.status", "yes">> -> [v EXCEPT !.connected = TRUE]
    [] m = <<"publisher.status", "no">> ->
         [v EXCEPT !.connected = FALSE, !.stream = Nothing, !.image = Nothing, !.frame = Nothing]
    [] m = <<"stream.status", "yes">> -> [v EXCEPT !.stream = "yes"]
    [] m = <<"stream.status", "no">> ->
         [v EXCEPT !.stream = "no", !.image = Nothing, !.frame = Nothing]
    [] m[1] = "activeTab" ->
         IF v.frame \in {Nothing, m[2]} THEN [v EXCEPT !.tab = m[2]]
         ELSE [v EXCEPT !.tab = m[2], !.image = Nothing, !.frame = Nothing]
    [] m[1] = "frame" -> [v EXCEPT !.pending = m[2]]
    [] m[1] = "image" ->
         IF v.stream = "no" THEN [v EXCEPT !.pending = Nothing]
         ELSE [v EXCEPT !.image = m[2], !.frame = v.pending, !.pending = Nothing]

\* broadcastText() and broadcastBinary(), to a viewer that may lag behind; history is what is
\* spoilt otherwise.
Broadcast(m, history) ==
  \/ /\ viewer' = IF viewer.on THEN Told(viewer, m) ELSE viewer
     /\ spoilt' = history
     /\ UNCHANGED mishaps
  \/ /\ viewer.on /\ Mishap
     /\ spoilt' = history \cup {"missed"}
     /\ UNCHANGED viewer

\* A viewer after it was sent what is cached under a kind, if anything is.
ToldCached(v, kind, kept) == IF kept = Nothing THEN v ELSE Told(v, <<kind, kept>>)

\* A viewer after it was sent whether there is a publisher, and what is cached.
CaughtUp(v) ==
  LET status == Told(v, <<"publisher.status", IF session.publisher = NoLine THEN "no" ELSE "yes">>)
      tab == ToldCached(status, "activeTab", session.tab)
      stream == ToldCached(tab, "stream.status", session.stream)
      frame == ToldCached(stream, "frame", session.frame)
  IN ToldCached(frame, "image", session.image)

\* The viewer's websocket is there: attachSubscriber(). An older picture may still be shown.
AttachSubscriber ==
  /\ ~viewer.on
  /\ viewer' = CaughtUp([viewer EXCEPT !.on = TRUE])
  /\ spoilt' = spoilt \ {"missed"}
  /\ UNCHANGED <<page, line, session, mishaps>>

\* deleteIfUnused(): the handlers of lines that have not ended keep the session that was.
Deleted == [l \in Lines |->
  IF line[l].relayEnd \in {"open", "closing"} THEN [line[l] EXCEPT !.stale = TRUE] ELSE line[l]]

\* The viewer leaves, or loses its websocket: onclose, and the relay's close event.
SubscriberLeaves ==
  /\ viewer.on /\ Mishap
  /\ viewer' = [viewer EXCEPT !.on = FALSE, !.connected = FALSE, !.stream = Nothing,
                              !.pending = Nothing]
  /\ IF session.publisher = NoLine THEN session' = NoSession /\ line' = Deleted
     ELSE UNCHANGED <<session, line>>
  /\ UNCHANGED <<page, spoilt>>

-----------------------------------------------------------------------------
(***************************************************************************)
(* The publishing page.                                                    *)
(***************************************************************************)
\* sendBrowserFrame(): metadata and image, one after the other.
FrameMessages(t) == << <<"frame", t>>, <<"image", t>> >>

Streaming(s) == <<"stream.status", IF s THEN "yes" ELSE "no">>

\* Mutant: the stream's status is not part of the current state.
PublishWithoutStatus(p, framed) ==
  << <<"activeTab", page[p].tab>> >>
    \o IF page[p].streaming /\ framed THEN FrameMessages(page[p].tab) ELSE <<>>

\* publishCurrentState(), with the last frame of the tab if there is one.
PublishCurrentState(p, framed) ==
  << Streaming(page[p].streaming), <<"activeTab", page[p].tab>> >>
    \o IF page[p].streaming /\ framed THEN FrameMessages(page[p].tab) ELSE <<>>

\* Messages are sent one change at a time; a line that is cut takes them nowhere.
CanSend(l) == IsOpen(l) /\ line[l].up = <<>>
Sent(l, messages) == [line EXCEPT ![l].up = IF line[l].cut THEN <<>> ELSE messages]

\* openSocket()
OpenPublisher(p) ==
  /\ \E l \in Lines :
       /\ line[l] = FreeLine /\ \A k \in 1 .. l - 1 : line[k] # FreeLine
       /\ page' = [page EXCEPT ![p] = [@ EXCEPT !.on = TRUE, !.socket = l, !.timer = FALSE,
                                                !.shown = FALSE, !.ousted = FALSE]]
       /\ line' = [line EXCEPT ![l] = [FreeLine EXCEPT
                     !.owner = p, !.pageEnd = "connecting", !.relayEnd = "asked"]]
  /\ UNCHANGED <<session, viewer, spoilt>>

\* The hook is enabled, with a url; of pages that do not publish, which are alike, the first.
Starts(p) == ~page[p].on /\ \A q \in 1 .. p - 1 : page[q].on
PublisherStarts(p) == Starts(p) /\ OpenPublisher(p) /\ UNCHANGED mishaps

\* openSocket() when WebSocket throws: another attempt is scheduled.
NoWebSocket(p) ==
  /\ Starts(p) \/ page[p].timer
  /\ Mishap
  /\ page' = [page EXCEPT ![p] = [@ EXCEPT !.on = TRUE, !.timer = TRUE]]
  /\ UNCHANGED <<line, session, viewer, spoilt>>

\* The timer of scheduleReconnect().
ReconnectTimer(p) == page[p].on /\ page[p].timer /\ OpenPublisher(p) /\ UNCHANGED mishaps

\* Mutant: a websocket that is still connecting is given up.
ReconnectOrResyncImpatient(p) ==
  /\ page[p].on /\ Mishap
  /\ ~IsOpen(page[p].socket)
  /\ OpenPublisher(p)

\* reconnectOrResync(): the page is looked at again, or is online again.
ReconnectOrResync(p) ==
  LET l == page[p].socket IN
  /\ page[p].on /\ Mishap
  /\ \/ /\ l # NoLine => line[l].pageEnd = "closing"
        /\ OpenPublisher(p)
     \/ /\ CanSend(l)
        /\ \E framed \in BOOLEAN :
             /\ line' = Sent(l, PublishCurrentState(p, framed))
             /\ page' = [page EXCEPT ![p].shown = @ \/ (framed /\ page[p].streaming)]
        /\ UNCHANGED <<session, viewer, spoilt>>

\* The effect's clean-up: the hook is not enabled any longer, or gets another url.
PublisherStops(p) ==
  LET l == page[p].socket IN
  /\ page[p].on /\ Mishap
  /\ page' = [page EXCEPT ![p] = [@ EXCEPT !.on = FALSE, !.socket = NoLine, !.timer = FALSE,
                                           !.shown = FALSE, !.ousted = FALSE]]
  /\ line' = [k \in Lines |-> IF k = l THEN [line[k] EXCEPT !.pageEnd = "closing"] ELSE line[k]]
  /\ UNCHANGED <<session, viewer, spoilt>>

\* The "open" event: announcePublisher().
PageOpens(l) ==
  LET p == line[l].owner IN
  /\ line[l].pageEnd = "connecting" /\ line[l].relayEnd \in {"open", "closing"} /\ ~line[l].cut
  /\ \E framed \in BOOLEAN :
       IF page[p].socket = l
       THEN /\ line' = [line EXCEPT ![l].pageEnd = "open",
                                    ![l].up = PublishCurrentState(p, framed)]
            /\ page' = [page EXCEPT ![p].shown = framed /\ page[p].streaming]
       ELSE line' = [line EXCEPT ![l].pageEnd = "open"] /\ UNCHANGED page
  /\ UNCHANGED <<session, viewer, spoilt, mishaps>>

\* The user selects a tab, or the tab's stream starts or ends: the effects of the hook.
PageChanges(p) ==
  \E t \in Tabs, s \in BOOLEAN, framed \in BOOLEAN :
    LET l == page[p].socket
        messages ==
          (IF t # page[p].tab THEN << <<"activeTab", t>> >> ELSE <<>>)
            \o (IF s # page[p].streaming THEN << Streaming(s) >> ELSE <<>>)
            \o (IF s /\ framed THEN FrameMessages(t) ELSE <<>>)
    IN
    /\ Mishap
    /\ t # page[p].tab \/ s # page[p].streaming
    /\ IF IsOpen(l) THEN CanSend(l) /\ line' = Sent(l, messages) ELSE UNCHANGED line
    /\ page' = [page EXCEPT ![p] = [@ EXCEPT !.tab = t, !.streaming = s,
                                             !.shown = s /\ framed /\ IsOpen(l)]]
    /\ UNCHANGED <<session, viewer, spoilt>>

\* subscribeBrowserFrames(): a frame of the active tab, unless it comes too soon after another.
PageFrame(p) ==
  LET l == page[p].socket IN
  /\ page[p].on /\ page[p].streaming /\ CanSend(l)
  /\ line' = Sent(l, FrameMessages(page[p].tab))
  /\ page' = [page EXCEPT ![p].shown = TRUE]
  /\ UNCHANGED <<session, viewer, spoilt, mishaps>>

\* sendHeartbeat() without a pong in time.
HeartbeatTimesOut(p) ==
  LET l == page[p].socket IN
  /\ IsOpen(l)
  /\ IF line[l].cut THEN UNCHANGED mishaps ELSE Mishap
  /\ line' = [line EXCEPT ![l].pageEnd = "closing"]
  /\ UNCHANGED <<page, session, viewer, spoilt>>

\* A websocket ends at the page's end: after close(), refused, cut while it connects, or the
\* relay's close frame has come.
EndsAtPage(x) ==
  \/ x.pageEnd = "closing"
  \/ x.pageEnd = "connecting" /\ (x.cut \/ x.relayEnd = "none")
  \/ x.pageEnd = "open" /\ ~x.cut /\ x.relayEnd = "closing"

\* The code of the "close" event is the relay's, if its close frame has come in time.
CloseReasons(x) ==
  IF ~x.replaced \/ x.cut THEN {FALSE} ELSE IF x.pageEnd = "open" THEN {TRUE} ELSE BOOLEAN

\* Mutant: an attempt that has failed is not repeated.
PageCloseEventGivesUp(l) ==
  LET p == line[l].owner IN
  /\ EndsAtPage(line[l])
  /\ line' = [line EXCEPT ![l] = Settled([@ EXCEPT !.pageEnd = "none"])]
  /\ \E replaced \in CloseReasons(line[l]) :
       page' = IF page[p].socket # l THEN page
               ELSE [page EXCEPT ![p] = [@ EXCEPT
                       !.socket = NoLine, !.shown = FALSE, !.ousted = replaced,
                       !.timer = ~replaced /\ line[l].pageEnd # "connecting"]]
  /\ UNCHANGED <<session, viewer, spoilt, mishaps>>

\* The "close" event at the page: shouldReconnectBrowserViewPublisherSocket().
PageCloseEvent(l) ==
  LET p == line[l].owner IN
  /\ EndsAtPage(line[l])
  /\ line' = [line EXCEPT ![l] = Settled([@ EXCEPT !.pageEnd = "none"])]
  /\ \E replaced \in CloseReasons(line[l]) :
       page' = IF page[p].socket # l THEN page
               ELSE [page EXCEPT ![p] = [@ EXCEPT !.socket = NoLine, !.shown = FALSE,
                                                  !.timer = ~replaced, !.ousted = replaced]]
  /\ UNCHANGED <<session, viewer, spoilt, mishaps>>

-----------------------------------------------------------------------------
(***************************************************************************)
(* The relay.                                                              *)
(***************************************************************************)
\* The upgrade's session is authenticated: attachPublisher(). The page may have gone meanwhile.
AttachPublisher(l) ==
  LET previous == session.publisher IN
  /\ line[l].relayEnd = "asked"
  /\ line' = [k \in Lines |->
       CASE k = l -> [line[k] EXCEPT !.relayEnd = "open"]
         [] k = previous /\ k # l ->
              [line[k] EXCEPT !.relayEnd = "closing",
                              !.replaced = @ \/ line[k].relayEnd = "open"]
         [] OTHER -> line[k]]
  /\ session' = [NoSession EXCEPT !.publisher = l]
  /\ Broadcast(<<"publisher.status", "yes">>, spoilt \ {"mixed"})
  /\ UNCHANGED page

\* The upgrade is refused, or there is nobody to attach.
RefusePublisher(l) ==
  /\ line[l].relayEnd = "asked"
  /\ IF line[l].pageEnd = "connecting" /\ ~line[l].cut THEN Mishap ELSE UNCHANGED mishaps
  /\ line' = [line EXCEPT ![l] = Settled([@ EXCEPT !.relayEnd = "none"])]
  /\ UNCHANGED <<page, session, viewer, spoilt>>

\* What the session keeps of a message.
Kept(m) ==
  CASE m[1] = "activeTab" -> [session EXCEPT !.tab = m[2]]
    [] m = <<"stream.status", "no">> ->
         [session EXCEPT !.stream = "no", !.frame = Nothing, !.image = Nothing]
    [] m = <<"stream.status", "yes">> -> [session EXCEPT !.stream = "yes"]
    [] m[1] = "frame" -> [session EXCEPT !.frame = m[2]]
    [] m[1] = "image" -> [session EXCEPT !.image = m[2]]

\* handlePublisherText() and handlePublisherFrame(), of any line that has not ended; a frame
\* may be too large.
RelayReceives(l) ==
  LET m == Head(line[l].up) IN
  /\ line[l].relayEnd \in {"open", "closing"} /\ line[l].up # <<>>
  /\ \/ /\ line' = [line EXCEPT ![l].up = Tail(@)]
        /\ IF line[l].stale THEN UNCHANGED <<session, viewer, spoilt, mishaps>>
           ELSE /\ session' = Kept(m)
                /\ Broadcast(m, spoilt \cup IF session.publisher = l THEN {} ELSE {"mixed"})
     \/ /\ m[1] = "image" /\ line[l].relayEnd = "open" /\ Mishap
        /\ line' = [line EXCEPT ![l].up = Tail(@), ![l].relayEnd = "closing"]
        /\ UNCHANGED <<session, viewer, spoilt>>
  /\ UNCHANGED page

\* A line is lost: nothing comes through any longer, and nobody is told.
LineCut(l) ==
  /\ line[l] # FreeLine /\ ~line[l].cut /\ Mishap
  /\ line' = [line EXCEPT ![l].cut = TRUE, ![l].up = <<>>]
  /\ UNCHANGED <<page, session, viewer, spoilt>>

\* The page's close frame has come after its messages, or the line is found to be lost.
EndsAtRelay(x) ==
  /\ x.relayEnd \in {"open", "closing"}
  /\ x.cut \/ (x.pageEnd \in {"closing", "none"} /\ x.up = <<>>)

\* Mutant: the close event does not look whether the publisher was replaced.
RelayCloseEventOfAny(l) ==
  /\ EndsAtRelay(line[l])
  /\ session' = NoSession
  /\ line' = [line EXCEPT ![l] = Settled([@ EXCEPT !.relayEnd = "none", !.up = <<>>])]
  /\ Broadcast(<<"publisher.status", "no">>, spoilt)
  /\ UNCHANGED page

\* The "close" event of a publisher at the relay.
RelayCloseEvent(l) ==
  LET ended(lines) == [lines EXCEPT ![l] = Settled([@ EXCEPT !.relayEnd = "none", !.up = <<>>])]
  IN
  /\ EndsAtRelay(line[l])
  /\ IF session.publisher = l /\ ~line[l].stale
     THEN /\ session' = NoSession
          /\ line' = ended(IF viewer.on THEN line ELSE Deleted)
          /\ Broadcast(<<"publisher.status", "no">>, spoilt)
     ELSE line' = ended(line) /\ UNCHANGED <<session, viewer, spoilt, mishaps>>
  /\ UNCHANGED page

-----------------------------------------------------------------------------
ViewNext ==
  \/ \E p \in Pages :
       \/ PublisherStarts(p) \/ NoWebSocket(p) \/ ReconnectTimer(p) \/ ReconnectOrResync(p)
       \/ PublisherStops(p) \/ PageChanges(p) \/ PageFrame(p) \/ HeartbeatTimesOut(p)
  \/ \E l \in Lines :
       \/ AttachPublisher(l) \/ RefusePublisher(l) \/ RelayReceives(l) \/ RelayCloseEvent(l)
       \/ PageOpens(l) \/ PageCloseEvent(l) \/ LineCut(l)
  \/ AttachSubscriber \/ SubscriberLeaves

\* The timer of a page goes off, what a line still carries arrives, the browser and the relay
\* answer, and a websocket that is given up ends.  A lost line is noticed by the page's
\* heartbeat; the relay, which has none, may never notice it.
ViewFairness ==
  /\ WF_viewVars(\E p \in Pages : ReconnectTimer(p))
  /\ \A p \in Pages : WF_viewVars(page[p].socket # NoLine /\ line[page[p].socket].cut
                                    /\ HeartbeatTimesOut(p))
  /\ \A l \in Lines :
       /\ WF_viewVars(AttachPublisher(l) \/ RefusePublisher(l))
       /\ WF_viewVars(RelayReceives(l))
       /\ WF_viewVars(line[l].relayEnd = "closing" /\ RelayCloseEvent(l))
       /\ WF_viewVars(~line[l].cut /\ RelayCloseEvent(l))
       /\ WF_viewVars(PageOpens(l))
       /\ WF_viewVars(PageCloseEvent(l))

ViewSpec == ViewInit /\ [][ViewNext]_viewVars /\ ViewFairness

-----------------------------------------------------------------------------
(***************************************************************************)
(* Properties                                                              *)
(***************************************************************************)
Messages ==
  {<<"stream.status", s>> : s \in {"yes", "no"}}
    \cup {<<kind, t>> : kind \in {"activeTab", "frame", "image"}, t \in Tabs}

\* The types.
ViewTypeOK ==
  /\ page \in [Pages -> [on : BOOLEAN, socket : Lines \cup {NoLine}, timer : BOOLEAN,
                         tab : Tabs, streaming : BOOLEAN, shown : BOOLEAN, ousted : BOOLEAN]]
  /\ \A l \in Lines :
       /\ [line[l] EXCEPT !.up = <<>>] \in
            [owner : Pages \cup {0}, pageEnd : {"none", "connecting", "open", "closing"},
             relayEnd : {"none", "asked", "open", "closing"}, up : {<<>>},
             cut : BOOLEAN, stale : BOOLEAN, replaced : BOOLEAN]
       /\ \A i \in 1 .. Len(line[l].up) : line[l].up[i] \in Messages
  /\ session \in [publisher : Lines \cup {NoLine}, tab : Tabs \cup {Nothing},
                  stream : {"yes", "no", Nothing}, frame : Tabs \cup {Nothing},
                  image : Tabs \cup {Nothing}]
  /\ viewer \in [on : BOOLEAN, connected : BOOLEAN, tab : Tabs \cup {Nothing},
                 stream : {"yes", "no", Nothing}, image : Tabs \cup {Nothing},
                 frame : Tabs \cup {Nothing}, pending : Tabs \cup {Nothing}]
  /\ spoilt \subseteq {"missed", "mixed"} /\ mishaps \in 0 .. MaxMishaps

\* A page has one websocket, or an attempt at one, at a time, and none beside a timer; of all
\* publishers the relay has the one that it attached last, and has closed the others.
OnePublisher ==
  /\ \A p \in Pages :
       /\ page[p].timer => page[p].on /\ page[p].socket = NoLine
       /\ \A l \in Lines :
            line[l].owner = p /\ line[l].pageEnd \in {"connecting", "open"} => page[p].socket = l
  /\ \A l \in Lines : line[l].relayEnd = "open" => session.publisher = l /\ ~line[l].stale

\* Whoever published before, however often either end came back, and whichever messages a
\* websocket lost: once everything has arrived that the publishing page has sent, the viewer
\* is told that there is a publisher and has its tab and the status of its stream, shows no
\* picture while nothing is streamed, and one of the page's tab when the page has sent one.
\* Without a publisher it shows none.  What the viewer was not sent, and what a publisher that
\* was replaced sent late, is excepted until the next websocket of either.
ViewIsTrue ==
  viewer.on /\ spoilt = {} =>
    /\ \A l \in Lines :
         CanSend(l) /\ line[l].relayEnd = "open" /\ ~line[l].cut =>
           LET p == page[line[l].owner] IN
           /\ viewer.connected /\ viewer.tab = p.tab
           /\ viewer.stream = IF p.streaming THEN "yes" ELSE "no"
           /\ ~p.streaming => viewer.image = Nothing
           /\ p.shown => viewer.image = p.tab
    /\ session.publisher = NoLine =>
         ~viewer.connected /\ viewer.stream = Nothing /\ viewer.image = Nothing

\* A page that publishes has its websocket as the relay's publisher, or was told by the relay
\* that another has taken its place, which it leaves at that.
PublisherIsBack ==
  \A p \in Pages : page[p].on =>
    page[p].ousted \/ (IsOpen(page[p].socket) /\ session.publisher = page[p].socket)
=============================================================================
