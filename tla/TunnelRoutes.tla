---------------------------- MODULE TunnelRoutes ----------------------------
(***************************************************************************)
(* A websocket route (filesystem, browser control, preview) carried by a   *)
(* machine tunnel: the user's websocket ends at the cloud server           *)
(* (MachineTunnel.openGatewayConnection in                                 *)
(* packages/cloud-server/src/gateway/tunnel.ts) and the machine opens      *)
(* another one to its local server for it                                  *)
(* (MachineTunnelClient.openLocalConnection in                             *)
(* packages/server/src/tunnel/client.ts).                                  *)
(*                                                                         *)
(* A websocket that was told to close goes on emitting messages until its  *)
(* "close" event; one that fails emits "error", no more messages, and then *)
(* "close".                                                                *)
(* Messages are numbered on each side of the route.                        *)
(***************************************************************************)
EXTENDS TunnelLink

CONSTANT MaxMessages   \* the two sides of a route send at most that many messages

ASSUME MessageAssumption == MaxMessages \in Nat

VARIABLES
  gateway,      \* the user's websocket at the cloud: "none", "open", "closing", "failed", "closed"
  known,        \* in gatewayConnections
  sent,         \* history: the messages the user has sent
  toUser,       \* history: the messages passed on to the user's websocket
  local,        \* the local websocket: also "connecting" and "aborted", closed while connecting
  inLocal,      \* in localConnections
  pendingData,  \* LocalTunnelConnection.pendingData
  produced,     \* history: the messages the local server has sent
  toLocal,      \* history: the messages passed on to the local websocket
  refused       \* history: a message of the user was too large for the route's profile

cloudVars == <<gateway, known, sent, toUser>>
localVars == <<local, inLocal, pendingData, produced, toLocal>>
vars == <<linkVars, cloudVars, localVars, refused>>

Frame(type, n) == [type |-> type, n |-> n]
Data(n) == Frame("data", n)
OpenFrame == Frame("open", 0)
OpenOk == Frame("openOk", 0)
OpenFailed == Frame("openFailed", 0)
CloseFrame == Frame("close", 0)

Init ==
  /\ LinkInit
  /\ gateway = [c \in Connections |-> "none"]
  /\ known = [c \in Connections |-> FALSE]
  /\ sent = [c \in Connections |-> 0]
  /\ toUser = [c \in Connections |-> <<>>]
  /\ local = [c \in Connections |-> "none"]
  /\ inLocal = [c \in Connections |-> FALSE]
  /\ pendingData = [c \in Connections |-> <<>>]
  /\ produced = [c \in Connections |-> 0]
  /\ toLocal = [c \in Connections |-> <<>>]
  /\ refused = [c \in Connections |-> FALSE]

\* Mutant: a websocket that is still connecting is left alone.
ClosedWhenOpen(state) == IF state = "open" THEN "closing" ELSE state

\* close() of a websocket: nothing when it is closing already, an abort while it is
\* still connecting.
Closed(state) ==
  CASE state = "open" -> "closing" [] state = "connecting" -> "aborted" [] OTHER -> state

-----------------------------------------------------------------------------
(***************************************************************************)
(* The cloud server.                                                       *)
(***************************************************************************)
\* An id is never reused: the slot is one of which nothing is left.
Unused(c) ==
  /\ gateway[c] \in {"none", "closed"} /\ local[c] \in {"none", "closed"} /\ NoFrames(c)

\* openGatewayConnection; the registry may hold a tunnel whose socket is closing.
OpenGateway(c) ==
  /\ Unused(c) /\ cloudSocket \in {"open", "closing"}
  /\ gateway' = [gateway EXCEPT ![c] = "open"]
  /\ known' = [known EXCEPT ![c] = TRUE]
  /\ sent' = [sent EXCEPT ![c] = 0]
  /\ toUser' = [toUser EXCEPT ![c] = <<>>]
  /\ local' = [local EXCEPT ![c] = "none"]
  /\ produced' = [produced EXCEPT ![c] = 0]
  /\ toLocal' = [toLocal EXCEPT ![c] = <<>>]
  /\ refused' = [refused EXCEPT ![c] = FALSE]
  /\ UpSend(c, OpenFrame)
  /\ UNCHANGED <<sockets, inLocal, pendingData, downLink>>

UserSends(c) ==
  /\ gateway[c] \in {"open", "closing"} /\ sent[c] + produced[c] < MaxMessages
  /\ sent' = [sent EXCEPT ![c] = @ + 1]

\* The "message" event of the user's websocket.
GatewayMessage(c) ==
  /\ UserSends(c)
  /\ UpSend(c, Data(sent[c] + 1))
  /\ UNCHANGED <<sockets, gateway, known, toUser, localVars, refused, downLink>>

\* closeLogicalConnectionForOverload at the cloud: the machine is told directly, past
\* the queue.
GatewayOverload(c) ==
  /\ gateway' = [gateway EXCEPT ![c] = IF known[c] THEN Closed(@) ELSE @]
  /\ known' = [known EXCEPT ![c] = FALSE]
  /\ upWire' = IF cloudSocket = "open"
               THEN [upWire EXCEPT ![c] = Append(@, CloseFrame)] ELSE upWire

\* enqueue() refuses a message too large for the profile; what is queued stays.
GatewayMessageRefused(c) ==
  /\ UserSends(c) /\ cloudSocket = "open"
  /\ refused' = [refused EXCEPT ![c] = TRUE]
  /\ GatewayOverload(c)
  /\ UNCHANGED <<sockets, toUser, localVars, upQueue, downLink>>

\* enforceLimits() drops the connection's queue.
UpOverflows(c) ==
  /\ cloudSocket = "open" /\ upQueue[c] # <<>>
  /\ upQueue' = [upQueue EXCEPT ![c] = <<>>]
  /\ GatewayOverload(c)
  /\ UNCHANGED <<sockets, sent, toUser, localVars, refused, downLink>>

\* removeConnection() and the close frame after it, which goes out when nothing is
\* queued any more or waits in the emptied queue.
UpRemoveThenClose(c) ==
  LET queue == [upQueue EXCEPT ![c] = <<>>] IN
  IF cloudSocket # "open"
  THEN upQueue' = queue /\ UNCHANGED upWire
  ELSE \/ /\ queue = Quiet
          /\ upQueue' = queue
          /\ upWire' = [upWire EXCEPT ![c] = Append(@, CloseFrame)]
       \/ /\ upQueue' = [queue EXCEPT ![c] = <<CloseFrame>>]
          /\ UNCHANGED upWire

\* The user has started to close: the websocket is not open any more.
GatewayCloses(c) ==
  /\ gateway[c] = "open"
  /\ gateway' = [gateway EXCEPT ![c] = "closing"]
  /\ UNCHANGED <<linkVars, known, sent, toUser, localVars, refused>>

\* The "error" event of the user's websocket; "close" follows.
GatewayError(c) ==
  /\ gateway[c] \in {"open", "closing"}
  /\ gateway' = [gateway EXCEPT ![c] = "failed"]
  /\ known' = [known EXCEPT ![c] = FALSE]
  /\ UpRemoveThenClose(c)
  /\ UNCHANGED <<sockets, sent, toUser, localVars, refused, downLink>>

\* The "close" event of the user's websocket.
GatewayClose(c) ==
  /\ gateway[c] \in {"open", "closing", "failed"}
  /\ gateway' = [gateway EXCEPT ![c] = "closed"]
  /\ known' = [known EXCEPT ![c] = FALSE]
  /\ UpRemoveThenClose(c)
  /\ UNCHANGED <<sockets, sent, toUser, localVars, refused, downLink>>

\* handleMachineMessage, openResult with ok = true.
ReceiveOpenOk(c) ==
  /\ CloudReceives(c, "openOk")
  /\ UNCHANGED <<sockets, cloudVars, localVars, refused, upLink, downQueue>>

\* openResult with ok = false.
ReceiveOpenFailed(c) ==
  /\ CloudReceives(c, "openFailed")
  /\ gateway' = [gateway EXCEPT ![c] = IF Handled /\ known[c] THEN Closed(@) ELSE @]
  /\ known' = [known EXCEPT ![c] = @ /\ ~ Handled]
  /\ UNCHANGED <<sockets, sent, toUser, localVars, refused, upLink, downQueue>>

\* handleMachineBinaryFrame, wsData
ReceiveData(c) ==
  /\ CloudReceives(c, "data")
  /\ toUser' = [toUser EXCEPT ![c] = IF Handled /\ known[c] /\ gateway[c] = "open"
                                     THEN Append(@, Head(downWire[c]).n) ELSE @]
  /\ UNCHANGED <<sockets, gateway, known, sent, localVars, refused, upLink, downQueue>>

\* ... when the user does not take it fast enough.
ReceiveDataOverloads(c) ==
  /\ CloudReceives(c, "data") /\ Handled /\ known[c] /\ gateway[c] = "open"
  /\ GatewayOverload(c)
  /\ UNCHANGED <<sockets, sent, toUser, localVars, refused, upQueue, downQueue>>

\* Mutant: the user's websocket is left open.
ReceiveCloseForgets(c) ==
  /\ CloudReceives(c, "close")
  /\ LET handled == Handled /\ known[c]
     IN upQueue' = [upQueue EXCEPT ![c] = IF handled THEN <<>> ELSE @]
  /\ known' = [known EXCEPT ![c] = @ /\ ~ Handled]
  /\ UNCHANGED <<sockets, gateway, sent, toUser, localVars, refused, upWire, downQueue>>

\* The "close" case of handleMachineMessage.
ReceiveClose(c) ==
  /\ CloudReceives(c, "close")
  /\ LET handled == Handled /\ known[c]
     IN /\ gateway' = [gateway EXCEPT ![c] = IF handled THEN Closed(@) ELSE @]
        /\ upQueue' = [upQueue EXCEPT ![c] = IF handled THEN <<>> ELSE @]
  /\ known' = [known EXCEPT ![c] = @ /\ ~ Handled]
  /\ UNCHANGED <<sockets, sent, toUser, localVars, refused, upWire, downQueue>>

-----------------------------------------------------------------------------
(***************************************************************************)
(* The machine.                                                            *)
(***************************************************************************)
\* openLocalConnection
MachineOpen(c) ==
  /\ MachineReceives(c, "open")
  /\ local' = [local EXCEPT ![c] = "connecting"]
  /\ inLocal' = [inLocal EXCEPT ![c] = TRUE]
  /\ pendingData' = [pendingData EXCEPT ![c] = <<>>]
  /\ UNCHANGED <<sockets, cloudVars, produced, toLocal, refused, upQueue, downLink>>

\* handleCloudBinaryFrame, wsData: kept while the local websocket is not open.
MachineData(c) ==
  /\ MachineReceives(c, "data")
  /\ LET n == Head(upWire[c]).n
     IN /\ toLocal' = [toLocal EXCEPT ![c] = IF inLocal[c] /\ local[c] = "open"
                                             THEN Append(@, n) ELSE @]
        /\ pendingData' = [pendingData EXCEPT ![c] = IF inLocal[c] /\ local[c] # "open"
                                                     THEN Append(@, n) ELSE @]
  /\ UNCHANGED <<sockets, cloudVars, local, inLocal, produced, refused, upQueue, downLink>>

\* closeLogicalConnectionForOverload at the machine.  Its record goes, and with it
\* the frames it has kept.
LocalOverload(c) ==
  /\ local' = [local EXCEPT ![c] = IF inLocal[c] THEN Closed(@) ELSE @]
  /\ inLocal' = [inLocal EXCEPT ![c] = FALSE]
  /\ pendingData' = [pendingData EXCEPT ![c] = <<>>]
  /\ downWire' = IF machineSocket = "open"
                 THEN [downWire EXCEPT ![c] = Append(@, CloseFrame)] ELSE downWire

\* ... when the local server does not take it fast enough, or does not open in time.
MachineDataOverloads(c) ==
  /\ MachineReceives(c, "data") /\ inLocal[c]
  /\ LocalOverload(c)
  /\ UNCHANGED <<sockets, cloudVars, produced, toLocal, refused, upQueue, downQueue>>

\* The "close" case of handleCloudMessage.
MachineClose(c) ==
  /\ MachineReceives(c, "close")
  /\ local' = [local EXCEPT ![c] = IF inLocal[c] THEN Closed(@) ELSE @]
  /\ inLocal' = [inLocal EXCEPT ![c] = FALSE]
  /\ pendingData' = [pendingData EXCEPT ![c] = <<>>]
  /\ downQueue' = [downQueue EXCEPT ![c] = <<>>]
  /\ UNCHANGED <<sockets, cloudVars, produced, toLocal, refused, upQueue, downWire>>

\* Mutant: what was kept is sent after the frames that come later.
LocalOpenUnflushed(c) ==
  /\ local[c] = "connecting"
  /\ local' = [local EXCEPT ![c] = "open"]
  /\ DownSend(c, OpenOk)
  /\ UNCHANGED <<sockets, cloudVars, inLocal, pendingData, produced, toLocal, refused, upLink>>

\* The "open" event of the local websocket: the frames kept are sent.
LocalOpen(c) ==
  /\ local[c] = "connecting"
  /\ local' = [local EXCEPT ![c] = "open"]
  /\ toLocal' = [toLocal EXCEPT ![c] = @ \o pendingData[c]]
  /\ pendingData' = [pendingData EXCEPT ![c] = <<>>]
  /\ DownSend(c, OpenOk)
  /\ UNCHANGED <<sockets, cloudVars, inLocal, produced, refused, upLink>>

\* ... and some of them are too many for its buffer: the rest is dropped.  The close
\* frame overtakes the openResult when that had to be queued.
LocalOpenOverloads(c) ==
  /\ local[c] = "connecting"
  /\ local' = [local EXCEPT ![c] = "closing"]
  /\ inLocal' = [inLocal EXCEPT ![c] = FALSE]
  /\ \E n \in 0..(Len(pendingData[c]) - 1) :
       toLocal' = [toLocal EXCEPT ![c] = @ \o SubSeq(pendingData[c], 1, n)]
  /\ pendingData' = [pendingData EXCEPT ![c] = <<>>]
  /\ IF machineSocket # "open"
     THEN UNCHANGED downLink
     ELSE \/ /\ downQueue = Quiet
             /\ downWire' = [downWire EXCEPT ![c] = @ \o <<OpenOk, CloseFrame>>]
             /\ UNCHANGED downQueue
          \/ /\ downQueue' = [downQueue EXCEPT ![c] = Append(@, OpenOk)]
             /\ downWire' = [downWire EXCEPT ![c] = Append(@, CloseFrame)]
  /\ UNCHANGED <<sockets, cloudVars, produced, refused, upLink>>

LocalSends(c) ==
  /\ local[c] \in {"open", "closing"} /\ sent[c] + produced[c] < MaxMessages
  /\ produced' = [produced EXCEPT ![c] = @ + 1]

\* The "message" event of the local websocket.
LocalMessage(c) ==
  /\ LocalSends(c)
  /\ DownSend(c, Data(produced[c] + 1))
  /\ UNCHANGED <<sockets, cloudVars, local, inLocal, pendingData, toLocal, refused, upLink>>

\* Mutant: the cloud is not told of a message it will not get.
LocalMessageRefusedSilently(c) ==
  /\ LocalSends(c) /\ machineSocket = "open"
  /\ UNCHANGED <<sockets, cloudVars, local, inLocal, pendingData, toLocal, refused, upLink,
                 downLink>>

\* enqueue() refuses a message too large for the profile.
LocalMessageRefused(c) ==
  /\ LocalSends(c) /\ machineSocket = "open"
  /\ LocalOverload(c)
  /\ UNCHANGED <<sockets, cloudVars, toLocal, refused, upLink, downQueue>>

\* enforceLimits() drops the connection's queue.
DownOverflows(c) ==
  /\ machineSocket = "open" /\ downQueue[c] # <<>>
  /\ downQueue' = [downQueue EXCEPT ![c] = <<>>]
  /\ LocalOverload(c)
  /\ UNCHANGED <<sockets, cloudVars, produced, toLocal, refused, upLink>>

\* removeConnection() and the frame after it, as UpRemoveThenClose.
DownRemoveThen(c, frame) ==
  LET queue == [downQueue EXCEPT ![c] = <<>>] IN
  IF machineSocket # "open"
  THEN downQueue' = queue /\ UNCHANGED downWire
  ELSE \/ /\ queue = Quiet
          /\ downQueue' = queue
          /\ downWire' = [downWire EXCEPT ![c] = Append(@, frame)]
       \/ /\ downQueue' = [queue EXCEPT ![c] = <<frame>>]
          /\ UNCHANGED downWire

\* Mutant: the record of a websocket that did not open is kept.
LocalFailsKeeps(c) ==
  /\ local[c] \in {"connecting", "aborted"}
  /\ local' = [local EXCEPT ![c] = "failed"]
  /\ DownRemoveThen(c, OpenFailed)
  /\ UNCHANGED <<sockets, cloudVars, inLocal, pendingData, produced, toLocal, refused, upLink>>

\* The "error" event of a local websocket that has not opened.
LocalFails(c) ==
  /\ local[c] \in {"connecting", "aborted"}
  /\ local' = [local EXCEPT ![c] = "failed"]
  /\ inLocal' = [inLocal EXCEPT ![c] = FALSE]
  /\ pendingData' = [pendingData EXCEPT ![c] = <<>>]
  /\ DownRemoveThen(c, OpenFailed)
  /\ UNCHANGED <<sockets, cloudVars, produced, toLocal, refused, upLink>>

\* The "error" event of one that has: nothing is sent, "close" follows.
LocalError(c) ==
  /\ local[c] \in {"open", "closing"}
  /\ local' = [local EXCEPT ![c] = "failed"]
  /\ pendingData' = [pendingData EXCEPT ![c] = <<>>]
  /\ inLocal' = [inLocal EXCEPT ![c] = FALSE]
  /\ downQueue' = [downQueue EXCEPT ![c] = <<>>]
  /\ UNCHANGED <<sockets, cloudVars, produced, toLocal, refused, upLink, downWire>>

\* The local server has started to close: the websocket is not open any more, its
\* record is still there.
LocalCloses(c) ==
  /\ local[c] = "open"
  /\ local' = [local EXCEPT ![c] = "closing"]
  /\ UNCHANGED <<linkVars, cloudVars, inLocal, pendingData, produced, toLocal, refused>>

\* The "close" event of the local websocket.
LocalClose(c) ==
  /\ local[c] \in {"open", "closing", "failed"}
  /\ local' = [local EXCEPT ![c] = "closed"]
  /\ inLocal' = [inLocal EXCEPT ![c] = FALSE]
  /\ pendingData' = [pendingData EXCEPT ![c] = <<>>]
  /\ DownRemoveThen(c, CloseFrame)
  /\ UNCHANGED <<sockets, cloudVars, produced, toLocal, refused, upLink>>

-----------------------------------------------------------------------------
(***************************************************************************)
(* The tunnel's websocket.                                                 *)
(***************************************************************************)
CloudSocketCloses == CloudCloses /\ UNCHANGED <<cloudVars, localVars, refused>>
MachineSocketCloses == MachineCloses /\ UNCHANGED <<cloudVars, localVars, refused>>

\* closeGatewayConnections
CloseGateways ==
  /\ gateway' = [c \in Connections |-> IF known[c] THEN Closed(gateway[c]) ELSE gateway[c]]
  /\ known' = [c \in Connections |-> FALSE]

Replaced ==
  /\ CloudReplaced /\ CloseGateways
  /\ UNCHANGED <<sent, toUser, localVars, refused>>

CloudCloseEvent ==
  /\ CloudClosed /\ CloseGateways
  /\ UNCHANGED <<sent, toUser, localVars, refused>>

\* Mutant: the records go, the websockets stay.
MachineCloseEventClears ==
  /\ MachineClosed
  /\ inLocal' = [c \in Connections |-> FALSE]
  /\ pendingData' = Quiet
  /\ UNCHANGED <<cloudVars, local, produced, toLocal, refused>>

\* closeLocalConnections
MachineCloseEvent ==
  /\ MachineClosed
  /\ local' = [c \in Connections |-> IF inLocal[c] THEN Closed(local[c]) ELSE local[c]]
  /\ inLocal' = [c \in Connections |-> FALSE]
  /\ pendingData' = Quiet
  /\ UNCHANGED <<cloudVars, produced, toLocal, refused>>

\* The machine process ends, and with it both ends of its local websockets.
MachineExits ==
  /\ MachineGone
  /\ local' = [c \in Connections |-> IF local[c] = "none" THEN "none" ELSE "closed"]
  /\ inLocal' = [c \in Connections |-> FALSE]
  /\ pendingData' = Quiet
  /\ UNCHANGED <<cloudVars, produced, toLocal, refused, downWire>>

Reconnect == Reconnected /\ UNCHANGED <<cloudVars, localVars, refused>>

UpDrain(c) ==
  /\ Drains(c, cloudSocket, upQueue, upWire)
  /\ UNCHANGED <<sockets, cloudVars, localVars, refused, downLink>>

DownDrain(c) ==
  /\ Drains(c, machineSocket, downQueue, downWire)
  /\ UNCHANGED <<sockets, cloudVars, localVars, refused, upLink>>

CloudHandles(c) ==
  \/ ReceiveOpenOk(c) \/ ReceiveOpenFailed(c) \/ ReceiveData(c) \/ ReceiveDataOverloads(c)
  \/ ReceiveClose(c)
MachineHandles(c) ==
  MachineOpen(c) \/ MachineData(c) \/ MachineDataOverloads(c) \/ MachineClose(c)

Next ==
  \/ \E c \in Connections :
       \/ OpenGateway(c) \/ GatewayMessage(c) \/ GatewayMessageRefused(c) \/ UpOverflows(c)
       \/ GatewayCloses(c) \/ GatewayError(c) \/ GatewayClose(c)
       \/ LocalOpen(c) \/ LocalOpenOverloads(c) \/ LocalMessage(c) \/ LocalMessageRefused(c)
       \/ DownOverflows(c) \/ LocalFails(c) \/ LocalError(c) \/ LocalCloses(c) \/ LocalClose(c)
       \/ CloudHandles(c) \/ MachineHandles(c) \/ UpDrain(c) \/ DownDrain(c)
  \/ CloudSocketCloses \/ MachineSocketCloses \/ Replaced
  \/ CloudCloseEvent \/ MachineCloseEvent \/ MachineExits \/ Reconnect

Spec == Init /\ [][Next]_vars

\* What the event loops and the network do in time, the closing handshakes of the
\* websockets (ws ends them itself after a while), a connection attempt to the local
\* server, and each end's heartbeat, which terminates a tunnel whose peer is gone.
Fairness ==
  /\ \A c \in Connections :
       /\ WF_vars(UpDrain(c)) /\ WF_vars(DownDrain(c))
       /\ WF_vars(CloudHandles(c)) /\ WF_vars(MachineHandles(c))
       /\ WF_vars(gateway[c] \in {"closing", "failed"} /\ GatewayClose(c))
       /\ WF_vars(LocalOpen(c) \/ LocalFails(c))
       /\ WF_vars(local[c] \in {"closing", "failed"} /\ LocalClose(c))
  /\ WF_vars(CloudCloseEvent) /\ WF_vars(MachineCloseEvent)
  /\ WF_vars(machineSocket # "open" /\ CloudSocketCloses)
  /\ WF_vars(cloudSocket # "open" /\ MachineSocketCloses)

FairSpec == Spec /\ Fairness

-----------------------------------------------------------------------------
\* Types, and what the tables say of the websockets in them.
Frames == [type : {"open", "openOk", "openFailed", "data", "close"}, n : 0..MaxMessages]

TypeOK ==
  /\ cloudSocket \in {"open", "closing", "replaced", "closed"}
  /\ machineSocket \in {"open", "closing", "closed"}
  /\ {upQueue, upWire, downQueue, downWire} \subseteq [Connections -> Seq(Frames)]
  /\ gateway \in [Connections -> {"none", "open", "closing", "failed", "closed"}]
  /\ local \in [Connections ->
                  {"none", "connecting", "open", "aborted", "failed", "closing", "closed"}]
  /\ {known, inLocal, refused} \subseteq [Connections -> BOOLEAN]
  /\ {sent, produced} \subseteq [Connections -> 0..MaxMessages]
  /\ {toUser, toLocal, pendingData} \subseteq [Connections -> Seq(1..MaxMessages)]
  /\ \A c \in Connections :
       /\ known[c] => gateway[c] \in {"open", "closing"}
       /\ inLocal[c] => local[c] \in {"connecting", "open", "closing"}
       /\ pendingData[c] # <<>> => inLocal[c]

IsPrefixOfNumbers(seq) == \A i \in DOMAIN seq : seq[i] = i

\* What reaches the local server is what the user sent, in order and without a gap,
\* whether it was kept while the local websocket was opening or not: everything up to
\* some message.  The exception is a user whose message was too large: the close that
\* follows can overtake an open frame that is still queued, and what the user sends
\* until its websocket has closed then reaches the local server after the gap.
PrefixUp == \A c \in Connections : ~ refused[c] => IsPrefixOfNumbers(toLocal[c])

\* What reaches the user is everything the local server sent up to some message, in
\* order, whatever was refused, dropped or overtaken by a close.
PrefixDown == \A c \in Connections : IsPrefixOfNumbers(toUser[c])

\* Both directions of a route.
InOrder == PrefixUp /\ PrefixDown

\* The end of the tunnel is the end of every route on it, on both sides.
RoutesEndWithTunnel ==
  \A c \in Connections :
    /\ cloudSocket = "closed" => ~ known[c] /\ gateway[c] # "open"
    /\ machineSocket = "closed" => ~ inLocal[c] /\ local[c] \notin {"connecting", "open"}

\* A user that is gone does not keep a websocket to the local server, even one that is
\* opened for it later by a frame that was under way.
LocalFollowsUser ==
  \A c \in Connections :
    gateway[c] = "closed" /\ local[c] \notin {"none", "closed"} ~> local[c] \in {"none", "closed"}

\* A user does not keep a websocket whose other end is gone, with its local server's or
\* with the machine.
UserFollowsLocal ==
  \A c \in Connections :
    gateway[c] = "open" /\ (machineSocket # "open" \/ local[c] = "closed") ~> gateway[c] # "open"

\* The end of either side of a route reaches the other.
EndsFollow == LocalFollowsUser /\ UserFollowsLocal

\* A local websocket that failed to open is answered with an openResult: its close event
\* does not take back the one that is still queued.
OpenAnswered ==
  [][\A c \in Connections :
       /\ LocalClose(c)
       /\ known[c] /\ machineSocket = "open" /\ OpenFailed \in ToSet(downQueue[c])
       => OpenFailed \in ToSet(downQueue'[c]) \cup ToSet(downWire'[c])]_vars

=============================================================================
