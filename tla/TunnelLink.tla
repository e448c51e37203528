----------------------------- MODULE TunnelLink -----------------------------
(***************************************************************************)
(* What the protocols on a machine tunnel share: the websocket with its    *)
(* two ends, the cloud server's MachineTunnel                              *)
(* (packages/cloud-server/src/gateway/tunnel.ts) and the machine's         *)
(* MachineTunnelClient (packages/server/src/tunnel/client.ts), and for     *)
(* each logical connection and direction the queue of the send scheduler   *)
(* and the frames on the wire.                                             *)
(*                                                                         *)
(* TunnelScheduler shows what is used of the scheduler here: the frames of *)
(* a connection leave in the order they are enqueued until its queue is    *)
(* dropped as a whole.  Other connections enter through what they do to a  *)
(* connection: they keep its frames in the queue and they push the tunnel  *)
(* over the limit its queues have in common.                               *)
(***************************************************************************)
EXTENDS Naturals, SequencesExt

CONSTANT Connections   \* connection ids (slots, of which an unused one is a fresh id)

VARIABLES
  cloudSocket,     \* machineWebSocket; "replaced": closing, and the registry holds a newer tunnel
  machineSocket,   \* cloudWebSocket
  upQueue, upWire, \* to the machine: the cloud's scheduler and the wire
  downQueue, downWire

sockets == <<cloudSocket, machineSocket>>
upLink == <<upQueue, upWire>>
downLink == <<downQueue, downWire>>
linkVars == <<sockets, upLink, downLink>>

Quiet == [c \in Connections |-> <<>>]

LinkInit ==
  /\ cloudSocket = "open" /\ machineSocket = "open"
  /\ upQueue = Quiet /\ upWire = Quiet
  /\ downQueue = Quiet /\ downWire = Quiet

\* No frame of the connection is anywhere.
NoFrames(c) ==
  upQueue[c] = <<>> /\ upWire[c] = <<>> /\ downQueue[c] = <<>> /\ downWire[c] = <<>>

\* A frame given to a scheduler goes to the socket when nothing at all is queued,
\* unless the socket's buffer is full, and waits in the connection's queue otherwise.
Enqueue(c, frame, queue, wire) ==
  \/ /\ queue = Quiet
     /\ wire' = [wire EXCEPT ![c] = Append(@, frame)]
     /\ UNCHANGED queue
  \/ /\ queue' = [queue EXCEPT ![c] = Append(@, frame)]
     /\ UNCHANGED wire

\* sendControlToMachine, sendBinaryToMachine: a frame is forgotten when the socket is
\* not open.
UpSend(c, frame) ==
  IF cloudSocket = "open" THEN Enqueue(c, frame, upQueue, upWire) ELSE UNCHANGED upLink

\* sendControlToCloud, sendBinaryToCloud
DownSend(c, frame) ==
  IF machineSocket = "open" THEN Enqueue(c, frame, downQueue, downWire) ELSE UNCHANGED downLink

\* drainNow() of either scheduler, for the connection.
Drains(c, socket, queue, wire) ==
  /\ socket = "open" /\ queue[c] # <<>>
  /\ wire' = [wire EXCEPT ![c] = Append(@, Head(queue[c]))]
  /\ queue' = [queue EXCEPT ![c] = Tail(@)]

\* The frame at the head of a connection's wire.
Arriving(c, type, wire) == wire[c] # <<>> /\ Head(wire[c]).type = type
Arrives(c, wire) == wire' = [wire EXCEPT ![c] = Tail(@)]

\* The cloud takes a frame off the wire until its socket's close event; it handles
\* the frame unless the registry holds a newer tunnel.
CloudReceives(c, type) ==
  cloudSocket # "closed" /\ Arriving(c, type, downWire) /\ Arrives(c, downWire)
Handled == cloudSocket # "replaced"

MachineReceives(c, type) ==
  machineSocket # "closed" /\ Arriving(c, type, upWire) /\ Arrives(c, upWire)

-----------------------------------------------------------------------------
\* An end's socket leaves the open state: the network fails, the peer closes it, the
\* heartbeat terminates it.  Its "close" event comes later.
CloudCloses ==
  /\ cloudSocket = "open" /\ cloudSocket' = "closing"
  /\ UNCHANGED <<machineSocket, upLink, downLink>>

MachineCloses ==
  /\ machineSocket = "open" /\ machineSocket' = "closing"
  /\ UNCHANGED <<cloudSocket, upLink, downLink>>

\* The machine has opened another tunnel and the registry closes this one.
CloudReplaced ==
  /\ cloudSocket \in {"open", "closing"} /\ machineSocket = "closed"
  /\ cloudSocket' = "replaced"
  /\ upQueue' = Quiet
  /\ UNCHANGED <<machineSocket, upWire, downLink>>

\* The "close" event at the cloud, at the machine.
CloudClosed ==
  /\ cloudSocket \in {"closing", "replaced"} /\ cloudSocket' = "closed"
  /\ upQueue' = Quiet /\ downWire' = Quiet
  /\ UNCHANGED <<machineSocket, upWire, downQueue>>

MachineClosed ==
  /\ machineSocket = "closing" /\ machineSocket' = "closed"
  /\ downQueue' = Quiet /\ upWire' = Quiet
  /\ UNCHANGED <<cloudSocket, upQueue, downWire>>

\* The machine process is gone: its socket closes without an event.  What it has
\* written to the socket (downWire) still arrives.
MachineGone ==
  /\ machineSocket' = "closed"
  /\ downQueue' = Quiet /\ upWire' = Quiet
  /\ UNCHANGED <<cloudSocket, upQueue>>

\* connect(): a new tunnel, with new schedulers.
Reconnected ==
  /\ cloudSocket = "closed" /\ machineSocket = "closed"
  /\ cloudSocket' = "open" /\ machineSocket' = "open"
  /\ upWire' = Quiet /\ downWire' = Quiet
  /\ UNCHANGED <<upQueue, downQueue>>

=============================================================================
