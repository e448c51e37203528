----------------------------- MODULE TunnelHttp -----------------------------
(***************************************************************************)
(* An HTTP request proxied through a machine tunnel.  The cloud server     *)
(* (MachineTunnel in packages/cloud-server/src/gateway/tunnel.ts) sends    *)
(* the request as frames over the tunnel's websocket; the machine          *)
(* (MachineTunnelClient in packages/server/src/tunnel/client.ts) makes the *)
(* request to its local server and sends the response back as frames.  A   *)
(* buffered request resolves when the whole response is there, a streamed  *)
(* one when it starts.                                                     *)
(*                                                                         *)
(* Every `await' of a coroutine is the end of a step; a promise that is    *)
(* rejected resumes its coroutine in the same step (a microtask), one that *)
(* the socket resolves in a later one.                                     *)
(***************************************************************************)
EXTENDS TunnelLink

CONSTANT MaxChunks   \* the local server's streamed responses have at most that many chunks

ASSUME ChunkAssumption == MaxChunks \in Nat

VARIABLES
  (* MachineTunnel, for each request *)
  kind,            \* proxyHttpRequest ("buffer") or proxyStreamingHttpRequest ("stream")
  hasBody,         \* GatewayHttpRequest.body is there
  pending,         \* in pendingHttpRequests or pendingHttpStreams
  timer,           \* the request's timeout is armed
  active,          \* in activeHttpResponses
  upload,          \* the frame whose promise sendHttpRequest awaits
  reply,           \* what the caller has been told
  status,          \* ActiveHttpResponse.statusCode
  body,            \* the chunks the response holds or has passed on
  (* MachineTunnelClient, for each request *)
  machinePending,  \* pendingHttpRequests: "none", "started", "withBody"
  controller,      \* in httpAbortControllers
  aborted,         \* the signal the request's fetch was given
  handler,         \* the await handleHttpRequest is at
  fetched,         \* history: what the local server was asked
  produced         \* history: the chunks read from the local server's response

cloudVars == <<kind, hasBody, pending, timer, active, upload, reply, status, body>>
machineVars == <<machinePending, controller, aborted, handler, fetched, produced>>
vars == <<linkVars, cloudVars, machineVars>>

ErrorBody == 0      \* the JSON of a 502 response; the chunks are 1, 2, ...
Frame(type, n) == [type |-> type, n |-> n]
OkStart == Frame("start", 200)
BadStart == Frame("start", 502)
Chunk(n) == Frame("body", n)
End == Frame("end", 0)
CloseFrame == Frame("close", 0)

Settled == {"complete", "failed", "cancelled"}
Failing == {"errorStart", "errorBody", "errorEnd"}   \* the catch block of handleHttpRequest
Sending == {"start", "body", "end"} \cup Failing     \* awaits sendControl/BinaryToCloud

Init ==
  /\ LinkInit
  /\ kind = [r \in Connections |-> "buffer"]
  /\ hasBody = [r \in Connections |-> FALSE]
  /\ pending = [r \in Connections |-> FALSE]
  /\ timer = [r \in Connections |-> FALSE]
  /\ active = [r \in Connections |-> FALSE]
  /\ upload = [r \in Connections |-> "none"]
  /\ reply = [r \in Connections |-> "unused"]
  /\ status = [r \in Connections |-> 0]
  /\ body = [r \in Connections |-> <<>>]
  /\ machinePending = [r \in Connections |-> "none"]
  /\ controller = [r \in Connections |-> FALSE]
  /\ aborted = [r \in Connections |-> FALSE]
  /\ handler = [r \in Connections |-> "none"]
  /\ fetched = [r \in Connections |-> "nothing"]
  /\ produced = [r \in Connections |-> 0]

-----------------------------------------------------------------------------
UpDrain(r) ==
  /\ Drains(r, cloudSocket, upQueue, upWire)
  /\ UNCHANGED <<sockets, cloudVars, machineVars, downLink>>

\* Mutant: the frame is sent but not taken off the queue the first time.
DownDrainKeeps(r) ==
  /\ machineSocket = "open" /\ downQueue[r] # <<>>
  /\ downWire' = [downWire EXCEPT ![r] = Append(@, Head(downQueue[r]))]
  /\ downQueue' \in {downQueue, [downQueue EXCEPT ![r] = Tail(@)]}
  /\ Len(downWire[r]) < 2
  /\ UNCHANGED <<sockets, cloudVars, machineVars, upLink>>

DownDrain(r) ==
  /\ Drains(r, machineSocket, downQueue, downWire)
  /\ UNCHANGED <<sockets, cloudVars, machineVars, upLink>>

-----------------------------------------------------------------------------
(***************************************************************************)
(* The cloud server.                                                       *)
(***************************************************************************)
\* Mutant: the queue is dropped and its frames' promises resolve.
RemoveUploadSilently(r) ==
  /\ upQueue' = [upQueue EXCEPT ![r] = <<>>]
  /\ UNCHANGED upload

\* removeConnection(): the awaited frame, if it is still queued, is rejected and
\* ends sendHttpRequest.
RemoveUpload(r) ==
  /\ upQueue' = [upQueue EXCEPT ![r] = <<>>]
  /\ upload' = [upload EXCEPT ![r] = IF upQueue[r] = <<>> THEN @ ELSE "none"]

\* The caller is told of a failure unless it has its answer: its promise is
\* rejected or the stream it holds is errored.
Fails(r) == IF reply[r] \in {"waiting", "streaming"} THEN "failed" ELSE reply[r]

\* A connection id is never reused: the slot r is one of which nothing is left.
Unused(r) ==
  /\ reply[r] \in Settled \cup {"unused"} /\ upload[r] = "none"
  /\ machinePending[r] = "none" /\ ~ controller[r] /\ handler[r] = "none"
  /\ NoFrames(r)

\* The registry may hold a tunnel whose socket is closing.
ProxyRequest(r) ==
  /\ Unused(r)
  /\ cloudSocket \in {"open", "closing"}
  /\ \E k \in {"buffer", "stream"}, b \in BOOLEAN :
       /\ kind' = [kind EXCEPT ![r] = k]
       /\ hasBody' = [hasBody EXCEPT ![r] = b]
  /\ pending' = [pending EXCEPT ![r] = TRUE]
  /\ timer' = [timer EXCEPT ![r] = TRUE]
  /\ active' = [active EXCEPT ![r] = FALSE]
  /\ reply' = [reply EXCEPT ![r] = "waiting"]
  /\ status' = [status EXCEPT ![r] = 0]
  /\ body' = [body EXCEPT ![r] = <<>>]
  /\ upload' = [upload EXCEPT ![r] = "start"]
  /\ UpSend(r, OkStart)
  /\ aborted' = [aborted EXCEPT ![r] = FALSE]
  /\ fetched' = [fetched EXCEPT ![r] = "nothing"]
  /\ produced' = [produced EXCEPT ![r] = 0]
  /\ UNCHANGED <<sockets, machinePending, controller, handler, downLink>>

\* sendHttpRequest goes on when the socket has taken the frame, whatever became
\* of the request meanwhile.
UploadContinues(r) ==
  /\ upload[r] # "none" /\ upQueue[r] = <<>>
  /\ LET next == CASE upload[r] = "start" /\ hasBody[r] -> "body"
                   [] upload[r] = "end" -> "none"
                   [] OTHER -> "end"
     IN /\ upload' = [upload EXCEPT ![r] = next]
        /\ IF next = "none" THEN UNCHANGED upLink ELSE UpSend(r, Frame(next, 0))
  /\ UNCHANGED <<sockets, kind, hasBody, pending, timer, active, reply, status, body,
                 machineVars, downLink>>

\* The socket fails the write it was given: the catch of proxyHttpRequest.
UploadFails(r) ==
  /\ upload[r] # "none" /\ cloudSocket \in {"closing", "replaced"}
  /\ upload' = [upload EXCEPT ![r] = "none"]
  /\ timer' = [timer EXCEPT ![r] = FALSE]
  /\ pending' = [pending EXCEPT ![r] = FALSE]
  /\ reply' = [reply EXCEPT ![r] = IF @ = "waiting" THEN "failed" ELSE @]
  /\ UNCHANGED <<sockets, kind, hasBody, active, status, body, machineVars, upLink, downLink>>

\* The request's 120 seconds are over.  The machine is not told.
Timeout(r) ==
  /\ timer[r]
  /\ timer' = [timer EXCEPT ![r] = FALSE]
  /\ pending' = [pending EXCEPT ![r] = FALSE]
  /\ active' = [active EXCEPT ![r] = FALSE]
  /\ reply' = [reply EXCEPT ![r] = Fails(r)]
  /\ RemoveUpload(r)
  /\ UNCHANGED <<sockets, kind, hasBody, status, body, machineVars, upWire, downLink>>

\* closeLogicalConnectionForOverload: the machine is told directly, past the queue.
CloseForOverload(r) ==
  /\ timer' = [timer EXCEPT ![r] = FALSE]
  /\ pending' = [pending EXCEPT ![r] = FALSE]
  /\ active' = [active EXCEPT ![r] = FALSE]
  /\ reply' = [reply EXCEPT ![r] = Fails(r)]
  /\ upWire' = IF cloudSocket = "open"
               THEN [upWire EXCEPT ![r] = Append(@, CloseFrame)] ELSE upWire

\* enforceLimits() drops the request's queue, on its own account or on that of
\* the common limit.  A frame too large for its profile ends the same way: it is one
\* that is queued and dropped at once.
UploadOverflows(r) ==
  /\ cloudSocket = "open" /\ upQueue[r] # <<>>
  /\ CloseForOverload(r)
  /\ RemoveUpload(r)
  /\ UNCHANGED <<sockets, kind, hasBody, status, body, machineVars, downLink>>

\* Mutants: which requests stop being timed when their response starts.
StartStopsTimer(r, stops) ==
  /\ CloudReceives(r, "start")
  /\ LET known == Handled /\ pending[r]
         opens == known /\ kind[r] = "stream"
     IN /\ active' = [active EXCEPT ![r] = @ \/ known]
        /\ status' = [status EXCEPT ![r] = IF known THEN Head(downWire[r]).n ELSE @]
        /\ body' = [body EXCEPT ![r] = IF known THEN <<>> ELSE @]
        /\ timer' = [timer EXCEPT ![r] = @ /\ ~ (known /\ stops)]
        /\ pending' = [pending EXCEPT ![r] = @ /\ ~ opens]
        /\ reply' = [reply EXCEPT ![r] = IF opens THEN "streaming" ELSE @]
  /\ UNCHANGED <<sockets, kind, hasBody, upload, machineVars, upLink, downQueue>>

ReceiveStartTimed(r) == StartStopsTimer(r, FALSE)
ReceiveStartUntimed(r) == StartStopsTimer(r, TRUE)

\* resolveHttpStreamStart
ReceiveStart(r) ==
  /\ CloudReceives(r, "start")
  /\ LET known == Handled /\ pending[r]
         opens == known /\ kind[r] = "stream"
     IN /\ active' = [active EXCEPT ![r] = @ \/ known]
        /\ status' = [status EXCEPT ![r] = IF known THEN Head(downWire[r]).n ELSE @]
        /\ body' = [body EXCEPT ![r] = IF known THEN <<>> ELSE @]
        /\ timer' = [timer EXCEPT ![r] = @ /\ ~ opens]
        /\ pending' = [pending EXCEPT ![r] = @ /\ ~ opens]
        /\ reply' = [reply EXCEPT ![r] = IF opens THEN "streaming" ELSE @]
  /\ UNCHANGED <<sockets, kind, hasBody, upload, machineVars, upLink, downQueue>>

\* writeHttpStreamChunk
ReceiveBody(r) ==
  /\ CloudReceives(r, "body")
  /\ body' = [body EXCEPT ![r] = IF Handled /\ active[r]
                                 THEN Append(@, Head(downWire[r]).n) ELSE @]
  /\ UNCHANGED <<sockets, kind, hasBody, pending, timer, active, upload, reply, status,
                 machineVars, upLink, downQueue>>

\* ... and the response is over its limit: the buffered bytes, or those the
\* stream's reader has not taken.
ReceiveBodyOverloads(r) ==
  /\ CloudReceives(r, "body")
  /\ Handled /\ active[r]
  /\ CloseForOverload(r)
  /\ UNCHANGED <<sockets, kind, hasBody, upload, status, body, machineVars, upQueue, downQueue>>

\* closeHttpStream
ReceiveEnd(r) ==
  /\ CloudReceives(r, "end")
  /\ IF Handled /\ active[r]
     THEN /\ timer' = [timer EXCEPT ![r] = FALSE]
          /\ pending' = [pending EXCEPT ![r] = FALSE]
          /\ active' = [active EXCEPT ![r] = FALSE]
          /\ reply' = [reply EXCEPT ![r] =
                         IF @ \in {"waiting", "streaming"} THEN "complete" ELSE @]
          /\ RemoveUpload(r)
     ELSE UNCHANGED <<timer, pending, active, reply, upload, upQueue>>
  /\ UNCHANGED <<sockets, kind, hasBody, status, body, machineVars, upWire, downQueue>>

\* handleMachineMessage looks a close up in gatewayConnections only, which holds
\* no HTTP request.
ReceiveClose(r) ==
  /\ CloudReceives(r, "close")
  /\ UNCHANGED <<sockets, cloudVars, machineVars, upLink, downQueue>>

\* The reader of a streamed response cancels it.  The close frame is enqueued and
\* removeConnection() follows: a frame that could not be sent at once is dropped.
Cancel(r) ==
  /\ reply[r] = "streaming"
  /\ reply' = [reply EXCEPT ![r] = "cancelled"]
  /\ active' = [active EXCEPT ![r] = FALSE]
  /\ RemoveUpload(r)
  /\ \/ UNCHANGED upWire
     \/ /\ cloudSocket = "open" /\ upQueue = Quiet
        /\ upWire' = [upWire EXCEPT ![r] = Append(@, CloseFrame)]
  /\ UNCHANGED <<sockets, kind, hasBody, pending, timer, status, body, machineVars, downLink>>

-----------------------------------------------------------------------------
(***************************************************************************)
(* The machine.                                                            *)
(***************************************************************************)
\* The process ends: nothing of it is left.  systemd starts it again.
ProcessExits ==
  /\ MachineGone
  /\ machinePending' = [r \in Connections |-> "none"]
  /\ controller' = [r \in Connections |-> FALSE]
  /\ handler' = [r \in Connections |-> "none"]

\* A queued frame that is rejected ends its handler: in the try block, the
\* request has been aborted before and the handler returns; in the catch block,
\* the rejection is nobody's and ends the process.
Unhandled(dropped) == \E r \in dropped : downQueue[r] # <<>> /\ handler[r] \in Failing

\* Requests are aborted, forgotten and their queues dropped.
Abandon(dropped) ==
  /\ aborted' = [r \in Connections |-> aborted[r] \/ (r \in dropped /\ controller[r])]
  /\ controller' = [r \in Connections |-> controller[r] /\ r \notin dropped]
  /\ machinePending' = [r \in Connections |-> IF r \in dropped THEN "none" ELSE machinePending[r]]
  /\ downQueue' = [r \in Connections |-> IF r \in dropped THEN <<>> ELSE downQueue[r]]
  /\ handler' = [r \in Connections |->
                   IF r \in dropped /\ downQueue[r] # <<>> THEN "none" ELSE handler[r]]

\* startHttpRequest
MachineStart(r) ==
  /\ MachineReceives(r, "start")
  /\ controller' = [controller EXCEPT ![r] = TRUE]
  /\ machinePending' = [machinePending EXCEPT ![r] = "started"]
  /\ UNCHANGED <<sockets, cloudVars, aborted, handler, fetched, produced, upQueue, downLink>>

\* handleCloudBinaryFrame
MachineBody(r) ==
  /\ MachineReceives(r, "body")
  /\ machinePending' = [machinePending EXCEPT ![r] = IF @ = "none" THEN @ ELSE "withBody"]
  /\ UNCHANGED <<sockets, cloudVars, controller, aborted, handler, fetched, produced, upQueue,
                 downLink>>

\* Mutant: a request that is not pending is made all the same.
MachineEndUnchecked(r) ==
  /\ MachineReceives(r, "end")
  /\ machinePending' = [machinePending EXCEPT ![r] = "none"]
  /\ handler' = [handler EXCEPT ![r] = "fetch"]
  /\ fetched' = [fetched EXCEPT ![r] = machinePending[r]]
  /\ UNCHANGED <<sockets, cloudVars, controller, aborted, produced, upQueue, downLink>>

\* Mutant: the abort controller is forgotten with the pending request.
MachineEndForgets(r) ==
  /\ MachineReceives(r, "end")
  /\ machinePending' = [machinePending EXCEPT ![r] = "none"]
  /\ controller' = [controller EXCEPT ![r] = FALSE]
  /\ IF machinePending[r] = "none"
     THEN UNCHANGED <<handler, fetched>>
     ELSE /\ handler' = [handler EXCEPT ![r] = "fetch"]
          /\ fetched' = [fetched EXCEPT ![r] = machinePending[r]]
  /\ UNCHANGED <<sockets, cloudVars, aborted, produced, upQueue, downLink>>

\* finishHttpRequest: the local server is asked.
MachineEnd(r) ==
  /\ MachineReceives(r, "end")
  /\ machinePending' = [machinePending EXCEPT ![r] = "none"]
  /\ IF machinePending[r] = "none"
     THEN UNCHANGED <<handler, fetched>>
     ELSE /\ handler' = [handler EXCEPT ![r] = "fetch"]
          /\ fetched' = [fetched EXCEPT ![r] = machinePending[r]]
  /\ UNCHANGED <<sockets, cloudVars, controller, aborted, produced, upQueue, downLink>>

\* The "close" case of handleCloudMessage.
MachineClose(r) ==
  /\ machineSocket # "closed" /\ Arriving(r, "close", upWire)
  /\ IF Unhandled({r})
     THEN ProcessExits /\ UNCHANGED aborted
     ELSE Abandon({r}) /\ Arrives(r, upWire) /\ UNCHANGED machineSocket
  /\ UNCHANGED <<cloudSocket, cloudVars, fetched, produced, upQueue, downWire>>

\* The local server's response is there: its headers, and the whole body when the
\* request is a buffered one.
FetchResolves(r) ==
  /\ handler[r] = "fetch" /\ ~ aborted[r]
  /\ handler' = [handler EXCEPT ![r] = "start"]
  /\ produced' = [produced EXCEPT ![r] = IF kind[r] = "buffer" THEN 1 ELSE 0]
  /\ DownSend(r, OkStart)
  /\ UNCHANGED <<sockets, cloudVars, machinePending, controller, aborted, fetched, upLink>>

\* streamHttpResponse: a chunk of the body.
ReadChunk(r) ==
  /\ handler[r] = "read" /\ ~ aborted[r] /\ produced[r] < MaxChunks
  /\ handler' = [handler EXCEPT ![r] = "body"]
  /\ produced' = [produced EXCEPT ![r] = @ + 1]
  /\ DownSend(r, Chunk(produced[r] + 1))
  /\ UNCHANGED <<sockets, cloudVars, machinePending, controller, aborted, fetched, upLink>>

\* streamHttpResponse: the end of the body.
ReadDone(r) ==
  /\ handler[r] = "read" /\ ~ aborted[r]
  /\ handler' = [handler EXCEPT ![r] = "end"]
  /\ DownSend(r, End)
  /\ UNCHANGED <<sockets, cloudVars, machinePending, controller, aborted, fetched, produced, upLink>>

\* The request to the local server, or reading its response, fails; or the socket
\* fails a write.
HandlerFails(r) ==
  /\ \/ handler[r] \in {"fetch", "read"}
     \/ handler[r] \in Sending \ Failing /\ machineSocket = "closing" /\ downQueue[r] = <<>>
  /\ ~ aborted[r]
  /\ handler' = [handler EXCEPT ![r] = "errorStart"]
  /\ DownSend(r, BadStart)
  /\ UNCHANGED <<sockets, cloudVars, machinePending, controller, aborted, fetched, produced, upLink>>

\* The signal rejects the fetch or the read; `finally' ends the handler.
HandlerAborts(r) ==
  /\ handler[r] \in {"fetch", "read"} /\ aborted[r]
  /\ handler' = [handler EXCEPT ![r] = "none"]
  /\ controller' = [controller EXCEPT ![r] = FALSE]
  /\ UNCHANGED <<sockets, cloudVars, machinePending, aborted, fetched, produced, upLink, downLink>>

\* Mutant: a buffered response's body is left out.
AfterFrameNoBody(r) ==
  CASE handler[r] = "start" -> IF kind[r] = "buffer" THEN "end" ELSE "read"
    [] handler[r] = "body" -> IF kind[r] = "buffer" THEN "end" ELSE "read"
    [] handler[r] = "errorStart" -> "errorBody"
    [] handler[r] = "errorBody" -> "errorEnd"
    [] OTHER -> "none"

\* The socket has taken the awaited frame and handleHttpRequest sends the next one,
\* aborted or not.
AfterFrame(r) ==
  CASE handler[r] = "start" -> IF kind[r] = "buffer" THEN "body" ELSE "read"
    [] handler[r] = "body" -> IF kind[r] = "buffer" THEN "end" ELSE "read"
    [] handler[r] = "errorStart" -> "errorBody"
    [] handler[r] = "errorBody" -> "errorEnd"
    [] OTHER -> "none"

NextFrame(r) ==
  CASE AfterFrame(r) = "body" -> Chunk(1)
    [] AfterFrame(r) = "errorBody" -> Chunk(ErrorBody)
    [] OTHER -> End

HandlerContinues(r) ==
  /\ handler[r] \in Sending /\ downQueue[r] = <<>>
  /\ handler' = [handler EXCEPT ![r] = AfterFrame(r)]
  /\ IF AfterFrame(r) \in {"read", "none"} THEN UNCHANGED downLink ELSE DownSend(r, NextFrame(r))
  /\ controller' = [controller EXCEPT ![r] = @ /\ AfterFrame(r) # "none"]
  /\ UNCHANGED <<sockets, cloudVars, machinePending, aborted, fetched, produced, upLink>>

\* enforceLimits() drops the response's queue, or enqueue() refuses a frame too large
\* for its profile; closeLogicalConnectionForOverload tells the cloud directly.
ResponseOverflows(r) ==
  /\ machineSocket = "open" /\ downQueue[r] # <<>>
  /\ downWire' = [downWire EXCEPT ![r] = Append(@, CloseFrame)]
  /\ IF Unhandled({r})
     THEN ProcessExits /\ UNCHANGED aborted
     ELSE Abandon({r}) /\ UNCHANGED <<machineSocket, upWire>>
  /\ UNCHANGED <<cloudSocket, cloudVars, fetched, produced, upQueue>>

-----------------------------------------------------------------------------
(***************************************************************************)
(* The tunnel's websocket.                                                 *)
(***************************************************************************)
CloudSocketCloses ==
  /\ CloudCloses
  /\ UNCHANGED <<cloudVars, machineVars>>

MachineSocketCloses ==
  /\ MachineCloses
  /\ UNCHANGED <<cloudVars, machineVars>>

\* rejectPendingHttpRequests and, with the streams, rejectHttpStreams; the uploads
\* whose queues the scheduler's close() drops are rejected.
RejectRequests(rejected) ==
  /\ timer' = [r \in Connections |-> timer[r] /\ r \notin rejected]
  /\ pending' = [r \in Connections |-> pending[r] /\ r \notin rejected]
  /\ active' = [r \in Connections |-> active[r] /\ r \notin rejected]
  /\ reply' = [r \in Connections |-> IF r \in rejected THEN Fails(r) ELSE reply[r]]
  /\ upload' = [r \in Connections |-> IF upQueue[r] = <<>> THEN upload[r] ELSE "none"]

\* A request whose upload is rejected by close() is failed by its own catch.
Rejected(sources) ==
  sources \cup {r \in Connections : pending[r] /\ upQueue[r] # <<>>}

\* The machine has opened another tunnel and the registry replaces this one:
\* close() rejects the buffered requests only.
Replaced ==
  /\ CloudReplaced
  /\ RejectRequests(Rejected({r \in Connections : pending[r] /\ kind[r] = "buffer"}))
  /\ UNCHANGED <<kind, hasBody, status, body, machineVars>>

\* Mutant: the responses that are being streamed are left out.
CloudCloseEventPendingOnly ==
  /\ CloudClosed
  /\ RejectRequests({r \in Connections : pending[r]})
  /\ UNCHANGED <<kind, hasBody, status, body, machineVars>>

\* The "close" event at the cloud.
CloudCloseEvent ==
  /\ CloudClosed
  /\ RejectRequests({r \in Connections : pending[r] \/ active[r]})
  /\ UNCHANGED <<kind, hasBody, status, body, machineVars>>

\* The "close" event at the machine.
MachineCloseEvent ==
  /\ MachineClosed
  /\ IF Unhandled(Connections)
     THEN ProcessExits /\ UNCHANGED aborted
     ELSE Abandon(Connections)
  /\ UNCHANGED <<cloudVars, fetched, produced>>

\* The socket fails a write of the catch block, or the process is stopped.
MachineExits ==
  /\ ProcessExits
  /\ UNCHANGED <<cloudVars, aborted, fetched, produced, downWire>>

\* A new tunnel.  Handlers of the old one may still be running and use it.
Reconnect ==
  /\ Reconnected
  /\ UNCHANGED <<cloudVars, machineVars>>

CloudHandles(r) ==
  ReceiveStart(r) \/ ReceiveBody(r) \/ ReceiveBodyOverloads(r) \/ ReceiveEnd(r) \/ ReceiveClose(r)
MachineHandles(r) == MachineStart(r) \/ MachineBody(r) \/ MachineEnd(r) \/ MachineClose(r)

Next ==
  \/ \E r \in Connections :
       \/ UpDrain(r) \/ DownDrain(r)
       \/ ProxyRequest(r) \/ UploadContinues(r) \/ UploadFails(r) \/ Timeout(r)
       \/ UploadOverflows(r) \/ CloudHandles(r) \/ Cancel(r)
       \/ MachineHandles(r)
       \/ FetchResolves(r) \/ ReadChunk(r) \/ ReadDone(r) \/ HandlerFails(r)
       \/ HandlerAborts(r) \/ HandlerContinues(r) \/ ResponseOverflows(r)
  \/ CloudSocketCloses \/ MachineSocketCloses \/ Replaced
  \/ CloudCloseEvent \/ MachineCloseEvent \/ MachineExits \/ Reconnect

Spec == Init /\ [][Next]_vars

\* What the event loops and the network do in time, and each end's heartbeat, which
\* terminates a socket whose peer is gone.  What the users, the local server and the
\* failures do is not promised.
Fairness ==
  /\ \A r \in Connections :
       /\ WF_vars(UpDrain(r)) /\ WF_vars(DownDrain(r))
       /\ WF_vars(UploadContinues(r)) /\ WF_vars(Timeout(r))
       /\ WF_vars(CloudHandles(r)) /\ WF_vars(MachineHandles(r))
       /\ WF_vars(HandlerAborts(r)) /\ WF_vars(HandlerContinues(r))
  /\ WF_vars(CloudCloseEvent) /\ WF_vars(MachineCloseEvent)
  /\ WF_vars(machineSocket # "open" /\ CloudSocketCloses)
  /\ WF_vars(cloudSocket # "open" /\ MachineSocketCloses)

FairSpec == Spec /\ Fairness

-----------------------------------------------------------------------------
Frames == [type : {"start", "body", "end", "close"}, n : 0..MaxChunks \cup {1, 200, 502}]

TypeOK ==
  /\ cloudSocket \in {"open", "closing", "replaced", "closed"}
  /\ machineSocket \in {"open", "closing", "closed"}
  /\ kind \in [Connections -> {"buffer", "stream"}]
  /\ {hasBody, pending, timer, active, controller, aborted} \subseteq [Connections -> BOOLEAN]
  /\ upload \in [Connections -> {"none", "start", "body", "end"}]
  /\ reply \in [Connections -> {"unused", "waiting", "streaming"} \cup Settled]
  /\ status \in [Connections -> {0, 200, 502}]
  /\ body \in [Connections -> Seq(0..MaxChunks \cup {1})]
  /\ machinePending \in [Connections -> {"none", "started", "withBody"}]
  /\ handler \in [Connections -> {"none", "fetch", "read"} \cup Sending]
  /\ fetched \in [Connections -> {"nothing", "started", "withBody"}]
  /\ produced \in [Connections -> 0..MaxChunks \cup {1}]
  /\ {upQueue, upWire, downQueue, downWire} \subseteq [Connections -> Seq(Frames)]

\* The local server is only asked what the caller asked: a request of which a
\* frame was lost, rejected or withdrawn on the way is never made without it.
WholeRequest ==
  \A r \in Connections :
    fetched[r] # "nothing" => fetched[r] = IF hasBody[r] THEN "withBody" ELSE "started"

\* A buffered request that resolves has the local server's status and its whole
\* body, or the 502 that replaces both, never a mixture of two answers.
BufferedIntegrity ==
  \A r \in Connections :
    kind[r] = "buffer" /\ reply[r] = "complete" =>
      \/ status[r] = 200 /\ body[r] = <<1>>
      \/ status[r] = 502 /\ body[r] = <<ErrorBody>>

\* The reader of a streamed response was told of an error; what it had before.
Told(passed) == passed # <<>> /\ passed[Len(passed)] = ErrorBody
Chunks(passed) == IF Told(passed) THEN Len(passed) - 1 ELSE Len(passed)

\* What a streamed response has passed on is a prefix of what the local server
\* produced, in order, and at most the JSON of an error after it.
StreamPrefix ==
  \A r \in Connections :
    kind[r] = "stream" =>
      /\ Chunks(body[r]) <= produced[r]
      /\ \A i \in 1..Chunks(body[r]) : body[r][i] = i

\* An answer, buffered or streamed, is the local server's.
AnswerIntegrity == BufferedIntegrity /\ StreamPrefix

\* A caller waits exactly as long as the request is in its map and its timeout is
\* armed: no caller waits without a timeout and no timeout hits a response that
\* streams or a request that was answered.
WaitingIsTimed ==
  \A r \in Connections : (reply[r] = "waiting") = timer[r] /\ timer[r] = pending[r]

\* The end of the tunnel is the end of every request on it, on both sides: nobody
\* waits for an answer or reads a stream that cannot go on, and no request to the
\* local server goes on for nobody.
NothingOutlivesTunnel ==
  \A r \in Connections :
    /\ cloudSocket = "closed" =>
         reply[r] \notin {"waiting", "streaming"} /\ ~ active[r] /\ upQueue[r] = <<>>
    /\ machineSocket = "closed" =>
         /\ handler[r] \in {"fetch", "read"} => aborted[r]
         /\ machinePending[r] = "none" /\ ~ controller[r] /\ downQueue[r] = <<>>

\* While a request to the local server runs, a close frame can still abort it.
Abortable ==
  \A r \in Connections :
    (machinePending[r] # "none" \/ handler[r] \in {"fetch", "read"}) /\ ~ aborted[r]
      => controller[r]

\* Every caller gets its answer, whatever becomes of the machine.
WaitingEnds == \A r \in Connections : reply[r] = "waiting" ~> reply[r] # "waiting"

\* A streamed response does not outlive the machine it comes from: its reader is told.
LossIsTold ==
  \A r \in Connections :
    reply[r] = "streaming" /\ machineSocket # "open" ~> reply[r] # "streaming"

\* Nobody who made a request is left without the end of it: both of the above.
CallersAreTold == WaitingEnds /\ LossIsTold

\* The caller's cancellation of a streamed response ends the request at the machine.
CancelReaches ==
  \A r \in Connections :
    reply[r] = "cancelled" ~> aborted[r] \/ handler[r] = "none"

\* The machine is through with the request and everything it sent has arrived.
Over(r) ==
  /\ cloudSocket = "open" /\ machineSocket = "open"
  /\ fetched[r] # "nothing" /\ handler[r] = "none" /\ downWire[r] = <<>>

\* A streamed response that goes wrong at the machine is seen to: it does not look
\* complete and its reader is not left waiting.
ProperFailure ==
  \A r \in Connections :
    Over(r) /\ kind[r] = "stream" =>
      /\ reply[r] # "streaming"
      /\ reply[r] = "complete" /\ status[r] = 200 => body[r] = [i \in 1..produced[r] |-> i]

=============================================================================
