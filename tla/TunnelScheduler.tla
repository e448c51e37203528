-------------------------- MODULE TunnelScheduler --------------------------
(***************************************************************************)
(* TunnelSendScheduler (packages/tunnel-protocol/src/index.ts): the queue  *)
(* each end of a machine tunnel puts in front of its one physical          *)
(* websocket.  Every logical connection multiplexed on the tunnel has a    *)
(* queue of its own; frames bypass the queues while nothing is queued and  *)
(* the socket's buffer is below the high-water mark, otherwise they wait   *)
(* for a timer that drains the queues by priority and weight whenever the  *)
(* buffer is at or below the low-water mark.  Queues that exceed their own *)
(* or the common byte limit are dropped and their owner is told.           *)
(*                                                                         *)
(* The class runs on one JavaScript thread, so enqueue() and drainNow()    *)
(* are not interrupted.  Their loops are unfolded, one iteration a step:   *)
(* while pc is not "idle" no other handler is enabled.                     *)
(***************************************************************************)
EXTENDS SeqSums, SequencesExt

CONSTANTS
  Conns,           \* connection ids (slots, see NewConnection)
  Priority,        \* TunnelQueueProfile.priority of each connection
  Weight,          \* TunnelQueueProfile.weight
  MaxQueuedBytes,  \* TunnelQueueProfile.maxQueuedBytes
  Bulk,            \* the connections whose profile is a bulk one
  HighWater,       \* highWaterBytes
  LowWater,        \* lowWaterBytes
  TotalLimit,      \* totalQueuedBytes, the limit over all the queues
  FrameSizes,      \* the byte lengths a frame may have
  Wrap,            \* frames of a connection are numbered modulo Wrap
  None             \* no connection

ASSUME ProfileAssumption ==
  /\ Priority \in [Conns -> Nat]
  /\ Weight \in [Conns -> Nat \ {0}]
  /\ MaxQueuedBytes \in [Conns -> Nat]
  /\ Bulk \subseteq Conns
  /\ None \notin Conns

ASSUME LimitAssumption ==
  /\ HighWater \in Nat /\ LowWater \in Nat /\ TotalLimit \in Nat
  /\ FrameSizes \subseteq Nat \ {0}
  /\ Wrap \in Nat \ {0}

VARIABLES
  order,             \* the connections that have a queue, in Map insertion order
  frames,            \* ConnectionQueue.frames
  queuedBytes,       \* ConnectionQueue.queuedBytes
  sentInRound,       \* ConnectionQueue.sentInRound
  totalQueuedBytes,  \* the counter over all the queues
  drainTimer,        \* drainTimer !== null
  pc,                \* the loop the running handler is in, "idle" between handlers
  caller,            \* the connection whose enqueue() is running
  socket,            \* the physical websocket: isOpen() is socket = "open"
  bufferedAmount,    \* socket.bufferedAmount
  accepted,          \* history: number of the last frame offered to enqueue()
  handed,            \* history: number of the last frame given to socket.send()
  gap                \* history: the connections that lost a frame

queueVars == <<order, frames, queuedBytes, sentInRound, totalQueuedBytes>>
historyVars == <<accepted, handed, gap>>
vars == <<queueVars, drainTimer, pc, caller, socket, bufferedAmount, historyVars>>

FrameNumbers == 0..(Wrap - 1)
Succ(n) == IF n = Wrap - 1 THEN 0 ELSE n + 1
Frame == [number : FrameNumbers, byteLength : FrameSizes]

Queued == {order[i] : i \in DOMAIN order}

Init ==
  /\ order = <<>>
  /\ frames = [c \in Conns |-> <<>>]
  /\ queuedBytes = [c \in Conns |-> 0]
  /\ sentInRound = [c \in Conns |-> 0]
  /\ totalQueuedBytes = 0
  /\ drainTimer = FALSE
  /\ pc = "idle"
  /\ caller = None
  /\ socket = "open"
  /\ bufferedAmount = 0
  /\ accepted = [c \in Conns |-> 0]
  /\ handed = [c \in Conns |-> 0]
  /\ gap = {}

-----------------------------------------------------------------------------
(***************************************************************************)
(* enqueue().  Both callers (sendControlToMachine, sendBinaryToCloud, ...) *)
(* return before calling it when the socket is not open.                   *)
(***************************************************************************)
CanSendImmediately == socket = "open" /\ bufferedAmount < HighWater

\* A connection that has lost a frame is not numbered any more.
NextNumber(c) == IF c \in gap THEN 0 ELSE Succ(accepted[c])

Offer(c) ==
  /\ pc = "idle"
  /\ socket = "open"
  /\ accepted' = [accepted EXCEPT ![c] = NextNumber(c)]

\* A frame larger than its profile allows: the owner is told, the frame is
\* rejected and the frames of the connection that are queued stay queued.
EnqueueOversized(c) ==
  /\ Offer(c)
  /\ \E size \in FrameSizes : size > MaxQueuedBytes[c]
  /\ gap' = gap \cup {c}
  /\ UNCHANGED <<queueVars, drainTimer, pc, caller, socket, bufferedAmount, handed>>

\* Mutant: the direct path forgets that frames are waiting.
EnqueueDirectAlways(c) ==
  /\ Offer(c)
  /\ CanSendImmediately
  /\ \E size \in FrameSizes :
       /\ size <= MaxQueuedBytes[c]
       /\ bufferedAmount' = bufferedAmount + size
  /\ handed' = [handed EXCEPT ![c] = NextNumber(c)]
  /\ UNCHANGED <<queueVars, drainTimer, pc, caller, socket, gap>>

\* Nothing is queued and the socket takes the frame at once.
EnqueueDirect(c) ==
  /\ Offer(c)
  /\ totalQueuedBytes = 0 /\ CanSendImmediately
  /\ \E size \in FrameSizes :
       /\ size <= MaxQueuedBytes[c]
       /\ bufferedAmount' = bufferedAmount + size
  /\ handed' = [handed EXCEPT ![c] = NextNumber(c)]
  /\ UNCHANGED <<queueVars, drainTimer, pc, caller, socket, gap>>

\* queueFrame(); enforceLimits() follows before anything else can run.
EnqueueQueued(c) ==
  /\ Offer(c)
  /\ ~ (totalQueuedBytes = 0 /\ CanSendImmediately)
  /\ \E size \in FrameSizes :
       /\ size <= MaxQueuedBytes[c]
       /\ frames' = [frames EXCEPT ![c] =
                       Append(@, [number |-> NextNumber(c), byteLength |-> size])]
       /\ queuedBytes' = [queuedBytes EXCEPT ![c] = @ + size]
       /\ totalQueuedBytes' = totalQueuedBytes + size
  /\ order' = IF c \in Queued THEN order ELSE Append(order, c)
  /\ pc' = "connectionLimits"
  /\ caller' = c
  /\ UNCHANGED <<sentInRound, drainTimer, socket, bufferedAmount, handed, gap>>

-----------------------------------------------------------------------------
\* Mutant: the bytes of a dropped queue leave the total `times' times.
DropQueueTimes(i, times) ==
  LET c == order[i] IN
  /\ order' = RemoveAt(order, i)
  /\ frames' = [frames EXCEPT ![c] = <<>>]
  /\ queuedBytes' = [queuedBytes EXCEPT ![c] = 0]
  /\ sentInRound' = [sentInRound EXCEPT ![c] = 0]
  /\ totalQueuedBytes' = totalQueuedBytes - times * queuedBytes[c]
  /\ gap' = gap \cup {c}
  /\ accepted' = [accepted EXCEPT ![c] = 0]
  /\ handed' = [handed EXCEPT ![c] = 0]

DropQueueTwice(i) == DropQueueTimes(i, 2)
DropQueueNever(i) == DropQueueTimes(i, 0)

\* dropQueue(): the i-th queue leaves the Map, its bytes leave the counter and
\* the promises of its frames are rejected.
DropQueue(i) ==
  LET c == order[i] IN
  /\ order' = RemoveAt(order, i)
  /\ frames' = [frames EXCEPT ![c] = <<>>]
  /\ queuedBytes' = [queuedBytes EXCEPT ![c] = 0]
  /\ sentInRound' = [sentInRound EXCEPT ![c] = 0]
  /\ totalQueuedBytes' = totalQueuedBytes - queuedBytes[c]
  /\ gap' = gap \cup {c}
  /\ accepted' = [accepted EXCEPT ![c] = 0]
  /\ handed' = [handed EXCEPT ![c] = 0]

\* Mutant: off by one.
OverfullByOne(i) == queuedBytes[order[i]] > MaxQueuedBytes[order[i]] + 1

\* enforceLimits(), first loop: queues over their profile's limit.
Overfull(i) == queuedBytes[order[i]] > MaxQueuedBytes[order[i]]

DropOverfull ==
  /\ pc = "connectionLimits"
  /\ \E i \in DOMAIN order : Overfull(i) /\ DropQueue(i)
  /\ UNCHANGED <<drainTimer, pc, caller, socket, bufferedAmount>>

ConnectionsWithinLimits ==
  /\ pc = "connectionLimits"
  /\ \A i \in DOMAIN order : ~ Overfull(i)
  /\ pc' = "totalLimit"
  /\ UNCHANGED <<queueVars, drainTimer, caller, socket, bufferedAmount, historyVars>>

\* Mutant: bulk queues are not preferred.
AllCandidates == DOMAIN order

\* pickLargestQueue(true) ?? pickLargestQueue(false): the largest bulk queue, or
\* the largest one when none is bulk; the first inserted of several.
Candidates ==
  IF \E i \in DOMAIN order : order[i] \in Bulk
  THEN {i \in DOMAIN order : order[i] \in Bulk}
  ELSE DOMAIN order

IsLargest(i) ==
  /\ i \in Candidates
  /\ \A j \in Candidates : \/ queuedBytes[order[j]] < queuedBytes[order[i]]
                           \/ queuedBytes[order[j]] = queuedBytes[order[i]] /\ i <= j

\* enforceLimits(), second loop: victims until the common limit is respected.
OverTotal == totalQueuedBytes > TotalLimit /\ order # <<>>

DropLargest ==
  /\ pc = "totalLimit" /\ OverTotal
  /\ \E i \in DOMAIN order : IsLargest(i) /\ DropQueue(i)
  /\ UNCHANGED <<drainTimer, pc, caller, socket, bufferedAmount>>

\* scheduleDrain(), the end of enqueue().
ScheduleDrain ==
  /\ pc = "totalLimit" /\ ~ OverTotal
  /\ drainTimer' = TRUE
  /\ pc' = "idle"
  /\ caller' = None
  /\ UNCHANGED <<queueVars, socket, bufferedAmount, historyVars>>

-----------------------------------------------------------------------------
(***************************************************************************)
(* drainNow(), run by the drain timer.                                     *)
(***************************************************************************)
DrainTimerFires ==
  /\ pc = "idle" /\ drainTimer
  /\ drainTimer' = FALSE
  /\ pc' = "drain"
  /\ UNCHANGED <<queueVars, caller, socket, bufferedAmount, historyVars>>

CanSendFromQueue == socket = "open" /\ bufferedAmount <= LowWater

\* pickQueue() sorts by priority, then by frames sent in this round, then by
\* insertion, and takes the first queue that has not used up its weight, or the
\* first queue when all have.
Before(i, j) ==
  LET c == order[i]
      d == order[j]
  IN \/ Priority[c] > Priority[d]
     \/ Priority[c] = Priority[d] /\ sentInRound[c] < sentInRound[d]
     \/ Priority[c] = Priority[d] /\ sentInRound[c] = sentInRound[d] /\ i <= j

HasCredit(i) == sentInRound[order[i]] < Weight[order[i]]

IsPicked(i) ==
  LET eligible == {j \in DOMAIN order : HasCredit(j)}
      queues == IF eligible = {} THEN DOMAIN order ELSE eligible
  IN i \in queues /\ \A j \in queues : Before(i, j)

\* One iteration: the head frame of the picked queue goes to the socket, and the
\* queue leaves the Map when it was the last one.
DrainSend ==
  /\ pc = "drain" /\ totalQueuedBytes > 0 /\ CanSendFromQueue
  /\ \E i \in DOMAIN order :
       LET c == order[i]
           frame == Head(frames[c])
       IN /\ IsPicked(i)
          /\ frames' = [frames EXCEPT ![c] = Tail(@)]
          /\ queuedBytes' = [queuedBytes EXCEPT ![c] = @ - frame.byteLength]
          /\ totalQueuedBytes' = totalQueuedBytes - frame.byteLength
          /\ order' = IF Len(frames[c]) = 1 THEN RemoveAt(order, i) ELSE order
          /\ sentInRound' = [sentInRound EXCEPT ![c] =
                               IF Len(frames[c]) = 1 THEN 0 ELSE @ + 1]
          /\ bufferedAmount' = bufferedAmount + frame.byteLength
          /\ handed' = [handed EXCEPT ![c] = frame.number]
  /\ UNCHANGED <<drainTimer, pc, caller, socket, accepted, gap>>

\* Mutant: the timer is not armed again.
DrainEndUnarmed ==
  /\ pc = "drain"
  /\ ~ (totalQueuedBytes > 0 /\ CanSendFromQueue)
  /\ sentInRound' = [c \in Conns |-> 0]
  /\ pc' = "idle"
  /\ UNCHANGED <<order, frames, queuedBytes, totalQueuedBytes, drainTimer, caller, socket,
                 bufferedAmount, historyVars>>

\* The loop stops: the round's counts are reset and the timer is armed again
\* while something is queued.
DrainEnd ==
  /\ pc = "drain"
  /\ ~ (totalQueuedBytes > 0 /\ CanSendFromQueue)
  /\ sentInRound' = [c \in Conns |-> 0]
  /\ drainTimer' = (totalQueuedBytes > 0)
  /\ pc' = "idle"
  /\ UNCHANGED <<order, frames, queuedBytes, totalQueuedBytes, caller, socket,
                 bufferedAmount, historyVars>>

-----------------------------------------------------------------------------
(***************************************************************************)
(* What the owner (MachineTunnel, MachineTunnelClient) and the socket do.  *)
(***************************************************************************)

\* removeConnection(): the owner closed the connection.
RemoveConnection(c) ==
  /\ pc = "idle"
  /\ \E i \in DOMAIN order : order[i] = c /\ DropQueue(i)
  /\ UNCHANGED <<drainTimer, pc, caller, socket, bufferedAmount>>

\* The network takes bytes out of the socket's buffer.
Flush ==
  /\ pc = "idle" /\ socket = "open"
  /\ \E rest \in 0..(bufferedAmount - 1) : bufferedAmount' = rest
  /\ UNCHANGED <<queueVars, drainTimer, pc, caller, socket, historyVars>>

\* readyState leaves OPEN; the "close" event comes later.
SocketCloses ==
  /\ pc = "idle" /\ socket = "open"
  /\ socket' = "closing"
  /\ UNCHANGED <<queueVars, drainTimer, pc, caller, bufferedAmount, historyVars>>

\* close(), called by the socket's "close" event: every queue is dropped.
Close ==
  /\ pc = "idle" /\ socket = "closing"
  /\ socket' = "closed"
  /\ drainTimer' = FALSE
  /\ order' = <<>>
  /\ frames' = [c \in Conns |-> <<>>]
  /\ queuedBytes' = [c \in Conns |-> 0]
  /\ sentInRound' = [c \in Conns |-> 0]
  /\ totalQueuedBytes' = 0
  /\ bufferedAmount' = 0
  /\ accepted' = [c \in Conns |-> 0]
  /\ handed' = [c \in Conns |-> 0]
  /\ gap' = Conns
  /\ UNCHANGED <<pc, caller>>

\* Ids are random and never reused: the slot c stands for a fresh connection.
NewConnection(c) ==
  /\ pc = "idle" /\ socket = "open" /\ c \in gap \ Queued
  /\ accepted' = [accepted EXCEPT ![c] = 0]
  /\ handed' = [handed EXCEPT ![c] = 0]
  /\ gap' = gap \ {c}
  /\ UNCHANGED <<queueVars, drainTimer, pc, caller, socket, bufferedAmount>>

\* A new tunnel: a new socket with a new scheduler.
Reconnect ==
  /\ pc = "idle" /\ socket = "closed"
  /\ socket' = "open"
  /\ gap' = {}
  /\ UNCHANGED <<queueVars, drainTimer, pc, caller, bufferedAmount, accepted, handed>>

Enqueue(c) == EnqueueOversized(c) \/ EnqueueDirect(c) \/ EnqueueQueued(c)
EnforceLimits ==
  DropOverfull \/ ConnectionsWithinLimits \/ DropLargest \/ ScheduleDrain
DrainNow == DrainTimerFires \/ DrainSend \/ DrainEnd

Next ==
  \/ \E c \in Conns : Enqueue(c) \/ RemoveConnection(c) \/ NewConnection(c)
  \/ EnforceLimits
  \/ DrainNow
  \/ Flush
  \/ SocketCloses \/ Close \/ Reconnect

Spec == Init /\ [][Next]_vars

\* Handlers run to completion; the event loop takes a due timer and a socket
\* that made progress in turn, however many enqueues come in between (their
\* enabledness is interrupted by every handler, hence strong fairness).
Fairness ==
  /\ WF_vars(EnforceLimits) /\ WF_vars(DrainSend) /\ WF_vars(DrainEnd)
  /\ SF_vars(DrainTimerFires) /\ SF_vars(Flush)

FairSpec == Spec /\ Fairness

-----------------------------------------------------------------------------
TypeOK ==
  /\ order \in Seq(Conns)
  /\ frames \in [Conns -> Seq(Frame)]
  /\ queuedBytes \in [Conns -> Nat]
  /\ sentInRound \in [Conns -> Nat]
  /\ totalQueuedBytes \in Nat
  /\ drainTimer \in BOOLEAN
  /\ pc \in {"idle", "connectionLimits", "totalLimit", "drain"}
  /\ caller \in Conns \cup {None}
  /\ socket \in {"open", "closing", "closed"}
  /\ bufferedAmount \in Nat
  /\ accepted \in [Conns -> FrameNumbers]
  /\ handed \in [Conns -> FrameNumbers]
  /\ gap \in SUBSET Conns

\* The bytes of each frame of a queue, and of each queue.
FrameBytes(queue) == [i \in 1..Len(queue) |-> queue[i].byteLength]
QueueBytes(queues, bytes) == [i \in 1..Len(queues) |-> bytes[queues[i]]]

\* The running counters are exact after every push, shift and drop: the bytes of
\* a queue's frames add up to queue.queuedBytes and those of the queues to
\* totalQueuedBytes.  A counter that drifts either stops the direct path for
\* good or lets frames bypass the queue (index.ts:244, 264).
CountersExact ==
  /\ \A c \in Conns : SumsTo(FrameBytes(frames[c]), queuedBytes[c])
  /\ SumsTo(QueueBytes(order, queuedBytes), totalQueuedBytes)

\* The queue holds the frames numbered from the one after `last' to `newest'.
Consecutive(last, queue, newest) ==
  IF queue = <<>>
  THEN last = newest
  ELSE /\ queue[1].number = Succ(last)
       /\ \A i \in 1..(Len(queue) - 1) : queue[i + 1].number = Succ(queue[i].number)
       /\ queue[Len(queue)].number = newest

\* What a queue holds of a connection that has lost nothing is exactly what was
\* offered and has not reached the socket yet, in the order it was offered: the
\* two ways to the socket, the direct one and the queue, never reorder, skip or
\* repeat a frame of a connection.
PrefixDelivery ==
  \A c \in Conns \ gap : Consecutive(handed[c], frames[c], accepted[c])

\* Queued frames are never left without a timer that will come back for them.
NothingStranded ==
  pc = "idle" /\ order # <<>> => drainTimer

\* Between handlers no queue is over its profile's limit and their total is not
\* over the common limit.
WithinLimits ==
  pc = "idle" => /\ \A c \in Conns : queuedBytes[c] <= MaxQueuedBytes[c]
                 /\ totalQueuedBytes <= TotalLimit

\* An overflow closes only the route that overflows: enforcing the connections'
\* limits never drops a queue but the caller's, and enforcing the common limit
\* drops a connection that is not bulk only when no bulk queue is left.
OverflowVictim ==
  [][\A c \in Queued \ {order'[i] : i \in DOMAIN order'} :
       /\ pc = "connectionLimits" => c = caller
       /\ pc = "totalLimit" /\ c \notin Bulk => Queued \cap Bulk = {}]_vars

\* The numbers of the frames of a queue, and the channel that a connection has.
Numbers(queue) == [i \in 1..Len(queue) |-> queue[i].number]

Channel(c) == INSTANCE RouteChannel WITH
  waiting <- Numbers(frames[c]), accepted <- accepted[c], handed <- handed[c],
  broken <- c \in gap

\* Each connection has a channel of its own, \A c \in Conns : Channel(c)!Spec: whatever
\* the limits, the priorities and the loops over all the queues do is for each of the
\* connections a step of RouteChannel or nothing at all.
ImplementsChannels ==
  /\ \A c \in Conns : Channel(c)!Init
  /\ [][\A c \in Conns : [Channel(c)!Next]_(Channel(c)!vars)]_vars

\* A backlog that never clears is worked off: while the socket stays open, frames
\* keep leaving the queues.
BacklogDrains ==
  <>[](socket = "open" /\ totalQueuedBytes > 0) => []<><<DrainSend>>_vars

\* The bulk transfers' share: a bulk queue does not wait for ever while the socket
\* stays open, whatever the other connections send.
BulkProgresses ==
  \A c \in Bulk :
    <>[](socket = "open" /\ c \in Queued)
      => []<><<DrainSend /\ frames'[c] # frames[c]>>_vars

=============================================================================
