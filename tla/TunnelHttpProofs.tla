-------------------------- MODULE TunnelHttpProofs --------------------------
(***************************************************************************)
(* Proofs about TunnelHttp, for any number of requests and any length of   *)
(* the streamed responses.  The inductive invariant HttpInv says of every  *)
(* request what the frames under way may be, in either direction, given    *)
(* what their sender awaits and what their receiver has: the upload's      *)
(* frames continue what the machine holds of the request (Upload), nothing *)
(* comes of a request that was not made (Unmade) and none is made twice    *)
(* (Made), a buffered response is its start, its body and its end with the *)
(* status they belong to (Buffered), and a streamed one counts its chunks  *)
(* on the way (Streamed).                                                  *)
(***************************************************************************)
EXTENDS TunnelHttp, SequenceTheorems, TLAPS

\* A start frame has a status, a frame of a response's body the number of its chunk.
FrameSet == {f \in Frames : /\ f.type = "start" => f.n \in {200, 502}
                            /\ f.type = "body" => f.n \in 0..MaxChunks \cup {1}}
FrameSeqs == Seq(FrameSet)
ChunkSeqs == Seq(0..MaxChunks \cup {1})

Uploads == {"none", "start", "body", "end"}
Replies == {"unused", "waiting", "streaming"} \cup Settled
MachineStates == {"none", "started", "withBody"}
Handlers == {"none", "fetch", "read"} \cup Sending

\* The types, each variable's by itself.
Typed ==
  /\ cloudSocket \in {"open", "closing", "replaced", "closed"}
  /\ machineSocket \in {"open", "closing", "closed"}
  /\ upQueue \in [Connections -> FrameSeqs] /\ upWire \in [Connections -> FrameSeqs]
  /\ downQueue \in [Connections -> FrameSeqs] /\ downWire \in [Connections -> FrameSeqs]
  /\ kind \in [Connections -> {"buffer", "stream"}] /\ hasBody \in [Connections -> BOOLEAN]
  /\ pending \in [Connections -> BOOLEAN] /\ timer \in [Connections -> BOOLEAN]
  /\ active \in [Connections -> BOOLEAN] /\ upload \in [Connections -> Uploads]
  /\ reply \in [Connections -> Replies] /\ status \in [Connections -> {0, 200, 502}]
  /\ body \in [Connections -> ChunkSeqs]
  /\ machinePending \in [Connections -> MachineStates]
  /\ controller \in [Connections -> BOOLEAN] /\ aborted \in [Connections -> BOOLEAN]
  /\ handler \in [Connections -> Handlers]
  /\ fetched \in [Connections -> {"nothing", "started", "withBody"}]
  /\ produced \in [Connections -> 0..MaxChunks \cup {1}]

\* What is under way in either direction.
Up(r) == upWire[r] \o upQueue[r]
Down(r) == downWire[r] \o downQueue[r]

Has(frames, type) == \E i \in 1..Len(frames) : frames[i].type = type
OnlyCloses(frames) == \A i \in 1..Len(frames) : frames[i].type = "close"

\* What the caller has been told, and what the tables and the sockets say of it.
Caller(r) ==
  /\ timer[r] = pending[r] /\ (reply[r] = "waiting" <=> pending[r])
  /\ reply[r] = "streaming" => active[r] /\ kind[r] = "stream"
  /\ reply[r] = "complete" => ~ active[r]
  /\ kind[r] = "stream" /\ active[r] => ~ pending[r]
  /\ cloudSocket = "closed" => ~ pending[r] /\ ~ active[r] /\ upQueue[r] = <<>>
  /\ kind[r] = "buffer" /\ pending[r] => cloudSocket \in {"open", "closing"}

\* What the machine does for the request can be aborted, or has been.
Machine(r) ==
  /\ machinePending[r] # "none" /\ ~ aborted[r] => controller[r]
  /\ handler[r] # "none" /\ ~ aborted[r] => controller[r]
  /\ handler[r] = "read" => kind[r] = "stream"
  /\ handler[r] = "fetch" => produced[r] = 0
  /\ machineSocket = "closed" =>
       machinePending[r] = "none" /\ ~ controller[r] /\ downQueue[r] = <<>>

\* Frames of a request in their order, its body among them if it has one.
Before(type, next) ==
  \/ next = "close"
  \/ type = "start" /\ next \in {"body", "end"}
  \/ type = "body" /\ next = "end"
InTurn(frames, withBody) ==
  /\ \A i, j \in 1..Len(frames) : i < j => Before(frames[i].type, frames[j].type)
  /\ withBody => \A i \in 2..Len(frames) : frames[i].type = "end" => frames[i - 1].type = "body"
  /\ Has(frames, "body") => withBody
\* ... none of them after the one that is awaited.
NotAfter(frames, awaited) ==
  /\ awaited = "start" => \A i \in 1..Len(frames) : frames[i].type = "start"
  /\ awaited = "body" => \A i \in 1..Len(frames) : frames[i].type \in {"start", "body"}

Asked(r) == IF hasBody[r] THEN "withBody" ELSE "started"

\* The request under way, and how it goes on at the machine, which has the start of it.
Upload(r) ==
  /\ InTurn(Up(r), hasBody[r]) /\ NotAfter(Up(r), upload[r])
  /\ upload[r] = "body" => hasBody[r]
  /\ machinePending[r] = "withBody" => hasBody[r]
  /\ Has(Up(r), "start") => machinePending[r] = "none" /\ fetched[r] = "nothing"
  /\ machinePending[r] # "none" /\ Up(r) # <<>> =>
       /\ Up(r)[1].type = "body" => machinePending[r] = "started"
       /\ Up(r)[1].type = "end" => machinePending[r] = Asked(r)
  /\ cloudSocket = "open" =>
       /\ upload[r] = "body" /\ Up(r) # <<>> => Up(r)[Len(Up(r))].type = "body"
       /\ machinePending[r] # "none" /\ Up(r) = <<>> =>
            /\ upload[r] = "start" => machinePending[r] = "started"
            /\ upload[r] = "body" => machinePending[r] = "withBody"

\* Nothing comes of a request that has not been made.
Unmade(r) ==
  fetched[r] = "nothing" =>
    handler[r] = "none" /\ Down(r) = <<>> /\ ~ active[r] /\ produced[r] = 0

\* Nothing more is sent for one that has.
Made(r) ==
  fetched[r] # "nothing" =>
    /\ fetched[r] = Asked(r) /\ machinePending[r] = "none"
    /\ OnlyCloses(Up(r)) /\ upload[r] \in {"none", "end"}

\* After a close comes nothing else, and it is the end of the handler.
ClosesLast(frames, state) ==
  \A i \in 1..Len(frames) :
    frames[i].type = "close" =>
      state = "none" /\ \A j \in 1..Len(frames) : i < j => frames[j].type = "close"

Answer(code, chunks) ==
  \/ code = 200 /\ chunks = <<1>>
  \/ code = 502 /\ chunks = <<ErrorBody>>
BodyOf(code) == IF code = 200 THEN 1 ELSE ErrorBody

\* How many frames of a buffered response, of a streamed one, the cloud has.
Stage(r) == IF active[r] THEN 1 + Len(body[r]) ELSE 0

\* The status that the n-th frame goes with: that of the frame before.
StatusBefore(frames, n, code) == IF n = 1 THEN code ELSE frames[n - 1].n

BufferFrames(frames, k, code) ==
  \A i \in 1..Len(frames) :
    /\ frames[i].type = "start" => i + k = 1
    /\ frames[i].type = "body" =>
         i + k = 2 /\ frames[i].n = BodyOf(StatusBefore(frames, i, code))
    /\ frames[i].type = "end" => i + k = 3

BufferSender(frames, k, code, state) ==
  /\ state = "fetch" => Len(frames) + k = 0
  /\ state \in {"start", "errorStart"} =>
       /\ Len(frames) + k = 1
       /\ StatusBefore(frames, Len(frames) + 1, code) = IF state = "start" THEN 200 ELSE 502
  /\ state \in {"body", "errorBody"} => Len(frames) + k = 2

Buffered(r) ==
  kind[r] = "buffer" =>
    /\ reply[r] = "complete" => Answer(status[r], body[r])
    /\ pending[r] =>
         /\ active[r] => status[r] \in {200, 502} /\ (body[r] = <<>> \/ Answer(status[r], body[r]))
         /\ ClosesLast(Down(r), handler[r])
         /\ BufferFrames(Down(r), Stage(r), status[r])
         /\ machineSocket = "open" => BufferSender(Down(r), Stage(r), status[r], handler[r])

IsChunk(frame) == frame.type = "body" /\ frame.n # ErrorBody
IsError(frame) == frame.type = "body" /\ frame.n = ErrorBody
IsOkStart(frame) == frame.type = "start" /\ frame.n = 200

\* Chunks come in their order, after the start, and none after an error.
StreamFrames(frames, k, told, made) ==
  /\ \A i \in 1..Len(frames) :
       /\ IsOkStart(frames[i]) => i + k = 1
       /\ IsChunk(frames[i]) => frames[i].n + 1 = i + k /\ frames[i].n <= made /\ ~ told
       /\ IsError(frames[i]) => ~ told
  /\ \A i, j \in 1..Len(frames) :
       i < j /\ ~ IsOkStart(frames[i]) /\ ~ IsChunk(frames[i]) =>
         /\ ~ IsOkStart(frames[j]) /\ ~ IsChunk(frames[j])
         /\ frames[i].type # "start" => ~ IsError(frames[j])

StreamSender(frames, k, told, made, state) ==
  /\ state = "fetch" => Len(frames) + k = 0
  /\ state \in {"start", "read", "body"} =>
       /\ Len(frames) + k = made + 1
       /\ \A i \in 1..Len(frames) : IsOkStart(frames[i]) \/ IsChunk(frames[i])
  /\ state \in {"fetch", "start", "read", "body", "errorStart"} =>
       /\ ~ told
       /\ \A i \in 1..Len(frames) : frames[i].type = "start" \/ IsChunk(frames[i])

Streamed(r) ==
  kind[r] = "stream" =>
    /\ Chunks(body[r]) <= produced[r]
    /\ \A i \in 1..Chunks(body[r]) : body[r][i] = i
    /\ (pending[r] \/ active[r]) /\ cloudSocket \in {"open", "closing"} =>
         /\ ClosesLast(Down(r), handler[r])
         /\ StreamFrames(Down(r), Stage(r), active[r] /\ Told(body[r]), produced[r])
         /\ machineSocket = "open" =>
              StreamSender(Down(r), Stage(r), active[r] /\ Told(body[r]), produced[r], handler[r])

Request(r) ==
  /\ Caller(r) /\ Machine(r) /\ Upload(r) /\ Unmade(r) /\ Made(r)
  /\ Buffered(r) /\ Streamed(r)

HttpInv == Typed /\ \A r \in Connections : Request(r)

-----------------------------------------------------------------------------
(***************************************************************************)
(* Frames on their way: a wire w and the queue q behind it.                *)
(***************************************************************************)
LEMMA FrameTypes ==
  /\ OkStart \in FrameSet /\ BadStart \in FrameSet /\ End \in FrameSet /\ CloseFrame \in FrameSet
  /\ OkStart.type = "start" /\ OkStart.n = 200 /\ BadStart.type = "start" /\ BadStart.n = 502
  /\ End.type = "end" /\ CloseFrame.type = "close"
  /\ \A n \in 0..MaxChunks \cup {1} :
       Chunk(n) \in FrameSet /\ Chunk(n).type = "body" /\ Chunk(n).n = n
  /\ \A type \in {"body", "end"} : Frame(type, 0) \in FrameSet /\ Frame(type, 0).type = type
  /\ <<>> \in FrameSeqs /\ <<>> \in ChunkSeqs
BY ChunkAssumption DEF FrameSet, Frames, OkStart, BadStart, End, CloseFrame, Chunk, Frame,
                       FrameSeqs, ChunkSeqs

LEMMA NoFrame == <<>> \in FrameSeqs /\ Len(<<>>) = 0
BY DEF FrameSeqs

LEMMA CloseType == CloseFrame \in FrameSet /\ CloseFrame.type = "close"
BY FrameTypes

LEMMA FrameSeqLen ==
  ASSUME NEW w \in FrameSeqs
  PROVE  /\ Len(w) \in Nat /\ (w = <<>> <=> Len(w) = 0)
         /\ \A i \in 1..Len(w) : w[i] \in FrameSet
BY LenProperties, EmptySeq, ElementOfSeq DEF FrameSeqs

\* What is appended to either comes last, when nothing is queued behind the wire.
LEMMA WireAppend ==
  ASSUME NEW w \in FrameSeqs, NEW q \in FrameSeqs, NEW f \in FrameSet
  PROVE  /\ Append(w, f) \in FrameSeqs /\ w \o q \in FrameSeqs
         /\ q = <<>> => Append(w, f) \o q = Append(w \o q, f)
         /\ w \o Append(q, f) = Append(w \o q, f)
<1>1. /\ Append(w, f) \in Seq(FrameSet) /\ Append(q, f) \in Seq(FrameSet)
      /\ w \o q \in Seq(FrameSet) /\ <<f>> \in Seq(FrameSet)
  BY AppendProperties, ConcatProperties DEF FrameSeqs
<1>2. q = <<>> => Append(w, f) \o q = Append(w \o q, f)
  <2>1. Append(w, f) \o <<>> = Append(w, f)
    BY <1>1, ConcatEmptySeq
  <2>2. w \o <<>> = w
    BY ConcatEmptySeq DEF FrameSeqs
  <2>. QED BY <2>1, <2>2
<1>3. w \o Append(q, f) = Append(w \o q, f)
  <2>1. Append(q, f) = q \o <<f>> /\ Append(w \o q, f) = (w \o q) \o <<f>>
    BY <1>1, AppendIsConcat DEF FrameSeqs
  <2>2. (w \o q) \o <<f>> = w \o (q \o <<f>>)
    BY <1>1, ConcatAssociative DEF FrameSeqs
  <2>. QED BY <2>1, <2>2
<1>. QED BY <1>1, <1>2, <1>3 DEF FrameSeqs

\* The first of the queue goes to the wire: nothing has changed.
LEMMA WireDrain ==
  ASSUME NEW w \in FrameSeqs, NEW q \in FrameSeqs, q # <<>>
  PROVE  /\ Append(w, Head(q)) \in FrameSeqs /\ Tail(q) \in FrameSeqs
         /\ Append(w, Head(q)) \o Tail(q) = w \o q
<1>1. Head(q) \in FrameSet /\ Tail(q) \in Seq(FrameSet) /\ <<Head(q)>> \in Seq(FrameSet)
  BY HeadTailProperties DEF FrameSeqs
<1>2. Append(w, Head(q)) = w \o <<Head(q)>> /\ Append(w, Head(q)) \in Seq(FrameSet)
  BY <1>1, AppendIsConcat, AppendProperties DEF FrameSeqs
<1>3. (w \o <<Head(q)>>) \o Tail(q) = w \o (<<Head(q)>> \o Tail(q))
  BY <1>1, ConcatAssociative DEF FrameSeqs
<1>4. <<Head(q)>> \o Tail(q) = q
  <2>1. /\ Len(<<Head(q)>>) = 1 /\ <<Head(q)>>[1] = Head(q) /\ Head(q) = q[1]
        /\ Len(q) \in Nat \ {0} /\ Len(Tail(q)) = Len(q) - 1
        /\ \A i \in 1..Len(Tail(q)) : Tail(q)[i] = q[i + 1]
    BY HeadTailProperties, EmptySeq DEF FrameSeqs
  <2>. DEFINE a == <<Head(q)>>  t == Tail(q)
  <2>. HIDE DEF a, t
  <2>2. /\ a \o t \in Seq(FrameSet) /\ Len(a \o t) = Len(a) + Len(t)
        /\ \A i \in 1..Len(a) + Len(t) : (a \o t)[i] = IF i <= Len(a) THEN a[i] ELSE t[i - Len(a)]
    BY <1>1, ConcatProperties DEF a, t
  <2>3. /\ Len(a) = 1 /\ a[1] = q[1] /\ Len(q) \in Nat \ {0} /\ Len(t) = Len(q) - 1
        /\ \A i \in 1..Len(t) : t[i] = q[i + 1]
    BY <2>1 DEF a, t
  <2>4. ASSUME NEW i \in 1..Len(q) PROVE (a \o t)[i] = q[i]
    <3>1. CASE i = 1
      BY <2>2, <2>3, <3>1
    <3>2. CASE i # 1
      <4>1. i - 1 \in 1..Len(t) /\ (i - 1) + 1 = i
        BY <2>3, <3>2
      <4>2. t[i - 1] = q[(i - 1) + 1]
        BY <2>3, <4>1
      <4>. QED BY <2>2, <2>3, <3>2, <4>1, <4>2
    <3>. QED BY <3>1, <3>2
  <2>5. Len(a \o t) = Len(q)
    BY <2>2, <2>3
  <2>6. a \o t = q
    BY <2>2, <2>4, <2>5, SeqEqual DEF FrameSeqs
  <2>. QED BY <2>6 DEF a, t
<1>. QED BY <1>1, <1>2, <1>3, <1>4 DEF FrameSeqs

\* The first of the wire arrives.
LEMMA WireTail ==
  ASSUME NEW w \in FrameSeqs, NEW q \in FrameSeqs, w # <<>>
  PROVE  /\ Tail(w) \in FrameSeqs /\ Head(w) \in FrameSet
         /\ w \o q # <<>> /\ Head(w \o q) = Head(w) /\ Tail(w) \o q = Tail(w \o q)
<1>1. Head(w) \in FrameSet /\ Tail(w) \in Seq(FrameSet) /\ Len(Tail(w)) = Len(w) - 1
      /\ Len(w) \in Nat \ {0} /\ Len(q) \in Nat /\ Head(w) = w[1]
      /\ \A i \in 1..Len(Tail(w)) : Tail(w)[i] = w[i + 1]
  BY HeadTailProperties, EmptySeq, LenProperties DEF FrameSeqs
<1>. DEFINE s == w \o q  t == Tail(w)
<1>2. /\ s \in Seq(FrameSet) /\ Len(s) = Len(w) + Len(q)
      /\ \A i \in 1..Len(w) + Len(q) : s[i] = IF i <= Len(w) THEN w[i] ELSE q[i - Len(w)]
  BY ConcatProperties DEF FrameSeqs
<1>3. /\ t \o q \in Seq(FrameSet) /\ Len(t \o q) = Len(t) + Len(q)
      /\ \A i \in 1..Len(t) + Len(q) : (t \o q)[i] = IF i <= Len(t) THEN t[i] ELSE q[i - Len(t)]
  BY <1>1, ConcatProperties DEF FrameSeqs
<1>4. Len(t) = Len(w) - 1 /\ \A i \in 1..Len(t) : t[i] = w[i + 1]
  BY <1>1
<1>. HIDE DEF s, t
<1>5. s # <<>> /\ Len(s) >= 1 /\ Head(s) = s[1] /\ s[1] = w[1]
  <2>1. Len(s) >= 1 /\ s[1] = w[1]
    BY <1>1, <1>2
  <2>2. s # <<>>
    BY <2>1, EmptySeq
  <2>. QED BY <1>2, <2>1, <2>2, HeadTailProperties
<1>6. /\ Tail(s) \in Seq(FrameSet) /\ Len(Tail(s)) = Len(s) - 1
      /\ \A i \in 1..Len(Tail(s)) : Tail(s)[i] = s[i + 1]
  BY <1>2, <1>5, HeadTailProperties
<1>. DEFINE u == Tail(s)
<1>. HIDE DEF u
<1>7. /\ u \in Seq(FrameSet) /\ Len(u) = Len(s) - 1
      /\ \A i \in 1..Len(u) : u[i] = s[i + 1]
  BY <1>6 DEF u
<1>8. Len(t \o q) = Len(u)
  BY <1>1, <1>2, <1>3, <1>4, <1>7
<1>9. ASSUME NEW i \in 1..Len(t \o q) PROVE (t \o q)[i] = u[i]
  <2>1. i \in 1..Len(t) + Len(q) /\ i + 1 \in 1..Len(w) + Len(q) /\ i \in 1..Len(u)
    BY <1>1, <1>2, <1>3, <1>4, <1>7, <1>9
  <2>2. u[i] = s[i + 1]
    BY <1>7, <2>1
  <2>3. CASE i <= Len(t)
    <3>1. i + 1 <= Len(w) /\ i \in 1..Len(t)
      BY <1>1, <1>4, <2>1, <2>3
    <3>2. (t \o q)[i] = t[i] /\ s[i + 1] = w[i + 1]
      BY <1>2, <1>3, <2>1, <2>3, <3>1
    <3>. QED BY <1>4, <2>2, <3>1, <3>2
  <2>4. CASE ~ (i <= Len(t))
    <3>1. ~ (i + 1 <= Len(w)) /\ (i + 1) - Len(w) = i - Len(t)
      BY <1>1, <1>4, <2>1, <2>4
    <3>2. (t \o q)[i] = q[i - Len(t)] /\ s[i + 1] = q[(i + 1) - Len(w)]
      BY <1>2, <1>3, <2>1, <2>4, <3>1
    <3>. QED BY <2>2, <3>1, <3>2
  <2>. QED BY <2>3, <2>4
<1>10. t \o q = u
  BY <1>3, <1>7, <1>8, <1>9, SeqEqual
<1>. QED BY <1>1, <1>5, <1>10 DEF s, t, u, FrameSeqs
LEMMA AppendAt ==
  ASSUME NEW u \in FrameSeqs, NEW f \in FrameSet
  PROVE  /\ Append(u, f) \in FrameSeqs /\ Append(u, f) # <<>>
         /\ Len(u) \in Nat /\ Len(Append(u, f)) = Len(u) + 1
         /\ \A i \in 1..Len(u) : Append(u, f)[i] = u[i]
         /\ Append(u, f)[Len(u) + 1] = f
BY AppendProperties, LenProperties DEF FrameSeqs

LEMMA ConcatAt ==
  ASSUME NEW w \in FrameSeqs, NEW q \in FrameSeqs
  PROVE  /\ w \o q \in FrameSeqs /\ Len(w) \in Nat /\ Len(q) \in Nat
         /\ Len(w \o q) = Len(w) + Len(q)
         /\ \A i \in 1..Len(w) : (w \o q)[i] = w[i]
         /\ \A i \in 1..Len(q) : (w \o q)[Len(w) + i] = q[i]
         /\ \A i \in 1..Len(w \o q) :
              (w \o q)[i] = IF i <= Len(w) THEN w[i] ELSE q[i - Len(w)]
<1>. DEFINE s == w \o q
<1>1. /\ s \in Seq(FrameSet) /\ Len(s) = Len(w) + Len(q)
      /\ \A i \in 1..Len(w) + Len(q) : s[i] = IF i <= Len(w) THEN w[i] ELSE q[i - Len(w)]
      /\ Len(w) \in Nat /\ Len(q) \in Nat
  BY ConcatProperties, LenProperties DEF FrameSeqs
<1>. HIDE DEF s
<1>2. \A i \in 1..Len(w) : s[i] = w[i]
  BY <1>1
<1>3. ASSUME NEW i \in 1..Len(q) PROVE s[Len(w) + i] = q[i]
  <2>1. Len(w) + i \in 1..Len(w) + Len(q) /\ ~ (Len(w) + i <= Len(w)) /\ (Len(w) + i) - Len(w) = i
    BY <1>1
  <2>. QED BY <1>1, <2>1
<1>. QED BY <1>1, <1>2, <1>3 DEF s, FrameSeqs

\* The first frame arrives.
LEMMA TailAt ==
  ASSUME NEW u \in FrameSeqs, u # <<>>
  PROVE  /\ Tail(u) \in FrameSeqs /\ Len(u) \in Nat \ {0} /\ Len(Tail(u)) = Len(u) - 1
         /\ Head(u) = u[1] /\ u[1] \in FrameSet
         /\ \A i \in 1..Len(Tail(u)) : Tail(u)[i] = u[i + 1] /\ i + 1 \in 1..Len(u)
<1>1. /\ Tail(u) \in Seq(FrameSet) /\ Head(u) \in FrameSet /\ Head(u) = u[1]
      /\ Len(Tail(u)) = Len(u) - 1 /\ \A i \in 1..Len(Tail(u)) : Tail(u)[i] = u[i + 1]
      /\ Len(u) \in Nat
  BY HeadTailProperties, LenProperties DEF FrameSeqs
<1>2. Len(u) # 0
  BY FrameSeqLen
<1>. DEFINE t == Tail(u)
<1>. HIDE DEF t
<1>3. Len(t) = Len(u) - 1
  BY <1>1 DEF t
<1>4. \A i \in 1..Len(t) : i + 1 \in 1..Len(u)
  BY <1>1, <1>2, <1>3
<1>. QED BY <1>1, <1>2, <1>4 DEF t, FrameSeqs

LEMMA Alone ==
  /\ \A w \in FrameSeqs : w \o <<>> = w /\ <<>> \o w = w
  /\ \A w, q \in FrameSeqs : w \o q = <<>> => w = <<>> /\ q = <<>>
  /\ \A f \in FrameSet : Append(<<>>, f) = <<f>> /\ <<f>> \in FrameSeqs
<1>1. \A w \in FrameSeqs : w \o <<>> = w /\ <<>> \o w = w
  BY ConcatEmptySeq DEF FrameSeqs
<1>2. ASSUME NEW w \in FrameSeqs, NEW q \in FrameSeqs, w \o q = <<>> PROVE w = <<>> /\ q = <<>>
  BY <1>2, ConcatAt, FrameSeqLen
<1>. QED BY <1>1, <1>2 DEF FrameSeqs

-----------------------------------------------------------------------------
(***************************************************************************)
(* What is said of the frames under way, when some are taken or dropped    *)
(* at either end and when one is added.                                    *)
(***************************************************************************)
\* The frames of v are those of u after the n-th, some of them or all.
Segment(v, u, n) ==
  /\ n \in Nat /\ Len(v) \in Nat /\ Len(u) \in Nat /\ Len(v) + n <= Len(u)
  /\ \A i \in 1..Len(v) : v[i] = u[i + n] /\ i + n \in 1..Len(u)

LEMMA Segments ==
  ASSUME NEW w \in FrameSeqs, NEW q \in FrameSeqs
  PROVE  /\ Segment(w, w, 0) /\ Segment(<<>>, w, 0)
         /\ Segment(w, w \o q, 0) /\ Segment(q, w \o q, Len(w))
         /\ Len(w \o q) = Len(w) + Len(q) /\ Len(w) \in Nat /\ Len(q) \in Nat
         /\ w # <<>> => Segment(Tail(w), w, 1) /\ Len(Tail(w)) + 1 = Len(w)
<1>1. Len(w) \in Nat /\ Len(q) \in Nat /\ Len(<<>>) = 0
  BY FrameSeqLen
<1>2. Segment(w, w, 0) /\ Segment(<<>>, w, 0)
  BY <1>1 DEF Segment
<1>3. /\ Len(w \o q) = Len(w) + Len(q)
      /\ \A i \in 1..Len(w) : (w \o q)[i] = w[i]
      /\ \A i \in 1..Len(q) : (w \o q)[Len(w) + i] = q[i]
  BY ConcatAt
<1>. DEFINE s == w \o q
<1>. HIDE DEF s
<1>4. /\ Len(s) = Len(w) + Len(q)
      /\ \A i \in 1..Len(w) : s[i] = w[i]
      /\ \A i \in 1..Len(q) : s[Len(w) + i] = q[i]
  BY <1>3 DEF s
<1>5. Segment(w, s, 0)
  BY <1>1, <1>4 DEF Segment
<1>6. Segment(q, s, Len(w))
  <2>1. \A i \in 1..Len(q) : i + Len(w) = Len(w) + i /\ i + Len(w) \in 1..Len(s)
    BY <1>1, <1>4
  <2>. QED BY <1>1, <1>4, <2>1 DEF Segment
<1>7. ASSUME w # <<>> PROVE Segment(Tail(w), w, 1) /\ Len(Tail(w)) + 1 = Len(w)
  <2>. DEFINE t == Tail(w)
  <2>1. /\ Len(w) \in Nat \ {0} /\ Len(t) = Len(w) - 1
        /\ \A i \in 1..Len(t) : t[i] = w[i + 1] /\ i + 1 \in 1..Len(w)
    BY <1>7, TailAt
  <2>. HIDE DEF t
  <2>2. Segment(t, w, 1) /\ Len(t) + 1 = Len(w)
    BY <2>1 DEF Segment
  <2>. QED BY <2>2 DEF t
<1>. QED BY <1>1, <1>2, <1>3, <1>5, <1>6, <1>7 DEF s

LEMMA SegmentKeeps ==
  ASSUME NEW u, NEW v, NEW n, Segment(v, u, n)
  PROVE  /\ \A type : Has(v, type) => Has(u, type)
         /\ OnlyCloses(u) => OnlyCloses(v)
         /\ \A b \in BOOLEAN : InTurn(u, b) => InTurn(v, b)
         /\ \A a : NotAfter(u, a) => NotAfter(v, a)
         /\ \A s : ClosesLast(u, s) => ClosesLast(v, s)
<1>1. /\ n \in Nat /\ Len(v) \in Nat /\ Len(u) \in Nat
      /\ \A i \in 1..Len(v) : v[i] = u[i + n] /\ i + n \in 1..Len(u)
  BY DEF Segment
<1>2. \A type : Has(v, type) => Has(u, type)
  BY <1>1 DEF Has
<1>3. OnlyCloses(u) => OnlyCloses(v)
  BY <1>1 DEF OnlyCloses
<1>4. ASSUME NEW a, NotAfter(u, a) PROVE NotAfter(v, a)
  BY <1>1, <1>4 DEF NotAfter
<1>5. \A i, j \in 1..Len(v) : i < j => i + n < j + n
  BY <1>1
<1>6. ASSUME NEW s, ClosesLast(u, s) PROVE ClosesLast(v, s)
  BY <1>1, <1>5, <1>6 DEF ClosesLast
<1>7. ASSUME NEW b \in BOOLEAN, InTurn(u, b) PROVE InTurn(v, b)
  <2>1. \A i, j \in 1..Len(v) : i < j => Before(v[i].type, v[j].type)
    BY <1>1, <1>5, <1>7 DEF InTurn
  <2>2. ASSUME b, NEW i \in 2..Len(v), v[i].type = "end" PROVE v[i - 1].type = "body"
    <3>1. i \in 1..Len(v) /\ i - 1 \in 1..Len(v) /\ i + n \in 2..Len(u) /\ (i - 1) + n = (i + n) - 1
      BY <1>1
    <3>2. u[i + n].type = "end" /\ v[i - 1] = u[(i + n) - 1]
      BY <1>1, <2>2, <3>1
    <3>. QED BY <1>7, <2>2, <3>1, <3>2 DEF InTurn
  <2>. QED BY <1>2, <1>7, <2>1, <2>2 DEF InTurn
<1>. QED BY <1>2, <1>3, <1>4, <1>6, <1>7

\* A frame more.
LEMMA AppendKeeps ==
  ASSUME NEW u \in FrameSeqs, NEW f \in FrameSet
  PROVE  /\ \A type : Has(Append(u, f), type) <=> Has(u, type) \/ f.type = type
         /\ OnlyCloses(u) /\ f.type = "close" => OnlyCloses(Append(u, f))
         /\ \A b \in BOOLEAN :
              /\ InTurn(u, b) /\ \A i \in 1..Len(u) : Before(u[i].type, f.type)
              /\ b /\ f.type = "end" /\ u # <<>> => u[Len(u)].type = "body"
              /\ f.type = "body" => b
              => InTurn(Append(u, f), b)
         /\ \A s : ClosesLast(u, s) /\ f.type = "close" => ClosesLast(Append(u, f), "none")
         /\ \A s, t : ClosesLast(u, s) /\ s # "none" /\ f.type # "close" =>
                       ClosesLast(Append(u, f), t)
         /\ Segment(u, Append(u, f), 0)
<1>. DEFINE s == Append(u, f)
<1>1. /\ Len(u) \in Nat /\ Len(s) = Len(u) + 1 /\ s[Len(u) + 1] = f
      /\ \A i \in 1..Len(u) : s[i] = u[i]
      /\ (u = <<>> <=> Len(u) = 0)
  BY AppendAt, FrameSeqLen
<1>. HIDE DEF s
<1>2. \A i \in 1..Len(s) : i \in 1..Len(u) \/ i = Len(u) + 1
  BY <1>1
<1>3. \A type : Has(s, type) <=> Has(u, type) \/ f.type = type
  <2>1. ASSUME NEW type, Has(s, type) PROVE Has(u, type) \/ f.type = type
    BY <1>1, <1>2, <2>1 DEF Has
  <2>2. ASSUME NEW type, Has(u, type) PROVE Has(s, type)
    <3>1. PICK i \in 1..Len(u) : u[i].type = type
      BY <2>2 DEF Has
    <3>2. i \in 1..Len(s) /\ s[i].type = type
      BY <1>1, <3>1
    <3>. QED BY <3>2 DEF Has
  <2>3. ASSUME NEW type, f.type = type PROVE Has(s, type)
    <3>1. Len(u) + 1 \in 1..Len(s) /\ s[Len(u) + 1].type = type
      BY <1>1, <2>3
    <3>. QED BY <3>1 DEF Has
  <2>. QED BY <2>1, <2>2, <2>3
<1>4. ASSUME OnlyCloses(u), f.type = "close" PROVE OnlyCloses(s)
  BY <1>1, <1>2, <1>4 DEF OnlyCloses
<1>5. ASSUME NEW b \in BOOLEAN, InTurn(u, b), \A i \in 1..Len(u) : Before(u[i].type, f.type),
             b /\ f.type = "end" /\ u # <<>> => u[Len(u)].type = "body",
             f.type = "body" => b
      PROVE  InTurn(s, b)
  <2>1. ASSUME NEW i \in 1..Len(s), NEW j \in 1..Len(s), i < j
        PROVE  Before(s[i].type, s[j].type)
    <3>1. i \in 1..Len(u) /\ s[i] = u[i]
      BY <1>1, <2>1
    <3>2. CASE j \in 1..Len(u)
      BY <1>1, <1>5, <2>1, <3>1, <3>2 DEF InTurn
    <3>3. CASE j = Len(u) + 1
      BY <1>1, <1>5, <3>1, <3>3
    <3>. QED BY <1>2, <3>2, <3>3
  <2>2. ASSUME b, NEW i \in 2..Len(s), s[i].type = "end" PROVE s[i - 1].type = "body"
    <3>1. i - 1 \in 1..Len(u) /\ s[i - 1] = u[i - 1]
      BY <1>1
    <3>2. CASE i \in 1..Len(u)
      <4>1. i \in 2..Len(u) /\ u[i].type = "end"
        BY <1>1, <2>2, <3>2
      <4>. QED BY <1>5, <2>2, <3>1, <4>1 DEF InTurn
    <3>3. CASE i = Len(u) + 1
      <4>1. i - 1 = Len(u) /\ u # <<>>
        BY <1>1, <3>3
      <4>2. f.type = "end"
        BY <1>1, <2>2, <3>3
      <4>. QED BY <1>5, <2>2, <3>1, <4>1, <4>2
    <3>. QED BY <1>1, <1>2, <3>2, <3>3
  <2>. QED BY <1>3, <1>5, <2>1, <2>2 DEF InTurn
<1>6. ASSUME NEW a, ClosesLast(u, a), f.type = "close" PROVE ClosesLast(s, "none")
  <2>1. ASSUME NEW i \in 1..Len(s), s[i].type = "close", NEW j \in 1..Len(s), i < j
        PROVE  s[j].type = "close"
    <3>1. i \in 1..Len(u) /\ u[i].type = "close"
      BY <1>1, <2>1
    <3>2. CASE j \in 1..Len(u)
      BY <1>1, <1>6, <2>1, <3>1, <3>2 DEF ClosesLast
    <3>3. CASE j = Len(u) + 1
      BY <1>1, <1>6, <3>3
    <3>. QED BY <1>2, <3>2, <3>3
  <2>. QED BY <2>1 DEF ClosesLast
<1>7. ASSUME NEW a, NEW b, ClosesLast(u, a), a # "none", f.type # "close" PROVE ClosesLast(s, b)
  BY <1>1, <1>2, <1>7 DEF ClosesLast
<1>8. Segment(u, s, 0)
  BY <1>1 DEF Segment
<1>. QED BY <1>3, <1>4, <1>5, <1>6, <1>7, <1>8 DEF s

-----------------------------------------------------------------------------
(***************************************************************************)
(* A response's frames: the first arrives, the last are dropped, one is    *)
(* sent.                                                                   *)
(***************************************************************************)
LEMMA CloseEnds ==
  ASSUME NEW u \in FrameSeqs, NEW s, ClosesLast(u, s)
  PROVE  /\ s # "none" => ~ Has(u, "close")
         /\ ClosesLast(u, "none")
         /\ u # <<>> /\ u[1].type = "close" => OnlyCloses(u) /\ s = "none"
<1>1. Len(u) \in Nat /\ (u = <<>> <=> Len(u) = 0)
  BY FrameSeqLen
<1>2. ASSUME u # <<>>, u[1].type = "close" PROVE OnlyCloses(u) /\ s = "none"
  <2>1. 1 \in 1..Len(u) /\ \A j \in 1..Len(u) : j # 1 => 1 < j
    BY <1>1, <1>2
  <2>. QED BY <1>2, <2>1 DEF ClosesLast, OnlyCloses
<1>. QED BY <1>2 DEF ClosesLast, Has

LEMMA BufferTail ==
  ASSUME NEW u \in FrameSeqs, u # <<>>, NEW k \in Nat, NEW code, BufferFrames(u, k, code)
  PROVE  /\ u[1].type = "start" =>
              k = 0 /\ BufferFrames(Tail(u), 1, u[1].n)
         /\ u[1].type = "body" =>
              k = 1 /\ u[1].n = BodyOf(code) /\ BufferFrames(Tail(u), 2, code)
         /\ u[1].type = "end" => k = 2
         /\ OnlyCloses(u) => \A m, c : BufferFrames(Tail(u), m, c)
<1>. DEFINE t == Tail(u)
<1>1. /\ Len(u) \in Nat \ {0} /\ Len(t) = Len(u) - 1 /\ 1 \in 1..Len(u)
      /\ \A i \in 1..Len(t) : t[i] = u[i + 1] /\ i + 1 \in 1..Len(u)
  BY TailAt
<1>. HIDE DEF t
<1>2. /\ u[1].type = "start" => 1 + k = 1
      /\ u[1].type = "body" => 1 + k = 2 /\ u[1].n = BodyOf(code)
      /\ u[1].type = "end" => 1 + k = 3
  BY <1>1 DEF BufferFrames, StatusBefore
<1>3. ASSUME NEW m, OnlyCloses(u), NEW c PROVE BufferFrames(t, m, c)
  BY <1>1, <1>3 DEF OnlyCloses, BufferFrames
<1>4. ASSUME u[1].type = "start" PROVE BufferFrames(t, 1, u[1].n)
  <2>1. ASSUME NEW i \in 1..Len(t)
        PROVE  /\ t[i].type = "start" => i + 1 = 1
               /\ t[i].type = "body" => i + 1 = 2 /\ t[i].n = BodyOf(StatusBefore(t, i, u[1].n))
               /\ t[i].type = "end" => i + 1 = 3
    <3>1. /\ t[i].type = "start" => (i + 1) + k = 1
          /\ t[i].type = "body" =>
               (i + 1) + k = 2 /\ t[i].n = BodyOf(StatusBefore(u, i + 1, code))
          /\ t[i].type = "end" => (i + 1) + k = 3
      BY <1>1 DEF BufferFrames
    <3>2. (i + 1) + k = 2 => StatusBefore(u, i + 1, code) = StatusBefore(t, i, u[1].n)
      BY <1>2, <1>4 DEF StatusBefore
    <3>. QED BY <1>2, <1>4, <3>1, <3>2
  <2>. QED BY <2>1 DEF BufferFrames
<1>5. ASSUME u[1].type = "body" PROVE BufferFrames(t, 2, code)
  <2>1. ASSUME NEW i \in 1..Len(t)
        PROVE  /\ t[i].type = "start" => i + 2 = 1
               /\ t[i].type = "body" => i + 2 = 2 /\ t[i].n = BodyOf(StatusBefore(t, i, code))
               /\ t[i].type = "end" => i + 2 = 3
    <3>1. /\ t[i].type = "start" => (i + 1) + k = 1
          /\ t[i].type = "body" => (i + 1) + k = 2
          /\ t[i].type = "end" => (i + 1) + k = 3
      BY <1>1 DEF BufferFrames
    <3>. QED BY <1>2, <1>5, <3>1
  <2>. QED BY <2>1 DEF BufferFrames
<1>. QED BY <1>2, <1>3, <1>4, <1>5 DEF t

LEMMA SenderTail ==
  ASSUME NEW u \in FrameSeqs, u # <<>>, NEW k \in Nat, NEW code, NEW state,
         BufferSender(u, k, code, state)
  PROVE  /\ k = 0 => BufferSender(Tail(u), 1, u[1].n, state)
         /\ k = 1 => BufferSender(Tail(u), 2, code, state)
<1>. DEFINE t == Tail(u)
<1>1. /\ Len(u) \in Nat \ {0} /\ Len(t) = Len(u) - 1 /\ 1 \in 1..Len(u)
      /\ \A i \in 1..Len(t) : t[i] = u[i + 1] /\ i + 1 \in 1..Len(u)
  BY TailAt
<1>. HIDE DEF t
<1>2. k = 0 => BufferSender(t, 1, u[1].n, state)
  BY <1>1 DEF BufferSender, StatusBefore
<1>3. k = 1 => BufferSender(t, 2, code, state)
  BY <1>1 DEF BufferSender, StatusBefore
<1>. QED BY <1>2, <1>3 DEF t

LEMMA BufferPrefix ==
  ASSUME NEW u, NEW v, Segment(v, u, 0), NEW k, NEW code, BufferFrames(u, k, code)
  PROVE  BufferFrames(v, k, code)
<1>1. \A i \in 1..Len(v) : i + 0 = i /\ v[i] = u[i] /\ i \in 1..Len(u)
  BY DEF Segment
<1>2. \A i \in 1..Len(v) : StatusBefore(v, i, code) = StatusBefore(u, i, code)
  <2>1. ASSUME NEW i \in 1..Len(v), i # 1 PROVE v[i - 1] = u[i - 1]
    <3>1. i - 1 \in 1..Len(v)
      BY <2>1 DEF Segment
    <3>. QED BY <1>1, <3>1
  <2>. QED BY <2>1 DEF StatusBefore
<1>. QED BY <1>1, <1>2 DEF BufferFrames

\* The next frame of a buffered response.
LEMMA BufferSends ==
  ASSUME NEW u \in FrameSeqs, NEW f \in FrameSet, NEW k \in Nat, NEW code, NEW state, NEW next,
         BufferFrames(u, k, code),
         \/ f.type = "close" /\ next = "none"
         \/ /\ BufferSender(u, k, code, state)
            /\ \/ state = "fetch" /\ f = OkStart /\ next = "start"
               \/ state = "fetch" /\ f = BadStart /\ next = "errorStart"
               \/ state = "start" /\ f = Chunk(1) /\ next = "body"
               \/ state = "errorStart" /\ f = Chunk(ErrorBody) /\ next = "errorBody"
               \/ state = "body" /\ f = End /\ next = "end"
               \/ state = "errorBody" /\ f = End /\ next = "errorEnd"
  PROVE  BufferFrames(Append(u, f), k, code) /\ BufferSender(Append(u, f), k, code, next)
<1>. DEFINE s == Append(u, f)
<1>1. /\ Len(u) \in Nat /\ Len(s) = Len(u) + 1 /\ s[Len(u) + 1] = f
      /\ \A i \in 1..Len(u) : s[i] = u[i]
      /\ (u = <<>> <=> Len(u) = 0)
  BY AppendAt, FrameSeqLen
<1>. HIDE DEF s
<1>2. \A i \in 1..Len(s) : i \in 1..Len(u) \/ i = Len(u) + 1
  BY <1>1
<1>3. \A i \in 1..Len(u) + 1 : StatusBefore(s, i, code) = StatusBefore(u, i, code)
  <2>1. ASSUME NEW i \in 1..Len(u) + 1, i # 1 PROVE s[i - 1] = u[i - 1]
    <3>1. i - 1 \in 1..Len(u)
      BY <1>1, <2>1
    <3>. QED BY <1>1, <3>1
  <2>. QED BY <2>1 DEF StatusBefore
<1>4. ASSUME f.type = "start" => Len(u) + 1 + k = 1,
             f.type = "body" => /\ Len(u) + 1 + k = 2
                                /\ f.n = BodyOf(StatusBefore(u, Len(u) + 1, code)),
             f.type = "end" => Len(u) + 1 + k = 3
      PROVE  BufferFrames(s, k, code)
  <2>1. ASSUME NEW i \in 1..Len(s)
        PROVE  /\ s[i].type = "start" => i + k = 1
               /\ s[i].type = "body" => i + k = 2 /\ s[i].n = BodyOf(StatusBefore(s, i, code))
               /\ s[i].type = "end" => i + k = 3
    <3>1. CASE i \in 1..Len(u)
      <4>1. s[i] = u[i] /\ StatusBefore(s, i, code) = StatusBefore(u, i, code)
        BY <1>1, <1>3, <3>1
      <4>. QED BY <3>1, <4>1 DEF BufferFrames
    <3>2. CASE i = Len(u) + 1
      <4>1. s[i] = f /\ StatusBefore(s, i, code) = StatusBefore(u, i, code)
        BY <1>1, <1>3, <3>2
      <4>. QED BY <1>4, <3>2, <4>1
    <3>. QED BY <1>2, <3>1, <3>2
  <2>. QED BY <2>1 DEF BufferFrames
<1>5. Len(s) + k = Len(u) + k + 1 /\ StatusBefore(s, Len(s) + 1, code) = f.n
  <2>. DEFINE n == Len(s) + 1
  <2>1. n # 1 /\ n - 1 = Len(u) + 1
    BY <1>1
  <2>2. Len(s) + k = Len(u) + k + 1
    BY <1>1
  <2>. HIDE DEF n
  <2>3. StatusBefore(s, n, code) = s[n - 1].n
    BY <2>1 DEF StatusBefore
  <2>4. s[n - 1] = f
    BY <1>1, <2>1
  <2>. QED BY <2>2, <2>3, <2>4 DEF n
<1>6. CASE f.type = "close" /\ next = "none"
  BY <1>4, <1>6 DEF BufferSender, s
<1>7. CASE ~ (f.type = "close" /\ next = "none")
  <2>1. /\ BufferSender(u, k, code, state)
        /\ \/ state = "fetch" /\ f = OkStart /\ next = "start"
           \/ state = "fetch" /\ f = BadStart /\ next = "errorStart"
           \/ state = "start" /\ f = Chunk(1) /\ next = "body"
           \/ state = "errorStart" /\ f = Chunk(ErrorBody) /\ next = "errorBody"
           \/ state = "body" /\ f = End /\ next = "end"
           \/ state = "errorBody" /\ f = End /\ next = "errorEnd"
    BY <1>7
  <2>2. /\ OkStart.type = "start" /\ OkStart.n = 200 /\ BadStart.type = "start" /\ BadStart.n = 502
        /\ Chunk(1).type = "body" /\ Chunk(1).n = 1 /\ End.type = "end"
        /\ Chunk(ErrorBody).type = "body" /\ Chunk(ErrorBody).n = 0 /\ ErrorBody = 0
    BY DEF OkStart, BadStart, Chunk, End, Frame, ErrorBody
  <2>3. CASE state = "fetch"
    <3>1. /\ Len(u) + k = 0 /\ f.type = "start" /\ next \in {"start", "errorStart"}
          /\ f.n = IF next = "start" THEN 200 ELSE 502
      BY <2>1, <2>2, <2>3 DEF BufferSender
    <3>2. BufferFrames(s, k, code)
      BY <1>1, <1>4, <3>1
    <3>3. BufferSender(s, k, code, next)
      BY <1>1, <1>5, <3>1 DEF BufferSender
    <3>. QED BY <3>2, <3>3 DEF s
  <2>4. CASE state \in {"start", "errorStart"}
    <3>1. /\ Len(u) + k = 1 /\ f.type = "body" /\ next \in {"body", "errorBody"}
          /\ f.n = BodyOf(StatusBefore(u, Len(u) + 1, code))
      BY <2>1, <2>2, <2>4 DEF BufferSender, BodyOf
    <3>2. BufferFrames(s, k, code)
      BY <1>1, <1>4, <3>1
    <3>3. BufferSender(s, k, code, next)
      BY <1>1, <1>5, <3>1 DEF BufferSender
    <3>. QED BY <3>2, <3>3 DEF s
  <2>5. CASE state \in {"body", "errorBody"}
    <3>1. Len(u) + k = 2 /\ f.type = "end" /\ next \in {"end", "errorEnd"}
      BY <2>1, <2>2, <2>5 DEF BufferSender
    <3>2. BufferFrames(s, k, code)
      BY <1>1, <1>4, <3>1
    <3>3. BufferSender(s, k, code, next)
      BY <3>1 DEF BufferSender
    <3>. QED BY <3>2, <3>3 DEF s
  <2>. QED BY <2>1, <2>3, <2>4, <2>5
<1>. QED BY <1>6, <1>7

LEMMA StreamPrefixes ==
  ASSUME NEW u, NEW v, Segment(v, u, 0), NEW k, NEW told, NEW made, StreamFrames(u, k, told, made)
  PROVE  StreamFrames(v, k, told, made)
<1>1. \A i \in 1..Len(v) : v[i] = u[i] /\ i \in 1..Len(u)
  <2>1. \A i \in 1..Len(v) : i + 0 = i /\ v[i] = u[i + 0] /\ i + 0 \in 1..Len(u)
    BY DEF Segment
  <2>. QED BY <2>1
<1>. QED BY <1>1 DEF StreamFrames

LEMMA StreamTail ==
  ASSUME NEW u \in FrameSeqs, u # <<>>, NEW k \in Nat, NEW told, NEW made \in Nat,
         StreamFrames(u, k, told, made)
  PROVE  /\ IsOkStart(u[1]) => k = 0
         /\ IsChunk(u[1]) => u[1].n = k /\ u[1].n <= made /\ ~ told
         /\ IsError(u[1]) => ~ told
         /\ StreamFrames(Tail(u), k + 1, told, made)
         /\ ~ IsOkStart(u[1]) /\ ~ IsChunk(u[1]) =>
              \A m : StreamFrames(Tail(u), m, told, made)
         /\ ~ IsOkStart(u[1]) /\ ~ IsChunk(u[1]) /\ u[1].type # "start" =>
              \A m, t : StreamFrames(Tail(u), m, t, made)
<1>. DEFINE t == Tail(u)
<1>1. /\ Len(u) \in Nat \ {0} /\ Len(t) = Len(u) - 1 /\ 1 \in 1..Len(u) /\ u[1] \in FrameSet
      /\ \A i \in 1..Len(t) : t[i] = u[i + 1] /\ i + 1 \in 1..Len(u)
  BY TailAt
<1>2. \A i \in 1..Len(u) : u[i] \in FrameSet
  BY FrameSeqLen
<1>. HIDE DEF t
<1>3. /\ \A i \in 1..Len(u) :
           /\ IsOkStart(u[i]) => i + k = 1
           /\ IsChunk(u[i]) => u[i].n + 1 = i + k /\ u[i].n <= made /\ ~ told
           /\ IsError(u[i]) => ~ told
      /\ \A i, j \in 1..Len(u) :
           i < j /\ ~ IsOkStart(u[i]) /\ ~ IsChunk(u[i]) =>
             /\ ~ IsOkStart(u[j]) /\ ~ IsChunk(u[j])
             /\ u[i].type # "start" => ~ IsError(u[j])
  BY DEF StreamFrames
<1>4. /\ IsOkStart(u[1]) => k = 0
      /\ IsChunk(u[1]) => u[1].n = k /\ u[1].n <= made /\ ~ told
      /\ IsError(u[1]) => ~ told
  <2>1. IsChunk(u[1]) => u[1].n \in Nat
    BY <1>1, ChunkAssumption DEF FrameSet, Frames, IsChunk
  <2>2. /\ IsOkStart(u[1]) => 1 + k = 1
        /\ IsChunk(u[1]) => u[1].n + 1 = 1 + k /\ u[1].n <= made /\ ~ told
        /\ IsError(u[1]) => ~ told
    BY <1>1, <1>3
  <2>. QED BY <2>1, <2>2
<1>5. \A i, j \in 1..Len(t) :
        i < j /\ ~ IsOkStart(t[i]) /\ ~ IsChunk(t[i]) =>
          /\ ~ IsOkStart(t[j]) /\ ~ IsChunk(t[j])
          /\ t[i].type # "start" => ~ IsError(t[j])
  <2>1. ASSUME NEW i \in 1..Len(t), NEW j \in 1..Len(t), i < j,
               ~ IsOkStart(t[i]), ~ IsChunk(t[i])
        PROVE  /\ ~ IsOkStart(t[j]) /\ ~ IsChunk(t[j])
               /\ t[i].type # "start" => ~ IsError(t[j])
    <3>1. /\ i + 1 \in 1..Len(u) /\ j + 1 \in 1..Len(u) /\ i + 1 < j + 1
          /\ t[i] = u[i + 1] /\ t[j] = u[j + 1]
      BY <1>1, <2>1
    <3>. QED BY <1>3, <2>1, <3>1
  <2>. QED BY <2>1
<1>6. StreamFrames(t, k + 1, told, made)
  <2>1. ASSUME NEW i \in 1..Len(t)
        PROVE  /\ IsOkStart(t[i]) => i + (k + 1) = 1
               /\ IsChunk(t[i]) => t[i].n + 1 = i + (k + 1) /\ t[i].n <= made /\ ~ told
               /\ IsError(t[i]) => ~ told
    <3>1. /\ IsOkStart(t[i]) => (i + 1) + k = 1
          /\ IsChunk(t[i]) => t[i].n + 1 = (i + 1) + k /\ t[i].n <= made /\ ~ told
          /\ IsError(t[i]) => ~ told
      BY <1>1, <1>3
    <3>2. (i + 1) + k = i + (k + 1)
      OBVIOUS
    <3>. QED BY <3>1, <3>2
  <2>. QED BY <1>5, <2>1 DEF StreamFrames
<1>7. ASSUME ~ IsOkStart(u[1]), ~ IsChunk(u[1])
      PROVE  /\ \A m : StreamFrames(t, m, told, made)
             /\ u[1].type # "start" => \A m, d : StreamFrames(t, m, d, made)
  <2>1. \A i \in 1..Len(t) :
          /\ ~ IsOkStart(t[i]) /\ ~ IsChunk(t[i])
          /\ u[1].type # "start" => ~ IsError(t[i])
    <3>1. \A i \in 1..Len(t) : 1 < i + 1
      OBVIOUS
    <3>. QED BY <1>1, <1>3, <1>7, <3>1
  <2>2. \A i \in 1..Len(t) : IsError(t[i]) => ~ told
    BY <1>1, <1>3
  <2>. QED BY <1>5, <2>1, <2>2 DEF StreamFrames
<1>. QED BY <1>4, <1>6, <1>7 DEF t

LEMMA StreamSenderTail ==
  ASSUME NEW u \in FrameSeqs, u # <<>>, NEW k \in Nat, NEW told, NEW made \in Nat, NEW state,
         StreamSender(u, k, told, made, state)
  PROVE  /\ StreamSender(Tail(u), k + 1, told, made, state)
         /\ ~ IsOkStart(u[1]) /\ ~ IsChunk(u[1]) =>
              \A m : StreamSender(Tail(u), m, told, made, state)
         /\ ~ IsOkStart(u[1]) /\ ~ IsChunk(u[1]) /\ u[1].type # "start" =>
              \A m, d : StreamSender(Tail(u), m, d, made, state)
<1>. DEFINE t == Tail(u)
<1>1. /\ Len(u) \in Nat \ {0} /\ Len(t) = Len(u) - 1 /\ 1 \in 1..Len(u)
      /\ \A i \in 1..Len(t) : t[i] = u[i + 1] /\ i + 1 \in 1..Len(u)
  BY TailAt
<1>. HIDE DEF t
<1>2. /\ state # "fetch"
      /\ state \in {"start", "read", "body"} =>
           /\ Len(u) + k = made + 1
           /\ \A i \in 1..Len(u) : IsOkStart(u[i]) \/ IsChunk(u[i])
      /\ state \in {"fetch", "start", "read", "body", "errorStart"} =>
           /\ ~ told
           /\ \A i \in 1..Len(u) : u[i].type = "start" \/ IsChunk(u[i])
  BY <1>1 DEF StreamSender
<1>3. /\ state \in {"start", "read", "body"} =>
           \A i \in 1..Len(t) : IsOkStart(t[i]) \/ IsChunk(t[i])
      /\ state \in {"fetch", "start", "read", "body", "errorStart"} =>
           \A i \in 1..Len(t) : t[i].type = "start" \/ IsChunk(t[i])
  BY <1>1, <1>2
<1>4. StreamSender(t, k + 1, told, made, state)
  <2>1. Len(t) + (k + 1) = Len(u) + k
    BY <1>1
  <2>. QED BY <1>2, <1>3, <2>1 DEF StreamSender
<1>5. ASSUME ~ IsOkStart(u[1]), ~ IsChunk(u[1])
      PROVE  /\ \A m : StreamSender(t, m, told, made, state)
             /\ u[1].type # "start" => \A m, d : StreamSender(t, m, d, made, state)
  <2>1. state \notin {"fetch", "start", "read", "body"}
    BY <1>1, <1>2, <1>5
  <2>2. u[1].type # "start" => state # "errorStart"
    BY <1>1, <1>2, <1>5
  <2>. QED BY <1>2, <1>3, <2>1, <2>2 DEF StreamSender
<1>. QED BY <1>4, <1>5 DEF t

\* The next frame of a streamed response.
LEMMA StreamSends ==
  ASSUME NEW u \in FrameSeqs, NEW f \in FrameSet, NEW k \in Nat, NEW told, NEW made \in Nat,
         NEW state, NEW next, NEW more \in Nat, more >= made,
         StreamFrames(u, k, told, made),
         \/ f.type = "close" /\ next = "none"
         \/ /\ StreamSender(u, k, told, made, state)
            /\ \/ state = "fetch" /\ f = OkStart /\ next = "start" /\ more = 0
               \/ state = "fetch" /\ f = BadStart /\ next = "errorStart"
               \/ state = "read" /\ f = Chunk(made + 1) /\ next = "body" /\ more = made + 1
               \/ state \in {"read", "start", "body"} /\ f = BadStart /\ next = "errorStart"
               \/ state = "errorStart" /\ f = Chunk(ErrorBody) /\ next = "errorBody"
               \/ f = End /\ next \in {"end", "errorEnd"}
  PROVE  /\ StreamFrames(Append(u, f), k, told, more)
         /\ StreamSender(Append(u, f), k, told, more, next)
<1>. DEFINE s == Append(u, f)
<1>1. /\ Len(u) \in Nat /\ Len(s) = Len(u) + 1 /\ s[Len(u) + 1] = f
      /\ \A i \in 1..Len(u) : s[i] = u[i]
  BY AppendAt
<1>2. \A i \in 1..Len(u) : u[i] \in FrameSet
  BY FrameSeqLen
<1>. HIDE DEF s
<1>3. \A i \in 1..Len(s) : i \in 1..Len(u) \/ i = Len(u) + 1
  BY <1>1
<1>4. \A i \in 1..Len(u) : IsChunk(u[i]) => u[i].n <= more
  BY <1>2, ChunkAssumption DEF StreamFrames, IsChunk, FrameSet, Frames
<1>5. ASSUME IsOkStart(f) => Len(u) + 1 + k = 1,
             IsChunk(f) => f.n + 1 = Len(u) + 1 + k /\ f.n <= more /\ ~ told,
             IsError(f) => ~ told,
             IsOkStart(f) \/ IsChunk(f) => \A i \in 1..Len(u) : IsOkStart(u[i]) \/ IsChunk(u[i]),
             IsError(f) => \A i \in 1..Len(u) : u[i].type = "start" \/ IsChunk(u[i])
      PROVE  StreamFrames(s, k, told, more)
  <2>1. ASSUME NEW i \in 1..Len(s)
        PROVE  /\ IsOkStart(s[i]) => i + k = 1
               /\ IsChunk(s[i]) => s[i].n + 1 = i + k /\ s[i].n <= more /\ ~ told
               /\ IsError(s[i]) => ~ told
    <3>1. CASE i \in 1..Len(u)
      <4>1. s[i] = u[i]
        BY <1>1, <3>1
      <4>. QED BY <1>4, <3>1, <4>1 DEF StreamFrames
    <3>2. CASE i = Len(u) + 1
      BY <1>1, <1>5, <3>2
    <3>. QED BY <1>3, <3>1, <3>2
  <2>2. ASSUME NEW i \in 1..Len(s), NEW j \in 1..Len(s), i < j,
               ~ IsOkStart(s[i]), ~ IsChunk(s[i])
        PROVE  /\ ~ IsOkStart(s[j]) /\ ~ IsChunk(s[j])
               /\ s[i].type # "start" => ~ IsError(s[j])
    <3>1. i \in 1..Len(u) /\ s[i] = u[i]
      BY <1>1, <2>2
    <3>2. CASE j \in 1..Len(u)
      <4>1. s[j] = u[j]
        BY <1>1, <3>2
      <4>. QED BY <2>2, <3>1, <3>2, <4>1 DEF StreamFrames
    <3>3. CASE j = Len(u) + 1
      BY <1>1, <1>5, <2>2, <3>1, <3>3
    <3>. QED BY <1>3, <3>2, <3>3
  <2>. QED BY <2>1, <2>2 DEF StreamFrames
<1>6. CASE f.type = "close" /\ next = "none"
  <2>1. ~ IsOkStart(f) /\ ~ IsChunk(f) /\ ~ IsError(f)
    BY <1>6 DEF IsOkStart, IsChunk, IsError
  <2>2. StreamFrames(s, k, told, more)
    BY <1>5, <2>1
  <2>3. StreamSender(s, k, told, more, next)
    BY <1>6 DEF StreamSender
  <2>. QED BY <2>2, <2>3 DEF s
<1>7. CASE ~ (f.type = "close" /\ next = "none")
  <2>1. /\ StreamSender(u, k, told, made, state)
        /\ \/ state = "fetch" /\ f = OkStart /\ next = "start" /\ more = 0
           \/ state = "fetch" /\ f = BadStart /\ next = "errorStart"
           \/ state = "read" /\ f = Chunk(made + 1) /\ next = "body" /\ more = made + 1
           \/ state \in {"read", "start", "body"} /\ f = BadStart /\ next = "errorStart"
           \/ state = "errorStart" /\ f = Chunk(ErrorBody) /\ next = "errorBody"
           \/ f = End /\ next \in {"end", "errorEnd"}
    BY <1>7
  <2>2. /\ OkStart.type = "start" /\ OkStart.n = 200 /\ BadStart.type = "start" /\ BadStart.n = 502
        /\ Chunk(made + 1).type = "body" /\ Chunk(made + 1).n = made + 1 /\ End.type = "end"
        /\ Chunk(ErrorBody).type = "body" /\ Chunk(ErrorBody).n = 0 /\ ErrorBody = 0
    BY DEF OkStart, BadStart, Chunk, End, Frame, ErrorBody
  <2>3. /\ state \in {"start", "read", "body"} =>
             /\ Len(u) + k = made + 1
             /\ \A i \in 1..Len(u) : IsOkStart(u[i]) \/ IsChunk(u[i])
        /\ state \in {"fetch", "start", "read", "body", "errorStart"} =>
             /\ ~ told
             /\ \A i \in 1..Len(u) : u[i].type = "start" \/ IsChunk(u[i])
        /\ state = "fetch" => Len(u) + k = 0
    BY <2>1 DEF StreamSender
  <2>4. CASE state = "fetch" /\ f = OkStart /\ next = "start" /\ more = 0
    <3>1. IsOkStart(f) /\ ~ IsChunk(f) /\ ~ IsError(f) /\ f.type = "start"
      BY <2>2, <2>4 DEF IsOkStart, IsChunk, IsError
    <3>2. Len(u) = 0 /\ k = 0 /\ ~ told
      BY <1>1, <2>3, <2>4
    <3>3. StreamFrames(s, k, told, more)
      BY <1>5, <3>1, <3>2
    <3>4. \A i \in 1..Len(s) : IsOkStart(s[i]) /\ s[i].type = "start"
      BY <1>1, <1>3, <3>1, <3>2
    <3>5. StreamSender(s, k, told, more, next)
      BY <1>1, <2>4, <3>2, <3>4 DEF StreamSender
    <3>. QED BY <3>3, <3>5 DEF s
  <2>5. CASE f = BadStart /\ next = "errorStart" /\ state \in {"fetch", "start", "read", "body"}
    <3>1. ~ IsOkStart(f) /\ ~ IsChunk(f) /\ ~ IsError(f) /\ f.type = "start"
      BY <2>2, <2>5 DEF IsOkStart, IsChunk, IsError
    <3>2. StreamFrames(s, k, told, more)
      BY <1>5, <3>1
    <3>3. \A i \in 1..Len(s) : s[i].type = "start" \/ IsChunk(s[i])
      BY <1>1, <1>3, <2>3, <2>5, <3>1
    <3>4. StreamSender(s, k, told, more, next)
      BY <2>3, <2>5, <3>3 DEF StreamSender
    <3>. QED BY <3>2, <3>4 DEF s
  <2>6. CASE state = "read" /\ f = Chunk(made + 1) /\ next = "body" /\ more = made + 1
    <3>1. IsChunk(f) /\ f.n = made + 1 /\ ~ IsOkStart(f) /\ ~ IsError(f)
      BY <2>2, <2>6 DEF IsOkStart, IsChunk, IsError
    <3>2. f.n + 1 = Len(u) + 1 + k /\ f.n <= more /\ ~ told
      BY <1>1, <2>3, <2>6, <3>1
    <3>3. StreamFrames(s, k, told, more)
      BY <1>5, <2>3, <2>6, <3>1, <3>2
    <3>4. \A i \in 1..Len(s) :
            (IsOkStart(s[i]) \/ IsChunk(s[i])) /\ (s[i].type = "start" \/ IsChunk(s[i]))
      BY <1>1, <1>3, <2>3, <2>6, <3>1
    <3>5. Len(s) + k = more + 1
      BY <1>1, <2>3, <2>6
    <3>6. StreamSender(s, k, told, more, next)
      BY <2>6, <3>2, <3>4, <3>5 DEF StreamSender
    <3>. QED BY <3>3, <3>6 DEF s
  <2>7. CASE state = "errorStart" /\ f = Chunk(ErrorBody) /\ next = "errorBody"
    <3>1. ~ IsChunk(f) /\ ~ IsOkStart(f)
      BY <2>2, <2>7 DEF IsOkStart, IsChunk, ErrorBody
    <3>2. StreamFrames(s, k, told, more)
      BY <1>5, <2>3, <2>7, <3>1
    <3>3. StreamSender(s, k, told, more, next)
      BY <2>7 DEF StreamSender
    <3>. QED BY <3>2, <3>3 DEF s
  <2>8. CASE f = End /\ next \in {"end", "errorEnd"}
    <3>1. ~ IsChunk(f) /\ ~ IsOkStart(f) /\ ~ IsError(f)
      BY <2>2, <2>8 DEF IsOkStart, IsChunk, IsError
    <3>2. StreamFrames(s, k, told, more)
      BY <1>5, <3>1
    <3>3. StreamSender(s, k, told, more, next)
      BY <2>8 DEF StreamSender
    <3>. QED BY <3>2, <3>3 DEF s
  <2>. QED BY <2>1, <2>4, <2>5, <2>6, <2>7, <2>8
<1>. QED BY <1>6, <1>7

LEMMA StreamCloses ==
  ASSUME NEW u \in FrameSeqs, NEW k \in Nat, NEW told, NEW made \in Nat,
         StreamFrames(u, k, told, made)
  PROVE  StreamFrames(Append(u, CloseFrame), k, told, made)
<1>1. CloseFrame \in FrameSet /\ CloseFrame.type = "close" /\ made >= made
  BY CloseType
<1>2. \/ CloseFrame.type = "close" /\ "none" = "none"
      \/ /\ StreamSender(u, k, told, made, "none")
         /\ \/ "none" = "fetch" /\ CloseFrame = OkStart /\ "none" = "start" /\ made = 0
            \/ "none" = "fetch" /\ CloseFrame = BadStart /\ "none" = "errorStart"
            \/ "none" = "read" /\ CloseFrame = Chunk(made + 1) /\ "none" = "body" /\ made = made + 1
            \/ /\ "none" \in {"read", "start", "body"}
               /\ CloseFrame = BadStart /\ "none" = "errorStart"
            \/ "none" = "errorStart" /\ CloseFrame = Chunk(ErrorBody) /\ "none" = "errorBody"
            \/ CloseFrame = End /\ "none" \in {"end", "errorEnd"}
  BY <1>1
<1>. QED BY <1>1, <1>2, StreamSends

-----------------------------------------------------------------------------
(***************************************************************************)
(* What the link's operations do to a request's frames.                    *)
(***************************************************************************)
\* One request's frames in the direction, to the machine.
UpAt(c) ==
  /\ upQueue' \in [Connections -> FrameSeqs] /\ upWire' \in [Connections -> FrameSeqs]
  /\ \A d \in Connections \ {c} : upQueue'[d] = upQueue[d] /\ upWire'[d] = upWire[d]

LEMMA UpTypes ==
  ASSUME Typed, NEW c \in Connections
  PROVE  /\ upQueue \in [Connections -> FrameSeqs] /\ upWire \in [Connections -> FrameSeqs]
         /\ upQueue[c] \in FrameSeqs /\ upWire[c] \in FrameSeqs
         /\ Up(c) \in FrameSeqs /\ Up(c) = upWire[c] \o upQueue[c]
         /\ Quiet \in [Connections -> FrameSeqs] /\ Quiet[c] = <<>>
<1>1. /\ upQueue \in [Connections -> FrameSeqs] /\ upWire \in [Connections -> FrameSeqs]
      /\ upQueue[c] \in FrameSeqs /\ upWire[c] \in FrameSeqs
  BY DEF Typed
<1>2. Up(c) \in FrameSeqs /\ Up(c) = upWire[c] \o upQueue[c]
  BY <1>1, ConcatAt DEF Up
<1>. QED BY <1>1, <1>2, NoFrame DEF Quiet

LEMMA UpStays ==
  ASSUME Typed, NEW c \in Connections, UNCHANGED upLink
  PROVE  UpAt(c) /\ Up(c)' = Up(c) /\ upQueue' = upQueue
BY UpTypes DEF UpAt, Up, upLink

\* A frame is sent.
LEMMA UpSent ==
  ASSUME Typed, NEW c \in Connections, NEW f \in FrameSet, UpSend(c, f)
  PROVE  /\ UpAt(c)
         /\ cloudSocket = "open" => Up(c)' = Append(Up(c), f)
         /\ cloudSocket # "open" => Up(c)' = Up(c) /\ upQueue' = upQueue
<1>1. CASE cloudSocket # "open"
  BY <1>1, UpStays DEF UpSend
<1>2. CASE cloudSocket = "open"
  <2>1. Enqueue(c, f, upQueue, upWire)
    BY <1>2 DEF UpSend
  <2>2. /\ Append(upWire[c], f) \in FrameSeqs /\ Append(upQueue[c], f) \in FrameSeqs
        /\ upQueue[c] = <<>> => Append(upWire[c], f) \o upQueue[c] = Append(Up(c), f)
        /\ upWire[c] \o Append(upQueue[c], f) = Append(Up(c), f)
    <3>1. upQueue[c] \in FrameSeqs /\ upWire[c] \in FrameSeqs
      BY UpTypes
    <3>. QED BY <3>1, WireAppend DEF Up
  <2>3. CASE upQueue = Quiet /\ upWire' = [upWire EXCEPT ![c] = Append(@, f)] /\ UNCHANGED upQueue
    BY <1>2, <2>2, <2>3, UpTypes DEF UpAt, Up
  <2>4. CASE upQueue' = [upQueue EXCEPT ![c] = Append(@, f)] /\ UNCHANGED upWire
    BY <1>2, <2>2, <2>4, UpTypes DEF UpAt, Up
  <2>. QED BY <2>1, <2>3, <2>4 DEF Enqueue
<1>. QED BY <1>1, <1>2

\* A close goes to the wire.
LEMMA UpOvertaken ==
  ASSUME Typed, NEW c \in Connections, UNCHANGED upQueue,
         upWire' = IF cloudSocket = "open"
                   THEN [upWire EXCEPT ![c] = Append(@, CloseFrame)] ELSE upWire
  PROVE  /\ UpAt(c)
         /\ cloudSocket = "open" => Up(c)' = Append(upWire[c], CloseFrame) \o upQueue[c]
         /\ cloudSocket # "open" => Up(c)' = Up(c)
<1>1. Append(upWire[c], CloseFrame) \in FrameSeqs
  BY UpTypes, AppendAt, CloseType
<1>. QED BY <1>1, UpTypes DEF UpAt, Up

\* ... and the queue is dropped.
LEMMA UpOverflown ==
  ASSUME Typed, NEW c \in Connections, cloudSocket = "open",
         upQueue' = [upQueue EXCEPT ![c] = <<>>],
         upWire' = IF cloudSocket = "open"
                   THEN [upWire EXCEPT ![c] = Append(@, CloseFrame)] ELSE upWire
  PROVE  UpAt(c) /\ Up(c)' = Append(upWire[c], CloseFrame)
<1>1. /\ Append(upWire[c], CloseFrame) \in FrameSeqs
      /\ Append(upWire[c], CloseFrame) \o <<>> = Append(upWire[c], CloseFrame)
  BY UpTypes, AppendAt, CloseType, Alone
<1>. QED BY <1>1, UpTypes, NoFrame DEF UpAt, Up

\* The queue is dropped.
LEMMA UpCut ==
  ASSUME Typed, NEW c \in Connections, upQueue' = [upQueue EXCEPT ![c] = <<>>], UNCHANGED upWire
  PROVE  UpAt(c) /\ Up(c)' = upWire[c] /\ upQueue'[c] = <<>>
<1>1. upWire[c] \o <<>> = upWire[c]
  BY UpTypes, Alone
<1>. QED BY <1>1, UpTypes, NoFrame DEF UpAt, Up

\* The first frame arrives.
LEMMA UpArrives ==
  ASSUME Typed, NEW c \in Connections, upWire[c] # <<>>, Arrives(c, upWire), UNCHANGED upQueue
  PROVE  /\ UpAt(c) /\ Up(c) # <<>> /\ Up(c)' = Tail(Up(c))
         /\ Head(Up(c)) = Head(upWire[c]) /\ Head(upWire[c]) \in FrameSet
<1>1. /\ Tail(upWire[c]) \in FrameSeqs /\ Up(c) # <<>> /\ Head(Up(c)) = Head(upWire[c])
      /\ Tail(upWire[c]) \o upQueue[c] = Tail(Up(c)) /\ Head(upWire[c]) \in FrameSet
  <2>1. upQueue[c] \in FrameSeqs /\ upWire[c] \in FrameSeqs
    BY UpTypes
  <2>. QED BY <2>1, WireTail DEF Up
<1>. QED BY <1>1, UpTypes DEF UpAt, Up, Arrives

\* The first of the queue goes to the wire.
LEMMA UpDrained ==
  ASSUME Typed, NEW c \in Connections, Drains(c, cloudSocket, upQueue, upWire)
  PROVE  UpAt(c) /\ Up(c)' = Up(c)
<1>1. /\ upQueue[c] # <<>> /\ upWire' = [upWire EXCEPT ![c] = Append(@, Head(upQueue[c]))]
      /\ upQueue' = [upQueue EXCEPT ![c] = Tail(@)]
  BY DEF Drains
<1>2. /\ Append(upWire[c], Head(upQueue[c])) \in FrameSeqs /\ Tail(upQueue[c]) \in FrameSeqs
      /\ Append(upWire[c], Head(upQueue[c])) \o Tail(upQueue[c]) = Up(c)
  BY <1>1, UpTypes, WireDrain
<1>. QED BY <1>1, <1>2, UpTypes DEF UpAt, Up

\* One request's frames in the direction, to the cloud.
DownAt(c) ==
  /\ downQueue' \in [Connections -> FrameSeqs] /\ downWire' \in [Connections -> FrameSeqs]
  /\ \A d \in Connections \ {c} : downQueue'[d] = downQueue[d] /\ downWire'[d] = downWire[d]

LEMMA DownTypes ==
  ASSUME Typed, NEW c \in Connections
  PROVE  /\ downQueue \in [Connections -> FrameSeqs] /\ downWire \in [Connections -> FrameSeqs]
         /\ downQueue[c] \in FrameSeqs /\ downWire[c] \in FrameSeqs
         /\ Down(c) \in FrameSeqs /\ Down(c) = downWire[c] \o downQueue[c]
         /\ Quiet \in [Connections -> FrameSeqs] /\ Quiet[c] = <<>>
<1>1. /\ downQueue \in [Connections -> FrameSeqs] /\ downWire \in [Connections -> FrameSeqs]
      /\ downQueue[c] \in FrameSeqs /\ downWire[c] \in FrameSeqs
  BY DEF Typed
<1>2. Down(c) \in FrameSeqs /\ Down(c) = downWire[c] \o downQueue[c]
  BY <1>1, ConcatAt DEF Down
<1>. QED BY <1>1, <1>2, NoFrame DEF Quiet

LEMMA DownStays ==
  ASSUME Typed, NEW c \in Connections, UNCHANGED downLink
  PROVE  DownAt(c) /\ Down(c)' = Down(c) /\ downQueue' = downQueue
BY DownTypes DEF DownAt, Down, downLink

\* A frame is sent.
LEMMA DownSent ==
  ASSUME Typed, NEW c \in Connections, NEW f \in FrameSet, DownSend(c, f)
  PROVE  /\ DownAt(c)
         /\ machineSocket = "open" => Down(c)' = Append(Down(c), f)
         /\ machineSocket # "open" => Down(c)' = Down(c) /\ downQueue' = downQueue
<1>1. CASE machineSocket # "open"
  BY <1>1, DownStays DEF DownSend
<1>2. CASE machineSocket = "open"
  <2>1. Enqueue(c, f, downQueue, downWire)
    BY <1>2 DEF DownSend
  <2>2. /\ Append(downWire[c], f) \in FrameSeqs /\ Append(downQueue[c], f) \in FrameSeqs
        /\ downQueue[c] = <<>> => Append(downWire[c], f) \o downQueue[c] = Append(Down(c), f)
        /\ downWire[c] \o Append(downQueue[c], f) = Append(Down(c), f)
    <3>1. downQueue[c] \in FrameSeqs /\ downWire[c] \in FrameSeqs
      BY DownTypes
    <3>. QED BY <3>1, WireAppend DEF Down
  <2>3. CASE /\ downQueue = Quiet /\ downWire' = [downWire EXCEPT ![c] = Append(@, f)]
             /\ UNCHANGED downQueue
    BY <1>2, <2>2, <2>3, DownTypes DEF DownAt, Down
  <2>4. CASE downQueue' = [downQueue EXCEPT ![c] = Append(@, f)] /\ UNCHANGED downWire
    BY <1>2, <2>2, <2>4, DownTypes DEF DownAt, Down
  <2>. QED BY <2>1, <2>3, <2>4 DEF Enqueue
<1>. QED BY <1>1, <1>2

\* A close goes to the wire.
LEMMA DownOvertaken ==
  ASSUME Typed, NEW c \in Connections, UNCHANGED downQueue,
         downWire' = IF machineSocket = "open"
                   THEN [downWire EXCEPT ![c] = Append(@, CloseFrame)] ELSE downWire
  PROVE  /\ DownAt(c)
         /\ machineSocket = "open" => Down(c)' = Append(downWire[c], CloseFrame) \o downQueue[c]
         /\ machineSocket # "open" => Down(c)' = Down(c)
<1>1. Append(downWire[c], CloseFrame) \in FrameSeqs
  BY DownTypes, AppendAt, CloseType
<1>. QED BY <1>1, DownTypes DEF DownAt, Down

\* ... and the queue is dropped.
LEMMA DownOverflown ==
  ASSUME Typed, NEW c \in Connections, machineSocket = "open",
         downQueue' = [downQueue EXCEPT ![c] = <<>>],
         downWire' = IF machineSocket = "open"
                   THEN [downWire EXCEPT ![c] = Append(@, CloseFrame)] ELSE downWire
  PROVE  DownAt(c) /\ Down(c)' = Append(downWire[c], CloseFrame)
<1>1. /\ Append(downWire[c], CloseFrame) \in FrameSeqs
      /\ Append(downWire[c], CloseFrame) \o <<>> = Append(downWire[c], CloseFrame)
  BY DownTypes, AppendAt, CloseType, Alone
<1>. QED BY <1>1, DownTypes, NoFrame DEF DownAt, Down

\* The queue is dropped.
LEMMA DownCut ==
  ASSUME Typed, NEW c \in Connections, downQueue' = [downQueue EXCEPT ![c] = <<>>],
         UNCHANGED downWire
  PROVE  DownAt(c) /\ Down(c)' = downWire[c] /\ downQueue'[c] = <<>>
<1>1. downWire[c] \o <<>> = downWire[c]
  BY DownTypes, Alone
<1>. QED BY <1>1, DownTypes, NoFrame DEF DownAt, Down

\* The first frame arrives.
LEMMA DownArrives ==
  ASSUME Typed, NEW c \in Connections, downWire[c] # <<>>, Arrives(c, downWire), UNCHANGED downQueue
  PROVE  /\ DownAt(c) /\ Down(c) # <<>> /\ Down(c)' = Tail(Down(c))
         /\ Head(Down(c)) = Head(downWire[c]) /\ Head(downWire[c]) \in FrameSet
<1>1. /\ Tail(downWire[c]) \in FrameSeqs /\ Down(c) # <<>> /\ Head(Down(c)) = Head(downWire[c])
      /\ Tail(downWire[c]) \o downQueue[c] = Tail(Down(c)) /\ Head(downWire[c]) \in FrameSet
  <2>1. downQueue[c] \in FrameSeqs /\ downWire[c] \in FrameSeqs
    BY DownTypes
  <2>. QED BY <2>1, WireTail DEF Down
<1>. QED BY <1>1, DownTypes DEF DownAt, Down, Arrives

\* The first of the queue goes to the wire.
LEMMA DownDrained ==
  ASSUME Typed, NEW c \in Connections, Drains(c, machineSocket, downQueue, downWire)
  PROVE  DownAt(c) /\ Down(c)' = Down(c)
<1>1. /\ downQueue[c] # <<>> /\ downWire' = [downWire EXCEPT ![c] = Append(@, Head(downQueue[c]))]
      /\ downQueue' = [downQueue EXCEPT ![c] = Tail(@)]
  BY DEF Drains
<1>2. /\ Append(downWire[c], Head(downQueue[c])) \in FrameSeqs /\ Tail(downQueue[c]) \in FrameSeqs
      /\ Append(downWire[c], Head(downQueue[c])) \o Tail(downQueue[c]) = Down(c)
  BY <1>1, DownTypes, WireDrain
<1>. QED BY <1>1, <1>2, DownTypes DEF DownAt, Down

-----------------------------------------------------------------------------
(***************************************************************************)
(* A step on one request.                                                  *)
(***************************************************************************)
LEMMA AtRequest ==
  ASSUME HttpInv, NEW r \in Connections
  PROVE  /\ Typed /\ Request(r)
         /\ Caller(r) /\ Machine(r) /\ Upload(r) /\ Unmade(r) /\ Made(r)
         /\ Buffered(r) /\ Streamed(r)
         /\ Up(r) \in FrameSeqs /\ Down(r) \in FrameSeqs
         /\ upWire[r] \in FrameSeqs /\ upQueue[r] \in FrameSeqs
         /\ downWire[r] \in FrameSeqs /\ downQueue[r] \in FrameSeqs
         /\ kind[r] \in {"buffer", "stream"} /\ hasBody[r] \in BOOLEAN
         /\ pending[r] \in BOOLEAN /\ timer[r] \in BOOLEAN /\ active[r] \in BOOLEAN
         /\ upload[r] \in Uploads /\ reply[r] \in Replies /\ status[r] \in {0, 200, 502}
         /\ body[r] \in ChunkSeqs /\ machinePending[r] \in MachineStates
         /\ controller[r] \in BOOLEAN /\ aborted[r] \in BOOLEAN /\ handler[r] \in Handlers
         /\ fetched[r] \in {"nothing", "started", "withBody"}
         /\ produced[r] \in 0..MaxChunks \cup {1} /\ produced[r] \in Nat
         /\ Len(body[r]) \in Nat /\ Stage(r) \in Nat
<1>1. Typed /\ Request(r)
  BY DEF HttpInv
<1>2. /\ upWire[r] \in FrameSeqs /\ upQueue[r] \in FrameSeqs
      /\ downWire[r] \in FrameSeqs /\ downQueue[r] \in FrameSeqs
      /\ kind[r] \in {"buffer", "stream"} /\ hasBody[r] \in BOOLEAN
      /\ pending[r] \in BOOLEAN /\ timer[r] \in BOOLEAN /\ active[r] \in BOOLEAN
      /\ upload[r] \in Uploads /\ reply[r] \in Replies /\ status[r] \in {0, 200, 502}
      /\ body[r] \in ChunkSeqs /\ machinePending[r] \in MachineStates
      /\ controller[r] \in BOOLEAN /\ aborted[r] \in BOOLEAN /\ handler[r] \in Handlers
      /\ fetched[r] \in {"nothing", "started", "withBody"}
      /\ produced[r] \in 0..MaxChunks \cup {1}
  BY <1>1 DEF Typed
<1>3. Up(r) \in FrameSeqs /\ Down(r) \in FrameSeqs
  BY <1>1, UpTypes, DownTypes
<1>4. produced[r] \in Nat
  BY <1>2, ChunkAssumption
<1>5. Len(body[r]) \in Nat
  BY <1>2, LenProperties DEF ChunkSeqs
<1>6. Stage(r) \in Nat
  BY <1>5 DEF Stage
<1>. QED BY <1>1, <1>2, <1>3, <1>4, <1>5, <1>6 DEF Request

\* All other requests are left alone.
CloudElsewhere(r) ==
  \A q \in Connections \ {r} :
    /\ kind'[q] = kind[q] /\ hasBody'[q] = hasBody[q] /\ pending'[q] = pending[q]
    /\ timer'[q] = timer[q] /\ active'[q] = active[q] /\ upload'[q] = upload[q]
    /\ reply'[q] = reply[q] /\ status'[q] = status[q] /\ body'[q] = body[q]
MachineElsewhere(r) ==
  \A q \in Connections \ {r} :
    /\ machinePending'[q] = machinePending[q] /\ controller'[q] = controller[q]
    /\ aborted'[q] = aborted[q] /\ handler'[q] = handler[q]
    /\ fetched'[q] = fetched[q] /\ produced'[q] = produced[q]

CloudTyped ==
  /\ kind \in [Connections -> {"buffer", "stream"}] /\ hasBody \in [Connections -> BOOLEAN]
  /\ pending \in [Connections -> BOOLEAN] /\ timer \in [Connections -> BOOLEAN]
  /\ active \in [Connections -> BOOLEAN] /\ upload \in [Connections -> Uploads]
  /\ reply \in [Connections -> Replies] /\ status \in [Connections -> {0, 200, 502}]
  /\ body \in [Connections -> ChunkSeqs]
MachineTyped ==
  /\ machinePending \in [Connections -> MachineStates]
  /\ controller \in [Connections -> BOOLEAN] /\ aborted \in [Connections -> BOOLEAN]
  /\ handler \in [Connections -> Handlers]
  /\ fetched \in [Connections -> {"nothing", "started", "withBody"}]
  /\ produced \in [Connections -> 0..MaxChunks \cup {1}]

LEMMA SideTypes == Typed => CloudTyped /\ MachineTyped
BY DEF Typed, CloudTyped, MachineTyped

LEMMA SidesKept ==
  /\ \A r \in Connections :
       Typed /\ UNCHANGED cloudVars => CloudTyped' /\ CloudElsewhere(r)
  /\ \A r \in Connections :
       Typed /\ UNCHANGED machineVars => MachineTyped' /\ MachineElsewhere(r)
BY DEF Typed, CloudTyped, MachineTyped, CloudElsewhere, MachineElsewhere, cloudVars, machineVars

LEMMA OneRequest ==
  ASSUME HttpInv, NEW r \in Connections, UNCHANGED sockets, UpAt(r), DownAt(r),
         CloudTyped', MachineTyped', CloudElsewhere(r), MachineElsewhere(r), Request(r)'
  PROVE  HttpInv'
<1>1. Typed'
  <2>1. cloudSocket' = cloudSocket /\ machineSocket' = machineSocket
    BY DEF sockets
  <2>2. Typed
    BY DEF HttpInv
  <2>. QED BY <2>1, <2>2 DEF Typed, CloudTyped, MachineTyped, UpAt, DownAt
<1>2. ASSUME NEW q \in Connections \ {r} PROVE Request(q)'
  <2>1. Request(q)
    BY DEF HttpInv
  <2>2. /\ cloudSocket' = cloudSocket /\ machineSocket' = machineSocket
        /\ upQueue'[q] = upQueue[q] /\ upWire'[q] = upWire[q]
        /\ downQueue'[q] = downQueue[q] /\ downWire'[q] = downWire[q]
        /\ kind'[q] = kind[q] /\ hasBody'[q] = hasBody[q] /\ pending'[q] = pending[q]
        /\ timer'[q] = timer[q] /\ active'[q] = active[q] /\ upload'[q] = upload[q]
        /\ reply'[q] = reply[q] /\ status'[q] = status[q] /\ body'[q] = body[q]
        /\ machinePending'[q] = machinePending[q] /\ controller'[q] = controller[q]
        /\ aborted'[q] = aborted[q] /\ handler'[q] = handler[q]
        /\ fetched'[q] = fetched[q] /\ produced'[q] = produced[q]
    BY DEF sockets, UpAt, DownAt, CloudElsewhere, MachineElsewhere
  <2>3. Up(q)' = Up(q) /\ Down(q)' = Down(q) /\ Stage(q)' = Stage(q) /\ Asked(q)' = Asked(q)
    BY <2>2 DEF Up, Down, Stage, Asked
  <2>4. Caller(q)' /\ Machine(q)'
    BY <2>1, <2>2 DEF Request, Caller, Machine
  <2>5. Upload(q)' /\ Unmade(q)' /\ Made(q)'
    BY <2>1, <2>2, <2>3 DEF Request, Upload, Unmade, Made
  <2>6. Buffered(q)'
    BY <2>1, <2>2, <2>3 DEF Request, Buffered
  <2>7. Streamed(q)'
    BY <2>1, <2>2, <2>3 DEF Request, Streamed
  <2>. QED BY <2>4, <2>5, <2>6, <2>7 DEF Request
<1>. QED BY <1>1, <1>2 DEF HttpInv

-----------------------------------------------------------------------------
(***************************************************************************)
(* What becomes of the two halves of a request when frames are dropped, or *)
(* when the request or the response is over.                               *)
(***************************************************************************)
LEMMA ClosesInTurn ==
  ASSUME NEW u, OnlyCloses(u)
  PROVE  /\ \A b \in BOOLEAN : InTurn(u, b)
         /\ \A a \in {"none", "end"} : NotAfter(u, a)
         /\ ~ Has(u, "start")
BY DEF OnlyCloses, InTurn, Before, NotAfter, Has

LEMMA UploadMade ==
  ASSUME HttpInv, NEW r \in Connections, fetched[r] # "nothing", fetched'[r] = fetched[r],
         hasBody'[r] = hasBody[r], machinePending'[r] = "none",
         OnlyCloses(Up(r)'), upload'[r] \in {"none", "end"}
  PROVE  Upload(r)' /\ Made(r)' /\ Unmade(r)'
<1>1. Made(r) /\ hasBody[r] \in BOOLEAN
  BY AtRequest
<1>2. /\ InTurn(Up(r)', hasBody'[r]) /\ NotAfter(Up(r)', upload'[r])
      /\ ~ Has(Up(r)', "start")
  BY <1>1, ClosesInTurn
<1>3. Upload(r)'
  BY <1>1, <1>2 DEF Upload
<1>. QED BY <1>1, <1>3 DEF Made, Unmade, Asked

LEMMA UploadCut ==
  ASSUME HttpInv, NEW r \in Connections, fetched'[r] = fetched[r], hasBody'[r] = hasBody[r],
         machinePending'[r] = machinePending[r], cloudSocket' = "open" => cloudSocket = "open",
         \/ Up(r)' = Up(r) /\ upload'[r] \in {upload[r], "none"}
         \/ Up(r)' = upWire[r] /\ upload'[r] = "none"
         \/ Up(r)' = Append(upWire[r], CloseFrame) /\ upload'[r] = "none"
  PROVE  Upload(r)' /\ Made(r)'
<1>1. /\ Upload(r) /\ Made(r) /\ upWire[r] \in FrameSeqs /\ upQueue[r] \in FrameSeqs
      /\ hasBody[r] \in BOOLEAN
  BY AtRequest
<1>2. CASE Up(r)' = Up(r)
  BY <1>1, <1>2 DEF Upload, NotAfter, Made, Asked
<1>3. CASE upload'[r] = "none" /\ Up(r)' \in {upWire[r], Append(upWire[r], CloseFrame)}
  <2>. DEFINE v == upWire[r]  u == Up(r)  w == Append(v, CloseFrame)
  <2>1. Segment(v, u, 0)
    BY <1>1, Segments DEF Up
  <2>2. /\ \A type : Has(v, type) => Has(u, type)
        /\ OnlyCloses(u) => OnlyCloses(v)
        /\ InTurn(u, hasBody[r]) => InTurn(v, hasBody[r])
    BY <1>1, <2>1, SegmentKeeps
  <2>3. Len(v) \in Nat /\ (v = <<>> <=> Len(v) = 0) /\ v \in FrameSeqs
    BY <1>1, FrameSeqLen
  <2>4. CloseFrame.type = "close" /\ CloseFrame \in FrameSet
    BY CloseType
  <2>5. v # <<>> => u # <<>> /\ v[1] = u[1]
    <3>1. SUFFICES ASSUME v # <<>> PROVE u # <<>> /\ v[1] = u[1]
      OBVIOUS
    <3>2. 1 \in 1..Len(v) /\ v[1] = u[1 + 0] /\ 1 + 0 \in 1..Len(u) /\ 1 + 0 = 1
      BY <2>1, <2>3, <3>1 DEF Segment
    <3>. QED BY <3>2
  <2>6. /\ w # <<>> /\ w[1] = IF v = <<>> THEN CloseFrame ELSE v[1]
        /\ \A type : Has(w, type) <=> Has(v, type) \/ type = "close"
        /\ OnlyCloses(v) => OnlyCloses(w)
        /\ InTurn(v, hasBody[r]) => InTurn(w, hasBody[r])
    <3>1. /\ w # <<>> /\ Len(w) = Len(v) + 1
          /\ \A i \in 1..Len(v) : w[i] = v[i]
          /\ w[Len(v) + 1] = CloseFrame
      BY <2>3, <2>4, AppendAt
    <3>2. w[1] = IF v = <<>> THEN CloseFrame ELSE v[1]
      BY <2>3, <3>1
    <3>3. \A i \in 1..Len(v) : Before(v[i].type, CloseFrame.type)
      BY <2>4 DEF Before
    <3>. QED BY <1>1, <2>3, <2>4, <3>1, <3>2, <3>3, AppendKeeps
  <2>. HIDE DEF v, u, w
  <2>7. PICK x : x = Up(r)' /\ x \in {v, w}
    BY <1>3 DEF v, w
  <2>8. /\ x # <<>> => x[1] = CloseFrame \/ (u # <<>> /\ x[1] = u[1])
        /\ Has(x, "start") => Has(u, "start")
        /\ OnlyCloses(u) => OnlyCloses(x)
        /\ InTurn(u, hasBody[r]) => InTurn(x, hasBody[r])
    BY <2>2, <2>5, <2>6, <2>7
  <2>9. Upload(r) /\ Made(r) /\ u = Up(r)
    BY <1>1 DEF u
  <2>10. Upload(r)'
    BY <1>3, <2>4, <2>7, <2>8, <2>9 DEF Upload, NotAfter, Asked
  <2>11. Made(r)'
    BY <1>3, <2>7, <2>8, <2>9 DEF Made, Asked
  <2>. QED BY <2>10, <2>11
<1>. QED BY <1>2, <1>3

\* Nobody waits for the response or reads it.
LEMMA ResponseOver ==
  ASSUME HttpInv, NEW r \in Connections, ~ pending'[r], ~ active'[r],
         kind'[r] = kind[r], status'[r] = status[r], body'[r] = body[r],
         produced'[r] = produced[r],
         kind[r] = "buffer" /\ reply'[r] = "complete" => Answer(status[r], body[r])
  PROVE  Buffered(r)' /\ Streamed(r)'
<1>1. Buffered(r) /\ Streamed(r)
  BY AtRequest
<1>2. Buffered(r)'
  BY <1>1 DEF Buffered
<1>3. Streamed(r)'
  BY <1>1 DEF Streamed
<1>. QED BY <1>2, <1>3

\* The response's frames stay, or the last of them are dropped and its handler ends.
LEMMA ResponseCut ==
  ASSUME HttpInv, NEW r \in Connections, pending'[r] => pending[r], active'[r] = active[r],
         kind'[r] = kind[r], status'[r] = status[r], body'[r] = body[r],
         produced'[r] = produced[r], reply'[r] = "complete" => reply[r] = "complete",
         cloudSocket' \in {"open", "closing"} => cloudSocket \in {"open", "closing"},
         machineSocket' = "open" => machineSocket = "open",
         \/ Down(r)' = Down(r) /\ handler'[r] \in {handler[r], "none"}
         \/ /\ handler'[r] = "none"
            /\ Down(r)' = downWire[r] \/ Down(r)' = Append(downWire[r], CloseFrame)
  PROVE  Buffered(r)' /\ Streamed(r)'
<1>1. /\ Buffered(r) /\ Streamed(r) /\ downWire[r] \in FrameSeqs /\ downQueue[r] \in FrameSeqs
      /\ Down(r) \in FrameSeqs /\ Stage(r) \in Nat /\ produced[r] \in Nat
  BY AtRequest
<1>2. Stage(r)' = Stage(r)
  BY DEF Stage
<1>. DEFINE d == Down(r)  h == handler[r]
<1>3. PICK e, g : e = Down(r)' /\ g = handler'[r]
  OBVIOUS
<1>4. \/ e = d /\ g \in {h, "none"}
      \/ g = "none" /\ (e = downWire[r] \/ e = Append(downWire[r], CloseFrame))
  BY <1>3
<1>5. CloseFrame.type = "close" /\ CloseFrame \in FrameSet
  BY CloseType
<1>6. Segment(downWire[r], d, 0)
  BY <1>1, Segments DEF Down
<1>7. ASSUME ClosesLast(d, h) PROVE ClosesLast(e, g)
  <2>1. ClosesLast(d, "none")
    BY <1>1, <1>7, CloseEnds
  <2>2. ClosesLast(downWire[r], "none")
    BY <1>6, <2>1, SegmentKeeps
  <2>3. ClosesLast(Append(downWire[r], CloseFrame), "none")
    BY <1>1, <1>5, <2>2, AppendKeeps
  <2>. QED BY <1>4, <1>7, <2>1, <2>2, <2>3
<1>8. ASSUME NEW k \in Nat, NEW code, BufferFrames(d, k, code)
      PROVE  /\ BufferFrames(e, k, code)
             /\ BufferSender(d, k, code, h) => BufferSender(e, k, code, g)
  <2>1. BufferFrames(downWire[r], k, code)
    BY <1>6, <1>8, BufferPrefix
  <2>2. BufferFrames(Append(downWire[r], CloseFrame), k, code)
    BY <1>1, <1>5, <2>1, BufferSends
  <2>3. \A u : BufferSender(u, k, code, "none")
    BY DEF BufferSender
  <2>. QED BY <1>4, <1>8, <2>1, <2>2, <2>3
<1>9. ASSUME NEW k \in Nat, NEW told, NEW made \in Nat, StreamFrames(d, k, told, made)
      PROVE  /\ StreamFrames(e, k, told, made)
             /\ StreamSender(d, k, told, made, h) => StreamSender(e, k, told, made, g)
  <2>1. StreamFrames(downWire[r], k, told, made)
    BY <1>6, <1>9, StreamPrefixes
  <2>2. StreamFrames(Append(downWire[r], CloseFrame), k, told, made)
    BY <1>1, <2>1, StreamCloses
  <2>3. \A u : StreamSender(u, k, told, made, "none")
    BY DEF StreamSender
  <2>. QED BY <1>4, <1>9, <2>1, <2>2, <2>3
<1>. HIDE DEF d, h
<1>10. Buffered(r)'
  <2>1. SUFFICES ASSUME kind[r] = "buffer" PROVE Buffered(r)'
    BY DEF Buffered
  <2>2. /\ reply[r] = "complete" => Answer(status[r], body[r])
        /\ pending[r] =>
             /\ active[r] =>
                  status[r] \in {200, 502} /\ (body[r] = <<>> \/ Answer(status[r], body[r]))
             /\ ClosesLast(d, h)
             /\ BufferFrames(d, Stage(r), status[r])
             /\ machineSocket = "open" => BufferSender(d, Stage(r), status[r], h)
    BY <1>1, <2>1 DEF Buffered, d, h
  <2>3. pending[r] =>
             /\ ClosesLast(e, g)
             /\ BufferFrames(e, Stage(r), status[r])
             /\ machineSocket = "open" => BufferSender(e, Stage(r), status[r], g)
    BY <1>1, <1>7, <1>8, <2>2
  <2>. QED BY <1>2, <1>3, <2>2, <2>3 DEF Buffered
<1>11. Streamed(r)'
  <2>1. SUFFICES ASSUME kind[r] = "stream" PROVE Streamed(r)'
    BY DEF Streamed
  <2>. DEFINE told == active[r] /\ Told(body[r])
  <2>2. /\ Chunks(body[r]) <= produced[r]
        /\ \A i \in 1..Chunks(body[r]) : body[r][i] = i
        /\ (pending[r] \/ active[r]) /\ cloudSocket \in {"open", "closing"} =>
             /\ ClosesLast(d, h)
             /\ StreamFrames(d, Stage(r), told, produced[r])
             /\ machineSocket = "open" => StreamSender(d, Stage(r), told, produced[r], h)
    BY <1>1, <2>1 DEF Streamed, d, h
  <2>. HIDE DEF told
  <2>3. (pending[r] \/ active[r]) /\ cloudSocket \in {"open", "closing"} =>
             /\ ClosesLast(e, g)
             /\ StreamFrames(e, Stage(r), told, produced[r])
             /\ machineSocket = "open" => StreamSender(e, Stage(r), told, produced[r], g)
    BY <1>1, <1>7, <1>9, <2>2
  <2>. QED BY <1>2, <1>3, <2>2, <2>3 DEF Streamed, told
<1>. QED BY <1>10, <1>11

-----------------------------------------------------------------------------
(***************************************************************************)
(* The machine forgets a request, or all of them.                          *)
(***************************************************************************)
CloudKept(r) ==
  /\ cloudSocket' = cloudSocket /\ upQueue'[r] = upQueue[r]
  /\ kind'[r] = kind[r] /\ hasBody'[r] = hasBody[r] /\ pending'[r] = pending[r]
  /\ timer'[r] = timer[r] /\ active'[r] = active[r] /\ upload'[r] = upload[r]
  /\ reply'[r] = reply[r] /\ status'[r] = status[r] /\ body'[r] = body[r]

\* The handler ends, or goes on and will learn that it has been aborted.
Forgotten(r) ==
  /\ machinePending'[r] = "none" /\ ~ controller'[r] /\ downQueue'[r] = <<>>
  /\ fetched'[r] = fetched[r] /\ produced'[r] = produced[r]
  /\ \/ /\ handler'[r] = "none"
        /\ \/ Down(r)' = downWire[r]
           \/ Down(r)' = Append(downWire[r], CloseFrame) /\ downQueue[r] # <<>>
     \/ /\ handler'[r] = handler[r] /\ Down(r)' = Down(r)
        /\ aborted[r] \/ controller[r] => aborted'[r]

LEMMA MachineDrops ==
  ASSUME HttpInv, NEW r \in Connections, CloudKept(r), Forgotten(r),
         machineSocket' = "open" => machineSocket = "open", Up(r)' \in FrameSeqs,
         NEW n, Segment(Up(r)', Up(r), n), n + Len(Up(r)') = Len(Up(r))
  PROVE  Request(r)'
<1>1. /\ Caller(r) /\ Machine(r) /\ Upload(r) /\ Unmade(r) /\ Made(r)
      /\ hasBody[r] \in BOOLEAN /\ controller[r] \in BOOLEAN /\ aborted[r] \in BOOLEAN
      /\ downWire[r] \in FrameSeqs /\ downQueue[r] \in FrameSeqs
  BY AtRequest
<1>2. Caller(r)'
  BY <1>1 DEF Caller, CloudKept
<1>3. Machine(r)'
  BY <1>1 DEF Machine, CloudKept, Forgotten
<1>4. /\ \A type : Has(Up(r)', type) => Has(Up(r), type)
      /\ OnlyCloses(Up(r)) => OnlyCloses(Up(r)')
      /\ InTurn(Up(r), hasBody[r]) => InTurn(Up(r)', hasBody[r])
      /\ NotAfter(Up(r), upload[r]) => NotAfter(Up(r)', upload[r])
  BY <1>1, SegmentKeeps
<1>5. PICK u, v : u = Up(r) /\ v = Up(r)'
  OBVIOUS
<1>6. v # <<>> /\ v \in FrameSeqs => u # <<>> /\ v[Len(v)] = u[Len(u)]
  <2>1. SUFFICES ASSUME v # <<>>, v \in FrameSeqs PROVE u # <<>> /\ v[Len(v)] = u[Len(u)]
    OBVIOUS
  <2>2. Len(v) \in 1..Len(v) /\ n \in Nat
    BY <1>5, <2>1, FrameSeqLen DEF Segment
  <2>3. v[Len(v)] = u[Len(v) + n] /\ Len(v) + n = Len(u)
    BY <1>5, <2>2 DEF Segment
  <2>4. Len(u) # 0
    BY <2>2, <2>3
  <2>. QED BY <2>3, <2>4, NoFrame
<1>7. Upload(r)'
  <2>1. v \in FrameSeqs
    BY <1>5
  <2>. QED BY <1>1, <1>4, <1>5, <1>6, <2>1 DEF Upload, CloudKept, Forgotten
<1>8. Unmade(r)' /\ Made(r)'
  <2>1. Down(r) = <<>> => downWire[r] = <<>> /\ downQueue[r] = <<>>
    BY <1>1, Alone DEF Down
  <2>. QED BY <1>1, <1>4, <2>1 DEF Unmade, Made, Asked, CloudKept, Forgotten
<1>9. Buffered(r)' /\ Streamed(r)'
  <2>1. /\ pending'[r] => pending[r]
        /\ active'[r] = active[r] /\ kind'[r] = kind[r] /\ status'[r] = status[r]
        /\ body'[r] = body[r] /\ produced'[r] = produced[r]
        /\ reply'[r] = "complete" => reply[r] = "complete"
        /\ cloudSocket' = cloudSocket
        /\ \/ Down(r)' = Down(r) /\ handler'[r] \in {handler[r], "none"}
           \/ /\ handler'[r] = "none"
              /\ Down(r)' = downWire[r] \/ Down(r)' = Append(downWire[r], CloseFrame)
    BY DEF CloudKept, Forgotten
  <2>. QED BY <2>1, ResponseCut
<1>. QED BY <1>2, <1>3, <1>7, <1>8, <1>9 DEF Request

LEMMA MachineLost ==
  ASSUME HttpInv, machineSocket' = "closed", downQueue' = Quiet, upWire' = Quiet,
         cloudSocket' = cloudSocket, upQueue' = upQueue, UNCHANGED cloudVars,
         UNCHANGED <<fetched, produced>>, MachineTyped', downWire' \in [Connections -> FrameSeqs],
         \A r \in Connections :
           /\ machinePending'[r] = "none" /\ ~ controller'[r]
           /\ \/ /\ handler'[r] = "none"
                 /\ \/ downWire'[r] = downWire[r]
                    \/ downWire'[r] = Append(downWire[r], CloseFrame) /\ downQueue[r] # <<>>
              \/ /\ handler'[r] = handler[r] /\ downQueue[r] = <<>> /\ downWire'[r] = downWire[r]
                 /\ aborted[r] \/ controller[r] => aborted'[r]
  PROVE  HttpInv'
<1>1. Typed'
  <2>1. Typed /\ Quiet \in [Connections -> FrameSeqs]
    BY NoFrame DEF HttpInv, Quiet
  <2>. QED BY <2>1 DEF Typed, MachineTyped, cloudVars
<1>2. ASSUME NEW r \in Connections PROVE Request(r)'
  <2>1. /\ Typed /\ downWire[r] \in FrameSeqs /\ downQueue[r] \in FrameSeqs
        /\ upWire[r] \in FrameSeqs /\ upQueue[r] \in FrameSeqs
    BY AtRequest
  <2>2. CloudKept(r)
    BY DEF CloudKept, cloudVars
  <2>3. downWire'[r] \in FrameSeqs
    BY <1>1 DEF Typed
  <2>4. Up(r)' = upQueue[r] /\ Down(r)' = downWire'[r]
    BY <2>1, <2>3, Alone DEF Up, Down, Quiet
  <2>5. Segment(Up(r)', Up(r), Len(upWire[r])) /\ Len(upWire[r]) + Len(Up(r)') = Len(Up(r))
    BY <2>1, <2>4, Segments DEF Up
  <2>6. downQueue[r] = <<>> => Down(r) = downWire[r]
    BY <2>1, Alone DEF Down
  <2>7. Forgotten(r)
    BY <2>4, <2>6 DEF Forgotten, Quiet
  <2>. QED BY <2>1, <2>2, <2>4, <2>5, <2>7, MachineDrops
<1>. QED BY <1>1, <1>2 DEF HttpInv

LEMMA Exited ==
  ASSUME Typed, ProcessExits, UNCHANGED <<aborted, fetched, produced>>
  PROVE  /\ MachineTyped'
         /\ machineSocket' = "closed" /\ downQueue' = Quiet /\ upWire' = Quiet
         /\ cloudSocket' = cloudSocket /\ upQueue' = upQueue
         /\ \A r \in Connections :
              machinePending'[r] = "none" /\ ~ controller'[r] /\ handler'[r] = "none"
BY DEF Typed, ProcessExits, MachineGone, MachineTyped, MachineStates, Handlers

LEMMA Abandoned ==
  ASSUME Typed, NEW dropped \in SUBSET Connections, Abandon(dropped),
         UNCHANGED <<fetched, produced>>
  PROVE  /\ MachineTyped' /\ downQueue' \in [Connections -> FrameSeqs]
         /\ \A q \in Connections \ dropped :
              /\ machinePending'[q] = machinePending[q] /\ controller'[q] = controller[q]
              /\ aborted'[q] = aborted[q] /\ handler'[q] = handler[q]
              /\ downQueue'[q] = downQueue[q]
         /\ \A q \in dropped :
              /\ machinePending'[q] = "none" /\ ~ controller'[q] /\ downQueue'[q] = <<>>
              /\ handler'[q] = "none" \/ (handler'[q] = handler[q] /\ downQueue[q] = <<>>)
              /\ aborted[q] \/ controller[q] => aborted'[q]
<1>1. downQueue' \in [Connections -> FrameSeqs]
  BY NoFrame DEF Typed, Abandon
<1>2. machinePending' \in [Connections -> MachineStates]
  BY DEF Typed, Abandon, MachineStates
<1>3. handler' \in [Connections -> Handlers]
  BY DEF Typed, Abandon, Handlers
<1>4. controller' \in [Connections -> BOOLEAN]
  BY DEF Typed, Abandon
<1>5. aborted' \in [Connections -> BOOLEAN]
  BY DEF Typed, Abandon
<1>6. MachineTyped'
  BY <1>2, <1>3, <1>4, <1>5 DEF MachineTyped, Typed
<1>7. ASSUME NEW q \in Connections \ dropped
      PROVE  /\ machinePending'[q] = machinePending[q] /\ controller'[q] = controller[q]
             /\ aborted'[q] = aborted[q] /\ handler'[q] = handler[q]
             /\ downQueue'[q] = downQueue[q]
  BY <1>7 DEF Typed, Abandon
<1>8. ASSUME NEW q \in dropped
      PROVE  /\ machinePending'[q] = "none" /\ ~ controller'[q] /\ downQueue'[q] = <<>>
             /\ handler'[q] = "none" \/ (handler'[q] = handler[q] /\ downQueue[q] = <<>>)
             /\ aborted[q] \/ controller[q] => aborted'[q]
  BY <1>8 DEF Abandon
<1>. QED BY <1>1, <1>6, <1>7, <1>8

LEMMA OnMachineExits ==
  ASSUME HttpInv, MachineExits
  PROVE  HttpInv'
<1>1. /\ Typed /\ ProcessExits /\ UNCHANGED <<aborted, fetched, produced>>
      /\ downWire' = downWire /\ UNCHANGED cloudVars
  BY DEF MachineExits, HttpInv
<1>2. downWire' \in [Connections -> FrameSeqs]
  BY <1>1 DEF Typed
<1>. QED BY <1>1, <1>2, Exited, MachineLost

LEMMA OnMachineCloseEvent ==
  ASSUME HttpInv, MachineCloseEvent
  PROVE  HttpInv'
<1>1. /\ machineSocket' = "closed" /\ downQueue' = Quiet /\ upWire' = Quiet
      /\ cloudSocket' = cloudSocket /\ upQueue' = upQueue /\ downWire' = downWire
      /\ UNCHANGED cloudVars /\ UNCHANGED <<fetched, produced>> /\ Typed
      /\ \/ ProcessExits /\ UNCHANGED aborted
         \/ Abandon(Connections)
  BY DEF MachineCloseEvent, MachineClosed, HttpInv
<1>2. downWire' \in [Connections -> FrameSeqs]
  BY <1>1 DEF Typed
<1>3. CASE ProcessExits /\ UNCHANGED aborted
  BY <1>1, <1>2, <1>3, Exited, MachineLost
<1>4. CASE Abandon(Connections)
  <2>1. /\ MachineTyped'
        /\ \A q \in Connections :
              /\ machinePending'[q] = "none" /\ ~ controller'[q] /\ downQueue'[q] = <<>>
              /\ handler'[q] = "none" \/ (handler'[q] = handler[q] /\ downQueue[q] = <<>>)
              /\ aborted[q] \/ controller[q] => aborted'[q]
    BY <1>1, <1>4, Abandoned
  <2>. QED BY <1>1, <1>2, <2>1, MachineLost
<1>. QED BY <1>1, <1>3, <1>4

LEMMA OnMachineClose ==
  ASSUME HttpInv, NEW r \in Connections, MachineClose(r)
  PROVE  HttpInv'
<1>1. /\ Typed /\ upWire[r] # <<>>
      /\ cloudSocket' = cloudSocket /\ upQueue' = upQueue /\ downWire' = downWire
      /\ UNCHANGED cloudVars /\ UNCHANGED <<fetched, produced>>
      /\ \/ ProcessExits /\ UNCHANGED aborted
         \/ Abandon({r}) /\ Arrives(r, upWire) /\ machineSocket' = machineSocket
  BY DEF MachineClose, Arriving, HttpInv
<1>2. CASE ProcessExits /\ UNCHANGED aborted
  <2>1. downWire' \in [Connections -> FrameSeqs]
    BY <1>1 DEF Typed
  <2>. QED BY <1>1, <1>2, <2>1, Exited, MachineLost
<1>3. CASE Abandon({r}) /\ Arrives(r, upWire) /\ machineSocket' = machineSocket
  <2>1. /\ MachineTyped' /\ downQueue' \in [Connections -> FrameSeqs]
        /\ \A q \in Connections \ {r} :
              /\ machinePending'[q] = machinePending[q] /\ controller'[q] = controller[q]
              /\ aborted'[q] = aborted[q] /\ handler'[q] = handler[q]
              /\ downQueue'[q] = downQueue[q]
        /\ machinePending'[r] = "none" /\ ~ controller'[r] /\ downQueue'[r] = <<>>
        /\ handler'[r] = "none" \/ (handler'[r] = handler[r] /\ downQueue[r] = <<>>)
        /\ aborted[r] \/ controller[r] => aborted'[r]
    BY <1>1, <1>3, Abandoned
  <2>2. UpAt(r) /\ Up(r) # <<>> /\ Up(r)' = Tail(Up(r))
    BY <1>1, <1>3, UpArrives
  <2>3. DownAt(r) /\ MachineElsewhere(r) /\ UNCHANGED sockets
    BY <1>1, <1>3, <2>1 DEF DownAt, MachineElsewhere, Typed, sockets
  <2>4. CloudTyped' /\ CloudElsewhere(r)
    BY <1>1, SidesKept
  <2>5. downWire[r] \in FrameSeqs /\ downQueue[r] \in FrameSeqs /\ Up(r) \in FrameSeqs
    BY AtRequest
  <2>6. Down(r)' = downWire[r] /\ (downQueue[r] = <<>> => Down(r) = downWire[r])
    BY <1>1, <2>1, <2>5, Alone DEF Down
  <2>7. CloudKept(r)
    BY <1>1 DEF CloudKept, cloudVars
  <2>8. Forgotten(r)
    BY <1>1, <2>1, <2>6 DEF Forgotten
  <2>9. Segment(Up(r)', Up(r), 1) /\ 1 + Len(Up(r)') = Len(Up(r))
    <3>1. Segment(Tail(Up(r)), Up(r), 1) /\ Len(Tail(Up(r))) + 1 = Len(Up(r))
      BY <2>2, <2>5, Segments
    <3>2. Len(Tail(Up(r))) \in Nat
      BY <3>1 DEF Segment
    <3>. QED BY <2>2, <3>1, <3>2
  <2>10. Request(r)'
    <3>1. Up(r)' \in FrameSeqs
      BY <2>2, <2>5, TailAt
    <3>. QED BY <1>3, <2>7, <2>8, <2>9, <3>1, MachineDrops
  <2>. QED BY <2>1, <2>2, <2>3, <2>4, <2>10, OneRequest
<1>. QED BY <1>1, <1>2, <1>3

LEMMA OnResponseOverflows ==
  ASSUME HttpInv, NEW r \in Connections, ResponseOverflows(r)
  PROVE  HttpInv'
<1>1. /\ Typed /\ machineSocket = "open" /\ downQueue[r] # <<>>
      /\ downWire' = [downWire EXCEPT ![r] = Append(@, CloseFrame)]
      /\ cloudSocket' = cloudSocket /\ upQueue' = upQueue
      /\ UNCHANGED cloudVars /\ UNCHANGED <<fetched, produced>>
      /\ \/ ProcessExits /\ UNCHANGED aborted
         \/ Abandon({r}) /\ machineSocket' = machineSocket /\ upWire' = upWire
  BY DEF ResponseOverflows, HttpInv
<1>2. /\ downWire[r] \in FrameSeqs /\ downQueue[r] \in FrameSeqs /\ Up(r) \in FrameSeqs
      /\ Append(downWire[r], CloseFrame) \in FrameSeqs
  BY AtRequest, AppendAt, CloseType
<1>3. downWire' \in [Connections -> FrameSeqs]
  BY <1>1, <1>2 DEF Typed
<1>4. CASE ProcessExits /\ UNCHANGED aborted
  <2>1. \A q \in Connections :
          \/ downWire'[q] = downWire[q]
          \/ downWire'[q] = Append(downWire[q], CloseFrame) /\ downQueue[q] # <<>>
    BY <1>1 DEF Typed
  <2>2. /\ MachineTyped'
        /\ machineSocket' = "closed" /\ downQueue' = Quiet /\ upWire' = Quiet
        /\ \A q \in Connections :
              machinePending'[q] = "none" /\ ~ controller'[q] /\ handler'[q] = "none"
    BY <1>1, <1>4, Exited
  <2>. QED BY <1>1, <1>3, <2>1, <2>2, MachineLost
<1>5. CASE Abandon({r}) /\ machineSocket' = machineSocket /\ upWire' = upWire
  <2>1. /\ MachineTyped' /\ downQueue' \in [Connections -> FrameSeqs]
        /\ \A q \in Connections \ {r} :
              /\ machinePending'[q] = machinePending[q] /\ controller'[q] = controller[q]
              /\ aborted'[q] = aborted[q] /\ handler'[q] = handler[q]
              /\ downQueue'[q] = downQueue[q]
        /\ machinePending'[r] = "none" /\ ~ controller'[r] /\ downQueue'[r] = <<>>
        /\ handler'[r] = "none"
    BY <1>1, <1>5, Abandoned
  <2>2. UpAt(r) /\ Up(r)' = Up(r)
    BY <1>1, <1>5, UpStays DEF upLink
  <2>3. DownAt(r) /\ MachineElsewhere(r) /\ UNCHANGED sockets
    BY <1>1, <1>3, <1>5, <2>1 DEF DownAt, MachineElsewhere, Typed, sockets
  <2>4. CloudTyped' /\ CloudElsewhere(r)
    BY <1>1, SidesKept
  <2>5. Down(r)' = Append(downWire[r], CloseFrame)
    BY <1>1, <1>2, <2>1, Alone DEF Down, Typed
  <2>6. CloudKept(r)
    BY <1>1 DEF CloudKept, cloudVars
  <2>7. Forgotten(r)
    BY <1>1, <2>1, <2>5 DEF Forgotten
  <2>8. Segment(Up(r)', Up(r), 0) /\ 0 + Len(Up(r)') = Len(Up(r))
    BY <1>2, <2>2, Segments, FrameSeqLen
  <2>9. Request(r)'
    BY <1>2, <1>5, <2>2, <2>6, <2>7, <2>8, MachineDrops
  <2>. QED BY <2>1, <2>2, <2>3, <2>4, <2>9, OneRequest
<1>. QED BY <1>1, <1>4, <1>5

-----------------------------------------------------------------------------
(***************************************************************************)
(* The sockets and the schedulers.                                         *)
(***************************************************************************)
\* Nothing becomes of a request when its frames only go from the queue to the wire
\* or when a socket starts to close.
LEMMA Steady ==
  ASSUME HttpInv, NEW r \in Connections, UNCHANGED cloudVars, UNCHANGED machineVars,
         Up(r)' = Up(r), Down(r)' = Down(r),
         \/ cloudSocket' = cloudSocket
         \/ cloudSocket = "open" /\ cloudSocket' = "closing",
         \/ machineSocket' = machineSocket
         \/ machineSocket = "open" /\ machineSocket' = "closing",
         cloudSocket = "closed" => upQueue'[r] = upQueue[r],
         machineSocket = "closed" => downQueue'[r] = downQueue[r]
  PROVE  Request(r)'
<1>1. Caller(r) /\ Machine(r) /\ Upload(r) /\ Unmade(r) /\ Made(r)
  BY AtRequest
<1>2. /\ kind'[r] = kind[r] /\ hasBody'[r] = hasBody[r] /\ pending'[r] = pending[r]
      /\ timer'[r] = timer[r] /\ active'[r] = active[r] /\ upload'[r] = upload[r]
      /\ reply'[r] = reply[r] /\ status'[r] = status[r] /\ body'[r] = body[r]
      /\ machinePending'[r] = machinePending[r] /\ controller'[r] = controller[r]
      /\ aborted'[r] = aborted[r] /\ handler'[r] = handler[r]
      /\ fetched'[r] = fetched[r] /\ produced'[r] = produced[r]
  BY DEF cloudVars, machineVars
<1>3. Caller(r)' /\ Machine(r)'
  BY <1>1, <1>2 DEF Caller, Machine
<1>4. Upload(r)' /\ Made(r)'
  BY <1>2, UploadCut
<1>5. Unmade(r)'
  BY <1>1, <1>2 DEF Unmade
<1>6. Buffered(r)' /\ Streamed(r)'
  BY <1>2, ResponseCut
<1>. QED BY <1>3, <1>4, <1>5, <1>6 DEF Request

LEMMA OnUpDrain ==
  ASSUME HttpInv, NEW r \in Connections, UpDrain(r)
  PROVE  HttpInv'
<1>1. /\ Typed /\ Drains(r, cloudSocket, upQueue, upWire) /\ cloudSocket = "open"
      /\ UNCHANGED sockets /\ UNCHANGED cloudVars /\ UNCHANGED machineVars /\ UNCHANGED downLink
      /\ cloudSocket' = cloudSocket /\ machineSocket' = machineSocket
  BY DEF UpDrain, HttpInv, Drains, sockets
<1>2. UpAt(r) /\ Up(r)' = Up(r) /\ DownAt(r) /\ Down(r)' = Down(r) /\ downQueue' = downQueue
  BY <1>1, UpDrained, DownStays
<1>3. Request(r)'
  BY <1>1, <1>2, Steady
<1>. QED BY <1>1, <1>2, <1>3, SidesKept, OneRequest

LEMMA OnDownDrain ==
  ASSUME HttpInv, NEW r \in Connections, DownDrain(r)
  PROVE  HttpInv'
<1>1. /\ Typed /\ Drains(r, machineSocket, downQueue, downWire) /\ machineSocket = "open"
      /\ UNCHANGED sockets /\ UNCHANGED cloudVars /\ UNCHANGED machineVars /\ UNCHANGED upLink
      /\ cloudSocket' = cloudSocket /\ machineSocket' = machineSocket
  BY DEF DownDrain, HttpInv, Drains, sockets
<1>2. UpAt(r) /\ Up(r)' = Up(r) /\ DownAt(r) /\ Down(r)' = Down(r) /\ upQueue' = upQueue
  BY <1>1, DownDrained, UpStays
<1>3. Request(r)'
  BY <1>1, <1>2, Steady
<1>. QED BY <1>1, <1>2, <1>3, SidesKept, OneRequest

LEMMA OnSocketCloses ==
  ASSUME HttpInv, CloudSocketCloses \/ MachineSocketCloses
  PROVE  HttpInv'
<1>1. /\ UNCHANGED cloudVars /\ UNCHANGED machineVars
      /\ upQueue' = upQueue /\ upWire' = upWire /\ downQueue' = downQueue /\ downWire' = downWire
      /\ \/ cloudSocket' = cloudSocket
         \/ cloudSocket = "open" /\ cloudSocket' = "closing"
      /\ \/ machineSocket' = machineSocket
         \/ machineSocket = "open" /\ machineSocket' = "closing"
  BY DEF CloudSocketCloses, MachineSocketCloses, CloudCloses, MachineCloses, upLink, downLink
<1>2. Typed'
  <2>1. Typed /\ CloudTyped' /\ MachineTyped'
    BY <1>1 DEF HttpInv, Typed, CloudTyped, MachineTyped, cloudVars, machineVars
  <2>. QED BY <1>1, <2>1 DEF Typed, CloudTyped, MachineTyped
<1>3. ASSUME NEW r \in Connections PROVE Request(r)'
  <2>1. Up(r)' = Up(r) /\ Down(r)' = Down(r)
    BY <1>1 DEF Up, Down
  <2>. QED BY <1>1, <2>1, Steady
<1>. QED BY <1>2, <1>3 DEF HttpInv

LEMMA NothingUnderWay ==
  /\ \A b, a : InTurn(<<>>, b) /\ NotAfter(<<>>, a)
  /\ \A type : ~ Has(<<>>, type)
  /\ OnlyCloses(<<>>)
  /\ \A s : ClosesLast(<<>>, s)
  /\ \A k, c : BufferFrames(<<>>, k, c)
  /\ \A k, t, m : StreamFrames(<<>>, k, t, m)
<1>1. Len(<<>>) = 0
  BY NoFrame
<1>. QED BY <1>1 DEF InTurn, NotAfter, Has, OnlyCloses, ClosesLast, BufferFrames, StreamFrames

LEMMA OnReconnect ==
  ASSUME HttpInv, Reconnect
  PROVE  HttpInv'
<1>1. /\ UNCHANGED cloudVars /\ UNCHANGED machineVars
      /\ upQueue' = upQueue /\ upWire' = Quiet /\ downQueue' = downQueue /\ downWire' = Quiet
      /\ cloudSocket = "closed" /\ machineSocket = "closed"
      /\ cloudSocket' = "open" /\ machineSocket' = "open"
  BY DEF Reconnect, Reconnected
<1>2. Typed'
  <2>1. Typed /\ CloudTyped' /\ MachineTyped'
    BY <1>1 DEF HttpInv, Typed, CloudTyped, MachineTyped, cloudVars, machineVars
  <2>2. Quiet \in [Connections -> FrameSeqs]
    BY NoFrame DEF Quiet
  <2>. QED BY <1>1, <2>1, <2>2 DEF Typed, CloudTyped, MachineTyped
<1>3. ASSUME NEW r \in Connections PROVE Request(r)'
  <2>1. /\ Caller(r) /\ Machine(r) /\ Upload(r) /\ Unmade(r) /\ Made(r)
        /\ Buffered(r) /\ Streamed(r) /\ hasBody[r] \in BOOLEAN
    BY AtRequest
  <2>2. /\ kind'[r] = kind[r] /\ hasBody'[r] = hasBody[r] /\ pending'[r] = pending[r]
        /\ timer'[r] = timer[r] /\ active'[r] = active[r] /\ upload'[r] = upload[r]
        /\ reply'[r] = reply[r] /\ status'[r] = status[r] /\ body'[r] = body[r]
        /\ machinePending'[r] = machinePending[r] /\ controller'[r] = controller[r]
        /\ aborted'[r] = aborted[r] /\ handler'[r] = handler[r]
        /\ fetched'[r] = fetched[r] /\ produced'[r] = produced[r]
    BY <1>1 DEF cloudVars, machineVars
  <2>3. /\ ~ pending[r] /\ ~ active[r] /\ upQueue[r] = <<>>
        /\ machinePending[r] = "none" /\ downQueue[r] = <<>>
    BY <1>1, <2>1 DEF Caller, Machine
  <2>4. Up(r)' = <<>> /\ Down(r)' = <<>>
    BY <1>1, <2>3, NoFrame, Alone DEF Up, Down, Quiet
  <2>5. Caller(r)' /\ Machine(r)'
    BY <1>1, <2>1, <2>2, <2>3 DEF Caller, Machine
  <2>6. /\ InTurn(<<>>, hasBody[r]) /\ NotAfter(<<>>, upload[r])
        /\ OnlyCloses(<<>>) /\ ~ Has(<<>>, "start")
    BY NothingUnderWay
  <2>7. Upload(r)'
    BY <2>1, <2>2, <2>3, <2>4, <2>6 DEF Upload
  <2>8. Unmade(r)' /\ Made(r)'
    BY <2>1, <2>2, <2>4, <2>6 DEF Unmade, Made, Asked
  <2>9. Buffered(r)' /\ Streamed(r)'
    BY <2>1, <2>2, <2>3, ResponseOver DEF Buffered
  <2>. QED BY <2>5, <2>7, <2>8, <2>9 DEF Request
<1>. QED BY <1>2, <1>3 DEF HttpInv

\* The requests that the end of the tunnel rejects, and those it leaves.
LEMMA Rejects ==
  ASSUME Typed, NEW S \in SUBSET Connections, RejectRequests(S),
         UNCHANGED <<kind, hasBody, status, body>>
  PROVE  /\ CloudTyped'
         /\ \A r \in Connections :
              /\ kind'[r] = kind[r] /\ hasBody'[r] = hasBody[r]
              /\ status'[r] = status[r] /\ body'[r] = body[r]
              /\ upload'[r] = IF upQueue[r] = <<>> THEN upload[r] ELSE "none"
         /\ \A r \in S : ~ timer'[r] /\ ~ pending'[r] /\ ~ active'[r] /\ reply'[r] = Fails(r)
         /\ \A r \in Connections \ S :
              /\ timer'[r] = timer[r] /\ pending'[r] = pending[r] /\ active'[r] = active[r]
              /\ reply'[r] = reply[r]
<1>1. timer' \in [Connections -> BOOLEAN]
  BY DEF Typed, RejectRequests
<1>2. pending' \in [Connections -> BOOLEAN]
  BY DEF Typed, RejectRequests
<1>3. active' \in [Connections -> BOOLEAN]
  BY DEF Typed, RejectRequests
<1>4. reply' \in [Connections -> Replies]
  BY DEF Typed, RejectRequests, Fails, Replies, Settled
<1>5. upload' \in [Connections -> Uploads]
  BY DEF Typed, RejectRequests, Uploads
<1>6. CloudTyped'
  BY <1>1, <1>2, <1>3, <1>4, <1>5 DEF CloudTyped, Typed
<1>7. ASSUME NEW r \in Connections
      PROVE  /\ kind'[r] = kind[r] /\ hasBody'[r] = hasBody[r]
             /\ status'[r] = status[r] /\ body'[r] = body[r]
             /\ upload'[r] = IF upQueue[r] = <<>> THEN upload[r] ELSE "none"
  BY DEF RejectRequests
<1>8. ASSUME NEW r \in S
      PROVE  ~ timer'[r] /\ ~ pending'[r] /\ ~ active'[r] /\ reply'[r] = Fails(r)
  BY <1>8 DEF RejectRequests
<1>9. ASSUME NEW r \in Connections \ S
      PROVE  /\ timer'[r] = timer[r] /\ pending'[r] = pending[r] /\ active'[r] = active[r]
             /\ reply'[r] = reply[r]
  BY <1>9 DEF RejectRequests, Typed
<1>. QED BY <1>6, <1>7, <1>8, <1>9

LEMMA TunnelEnds ==
  ASSUME HttpInv, NEW S \in SUBSET Connections, RejectRequests(S),
         UNCHANGED <<kind, hasBody, status, body>>, UNCHANGED machineVars,
         upQueue' = Quiet, upWire' = upWire, downQueue' = downQueue,
         machineSocket' = machineSocket,
         \/ cloudSocket' = "replaced" /\ downWire' = downWire
         \/ cloudSocket' = "closed" /\ downWire' = Quiet,
         cloudSocket \in {"open", "closing", "replaced"},
         cloudSocket' = "replaced" => cloudSocket \in {"open", "closing"},
         \A r \in Connections \ S :
           /\ pending[r] => kind[r] = "stream" /\ cloudSocket' # "closed"
           /\ active[r] => cloudSocket' # "closed"
  PROVE  HttpInv'
<1>. DEFINE Rest(r) == timer'[r] = timer[r] /\ pending'[r] = pending[r] /\ active'[r] = active[r]
                       /\ reply'[r] = reply[r]
<1>1. /\ CloudTyped' /\ Typed
      /\ \A r \in Connections :
           /\ kind'[r] = kind[r] /\ hasBody'[r] = hasBody[r]
           /\ status'[r] = status[r] /\ body'[r] = body[r]
           /\ upload'[r] = IF upQueue[r] = <<>> THEN upload[r] ELSE "none"
      /\ \A r \in S : ~ timer'[r] /\ ~ pending'[r] /\ ~ active'[r] /\ reply'[r] = Fails(r)
      /\ \A r \in Connections \ S : Rest(r)
  BY Rejects DEF HttpInv
<1>2. Typed'
  <2>1. MachineTyped' /\ Quiet \in [Connections -> FrameSeqs]
    BY <1>1, NoFrame DEF Typed, MachineTyped, machineVars, Quiet
  <2>. QED BY <1>1, <2>1 DEF Typed, CloudTyped, MachineTyped
<1>3. ASSUME NEW r \in Connections PROVE Request(r)'
  <2>1. /\ Caller(r) /\ Machine(r) /\ Upload(r) /\ Unmade(r) /\ Made(r)
        /\ Buffered(r) /\ Streamed(r) /\ hasBody[r] \in BOOLEAN
        /\ upWire[r] \in FrameSeqs /\ downWire[r] \in FrameSeqs /\ downQueue[r] \in FrameSeqs
    BY AtRequest
  <2>2. /\ machinePending'[r] = machinePending[r] /\ controller'[r] = controller[r]
        /\ aborted'[r] = aborted[r] /\ handler'[r] = handler[r]
        /\ fetched'[r] = fetched[r] /\ produced'[r] = produced[r]
    BY DEF machineVars
  <2>3. /\ kind'[r] = kind[r] /\ hasBody'[r] = hasBody[r]
        /\ status'[r] = status[r] /\ body'[r] = body[r]
        /\ upload'[r] = IF upQueue[r] = <<>> THEN upload[r] ELSE "none"
        /\ \/ r \in S /\ ~ timer'[r] /\ ~ pending'[r] /\ ~ active'[r] /\ reply'[r] = Fails(r)
           \/ r \notin S /\ Rest(r)
    BY <1>1
  <2>4. upQueue'[r] = <<>> /\ Up(r)' = upWire[r] /\ (upQueue[r] = <<>> => Up(r) = upWire[r])
    BY <2>1, Alone DEF Up, Quiet
  <2>5. Caller(r)'
    <3>1. CASE r \in S /\ ~ timer'[r] /\ ~ pending'[r] /\ ~ active'[r] /\ reply'[r] = Fails(r)
      <4>1. timer'[r] = FALSE /\ pending'[r] = FALSE /\ active'[r] = FALSE
        BY <1>1, <3>1 DEF CloudTyped
      <4>2. /\ reply'[r] \notin {"waiting", "streaming"}
            /\ reply'[r] = "complete" => reply[r] = "complete"
        BY <3>1 DEF Fails
      <4>. QED BY <2>1, <2>3, <2>4, <4>1, <4>2 DEF Caller
    <3>2. CASE r \notin S /\ Rest(r)
      BY <2>1, <2>3, <2>4, <3>2 DEF Caller
    <3>. QED BY <2>3, <3>1, <3>2
  <2>6. Machine(r)'
    BY <2>1, <2>2, <2>3 DEF Machine
  <2>7. Upload(r)' /\ Made(r)'
    <3>1. \/ Up(r)' = Up(r) /\ upload'[r] \in {upload[r], "none"}
          \/ Up(r)' = upWire[r] /\ upload'[r] = "none"
      BY <2>3, <2>4
    <3>. QED BY <2>2, <2>3, <3>1, UploadCut
  <2>8. Down(r)' = Down(r) \/ (cloudSocket' = "closed" /\ Down(r)' = downQueue[r])
    BY <2>1, Alone DEF Down, Quiet
  <2>9. Down(r) = <<>> => Down(r)' = <<>>
    <3>1. Down(r) = <<>> => downQueue[r] = <<>>
      BY <2>1, Alone DEF Down
    <3>. QED BY <2>8, <3>1
  <2>10. Unmade(r)'
    BY <2>1, <2>2, <2>3, <2>9 DEF Unmade
  <2>11. Buffered(r)' /\ Streamed(r)'
    <3>1. CASE r \in S /\ ~ pending'[r] /\ ~ active'[r] /\ reply'[r] = Fails(r)
      <4>1. kind[r] = "buffer" /\ reply'[r] = "complete" => Answer(status[r], body[r])
        BY <2>1, <3>1 DEF Fails, Buffered
      <4>. QED BY <2>2, <2>3, <3>1, <4>1, ResponseOver
    <3>2. CASE r \notin S /\ Rest(r) /\ cloudSocket' = "closed"
      <4>1. ~ pending'[r] /\ ~ active'[r]
        BY <3>2
      <4>2. kind[r] = "buffer" /\ reply'[r] = "complete" => Answer(status[r], body[r])
        BY <2>1, <3>2 DEF Buffered
      <4>. QED BY <2>2, <2>3, <4>1, <4>2, ResponseOver
    <3>3. CASE r \notin S /\ Rest(r) /\ cloudSocket' = "replaced"
      <4>1. Down(r)' = Down(r)
        BY <2>8, <3>3
      <4>. QED BY <2>2, <2>3, <3>3, <4>1, ResponseCut
    <3>. QED BY <2>3, <3>1, <3>2, <3>3
  <2>. QED BY <2>5, <2>6, <2>7, <2>10, <2>11 DEF Request
<1>. QED BY <1>2, <1>3 DEF HttpInv

LEMMA OnReplaced ==
  ASSUME HttpInv, Replaced
  PROVE  HttpInv'
<1>. DEFINE S == Rejected({r \in Connections : pending[r] /\ kind[r] = "buffer"})
<1>1. /\ RejectRequests(S) /\ UNCHANGED <<kind, hasBody, status, body>>
      /\ UNCHANGED machineVars
      /\ upQueue' = Quiet /\ upWire' = upWire /\ downQueue' = downQueue /\ downWire' = downWire
      /\ machineSocket' = machineSocket
      /\ cloudSocket \in {"open", "closing"} /\ cloudSocket' = "replaced"
  BY DEF Replaced, CloudReplaced, downLink
<1>2. S \in SUBSET Connections /\ \A r \in Connections \ S : pending[r] => kind[r] # "buffer"
  BY DEF Rejected
<1>3. \A r \in Connections : kind[r] \in {"buffer", "stream"}
  BY DEF HttpInv, Typed
<1>. HIDE DEF S
<1>. QED BY <1>1, <1>2, <1>3, TunnelEnds

LEMMA OnCloudCloseEvent ==
  ASSUME HttpInv, CloudCloseEvent
  PROVE  HttpInv'
<1>. DEFINE S == {r \in Connections : pending[r] \/ active[r]}
<1>1. /\ RejectRequests(S) /\ UNCHANGED <<kind, hasBody, status, body>>
      /\ UNCHANGED machineVars
      /\ upQueue' = Quiet /\ upWire' = upWire /\ downQueue' = downQueue /\ downWire' = Quiet
      /\ machineSocket' = machineSocket
      /\ cloudSocket \in {"closing", "replaced"} /\ cloudSocket' = "closed"
  BY DEF CloudCloseEvent, CloudClosed
<1>2. S \in SUBSET Connections /\ \A r \in Connections \ S : ~ pending[r] /\ ~ active[r]
  OBVIOUS
<1>. HIDE DEF S
<1>. QED BY <1>1, <1>2, TunnelEnds

-----------------------------------------------------------------------------
(***************************************************************************)
(* The cloud server's end.                                                 *)
(***************************************************************************)
\* The machine's part in a step of the cloud's.
MachineKept(r) ==
  /\ kind'[r] = kind[r] /\ hasBody'[r] = hasBody[r]
  /\ cloudSocket' = cloudSocket /\ machineSocket' = machineSocket
  /\ downQueue'[r] = downQueue[r]
  /\ machinePending'[r] = machinePending[r] /\ controller'[r] = controller[r]
  /\ aborted'[r] = aborted[r] /\ handler'[r] = handler[r]
  /\ fetched'[r] = fetched[r] /\ produced'[r] = produced[r]

LEMMA OnProxyRequest ==
  ASSUME HttpInv, NEW r \in Connections, ProxyRequest(r)
  PROVE  HttpInv'
<1>1. PICK k \in {"buffer", "stream"}, b \in BOOLEAN :
        kind' = [kind EXCEPT ![r] = k] /\ hasBody' = [hasBody EXCEPT ![r] = b]
  BY DEF ProxyRequest
<1>2. /\ Typed /\ cloudSocket \in {"open", "closing"}
      /\ UNCHANGED sockets /\ cloudSocket' = cloudSocket /\ machineSocket' = machineSocket
      /\ machinePending[r] = "none" /\ ~ controller[r] /\ handler[r] = "none"
      /\ upQueue[r] = <<>> /\ upWire[r] = <<>> /\ downQueue[r] = <<>> /\ downWire[r] = <<>>
      /\ pending' = [pending EXCEPT ![r] = TRUE] /\ timer' = [timer EXCEPT ![r] = TRUE]
      /\ active' = [active EXCEPT ![r] = FALSE] /\ reply' = [reply EXCEPT ![r] = "waiting"]
      /\ status' = [status EXCEPT ![r] = 0] /\ body' = [body EXCEPT ![r] = <<>>]
      /\ upload' = [upload EXCEPT ![r] = "start"] /\ UpSend(r, OkStart)
      /\ aborted' = [aborted EXCEPT ![r] = FALSE]
      /\ fetched' = [fetched EXCEPT ![r] = "nothing"]
      /\ produced' = [produced EXCEPT ![r] = 0]
      /\ machinePending' = machinePending /\ controller' = controller /\ handler' = handler
      /\ UNCHANGED downLink
  BY DEF ProxyRequest, Unused, NoFrames, HttpInv, sockets
<1>3. /\ OkStart \in FrameSet /\ OkStart.type = "start" /\ <<>> \in FrameSeqs
      /\ <<>> \in ChunkSeqs /\ Len(<<>>) = 0 /\ 0 \in 0..MaxChunks \cup {1}
  BY FrameTypes, NoFrame, ChunkAssumption
<1>4. /\ UpAt(r) /\ DownAt(r) /\ downQueue' = downQueue /\ Down(r)' = Down(r)
      /\ cloudSocket = "open" => Up(r)' = Append(Up(r), OkStart)
      /\ cloudSocket # "open" => Up(r)' = Up(r)
  BY <1>2, <1>3, UpSent, DownStays
<1>5. Up(r) = <<>> /\ Down(r) = <<>>
  BY <1>2, <1>3, Alone DEF Up, Down
<1>6. CloudTyped' /\ CloudElsewhere(r)
  BY <1>1, <1>2, <1>3 DEF Typed, CloudTyped, CloudElsewhere, Uploads, Replies
<1>7. MachineTyped' /\ MachineElsewhere(r)
  BY <1>2, <1>3 DEF Typed, MachineTyped, MachineElsewhere
<1>8. /\ kind'[r] = k /\ hasBody'[r] = b /\ pending'[r] = TRUE /\ timer'[r] = TRUE
      /\ active'[r] = FALSE /\ reply'[r] = "waiting" /\ status'[r] = 0 /\ body'[r] = <<>>
      /\ upload'[r] = "start" /\ aborted'[r] = FALSE /\ fetched'[r] = "nothing"
      /\ produced'[r] = 0 /\ machinePending'[r] = "none" /\ handler'[r] = "none"
      /\ controller'[r] = controller[r] /\ Down(r)' = <<>> /\ downQueue'[r] = <<>>
  BY <1>1, <1>2, <1>4, <1>5 DEF Typed
<1>9. Caller(r)' /\ Machine(r)'
  BY <1>2, <1>8 DEF Caller, Machine
<1>10. Upload(r)'
  <2>1. PICK u : u = Up(r)' /\ (u = <<>> \/ u = Append(<<>>, OkStart))
    BY <1>4, <1>5
  <2>2. InTurn(u, b) /\ NotAfter(u, "start")
    <3>1. CASE u = <<>>
      BY <3>1, NothingUnderWay
    <3>2. CASE u = Append(<<>>, OkStart)
      <4>1. InTurn(u, b) /\ Len(u) = 1 /\ u[1].type = "start"
        <5>1. Len(u) = Len(<<>>) + 1 /\ u[Len(<<>>) + 1] = OkStart
          BY <1>3, <3>2, AppendAt
        <5>2. InTurn(<<>>, b) /\ \A i \in 1..Len(<<>>) : Before(<<>>[i].type, OkStart.type)
          BY <1>3, NothingUnderWay
        <5>3. InTurn(Append(<<>>, OkStart), b)
          BY <1>3, <5>2, AppendKeeps
        <5>4. Len(u) = 1
          BY <1>3, <5>1
        <5>5. u[1] = OkStart
          BY <1>3, <5>1
        <5>. QED BY <1>3, <3>2, <5>3, <5>4, <5>5
      <4>. QED BY <4>1 DEF NotAfter
    <3>. QED BY <2>1, <3>1, <3>2
  <2>. QED BY <1>8, <2>1, <2>2 DEF Upload
<1>11. Unmade(r)' /\ Made(r)'
  BY <1>8 DEF Unmade, Made
<1>12. Buffered(r)'
  BY <1>8, NothingUnderWay DEF Buffered, BufferSender
<1>13. Streamed(r)'
  BY <1>3, <1>8, NothingUnderWay DEF Streamed, StreamSender, Chunks, Told
<1>14. Request(r)'
  BY <1>9, <1>10, <1>11, <1>12, <1>13 DEF Request
<1>. QED BY <1>2, <1>4, <1>6, <1>7, <1>14, OneRequest

LEMMA OnUploadContinues ==
  ASSUME HttpInv, NEW r \in Connections, UploadContinues(r)
  PROVE  HttpInv'
<1>. DEFINE next == CASE upload[r] = "start" /\ hasBody[r] -> "body"
                      [] upload[r] = "end" -> "none"
                      [] OTHER -> "end"
            f == Frame(next, 0)
<1>1. /\ Typed /\ upload[r] # "none" /\ upQueue[r] = <<>>
      /\ upload' = [upload EXCEPT ![r] = next]
      /\ IF next = "none" THEN UNCHANGED upLink ELSE UpSend(r, f)
      /\ UNCHANGED sockets /\ cloudSocket' = cloudSocket /\ machineSocket' = machineSocket
      /\ kind' = kind /\ hasBody' = hasBody /\ pending' = pending /\ timer' = timer
      /\ active' = active /\ reply' = reply /\ status' = status /\ body' = body
      /\ UNCHANGED machineVars /\ UNCHANGED downLink
  BY DEF UploadContinues, HttpInv, sockets
<1>2. /\ Caller(r) /\ Machine(r) /\ Upload(r) /\ Unmade(r) /\ Made(r)
      /\ hasBody[r] \in BOOLEAN /\ upload[r] \in Uploads /\ Up(r) \in FrameSeqs
      /\ machinePending[r] \in MachineStates
  BY AtRequest
<1>3. /\ upload[r] = "start" /\ hasBody[r] => next = "body"
      /\ upload[r] = "start" /\ ~ hasBody[r] => next = "end"
      /\ upload[r] = "body" => next = "end"
      /\ upload[r] = "end" => next = "none"
      /\ upload[r] \in {"start", "body", "end"}
  BY <1>1, <1>2 DEF Uploads
<1>4. next \in {"body", "end"} => f \in FrameSet /\ f.type = next
  BY FrameTypes
<1>5. \A c : c = next => c \in {"none", "body", "end"}
  BY <1>3
<1>. HIDE DEF next, f
<1>6. /\ UpAt(r) /\ DownAt(r) /\ Down(r)' = Down(r) /\ downQueue' = downQueue
      /\ \/ Up(r)' = Up(r) /\ upQueue' = upQueue /\ (next = "none" \/ cloudSocket # "open")
         \/ cloudSocket = "open" /\ next # "none" /\ Up(r)' = Append(Up(r), f)
  <2>1. CASE next = "none"
    BY <1>1, <2>1, UpStays, DownStays
  <2>2. CASE next # "none"
    <3>1. PICK g \in FrameSet : g = f /\ UpSend(r, g)
      BY <1>1, <1>4, <1>5, <2>2 DEF UpSend, Enqueue
    <3>2. /\ UpAt(r)
          /\ cloudSocket = "open" => Up(r)' = Append(Up(r), g)
          /\ cloudSocket # "open" => Up(r)' = Up(r) /\ upQueue' = upQueue
      BY <1>1, <3>1, UpSent
    <3>3. DownAt(r) /\ Down(r)' = Down(r) /\ downQueue' = downQueue
      BY <1>1, DownStays
    <3>. QED BY <2>2, <3>1, <3>2, <3>3
  <2>. QED BY <2>1, <2>2
<1>7. upload'[r] = next /\ CloudTyped' /\ CloudElsewhere(r)
  BY <1>1, <1>5 DEF Typed, CloudTyped, CloudElsewhere, Uploads
<1>8. MachineTyped' /\ MachineElsewhere(r)
  BY <1>1, SidesKept
<1>9. /\ MachineKept(r) /\ pending'[r] = pending[r] /\ timer'[r] = timer[r]
      /\ active'[r] = active[r] /\ reply'[r] = reply[r] /\ status'[r] = status[r]
      /\ body'[r] = body[r] /\ hasBody'[r] = hasBody[r] /\ fetched'[r] = fetched[r]
      /\ machinePending'[r] = machinePending[r]
  BY <1>1, <1>6 DEF MachineKept, machineVars
<1>10. Caller(r)' /\ Machine(r)' /\ Unmade(r)'
  BY <1>1, <1>2, <1>6, <1>9 DEF Caller, Machine, Unmade, MachineKept
<1>11. Upload(r)' /\ Made(r)'
  <2>1. CASE next = "none"
    <3>1. upload[r] = "end" /\ Up(r)' = Up(r)
      BY <1>3, <1>6, <2>1
    <3>. QED BY <1>1, <1>7, <1>9, <2>1, <3>1, UploadCut
  <2>2. CASE next # "none"
    <3>1. upload[r] \in {"start", "body"} /\ fetched[r] = "nothing"
      BY <1>2, <1>3, <2>2 DEF Made
    <3>2. CASE Up(r)' = Up(r) /\ cloudSocket # "open"
      <4>1. NotAfter(Up(r), next)
        BY <1>2, <1>3, <3>1 DEF Upload, NotAfter
      <4>. QED BY <1>1, <1>2, <1>3, <1>7, <1>9, <3>1, <3>2, <4>1 DEF Upload, Made, Asked
    <3>3. CASE cloudSocket = "open" /\ Up(r)' = Append(Up(r), f)
      <4>1. PICK u, w : u = Up(r) /\ w = Up(r)' /\ u \in FrameSeqs
        BY <1>2
      <4>2. /\ Len(u) \in Nat /\ Len(w) = Len(u) + 1 /\ w[Len(u) + 1] = f /\ w # <<>>
            /\ \A i \in 1..Len(u) : w[i] = u[i]
            /\ f \in FrameSet /\ f.type = next /\ next \in {"body", "end"}
            /\ u = <<>> <=> Len(u) = 0
        BY <1>4, <1>5, <2>2, <3>3, <4>1, AppendAt, FrameSeqLen
      <4>3. /\ InTurn(u, hasBody[r]) /\ NotAfter(u, upload[r])
            /\ upload[r] = "body" => hasBody[r]
            /\ Has(u, "start") => machinePending[r] = "none"
            /\ machinePending[r] # "none" /\ u # <<>> =>
                 /\ u[1].type = "body" => machinePending[r] = "started"
                 /\ u[1].type = "end" => machinePending[r] = Asked(r)
            /\ upload[r] = "body" /\ u # <<>> => u[Len(u)].type = "body"
            /\ machinePending[r] # "none" /\ u = <<>> =>
                 /\ upload[r] = "start" => machinePending[r] = "started"
                 /\ upload[r] = "body" => machinePending[r] = "withBody"
            /\ machinePending[r] = "withBody" => hasBody[r]
        BY <1>2, <3>3, <4>1 DEF Upload
      <4>4. \A i \in 1..Len(u) :
               /\ u[i].type \in {"start", "body"}
               /\ upload[r] = "start" => u[i].type = "start"
        BY <3>1, <4>3 DEF NotAfter
      <4>6. InTurn(w, hasBody[r])
        <5>1. \A i \in 1..Len(u) : Before(u[i].type, f.type)
          BY <1>3, <3>1, <4>2, <4>4 DEF Before
        <5>2. hasBody[r] /\ f.type = "end" /\ u # <<>> => u[Len(u)].type = "body"
          BY <1>3, <3>1, <4>2, <4>3
        <5>3. f.type = "body" => hasBody[r]
          BY <1>3, <3>1, <4>2, <4>3
        <5>4. w = Append(u, f)
          BY <3>3, <4>1
        <5>. QED BY <1>2, <4>2, <4>1, <4>3, <5>1, <5>2, <5>3, <5>4, AppendKeeps
      <4>7. NotAfter(w, next)
        BY <1>3, <3>1, <4>2, <4>4 DEF NotAfter
      <4>8. Has(w, "start") => Has(u, "start")
        BY <4>2 DEF Has
      <4>9. w[1] = IF u = <<>> THEN f ELSE u[1]
        BY <4>2
      <4>10. w[Len(w)].type = next
        BY <4>2
      <4>11. Has(u, "start") => machinePending[r] = "none" /\ fetched[r] = "nothing"
        BY <3>1, <4>3
      <4>12. machinePending[r] # "none" =>
               /\ w[1].type = "body" => machinePending[r] = "started"
               /\ w[1].type = "end" => machinePending[r] = Asked(r)
        <5>1. CASE u = <<>>
          BY <1>3, <3>1, <4>2, <4>3, <4>9, <5>1 DEF Asked
        <5>2. CASE u # <<>>
          BY <4>3, <4>9, <5>2
        <5>. QED BY <5>1, <5>2
      <4>13. next = "body" => hasBody[r]
        BY <1>3, <3>1, <4>3
      <4>14. Asked(r)' = Asked(r)
        BY <1>9 DEF Asked
      <4>15. Upload(r)'
        BY <1>7, <1>9, <4>1, <4>2, <4>3, <4>6, <4>7, <4>8, <4>10, <4>11, <4>12, <4>13, <4>14
           DEF Upload
      <4>. QED BY <1>9, <3>1, <4>15 DEF Made
    <3>. QED BY <1>6, <2>2, <3>2, <3>3
  <2>. QED BY <2>1, <2>2
<1>12. Buffered(r)' /\ Streamed(r)'
  BY <1>6, <1>9, ResponseCut DEF MachineKept
<1>13. Request(r)'
  BY <1>10, <1>11, <1>12 DEF Request
<1>. QED BY <1>1, <1>6, <1>7, <1>8, <1>13, OneRequest

LEMMA OnUploadFails ==
  ASSUME HttpInv, NEW r \in Connections, UploadFails(r)
  PROVE  HttpInv'
<1>1. /\ Typed /\ cloudSocket \in {"closing", "replaced"}
      /\ UNCHANGED sockets /\ cloudSocket' = cloudSocket /\ machineSocket' = machineSocket
      /\ upload' = [upload EXCEPT ![r] = "none"] /\ timer' = [timer EXCEPT ![r] = FALSE]
      /\ pending' = [pending EXCEPT ![r] = FALSE]
      /\ reply' = [reply EXCEPT ![r] = IF @ = "waiting" THEN "failed" ELSE @]
      /\ kind' = kind /\ hasBody' = hasBody /\ active' = active /\ status' = status
      /\ body' = body /\ UNCHANGED machineVars /\ UNCHANGED upLink /\ UNCHANGED downLink
  BY DEF UploadFails, HttpInv, sockets
<1>2. Caller(r) /\ Machine(r) /\ Unmade(r)
  BY AtRequest
<1>3. /\ UpAt(r) /\ DownAt(r) /\ Up(r)' = Up(r) /\ Down(r)' = Down(r)
      /\ upQueue' = upQueue /\ downQueue' = downQueue
  BY <1>1, UpStays, DownStays
<1>4. CloudTyped' /\ CloudElsewhere(r)
  BY <1>1 DEF Typed, CloudTyped, CloudElsewhere, Uploads, Replies, Settled
<1>5. /\ MachineKept(r) /\ upload'[r] = "none" /\ timer'[r] = FALSE /\ pending'[r] = FALSE
      /\ reply'[r] = (IF reply[r] = "waiting" THEN "failed" ELSE reply[r])
      /\ active'[r] = active[r] /\ status'[r] = status[r] /\ body'[r] = body[r]
  BY <1>1, <1>3 DEF Typed, MachineKept, machineVars
<1>6. Caller(r)' /\ Machine(r)' /\ Unmade(r)'
  <2>1. Caller(r)'
    <3>1. reply'[r] # "waiting" /\ (reply'[r] \in {"streaming", "complete"} => reply'[r] = reply[r])
      BY <1>5
    <3>. QED BY <1>1, <1>2, <1>3, <1>5, <3>1 DEF Caller, MachineKept
  <2>2. Machine(r)'
    BY <1>2, <1>5 DEF Machine, MachineKept
  <2>3. Unmade(r)'
    BY <1>2, <1>3, <1>5 DEF Unmade, MachineKept
  <2>. QED BY <2>1, <2>2, <2>3
<1>7. Upload(r)' /\ Made(r)'
  BY <1>1, <1>3, <1>5, UploadCut DEF MachineKept
<1>8. Buffered(r)' /\ Streamed(r)'
  BY <1>1, <1>3, <1>5, ResponseCut DEF MachineKept
<1>9. Request(r)'
  BY <1>6, <1>7, <1>8 DEF Request
<1>. QED BY <1>1, <1>3, <1>4, <1>9, SidesKept, OneRequest

LEMMA Withdrawn ==
  ASSUME Typed, NEW r \in Connections, RemoveUpload(r)
  PROVE  /\ upload' \in [Connections -> Uploads]
         /\ \A q \in Connections \ {r} : upload'[q] = upload[q]
         /\ upload'[r] = (IF upQueue[r] = <<>> THEN upload[r] ELSE "none")
         /\ upQueue' = [upQueue EXCEPT ![r] = <<>>] /\ upQueue'[r] = <<>>
         /\ UNCHANGED upWire =>
              /\ UpAt(r)
              /\ \/ Up(r)' = Up(r) /\ upload'[r] = upload[r]
                 \/ Up(r)' = upWire[r] /\ upload'[r] = "none"
<1>1. /\ upload' \in [Connections -> Uploads]
      /\ \A q \in Connections \ {r} : upload'[q] = upload[q]
      /\ upload'[r] = (IF upQueue[r] = <<>> THEN upload[r] ELSE "none")
      /\ upQueue' = [upQueue EXCEPT ![r] = <<>>]
  BY DEF RemoveUpload, Typed, Uploads
<1>2. upQueue[r] = <<>> => Up(r) = upWire[r]
  BY UpTypes, Alone DEF Up
<1>3. UNCHANGED upWire => UpAt(r) /\ Up(r)' = upWire[r]
  BY <1>1, UpCut
<1>4. upQueue'[r] = <<>>
  BY <1>1 DEF Typed
<1>. QED BY <1>1, <1>2, <1>3, <1>4

\* The caller is told, and nothing of the response is kept.
Dismissed(r, answer) ==
  /\ timer'[r] = FALSE /\ pending'[r] = FALSE /\ active'[r] = FALSE
  /\ reply'[r] = answer /\ status'[r] = status[r] /\ body'[r] = body[r]

LEMMA Dismissal ==
  ASSUME HttpInv, NEW r \in Connections, NEW answer \in Settled \cup {"unused"},
         Dismissed(r, answer), MachineKept(r), Upload(r)' /\ Made(r)',
         cloudSocket # "closed",
         fetched[r] = "nothing" => Down(r)' = <<>>,
         kind[r] = "buffer" /\ answer = "complete" => Answer(status[r], body[r])
  PROVE  Request(r)'
<1>1. Caller(r) /\ Machine(r) /\ Unmade(r)
  BY AtRequest
<1>2. Caller(r)'
  BY <1>1 DEF Caller, Dismissed, MachineKept, Settled
<1>3. Machine(r)' /\ Unmade(r)'
  BY <1>1 DEF Machine, Unmade, Dismissed, MachineKept
<1>4. Buffered(r)' /\ Streamed(r)'
  <2>1. kind[r] = "buffer" /\ reply'[r] = "complete" => Answer(status[r], body[r])
    BY DEF Dismissed
  <2>. QED BY <2>1, ResponseOver DEF Dismissed, MachineKept
<1>. QED BY <1>2, <1>3, <1>4 DEF Request

LEMMA FailsTells ==
  ASSUME HttpInv, NEW r \in Connections
  PROVE  /\ Fails(r) \in Settled \cup {"unused"} /\ Fails(r) \in Replies
         /\ kind[r] = "buffer" /\ Fails(r) = "complete" => Answer(status[r], body[r])
<1>1. reply[r] \in Replies /\ Buffered(r)
  BY AtRequest
<1>. QED BY <1>1 DEF Fails, Replies, Settled, Buffered

LEMMA OnTimeout ==
  ASSUME HttpInv, NEW r \in Connections, Timeout(r)
  PROVE  HttpInv'
<1>1. /\ Typed /\ timer[r] /\ RemoveUpload(r) /\ UNCHANGED upWire /\ UNCHANGED downLink
      /\ UNCHANGED sockets /\ cloudSocket' = cloudSocket /\ machineSocket' = machineSocket
      /\ timer' = [timer EXCEPT ![r] = FALSE] /\ pending' = [pending EXCEPT ![r] = FALSE]
      /\ active' = [active EXCEPT ![r] = FALSE]
      /\ reply' = [reply EXCEPT ![r] = Fails(r)]
      /\ kind' = kind /\ hasBody' = hasBody /\ status' = status /\ body' = body
      /\ UNCHANGED machineVars
  BY DEF Timeout, HttpInv, sockets
<1>2. Caller(r) /\ Unmade(r)
  BY AtRequest
<1>3. /\ UpAt(r) /\ DownAt(r) /\ Down(r)' = Down(r) /\ downQueue' = downQueue
      /\ \/ Up(r)' = Up(r) /\ upload'[r] = upload[r]
         \/ Up(r)' = upWire[r] /\ upload'[r] = "none"
      /\ upload' \in [Connections -> Uploads]
      /\ \A q \in Connections \ {r} : upload'[q] = upload[q]
  BY <1>1, Withdrawn, DownStays
<1>4. CloudTyped' /\ CloudElsewhere(r)
  <2>1. Fails(r) \in Replies
    BY FailsTells
  <2>2. CloudTyped'
    BY <1>1, <1>3, <2>1 DEF Typed, CloudTyped
  <2>3. CloudElsewhere(r)
    BY <1>1, <1>3 DEF Typed, CloudElsewhere
  <2>. QED BY <2>2, <2>3
<1>5. PICK answer \in Settled \cup {"unused"} :
        /\ answer = Fails(r)
        /\ kind[r] = "buffer" /\ answer = "complete" => Answer(status[r], body[r])
  BY FailsTells
<1>6. Dismissed(r, answer) /\ MachineKept(r)
  BY <1>1, <1>3, <1>5 DEF Typed, Dismissed, MachineKept, machineVars
<1>7. Upload(r)' /\ Made(r)'
  BY <1>1, <1>3, <1>6, UploadCut DEF MachineKept
<1>8. cloudSocket # "closed"
  BY <1>1, <1>2 DEF Caller
<1>9. Request(r)'
  <2>1. fetched[r] = "nothing" => Down(r)' = <<>>
    BY <1>2, <1>3 DEF Unmade
  <2>. QED BY <1>5, <1>6, <1>7, <1>8, <2>1, Dismissal
<1>. QED BY <1>1, <1>3, <1>4, <1>9, SidesKept, OneRequest

LEMMA OnUploadOverflows ==
  ASSUME HttpInv, NEW r \in Connections, UploadOverflows(r)
  PROVE  HttpInv'
<1>1. /\ Typed /\ cloudSocket = "open" /\ upQueue[r] # <<>>
      /\ RemoveUpload(r) /\ UNCHANGED downLink
      /\ upWire' = (IF cloudSocket = "open"
                    THEN [upWire EXCEPT ![r] = Append(@, CloseFrame)] ELSE upWire)
      /\ UNCHANGED sockets /\ cloudSocket' = cloudSocket /\ machineSocket' = machineSocket
      /\ timer' = [timer EXCEPT ![r] = FALSE] /\ pending' = [pending EXCEPT ![r] = FALSE]
      /\ active' = [active EXCEPT ![r] = FALSE]
      /\ reply' = [reply EXCEPT ![r] = Fails(r)]
      /\ kind' = kind /\ hasBody' = hasBody /\ status' = status /\ body' = body
      /\ UNCHANGED machineVars
  BY DEF UploadOverflows, CloseForOverload, HttpInv, sockets
<1>2. Unmade(r)
  BY AtRequest
<1>3. /\ DownAt(r) /\ Down(r)' = Down(r) /\ downQueue' = downQueue
      /\ upload'[r] = "none" /\ upload' \in [Connections -> Uploads]
      /\ \A q \in Connections \ {r} : upload'[q] = upload[q]
      /\ upQueue' = [upQueue EXCEPT ![r] = <<>>]
  BY <1>1, Withdrawn, DownStays
<1>4. UpAt(r) /\ Up(r)' = Append(upWire[r], CloseFrame)
  BY <1>1, <1>3, UpOverflown
<1>5. CloudTyped' /\ CloudElsewhere(r)
  BY <1>1, <1>3, FailsTells DEF Typed, CloudTyped, CloudElsewhere
<1>6. PICK answer \in Settled \cup {"unused"} :
        /\ answer = Fails(r)
        /\ kind[r] = "buffer" /\ answer = "complete" => Answer(status[r], body[r])
  BY FailsTells
<1>7. Dismissed(r, answer) /\ MachineKept(r)
  BY <1>1, <1>3, <1>6 DEF Typed, Dismissed, MachineKept, machineVars
<1>8. Upload(r)' /\ Made(r)'
  BY <1>1, <1>3, <1>4, <1>7, UploadCut DEF MachineKept
<1>9. Request(r)'
  <2>1. fetched[r] = "nothing" => Down(r)' = <<>>
    BY <1>2, <1>3 DEF Unmade
  <2>. QED BY <1>1, <1>6, <1>7, <1>8, <2>1, Dismissal
<1>. QED BY <1>1, <1>3, <1>4, <1>5, <1>9, SidesKept, OneRequest

\* A close that overtakes the queue comes after nothing but closes.
LEMMA CloseOvertakes ==
  ASSUME NEW w \in FrameSeqs, NEW q \in FrameSeqs, OnlyCloses(w \o q)
  PROVE  OnlyCloses(Append(w, CloseFrame)) /\ OnlyCloses(Append(w, CloseFrame) \o q)
<1>. DEFINE v == Append(w, CloseFrame)
<1>1. OnlyCloses(w) /\ OnlyCloses(q)
  BY Segments, SegmentKeeps
<1>2. v \in FrameSeqs /\ OnlyCloses(v)
  BY <1>1, CloseType, AppendAt, AppendKeeps
<1>. HIDE DEF v
<1>3. OnlyCloses(v \o q)
  <2>1. SUFFICES ASSUME NEW i \in 1..Len(v \o q) PROVE (v \o q)[i].type = "close"
    BY DEF OnlyCloses
  <2>2. /\ Len(v) \in Nat /\ Len(q) \in Nat /\ Len(v \o q) = Len(v) + Len(q)
        /\ (v \o q)[i] = IF i <= Len(v) THEN v[i] ELSE q[i - Len(v)]
    BY <1>2, ConcatAt
  <2>3. CASE i <= Len(v)
    BY <1>2, <2>2, <2>3 DEF OnlyCloses
  <2>4. CASE ~ (i <= Len(v))
    <3>1. i - Len(v) \in 1..Len(q)
      BY <2>2, <2>4
    <3>. QED BY <1>1, <2>2, <2>4, <3>1 DEF OnlyCloses
  <2>. QED BY <2>3, <2>4
<1>. QED BY <1>2, <1>3 DEF v

LEMMA OnReceiveBodyOverloads ==
  ASSUME HttpInv, NEW r \in Connections, ReceiveBodyOverloads(r)
  PROVE  HttpInv'
<1>1. /\ Typed /\ cloudSocket # "closed" /\ active[r] /\ downWire[r] # <<>>
      /\ Arrives(r, downWire) /\ UNCHANGED downQueue /\ UNCHANGED upQueue
      /\ upWire' = (IF cloudSocket = "open"
                    THEN [upWire EXCEPT ![r] = Append(@, CloseFrame)] ELSE upWire)
      /\ UNCHANGED sockets /\ cloudSocket' = cloudSocket /\ machineSocket' = machineSocket
      /\ timer' = [timer EXCEPT ![r] = FALSE] /\ pending' = [pending EXCEPT ![r] = FALSE]
      /\ active' = [active EXCEPT ![r] = FALSE]
      /\ reply' = [reply EXCEPT ![r] = Fails(r)]
      /\ kind' = kind /\ hasBody' = hasBody /\ status' = status /\ body' = body
      /\ upload' = upload /\ UNCHANGED machineVars
  BY DEF ReceiveBodyOverloads, CloudReceives, Arriving, CloseForOverload, HttpInv, sockets
<1>2. /\ Unmade(r) /\ Made(r) /\ upWire[r] \in FrameSeqs /\ upQueue[r] \in FrameSeqs
  BY AtRequest
<1>3. DownAt(r)
  BY <1>1, DownArrives
<1>4. /\ UpAt(r)
      /\ cloudSocket = "open" => Up(r)' = Append(upWire[r], CloseFrame) \o upQueue[r]
      /\ cloudSocket # "open" => Up(r)' = Up(r)
  BY <1>1, UpOvertaken
<1>5. CloudTyped' /\ CloudElsewhere(r)
  BY <1>1, FailsTells DEF Typed, CloudTyped, CloudElsewhere
<1>6. PICK answer \in Settled \cup {"unused"} :
        /\ answer = Fails(r)
        /\ kind[r] = "buffer" /\ answer = "complete" => Answer(status[r], body[r])
  BY FailsTells
<1>7. Dismissed(r, answer) /\ MachineKept(r)
  BY <1>1, <1>6 DEF Typed, Dismissed, MachineKept, machineVars
<1>8. fetched[r] # "nothing" /\ upload[r] \in {"none", "end"} /\ machinePending[r] = "none"
  BY <1>1, <1>2 DEF Unmade, Made
<1>9. OnlyCloses(Up(r)')
  <2>1. OnlyCloses(upWire[r] \o upQueue[r])
    BY <1>2, <1>8 DEF Made, Up
  <2>2. OnlyCloses(Append(upWire[r], CloseFrame) \o upQueue[r])
    BY <1>2, <2>1, CloseOvertakes
  <2>. QED BY <1>2, <1>4, <1>8, <2>2 DEF Made
<1>10. Upload(r)' /\ Made(r)'
  BY <1>1, <1>7, <1>8, <1>9, UploadMade DEF MachineKept
<1>11. Request(r)'
  BY <1>1, <1>6, <1>7, <1>8, <1>10, Dismissal
<1>. QED BY <1>1, <1>3, <1>4, <1>5, <1>11, SidesKept, OneRequest

LEMMA OnCancel ==
  ASSUME HttpInv, NEW r \in Connections, Cancel(r)
  PROVE  HttpInv'
<1>1. /\ Typed /\ reply[r] = "streaming" /\ RemoveUpload(r) /\ UNCHANGED downLink
      /\ \/ UNCHANGED upWire
         \/ /\ cloudSocket = "open" /\ upQueue = Quiet
            /\ upWire' = [upWire EXCEPT ![r] = Append(@, CloseFrame)]
      /\ UNCHANGED sockets /\ cloudSocket' = cloudSocket /\ machineSocket' = machineSocket
      /\ reply' = [reply EXCEPT ![r] = "cancelled"]
      /\ active' = [active EXCEPT ![r] = FALSE]
      /\ kind' = kind /\ hasBody' = hasBody /\ pending' = pending /\ timer' = timer
      /\ status' = status /\ body' = body /\ UNCHANGED machineVars
  BY DEF Cancel, HttpInv, sockets
<1>2. /\ Caller(r) /\ Unmade(r) /\ Made(r) /\ upWire[r] \in FrameSeqs /\ upQueue[r] \in FrameSeqs
      /\ timer[r] \in BOOLEAN /\ pending[r] \in BOOLEAN
  BY AtRequest
<1>3. /\ active[r] /\ pending[r] = FALSE /\ timer[r] = FALSE /\ cloudSocket # "closed"
      /\ fetched[r] # "nothing" /\ upload[r] \in {"none", "end"} /\ machinePending[r] = "none"
      /\ OnlyCloses(Up(r))
  BY <1>1, <1>2 DEF Caller, Unmade, Made
<1>4. /\ DownAt(r) /\ downQueue' = downQueue
      /\ upload'[r] = (IF upQueue[r] = <<>> THEN upload[r] ELSE "none")
      /\ upload' \in [Connections -> Uploads]
      /\ \A q \in Connections \ {r} : upload'[q] = upload[q]
      /\ upQueue' = [upQueue EXCEPT ![r] = <<>>]
  BY <1>1, Withdrawn, DownStays
<1>5. UpAt(r) /\ OnlyCloses(Up(r)')
  <2>1. CASE UNCHANGED upWire
    <3>1. UpAt(r) /\ Up(r)' = upWire[r]
      BY <1>1, <1>4, <2>1, UpCut
    <3>2. OnlyCloses(upWire[r])
      BY <1>2, <1>3, Segments, SegmentKeeps DEF Up
    <3>. QED BY <3>1, <3>2
  <2>2. CASE cloudSocket = "open" /\ upWire' = [upWire EXCEPT ![r] = Append(@, CloseFrame)]
    <3>1. UpAt(r) /\ Up(r)' = Append(upWire[r], CloseFrame)
      BY <1>1, <1>4, <2>2, UpOverflown
    <3>2. OnlyCloses(upWire[r] \o upQueue[r])
      BY <1>3 DEF Up
    <3>. QED BY <1>2, <3>1, <3>2, CloseOvertakes
  <2>. QED BY <1>1, <2>1, <2>2
<1>6. CloudTyped' /\ CloudElsewhere(r)
  BY <1>1, <1>4 DEF Typed, CloudTyped, CloudElsewhere, Replies, Settled
<1>7. Dismissed(r, "cancelled") /\ MachineKept(r)
  BY <1>1, <1>3, <1>4 DEF Typed, Dismissed, MachineKept, machineVars, downLink
<1>8. Upload(r)' /\ Made(r)'
  BY <1>1, <1>3, <1>4, <1>5, <1>7, UploadMade DEF MachineKept
<1>9. Request(r)'
  <2>1. "cancelled" \in Settled \cup {"unused"}
    BY DEF Settled
  <2>. QED BY <1>3, <1>7, <1>8, <2>1, Dismissal
<1>. QED BY <1>1, <1>4, <1>5, <1>6, <1>9, SidesKept, OneRequest

CloudSame(r) ==
  /\ pending'[r] = pending[r] /\ timer'[r] = timer[r] /\ active'[r] = active[r]
  /\ reply'[r] = reply[r] /\ status'[r] = status[r] /\ body'[r] = body[r]

\* A frame that the cloud takes no notice of.
LEMMA ResponseIgnored ==
  ASSUME HttpInv, NEW r \in Connections, CloudSame(r), MachineKept(r),
         Down(r) # <<>>, Down(r)' = Tail(Down(r)), NEW f, f = Down(r)[1],
         \/ f.type = "close"
         \/ cloudSocket \notin {"open", "closing"}
         \/ f.type = "start" /\ ~ pending[r]
         \/ f.type \in {"body", "end"} /\ ~ active[r]
  PROVE  Buffered(r)' /\ Streamed(r)'
<1>1. /\ Caller(r) /\ Buffered(r) /\ Streamed(r) /\ Down(r) \in FrameSeqs
      /\ Stage(r) \in Nat /\ produced[r] \in Nat /\ Len(body[r]) \in Nat
  BY AtRequest
<1>2. Stage(r)' = Stage(r)
  BY DEF Stage, CloudSame
<1>3. PICK u \in FrameSeqs, k \in Nat : u = Down(r) /\ k = Stage(r)
  BY <1>1
<1>h. PICK h : h = handler[r]
  OBVIOUS
<1>4. Segment(Tail(u), u, 1) /\ u # <<>>
  BY <1>3, <1>h, Segments
<1>5. \A s : ClosesLast(u, s) => ClosesLast(Tail(u), s)
  BY <1>4, SegmentKeeps
<1>6. (~ active[r] => k = 0) /\ (active[r] => k # 0)
  BY <1>1, <1>3, <1>h DEF Stage
<1>7. Buffered(r)'
  <2>1. SUFFICES ASSUME kind[r] = "buffer", pending[r]
                 PROVE  /\ ClosesLast(Tail(u), h)
                        /\ BufferFrames(Tail(u), k, status[r])
                        /\ machineSocket = "open" => BufferSender(Tail(u), k, status[r], h)
    BY <1>1, <1>2, <1>3, <1>h DEF Buffered, CloudSame, MachineKept
  <2>2. /\ ClosesLast(u, h) /\ BufferFrames(u, k, status[r])
        /\ cloudSocket \in {"open", "closing"}
    BY <1>1, <1>3, <1>h, <2>1 DEF Buffered, Caller
  <2>3. CASE f.type = "close"
    <3>1. OnlyCloses(u) /\ h = "none"
      BY <1>3, <1>h, <1>4, <2>2, <2>3, CloseEnds
    <3>2. BufferFrames(Tail(u), k, status[r])
      BY <1>4, <2>2, <3>1, BufferTail
    <3>. QED BY <1>5, <2>2, <3>1, <3>2 DEF BufferSender
  <2>4. CASE f.type \in {"body", "end"} /\ ~ active[r]
    <3>1. f.type = "body" => k = 1
      BY <1>3, <1>h, <1>4, <2>2, BufferTail
    <3>2. f.type = "end" => k = 2
      BY <1>3, <1>h, <1>4, <2>2, BufferTail
    <3>. QED BY <1>6, <2>4, <3>1, <3>2
  <2>. QED BY <2>1, <2>2, <2>3, <2>4
<1>8. Streamed(r)'
  <2>. DEFINE told == active[r] /\ Told(body[r])
  <2>1. kind[r] = "stream" => /\ Chunks(body[r]) <= produced[r]
                              /\ \A i \in 1..Chunks(body[r]) : body[r][i] = i
    BY <1>1 DEF Streamed
  <2>2. PICK t : t = told
    OBVIOUS
  <2>3. SUFFICES ASSUME kind[r] = "stream", pending[r] \/ active[r],
                        cloudSocket \in {"open", "closing"}
                 PROVE  /\ ClosesLast(Tail(u), h)
                        /\ StreamFrames(Tail(u), k, t, produced[r])
                        /\ machineSocket = "open" => StreamSender(Tail(u), k, t, produced[r], h)
    BY <1>2, <1>3, <1>h, <2>1, <2>2 DEF Streamed, CloudSame, MachineKept
  <2>4. /\ ClosesLast(u, h) /\ StreamFrames(u, k, t, produced[r])
        /\ machineSocket = "open" => StreamSender(u, k, t, produced[r], h)
    BY <1>1, <1>3, <1>h, <2>2, <2>3 DEF Streamed
  <2>. HIDE DEF told
  <2>5. /\ IsOkStart(u[1]) => k = 0
        /\ IsChunk(u[1]) => u[1].n = k
    BY <1>1, <1>4, <2>4, StreamTail
  <2>6. ~ IsOkStart(u[1]) /\ ~ IsChunk(u[1])
    <3>1. CASE f.type = "close"
      BY <1>3, <1>h, <3>1 DEF IsOkStart, IsChunk
    <3>2. CASE f.type = "start" /\ ~ pending[r]
      BY <1>3, <1>h, <1>6, <2>3, <2>5, <3>2 DEF IsChunk
    <3>3. CASE f.type \in {"body", "end"} /\ ~ active[r]
      BY <1>3, <1>h, <1>6, <2>5, <3>3 DEF IsOkStart, IsChunk, ErrorBody
    <3>. QED BY <2>3, <3>1, <3>2, <3>3
  <2>7. StreamFrames(Tail(u), k, t, produced[r])
    BY <1>1, <1>4, <2>4, <2>6, StreamTail
  <2>8. machineSocket = "open" => StreamSender(Tail(u), k, t, produced[r], h)
    BY <1>1, <1>4, <2>4, <2>6, StreamSenderTail
  <2>. QED BY <1>5, <2>4, <2>7, <2>8
<1>. QED BY <1>7, <1>8

\* A frame of the response arrives.
LEMMA Received ==
  ASSUME HttpInv, NEW r \in Connections, NEW type, CloudReceives(r, type), UNCHANGED downQueue,
         UNCHANGED sockets, UNCHANGED machineVars, kind' = kind, hasBody' = hasBody
  PROVE  /\ Typed /\ cloudSocket # "closed" /\ DownAt(r) /\ MachineKept(r)
         /\ Down(r) # <<>> /\ Down(r)' = Tail(Down(r)) /\ Down(r) \in FrameSeqs
         /\ Head(downWire[r]) = Down(r)[1] /\ Down(r)[1] \in FrameSet /\ Down(r)[1].type = type
         /\ fetched[r] # "nothing" /\ Machine(r)' /\ Unmade(r)'
<1>1. /\ Typed /\ cloudSocket # "closed" /\ downWire[r] # <<>>
      /\ Head(downWire[r]).type = type /\ Arrives(r, downWire)
  BY DEF HttpInv, CloudReceives, Arriving
<1>2. Down(r) \in FrameSeqs /\ Unmade(r) /\ Machine(r)
  BY AtRequest
<1>3. /\ DownAt(r) /\ Down(r) # <<>> /\ Down(r)' = Tail(Down(r))
      /\ Head(Down(r)) = Head(downWire[r]) /\ Head(downWire[r]) \in FrameSet
  BY <1>1, DownArrives
<1>4. Head(Down(r)) = Down(r)[1]
  BY <1>2, <1>3, TailAt
<1>5. MachineKept(r)
  BY DEF MachineKept, machineVars, sockets
<1>6. fetched[r] # "nothing"
  BY <1>2, <1>3 DEF Unmade
<1>7. Machine(r)' /\ Unmade(r)'
  BY <1>2, <1>5, <1>6 DEF Machine, Unmade, MachineKept
<1>. QED BY <1>1, <1>2, <1>3, <1>4, <1>5, <1>6, <1>7

LEMMA OnReceiveClose ==
  ASSUME HttpInv, NEW r \in Connections, ReceiveClose(r)
  PROVE  HttpInv'
<1>1. /\ CloudReceives(r, "close") /\ UNCHANGED downQueue /\ UNCHANGED sockets
      /\ UNCHANGED machineVars /\ UNCHANGED cloudVars /\ UNCHANGED upLink
      /\ kind' = kind /\ hasBody' = hasBody
  BY DEF ReceiveClose, cloudVars
<1>2. /\ Typed /\ cloudSocket # "closed" /\ DownAt(r) /\ MachineKept(r)
      /\ Down(r) # <<>> /\ Down(r)' = Tail(Down(r)) /\ Down(r)[1].type = "close"
      /\ Machine(r)' /\ Unmade(r)'
  BY <1>1, Received
<1>3. UpAt(r) /\ Up(r)' = Up(r) /\ Caller(r)
  BY <1>1, <1>2, UpStays, AtRequest
<1>4. CloudSame(r) /\ upload'[r] = upload[r]
  BY <1>1 DEF cloudVars, CloudSame
<1>5. Upload(r)' /\ Made(r)'
  BY <1>2, <1>3, <1>4, UploadCut DEF MachineKept
<1>6. Caller(r)'
  BY <1>2, <1>3, <1>4 DEF Caller, CloudSame, MachineKept
<1>7. Buffered(r)' /\ Streamed(r)'
  BY <1>2, <1>4, ResponseIgnored
<1>8. Request(r)'
  BY <1>2, <1>5, <1>6, <1>7 DEF Request
<1>. QED BY <1>1, <1>2, <1>3, <1>8, SidesKept, OneRequest

LEMMA OnReceiveStart ==
  ASSUME HttpInv, NEW r \in Connections, ReceiveStart(r)
  PROVE  HttpInv'
<1>. DEFINE known == Handled /\ pending[r]
            opens == known /\ kind[r] = "stream"
<1>1. /\ CloudReceives(r, "start") /\ UNCHANGED downQueue /\ UNCHANGED sockets
      /\ UNCHANGED machineVars /\ UNCHANGED upLink /\ upload' = upload
      /\ kind' = kind /\ hasBody' = hasBody
      /\ active' = [active EXCEPT ![r] = @ \/ known]
      /\ status' = [status EXCEPT ![r] = IF known THEN Head(downWire[r]).n ELSE @]
      /\ body' = [body EXCEPT ![r] = IF known THEN <<>> ELSE @]
      /\ timer' = [timer EXCEPT ![r] = @ /\ ~ opens]
      /\ pending' = [pending EXCEPT ![r] = @ /\ ~ opens]
      /\ reply' = [reply EXCEPT ![r] = IF opens THEN "streaming" ELSE @]
  BY DEF ReceiveStart
<1>2. /\ Typed /\ cloudSocket # "closed" /\ DownAt(r) /\ MachineKept(r)
      /\ Down(r) # <<>> /\ Down(r)' = Tail(Down(r)) /\ Down(r) \in FrameSeqs
      /\ Head(downWire[r]) = Down(r)[1] /\ Down(r)[1] \in FrameSet /\ Down(r)[1].type = "start"
      /\ Machine(r)' /\ Unmade(r)'
  BY <1>1, Received
<1>3. /\ Caller(r) /\ Buffered(r) /\ Streamed(r) /\ kind[r] \in {"buffer", "stream"}
      /\ Stage(r) \in Nat /\ produced[r] \in Nat /\ Len(body[r]) \in Nat
      /\ active[r] \in BOOLEAN /\ pending[r] \in BOOLEAN /\ timer[r] \in BOOLEAN
      /\ cloudSocket \in {"open", "closing", "replaced", "closed"}
  BY AtRequest DEF Typed
<1>4. UpAt(r) /\ Up(r)' = Up(r) /\ upQueue' = upQueue
  BY <1>1, <1>2, UpStays
<1>5. PICK f \in FrameSet : f = Down(r)[1] /\ f = Head(downWire[r]) /\ f.n \in {200, 502}
  BY <1>2 DEF FrameSet
<1>6. <<>> \in ChunkSeqs /\ Len(<<>>) = 0
  BY FrameTypes, NoFrame
<1>7. CloudTyped' /\ CloudElsewhere(r)
  <2>1. /\ active' \in [Connections -> BOOLEAN] /\ timer' \in [Connections -> BOOLEAN]
        /\ pending' \in [Connections -> BOOLEAN]
    BY <1>1, <1>2 DEF Typed
  <2>2. /\ status' \in [Connections -> {0, 200, 502}] /\ body' \in [Connections -> ChunkSeqs]
        /\ reply' \in [Connections -> Replies]
    BY <1>1, <1>2, <1>5, <1>6 DEF Typed, Replies
  <2>3. CloudTyped'
    BY <1>1, <1>2, <2>1, <2>2 DEF Typed, CloudTyped
  <2>4. CloudElsewhere(r)
    BY <1>1, <1>2 DEF Typed, CloudElsewhere
  <2>. QED BY <2>3, <2>4
<1>8. /\ upload'[r] = upload[r]
      /\ ~ known => CloudSame(r)
      /\ known => /\ active'[r] = TRUE /\ status'[r] = f.n /\ body'[r] = <<>>
                  /\ pending[r] /\ Handled
      /\ known /\ kind[r] = "buffer" =>
           timer'[r] = timer[r] /\ pending'[r] = pending[r] /\ reply'[r] = reply[r]
      /\ known /\ kind[r] = "stream" =>
           timer'[r] = FALSE /\ pending'[r] = FALSE /\ reply'[r] = "streaming"
  <2>1. /\ upload'[r] = upload[r]
        /\ active'[r] = (active[r] \/ known)
        /\ status'[r] = (IF known THEN Head(downWire[r]).n ELSE status[r])
        /\ body'[r] = (IF known THEN <<>> ELSE body[r])
        /\ timer'[r] = (timer[r] /\ ~ opens) /\ pending'[r] = (pending[r] /\ ~ opens)
        /\ reply'[r] = (IF opens THEN "streaming" ELSE reply[r])
    BY <1>1, <1>2 DEF Typed
  <2>2. CASE ~ known
    <3>1. ~ opens
      BY <2>2
    <3>. HIDE DEF known, opens
    <3>. QED BY <1>3, <2>1, <2>2, <3>1 DEF CloudSame
  <2>3. CASE known
    <3>1. pending[r] /\ Handled /\ (opens <=> kind[r] = "stream")
      BY <2>3
    <3>. HIDE DEF known, opens
    <3>. QED BY ZenonT(60), <1>3, <1>5, <2>1, <2>3, <3>1
  <2>. QED BY <2>2, <2>3
<1>. HIDE DEF known, opens
<1>9. Upload(r)' /\ Made(r)'
  BY <1>2, <1>4, <1>8, UploadCut DEF MachineKept
<1>10. known => ~ active[r] \/ kind[r] = "buffer"
  BY <1>3, <1>8 DEF Caller
<1>11. CASE ~ known
  <2>1. CloudSame(r)
    BY <1>8, <1>11
  <2>2. Caller(r)'
    BY <1>2, <1>3, <1>4, <2>1 DEF Caller, CloudSame, MachineKept
  <2>3. cloudSocket \notin {"open", "closing"} \/ ~ pending[r]
    BY <1>11 DEF known, Handled
  <2>4. Buffered(r)' /\ Streamed(r)'
    BY ZenonT(60), <1>2, <1>5, <2>1, <2>3, ResponseIgnored
  <2>. QED BY <1>1, <1>2, <1>4, <1>7, <1>9, <2>2, <2>4, SidesKept, OneRequest DEF Request
<1>12. CASE known /\ kind[r] = "buffer"
  <2>h. PICK h : h = handler[r]
    OBVIOUS
  <2>1. PICK u \in FrameSeqs, k \in Nat : u = Down(r) /\ k = Stage(r)
    BY <1>2, <1>3
  <2>2. /\ ClosesLast(u, h) /\ BufferFrames(u, k, status[r]) /\ u # <<>> /\ u[1] = f
        /\ machineSocket = "open" => BufferSender(u, k, status[r], h)
    BY ZenonT(60), <1>2, <1>3, <1>5, <1>8, <1>12, <2>h, <2>1 DEF Buffered
  <2>3. k = 0 /\ BufferFrames(Tail(u), 1, u[1].n)
    BY <1>2, <1>5, <2>2, BufferTail
  <2>4. machineSocket = "open" => BufferSender(Tail(u), 1, u[1].n, h)
    BY <2>2, <2>3, SenderTail
  <2>5. ClosesLast(Tail(u), h)
    BY <2>2, Segments, SegmentKeeps
  <2>6. Stage(r)' = 1
    BY <1>6, <1>8, <1>12 DEF Stage
  <2>7. reply[r] = "waiting"
    BY <1>3, <1>8, <1>12 DEF Caller
  <2>8. Buffered(r)' /\ Streamed(r)'
    BY <1>2, <1>5, <1>8, <1>12, <2>h, <2>1, <2>2, <2>3, <2>4, <2>5, <2>6, <2>7
       DEF Buffered, Streamed, MachineKept
  <2>9. Caller(r)'
    BY <1>2, <1>3, <1>4, <1>8, <1>12, <2>7 DEF Caller, MachineKept
  <2>. QED BY <1>1, <1>2, <1>4, <1>7, <1>9, <2>8, <2>9, SidesKept, OneRequest DEF Request
<1>13. CASE known /\ kind[r] = "stream"
  <2>. PICK k \in Nat, n \in Nat : k = 0 /\ n = 1
    OBVIOUS
  <2>. PICK t : t = FALSE
    OBVIOUS
  <2>. PICK h : h = handler[r]
    OBVIOUS
  <2>. PICK u \in FrameSeqs : u = Down(r)
    BY <1>2
  <2>1. u = Down(r) /\ h = handler[r] /\ t = FALSE /\ k = 0 /\ n = 1 /\ n = k + 1
    OBVIOUS
  <2>2. ~ active[r] /\ Stage(r) = k /\ cloudSocket \in {"open", "closing"} /\ pending[r]
    BY <1>2, <1>3, <1>8, <1>13, <2>1 DEF Caller, Stage, Handled
  <2>3. /\ ClosesLast(u, h) /\ StreamFrames(u, k, t, produced[r]) /\ u # <<>>
        /\ machineSocket = "open" => StreamSender(u, k, t, produced[r], h)
    <3>1. (active[r] /\ Told(body[r])) = t
      BY <2>1, <2>2
    <3>. QED BY <1>2, <1>3, <1>13, <2>1, <2>2, <3>1 DEF Streamed
  <2>4. StreamFrames(Tail(u), n, t, produced[r])
    <3>1. StreamFrames(Tail(u), k + 1, t, produced[r])
      BY <1>3, <2>3, StreamTail
    <3>. QED BY <2>1, <3>1
  <2>5. machineSocket = "open" => StreamSender(Tail(u), n, t, produced[r], h)
    <3>1. machineSocket = "open" => StreamSender(Tail(u), k + 1, t, produced[r], h)
      BY <1>3, <2>3, StreamSenderTail
    <3>. QED BY <2>1, <3>1
  <2>6. ClosesLast(Tail(u), h)
    BY <2>3, Segments, SegmentKeeps
  <2>7. /\ Stage(r)' = n /\ Chunks(body'[r]) = 0 /\ ~ Told(body'[r])
    BY <1>6, <1>8, <1>13, <2>1 DEF Stage, Chunks, Told
  <2>8. (active'[r] /\ Told(body'[r])) = t
    BY <2>1, <2>7
  <2>9. Streamed(r)'
    <3>1. /\ Chunks(body'[r]) <= produced'[r]
          /\ \A i \in 1..Chunks(body'[r]) : body'[r][i] = i
      BY <1>2, <1>3, <2>7 DEF MachineKept
    <3>. QED BY <1>2, <2>1, <2>4, <2>5, <2>6, <2>7, <2>8, <3>1 DEF Streamed, MachineKept
  <2>10. Buffered(r)'
    BY <1>2, <1>13 DEF Buffered, MachineKept
  <2>11. Caller(r)'
    BY <1>2, <1>3, <1>4, <1>8, <1>13 DEF Caller, MachineKept
  <2>. QED BY <1>1, <1>2, <1>4, <1>7, <1>9, <2>9, <2>10, <2>11, SidesKept, OneRequest DEF Request
<1>. QED BY <1>3, <1>11, <1>12, <1>13

LEMMA NoChunk ==
  ASSUME NEW b \in ChunkSeqs
  PROVE  Len(b) \in Nat /\ (b = <<>> <=> Len(b) = 0)
BY LenProperties, EmptySeq DEF ChunkSeqs

\* What a streamed response has passed on, with another chunk or an error.
LEMMA PassedOn ==
  ASSUME NEW b \in ChunkSeqs, ~ Told(b), NEW n \in 0..MaxChunks \cup {1}
  PROVE  /\ Append(b, n) \in ChunkSeqs /\ Len(Append(b, n)) = Len(b) + 1 /\ Len(b) \in Nat
         /\ Chunks(b) = Len(b)
         /\ n = ErrorBody => Told(Append(b, n)) /\ Chunks(Append(b, n)) = Len(b)
         /\ n # ErrorBody => ~ Told(Append(b, n)) /\ Chunks(Append(b, n)) = Len(b) + 1
         /\ \A i \in 1..Len(b) : Append(b, n)[i] = b[i]
         /\ Append(b, n)[Len(b) + 1] = n
<1>. DEFINE c == Append(b, n)
<1>1. /\ c \in ChunkSeqs /\ Len(c) = Len(b) + 1 /\ Len(b) \in Nat /\ c # <<>>
      /\ \A i \in 1..Len(b) : c[i] = b[i]
      /\ c[Len(b) + 1] = n
  <2>1. b \in Seq(0..MaxChunks \cup {1})
    BY DEF ChunkSeqs
  <2>2. c \in Seq(0..MaxChunks \cup {1})
    BY <2>1, AppendProperties
  <2>5. c # <<>>
    BY <2>1, AppendProperties
  <2>3. /\ Len(c) = Len(b) + 1 /\ c[Len(b) + 1] = n
        /\ \A i \in 1..Len(b) : c[i] = b[i]
    BY <2>1, AppendProperties
  <2>4. Len(b) \in Nat
    BY <2>1, LenProperties
  <2>. QED BY <2>2, <2>3, <2>4, <2>5 DEF ChunkSeqs
<1>. HIDE DEF c
<1>2. c[Len(c)] = n
  BY <1>1
<1>3. Told(c) <=> n = ErrorBody
  BY <1>1, <1>2 DEF Told
<1>4. /\ Chunks(b) = Len(b)
      /\ n = ErrorBody => Chunks(c) = Len(b)
      /\ n # ErrorBody => Chunks(c) = Len(b) + 1
  BY <1>1, <1>3 DEF Chunks
<1>. QED BY <1>1, <1>3, <1>4 DEF c

LEMMA OnReceiveBody ==
  ASSUME HttpInv, NEW r \in Connections, ReceiveBody(r)
  PROVE  HttpInv'
<1>. DEFINE taken == Handled /\ active[r]
<1>1. /\ CloudReceives(r, "body") /\ UNCHANGED downQueue /\ UNCHANGED sockets
      /\ UNCHANGED machineVars /\ UNCHANGED upLink /\ upload' = upload
      /\ kind' = kind /\ hasBody' = hasBody /\ pending' = pending /\ timer' = timer
      /\ active' = active /\ reply' = reply /\ status' = status
      /\ body' = [body EXCEPT ![r] = IF taken THEN Append(@, Head(downWire[r]).n) ELSE @]
  BY DEF ReceiveBody
<1>2. /\ Typed /\ cloudSocket # "closed" /\ DownAt(r) /\ MachineKept(r)
      /\ Down(r) # <<>> /\ Down(r)' = Tail(Down(r)) /\ Down(r) \in FrameSeqs
      /\ Head(downWire[r]) = Down(r)[1] /\ Down(r)[1] \in FrameSet /\ Down(r)[1].type = "body"
      /\ Machine(r)' /\ Unmade(r)'
  BY <1>1, Received
<1>3. /\ Caller(r) /\ Buffered(r) /\ Streamed(r) /\ kind[r] \in {"buffer", "stream"}
      /\ Stage(r) \in Nat /\ produced[r] \in Nat /\ Len(body[r]) \in Nat
      /\ body[r] \in ChunkSeqs
      /\ cloudSocket \in {"open", "closing", "replaced", "closed"}
  BY AtRequest DEF Typed
<1>4. UpAt(r) /\ Up(r)' = Up(r) /\ upQueue' = upQueue
  BY <1>1, <1>2, UpStays
<1>15. PICK f \in FrameSet : f = Down(r)[1]
  BY <1>2
<1>16. PICK n \in 0..MaxChunks \cup {1} : n = f.n
  BY <1>2, <1>15 DEF FrameSet
<1>5. f = Down(r)[1] /\ f = Head(downWire[r]) /\ f.type = "body" /\ n = f.n
  BY <1>2, <1>15, <1>16
<1>6. body' = [body EXCEPT ![r] = IF taken THEN Append(@, n) ELSE @]
  BY <1>1, <1>5
<1>7. CloudTyped' /\ CloudElsewhere(r)
  <2>1. Append(body[r], n) \in ChunkSeqs
    BY <1>3, AppendProperties DEF ChunkSeqs
  <2>2. body' \in [Connections -> ChunkSeqs]
    BY <1>2, <1>6, <2>1 DEF Typed
  <2>3. CloudTyped'
    BY <1>1, <1>2, <2>2 DEF Typed, CloudTyped
  <2>4. CloudElsewhere(r)
    BY <1>1, <1>2 DEF Typed, CloudElsewhere
  <2>. QED BY <2>3, <2>4
<1>8. /\ upload'[r] = upload[r] /\ pending'[r] = pending[r] /\ timer'[r] = timer[r]
      /\ active'[r] = active[r] /\ reply'[r] = reply[r] /\ status'[r] = status[r]
      /\ body'[r] = IF taken THEN Append(body[r], n) ELSE body[r]
  BY <1>1, <1>2, <1>6 DEF Typed
<1>. HIDE DEF taken
<1>9. Upload(r)' /\ Made(r)'
  BY <1>2, <1>4, <1>8, UploadCut DEF MachineKept
<1>10. Caller(r)'
  BY <1>2, <1>3, <1>4, <1>8 DEF Caller, MachineKept
<1>11. ASSUME ~ taken PROVE Buffered(r)' /\ Streamed(r)'
  <2>1. CloudSame(r)
    BY <1>8, <1>11 DEF CloudSame
  <2>2. cloudSocket \notin {"open", "closing"} \/ ~ active[r]
    BY <1>11 DEF taken, Handled
  <2>3. cloudSocket \notin {"open", "closing"} \/ (f.type \in {"body", "end"} /\ ~ active[r])
    BY <1>5, <2>2
  <2>4. Buffered(r)' /\ Streamed(r)'
    BY <1>2, <1>5, <2>1, <2>3, ResponseIgnored
  <2>. QED BY <2>4
<1>12. ASSUME taken, kind[r] = "buffer" PROVE Buffered(r)'
  <2>1. active[r] /\ reply[r] # "complete"
    BY <1>3, <1>12 DEF taken, Caller
  <2>2. SUFFICES ASSUME pending[r]
                 PROVE  /\ status[r] \in {200, 502} /\ Answer(status[r], body'[r])
                        /\ ClosesLast(Tail(Down(r)), handler[r])
                        /\ BufferFrames(Tail(Down(r)), Stage(r)', status[r])
                        /\ machineSocket = "open" =>
                             BufferSender(Tail(Down(r)), Stage(r)', status[r], handler[r])
    <3>1. /\ kind'[r] = kind[r] /\ machineSocket' = machineSocket /\ handler'[r] = handler[r]
          /\ Down(r)' = Tail(Down(r)) /\ active'[r] = active[r] /\ pending'[r] = pending[r]
          /\ reply'[r] # "complete" /\ status'[r] = status[r]
      BY <1>2, <1>8, <2>1 DEF MachineKept
    <3>. QED BY <3>1 DEF Buffered
  <2>h. PICK h : h = handler[r]
    OBVIOUS
  <2>12. PICK u \in FrameSeqs : u = Down(r)
    BY <1>2
  <2>13. PICK k \in Nat : k = Stage(r)
    BY <1>3
  <2>3. /\ ClosesLast(u, h) /\ BufferFrames(u, k, status[r]) /\ u # <<>> /\ u[1] = f
        /\ status[r] \in {200, 502} /\ (body[r] = <<>> \/ Answer(status[r], body[r]))
        /\ machineSocket = "open" => BufferSender(u, k, status[r], h)
    BY <1>2, <1>3, <1>5, <1>12, <2>1, <2>2, <2>h, <2>12, <2>13 DEF Buffered
  <2>4. k = 1 /\ n = BodyOf(status[r]) /\ BufferFrames(Tail(u), 2, status[r])
    BY <1>5, <2>3, BufferTail
  <2>5. machineSocket = "open" => BufferSender(Tail(u), 2, status[r], h)
    BY <2>3, <2>4, SenderTail
  <2>6. ClosesLast(Tail(u), h)
    BY <2>3, Segments, SegmentKeeps
  <2>7. Len(body[r]) = 0
    BY <1>3, <2>1, <2>4, <2>13 DEF Stage
  <2>8. body[r] = <<>>
    BY <1>3, <2>7, EmptySeq DEF ChunkSeqs
  <2>9. body'[r] = <<n>> /\ Len(body'[r]) = 1
    BY <1>8, <1>12, <2>8
  <2>10. Answer(status[r], body'[r])
    BY <2>3, <2>4, <2>9 DEF Answer, BodyOf
  <2>11. Stage(r)' = 2
    <3>1. active'[r] /\ Len(body'[r]) = 1
      BY <1>8, <2>1, <2>9
    <3>. QED BY <3>1 DEF Stage
  <2>. QED BY <2>3, <2>4, <2>5, <2>6, <2>10, <2>11, <2>h, <2>12
<1>13. ASSUME taken, kind[r] = "stream" PROVE Buffered(r)' /\ Streamed(r)'
  <2>h. PICK h : h = handler[r]
    OBVIOUS
  <2>16. PICK u \in FrameSeqs : u = Down(r)
    BY <1>2
  <2>17. PICK k \in Nat : k = Stage(r)
    BY <1>3
  <2>18. PICK t : t = (active[r] /\ Told(body[r]))
    OBVIOUS
  <2>19. PICK d : d = (active'[r] /\ Told(body'[r]))
    OBVIOUS
  <2>1. active[r] /\ cloudSocket \in {"open", "closing"} /\ k = 1 + Len(body[r])
    BY <1>2, <1>3, <1>13, <2>17 DEF taken, Handled, Stage
  <2>2. /\ ClosesLast(u, h) /\ StreamFrames(u, k, t, produced[r]) /\ u # <<>> /\ u[1] = f
        /\ machineSocket = "open" => StreamSender(u, k, t, produced[r], h)
        /\ Chunks(body[r]) <= produced[r]
        /\ \A i \in 1..Chunks(body[r]) : body[r][i] = i
    BY <1>2, <1>3, <1>5, <1>13, <2>1, <2>h, <2>16, <2>17, <2>18 DEF Streamed
  <2>3. /\ IsChunk(f) => n = k /\ n <= produced[r]
        /\ ~ t
        /\ StreamFrames(Tail(u), k + 1, t, produced[r])
        /\ IsError(f) => StreamFrames(Tail(u), k + 1, d, produced[r])
    <3>1. /\ IsChunk(u[1]) => u[1].n = k /\ u[1].n <= produced[r] /\ ~ t
          /\ IsError(u[1]) => ~ t
          /\ StreamFrames(Tail(u), k + 1, t, produced[r])
      BY <1>3, <2>2, StreamTail
    <3>2. IsChunk(f) \/ IsError(f)
      BY <1>5 DEF IsChunk, IsError
    <3>3. IsError(f) => ~ IsOkStart(f) /\ ~ IsChunk(f) /\ f.type # "start"
      BY <1>5 DEF IsChunk, IsError, IsOkStart
    <3>4. IsError(f) => StreamFrames(Tail(u), k + 1, d, produced[r])
      BY <1>3, <2>2, <3>3, StreamTail
    <3>. QED BY <1>5, <2>2, <3>1, <3>2, <3>4
  <2>4. machineSocket = "open" =>
          /\ StreamSender(Tail(u), k + 1, t, produced[r], h)
          /\ IsError(f) => StreamSender(Tail(u), k + 1, d, produced[r], h)
    <3>1. IsError(f) => ~ IsOkStart(f) /\ ~ IsChunk(f) /\ f.type # "start"
      BY <1>5 DEF IsChunk, IsError, IsOkStart
    <3>. QED BY <1>3, <2>2, <3>1, StreamSenderTail
  <2>5. ClosesLast(Tail(u), h)
    BY <2>2, Segments, SegmentKeeps
  <2>6. ~ Told(body[r]) /\ body'[r] = Append(body[r], n)
    BY <1>8, <1>13, <2>1, <2>3, <2>18
  <2>c. PICK c : c = body'[r]
    OBVIOUS
  <2>20. PICK b \in ChunkSeqs : b = body[r]
    BY <1>3
  <2>7. ~ Told(b) /\ c = Append(b, n) /\ k = 1 + Len(b)
    BY <2>1, <2>6, <2>c, <2>20
  <2>8. /\ Len(c) = Len(b) + 1 /\ Len(b) \in Nat /\ Chunks(b) = Len(b)
        /\ n = ErrorBody => Told(c) /\ Chunks(c) = Len(b)
        /\ n # ErrorBody => ~ Told(c) /\ Chunks(c) = Len(b) + 1
        /\ \A i \in 1..Len(b) : c[i] = b[i]
        /\ c[Len(b) + 1] = n
    BY <2>7, PassedOn
  <2>9. /\ IsChunk(f) <=> n # ErrorBody
        /\ IsError(f) <=> n = ErrorBody
    BY <1>5 DEF IsChunk, IsError
  <2>10. Chunks(c) <= produced[r] /\ \A i \in 1..Chunks(c) : c[i] = i
    <3>1. Len(b) <= produced[r] /\ \A i \in 1..Len(b) : b[i] = i
      BY <2>2, <2>8, <2>c, <2>20
    <3>2. CASE n = ErrorBody
      BY <2>8, <3>1, <3>2
    <3>3. CASE n # ErrorBody
      <4>1. n = Len(b) + 1 /\ n <= produced[r] /\ Chunks(c) = Len(b) + 1
        BY <2>3, <2>7, <2>8, <2>9, <3>3
      <4>2. ASSUME NEW i \in 1..Chunks(c) PROVE c[i] = i
        <5>1. CASE i = Len(b) + 1
          BY <2>8, <4>1, <5>1
        <5>2. CASE i # Len(b) + 1
          <6>1. i \in 1..Len(b)
            BY <2>8, <4>1, <5>2
          <6>. QED BY <2>8, <3>1, <6>1
        <5>. QED BY <5>1, <5>2
      <4>. QED BY <4>1, <4>2
    <3>. QED BY <3>2, <3>3
  <2>11. Stage(r)' = k + 1
    BY <1>8, <2>1, <2>7, <2>8, <2>c, <2>20 DEF Stage
  <2>12. n # ErrorBody => d = FALSE /\ t = FALSE
    BY <2>7, <2>8, <2>18, <2>19, <2>c, <2>20
  <2>13. /\ StreamFrames(Tail(u), k + 1, d, produced[r])
         /\ machineSocket = "open" => StreamSender(Tail(u), k + 1, d, produced[r], h)
    <3>1. CASE n = ErrorBody
      BY <2>3, <2>4, <2>9, <3>1
    <3>2. CASE n # ErrorBody
      <4>1. d = t
        BY <2>12, <3>2
      <4>. QED BY <2>3, <2>4, <4>1
    <3>. QED BY <3>1, <3>2
  <2>14. Streamed(r)'
    BY <1>2, <1>13, <2>5, <2>10, <2>11, <2>13, <2>h, <2>16, <2>19, <2>c, <2>20
       DEF Streamed, MachineKept
  <2>15. Buffered(r)'
    <3>1. kind'[r] # "buffer"
      BY <1>2, <1>13 DEF MachineKept
    <3>. QED BY <3>1 DEF Buffered
  <2>. QED BY <2>14, <2>15
<1>14. Request(r)'
  <2>1. Buffered(r)' /\ Streamed(r)'
    <3>1. CASE taken /\ kind[r] = "buffer"
      <4>1. Streamed(r)'
        <5>1. kind'[r] # "stream"
          BY <1>2, <3>1 DEF MachineKept
        <5>. QED BY <5>1 DEF Streamed
      <4>. QED BY <1>12, <3>1, <4>1
    <3>2. CASE taken /\ kind[r] = "stream"
      BY <1>13, <3>2
    <3>3. CASE ~ taken
      BY <1>11, <3>3
    <3>. QED BY <1>3, <3>1, <3>2, <3>3
  <2>. QED BY <1>2, <1>9, <1>10, <2>1 DEF Request
<1>. QED BY <1>1, <1>2, <1>4, <1>7, <1>14, SidesKept, OneRequest

LEMMA OnReceiveEnd ==
  ASSUME HttpInv, NEW r \in Connections, ReceiveEnd(r)
  PROVE  HttpInv'
<1>. DEFINE taken == Handled /\ active[r]
            told == IF reply[r] \in {"waiting", "streaming"} THEN "complete" ELSE reply[r]
<1>1. /\ CloudReceives(r, "end") /\ UNCHANGED downQueue /\ UNCHANGED sockets
      /\ UNCHANGED machineVars /\ UNCHANGED upWire
      /\ kind' = kind /\ hasBody' = hasBody /\ status' = status /\ body' = body
      /\ taken => /\ timer' = [timer EXCEPT ![r] = FALSE]
                  /\ pending' = [pending EXCEPT ![r] = FALSE]
                  /\ active' = [active EXCEPT ![r] = FALSE]
                  /\ reply' = [reply EXCEPT ![r] = told]
                  /\ RemoveUpload(r)
      /\ ~ taken => /\ timer' = timer /\ pending' = pending /\ active' = active
                    /\ reply' = reply /\ upload' = upload /\ upQueue' = upQueue
  BY DEF ReceiveEnd
<1>2. /\ Typed /\ cloudSocket # "closed" /\ DownAt(r) /\ MachineKept(r)
      /\ Down(r) # <<>> /\ Down(r)' = Tail(Down(r)) /\ Down(r) \in FrameSeqs
      /\ Down(r)[1] \in FrameSet /\ Down(r)[1].type = "end"
      /\ Machine(r)' /\ Unmade(r)' /\ fetched[r] # "nothing"
  BY <1>1, Received
<1>3. /\ Caller(r) /\ Buffered(r) /\ reply[r] \in Replies /\ Stage(r) \in Nat
      /\ Len(body[r]) \in Nat /\ body[r] \in ChunkSeqs
  BY AtRequest
<1>. HIDE DEF taken
<1>4. CASE ~ taken
  <2>1. UpAt(r) /\ Up(r)' = Up(r) /\ upQueue' = upQueue
    BY <1>1, <1>2, <1>4, UpStays DEF upLink
  <2>2. CloudTyped' /\ CloudElsewhere(r) /\ CloudSame(r) /\ upload'[r] = upload[r]
    BY <1>1, <1>2, <1>4 DEF Typed, CloudTyped, CloudElsewhere, CloudSame
  <2>3. cloudSocket \notin {"open", "closing"} \/ ~ active[r]
    BY <1>4 DEF taken, Handled
  <2>8. PICK f : f = Down(r)[1]
    OBVIOUS
  <2>4. Buffered(r)' /\ Streamed(r)'
    BY <1>2, <2>2, <2>3, <2>8, ResponseIgnored
  <2>5. Upload(r)' /\ Made(r)'
    BY <1>2, <2>1, <2>2, UploadCut DEF MachineKept
  <2>6. Caller(r)'
    BY <1>2, <1>3, <2>1, <2>2 DEF Caller, CloudSame, MachineKept
  <2>7. Request(r)'
    BY <1>2, <2>4, <2>5, <2>6 DEF Request
  <2>. QED BY <1>1, <1>2, <2>1, <2>2, <2>7, SidesKept, OneRequest
<1>5. CASE taken
  <2>1. /\ UpAt(r)
        /\ \/ Up(r)' = Up(r) /\ upload'[r] = upload[r]
           \/ Up(r)' = upWire[r] /\ upload'[r] = "none"
        /\ upload' \in [Connections -> Uploads]
        /\ \A q \in Connections \ {r} : upload'[q] = upload[q]
    BY <1>1, <1>2, <1>5, Withdrawn
  <2>8. PICK answer : answer = told
    OBVIOUS
  <2>2. answer \in Settled \cup {"unused"} /\ answer \in Replies
    BY <1>3, <2>8 DEF Settled, Replies
  <2>3. kind[r] = "buffer" /\ answer = "complete" => Answer(status[r], body[r])
    <3>1. SUFFICES ASSUME kind[r] = "buffer", answer = "complete", reply[r] # "complete"
                   PROVE  Answer(status[r], body[r])
      BY <1>3 DEF Buffered
    <3>2. pending[r] /\ active[r]
      BY <1>3, <1>5, <2>8, <3>1 DEF Caller, taken
    <3>6. PICK u \in FrameSeqs : u = Down(r)
      BY <1>2
    <3>7. PICK k \in Nat : k = Stage(r)
      BY <1>3
    <3>3. /\ BufferFrames(u, k, status[r]) /\ u # <<>> /\ u[1].type = "end"
          /\ body[r] = <<>> \/ Answer(status[r], body[r])
      BY <1>2, <1>3, <3>1, <3>2, <3>6, <3>7 DEF Buffered
    <3>4. k = 2
      BY <3>3, BufferTail
    <3>5. Len(body[r]) = 1
      <4>1. PICK n \in Nat : n = Len(body[r])
        BY <1>3
      <4>2. k = 1 + n
        BY <3>2, <3>7, <4>1 DEF Stage
      <4>3. n = 1
        BY <3>4, <4>2
      <4>. QED BY <4>1, <4>3
    <3>8. body[r] # <<>>
      <4>1. PICK b \in ChunkSeqs : b = body[r]
        BY <1>3
      <4>2. Len(b) # 0
        BY SMTT(30), <3>5, <4>1
      <4>. QED BY <4>1, <4>2, NoChunk
    <3>. QED BY <3>3, <3>8
  <2>. HIDE DEF told
  <2>4. CloudTyped' /\ CloudElsewhere(r)
    <3>1. CloudTyped'
      <4>1. reply' \in [Connections -> Replies]
        BY <1>1, <1>2, <1>5, <2>2, <2>8 DEF Typed
      <4>. QED BY ZenonT(60), <1>1, <1>2, <1>5, <2>1, <4>1 DEF Typed, CloudTyped
    <3>2. CloudElsewhere(r)
      BY <1>1, <1>2, <1>5, <2>1 DEF Typed, CloudElsewhere
    <3>. QED BY <3>1, <3>2
  <2>5. Dismissed(r, answer)
    BY <1>1, <1>2, <1>5, <2>8 DEF Typed, Dismissed
  <2>6. Upload(r)' /\ Made(r)'
    BY <1>2, <2>1, UploadCut DEF MachineKept
  <2>7. Request(r)'
    BY <1>2, <2>2, <2>3, <2>5, <2>6, Dismissal
  <2>. QED BY <1>1, <1>2, <2>1, <2>4, <2>7, SidesKept, OneRequest
<1>. QED BY <1>4, <1>5

-----------------------------------------------------------------------------
(***************************************************************************)
(* The machine's end: the request arrives.                                 *)
(***************************************************************************)
LEMMA FirstTaken ==
  ASSUME NEW u \in FrameSeqs, u # <<>>, NEW b \in BOOLEAN, InTurn(u, b), NEW v, v = Tail(u)
  PROVE  /\ v \in FrameSeqs /\ InTurn(v, b) /\ u[1] \in FrameSet
         /\ \A a : NotAfter(u, a) => NotAfter(v, a)
         /\ \A type : Has(v, type) => Has(u, type)
         /\ OnlyCloses(u) => OnlyCloses(v) /\ u[1].type = "close"
         /\ Has(u, u[1].type)
         /\ u[1].type = "start" => ~ Has(v, "start")
         /\ u[1].type = "body" => b
         /\ u[1].type = "end" => OnlyCloses(v)
         /\ v # <<>> => /\ Before(u[1].type, v[1].type)
                        /\ b /\ v[1].type = "end" => u[1].type = "body"
                        /\ v[Len(v)] = u[Len(u)]
         /\ v = <<>> => u[Len(u)] = u[1]
<1>1. /\ v \in FrameSeqs /\ Len(u) \in Nat \ {0} /\ Len(v) = Len(u) - 1 /\ u[1] \in FrameSet
      /\ \A i \in 1..Len(v) : v[i] = u[i + 1] /\ i + 1 \in 1..Len(u)
      /\ Len(v) \in Nat /\ (v = <<>> <=> Len(v) = 0)
  BY TailAt, FrameSeqLen
<1>2. Segment(v, u, 1)
  BY Segments
<1>3. /\ InTurn(v, b) /\ \A a : NotAfter(u, a) => NotAfter(v, a)
      /\ \A type : Has(v, type) => Has(u, type)
      /\ OnlyCloses(u) => OnlyCloses(v)
  BY <1>2, SegmentKeeps
<1>4. 1 \in 1..Len(u)
  BY <1>1
<1>5. Has(u, u[1].type) /\ (OnlyCloses(u) => u[1].type = "close")
  BY <1>4 DEF Has, OnlyCloses
<1>6. \A i \in 1..Len(v) : Before(u[1].type, v[i].type)
  <2>1. SUFFICES ASSUME NEW i \in 1..Len(v) PROVE Before(u[1].type, v[i].type)
    OBVIOUS
  <2>2. v[i] = u[i + 1] /\ i + 1 \in 1..Len(u) /\ 1 < i + 1
    BY <1>1
  <2>. QED BY <1>4, <2>2 DEF InTurn
<1>7. /\ u[1].type = "start" => ~ Has(v, "start")
      /\ u[1].type = "end" => OnlyCloses(v)
  BY <1>6 DEF Before, Has, OnlyCloses
<1>8. u[1].type = "body" => b
  BY <1>5 DEF InTurn
<1>9. ASSUME v # <<>>
      PROVE  /\ Before(u[1].type, v[1].type)
             /\ b /\ v[1].type = "end" => u[1].type = "body"
             /\ v[Len(v)] = u[Len(u)]
  <2>1. 1 \in 1..Len(v) /\ Len(v) \in 1..Len(v) /\ Len(v) + 1 = Len(u) /\ 1 + 1 = 2 /\ 2 - 1 = 1
    BY <1>1, <1>9
  <2>2. v[1] = u[2] /\ 2 \in 2..Len(u)
    BY <1>1, <2>1
  <2>3. v[Len(v)] = u[Len(u)]
    BY <1>1, <2>1
  <2>4. b /\ u[2].type = "end" => u[2 - 1].type = "body"
    BY <2>2 DEF InTurn
  <2>. QED BY <1>6, <2>1, <2>2, <2>3, <2>4
<1>10. v = <<>> => u[Len(u)] = u[1]
  <2>1. v = <<>> => Len(u) = 1
    BY <1>1
  <2>. QED BY <2>1
<1>. QED BY <1>1, <1>3, <1>5, <1>7, <1>8, <1>9, <1>10

\* A frame of the request arrives.
LEMMA Delivered ==
  ASSUME HttpInv, NEW r \in Connections, NEW type, MachineReceives(r, type), UNCHANGED upQueue,
         UNCHANGED sockets, UNCHANGED cloudVars, UNCHANGED downLink
  PROVE  /\ Typed /\ machineSocket # "closed" /\ UpAt(r) /\ DownAt(r) /\ CloudKept(r)
         /\ Up(r) # <<>> /\ Up(r)' = Tail(Up(r)) /\ Up(r) \in FrameSeqs
         /\ Up(r)[1].type = type /\ Down(r)' = Down(r) /\ downQueue'[r] = downQueue[r]
         /\ machineSocket' = machineSocket /\ Caller(r)'
<1>1. /\ Typed /\ machineSocket # "closed" /\ upWire[r] # <<>>
      /\ Head(upWire[r]).type = type /\ Arrives(r, upWire)
  BY DEF HttpInv, MachineReceives, Arriving
<1>2. Up(r) \in FrameSeqs /\ Caller(r)
  BY AtRequest
<1>3. /\ UpAt(r) /\ Up(r) # <<>> /\ Up(r)' = Tail(Up(r)) /\ Head(Up(r)) = Head(upWire[r])
  BY <1>1, UpArrives
<1>4. Head(Up(r)) = Up(r)[1]
  BY <1>2, <1>3, TailAt
<1>5. DownAt(r) /\ Down(r)' = Down(r) /\ downQueue' = downQueue
  BY <1>1, DownStays
<1>6. CloudKept(r) /\ machineSocket' = machineSocket
  BY DEF CloudKept, cloudVars, sockets
<1>7. Caller(r)'
  BY <1>2, <1>6 DEF Caller, CloudKept
<1>. QED BY <1>1, <1>2, <1>3, <1>4, <1>5, <1>6, <1>7

LEMMA OnMachineStart ==
  ASSUME HttpInv, NEW r \in Connections, MachineStart(r)
  PROVE  HttpInv'
<1>1. /\ MachineReceives(r, "start") /\ UNCHANGED upQueue /\ UNCHANGED sockets
      /\ UNCHANGED cloudVars /\ UNCHANGED downLink
      /\ controller' = [controller EXCEPT ![r] = TRUE]
      /\ machinePending' = [machinePending EXCEPT ![r] = "started"]
      /\ aborted' = aborted /\ handler' = handler /\ fetched' = fetched /\ produced' = produced
  BY DEF MachineStart
<1>2. /\ Typed /\ machineSocket # "closed" /\ UpAt(r) /\ DownAt(r) /\ CloudKept(r)
      /\ Up(r) # <<>> /\ Up(r)' = Tail(Up(r)) /\ Up(r) \in FrameSeqs
      /\ Up(r)[1].type = "start" /\ Down(r)' = Down(r) /\ downQueue'[r] = downQueue[r]
      /\ machineSocket' = machineSocket /\ Caller(r)'
  BY <1>1, Delivered
<1>3. Machine(r) /\ Upload(r) /\ Unmade(r) /\ Made(r) /\ hasBody[r] \in BOOLEAN
  BY AtRequest
<1>4. MachineTyped' /\ MachineElsewhere(r)
  BY <1>1, <1>2 DEF Typed, MachineTyped, MachineElsewhere, MachineStates
<1>5. /\ controller'[r] = TRUE /\ machinePending'[r] = "started" /\ aborted'[r] = aborted[r]
      /\ handler'[r] = handler[r] /\ fetched'[r] = fetched[r] /\ produced'[r] = produced[r]
  BY <1>1, <1>2 DEF Typed
<1>15. PICK u \in FrameSeqs : u = Up(r)
  BY <1>2
<1>16. PICK v : v = Tail(u)
  OBVIOUS
<1>17. PICK b \in BOOLEAN : b = hasBody[r]
  BY <1>3
<1>6. u = Up(r) /\ v = Tail(u) /\ b = hasBody[r]
  BY <1>15, <1>16, <1>17
<1>7. /\ InTurn(u, b) /\ NotAfter(u, upload[r]) /\ u # <<>> /\ u[1].type = "start"
      /\ upload[r] = "body" => b
      /\ Has(u, "start") => machinePending[r] = "none" /\ fetched[r] = "nothing"
      /\ cloudSocket = "open" /\ upload[r] = "body" /\ u # <<>> => u[Len(u)].type = "body"
  BY <1>2, <1>3, <1>6 DEF Upload
<1>8. /\ InTurn(v, b) /\ NotAfter(v, upload[r]) /\ ~ Has(v, "start") /\ Has(u, "start")
      /\ v # <<>> => /\ Before("start", v[1].type)
                     /\ ~ (b /\ v[1].type = "end")
                     /\ v[Len(v)] = u[Len(u)]
      /\ v = <<>> => u[Len(u)].type = "start"
  <2>1. /\ InTurn(v, b) /\ (NotAfter(u, upload[r]) => NotAfter(v, upload[r]))
        /\ Has(v, "start") => Has(u, "start")
        /\ OnlyCloses(u) => u[1].type = "close"
        /\ Has(u, u[1].type) /\ v \in FrameSeqs
        /\ u[1].type = "start" => ~ Has(v, "start")
        /\ u[1].type = "body" => b
        /\ v # <<>> => /\ Before(u[1].type, v[1].type)
                       /\ b /\ v[1].type = "end" => u[1].type = "body"
                       /\ v[Len(v)] = u[Len(u)]
        /\ v = <<>> => u[Len(u)] = u[1]
    BY ZenonT(60), <1>6, <1>7, FirstTaken
  <2>. QED BY <1>7, <2>1
<1>9. fetched[r] = "nothing" /\ Up(r)' = v /\ Asked(r)' = (IF b THEN "withBody" ELSE "started")
  BY <1>2, <1>6, <1>7, <1>8 DEF Asked, CloudKept
<1>10. Machine(r)'
  BY <1>2, <1>3, <1>5 DEF Machine, CloudKept
<1>11. Upload(r)'
  BY <1>2, <1>5, <1>6, <1>7, <1>8, <1>9 DEF Upload, CloudKept
<1>12. Unmade(r)' /\ Made(r)'
  BY <1>2, <1>3, <1>5, <1>9 DEF Unmade, Made, CloudKept
<1>13. Buffered(r)' /\ Streamed(r)'
  BY <1>2, <1>5, ResponseCut DEF CloudKept
<1>14. Request(r)'
  BY <1>2, <1>10, <1>11, <1>12, <1>13 DEF Request
<1>. QED BY <1>1, <1>2, <1>4, <1>14, SidesKept, OneRequest

LEMMA OnMachineBody ==
  ASSUME HttpInv, NEW r \in Connections, MachineBody(r)
  PROVE  HttpInv'
<1>1. /\ MachineReceives(r, "body") /\ UNCHANGED upQueue /\ UNCHANGED sockets
      /\ UNCHANGED cloudVars /\ UNCHANGED downLink
      /\ machinePending' = [machinePending EXCEPT ![r] = IF @ = "none" THEN @ ELSE "withBody"]
      /\ controller' = controller
      /\ aborted' = aborted /\ handler' = handler /\ fetched' = fetched /\ produced' = produced
  BY DEF MachineBody
<1>2. /\ Typed /\ machineSocket # "closed" /\ UpAt(r) /\ DownAt(r) /\ CloudKept(r)
      /\ Up(r) # <<>> /\ Up(r)' = Tail(Up(r)) /\ Up(r) \in FrameSeqs
      /\ Up(r)[1].type = "body" /\ Down(r)' = Down(r) /\ downQueue'[r] = downQueue[r]
      /\ machineSocket' = machineSocket /\ Caller(r)'
  BY <1>1, Delivered
<1>3. /\ Machine(r) /\ Upload(r) /\ Unmade(r) /\ Made(r) /\ hasBody[r] \in BOOLEAN
      /\ machinePending[r] \in MachineStates
  BY AtRequest
<1>4. MachineTyped' /\ MachineElsewhere(r)
  BY <1>1, <1>2 DEF Typed, MachineTyped, MachineElsewhere, MachineStates
<1>5. /\ machinePending'[r] = (IF machinePending[r] = "none" THEN "none" ELSE "withBody")
      /\ controller'[r] = controller[r] /\ aborted'[r] = aborted[r]
      /\ handler'[r] = handler[r] /\ fetched'[r] = fetched[r] /\ produced'[r] = produced[r]
  BY <1>1, <1>2 DEF Typed
<1>15. PICK u \in FrameSeqs : u = Up(r)
  BY <1>2
<1>16. PICK v : v = Tail(u)
  OBVIOUS
<1>17. PICK b \in BOOLEAN : b = hasBody[r]
  BY <1>3
<1>6. u = Up(r) /\ v = Tail(u) /\ b = hasBody[r]
  BY <1>15, <1>16, <1>17
<1>7. /\ InTurn(u, b) /\ NotAfter(u, upload[r]) /\ u # <<>> /\ u[1].type = "body"
      /\ upload[r] = "body" => b
      /\ Has(u, "start") => machinePending[r] = "none" /\ fetched[r] = "nothing"
      /\ cloudSocket = "open" /\ upload[r] = "body" /\ u # <<>> => u[Len(u)].type = "body"
  BY <1>2, <1>3, <1>6 DEF Upload
<1>8. /\ InTurn(v, b) /\ NotAfter(v, upload[r]) /\ (Has(v, "start") => Has(u, "start"))
      /\ Has(u, "body") /\ b /\ ~ OnlyCloses(u)
      /\ v # <<>> => /\ Before("body", v[1].type)
                     /\ v[Len(v)] = u[Len(u)]
      /\ v \in FrameSeqs
  <2>1. /\ InTurn(v, b) /\ (NotAfter(u, upload[r]) => NotAfter(v, upload[r]))
        /\ Has(v, "start") => Has(u, "start")
        /\ OnlyCloses(u) => u[1].type = "close"
        /\ Has(u, u[1].type) /\ v \in FrameSeqs
        /\ u[1].type = "start" => ~ Has(v, "start")
        /\ u[1].type = "body" => b
        /\ v # <<>> => /\ Before(u[1].type, v[1].type)
                       /\ b /\ v[1].type = "end" => u[1].type = "body"
                       /\ v[Len(v)] = u[Len(u)]
        /\ v = <<>> => u[Len(u)] = u[1]
    BY <1>6, <1>7, FirstTaken
  <2>. QED BY <1>7, <2>1
<1>9. /\ fetched[r] = "nothing" /\ Up(r)' = v /\ upload[r] # "start"
      /\ Asked(r)' = "withBody"
  BY <1>2, <1>3, <1>6, <1>7, <1>8 DEF Asked, CloudKept, Made, NotAfter, Has
<1>10. Machine(r)'
  BY <1>2, <1>3, <1>5 DEF Machine, CloudKept
<1>11. Upload(r)'
  <2>1. v # <<>> => v[1].type # "body"
    BY <1>8 DEF Before
  <2>. QED BY ZenonT(60), <1>2, <1>5, <1>6, <1>7, <1>8, <1>9, <2>1 DEF Upload, CloudKept
<1>12. Unmade(r)' /\ Made(r)'
  BY <1>2, <1>3, <1>5, <1>9 DEF Unmade, Made, CloudKept
<1>13. Buffered(r)' /\ Streamed(r)'
  BY <1>2, <1>5, ResponseCut DEF CloudKept
<1>14. Request(r)'
  BY <1>2, <1>10, <1>11, <1>12, <1>13 DEF Request
<1>. QED BY <1>1, <1>2, <1>4, <1>14, SidesKept, OneRequest

LEMMA OnMachineEnd ==
  ASSUME HttpInv, NEW r \in Connections, MachineEnd(r)
  PROVE  HttpInv'
<1>1. /\ MachineReceives(r, "end") /\ UNCHANGED upQueue /\ UNCHANGED sockets
      /\ UNCHANGED cloudVars /\ UNCHANGED downLink
      /\ machinePending' = [machinePending EXCEPT ![r] = "none"]
      /\ machinePending[r] = "none" => handler' = handler /\ fetched' = fetched
      /\ machinePending[r] # "none" =>
           /\ handler' = [handler EXCEPT ![r] = "fetch"]
           /\ fetched' = [fetched EXCEPT ![r] = machinePending[r]]
      /\ controller' = controller /\ aborted' = aborted /\ produced' = produced
  BY DEF MachineEnd
<1>2. /\ Typed /\ machineSocket # "closed" /\ UpAt(r) /\ DownAt(r) /\ CloudKept(r)
      /\ Up(r) # <<>> /\ Up(r)' = Tail(Up(r)) /\ Up(r) \in FrameSeqs
      /\ Up(r)[1].type = "end" /\ Down(r)' = Down(r) /\ downQueue'[r] = downQueue[r]
      /\ machineSocket' = machineSocket /\ Caller(r)'
  BY <1>1, Delivered
<1>3. /\ Machine(r) /\ Upload(r) /\ Unmade(r) /\ Made(r) /\ hasBody[r] \in BOOLEAN
      /\ Buffered(r) /\ Streamed(r) /\ machinePending[r] \in MachineStates
      /\ upload[r] \in Uploads
  BY AtRequest
<1>4. MachineTyped' /\ MachineElsewhere(r)
  <2>1. CASE machinePending[r] = "none"
    BY <1>1, <1>2, <2>1 DEF Typed, MachineTyped, MachineElsewhere, MachineStates
  <2>2. CASE machinePending[r] # "none"
    <3>1. machinePending[r] \in {"started", "withBody"}
      BY <1>3, <2>2 DEF MachineStates
    <3>2. fetched' \in [Connections -> {"nothing", "started", "withBody"}]
      BY <1>1, <1>2, <2>2, <3>1 DEF Typed
    <3>3. handler' \in [Connections -> Handlers]
      BY <1>1, <1>2, <2>2 DEF Typed, Handlers
    <3>4. MachineTyped'
      BY <1>1, <1>2, <3>2, <3>3 DEF Typed, MachineTyped, MachineStates
    <3>5. MachineElsewhere(r)
      BY <1>1, <1>2, <2>2 DEF Typed, MachineElsewhere
    <3>. QED BY <3>4, <3>5
  <2>. QED BY <2>1, <2>2
<1>5. /\ machinePending'[r] = "none" /\ controller'[r] = controller[r]
      /\ aborted'[r] = aborted[r] /\ produced'[r] = produced[r]
      /\ machinePending[r] = "none" => handler'[r] = handler[r] /\ fetched'[r] = fetched[r]
      /\ machinePending[r] # "none" => handler'[r] = "fetch" /\ fetched'[r] = machinePending[r]
  BY <1>1, <1>2 DEF Typed
<1>15. PICK u \in FrameSeqs : u = Up(r)
  BY <1>2
<1>16. PICK v : v = Tail(u)
  OBVIOUS
<1>17. PICK b \in BOOLEAN : b = hasBody[r]
  BY <1>3
<1>6. u = Up(r) /\ v = Tail(u) /\ b = hasBody[r]
  BY <1>15, <1>16, <1>17
<1>7. /\ InTurn(u, b) /\ NotAfter(u, upload[r]) /\ u # <<>> /\ u[1].type = "end"
      /\ upload[r] = "body" => b
      /\ Has(u, "start") => machinePending[r] = "none" /\ fetched[r] = "nothing"
      /\ machinePending[r] # "none" => machinePending[r] = Asked(r)
      /\ cloudSocket = "open" /\ upload[r] = "body" /\ u # <<>> => u[Len(u)].type = "body"
  BY <1>2, <1>3, <1>6 DEF Upload
<1>8. /\ InTurn(v, b) /\ NotAfter(v, upload[r]) /\ (Has(v, "start") => Has(u, "start"))
      /\ Has(u, "end") /\ OnlyCloses(v)
      /\ v # <<>> => v[Len(v)] = u[Len(u)]
  BY <1>6, <1>7, FirstTaken
<1>9. /\ Up(r)' = v /\ upload[r] \in {"none", "end"} /\ Asked(r)' = Asked(r)
      /\ Asked(r) # "nothing"
  <2>1. upload[r] \notin {"start", "body"}
    BY <1>7, <1>8 DEF NotAfter, Has
  <2>. QED BY <1>2, <1>3, <1>6, <2>1 DEF Asked, CloudKept, Uploads
<1>10. Machine(r)'
  BY <1>2, <1>3, <1>5, <1>9 DEF Machine, CloudKept, Unmade, Made
<1>11. Upload(r)'
  BY <1>2, <1>5, <1>6, <1>7, <1>8, <1>9 DEF Upload, CloudKept, Made, OnlyCloses, Has
<1>12. Unmade(r)' /\ Made(r)'
  BY <1>2, <1>3, <1>5, <1>7, <1>8, <1>9 DEF Unmade, Made, CloudKept
<1>13. Buffered(r)' /\ Streamed(r)'
  <2>1. CASE machinePending[r] = "none"
    BY <1>2, <1>5, <2>1, ResponseCut DEF CloudKept
  <2>2. CASE machinePending[r] # "none"
    <3>1. Down(r)' = <<>> /\ ~ active[r] /\ produced[r] = 0 /\ handler'[r] = "fetch"
      BY <1>2, <1>3, <1>5, <2>2 DEF Unmade, Made
    <3>2. Stage(r)' = 0 /\ Len(<<>>) + 0 = 0
      BY <1>2, <3>1, NoFrame DEF Stage, CloudKept
    <3>3. Buffered(r)'
      <4>1. \A c : BufferSender(<<>>, 0, c, "fetch")
        BY <3>2 DEF BufferSender
      <4>. QED BY <1>2, <1>3, <3>1, <3>2, <4>1, NothingUnderWay DEF Buffered, CloudKept
    <3>4. Streamed(r)'
      <4>1. \A t, m : ~ t => StreamSender(<<>>, 0, t, m, "fetch")
        BY <3>2 DEF StreamSender
      <4>2. ~ (active'[r] /\ Told(body'[r]))
        BY <1>2, <3>1 DEF CloudKept
      <4>. QED BY <1>2, <1>3, <1>5, <3>1, <3>2, <4>1, <4>2, NothingUnderWay DEF Streamed, CloudKept
    <3>. QED BY <3>3, <3>4
  <2>. QED BY <2>1, <2>2
<1>14. Request(r)'
  BY <1>2, <1>10, <1>11, <1>12, <1>13 DEF Request
<1>. QED BY <1>1, <1>2, <1>4, <1>14, SidesKept, OneRequest

-----------------------------------------------------------------------------
(***************************************************************************)
(* The machine's end: the response is made and sent.                       *)
(***************************************************************************)
\* What the handler of a buffered, of a streamed request sends, and what it awaits
\* before and after.
BufferStep(state, f, next) ==
  \/ state = "fetch" /\ f = OkStart /\ next = "start"
  \/ state = "fetch" /\ f = BadStart /\ next = "errorStart"
  \/ state = "start" /\ f = Chunk(1) /\ next = "body"
  \/ state = "errorStart" /\ f = Chunk(ErrorBody) /\ next = "errorBody"
  \/ state = "body" /\ f = End /\ next = "end"
  \/ state = "errorBody" /\ f = End /\ next = "errorEnd"
StreamStep(state, f, next, made, more) ==
  \/ state = "fetch" /\ f = OkStart /\ next = "start" /\ more = 0
  \/ state = "fetch" /\ f = BadStart /\ next = "errorStart"
  \/ state = "read" /\ f = Chunk(made + 1) /\ next = "body" /\ more = made + 1
  \/ state = "read" /\ f = BadStart /\ next = "errorStart"
  \/ state = "errorStart" /\ f = Chunk(ErrorBody) /\ next = "errorBody"
  \/ f = End /\ next \in {"end", "errorEnd"}

LEMMA Unclosed ==
  ASSUME NEW u \in FrameSeqs, NEW s, ClosesLast(u, s), s # "none", NEW t
  PROVE  ClosesLast(u, t)
BY CloseEnds DEF ClosesLast, Has

LEMMA StreamGrows ==
  ASSUME NEW u \in FrameSeqs, NEW k, NEW told, NEW made \in Nat, StreamFrames(u, k, told, made),
         NEW more \in Nat, more >= made
  PROVE  StreamFrames(u, k, told, more)
<1>1. \A i \in 1..Len(u) : IsChunk(u[i]) => u[i].n <= more
  <2>1. \A i \in 1..Len(u) : u[i] \in FrameSet
    BY FrameSeqLen
  <2>. QED BY <2>1, ChunkAssumption DEF StreamFrames, IsChunk, FrameSet, Frames
<1>. QED BY <1>1 DEF StreamFrames

\* The response's next frame is sent, or would be if the socket were open.
LEMMA ResponseSends ==
  ASSUME HttpInv, NEW r \in Connections, CloudKept(r), machineSocket' = machineSocket,
         NEW f \in FrameSet, f.type # "close",
         NEW state, state = handler[r], state # "none", NEW next, next = handler'[r],
         NEW made \in Nat, made = produced[r], NEW more \in Nat, more = produced'[r], more >= made,
         machineSocket = "open" => Down(r)' = Append(Down(r), f),
         machineSocket # "open" => Down(r)' = Down(r),
         machineSocket = "open" /\ kind[r] = "buffer" => BufferStep(state, f, next),
         machineSocket = "open" /\ kind[r] = "stream" => StreamStep(state, f, next, made, more)
  PROVE  Buffered(r)' /\ Streamed(r)'
<1>1. Buffered(r) /\ Streamed(r) /\ Down(r) \in FrameSeqs /\ Stage(r) \in Nat
  BY AtRequest
<1>2. Stage(r)' = Stage(r)
  BY DEF Stage, CloudKept
<1>3. PICK d \in FrameSeqs : d = Down(r)
  BY <1>1
<1>4. PICK e : e = Down(r)'
  OBVIOUS
<1>5. /\ machineSocket = "open" => e = Append(d, f)
      /\ machineSocket # "open" => e = d
  BY <1>3, <1>4
<1>6. ASSUME ClosesLast(d, state) PROVE ClosesLast(e, next)
  <2>1. ClosesLast(d, next)
    BY <1>6, Unclosed
  <2>2. ClosesLast(Append(d, f), next)
    BY <1>6, AppendKeeps
  <2>. QED BY <1>5, <2>1, <2>2
<1>7. ASSUME kind[r] = "buffer", NEW k \in Nat, NEW code, BufferFrames(d, k, code),
             machineSocket = "open" => BufferSender(d, k, code, state)
      PROVE  /\ BufferFrames(e, k, code)
             /\ machineSocket = "open" => BufferSender(e, k, code, next)
  <2>1. CASE machineSocket = "open"
    <3>1. BufferSender(d, k, code, state) /\ BufferStep(state, f, next)
      BY <1>7, <2>1
    <3>2. BufferFrames(Append(d, f), k, code) /\ BufferSender(Append(d, f), k, code, next)
      BY <1>7, <3>1, BufferSends DEF BufferStep
    <3>. QED BY <1>5, <2>1, <3>2
  <2>. QED BY <1>5, <1>7, <2>1
<1>8. ASSUME kind[r] = "stream", NEW k \in Nat, NEW told, StreamFrames(d, k, told, made),
             machineSocket = "open" => StreamSender(d, k, told, made, state)
      PROVE  /\ StreamFrames(e, k, told, more)
             /\ machineSocket = "open" => StreamSender(e, k, told, more, next)
  <2>1. CASE machineSocket = "open"
    <3>1. StreamSender(d, k, told, made, state) /\ StreamStep(state, f, next, made, more)
      BY <1>8, <2>1
    <3>2. /\ StreamFrames(Append(d, f), k, told, more)
          /\ StreamSender(Append(d, f), k, told, more, next)
      BY <1>8, <3>1, StreamSends DEF StreamStep
    <3>. QED BY <1>5, <2>1, <3>2
  <2>2. CASE machineSocket # "open"
    BY <1>5, <1>8, <2>2, StreamGrows
  <2>. QED BY <2>1, <2>2
<1>9. Buffered(r)'
  <2>1. SUFFICES ASSUME kind[r] = "buffer" PROVE Buffered(r)'
    BY DEF Buffered, CloudKept
  <2>2. /\ reply[r] = "complete" => Answer(status[r], body[r])
        /\ pending[r] =>
             /\ active[r] =>
                  status[r] \in {200, 502} /\ (body[r] = <<>> \/ Answer(status[r], body[r]))
             /\ ClosesLast(d, state)
             /\ BufferFrames(d, Stage(r), status[r])
             /\ machineSocket = "open" => BufferSender(d, Stage(r), status[r], state)
    BY <1>1, <1>3, <2>1 DEF Buffered
  <2>3. pending[r] =>
             /\ ClosesLast(e, next)
             /\ BufferFrames(e, Stage(r), status[r])
             /\ machineSocket = "open" => BufferSender(e, Stage(r), status[r], next)
    BY <1>1, <1>6, <1>7, <2>1, <2>2
  <2>. QED BY <1>2, <1>4, <2>2, <2>3 DEF Buffered, CloudKept
<1>10. Streamed(r)'
  <2>1. SUFFICES ASSUME kind[r] = "stream" PROVE Streamed(r)'
    BY DEF Streamed, CloudKept
  <2>. DEFINE told == active[r] /\ Told(body[r])
  <2>2. /\ Chunks(body[r]) <= made
        /\ \A i \in 1..Chunks(body[r]) : body[r][i] = i
        /\ (pending[r] \/ active[r]) /\ cloudSocket \in {"open", "closing"} =>
             /\ ClosesLast(d, state)
             /\ StreamFrames(d, Stage(r), told, made)
             /\ machineSocket = "open" => StreamSender(d, Stage(r), told, made, state)
    BY <1>1, <1>3, <2>1 DEF Streamed
  <2>3. Chunks(body[r]) <= more
    <3>1. Chunks(body[r]) \in Int
      <4>1. Len(body[r]) \in Nat
        BY AtRequest
      <4>. QED BY <4>1 DEF Chunks
    <3>. QED BY <2>2, <3>1
  <2>. HIDE DEF told
  <2>4. (pending[r] \/ active[r]) /\ cloudSocket \in {"open", "closing"} =>
             /\ ClosesLast(e, next)
             /\ StreamFrames(e, Stage(r), told, more)
             /\ machineSocket = "open" => StreamSender(e, Stage(r), told, more, next)
    BY <1>1, <1>6, <1>8, <2>1, <2>2
  <2>5. /\ kind'[r] = kind[r] /\ pending'[r] = pending[r] /\ active'[r] = active[r]
        /\ body'[r] = body[r] /\ cloudSocket' = cloudSocket
    BY DEF CloudKept
  <2>. QED BY <1>2, <1>4, <2>2, <2>3, <2>4, <2>5 DEF Streamed, told
<1>. QED BY <1>9, <1>10

\* The handler of a request that has been made takes a step.
LEMMA HandlerSteps ==
  ASSUME HttpInv, NEW r \in Connections, handler[r] # "none",
         UNCHANGED sockets, UNCHANGED cloudVars, UNCHANGED upLink, DownAt(r),
         machineSocket = "closed" => downQueue' = downQueue,
         MachineTyped', MachineElsewhere(r), machinePending'[r] = machinePending[r],
         aborted'[r] = aborted[r], fetched'[r] = fetched[r],
         \/ controller'[r] = controller[r]
         \/ ~ controller'[r] /\ handler'[r] = "none",
         handler'[r] = "read" => kind[r] = "stream", handler'[r] # "fetch",
         Buffered(r)', Streamed(r)'
  PROVE  HttpInv'
<1>1. Typed /\ Caller(r) /\ Machine(r) /\ Upload(r) /\ Unmade(r) /\ Made(r)
  BY AtRequest
<1>2. UpAt(r) /\ Up(r)' = Up(r) /\ upQueue' = upQueue
  BY <1>1, UpStays
<1>3. /\ CloudKept(r) /\ machineSocket' = machineSocket /\ cloudSocket' = cloudSocket
      /\ upload'[r] = upload[r] /\ hasBody'[r] = hasBody[r]
  BY <1>2 DEF CloudKept, cloudVars, sockets
<1>4. fetched[r] # "nothing" /\ machinePending[r] = "none"
  BY <1>1 DEF Unmade, Made
<1>5. Caller(r)'
  BY <1>1, <1>3 DEF Caller, CloudKept
<1>6. Machine(r)'
  BY <1>1, <1>3, <1>4 DEF Machine, CloudKept
<1>7. Upload(r)' /\ Made(r)'
  BY <1>2, <1>3, UploadCut
<1>8. Unmade(r)'
  BY <1>4 DEF Unmade
<1>9. Request(r)'
  BY <1>5, <1>6, <1>7, <1>8 DEF Request
<1>. QED BY <1>1, <1>2, <1>9, SidesKept, OneRequest

LEMMA HandlerSends ==
  ASSUME HttpInv, NEW r \in Connections, UNCHANGED sockets, UNCHANGED cloudVars, UNCHANGED upLink,
         UNCHANGED <<machinePending, controller, aborted, fetched>>,
         NEW f \in FrameSet, f.type # "close", DownSend(r, f),
         NEW state, state = handler[r], state # "none",
         NEW next \in Sending, handler' = [handler EXCEPT ![r] = next],
         NEW made \in Nat, made = produced[r],
         NEW more \in 0..MaxChunks \cup {1},
         produced' = [produced EXCEPT ![r] = more], more >= made,
         machineSocket = "open" /\ kind[r] = "buffer" => BufferStep(state, f, next),
         machineSocket = "open" /\ kind[r] = "stream" => StreamStep(state, f, next, made, more)
  PROVE  HttpInv'
<1>1. Typed
  BY DEF HttpInv
<1>2. /\ DownAt(r)
      /\ machineSocket = "open" => Down(r)' = Append(Down(r), f)
      /\ machineSocket # "open" => Down(r)' = Down(r) /\ downQueue' = downQueue
  BY <1>1, DownSent
<1>3. handler'[r] = next /\ produced'[r] = more /\ next \in Handlers /\ more \in Nat
  BY <1>1, ChunkAssumption DEF Typed, Handlers
<1>4. CloudKept(r) /\ machineSocket' = machineSocket
  BY DEF CloudKept, cloudVars, sockets, upLink
<1>5. MachineTyped' /\ MachineElsewhere(r)
  <2>1. handler' \in [Connections -> Handlers]
    BY <1>1, <1>3 DEF Typed
  <2>2. produced' \in [Connections -> 0..MaxChunks \cup {1}]
    BY <1>1 DEF Typed
  <2>3. MachineTyped'
    BY <1>1, <2>1, <2>2 DEF Typed, MachineTyped
  <2>4. MachineElsewhere(r)
    BY <1>1 DEF Typed, MachineElsewhere
  <2>. QED BY <2>3, <2>4
<1>6. Buffered(r)' /\ Streamed(r)'
  BY <1>2, <1>3, <1>4, ResponseSends
<1>7. next # "read" /\ next # "fetch"
  BY DEF Sending, Failing
<1>. QED BY <1>2, <1>3, <1>5, <1>6, <1>7, HandlerSteps

LEMMA OnFetchResolves ==
  ASSUME HttpInv, NEW r \in Connections, FetchResolves(r)
  PROVE  HttpInv'
<1>1. /\ handler[r] = "fetch" /\ handler' = [handler EXCEPT ![r] = "start"]
      /\ produced' = [produced EXCEPT ![r] = IF kind[r] = "buffer" THEN 1 ELSE 0]
      /\ DownSend(r, OkStart) /\ UNCHANGED sockets /\ UNCHANGED cloudVars /\ UNCHANGED upLink
      /\ UNCHANGED <<machinePending, controller, aborted, fetched>>
  BY DEF FetchResolves
<1>2. produced[r] = 0
  BY <1>1, AtRequest DEF Machine
<1>3. PICK more \in {0, 1} : more = IF kind[r] = "buffer" THEN 1 ELSE 0
  OBVIOUS
<1>4. more \in 0..MaxChunks \cup {1} /\ produced' = [produced EXCEPT ![r] = more] /\ more >= 0
  BY <1>1, <1>3, ChunkAssumption
<1>5. OkStart \in FrameSet /\ OkStart.type # "close" /\ "start" \in Sending
  BY FrameTypes DEF Sending
<1>6. PICK state : state = handler[r]
  OBVIOUS
<1>7. PICK made \in Nat : made = produced[r]
  BY <1>2
<1>8. more >= made /\ state # "none"
  BY <1>1, <1>2, <1>4, <1>6, <1>7
<1>9. /\ machineSocket = "open" /\ kind[r] = "buffer" => BufferStep(state, OkStart, "start")
      /\ machineSocket = "open" /\ kind[r] = "stream" =>
           StreamStep(state, OkStart, "start", made, more)
  BY <1>1, <1>3, <1>6 DEF BufferStep, StreamStep
<1>. QED BY <1>1, <1>4, <1>5, <1>6, <1>7, <1>8, <1>9, HandlerSends

LEMMA OnReadChunk ==
  ASSUME HttpInv, NEW r \in Connections, ReadChunk(r)
  PROVE  HttpInv'
<1>1. /\ handler[r] = "read" /\ produced[r] < MaxChunks
      /\ handler' = [handler EXCEPT ![r] = "body"] /\ produced' = [produced EXCEPT ![r] = @ + 1]
      /\ DownSend(r, Chunk(produced[r] + 1))
      /\ UNCHANGED sockets /\ UNCHANGED cloudVars /\ UNCHANGED upLink
      /\ UNCHANGED <<machinePending, controller, aborted, fetched>>
  BY DEF ReadChunk
<1>2. produced[r] \in Nat /\ kind[r] = "stream" /\ Typed
  BY <1>1, AtRequest DEF Machine
<1>3. PICK made \in Nat : made = produced[r]
  BY <1>2
<1>4. PICK more \in Nat : more = made + 1
  BY <1>3
<1>5. PICK f : f = Chunk(made + 1)
  OBVIOUS
<1>6. /\ more \in 0..MaxChunks \cup {1} /\ produced' = [produced EXCEPT ![r] = more]
      /\ more >= made
  BY <1>1, <1>2, <1>3, <1>4, ChunkAssumption DEF Typed
<1>7. f \in FrameSet /\ f.type # "close" /\ "body" \in Sending
  BY <1>4, <1>5, <1>6, FrameTypes DEF Sending
<1>8. DownSend(r, f)
  BY <1>1, <1>3, <1>5 DEF DownSend, Enqueue
<1>9. StreamStep("read", f, "body", made, more)
  BY <1>4, <1>5 DEF StreamStep
<1>. QED BY <1>1, <1>2, <1>3, <1>6, <1>7, <1>8, <1>9, HandlerSends

LEMMA OnReadDone ==
  ASSUME HttpInv, NEW r \in Connections, ReadDone(r)
  PROVE  HttpInv'
<1>1. /\ handler[r] = "read" /\ handler' = [handler EXCEPT ![r] = "end"]
      /\ DownSend(r, End) /\ UNCHANGED sockets /\ UNCHANGED cloudVars /\ UNCHANGED upLink
      /\ UNCHANGED <<machinePending, controller, aborted, fetched>> /\ produced' = produced
  BY DEF ReadDone
<1>2. /\ produced[r] \in Nat /\ produced[r] \in 0..MaxChunks \cup {1} /\ kind[r] = "stream"
      /\ Typed
  BY <1>1, AtRequest DEF Machine
<1>3. PICK made \in 0..MaxChunks \cup {1} : made = produced[r]
  BY <1>2
<1>4. produced' = [produced EXCEPT ![r] = made] /\ made \in Nat /\ made >= made
  BY <1>1, <1>2, <1>3 DEF Typed
<1>5. End \in FrameSet /\ End.type # "close" /\ "end" \in Sending
  BY FrameTypes DEF Sending
<1>6. StreamStep("read", End, "end", made, made)
  BY DEF StreamStep
<1>. QED BY <1>1, <1>2, <1>3, <1>4, <1>5, <1>6, HandlerSends

LEMMA OnHandlerFails ==
  ASSUME HttpInv, NEW r \in Connections, HandlerFails(r)
  PROVE  HttpInv'
<1>1. /\ \/ handler[r] \in {"fetch", "read"}
         \/ handler[r] \in Sending \ Failing /\ machineSocket = "closing"
      /\ handler' = [handler EXCEPT ![r] = "errorStart"]
      /\ DownSend(r, BadStart) /\ UNCHANGED sockets /\ UNCHANGED cloudVars /\ UNCHANGED upLink
      /\ UNCHANGED <<machinePending, controller, aborted, fetched>> /\ produced' = produced
  BY DEF HandlerFails
<1>2. /\ produced[r] \in Nat /\ produced[r] \in 0..MaxChunks \cup {1}
      /\ handler[r] = "read" => kind[r] = "stream"
      /\ Typed
  BY AtRequest DEF Machine
<1>3. PICK made \in 0..MaxChunks \cup {1} : made = produced[r]
  BY <1>2
<1>4. produced' = [produced EXCEPT ![r] = made] /\ made \in Nat /\ made >= made
  BY <1>1, <1>2, <1>3 DEF Typed
<1>5. BadStart \in FrameSet /\ BadStart.type # "close" /\ "errorStart" \in Sending
  BY FrameTypes DEF Sending, Failing
<1>6. PICK state : state = handler[r]
  OBVIOUS
<1>7. state # "none"
  BY <1>1, <1>6 DEF Sending, Failing
<1>8. /\ machineSocket = "open" /\ kind[r] = "buffer" => BufferStep(state, BadStart, "errorStart")
      /\ machineSocket = "open" /\ kind[r] = "stream" =>
           StreamStep(state, BadStart, "errorStart", made, made)
  BY <1>1, <1>2, <1>6 DEF BufferStep, StreamStep
<1>. QED BY <1>1, <1>3, <1>4, <1>5, <1>6, <1>7, <1>8, HandlerSends

\* The handler ends.
LEMMA HandlerEnds ==
  ASSUME HttpInv, NEW r \in Connections, handler[r] # "none",
         UNCHANGED sockets, UNCHANGED cloudVars, UNCHANGED upLink, UNCHANGED downLink,
         UNCHANGED <<machinePending, aborted, fetched, produced>>,
         handler' = [handler EXCEPT ![r] = "none"], controller' = [controller EXCEPT ![r] = FALSE]
  PROVE  HttpInv'
<1>1. Typed
  BY DEF HttpInv
<1>2. DownAt(r) /\ Down(r)' = Down(r) /\ downQueue' = downQueue
  BY <1>1, DownStays
<1>3. MachineTyped' /\ MachineElsewhere(r)
  BY <1>1 DEF Typed, MachineTyped, MachineElsewhere, Handlers
<1>4. /\ handler'[r] = "none" /\ ~ controller'[r] /\ machinePending'[r] = machinePending[r]
      /\ aborted'[r] = aborted[r] /\ fetched'[r] = fetched[r] /\ produced'[r] = produced[r]
  BY <1>1 DEF Typed
<1>5. CloudKept(r) /\ machineSocket' = machineSocket
  BY DEF CloudKept, cloudVars, sockets, upLink
<1>6. Buffered(r)' /\ Streamed(r)'
  BY <1>2, <1>4, <1>5, ResponseCut DEF CloudKept
<1>. QED BY <1>2, <1>3, <1>4, <1>6, HandlerSteps

LEMMA OnHandlerAborts ==
  ASSUME HttpInv, NEW r \in Connections, HandlerAborts(r)
  PROVE  HttpInv'
BY HandlerEnds DEF HandlerAborts

\* A streamed response has started, or a chunk is on its way: the next is read.
LEMMA HandlerReads ==
  ASSUME HttpInv, NEW r \in Connections, handler[r] \in {"start", "body"}, kind[r] = "stream",
         UNCHANGED sockets, UNCHANGED cloudVars, UNCHANGED upLink, UNCHANGED downLink,
         UNCHANGED <<machinePending, controller, aborted, fetched, produced>>,
         handler' = [handler EXCEPT ![r] = "read"]
  PROVE  HttpInv'
<1>1. Typed /\ Streamed(r) /\ Down(r) \in FrameSeqs
  BY AtRequest
<1>2. DownAt(r) /\ Down(r)' = Down(r) /\ downQueue' = downQueue
  BY <1>1, DownStays
<1>3. MachineTyped' /\ MachineElsewhere(r)
  BY <1>1 DEF Typed, MachineTyped, MachineElsewhere, Handlers
<1>4. /\ handler'[r] = "read" /\ controller'[r] = controller[r]
      /\ machinePending'[r] = machinePending[r]
      /\ aborted'[r] = aborted[r] /\ fetched'[r] = fetched[r] /\ produced'[r] = produced[r]
  BY <1>1 DEF Typed
<1>5. CloudKept(r) /\ machineSocket' = machineSocket /\ Stage(r)' = Stage(r)
  BY DEF CloudKept, cloudVars, sockets, upLink, Stage
<1>6. Buffered(r)'
  BY <1>5 DEF Buffered, CloudKept
<1>7. PICK u \in FrameSeqs : u = Down(r)
  BY <1>1
<1>8. PICK state : state = handler[r]
  OBVIOUS
<1>9. ClosesLast(u, state) => ClosesLast(u, "read")
  BY <1>8, Unclosed
<1>10. \A k, t, m : StreamSender(u, k, t, m, state) => StreamSender(u, k, t, m, "read")
  BY <1>8 DEF StreamSender
<1>11. Streamed(r)'
  <2>. DEFINE told == active[r] /\ Told(body[r])
  <2>1. /\ Chunks(body[r]) <= produced[r]
        /\ \A i \in 1..Chunks(body[r]) : body[r][i] = i
        /\ (pending[r] \/ active[r]) /\ cloudSocket \in {"open", "closing"} =>
             /\ ClosesLast(u, state)
             /\ StreamFrames(u, Stage(r), told, produced[r])
             /\ machineSocket = "open" => StreamSender(u, Stage(r), told, produced[r], state)
    BY <1>1, <1>7, <1>8 DEF Streamed
  <2>. HIDE DEF told
  <2>2. (pending[r] \/ active[r]) /\ cloudSocket \in {"open", "closing"} =>
             /\ ClosesLast(u, "read")
             /\ StreamFrames(u, Stage(r), told, produced[r])
             /\ machineSocket = "open" => StreamSender(u, Stage(r), told, produced[r], "read")
    BY <1>9, <1>10, <2>1
  <2>3. /\ kind'[r] = kind[r] /\ pending'[r] = pending[r] /\ active'[r] = active[r]
        /\ body'[r] = body[r] /\ cloudSocket' = cloudSocket
    BY <1>5 DEF CloudKept
  <2>. QED BY <1>2, <1>4, <1>5, <1>7, <2>1, <2>2, <2>3 DEF Streamed, told
<1>. QED BY <1>2, <1>3, <1>4, <1>6, <1>11, HandlerSteps

LEMMA OnHandlerContinues ==
  ASSUME HttpInv, NEW r \in Connections, HandlerContinues(r)
  PROVE  HttpInv'
<1>1. /\ handler[r] \in Sending
      /\ UNCHANGED sockets /\ UNCHANGED cloudVars /\ UNCHANGED upLink
      /\ UNCHANGED <<machinePending, aborted, fetched>> /\ produced' = produced
      /\ handler' = [handler EXCEPT ![r] = AfterFrame(r)]
      /\ AfterFrame(r) \in {"read", "none"} => UNCHANGED downLink
      /\ AfterFrame(r) \notin {"read", "none"} => DownSend(r, NextFrame(r))
      /\ controller' = [controller EXCEPT ![r] = @ /\ AfterFrame(r) # "none"]
  BY DEF HandlerContinues
<1>2. /\ produced[r] \in Nat /\ produced[r] \in 0..MaxChunks \cup {1} /\ Typed
      /\ kind[r] \in {"buffer", "stream"}
  BY AtRequest
<1>3. PICK state : state = handler[r]
  OBVIOUS
<1>4. state # "none" /\ state \in Sending
  BY <1>1, <1>3 DEF Sending, Failing
<1>5. \/ state \in {"start", "body"} /\ kind[r] = "stream" /\ AfterFrame(r) = "read"
      \/ state \in {"end", "errorEnd"} /\ AfterFrame(r) = "none"
      \/ /\ AfterFrame(r) \in {"body", "end", "errorBody", "errorEnd"}
         /\ \/ state = "start" /\ kind[r] = "buffer" /\ AfterFrame(r) = "body"
            \/ state = "body" /\ kind[r] = "buffer" /\ AfterFrame(r) = "end"
            \/ state = "errorStart" /\ AfterFrame(r) = "errorBody"
            \/ state = "errorBody" /\ AfterFrame(r) = "errorEnd"
  BY <1>2, <1>3, <1>4 DEF AfterFrame, Sending, Failing
<1>6. AfterFrame(r) # "none" => controller' = controller
  BY <1>1, <1>2 DEF Typed
<1>7. CASE state \in {"start", "body"} /\ kind[r] = "stream" /\ AfterFrame(r) = "read"
  BY <1>1, <1>3, <1>6, <1>7, HandlerReads
<1>8. CASE state \in {"end", "errorEnd"} /\ AfterFrame(r) = "none"
  <2>1. controller' = [controller EXCEPT ![r] = FALSE]
    BY <1>1, <1>2, <1>8 DEF Typed
  <2>. QED BY <1>1, <1>3, <1>4, <1>8, <2>1, HandlerEnds
<1>9. CASE /\ AfterFrame(r) \in {"body", "end", "errorBody", "errorEnd"}
           /\ \/ state = "start" /\ kind[r] = "buffer" /\ AfterFrame(r) = "body"
              \/ state = "body" /\ kind[r] = "buffer" /\ AfterFrame(r) = "end"
              \/ state = "errorStart" /\ AfterFrame(r) = "errorBody"
              \/ state = "errorBody" /\ AfterFrame(r) = "errorEnd"
  <2>1. PICK next \in {"body", "end", "errorBody", "errorEnd"} : next = AfterFrame(r)
    BY <1>9
  <2>2. PICK f : f = NextFrame(r)
    OBVIOUS
  <2>3. PICK made \in 0..MaxChunks \cup {1} : made = produced[r]
    BY <1>2
  <2>4. f = CASE next = "body" -> Chunk(1)
              [] next = "errorBody" -> Chunk(ErrorBody)
              [] OTHER -> End
    BY <2>1, <2>2 DEF NextFrame
  <2>5. 1 \in 0..MaxChunks \cup {1} /\ ErrorBody \in 0..MaxChunks \cup {1}
    BY ChunkAssumption DEF ErrorBody
  <2>6. f \in FrameSet /\ f.type # "close"
    BY <2>4, <2>5, FrameTypes
  <2>7. DownSend(r, f)
    BY <1>1, <2>1, <2>2 DEF DownSend, Enqueue
  <2>8. /\ handler' = [handler EXCEPT ![r] = next] /\ next \in Sending
        /\ produced' = [produced EXCEPT ![r] = made] /\ made \in Nat /\ made >= made
    BY <1>1, <1>2, <2>1, <2>3 DEF Typed, Sending, Failing
  <2>9. UNCHANGED <<machinePending, controller, aborted, fetched>>
    BY <1>1, <1>6, <1>9
  <2>10. machineSocket = "open" /\ kind[r] = "buffer" => BufferStep(state, f, next)
    BY <1>9, <2>1, <2>4 DEF BufferStep
  <2>11. machineSocket = "open" /\ kind[r] = "stream" => StreamStep(state, f, next, made, made)
    BY <1>9, <2>1, <2>4 DEF StreamStep
  <2>12. UNCHANGED sockets /\ UNCHANGED cloudVars /\ UNCHANGED upLink
    BY <1>1
  <2>. QED BY <1>3, <1>4, <2>1, <2>3, <2>6, <2>7, <2>8, <2>9, <2>10, <2>11, <2>12, HandlerSends
<1>. QED BY <1>5, <1>7, <1>8, <1>9

-----------------------------------------------------------------------------
(***************************************************************************)
(* The theorems.                                                           *)
(***************************************************************************)
LEMMA Starts == Init => HttpInv
<1>. SUFFICES ASSUME Init PROVE HttpInv
  OBVIOUS
<1>1. /\ cloudSocket = "open" /\ machineSocket = "open"
      /\ upQueue = Quiet /\ upWire = Quiet /\ downQueue = Quiet /\ downWire = Quiet
  BY DEF Init, LinkInit
<1>2. <<>> \in FrameSeqs /\ <<>> \in ChunkSeqs /\ Quiet \in [Connections -> FrameSeqs]
  BY FrameTypes DEF Quiet
<1>3. Typed
  BY <1>1, <1>2, ChunkAssumption DEF Init, Typed, Uploads, Replies, MachineStates, Handlers
<1>4. ASSUME NEW r \in Connections PROVE Request(r)
  <2>1. /\ kind[r] = "buffer" /\ hasBody[r] = FALSE /\ pending[r] = FALSE /\ timer[r] = FALSE
        /\ active[r] = FALSE /\ upload[r] = "none" /\ reply[r] = "unused"
        /\ machinePending[r] = "none" /\ controller[r] = FALSE
        /\ handler[r] = "none" /\ fetched[r] = "nothing" /\ produced[r] = 0
    BY DEF Init
  <2>2. Up(r) = <<>> /\ Down(r) = <<>> /\ upQueue[r] = <<>> /\ downQueue[r] = <<>>
    BY <1>1, <1>2, Alone DEF Up, Down, Quiet
  <2>3. Caller(r) /\ Machine(r) /\ Unmade(r) /\ Made(r) /\ Buffered(r) /\ Streamed(r)
    BY <1>1, <2>1, <2>2 DEF Caller, Machine, Unmade, Made, Buffered, Streamed
  <2>4. Upload(r)
    BY <1>1, <2>1, <2>2, NothingUnderWay DEF Upload
  <2>. QED BY <2>3, <2>4 DEF Request
<1>. QED BY <1>3, <1>4 DEF HttpInv

LEMMA Stutters ==
  ASSUME HttpInv, UNCHANGED vars
  PROVE  HttpInv'
<1>1. /\ UNCHANGED cloudVars /\ UNCHANGED machineVars
      /\ cloudSocket' = cloudSocket /\ machineSocket' = machineSocket
      /\ upQueue' = upQueue /\ upWire' = upWire /\ downQueue' = downQueue /\ downWire' = downWire
  BY DEF vars, linkVars, sockets, upLink, downLink
<1>2. Typed'
  <2>1. Typed /\ CloudTyped' /\ MachineTyped'
    BY <1>1 DEF HttpInv, Typed, CloudTyped, MachineTyped, cloudVars, machineVars
  <2>. QED BY <1>1, <2>1 DEF Typed, CloudTyped, MachineTyped
<1>3. ASSUME NEW r \in Connections PROVE Request(r)'
  <2>1. Up(r)' = Up(r) /\ Down(r)' = Down(r)
    BY <1>1 DEF Up, Down
  <2>. QED BY <1>1, <2>1, Steady
<1>. QED BY <1>2, <1>3 DEF HttpInv

LEMMA Steps == HttpInv /\ [Next]_vars => HttpInv'
<1>. SUFFICES ASSUME HttpInv, [Next]_vars PROVE HttpInv'
  OBVIOUS
<1>1. CASE UNCHANGED vars
  BY <1>1, Stutters
<1>2. ASSUME NEW r \in Connections,
             \/ UpDrain(r) \/ DownDrain(r)
             \/ ProxyRequest(r) \/ UploadContinues(r) \/ UploadFails(r) \/ Timeout(r)
             \/ UploadOverflows(r) \/ Cancel(r)
      PROVE  HttpInv'
  BY <1>2, OnUpDrain, OnDownDrain, OnProxyRequest, OnUploadContinues, OnUploadFails, OnTimeout,
     OnUploadOverflows, OnCancel
<1>3. ASSUME NEW r \in Connections, CloudHandles(r) PROVE HttpInv'
  BY <1>3, OnReceiveStart, OnReceiveBody, OnReceiveBodyOverloads, OnReceiveEnd, OnReceiveClose
  DEF CloudHandles
<1>4. ASSUME NEW r \in Connections, MachineHandles(r) PROVE HttpInv'
  BY <1>4, OnMachineStart, OnMachineBody, OnMachineEnd, OnMachineClose DEF MachineHandles
<1>5. ASSUME NEW r \in Connections,
             \/ FetchResolves(r) \/ ReadChunk(r) \/ ReadDone(r) \/ HandlerFails(r)
             \/ HandlerAborts(r) \/ HandlerContinues(r) \/ ResponseOverflows(r)
      PROVE  HttpInv'
  BY <1>5, OnFetchResolves, OnReadChunk, OnReadDone, OnHandlerFails, OnHandlerAborts,
     OnHandlerContinues, OnResponseOverflows
<1>6. ASSUME \/ CloudSocketCloses \/ MachineSocketCloses \/ Replaced
             \/ CloudCloseEvent \/ MachineCloseEvent \/ MachineExits \/ Reconnect
      PROVE  HttpInv'
  BY <1>6, OnSocketCloses, OnReplaced, OnCloudCloseEvent, OnMachineCloseEvent, OnMachineExits,
     OnReconnect
<1>. QED BY <1>1, <1>2, <1>3, <1>4, <1>5, <1>6 DEF Next

\* The inductive invariant: the types, and of every request what its caller was told,
\* what the machine does for it, how the request goes on and how its response does
\* (MachineTunnel, MachineTunnelClient).
THEOREM HttpCorrect == Spec => []HttpInv
BY Starts, Steps, PTL DEF Spec

\* The variables of the tunnel's two ends and of its link keep their types.
THEOREM HttpTypeCorrect == Spec => []TypeOK
<1>1. HttpInv => TypeOK
  <2>1. FrameSeqs \subseteq Seq(Frames)
    <3>1. FrameSet \subseteq Frames
      BY DEF FrameSet
    <3>. QED BY <3>1 DEF FrameSeqs
  <2>2. SUFFICES ASSUME Typed PROVE TypeOK
    BY DEF HttpInv
  <2>3. ASSUME NEW q \in [Connections -> FrameSeqs] PROVE q \in [Connections -> Seq(Frames)]
    BY <2>1
  <2>4. {upQueue, upWire, downQueue, downWire} \subseteq [Connections -> Seq(Frames)]
    <3>1. /\ upQueue \in [Connections -> FrameSeqs] /\ upWire \in [Connections -> FrameSeqs]
          /\ downQueue \in [Connections -> FrameSeqs] /\ downWire \in [Connections -> FrameSeqs]
      BY <2>2 DEF Typed
    <3>2. /\ upQueue \in [Connections -> Seq(Frames)] /\ upWire \in [Connections -> Seq(Frames)]
          /\ downQueue \in [Connections -> Seq(Frames)]
          /\ downWire \in [Connections -> Seq(Frames)]
      BY <2>3, <3>1
    <3>. QED BY <3>2
  <2>5. /\ cloudSocket \in {"open", "closing", "replaced", "closed"}
        /\ machineSocket \in {"open", "closing", "closed"}
        /\ kind \in [Connections -> {"buffer", "stream"}]
        /\ {hasBody, pending, timer, active, controller, aborted} \subseteq [Connections -> BOOLEAN]
    BY <2>2 DEF Typed
  <2>6. /\ upload \in [Connections -> {"none", "start", "body", "end"}]
        /\ reply \in [Connections -> {"unused", "waiting", "streaming"} \cup Settled]
        /\ status \in [Connections -> {0, 200, 502}]
        /\ body \in [Connections -> Seq(0..MaxChunks \cup {1})]
        /\ machinePending \in [Connections -> {"none", "started", "withBody"}]
        /\ handler \in [Connections -> {"none", "fetch", "read"} \cup Sending]
        /\ fetched \in [Connections -> {"nothing", "started", "withBody"}]
        /\ produced \in [Connections -> 0..MaxChunks \cup {1}]
    BY <2>2 DEF Typed, Uploads, Replies, ChunkSeqs, MachineStates, Handlers
  <2>. QED BY <2>4, <2>5, <2>6 DEF TypeOK
<1>. QED BY <1>1, HttpCorrect, PTL

\* The local server is only asked what the caller asked: a request of which a frame
\* was lost, rejected or withdrawn on the way is never made without it
\* (sendHttpRequest, finishHttpRequest).
THEOREM WholeRequestCorrect == Spec => []WholeRequest
<1>1. HttpInv => WholeRequest
  BY DEF HttpInv, Request, Made, Asked, WholeRequest
<1>. QED BY <1>1, HttpCorrect, PTL

\* What a caller is answered, at once or as a stream, is what the local server
\* answered or the error in its place (handleMachineMessage, handleHttpRequest).
THEOREM AnswerCorrect == Spec => []AnswerIntegrity
<1>1. HttpInv => AnswerIntegrity
  <2>1. SUFFICES ASSUME HttpInv PROVE BufferedIntegrity /\ StreamPrefix
    BY DEF AnswerIntegrity
  <2>2. \A r \in Connections : Buffered(r) /\ Streamed(r)
    BY <2>1 DEF HttpInv, Request
  <2>3. BufferedIntegrity
    BY <2>2 DEF Buffered, Answer, BufferedIntegrity
  <2>4. StreamPrefix
    BY <2>2 DEF Streamed, StreamPrefix
  <2>. QED BY <2>3, <2>4
<1>. QED BY <1>1, HttpCorrect, PTL

\* A caller waits exactly as long as its request is in the map and its timeout is armed
\* (proxyHttpRequest, proxyStreamingHttpRequest).
THEOREM WaitingCorrect == Spec => []WaitingIsTimed
<1>1. HttpInv => WaitingIsTimed
  <2>1. ASSUME HttpInv, NEW r \in Connections
        PROVE  (reply[r] = "waiting") = timer[r] /\ timer[r] = pending[r]
    <3>1. Caller(r) /\ pending[r] \in BOOLEAN /\ timer[r] \in BOOLEAN
      BY <2>1, AtRequest
    <3>. QED BY <3>1 DEF Caller
  <2>. QED BY <2>1 DEF WaitingIsTimed
<1>. QED BY <1>1, HttpCorrect, PTL

\* The end of the tunnel is the end of every request on it, on both sides (the "close"
\* handlers of MachineTunnel and of MachineTunnelClient).
THEOREM TunnelEndCorrect == Spec => []NothingOutlivesTunnel
<1>1. HttpInv => NothingOutlivesTunnel
  <2>1. ASSUME HttpInv, NEW r \in Connections
        PROVE  /\ cloudSocket = "closed" =>
                    /\ reply[r] \notin {"waiting", "streaming"} /\ ~ active[r]
                    /\ upQueue[r] = <<>>
               /\ machineSocket = "closed" =>
                    /\ handler[r] \in {"fetch", "read"} => aborted[r]
                    /\ machinePending[r] = "none" /\ ~ controller[r] /\ downQueue[r] = <<>>
    <3>1. Caller(r) /\ Machine(r)
      BY <2>1, AtRequest
    <3>. QED BY <3>1 DEF Caller, Machine
  <2>. QED BY <2>1 DEF NothingOutlivesTunnel
<1>. QED BY <1>1, HttpCorrect, PTL

\* While a request to the local server runs, a close frame can still abort it
\* (startHttpRequest, finishHttpRequest, handleHttpRequest).
THEOREM AbortCorrect == Spec => []Abortable
<1>1. HttpInv => Abortable
  <2>1. ASSUME HttpInv, NEW r \in Connections
        PROVE  (machinePending[r] # "none" \/ handler[r] \in {"fetch", "read"}) /\ ~ aborted[r]
                 => controller[r]
    <3>1. Machine(r)
      BY <2>1, AtRequest
    <3>. QED BY <3>1 DEF Machine
  <2>. QED BY <2>1 DEF Abortable
<1>. QED BY <1>1, HttpCorrect, PTL

=============================================================================
