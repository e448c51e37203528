-------------------------- MODULE TunnelRoutesProofs --------------------------
(***************************************************************************)
(* The safety properties of the websocket routes over the tunnel for any   *)
(* number of connections and of messages, whatever happens to the          *)
(* websockets, to the tunnel and to the machine.                           *)
(***************************************************************************)
EXTENDS TunnelRoutes, SequenceTheorems, TLAPS

\* A frame of data has the number of its message.
FrameSet == {f \in Frames : f.type = "data" => f.n \in 1..MaxMessages}
FrameSeqs == Seq(FrameSet)
NumberSeqs == Seq(1..MaxMessages)

GatewayStates == {"none", "open", "closing", "failed", "closed"}
LocalStates == {"none", "connecting", "open", "aborted", "failed", "closing", "closed"}

\* The types, each variable's by itself.
Typed ==
  /\ cloudSocket \in {"open", "closing", "replaced", "closed"}
  /\ machineSocket \in {"open", "closing", "closed"}
  /\ upQueue \in [Connections -> FrameSeqs] /\ upWire \in [Connections -> FrameSeqs]
  /\ downQueue \in [Connections -> FrameSeqs] /\ downWire \in [Connections -> FrameSeqs]
  /\ gateway \in [Connections -> GatewayStates] /\ local \in [Connections -> LocalStates]
  /\ known \in [Connections -> BOOLEAN] /\ inLocal \in [Connections -> BOOLEAN]
  /\ refused \in [Connections -> BOOLEAN]
  /\ sent \in [Connections -> 0..MaxMessages] /\ produced \in [Connections -> 0..MaxMessages]
  /\ toUser \in [Connections -> NumberSeqs] /\ toLocal \in [Connections -> NumberSeqs]
  /\ pendingData \in [Connections -> NumberSeqs]

\* What is under way in either direction, what the machine has taken of the user's messages.
Up(c) == upWire[c] \o upQueue[c]
Down(c) == downWire[c] \o downQueue[c]
Taken(c) == toLocal[c] \o pendingData[c]

Has(frames, type) == \E i \in 1..Len(frames) : frames[i].type = type

\* What the tables and the tunnel's sockets say of the websockets of a route.
Tables(c) ==
  /\ known[c] => gateway[c] \in {"open", "closing"} /\ cloudSocket \in {"open", "closing"}
  /\ gateway[c] = "open" => known[c]
  /\ inLocal[c] => local[c] \in {"connecting", "open", "closing"} /\ machineSocket # "closed"
  /\ local[c] \in {"connecting", "open"} => inLocal[c]
  /\ pendingData[c] # <<>> => inLocal[c] /\ local[c] # "open"
  /\ cloudSocket = "closed" => upQueue[c] = <<>>
  /\ machineSocket = "closed" => downQueue[c] = <<>>

OneOpen(frames) ==
  \A i, j \in 1..Len(frames) : frames[i].type = "open" /\ frames[j].type = "open" => i = j
OpenFirst(frames) == \A i \in 1..Len(frames) : frames[i].type = "open" => i = 1
OnlyCloses(frames) == \A i \in 1..Len(frames) : frames[i].type = "close"

\* A route is opened once, before anything else unless a message was refused, and closed by
\* an end that is not open any longer.
OpensOnce(c) ==
  /\ Has(Up(c), "open") => local[c] = "none"
  /\ OneOpen(Up(c))
  /\ ~ refused[c] => OpenFirst(Up(c))
  /\ Has(Up(c), "close") => gateway[c] # "open"
  /\ Has(Down(c), "close") => ~ inLocal[c] /\ local[c] \notin {"none", "connecting"}

\* Nothing has come from a local websocket that has not opened.
NothingYet(c) ==
  /\ local[c] \in {"none", "connecting"} =>
       Down(c) = <<>> /\ produced[c] = 0 /\ toUser[c] = <<>> /\ toLocal[c] = <<>>
  /\ local[c] = "aborted" => OnlyCloses(Down(c))

\* The first frame when it is not one of data.
Lead(frames) == IF frames # <<>> /\ frames[1].type # "data" THEN 1 ELSE 0

\* Before a close, the frames carry the messages that come after the k-th.
Carry(frames, k) ==
  \A i \in 1..Len(frames) :
    (\A j \in 1..i : frames[j].type # "close") =>
      IF frames[i].type = "data" THEN frames[i].n + Lead(frames) = k + i ELSE i = 1

\* ... up to the n-th, when no close is among them.
UpTo(frames, k, n) == Has(frames, "close") \/ n + Lead(frames) = k + Len(frames)

\* The machine takes what comes: it has the route's websocket, or is about to.
Taking(c) == inLocal[c] \/ Has(Up(c), "open")

UpInOrder(c) ==
  ~ refused[c] =>
    /\ IsPrefixOfNumbers(Taken(c))
    /\ Taking(c) =>
         /\ Carry(Up(c), Len(Taken(c)))
         /\ cloudSocket = "open" /\ gateway[c] \in {"open", "closing"} =>
              UpTo(Up(c), Len(Taken(c)), sent[c])

DownInOrder(c) ==
  /\ IsPrefixOfNumbers(toUser[c])
  /\ gateway[c] = "open" =>
       /\ Carry(Down(c), Len(toUser[c]))
       /\ machineSocket = "open" /\ local[c] \in {"open", "closing"} =>
            UpTo(Down(c), Len(toUser[c]), produced[c])

Route(c) == Tables(c) /\ OpensOnce(c) /\ NothingYet(c) /\ UpInOrder(c) /\ DownInOrder(c)

RoutesInv == Typed /\ \A c \in Connections : Route(c)

-----------------------------------------------------------------------------
(***************************************************************************)
(* Frames on their way: a wire w and the queue q behind it.                *)
(***************************************************************************)
LEMMA FrameTypes ==
  /\ OpenFrame \in FrameSet /\ OpenOk \in FrameSet /\ OpenFailed \in FrameSet
  /\ CloseFrame \in FrameSet
  /\ \A n \in 1..MaxMessages : Data(n) \in FrameSet /\ Data(n).type = "data" /\ Data(n).n = n
  /\ OpenFrame.type = "open" /\ OpenOk.type = "openOk" /\ OpenFailed.type = "openFailed"
  /\ CloseFrame.type = "close"
  /\ <<>> \in FrameSeqs /\ <<>> \in NumberSeqs
BY MessageAssumption DEF FrameSet, Frames, OpenFrame, OpenOk, OpenFailed, CloseFrame, Data, Frame,
                         FrameSeqs, NumberSeqs

LEMMA FrameSeqLen ==
  ASSUME NEW w \in FrameSeqs
  PROVE  /\ Len(w) \in Nat /\ (w = <<>> <=> Len(w) = 0)
         /\ \A i \in 1..Len(w) : w[i] \in FrameSet
BY LenProperties, EmptySeq, ElementOfSeq DEF FrameSeqs

\* What is appended to either comes last, when nothing is queued behind the wire.
LEMMA WireAppend ==
  ASSUME NEW w \in FrameSeqs, NEW q \in FrameSeqs, NEW f \in FrameSet
  PROVE  /\ Append(w, f) \in FrameSeqs /\ w \o q \in FrameSeqs
         /\ q = <<>> => Append(w, f) \o q = Append(w \o q, f)
         /\ w \o Append(q, f) = Append(w \o q, f)
<1>1. /\ Append(w, f) \in Seq(FrameSet) /\ Append(q, f) \in Seq(FrameSet)
      /\ w \o q \in Seq(FrameSet) /\ <<f>> \in Seq(FrameSet)
  BY AppendProperties, ConcatProperties DEF FrameSeqs
<1>2. q = <<>> => Append(w, f) \o q = Append(w \o q, f)
  <2>1. Append(w, f) \o <<>> = Append(w, f)
    BY <1>1, ConcatEmptySeq
  <2>2. w \o <<>> = w
    BY ConcatEmptySeq DEF FrameSeqs
  <2>. QED BY <2>1, <2>2
<1>3. w \o Append(q, f) = Append(w \o q, f)
  <2>1. Append(q, f) = q \o <<f>> /\ Append(w \o q, f) = (w \o q) \o <<f>>
    BY <1>1, AppendIsConcat DEF FrameSeqs
  <2>2. (w \o q) \o <<f>> = w \o (q \o <<f>>)
    BY <1>1, ConcatAssociative DEF FrameSeqs
  <2>. QED BY <2>1, <2>2
<1>. QED BY <1>1, <1>2, <1>3 DEF FrameSeqs

\* The first of the queue goes to the wire: nothing has changed.
LEMMA WireDrain ==
  ASSUME NEW w \in FrameSeqs, NEW q \in FrameSeqs, q # <<>>
  PROVE  /\ Append(w, Head(q)) \in FrameSeqs /\ Tail(q) \in FrameSeqs
         /\ Append(w, Head(q)) \o Tail(q) = w \o q
<1>1. Head(q) \in FrameSet /\ Tail(q) \in Seq(FrameSet) /\ <<Head(q)>> \in Seq(FrameSet)
  BY HeadTailProperties DEF FrameSeqs
<1>2. Append(w, Head(q)) = w \o <<Head(q)>> /\ Append(w, Head(q)) \in Seq(FrameSet)
  BY <1>1, AppendIsConcat, AppendProperties DEF FrameSeqs
<1>3. (w \o <<Head(q)>>) \o Tail(q) = w \o (<<Head(q)>> \o Tail(q))
  BY <1>1, ConcatAssociative DEF FrameSeqs
<1>4. <<Head(q)>> \o Tail(q) = q
  <2>1. /\ Len(<<Head(q)>>) = 1 /\ <<Head(q)>>[1] = Head(q) /\ Head(q) = q[1]
        /\ Len(q) \in Nat \ {0} /\ Len(Tail(q)) = Len(q) - 1
        /\ \A i \in 1..Len(Tail(q)) : Tail(q)[i] = q[i + 1]
    BY HeadTailProperties, EmptySeq DEF FrameSeqs
  <2>. DEFINE a == <<Head(q)>>  t == Tail(q)
  <2>. HIDE DEF a, t
  <2>2. /\ a \o t \in Seq(FrameSet) /\ Len(a \o t) = Len(a) + Len(t)
        /\ \A i \in 1..Len(a) + Len(t) : (a \o t)[i] = IF i <= Len(a) THEN a[i] ELSE t[i - Len(a)]
    BY <1>1, ConcatProperties DEF a, t
  <2>3. /\ Len(a) = 1 /\ a[1] = q[1] /\ Len(q) \in Nat \ {0} /\ Len(t) = Len(q) - 1
        /\ \A i \in 1..Len(t) : t[i] = q[i + 1]
    BY <2>1 DEF a, t
  <2>4. ASSUME NEW i \in 1..Len(q) PROVE (a \o t)[i] = q[i]
    <3>1. CASE i = 1
      BY <2>2, <2>3, <3>1
    <3>2. CASE i # 1
      <4>1. i - 1 \in 1..Len(t) /\ (i - 1) + 1 = i
        BY <2>3, <3>2
      <4>2. t[i - 1] = q[(i - 1) + 1]
        BY <2>3, <4>1
      <4>. QED BY <2>2, <2>3, <3>2, <4>1, <4>2
    <3>. QED BY <3>1, <3>2
  <2>5. Len(a \o t) = Len(q)
    BY <2>2, <2>3
  <2>6. a \o t = q
    BY <2>2, <2>4, <2>5, SeqEqual DEF FrameSeqs
  <2>. QED BY <2>6 DEF a, t
<1>. QED BY <1>1, <1>2, <1>3, <1>4 DEF FrameSeqs

\* The first of the wire arrives.
LEMMA WireTail ==
  ASSUME NEW w \in FrameSeqs, NEW q \in FrameSeqs, w # <<>>
  PROVE  /\ Tail(w) \in FrameSeqs /\ Head(w) \in FrameSet
         /\ w \o q # <<>> /\ Head(w \o q) = Head(w) /\ Tail(w) \o q = Tail(w \o q)
<1>1. Head(w) \in FrameSet /\ Tail(w) \in Seq(FrameSet) /\ Len(Tail(w)) = Len(w) - 1
      /\ Len(w) \in Nat \ {0} /\ Len(q) \in Nat /\ Head(w) = w[1]
      /\ \A i \in 1..Len(Tail(w)) : Tail(w)[i] = w[i + 1]
  BY HeadTailProperties, EmptySeq, LenProperties DEF FrameSeqs
<1>. DEFINE s == w \o q  t == Tail(w)
<1>2. /\ s \in Seq(FrameSet) /\ Len(s) = Len(w) + Len(q)
      /\ \A i \in 1..Len(w) + Len(q) : s[i] = IF i <= Len(w) THEN w[i] ELSE q[i - Len(w)]
  BY ConcatProperties DEF FrameSeqs
<1>3. /\ t \o q \in Seq(FrameSet) /\ Len(t \o q) = Len(t) + Len(q)
      /\ \A i \in 1..Len(t) + Len(q) : (t \o q)[i] = IF i <= Len(t) THEN t[i] ELSE q[i - Len(t)]
  BY <1>1, ConcatProperties DEF FrameSeqs
<1>4. Len(t) = Len(w) - 1 /\ \A i \in 1..Len(t) : t[i] = w[i + 1]
  BY <1>1
<1>. HIDE DEF s, t
<1>5. s # <<>> /\ Len(s) >= 1 /\ Head(s) = s[1] /\ s[1] = w[1]
  <2>1. Len(s) >= 1 /\ s[1] = w[1]
    BY <1>1, <1>2
  <2>2. s # <<>>
    BY <2>1, EmptySeq
  <2>. QED BY <1>2, <2>1, <2>2, HeadTailProperties
<1>6. /\ Tail(s) \in Seq(FrameSet) /\ Len(Tail(s)) = Len(s) - 1
      /\ \A i \in 1..Len(Tail(s)) : Tail(s)[i] = s[i + 1]
  BY <1>2, <1>5, HeadTailProperties
<1>. DEFINE u == Tail(s)
<1>. HIDE DEF u
<1>7. /\ u \in Seq(FrameSet) /\ Len(u) = Len(s) - 1
      /\ \A i \in 1..Len(u) : u[i] = s[i + 1]
  BY <1>6 DEF u
<1>8. Len(t \o q) = Len(u)
  BY <1>1, <1>2, <1>3, <1>4, <1>7
<1>9. ASSUME NEW i \in 1..Len(t \o q) PROVE (t \o q)[i] = u[i]
  <2>1. i \in 1..Len(t) + Len(q) /\ i + 1 \in 1..Len(w) + Len(q) /\ i \in 1..Len(u)
    BY <1>1, <1>2, <1>3, <1>4, <1>7, <1>9
  <2>2. u[i] = s[i + 1]
    BY <1>7, <2>1
  <2>3. CASE i <= Len(t)
    <3>1. i + 1 <= Len(w) /\ i \in 1..Len(t)
      BY <1>1, <1>4, <2>1, <2>3
    <3>2. (t \o q)[i] = t[i] /\ s[i + 1] = w[i + 1]
      BY <1>2, <1>3, <2>1, <2>3, <3>1
    <3>. QED BY <1>4, <2>2, <3>1, <3>2
  <2>4. CASE ~ (i <= Len(t))
    <3>1. ~ (i + 1 <= Len(w)) /\ (i + 1) - Len(w) = i - Len(t)
      BY <1>1, <1>4, <2>1, <2>4
    <3>2. (t \o q)[i] = q[i - Len(t)] /\ s[i + 1] = q[(i + 1) - Len(w)]
      BY <1>2, <1>3, <2>1, <2>4, <3>1
    <3>. QED BY <2>2, <3>1, <3>2
  <2>. QED BY <2>3, <2>4
<1>10. t \o q = u
  BY <1>3, <1>7, <1>8, <1>9, SeqEqual
<1>. QED BY <1>1, <1>5, <1>10 DEF s, t, u, FrameSeqs

-----------------------------------------------------------------------------
(***************************************************************************)
(* What is said of the frames under way, when one of them is added, taken  *)
(* or dropped.                                                             *)
(***************************************************************************)
LEMMA NoneAtAll ==
  /\ \A type : ~ Has(<<>>, type)
  /\ OneOpen(<<>>) /\ OpenFirst(<<>>) /\ OnlyCloses(<<>>)
  /\ \A k : Carry(<<>>, k) /\ (k \in Nat => UpTo(<<>>, k, k))
BY DEF Has, OneOpen, OpenFirst, OnlyCloses, Carry, UpTo, Lead

\* Of a single frame, which has no number.
LEMMA OneFrame ==
  ASSUME NEW f \in FrameSet, f.type # "data"
  PROVE  /\ <<f>> \in FrameSeqs /\ Append(<<>>, f) = <<f>>
         /\ \A type : Has(<<f>>, type) <=> type = f.type
         /\ OneOpen(<<f>>) /\ OpenFirst(<<f>>) /\ (f.type = "close" => OnlyCloses(<<f>>))
         /\ \A k \in Nat : Carry(<<f>>, k) /\ UpTo(<<f>>, k, k)
<1>. DEFINE s == <<f>>
<1>1. s \in FrameSeqs /\ Append(<<>>, f) = s /\ Len(s) = 1 /\ s[1] = f /\ s # <<>>
  BY DEF FrameSeqs
<1>. HIDE DEF s
<1>2. \A type : Has(s, type) <=> type = f.type
  BY <1>1 DEF Has
<1>3. OneOpen(s) /\ OpenFirst(s) /\ (f.type = "close" => OnlyCloses(s))
  BY <1>1 DEF OneOpen, OpenFirst, OnlyCloses
<1>4. ASSUME NEW k \in Nat PROVE Carry(s, k) /\ UpTo(s, k, k)
  BY <1>1 DEF Carry, UpTo, Lead
<1>. QED BY <1>1, <1>2, <1>3, <1>4 DEF s

LEMMA AppendAt ==
  ASSUME NEW u \in FrameSeqs, NEW f \in FrameSet
  PROVE  /\ Append(u, f) \in FrameSeqs /\ Append(u, f) # <<>>
         /\ Len(u) \in Nat /\ Len(Append(u, f)) = Len(u) + 1
         /\ \A i \in 1..Len(u) : Append(u, f)[i] = u[i]
         /\ Append(u, f)[Len(u) + 1] = f
BY AppendProperties, LenProperties DEF FrameSeqs

LEMMA HasAppend ==
  ASSUME NEW u \in FrameSeqs, NEW f \in FrameSet
  PROVE  /\ \A type : Has(Append(u, f), type) <=> Has(u, type) \/ f.type = type
         /\ OneOpen(u) /\ (f.type = "open" => ~ Has(u, "open")) => OneOpen(Append(u, f))
         /\ OpenFirst(u) /\ (f.type = "open" => u = <<>>) => OpenFirst(Append(u, f))
         /\ OnlyCloses(u) /\ f.type = "close" => OnlyCloses(Append(u, f))
<1>. DEFINE s == Append(u, f)
<1>1. /\ Len(u) \in Nat /\ Len(s) = Len(u) + 1 /\ s[Len(u) + 1] = f
      /\ \A i \in 1..Len(u) : s[i] = u[i]
      /\ (u = <<>> <=> Len(u) = 0)
  BY AppendAt, FrameSeqLen
<1>. HIDE DEF s
<1>2. \A i \in 1..Len(s) : i \in 1..Len(u) \/ i = Len(u) + 1
  BY <1>1
<1>3. \A type : Has(s, type) <=> Has(u, type) \/ f.type = type
  <2>1. ASSUME NEW type, Has(s, type) PROVE Has(u, type) \/ f.type = type
    BY <1>1, <1>2, <2>1 DEF Has
  <2>2. ASSUME NEW type, Has(u, type) PROVE Has(s, type)
    <3>1. PICK i \in 1..Len(u) : u[i].type = type
      BY <2>2 DEF Has
    <3>2. i \in 1..Len(s) /\ s[i].type = type
      BY <1>1, <3>1
    <3>. QED BY <3>2 DEF Has
  <2>3. ASSUME NEW type, f.type = type PROVE Has(s, type)
    <3>1. Len(u) + 1 \in 1..Len(s) /\ s[Len(u) + 1].type = type
      BY <1>1, <2>3
    <3>. QED BY <3>1 DEF Has
  <2>. QED BY <2>1, <2>2, <2>3
<1>4. ASSUME OneOpen(u), f.type = "open" => ~ Has(u, "open") PROVE OneOpen(s)
  BY <1>1, <1>2, <1>4 DEF OneOpen, Has
<1>5. ASSUME OpenFirst(u), f.type = "open" => u = <<>> PROVE OpenFirst(s)
  BY <1>1, <1>2, <1>5 DEF OpenFirst
<1>6. ASSUME OnlyCloses(u), f.type = "close" PROVE OnlyCloses(s)
  BY <1>1, <1>2, <1>6 DEF OnlyCloses
<1>. QED BY <1>3, <1>4, <1>5, <1>6 DEF s

\* The next message.
LEMMA CarryData ==
  ASSUME NEW u \in FrameSeqs, NEW f \in FrameSet, NEW k \in Nat, NEW n \in Nat,
         Carry(u, k), UpTo(u, k, n), f.type = "data", f.n = n + 1
  PROVE  Carry(Append(u, f), k) /\ UpTo(Append(u, f), k, n + 1)
<1>. DEFINE s == Append(u, f)
<1>1. /\ Len(u) \in Nat /\ Len(s) = Len(u) + 1 /\ s[Len(u) + 1] = f /\ s # <<>>
      /\ \A i \in 1..Len(u) : s[i] = u[i]
      /\ (u = <<>> <=> Len(u) = 0)
  BY AppendAt, FrameSeqLen
<1>2. \A type : Has(s, type) <=> Has(u, type) \/ f.type = type
  BY HasAppend
<1>. HIDE DEF s
<1>3. \A i \in 1..Len(s) : i \in 1..Len(u) \/ i = Len(u) + 1
  BY <1>1
<1>4. Lead(s) = Lead(u) /\ Lead(u) \in {0, 1}
  <2>1. CASE u = <<>>
    BY <1>1, <2>1 DEF Lead
  <2>2. CASE u # <<>>
    <3>1. s[1] = u[1]
      BY <1>1, <2>2
    <3>. QED BY <1>1, <2>2, <3>1 DEF Lead
  <2>. QED BY <2>1, <2>2
<1>5. UpTo(s, k, n + 1)
  BY <1>1, <1>2, <1>4 DEF UpTo
<1>6. ASSUME NEW i \in 1..Len(s), \A j \in 1..i : s[j].type # "close"
      PROVE  IF s[i].type = "data" THEN s[i].n + Lead(s) = k + i ELSE i = 1
  <2>1. CASE i \in 1..Len(u)
    <3>1. \A j \in 1..i : u[j].type # "close"
      BY <1>1, <1>6, <2>1
    <3>2. s[i] = u[i]
      BY <1>1, <2>1
    <3>. QED BY <1>4, <2>1, <3>1, <3>2 DEF Carry
  <2>2. CASE i = Len(u) + 1
    <3>1. ~ Has(u, "close")
      <4>1. ASSUME NEW j \in 1..Len(u) PROVE u[j].type # "close"
        <5>1. j \in 1..i /\ s[j] = u[j]
          BY <1>1, <2>2
        <5>. QED BY <1>6, <5>1
      <4>. QED BY <4>1 DEF Has
    <3>2. n + Lead(u) = k + Len(u)
      BY <3>1 DEF UpTo
    <3>. QED BY <1>1, <1>4, <2>2, <3>2
  <2>. QED BY <1>3, <2>1, <2>2
<1>7. Carry(s, k)
  BY <1>6 DEF Carry
<1>. QED BY <1>5, <1>7 DEF s

\* What is left when the queue is dropped, and what comes after a close.
LEMMA CarryPrefix ==
  ASSUME NEW s \in FrameSeqs, NEW w \in FrameSeqs, NEW k \in Nat, Carry(s, k), Len(w) <= Len(s),
         \A i \in 1..Len(w) : w[i] = s[i]
  PROVE  Carry(w, k)
<1>1. Len(w) \in Nat /\ Len(s) \in Nat /\ (w = <<>> <=> Len(w) = 0) /\ (s = <<>> <=> Len(s) = 0)
  BY FrameSeqLen
<1>2. ASSUME NEW i \in 1..Len(w), \A j \in 1..i : w[j].type # "close"
      PROVE  IF w[i].type = "data" THEN w[i].n + Lead(w) = k + i ELSE i = 1
  <2>1. i \in 1..Len(s) /\ \A j \in 1..i : s[j].type # "close"
    BY <1>1, <1>2
  <2>2. 1 \in 1..Len(w) /\ w # <<>> /\ s # <<>>
    BY <1>1
  <2>3. Lead(w) = Lead(s)
    BY <2>2 DEF Lead
  <2>. QED BY <2>1, <2>3 DEF Carry
<1>. QED BY <1>2 DEF Carry

LEMMA CarryClosed ==
  ASSUME NEW s \in FrameSeqs, NEW k \in Nat, NEW m \in Nat, NEW w \in FrameSeqs, Carry(w, k),
         m <= Len(w), m < Len(s), s[m + 1].type = "close", \A i \in 1..m : s[i] = w[i]
  PROVE  Carry(s, k) /\ \A n : UpTo(s, k, n)
<1>1. Len(w) \in Nat /\ Len(s) \in Nat /\ (w = <<>> <=> Len(w) = 0) /\ (s = <<>> <=> Len(s) = 0)
  BY FrameSeqLen
<1>2. ASSUME NEW i \in 1..Len(s), \A j \in 1..i : s[j].type # "close"
      PROVE  IF s[i].type = "data" THEN s[i].n + Lead(s) = k + i ELSE i = 1
  <2>1. i <= m
    <3>1. CASE m + 1 <= i
      BY <1>2, <3>1
    <3>. QED BY <3>1
  <2>2. i \in 1..m /\ i \in 1..Len(w) /\ 1 \in 1..m /\ w # <<>> /\ s # <<>>
    BY <1>1, <2>1
  <2>3. \A j \in 1..i : w[j].type # "close"
    <3>1. \A j \in 1..i : j \in 1..m
      BY <2>2
    <3>. QED BY <1>2, <3>1
  <2>4. Lead(w) = Lead(s) /\ w[i] = s[i]
    BY <2>2 DEF Lead
  <2>. QED BY <2>2, <2>3, <2>4 DEF Carry
<1>3. Has(s, "close")
  <2>1. m + 1 \in 1..Len(s)
    BY <1>1
  <2>. QED BY <2>1 DEF Has
<1>. QED BY <1>2, <1>3 DEF Carry, UpTo

\* A close comes last.
LEMMA CarryClose ==
  ASSUME NEW w \in FrameSeqs, NEW k \in Nat, Carry(w, k)
  PROVE  Carry(Append(w, CloseFrame), k) /\ \A n : UpTo(Append(w, CloseFrame), k, n)
<1>1. /\ Append(w, CloseFrame) \in FrameSeqs /\ Len(w) \in Nat
      /\ Len(Append(w, CloseFrame)) = Len(w) + 1
      /\ Append(w, CloseFrame)[Len(w) + 1].type = "close"
      /\ \A i \in 1..Len(w) : Append(w, CloseFrame)[i] = w[i]
  BY AppendAt, FrameTypes
<1>2. Len(w) <= Len(w) /\ Len(w) < Len(Append(w, CloseFrame))
  BY <1>1
<1>. QED BY <1>1, <1>2, CarryClosed

LEMMA ConcatAt ==
  ASSUME NEW w \in FrameSeqs, NEW q \in FrameSeqs
  PROVE  /\ w \o q \in FrameSeqs /\ Len(w) \in Nat /\ Len(q) \in Nat
         /\ Len(w \o q) = Len(w) + Len(q)
         /\ \A i \in 1..Len(w) : (w \o q)[i] = w[i]
         /\ \A i \in 1..Len(q) : (w \o q)[Len(w) + i] = q[i]
         /\ \A i \in 1..Len(w \o q) :
              (w \o q)[i] = IF i <= Len(w) THEN w[i] ELSE q[i - Len(w)]
<1>. DEFINE s == w \o q
<1>1. /\ s \in Seq(FrameSet) /\ Len(s) = Len(w) + Len(q)
      /\ \A i \in 1..Len(w) + Len(q) : s[i] = IF i <= Len(w) THEN w[i] ELSE q[i - Len(w)]
      /\ Len(w) \in Nat /\ Len(q) \in Nat
  BY ConcatProperties, LenProperties DEF FrameSeqs
<1>. HIDE DEF s
<1>2. \A i \in 1..Len(w) : s[i] = w[i]
  BY <1>1
<1>3. ASSUME NEW i \in 1..Len(q) PROVE s[Len(w) + i] = q[i]
  <2>1. Len(w) + i \in 1..Len(w) + Len(q) /\ ~ (Len(w) + i <= Len(w)) /\ (Len(w) + i) - Len(w) = i
    BY <1>1
  <2>. QED BY <1>1, <2>1
<1>. QED BY <1>1, <1>2, <1>3 DEF s, FrameSeqs

\* The queue is dropped.
LEMMA Dropped ==
  ASSUME NEW w \in FrameSeqs, NEW q \in FrameSeqs
  PROVE  /\ \A type : Has(w, type) => Has(w \o q, type)
         /\ OneOpen(w \o q) => OneOpen(w)
         /\ OpenFirst(w \o q) => OpenFirst(w)
         /\ OnlyCloses(w \o q) => OnlyCloses(w)
         /\ \A k \in Nat : Carry(w \o q, k) => Carry(w, k)
         /\ w \o <<>> = w
         /\ w \o q = <<>> => w = <<>> /\ q = <<>>
<1>. DEFINE s == w \o q
<1>1. /\ s \in FrameSeqs /\ Len(w) \in Nat /\ Len(q) \in Nat /\ Len(s) = Len(w) + Len(q)
      /\ \A i \in 1..Len(w) : s[i] = w[i]
  BY ConcatAt
<1>2. w \o <<>> = w
  BY ConcatEmptySeq DEF FrameSeqs
<1>. HIDE DEF s
<1>3. \A i \in 1..Len(w) : i \in 1..Len(s)
  BY <1>1
<1>4. \A type : Has(w, type) => Has(s, type)
  BY <1>1, <1>3 DEF Has
<1>5. OneOpen(s) => OneOpen(w)
  BY <1>1, <1>3 DEF OneOpen
<1>6. (OpenFirst(s) => OpenFirst(w)) /\ (OnlyCloses(s) => OnlyCloses(w))
  BY <1>1, <1>3 DEF OpenFirst, OnlyCloses
<1>7. ASSUME NEW k \in Nat, Carry(s, k) PROVE Carry(w, k)
  <2>1. Len(w) <= Len(s)
    BY <1>1
  <2>. QED BY <1>1, <1>7, <2>1, CarryPrefix
<1>8. s = <<>> => w = <<>> /\ q = <<>>
  BY <1>1, FrameSeqLen
<1>. QED BY <1>2, <1>4, <1>5, <1>6, <1>7, <1>8 DEF s

\* The wire is lost.
LEMMA Unwired ==
  ASSUME NEW w \in FrameSeqs, NEW q \in FrameSeqs
  PROVE  /\ \A type : Has(q, type) => Has(w \o q, type)
         /\ OneOpen(w \o q) => OneOpen(q)
         /\ OpenFirst(w \o q) => OpenFirst(q)
         /\ OpenFirst(w \o q) /\ Has(q, "open") => w \o q = q
         /\ OnlyCloses(w \o q) => OnlyCloses(q)
         /\ <<>> \o q = q
<1>. DEFINE s == w \o q
<1>1. /\ s \in FrameSeqs /\ Len(w) \in Nat /\ Len(q) \in Nat /\ Len(s) = Len(w) + Len(q)
      /\ \A i \in 1..Len(q) : s[Len(w) + i] = q[i]
  BY ConcatAt
<1>2. <<>> \o q = q
  BY ConcatEmptySeq DEF FrameSeqs
<1>3. OpenFirst(s) /\ Has(q, "open") => w = <<>>
  <2>. HIDE DEF s
  <2>1. SUFFICES ASSUME OpenFirst(s), Has(q, "open") PROVE w = <<>>
    OBVIOUS
  <2>2. PICK i \in 1..Len(q) : q[i].type = "open"
    BY <2>1 DEF Has
  <2>3. Len(w) + i \in 1..Len(s) /\ s[Len(w) + i].type = "open"
    BY <1>1, <2>2
  <2>4. Len(w) + i = 1
    BY <2>1, <2>3 DEF OpenFirst
  <2>5. Len(w) = 0
    BY <1>1, <2>4
  <2>. QED BY <2>5, FrameSeqLen
<1>4. OpenFirst(s) /\ Has(q, "open") => s = q
  BY <1>2, <1>3 DEF s
<1>. HIDE DEF s
<1>5. \A i \in 1..Len(q) : Len(w) + i \in 1..Len(s)
  BY <1>1
<1>6. \A type : Has(q, type) => Has(s, type)
  BY <1>1, <1>5 DEF Has
<1>7. OneOpen(s) => OneOpen(q)
  <2>1. \A i, j \in 1..Len(q) : Len(w) + i = Len(w) + j => i = j
    BY <1>1
  <2>. QED BY <1>1, <1>5, <2>1 DEF OneOpen
<1>8. OpenFirst(s) => OpenFirst(q)
  <2>1. \A i \in 1..Len(q) : Len(w) + i = 1 => i = 1
    BY <1>1
  <2>. QED BY <1>1, <1>5, <2>1 DEF OpenFirst
<1>9. OnlyCloses(s) => OnlyCloses(q)
  BY <1>1, <1>5 DEF OnlyCloses
<1>. QED BY <1>2, <1>4, <1>6, <1>7, <1>8, <1>9 DEF s

\* A close goes to the wire, past the queue.
LEMMA Overtaken ==
  ASSUME NEW w \in FrameSeqs, NEW q \in FrameSeqs
  PROVE  LET s == Append(w, CloseFrame) \o q IN
         /\ Append(w, CloseFrame) \in FrameSeqs /\ s \in FrameSeqs
         /\ Has(s, "close")
         /\ \A type : type # "close" => (Has(s, type) <=> Has(w \o q, type))
         /\ OneOpen(w \o q) => OneOpen(s)
         /\ OnlyCloses(w \o q) => OnlyCloses(s)
         /\ \A k \in Nat : Carry(w \o q, k) => Carry(s, k) /\ \A n : UpTo(s, k, n)
<1>. DEFINE a == Append(w, CloseFrame)  s == a \o q  u == w \o q
<1>1. /\ u \in FrameSeqs /\ Len(w) \in Nat /\ Len(q) \in Nat /\ Len(u) = Len(w) + Len(q)
      /\ \A i \in 1..Len(u) : u[i] = IF i <= Len(w) THEN w[i] ELSE q[i - Len(w)]
  BY ConcatAt
<1>2. /\ a \in FrameSeqs /\ Len(a) = Len(w) + 1 /\ a[Len(w) + 1].type = "close"
      /\ \A i \in 1..Len(w) : a[i] = w[i]
  BY AppendAt, FrameTypes
<1>3. /\ s \in FrameSeqs /\ Len(s) = Len(a) + Len(q)
      /\ \A i \in 1..Len(s) : s[i] = IF i <= Len(a) THEN a[i] ELSE q[i - Len(a)]
  BY <1>2, ConcatAt
<1>. HIDE DEF a, s, u
<1>4. /\ Len(s) = Len(w) + 1 + Len(q) /\ Len(w) + 1 \in 1..Len(s)
      /\ s[Len(w) + 1].type = "close"
      /\ \A i \in 1..Len(w) : s[i] = u[i] /\ i \in 1..Len(s) /\ i \in 1..Len(u)
  BY <1>1, <1>2, <1>3
<1>5. ASSUME NEW i \in 1..Len(u), ~ (i <= Len(w))
      PROVE  i + 1 \in 1..Len(s) /\ s[i + 1] = u[i]
  <2>1. i + 1 \in 1..Len(s) /\ ~ (i + 1 <= Len(a)) /\ (i + 1) - Len(a) = i - Len(w)
    BY <1>1, <1>2, <1>3, <1>5
  <2>. QED BY <1>1, <1>3, <1>5, <2>1
<1>6. ASSUME NEW i \in 1..Len(s), i \notin 1..Len(w), i # Len(w) + 1
      PROVE  i - 1 \in 1..Len(u) /\ s[i] = u[i - 1]
  <2>1. /\ i - 1 \in 1..Len(u) /\ ~ (i - 1 <= Len(w)) /\ ~ (i <= Len(a))
        /\ (i - 1) - Len(w) = i - Len(a)
    BY <1>1, <1>2, <1>3, <1>6
  <2>. QED BY <1>1, <1>3, <2>1
<1>7. Has(s, "close")
  BY <1>4 DEF Has
<1>8. ASSUME NEW type, type # "close" PROVE Has(s, type) <=> Has(u, type)
  <2>1. Has(s, type) => Has(u, type)
    BY <1>4, <1>6, <1>8 DEF Has
  <2>2. \A i \in 1..Len(u) : i <= Len(w) => i \in 1..Len(w)
    BY <1>1
  <2>3. Has(u, type) => Has(s, type)
    BY <1>4, <1>5, <2>2 DEF Has
  <2>. QED BY <2>1, <2>3
<1>9. OneOpen(u) => OneOpen(s)
  <2>1. SUFFICES ASSUME OneOpen(u), NEW i \in 1..Len(s), NEW j \in 1..Len(s),
                        s[i].type = "open", s[j].type = "open"
                 PROVE  i = j
    BY DEF OneOpen
  <2>. DEFINE at(x) == IF x \in 1..Len(w) THEN x ELSE x - 1
  <2>2. ASSUME NEW x \in 1..Len(s), s[x].type = "open"
        PROVE  at(x) \in 1..Len(u) /\ u[at(x)].type = "open" /\ x # Len(w) + 1
    <3>1. x # Len(w) + 1
      BY <1>4, <2>2
    <3>2. CASE x \in 1..Len(w)
      BY <1>4, <2>2, <3>1, <3>2
    <3>3. CASE x \notin 1..Len(w)
      BY <1>6, <2>2, <3>1, <3>3
    <3>. QED BY <3>2, <3>3
  <2>3. at(i) = at(j) /\ i # Len(w) + 1 /\ j # Len(w) + 1
    <3>. HIDE DEF at
    <3>. QED BY <2>1, <2>2 DEF OneOpen
  <2>. QED BY <1>1, <1>4, <2>3
<1>10. OnlyCloses(u) => OnlyCloses(s)
  BY <1>4, <1>6 DEF OnlyCloses
<1>11. ASSUME NEW k \in Nat, Carry(u, k) PROVE Carry(s, k) /\ \A n : UpTo(s, k, n)
  <2>1. Len(w) <= Len(u) /\ Len(w) < Len(s)
    BY <1>1, <1>4
  <2>. QED BY <1>1, <1>3, <1>4, <1>11, <2>1, CarryClosed
<1>. QED BY <1>2, <1>3, <1>7, <1>8, <1>9, <1>10, <1>11 DEF a, s, u

\* The first frame arrives.
LEMMA TailAt ==
  ASSUME NEW u \in FrameSeqs, u # <<>>
  PROVE  /\ Tail(u) \in FrameSeqs /\ Len(u) \in Nat \ {0} /\ Len(Tail(u)) = Len(u) - 1
         /\ Head(u) = u[1] /\ u[1] \in FrameSet
         /\ \A i \in 1..Len(Tail(u)) : Tail(u)[i] = u[i + 1] /\ i + 1 \in 1..Len(u)
<1>1. /\ Tail(u) \in Seq(FrameSet) /\ Head(u) \in FrameSet /\ Head(u) = u[1]
      /\ Len(Tail(u)) = Len(u) - 1 /\ \A i \in 1..Len(Tail(u)) : Tail(u)[i] = u[i + 1]
      /\ Len(u) \in Nat
  BY HeadTailProperties, LenProperties DEF FrameSeqs
<1>2. Len(u) # 0
  BY FrameSeqLen
<1>. DEFINE t == Tail(u)
<1>. HIDE DEF t
<1>3. Len(t) = Len(u) - 1
  BY <1>1 DEF t
<1>4. \A i \in 1..Len(t) : i + 1 \in 1..Len(u)
  BY <1>1, <1>2, <1>3
<1>. QED BY <1>1, <1>2, <1>4 DEF t, FrameSeqs

LEMMA HasTail ==
  ASSUME NEW u \in FrameSeqs, u # <<>>
  PROVE  /\ \A type : Has(u, type) <=> Head(u).type = type \/ Has(Tail(u), type)
         /\ OneOpen(u) => OneOpen(Tail(u)) /\ (Head(u).type = "open" => ~ Has(Tail(u), "open"))
         /\ OpenFirst(u) => ~ Has(Tail(u), "open") /\ OpenFirst(Tail(u))
         /\ OnlyCloses(u) => OnlyCloses(Tail(u)) /\ Head(u).type = "close"
<1>. DEFINE t == Tail(u)
<1>1. /\ Len(u) \in Nat \ {0} /\ Len(t) = Len(u) - 1 /\ Head(u) = u[1]
      /\ \A i \in 1..Len(t) : t[i] = u[i + 1] /\ i + 1 \in 1..Len(u)
  BY TailAt
<1>. HIDE DEF t
<1>2. 1 \in 1..Len(u) /\ \A i \in 1..Len(u) : i # 1 => i - 1 \in 1..Len(t) /\ t[i - 1] = u[i]
  BY <1>1
<1>3. ASSUME NEW type PROVE Has(u, type) <=> Head(u).type = type \/ Has(t, type)
  <2>1. Has(u, type) => Head(u).type = type \/ Has(t, type)
    BY <1>1, <1>2 DEF Has
  <2>2. Head(u).type = type => Has(u, type)
    BY <1>1, <1>2 DEF Has
  <2>3. Has(t, type) => Has(u, type)
    BY <1>1 DEF Has
  <2>. QED BY <2>1, <2>2, <2>3
<1>4. ASSUME OneOpen(u) PROVE OneOpen(t) /\ (Head(u).type = "open" => ~ Has(t, "open"))
  <2>1. \A i, j \in 1..Len(t) : i + 1 = j + 1 => i = j
    OBVIOUS
  <2>2. OneOpen(t)
    BY ZenonT(60), <1>1, <1>4, <2>1 DEF OneOpen
  <2>3. \A i \in 1..Len(t) : i + 1 # 1
    BY <1>1
  <2>4. Head(u).type = "open" => ~ Has(t, "open")
    BY <1>1, <1>2, <1>4, <2>3 DEF OneOpen, Has
  <2>. QED BY <2>2, <2>4
<1>5. ASSUME OpenFirst(u) PROVE ~ Has(t, "open") /\ OpenFirst(t)
  <2>1. \A i \in 1..Len(t) : i + 1 # 1
    BY <1>1
  <2>. QED BY <1>1, <1>5, <2>1 DEF OpenFirst, Has
<1>6. ASSUME OnlyCloses(u) PROVE OnlyCloses(t) /\ Head(u).type = "close"
  BY <1>1, <1>2, <1>6 DEF OnlyCloses
<1>. QED BY <1>3, <1>4, <1>5, <1>6 DEF t

LEMMA CarryTail ==
  ASSUME NEW u \in FrameSeqs, u # <<>>, NEW k \in Nat, Carry(u, k), Head(u).type # "close"
  PROVE  LET next == IF Head(u).type = "data" THEN k + 1 ELSE k IN
         /\ Head(u).type = "data" => Head(u).n = k + 1
         /\ Carry(Tail(u), next)
         /\ \A n \in Nat : UpTo(u, k, n) => UpTo(Tail(u), next, n)
<1>. DEFINE t == Tail(u)  next == IF Head(u).type = "data" THEN k + 1 ELSE k
<1>1. /\ t \in FrameSeqs /\ Len(u) \in Nat \ {0} /\ Len(t) = Len(u) - 1 /\ Head(u) = u[1]
      /\ \A i \in 1..Len(t) : t[i] = u[i + 1] /\ i + 1 \in 1..Len(u)
      /\ u[1] \in FrameSet
  BY TailAt
<1>3. \A type : Has(u, type) <=> Head(u).type = type \/ Has(t, type)
  BY HasTail
<1>. HIDE DEF t
<1>2. (t = <<>> <=> Len(t) = 0) /\ 1 \in 1..Len(u) /\ \A i \in 1..Len(t) : t[i] \in FrameSet
  BY <1>1, FrameSeqLen
<1>4. /\ \A i \in 1..Len(u) : (\A j \in 1..i : u[j].type # "close") =>
                IF u[i].type = "data" THEN u[i].n + Lead(u) = k + i ELSE i = 1
      /\ u[1].type # "close"
  BY <1>1 DEF Carry
<1>5. Lead(u) = IF u[1].type = "data" THEN 0 ELSE 1
  BY DEF Lead
<1>6. u[1].n \in Nat
  BY <1>1, MessageAssumption DEF FrameSet, Frames
<1>7. u[1].type = "data" => u[1].n = k + 1
  <2>1. \A j \in 1..1 : u[j].type # "close"
    BY <1>4
  <2>2. u[1].type = "data" => u[1].n + 0 = k + 1
    BY <1>2, <1>4, <1>5, <2>1
  <2>. QED BY <1>6, <2>2
<1>8. next + Lead(u) = k + 1
  BY <1>1, <1>5
<1>9. t # <<>> /\ t[1].type # "close" => Lead(t) = 0
  <2>1. SUFFICES ASSUME t # <<>>, t[1].type # "close" PROVE Lead(t) = 0
    OBVIOUS
  <2>2. 1 \in 1..Len(t) /\ t[1] = u[2] /\ 2 \in 1..Len(u) /\ 2 # 1
    <3>1. 1 \in 1..Len(t)
      BY <1>1, <1>2, <2>1
    <3>2. t[1] = u[1 + 1] /\ 1 + 1 \in 1..Len(u) /\ 1 + 1 = 2
      BY <1>1, <3>1
    <3>. QED BY <3>1, <3>2
  <2>3. \A j \in 1..2 : j = 1 \/ j = 2
    OBVIOUS
  <2>4. \A j \in 1..2 : u[j].type # "close"
    BY <1>4, <2>1, <2>2, <2>3
  <2>5. u[2].type = "data"
    BY <1>4, <2>2, <2>4
  <2>. QED BY <2>2, <2>5 DEF Lead
<1>10. ASSUME NEW i \in 1..Len(t), \A j \in 1..i : t[j].type # "close"
       PROVE  IF t[i].type = "data" THEN t[i].n + Lead(t) = next + i ELSE i = 1
  <2>1. i + 1 \in 1..Len(u) /\ t[i] = u[i + 1] /\ t # <<>> /\ 1 \in 1..i /\ i + 1 # 1
    BY <1>1, <1>2
  <2>2. Lead(t) = 0
    BY <1>9, <1>10, <2>1
  <2>3. ASSUME NEW j \in 1..(i + 1) PROVE u[j].type # "close"
    <3>1. CASE j = 1
      BY <1>4, <3>1
    <3>2. CASE j # 1
      <4>1. j - 1 \in 1..i /\ j - 1 \in 1..Len(t) /\ (j - 1) + 1 = j
        BY <3>2
      <4>2. t[j - 1] = u[(j - 1) + 1]
        BY <1>1, <4>1
      <4>. QED BY <1>10, <4>1, <4>2
    <3>. QED BY <3>1, <3>2
  <2>4. u[i + 1].type = "data" /\ u[i + 1].n + Lead(u) = k + (i + 1)
    BY <1>4, <2>1, <2>3
  <2>5. u[i + 1].n \in Nat
    BY <1>2, <2>1, MessageAssumption DEF FrameSet, Frames
  <2>6. t[i].n = next + i
    <3>1. Lead(u) \in {0, 1} /\ next \in Nat /\ t[i].n = u[i + 1].n
      BY <1>5, <2>1
    <3>. HIDE DEF next
    <3>. QED BY <1>8, <2>4, <2>5, <3>1
  <2>. QED BY <2>1, <2>2, <2>4, <2>5, <2>6
<1>11. ASSUME NEW n \in Nat, UpTo(u, k, n) PROVE UpTo(t, next, n)
  <2>1. CASE Has(u, "close")
    BY <1>1, <1>3, <1>4, <2>1 DEF UpTo
  <2>2. CASE ~ Has(u, "close")
    <3>1. n + Lead(u) = k + Len(u)
      BY <1>11, <2>2 DEF UpTo
    <3>2. Lead(t) = 0
      <4>1. CASE t = <<>>
        BY <4>1 DEF Lead
      <4>2. CASE t # <<>>
        <5>1. 1 \in 1..Len(t)
          BY <1>1, <1>2, <4>2
        <5>2. t[1].type # "close"
          BY <1>3, <2>2, <5>1 DEF Has
        <5>. QED BY <1>9, <4>2, <5>2
      <4>. QED BY <4>1, <4>2
    <3>3. n = next + Len(t)
      <4>1. Lead(u) \in {0, 1} /\ next \in Nat
        BY <1>5
      <4>2. Len(t) = Len(u) - 1 /\ Len(u) \in Nat
        BY <1>1
      <4>. HIDE DEF next
      <4>. QED BY <1>8, <3>1, <4>1, <4>2
    <3>. QED BY <3>2, <3>3 DEF UpTo
  <2>. QED BY <2>1, <2>2
<1>12. Carry(t, next)
  BY <1>10 DEF Carry
<1>. QED BY <1>1, <1>7, <1>11, <1>12 DEF t

-----------------------------------------------------------------------------
(***************************************************************************)
(* The messages an end has taken.                                          *)
(***************************************************************************)
LEMMA NumbersAt ==
  ASSUME NEW a \in NumberSeqs, NEW b \in NumberSeqs
  PROVE  /\ a \o b \in NumberSeqs /\ Len(a) \in Nat /\ DOMAIN a = 1..Len(a)
         /\ Len(a \o b) = Len(a) + Len(b)
         /\ \A i \in 1..Len(a \o b) : (a \o b)[i] = IF i <= Len(a) THEN a[i] ELSE b[i - Len(a)]
         /\ a \o <<>> = a /\ <<>> \o b = b
         /\ a \o b = <<>> => a = <<>> /\ b = <<>>
         /\ Len(<<>>) = 0 /\ IsPrefixOfNumbers(<<>>)
<1>1. /\ a \o b \in Seq(1..MaxMessages) /\ Len(a \o b) = Len(a) + Len(b)
      /\ \A i \in 1..Len(a) + Len(b) : (a \o b)[i] = IF i <= Len(a) THEN a[i] ELSE b[i - Len(a)]
  BY ConcatProperties DEF NumberSeqs
<1>2. Len(a) \in Nat /\ Len(b) \in Nat /\ DOMAIN a = 1..Len(a)
  BY LenProperties DEF NumberSeqs
<1>3. a \o <<>> = a /\ <<>> \o b = b
  BY ConcatEmptySeq DEF NumberSeqs
<1>4. IsPrefixOfNumbers(<<>>) /\ Len(<<>>) = 0
  BY DEF IsPrefixOfNumbers
<1>5. a \o b = <<>> => a = <<>> /\ b = <<>>
  <2>1. SUFFICES ASSUME a \o b = <<>> PROVE Len(a) = 0 /\ Len(b) = 0
    BY EmptySeq DEF NumberSeqs
  <2>. QED BY <1>1, <1>2, <1>4, <2>1
<1>. QED BY <1>1, <1>2, <1>3, <1>4, <1>5 DEF NumberSeqs

LEMMA NumberPrefix ==
  ASSUME NEW a \in NumberSeqs, NEW b \in NumberSeqs, IsPrefixOfNumbers(b), Len(a) <= Len(b),
         \A i \in 1..Len(a) : a[i] = b[i]
  PROVE  IsPrefixOfNumbers(a)
<1>1. DOMAIN a = 1..Len(a) /\ DOMAIN b = 1..Len(b) /\ Len(a) \in Nat /\ Len(b) \in Nat
  BY LenProperties DEF NumberSeqs
<1>. QED BY <1>1 DEF IsPrefixOfNumbers

LEMMA SubNumbers ==
  ASSUME NEW b \in NumberSeqs, NEW n \in 0..(Len(b) - 1)
  PROVE  /\ SubSeq(b, 1, n) \in NumberSeqs /\ Len(SubSeq(b, 1, n)) = n
         /\ \A i \in 1..n : SubSeq(b, 1, n)[i] = b[i]
<1>1. Len(b) \in Nat
  BY LenProperties DEF NumberSeqs
<1>2. n \in Nat /\ n <= Len(b)
  BY <1>1
<1>. DEFINE p == SubSeq(b, 1, n)
<1>3. ASSUME NEW i \in 1..n PROVE b[i] \in 1..MaxMessages
  <2>1. b \in Seq(1..MaxMessages) /\ i \in 1..Len(b)
    BY <1>1, <1>2 DEF NumberSeqs
  <2>. QED BY <2>1, ElementOfSeq
<1>4. /\ p \in Seq(1..MaxMessages) /\ Len(p) = IF 1 <= n THEN n - 1 + 1 ELSE 0
      /\ \A i \in 1..(n - 1 + 1) : p[i] = b[1 + i - 1]
  BY <1>2, <1>3, SubSeqProperties
<1>5. Len(p) = n
  BY <1>2, <1>4
<1>. HIDE DEF p
<1>6. \A i \in 1..n : i \in 1..(n - 1 + 1) /\ 1 + i - 1 = i
  BY <1>2
<1>7. \A i \in 1..n : p[i] = b[i]
  BY <1>4, <1>6
<1>. QED BY <1>4, <1>5, <1>7 DEF p, NumberSeqs

\* What was kept is lost, from some message on.
LEMMA NumbersLost ==
  ASSUME NEW a \in NumberSeqs, NEW b \in NumberSeqs, IsPrefixOfNumbers(a \o b)
  PROVE  /\ IsPrefixOfNumbers(a)
         /\ \A n \in 0..(Len(b) - 1) :
              a \o SubSeq(b, 1, n) \in NumberSeqs /\ IsPrefixOfNumbers(a \o SubSeq(b, 1, n))
<1>1. /\ a \o b \in NumberSeqs /\ Len(a) \in Nat /\ Len(b) \in Nat
      /\ Len(a \o b) = Len(a) + Len(b)
      /\ \A i \in 1..Len(a \o b) : (a \o b)[i] = IF i <= Len(a) THEN a[i] ELSE b[i - Len(a)]
  BY NumbersAt
<1>. DEFINE s == a \o b
<1>. HIDE DEF s
<1>2. /\ s \in NumberSeqs /\ Len(s) = Len(a) + Len(b) /\ IsPrefixOfNumbers(s)
      /\ \A i \in 1..Len(s) : s[i] = IF i <= Len(a) THEN a[i] ELSE b[i - Len(a)]
  BY <1>1 DEF s
<1>3. IsPrefixOfNumbers(a)
  <2>1. Len(a) <= Len(s) /\ \A i \in 1..Len(a) : a[i] = s[i]
    BY <1>1, <1>2
  <2>. QED BY <1>2, <2>1, NumberPrefix
<1>4. ASSUME NEW n \in 0..(Len(b) - 1)
      PROVE  a \o SubSeq(b, 1, n) \in NumberSeqs /\ IsPrefixOfNumbers(a \o SubSeq(b, 1, n))
  <2>. DEFINE p == SubSeq(b, 1, n)  r == a \o p
  <2>1. n \in Nat /\ n <= Len(b) /\ 1 \in 1..(Len(b) + 1) /\ n \in 0..Len(b)
    BY <1>1
  <2>2. p \in Seq(1..MaxMessages) /\ Len(p) = n /\ \A i \in 1..n : p[i] = b[i]
    BY SubNumbers DEF NumberSeqs
  <2>. HIDE DEF p
  <2>3. /\ r \in NumberSeqs /\ Len(r) = Len(a) + Len(p)
        /\ \A i \in 1..Len(r) : r[i] = IF i <= Len(a) THEN a[i] ELSE p[i - Len(a)]
    BY <2>2, NumbersAt DEF NumberSeqs
  <2>. HIDE DEF r
  <2>4. Len(r) <= Len(s)
    BY <1>1, <1>2, <2>1, <2>2, <2>3
  <2>5. ASSUME NEW i \in 1..Len(r) PROVE r[i] = s[i]
    <3>1. i \in 1..Len(s)
      BY <1>1, <1>2, <2>1, <2>2, <2>3
    <3>2. CASE i <= Len(a)
      BY <1>2, <2>3, <3>1, <3>2
    <3>3. CASE ~ (i <= Len(a))
      <4>1. i - Len(a) \in 1..n
        BY <1>1, <2>1, <2>2, <2>3, <3>3
      <4>. QED BY <1>2, <2>2, <2>3, <3>1, <3>3, <4>1
    <3>. QED BY <3>2, <3>3
  <2>6. IsPrefixOfNumbers(r)
    BY <1>2, <2>3, <2>4, <2>5, NumberPrefix
  <2>. QED BY <2>3, <2>6 DEF r, p
<1>. QED BY <1>3, <1>4

\* The next message is taken.
LEMMA NumberTaken ==
  ASSUME NEW a \in NumberSeqs, NEW n \in 1..MaxMessages
  PROVE  /\ Append(a, n) \in NumberSeqs /\ Len(Append(a, n)) = Len(a) + 1
         /\ Append(a, n) # <<>>
         /\ IsPrefixOfNumbers(a) /\ n = Len(a) + 1 => IsPrefixOfNumbers(Append(a, n))
<1>. DEFINE s == Append(a, n)
<1>1. /\ s \in NumberSeqs /\ Len(s) = Len(a) + 1 /\ s # <<>> /\ s[Len(a) + 1] = n
      /\ \A i \in 1..Len(a) : s[i] = a[i]
  BY AppendProperties DEF NumberSeqs
<1>. HIDE DEF s
<1>2. DOMAIN s = 1..Len(s) /\ DOMAIN a = 1..Len(a) /\ Len(a) \in Nat
  BY <1>1, LenProperties DEF NumberSeqs
<1>3. ASSUME IsPrefixOfNumbers(a), n = Len(a) + 1, NEW i \in 1..Len(s) PROVE s[i] = i
  <2>1. CASE i \in 1..Len(a)
    BY <1>1, <1>2, <1>3, <2>1 DEF IsPrefixOfNumbers
  <2>2. CASE i \notin 1..Len(a)
    <3>1. i = Len(a) + 1
      BY <1>1, <1>2, <2>2
    <3>. QED BY <1>1, <1>3, <3>1
  <2>. QED BY <2>1, <2>2
<1>4. IsPrefixOfNumbers(a) /\ n = Len(a) + 1 => IsPrefixOfNumbers(s)
  BY <1>2, <1>3 DEF IsPrefixOfNumbers
<1>. QED BY <1>1, <1>4 DEF s

LEMMA NumberKept ==
  ASSUME NEW a \in NumberSeqs, NEW b \in NumberSeqs, NEW n \in 1..MaxMessages
  PROVE  /\ b = <<>> => Append(a, n) \o b = Append(a \o b, n)
         /\ a \o Append(b, n) = Append(a \o b, n)
<1>1. Append(a, n) \in Seq(1..MaxMessages) /\ Append(b, n) \in Seq(1..MaxMessages)
  BY AppendProperties DEF NumberSeqs
<1>2. b = <<>> => Append(a, n) \o b = Append(a \o b, n)
  <2>1. Append(a, n) \o <<>> = Append(a, n) /\ a \o <<>> = a
    BY <1>1, ConcatEmptySeq DEF NumberSeqs
  <2>. QED BY <2>1
<1>3. a \o b \in Seq(1..MaxMessages) /\ <<n>> \in Seq(1..MaxMessages)
  BY ConcatProperties DEF NumberSeqs
<1>4. Append(b, n) = b \o <<n>> /\ Append(a \o b, n) = (a \o b) \o <<n>>
  BY <1>3, AppendIsConcat DEF NumberSeqs
<1>5. (a \o b) \o <<n>> = a \o (b \o <<n>>)
  BY <1>3, ConcatAssociative DEF NumberSeqs
<1>. QED BY <1>2, <1>4, <1>5

-----------------------------------------------------------------------------
(***************************************************************************)
(* A step of one route leaves the others as they are.                      *)
(***************************************************************************)
Elsewhere(c) ==
  /\ UNCHANGED sockets
  /\ \A d \in Connections \ {c} :
       /\ upQueue'[d] = upQueue[d] /\ upWire'[d] = upWire[d]
       /\ downQueue'[d] = downQueue[d] /\ downWire'[d] = downWire[d]
       /\ gateway'[d] = gateway[d] /\ known'[d] = known[d]
       /\ sent'[d] = sent[d] /\ toUser'[d] = toUser[d]
       /\ local'[d] = local[d] /\ inLocal'[d] = inLocal[d]
       /\ pendingData'[d] = pendingData[d]
       /\ produced'[d] = produced[d] /\ toLocal'[d] = toLocal[d]
       /\ refused'[d] = refused[d]

LEMMA OneRoute ==
  ASSUME RoutesInv, NEW c \in Connections, Typed', Elsewhere(c), Route(c)'
  PROVE  RoutesInv'
<1>1. ASSUME NEW d \in Connections \ {c} PROVE Route(d)'
  <2>1. Route(d)
    BY DEF RoutesInv
  <2>2. /\ cloudSocket' = cloudSocket /\ machineSocket' = machineSocket
        /\ upQueue'[d] = upQueue[d] /\ upWire'[d] = upWire[d]
        /\ downQueue'[d] = downQueue[d] /\ downWire'[d] = downWire[d]
        /\ gateway'[d] = gateway[d] /\ known'[d] = known[d]
        /\ sent'[d] = sent[d] /\ toUser'[d] = toUser[d]
        /\ local'[d] = local[d] /\ inLocal'[d] = inLocal[d]
        /\ pendingData'[d] = pendingData[d]
        /\ produced'[d] = produced[d] /\ toLocal'[d] = toLocal[d]
        /\ refused'[d] = refused[d]
    BY DEF Elsewhere, sockets
  <2>3. Up(d)' = Up(d) /\ Down(d)' = Down(d) /\ Taken(d)' = Taken(d)
    BY <2>2 DEF Up, Down, Taken
  <2>4. Taking(d)' <=> Taking(d)
    BY <2>2, <2>3 DEF Taking
  <2>5. Tables(d)'
    BY <2>1, <2>2 DEF Route, Tables
  <2>6. OpensOnce(d)'
    BY <2>1, <2>2, <2>3 DEF Route, OpensOnce
  <2>7. NothingYet(d)'
    BY <2>1, <2>2, <2>3 DEF Route, NothingYet
  <2>8. UpInOrder(d)'
    BY <2>1, <2>2, <2>3, <2>4 DEF Route, UpInOrder
  <2>9. DownInOrder(d)'
    BY <2>1, <2>2, <2>3 DEF Route, DownInOrder
  <2>. QED BY <2>5, <2>6, <2>7, <2>8, <2>9 DEF Route
<1>2. ASSUME NEW d \in Connections PROVE Route(d)'
  BY <1>1
<1>. QED BY <1>2 DEF RoutesInv

-----------------------------------------------------------------------------
(***************************************************************************)
(* What the link's operations do to a route's frames.                      *)
(***************************************************************************)
\* One route's frames in the direction, to the machine.
UpAt(c) ==
  /\ upQueue' \in [Connections -> FrameSeqs] /\ upWire' \in [Connections -> FrameSeqs]
  /\ \A d \in Connections \ {c} : upQueue'[d] = upQueue[d] /\ upWire'[d] = upWire[d]

LEMMA UpTypes ==
  ASSUME Typed, NEW c \in Connections
  PROVE  /\ upQueue \in [Connections -> FrameSeqs] /\ upWire \in [Connections -> FrameSeqs]
         /\ upQueue[c] \in FrameSeqs /\ upWire[c] \in FrameSeqs
         /\ Up(c) \in FrameSeqs /\ Up(c) = upWire[c] \o upQueue[c]
         /\ Quiet \in [Connections -> FrameSeqs] /\ Quiet[c] = <<>>
<1>1. /\ upQueue \in [Connections -> FrameSeqs] /\ upWire \in [Connections -> FrameSeqs]
      /\ upQueue[c] \in FrameSeqs /\ upWire[c] \in FrameSeqs
  BY DEF Typed
<1>2. Up(c) \in FrameSeqs /\ Up(c) = upWire[c] \o upQueue[c]
  BY <1>1, WireAppend, FrameTypes DEF Up
<1>. QED BY <1>1, <1>2, FrameTypes DEF Quiet

LEMMA UpStays ==
  ASSUME Typed, NEW c \in Connections, UNCHANGED upLink
  PROVE  UpAt(c) /\ Up(c)' = Up(c) /\ upQueue' = upQueue
BY UpTypes DEF UpAt, Up, upLink

\* A frame is sent.
LEMMA UpSent ==
  ASSUME Typed, NEW c \in Connections, NEW f \in FrameSet, UpSend(c, f)
  PROVE  /\ UpAt(c)
         /\ cloudSocket = "open" => Up(c)' = Append(Up(c), f)
         /\ cloudSocket # "open" => Up(c)' = Up(c) /\ upQueue' = upQueue
<1>1. CASE cloudSocket # "open"
  BY <1>1, UpStays DEF UpSend
<1>2. CASE cloudSocket = "open"
  <2>1. Enqueue(c, f, upQueue, upWire)
    BY <1>2 DEF UpSend
  <2>2. /\ Append(upWire[c], f) \in FrameSeqs /\ Append(upQueue[c], f) \in FrameSeqs
        /\ upQueue[c] = <<>> => Append(upWire[c], f) \o upQueue[c] = Append(Up(c), f)
        /\ upWire[c] \o Append(upQueue[c], f) = Append(Up(c), f)
    <3>1. upQueue[c] \in FrameSeqs /\ upWire[c] \in FrameSeqs
      BY UpTypes
    <3>. QED BY <3>1, WireAppend DEF Up
  <2>3. CASE upQueue = Quiet /\ upWire' = [upWire EXCEPT ![c] = Append(@, f)] /\ UNCHANGED upQueue
    BY <1>2, <2>2, <2>3, UpTypes DEF UpAt, Up
  <2>4. CASE upQueue' = [upQueue EXCEPT ![c] = Append(@, f)] /\ UNCHANGED upWire
    BY <1>2, <2>2, <2>4, UpTypes DEF UpAt, Up
  <2>. QED BY <2>1, <2>3, <2>4 DEF Enqueue
<1>. QED BY <1>1, <1>2

\* A close goes to the wire.
LEMMA UpOvertaken ==
  ASSUME Typed, NEW c \in Connections, UNCHANGED upQueue,
         upWire' = IF cloudSocket = "open"
                   THEN [upWire EXCEPT ![c] = Append(@, CloseFrame)] ELSE upWire
  PROVE  /\ UpAt(c)
         /\ cloudSocket = "open" => Up(c)' = Append(upWire[c], CloseFrame) \o upQueue[c]
         /\ cloudSocket # "open" => Up(c)' = Up(c)
<1>1. Append(upWire[c], CloseFrame) \in FrameSeqs
  BY UpTypes, WireAppend, FrameTypes
<1>. QED BY <1>1, UpTypes DEF UpAt, Up

\* ... and the queue is dropped.
LEMMA UpOverflown ==
  ASSUME Typed, NEW c \in Connections, cloudSocket = "open",
         upQueue' = [upQueue EXCEPT ![c] = <<>>],
         upWire' = IF cloudSocket = "open"
                   THEN [upWire EXCEPT ![c] = Append(@, CloseFrame)] ELSE upWire
  PROVE  UpAt(c) /\ Up(c)' = Append(upWire[c], CloseFrame)
<1>1. /\ Append(upWire[c], CloseFrame) \in FrameSeqs
      /\ Append(upWire[c], CloseFrame) \o <<>> = Append(upWire[c], CloseFrame)
  BY UpTypes, WireAppend, Dropped, FrameTypes
<1>. QED BY <1>1, UpTypes, FrameTypes DEF UpAt, Up

\* The queue is dropped.
LEMMA UpCut ==
  ASSUME Typed, NEW c \in Connections, upQueue' = [upQueue EXCEPT ![c] = <<>>], UNCHANGED upWire
  PROVE  UpAt(c) /\ Up(c)' = upWire[c] /\ upQueue'[c] = <<>>
<1>1. upWire[c] \o <<>> = upWire[c]
  BY UpTypes, Dropped
<1>. QED BY <1>1, UpTypes, FrameTypes DEF UpAt, Up

LEMMA UpRemoved ==
  ASSUME Typed, NEW c \in Connections, UpRemoveThenClose(c)
  PROVE  /\ UpAt(c) /\ (cloudSocket # "open" => upQueue'[c] = <<>>)
         /\ Up(c)' = upWire[c] \/ Up(c)' = Append(upWire[c], CloseFrame)
<1>1. /\ Append(upWire[c], CloseFrame) \in FrameSeqs /\ Append(<<>>, CloseFrame) = <<CloseFrame>>
      /\ <<CloseFrame>> \in FrameSeqs
      /\ upWire[c] \o <<>> = upWire[c]
      /\ Append(upWire[c], CloseFrame) \o <<>> = Append(upWire[c], CloseFrame)
      /\ upWire[c] \o <<CloseFrame>> = Append(upWire[c], CloseFrame)
  <2>1. Append(upWire[c], CloseFrame) \in FrameSeqs /\ <<CloseFrame>> \in FrameSeqs
    BY UpTypes, WireAppend, OneFrame, FrameTypes
  <2>2. /\ upWire[c] \o <<>> = upWire[c]
        /\ Append(upWire[c], CloseFrame) \o <<>> = Append(upWire[c], CloseFrame)
    BY <2>1, UpTypes, Dropped
  <2>3. upWire[c] \o Append(<<>>, CloseFrame) = Append(upWire[c] \o <<>>, CloseFrame)
    BY UpTypes, WireAppend, FrameTypes
  <2>4. Append(<<>>, CloseFrame) = <<CloseFrame>>
    BY OneFrame, FrameTypes
  <2>. QED BY <2>1, <2>2, <2>3, <2>4
<1>. DEFINE queue == [upQueue EXCEPT ![c] = <<>>]
<1>2. CASE cloudSocket # "open"
  BY <1>1, <1>2, UpCut DEF UpRemoveThenClose
<1>3. CASE /\ cloudSocket = "open" /\ upQueue' = queue
           /\ upWire' = [upWire EXCEPT ![c] = Append(@, CloseFrame)]
  BY <1>1, <1>3, UpTypes, FrameTypes DEF UpAt, Up
<1>4. CASE /\ cloudSocket = "open" /\ upQueue' = [queue EXCEPT ![c] = <<CloseFrame>>]
           /\ UNCHANGED upWire
  <2>1. upQueue' = [upQueue EXCEPT ![c] = <<CloseFrame>>]
    BY <1>4, UpTypes
  <2>. QED BY <1>1, <1>4, <2>1, UpTypes, FrameTypes DEF UpAt, Up
<1>. QED BY <1>2, <1>3, <1>4 DEF UpRemoveThenClose

\* The first frame arrives.
LEMMA UpArrives ==
  ASSUME Typed, NEW c \in Connections, upWire[c] # <<>>, Arrives(c, upWire), UNCHANGED upQueue
  PROVE  /\ UpAt(c) /\ Up(c) # <<>> /\ Up(c)' = Tail(Up(c))
         /\ Head(Up(c)) = Head(upWire[c]) /\ Head(upWire[c]) \in FrameSet
<1>1. /\ Tail(upWire[c]) \in FrameSeqs /\ Up(c) # <<>> /\ Head(Up(c)) = Head(upWire[c])
      /\ Tail(upWire[c]) \o upQueue[c] = Tail(Up(c)) /\ Head(upWire[c]) \in FrameSet
  <2>1. upQueue[c] \in FrameSeqs /\ upWire[c] \in FrameSeqs
    BY UpTypes
  <2>. QED BY <2>1, WireTail DEF Up
<1>. QED BY <1>1, UpTypes DEF UpAt, Up, Arrives

\* The first of the queue goes to the wire.
LEMMA UpDrained ==
  ASSUME Typed, NEW c \in Connections, Drains(c, cloudSocket, upQueue, upWire)
  PROVE  UpAt(c) /\ Up(c)' = Up(c)
<1>1. /\ upQueue[c] # <<>> /\ upWire' = [upWire EXCEPT ![c] = Append(@, Head(upQueue[c]))]
      /\ upQueue' = [upQueue EXCEPT ![c] = Tail(@)]
  BY DEF Drains
<1>2. /\ Append(upWire[c], Head(upQueue[c])) \in FrameSeqs /\ Tail(upQueue[c]) \in FrameSeqs
      /\ Append(upWire[c], Head(upQueue[c])) \o Tail(upQueue[c]) = Up(c)
  BY <1>1, UpTypes, WireDrain
<1>. QED BY <1>1, <1>2, UpTypes DEF UpAt, Up

\* One route's frames in the direction, to the cloud.
DownAt(c) ==
  /\ downQueue' \in [Connections -> FrameSeqs] /\ downWire' \in [Connections -> FrameSeqs]
  /\ \A d \in Connections \ {c} : downQueue'[d] = downQueue[d] /\ downWire'[d] = downWire[d]

LEMMA DownTypes ==
  ASSUME Typed, NEW c \in Connections
  PROVE  /\ downQueue \in [Connections -> FrameSeqs] /\ downWire \in [Connections -> FrameSeqs]
         /\ downQueue[c] \in FrameSeqs /\ downWire[c] \in FrameSeqs
         /\ Down(c) \in FrameSeqs /\ Down(c) = downWire[c] \o downQueue[c]
         /\ Quiet \in [Connections -> FrameSeqs] /\ Quiet[c] = <<>>
<1>1. /\ downQueue \in [Connections -> FrameSeqs] /\ downWire \in [Connections -> FrameSeqs]
      /\ downQueue[c] \in FrameSeqs /\ downWire[c] \in FrameSeqs
  BY DEF Typed
<1>2. Down(c) \in FrameSeqs /\ Down(c) = downWire[c] \o downQueue[c]
  BY <1>1, WireAppend, FrameTypes DEF Down
<1>. QED BY <1>1, <1>2, FrameTypes DEF Quiet

LEMMA DownStays ==
  ASSUME Typed, NEW c \in Connections, UNCHANGED downLink
  PROVE  DownAt(c) /\ Down(c)' = Down(c) /\ downQueue' = downQueue
BY DownTypes DEF DownAt, Down, downLink

\* A frame is sent.
LEMMA DownSent ==
  ASSUME Typed, NEW c \in Connections, NEW f \in FrameSet, DownSend(c, f)
  PROVE  /\ DownAt(c)
         /\ machineSocket = "open" => Down(c)' = Append(Down(c), f)
         /\ machineSocket # "open" => Down(c)' = Down(c) /\ downQueue' = downQueue
<1>1. CASE machineSocket # "open"
  BY <1>1, DownStays DEF DownSend
<1>2. CASE machineSocket = "open"
  <2>1. Enqueue(c, f, downQueue, downWire)
    BY <1>2 DEF DownSend
  <2>2. /\ Append(downWire[c], f) \in FrameSeqs /\ Append(downQueue[c], f) \in FrameSeqs
        /\ downQueue[c] = <<>> => Append(downWire[c], f) \o downQueue[c] = Append(Down(c), f)
        /\ downWire[c] \o Append(downQueue[c], f) = Append(Down(c), f)
    <3>1. downQueue[c] \in FrameSeqs /\ downWire[c] \in FrameSeqs
      BY DownTypes
    <3>. QED BY <3>1, WireAppend DEF Down
  <2>3. CASE downQueue = Quiet /\ downWire' = [downWire EXCEPT ![c] = Append(@, f)] /\ UNCHANGED downQueue
    BY <1>2, <2>2, <2>3, DownTypes DEF DownAt, Down
  <2>4. CASE downQueue' = [downQueue EXCEPT ![c] = Append(@, f)] /\ UNCHANGED downWire
    BY <1>2, <2>2, <2>4, DownTypes DEF DownAt, Down
  <2>. QED BY <2>1, <2>3, <2>4 DEF Enqueue
<1>. QED BY <1>1, <1>2

\* A close goes to the wire.
LEMMA DownOvertaken ==
  ASSUME Typed, NEW c \in Connections, UNCHANGED downQueue,
         downWire' = IF machineSocket = "open"
                   THEN [downWire EXCEPT ![c] = Append(@, CloseFrame)] ELSE downWire
  PROVE  /\ DownAt(c)
         /\ machineSocket = "open" => Down(c)' = Append(downWire[c], CloseFrame) \o downQueue[c]
         /\ machineSocket # "open" => Down(c)' = Down(c)
<1>1. Append(downWire[c], CloseFrame) \in FrameSeqs
  BY DownTypes, WireAppend, FrameTypes
<1>. QED BY <1>1, DownTypes DEF DownAt, Down

\* ... and the queue is dropped.
LEMMA DownOverflown ==
  ASSUME Typed, NEW c \in Connections, machineSocket = "open",
         downQueue' = [downQueue EXCEPT ![c] = <<>>],
         downWire' = IF machineSocket = "open"
                   THEN [downWire EXCEPT ![c] = Append(@, CloseFrame)] ELSE downWire
  PROVE  DownAt(c) /\ Down(c)' = Append(downWire[c], CloseFrame)
<1>1. /\ Append(downWire[c], CloseFrame) \in FrameSeqs
      /\ Append(downWire[c], CloseFrame) \o <<>> = Append(downWire[c], CloseFrame)
  BY DownTypes, WireAppend, Dropped, FrameTypes
<1>. QED BY <1>1, DownTypes, FrameTypes DEF DownAt, Down

\* The queue is dropped.
LEMMA DownCut ==
  ASSUME Typed, NEW c \in Connections,
         downQueue' = [downQueue EXCEPT ![c] = <<>>], UNCHANGED downWire
  PROVE  DownAt(c) /\ Down(c)' = downWire[c] /\ downQueue'[c] = <<>>
<1>1. downWire[c] \o <<>> = downWire[c]
  BY DownTypes, Dropped
<1>. QED BY <1>1, DownTypes, FrameTypes DEF DownAt, Down

LEMMA DownRemoved ==
  ASSUME Typed, NEW c \in Connections, NEW f \in FrameSet, f.type # "data",
         DownRemoveThen(c, f)
  PROVE  /\ DownAt(c) /\ (machineSocket # "open" => downQueue'[c] = <<>>)
         /\ Down(c)' = downWire[c] \/ Down(c)' = Append(downWire[c], f)
<1>1. /\ Append(downWire[c], f) \in FrameSeqs /\ Append(<<>>, f) = <<f>>
      /\ <<f>> \in FrameSeqs
      /\ downWire[c] \o <<>> = downWire[c]
      /\ Append(downWire[c], f) \o <<>> = Append(downWire[c], f)
      /\ downWire[c] \o <<f>> = Append(downWire[c], f)
  <2>1. Append(downWire[c], f) \in FrameSeqs /\ <<f>> \in FrameSeqs
    BY DownTypes, WireAppend, OneFrame, FrameTypes
  <2>2. downWire[c] \o <<>> = downWire[c] /\ Append(downWire[c], f) \o <<>> = Append(downWire[c], f)
    BY <2>1, DownTypes, Dropped
  <2>3. downWire[c] \o Append(<<>>, f) = Append(downWire[c] \o <<>>, f)
    BY DownTypes, WireAppend, FrameTypes
  <2>4. Append(<<>>, f) = <<f>>
    BY OneFrame, FrameTypes
  <2>. QED BY <2>1, <2>2, <2>3, <2>4
<1>. DEFINE queue == [downQueue EXCEPT ![c] = <<>>]
<1>2. CASE machineSocket # "open"
  BY <1>1, <1>2, DownCut DEF DownRemoveThen
<1>3. CASE /\ machineSocket = "open" /\ downQueue' = queue
           /\ downWire' = [downWire EXCEPT ![c] = Append(@, f)]
  BY <1>1, <1>3, DownTypes, FrameTypes DEF DownAt, Down
<1>4. CASE /\ machineSocket = "open" /\ downQueue' = [queue EXCEPT ![c] = <<f>>]
           /\ UNCHANGED downWire
  <2>1. downQueue' = [downQueue EXCEPT ![c] = <<f>>]
    BY <1>4, DownTypes
  <2>. QED BY <1>1, <1>4, <2>1, DownTypes, FrameTypes DEF DownAt, Down
<1>. QED BY <1>2, <1>3, <1>4 DEF DownRemoveThen

\* The first frame arrives.
LEMMA DownArrives ==
  ASSUME Typed, NEW c \in Connections, downWire[c] # <<>>, Arrives(c, downWire), UNCHANGED downQueue
  PROVE  /\ DownAt(c) /\ Down(c) # <<>> /\ Down(c)' = Tail(Down(c))
         /\ Head(Down(c)) = Head(downWire[c]) /\ Head(downWire[c]) \in FrameSet
<1>1. /\ Tail(downWire[c]) \in FrameSeqs /\ Down(c) # <<>> /\ Head(Down(c)) = Head(downWire[c])
      /\ Tail(downWire[c]) \o downQueue[c] = Tail(Down(c)) /\ Head(downWire[c]) \in FrameSet
  <2>1. downQueue[c] \in FrameSeqs /\ downWire[c] \in FrameSeqs
    BY DownTypes
  <2>. QED BY <2>1, WireTail DEF Down
<1>. QED BY <1>1, DownTypes DEF DownAt, Down, Arrives

\* The first of the queue goes to the wire.
LEMMA DownDrained ==
  ASSUME Typed, NEW c \in Connections, Drains(c, machineSocket, downQueue, downWire)
  PROVE  DownAt(c) /\ Down(c)' = Down(c)
<1>1. /\ downQueue[c] # <<>> /\ downWire' = [downWire EXCEPT ![c] = Append(@, Head(downQueue[c]))]
      /\ downQueue' = [downQueue EXCEPT ![c] = Tail(@)]
  BY DEF Drains
<1>2. /\ Append(downWire[c], Head(downQueue[c])) \in FrameSeqs /\ Tail(downQueue[c]) \in FrameSeqs
      /\ Append(downWire[c], Head(downQueue[c])) \o Tail(downQueue[c]) = Down(c)
  BY <1>1, DownTypes, WireDrain
<1>. QED BY <1>1, <1>2, DownTypes DEF DownAt, Down

-----------------------------------------------------------------------------
(***************************************************************************)
(* A step of the cloud on a route, and one of the machine.                 *)
(***************************************************************************)
CloudSide(c) ==
  /\ cloudSocket' = cloudSocket /\ machineSocket' = machineSocket
  /\ local' = local /\ inLocal' = inLocal /\ pendingData' = pendingData
  /\ produced' = produced /\ toLocal' = toLocal
  /\ UpAt(c) /\ DownAt(c)
  /\ gateway' \in [Connections -> GatewayStates] /\ known' \in [Connections -> BOOLEAN]
  /\ sent' \in [Connections -> 0..MaxMessages] /\ toUser' \in [Connections -> NumberSeqs]
  /\ refused' \in [Connections -> BOOLEAN]
  /\ \A d \in Connections \ {c} :
       /\ gateway'[d] = gateway[d] /\ known'[d] = known[d]
       /\ sent'[d] = sent[d] /\ toUser'[d] = toUser[d] /\ refused'[d] = refused[d]

MachineSide(c) ==
  /\ cloudSocket' = cloudSocket /\ machineSocket' = machineSocket
  /\ gateway' = gateway /\ known' = known /\ sent' = sent /\ toUser' = toUser
  /\ refused' = refused
  /\ UpAt(c) /\ DownAt(c)
  /\ local' \in [Connections -> LocalStates] /\ inLocal' \in [Connections -> BOOLEAN]
  /\ pendingData' \in [Connections -> NumberSeqs] /\ toLocal' \in [Connections -> NumberSeqs]
  /\ produced' \in [Connections -> 0..MaxMessages]
  /\ \A d \in Connections \ {c} :
       /\ local'[d] = local[d] /\ inLocal'[d] = inLocal[d]
       /\ pendingData'[d] = pendingData[d]
       /\ produced'[d] = produced[d] /\ toLocal'[d] = toLocal[d]

LEMMA CloudStep ==
  ASSUME RoutesInv, NEW c \in Connections, CloudSide(c), Route(c)'
  PROVE  RoutesInv'
<1>1. Typed'
  BY DEF RoutesInv, CloudSide, UpAt, DownAt, Typed
<1>2. Elsewhere(c)
  BY DEF CloudSide, UpAt, DownAt, Elsewhere, sockets
<1>. QED BY <1>1, <1>2, OneRoute

LEMMA MachineStep ==
  ASSUME RoutesInv, NEW c \in Connections, MachineSide(c), Route(c)'
  PROVE  RoutesInv'
<1>1. Typed'
  BY DEF RoutesInv, MachineSide, UpAt, DownAt, Typed
<1>2. Elsewhere(c)
  BY DEF MachineSide, UpAt, DownAt, Elsewhere, sockets
<1>. QED BY <1>1, <1>2, OneRoute

\* Of each variable at the route.
LEMMA AtRoute ==
  ASSUME RoutesInv, NEW c \in Connections
  PROVE  /\ Typed /\ Route(c)
         /\ Tables(c) /\ OpensOnce(c) /\ NothingYet(c) /\ UpInOrder(c) /\ DownInOrder(c)
         /\ gateway[c] \in GatewayStates /\ known[c] \in BOOLEAN
         /\ local[c] \in LocalStates /\ inLocal[c] \in BOOLEAN /\ refused[c] \in BOOLEAN
         /\ sent[c] \in 0..MaxMessages /\ produced[c] \in 0..MaxMessages
         /\ sent[c] \in Nat /\ produced[c] \in Nat
         /\ toUser[c] \in NumberSeqs /\ toLocal[c] \in NumberSeqs
         /\ pendingData[c] \in NumberSeqs /\ Taken(c) \in NumberSeqs
         /\ Len(Taken(c)) \in Nat /\ Len(toUser[c]) \in Nat
         /\ Up(c) \in FrameSeqs /\ Down(c) \in FrameSeqs
<1>1. Typed /\ Route(c)
  BY DEF RoutesInv
<1>2. /\ gateway[c] \in GatewayStates /\ known[c] \in BOOLEAN
      /\ local[c] \in LocalStates /\ inLocal[c] \in BOOLEAN /\ refused[c] \in BOOLEAN
      /\ sent[c] \in 0..MaxMessages /\ produced[c] \in 0..MaxMessages
      /\ toUser[c] \in NumberSeqs /\ toLocal[c] \in NumberSeqs
      /\ pendingData[c] \in NumberSeqs
  BY <1>1 DEF Typed
<1>3. Taken(c) \in NumberSeqs /\ Len(toUser[c]) \in Nat
  BY <1>2, NumbersAt DEF Taken
<1>4. Len(Taken(c)) \in Nat
  BY <1>3, NumbersAt
<1>5. Up(c) \in FrameSeqs /\ Down(c) \in FrameSeqs
  BY <1>1, UpTypes, DownTypes
<1>. QED BY <1>1, <1>2, <1>3, <1>4, <1>5, MessageAssumption DEF Route

\* What the user's end does is nothing to what comes down.
LEMMA UserAlone ==
  ASSUME RoutesInv, NEW c \in Connections, CloudSide(c), Down(c)' = Down(c),
         toUser'[c] = toUser[c], gateway'[c] = "open" => gateway[c] = "open"
  PROVE  NothingYet(c)' /\ DownInOrder(c)'
<1>1. NothingYet(c) /\ DownInOrder(c)
  BY AtRoute
<1>2. NothingYet(c)'
  BY <1>1 DEF NothingYet, CloudSide
<1>3. DownInOrder(c)'
  BY <1>1 DEF DownInOrder, CloudSide
<1>. QED BY <1>2, <1>3

\* What the local websocket does is nothing to what comes up.
LEMMA LocalAlone ==
  ASSUME RoutesInv, NEW c \in Connections, MachineSide(c), Up(c)' = Up(c),
         local[c] # "none", inLocal'[c] => inLocal[c] /\ Taken(c)' = Taken(c),
         IsPrefixOfNumbers(Taken(c)) => IsPrefixOfNumbers(Taken(c)'),
         Has(Down(c)', "close") => ~ inLocal'[c] /\ local'[c] \notin {"none", "connecting"}
  PROVE  OpensOnce(c)' /\ UpInOrder(c)'
<1>1. OpensOnce(c) /\ UpInOrder(c)
  BY AtRoute
<1>2. ~ Has(Up(c), "open")
  BY <1>1 DEF OpensOnce
<1>3. OpensOnce(c)'
  BY <1>1, <1>2 DEF OpensOnce, MachineSide
<1>4. Taking(c)' => Taking(c) /\ Taken(c)' = Taken(c)
  BY <1>2 DEF Taking
<1>5. UpInOrder(c)'
  BY <1>1, <1>4 DEF UpInOrder, MachineSide
<1>. QED BY <1>3, <1>5

LEMMA ClosedStates ==
  /\ \A s \in GatewayStates :
       /\ Closed(s) \in GatewayStates \ {"open"}
       /\ Closed(s) \in {"open", "closing"} => s \in {"open", "closing"}
  /\ \A s \in LocalStates :
       /\ Closed(s) \in LocalStates \ {"open", "connecting"}
       /\ (Closed(s) = "none" => s = "none") /\ (Closed(s) = "closing" => s \in {"open", "closing"})
       /\ Closed(s) = "aborted" => s \in {"connecting", "aborted"}
BY DEF Closed, GatewayStates, LocalStates

-----------------------------------------------------------------------------
(***************************************************************************)
(* The steps of the user's websocket.                                      *)
(***************************************************************************)
LEMMA OnGatewayMessage ==
  ASSUME RoutesInv, NEW c \in Connections, GatewayMessage(c)
  PROVE  RoutesInv'
<1>1. /\ gateway[c] \in {"open", "closing"} /\ sent[c] + produced[c] < MaxMessages
      /\ sent' = [sent EXCEPT ![c] = @ + 1] /\ UpSend(c, Data(sent[c] + 1))
      /\ UNCHANGED <<cloudSocket, machineSocket, gateway, known, toUser, local, inLocal,
                     pendingData, produced, toLocal, refused, downLink>>
  BY DEF GatewayMessage, UserSends, sockets, localVars
<1>2. /\ Typed /\ Tables(c) /\ OpensOnce(c) /\ UpInOrder(c)
      /\ sent[c] \in Nat /\ produced[c] \in Nat /\ Len(Taken(c)) \in Nat /\ Up(c) \in FrameSeqs
  BY AtRoute
<1>3. PICK n \in 1..MaxMessages : n = sent[c] + 1
  BY <1>1, <1>2, MessageAssumption
<1>. DEFINE f == Data(n)
<1>4. f \in FrameSet /\ f.type = "data" /\ f.n = sent[c] + 1
  BY <1>3, FrameTypes
<1>5. /\ UpAt(c) /\ (cloudSocket = "open" => Up(c)' = Append(Up(c), f))
      /\ (cloudSocket # "open" => Up(c)' = Up(c) /\ upQueue' = upQueue)
  <2>1. UpSend(c, f)
    BY <1>1, <1>3 DEF UpSend, Enqueue
  <2>. QED BY <1>2, <1>4, <2>1, UpSent
<1>. HIDE DEF f
<1>6. DownAt(c) /\ Down(c)' = Down(c) /\ downQueue' = downQueue
  BY <1>1, <1>2, DownStays
<1>7. CloudSide(c) /\ sent'[c] = sent[c] + 1
  <2>1. sent' \in [Connections -> 0..MaxMessages] /\ sent'[c] = sent[c] + 1
        /\ \A d \in Connections \ {c} : sent'[d] = sent[d]
    BY <1>1, <1>2, <1>3 DEF Typed
  <2>. QED BY <1>1, <1>2, <1>5, <1>6, <2>1 DEF CloudSide, Typed
<1>8. NothingYet(c)' /\ DownInOrder(c)'
  BY <1>1, <1>6, <1>7, UserAlone
<1>9. Tables(c)'
  BY <1>1, <1>2, <1>5, <1>6 DEF Tables
<1>10. /\ \A type : type # "data" => (Has(Up(c)', type) <=> Has(Up(c), type))
       /\ OneOpen(Up(c)') /\ (~ refused[c] => OpenFirst(Up(c)'))
  <2>1. CASE cloudSocket = "open"
    <3>1. Up(c)' = Append(Up(c), f) /\ f.type \notin {"open"}
      BY <1>4, <1>5, <2>1
    <3>2. /\ \A type : Has(Append(Up(c), f), type) <=> Has(Up(c), type) \/ f.type = type
          /\ OneOpen(Up(c)) => OneOpen(Append(Up(c), f))
          /\ OpenFirst(Up(c)) => OpenFirst(Append(Up(c), f))
      BY <1>2, <1>4, HasAppend
    <3>. QED BY <1>2, <1>4, <3>1, <3>2 DEF OpensOnce
  <2>2. CASE cloudSocket # "open"
    BY <1>2, <1>5, <2>2 DEF OpensOnce
  <2>. QED BY <2>1, <2>2
<1>11. OpensOnce(c)'
  BY <1>1, <1>2, <1>6, <1>10 DEF OpensOnce
<1>12. UpInOrder(c)'
  <2>1. SUFFICES ASSUME ~ refused[c] PROVE UpInOrder(c)'
    BY <1>1 DEF UpInOrder
  <2>2. Taken(c)' = Taken(c) /\ (Taking(c)' <=> Taking(c))
    BY <1>1, <1>10 DEF Taken, Taking
  <2>3. CASE cloudSocket = "open"
    BY <1>1, <1>2, <1>4, <1>5, <1>7, <2>1, <2>2, <2>3, CarryData DEF UpInOrder
  <2>4. CASE cloudSocket # "open"
    BY <1>1, <1>2, <1>5, <2>1, <2>2, <2>4 DEF UpInOrder
  <2>. QED BY <2>3, <2>4
<1>. QED BY <1>7, <1>8, <1>9, <1>11, <1>12, CloudStep DEF Route

\* Of a route that the user's end has given up.
LEMMA UserEnds ==
  ASSUME RoutesInv, NEW c \in Connections, CloudSide(c), Down(c)' = Down(c), downQueue' = downQueue,
         toUser'[c] = toUser[c], gateway'[c] # "open", ~ known'[c], refused[c] => refused'[c],
         cloudSocket = "closed" => upQueue'[c] = <<>>,
         Has(Up(c)', "open") => Has(Up(c), "open"), OneOpen(Up(c)'),
         ~ refused'[c] => OpenFirst(Up(c)'),
         ~ refused'[c] =>
           \A k \in Nat : Carry(Up(c), k) =>
             /\ Carry(Up(c)', k)
             /\ cloudSocket = "open" /\ gateway'[c] \in {"open", "closing"} => UpTo(Up(c)', k, sent'[c])
  PROVE  RoutesInv'
<1>1. /\ Tables(c) /\ OpensOnce(c) /\ UpInOrder(c) /\ Len(Taken(c)) \in Nat
  BY AtRoute
<1>2. NothingYet(c)' /\ DownInOrder(c)'
  BY UserAlone
<1>3. Tables(c)'
  BY <1>1 DEF Tables, CloudSide
<1>4. OpensOnce(c)'
  BY <1>1 DEF OpensOnce, CloudSide
<1>5. UpInOrder(c)'
  <2>1. SUFFICES ASSUME ~ refused'[c] PROVE UpInOrder(c)'
    BY DEF UpInOrder
  <2>2. Taken(c)' = Taken(c) /\ (Taking(c)' => Taking(c)) /\ ~ refused[c]
    BY <2>1 DEF Taken, Taking, CloudSide
  <2>3. Taking(c)' => Carry(Up(c), Len(Taken(c)))
    BY <1>1, <2>2 DEF UpInOrder
  <2>4. Taking(c)' => /\ Carry(Up(c)', Len(Taken(c)))
                      /\ cloudSocket = "open" /\ gateway'[c] \in {"open", "closing"} =>
                           UpTo(Up(c)', Len(Taken(c)), sent'[c])
    BY <1>1, <2>1, <2>3
  <2>5. IsPrefixOfNumbers(Taken(c))
    BY <1>1, <2>2 DEF UpInOrder
  <2>. QED BY <2>2, <2>4, <2>5 DEF UpInOrder, CloudSide
<1>. QED BY <1>2, <1>3, <1>4, <1>5, CloudStep DEF Route

LEMMA OnGatewayMessageRefused ==
  ASSUME RoutesInv, NEW c \in Connections, GatewayMessageRefused(c)
  PROVE  RoutesInv'
<1>1. /\ sent[c] + produced[c] < MaxMessages /\ cloudSocket = "open"
      /\ sent' = [sent EXCEPT ![c] = @ + 1] /\ refused' = [refused EXCEPT ![c] = TRUE]
      /\ gateway' = [gateway EXCEPT ![c] = IF known[c] THEN Closed(@) ELSE @]
      /\ known' = [known EXCEPT ![c] = FALSE]
      /\ upWire' = IF cloudSocket = "open"
                   THEN [upWire EXCEPT ![c] = Append(@, CloseFrame)] ELSE upWire
      /\ UNCHANGED <<cloudSocket, machineSocket, toUser, local, inLocal, pendingData, produced,
                     toLocal, upQueue, downLink>>
  BY DEF GatewayMessageRefused, UserSends, GatewayOverload, sockets, localVars
<1>2. /\ Typed /\ Tables(c) /\ OpensOnce(c) /\ gateway[c] \in GatewayStates
      /\ sent[c] \in Nat /\ produced[c] \in Nat
  BY AtRoute
<1>3. UpAt(c) /\ Up(c)' = Append(upWire[c], CloseFrame) \o upQueue[c]
  BY <1>1, <1>2, UpOvertaken
<1>4. DownAt(c) /\ Down(c)' = Down(c) /\ downQueue' = downQueue
  BY <1>1, <1>2, DownStays
<1>5. CloudSide(c)
  <2>1. sent[c] + 1 \in 0..MaxMessages /\ Closed(gateway[c]) \in GatewayStates
    BY <1>1, <1>2, ClosedStates, MessageAssumption
  <2>. QED BY <1>1, <1>2, <1>3, <1>4, <2>1 DEF CloudSide, Typed
<1>6. ~ known'[c] /\ refused'[c] /\ gateway'[c] # "open" /\ toUser'[c] = toUser[c]
  BY <1>1, <1>2, ClosedStates DEF Tables, Typed
<1>7. OneOpen(Up(c)') /\ (Has(Up(c)', "open") => Has(Up(c), "open"))
  <2>1. /\ upWire[c] \in FrameSeqs /\ upQueue[c] \in FrameSeqs
        /\ Up(c) = upWire[c] \o upQueue[c] /\ OneOpen(Up(c))
    BY <1>2, UpTypes DEF OpensOnce
  <2>. QED BY <1>3, <2>1, Overtaken
<1>. QED BY <1>1, <1>4, <1>5, <1>6, <1>7, UserEnds

LEMMA OnUpOverflows ==
  ASSUME RoutesInv, NEW c \in Connections, UpOverflows(c)
  PROVE  RoutesInv'
<1>1. /\ cloudSocket = "open" /\ upQueue' = [upQueue EXCEPT ![c] = <<>>]
      /\ gateway' = [gateway EXCEPT ![c] = IF known[c] THEN Closed(@) ELSE @]
      /\ known' = [known EXCEPT ![c] = FALSE]
      /\ upWire' = IF cloudSocket = "open"
                   THEN [upWire EXCEPT ![c] = Append(@, CloseFrame)] ELSE upWire
      /\ UNCHANGED <<cloudSocket, machineSocket, toUser, sent, local, inLocal, pendingData,
                     produced, toLocal, refused, downLink>>
  BY DEF UpOverflows, GatewayOverload, sockets, localVars
<1>2. /\ Typed /\ Tables(c) /\ OpensOnce(c) /\ gateway[c] \in GatewayStates
  BY AtRoute
<1>3. UpAt(c) /\ Up(c)' = Append(upWire[c], CloseFrame)
  BY <1>1, <1>2, UpOverflown
<1>4. DownAt(c) /\ Down(c)' = Down(c) /\ downQueue' = downQueue
  BY <1>1, <1>2, DownStays
<1>5. CloudSide(c)
  <2>1. Closed(gateway[c]) \in GatewayStates
    BY <1>2, ClosedStates
  <2>. QED BY <1>1, <1>2, <1>3, <1>4, <2>1 DEF CloudSide, Typed
<1>6. ~ known'[c] /\ (refused'[c] <=> refused[c]) /\ gateway'[c] # "open" /\ toUser'[c] = toUser[c]
  BY <1>1, <1>2, ClosedStates DEF Tables, Typed
<1>. DEFINE w == upWire[c]
<1>7. /\ w \in FrameSeqs /\ upQueue[c] \in FrameSeqs /\ Up(c) = w \o upQueue[c]
  BY <1>2, UpTypes
<1>8. /\ OneOpen(w) /\ (~ refused[c] => OpenFirst(w)) /\ (Has(w, "open") => Has(Up(c), "open"))
      /\ \A k \in Nat : Carry(Up(c), k) => Carry(w, k)
  BY <1>2, <1>7, Dropped DEF OpensOnce
<1>. HIDE DEF w
<1>9. Up(c)' = Append(w, CloseFrame)
  BY <1>3 DEF w
<1>10. /\ OneOpen(Up(c)') /\ (~ refused[c] => OpenFirst(Up(c)'))
       /\ Has(Up(c)', "open") => Has(Up(c), "open")
  BY <1>7, <1>8, <1>9, HasAppend, FrameTypes
<1>11. ASSUME NEW k \in Nat, Carry(Up(c), k)
       PROVE  Carry(Up(c)', k) /\ UpTo(Up(c)', k, sent'[c])
  BY <1>7, <1>8, <1>9, <1>11, CarryClose
<1>. QED BY <1>1, <1>4, <1>5, <1>6, <1>10, <1>11, UserEnds

LEMMA OnGatewayCloses ==
  ASSUME RoutesInv, NEW c \in Connections, GatewayCloses(c)
  PROVE  RoutesInv'
<1>1. /\ gateway[c] = "open" /\ gateway' = [gateway EXCEPT ![c] = "closing"]
      /\ UNCHANGED <<cloudSocket, machineSocket, known, toUser, sent, local, inLocal, pendingData,
                     produced, toLocal, refused, upLink, downLink>>
  BY DEF GatewayCloses, linkVars, sockets, localVars
<1>2. Typed /\ Tables(c) /\ OpensOnce(c) /\ UpInOrder(c)
  BY AtRoute
<1>3. /\ UpAt(c) /\ Up(c)' = Up(c) /\ upQueue' = upQueue
      /\ DownAt(c) /\ Down(c)' = Down(c) /\ downQueue' = downQueue
  BY <1>1, <1>2, UpStays, DownStays
<1>4. CloudSide(c) /\ gateway'[c] = "closing"
  BY <1>1, <1>2, <1>3 DEF CloudSide, Typed, GatewayStates
<1>5. NothingYet(c)' /\ DownInOrder(c)'
  BY <1>1, <1>3, <1>4, UserAlone
<1>6. Tables(c)'
  BY <1>1, <1>2, <1>3, <1>4 DEF Tables
<1>7. OpensOnce(c)'
  BY <1>1, <1>2, <1>3, <1>4 DEF OpensOnce
<1>8. UpInOrder(c)'
  <2>1. Taken(c)' = Taken(c) /\ (Taking(c)' <=> Taking(c))
    BY <1>1, <1>3 DEF Taken, Taking
  <2>. QED BY <1>1, <1>2, <1>3, <1>4, <2>1 DEF UpInOrder
<1>. QED BY <1>4, <1>5, <1>6, <1>7, <1>8, CloudStep DEF Route

\* The "error" and "close" events of the user's websocket.
LEMMA OnGatewayGone ==
  ASSUME RoutesInv, NEW c \in Connections, GatewayError(c) \/ GatewayClose(c)
  PROVE  RoutesInv'
<1>1. /\ \E state \in {"failed", "closed"} : gateway' = [gateway EXCEPT ![c] = state]
      /\ known' = [known EXCEPT ![c] = FALSE] /\ UpRemoveThenClose(c)
      /\ UNCHANGED <<cloudSocket, machineSocket, toUser, sent, local, inLocal, pendingData,
                     produced, toLocal, refused, downLink>>
  BY DEF GatewayError, GatewayClose, sockets, localVars
<1>2. Typed /\ Tables(c) /\ OpensOnce(c)
  BY AtRoute
<1>. DEFINE w == upWire[c]
<1>3. /\ UpAt(c) /\ (cloudSocket # "open" => upQueue'[c] = <<>>)
      /\ Up(c)' = w \/ Up(c)' = Append(w, CloseFrame)
  BY <1>1, <1>2, UpRemoved
<1>4. DownAt(c) /\ Down(c)' = Down(c) /\ downQueue' = downQueue
  BY <1>1, <1>2, DownStays
<1>5. CloudSide(c) /\ gateway'[c] \in {"failed", "closed"}
  BY <1>1, <1>2, <1>3, <1>4 DEF CloudSide, Typed, GatewayStates
<1>6. ~ known'[c] /\ (refused'[c] <=> refused[c]) /\ toUser'[c] = toUser[c]
  BY <1>1, <1>2 DEF Typed
<1>7. /\ w \in FrameSeqs /\ upQueue[c] \in FrameSeqs /\ Up(c) = w \o upQueue[c]
  BY <1>2, UpTypes
<1>8. /\ OneOpen(w) /\ (~ refused[c] => OpenFirst(w)) /\ (Has(w, "open") => Has(Up(c), "open"))
      /\ \A k \in Nat : Carry(Up(c), k) => Carry(w, k)
  BY <1>2, <1>7, Dropped DEF OpensOnce
<1>. HIDE DEF w
<1>9. /\ OneOpen(Up(c)') /\ (~ refused[c] => OpenFirst(Up(c)'))
      /\ Has(Up(c)', "open") => Has(Up(c), "open")
  <2>1. CASE Up(c)' = w
    BY <1>8, <2>1
  <2>2. CASE Up(c)' = Append(w, CloseFrame)
    BY <1>7, <1>8, <2>2, HasAppend, FrameTypes
  <2>. QED BY <1>3, <2>1, <2>2
<1>10. ASSUME NEW k \in Nat, Carry(Up(c), k) PROVE Carry(Up(c)', k)
  BY <1>3, <1>7, <1>8, <1>10, CarryClose
<1>. QED BY <1>3, <1>4, <1>5, <1>6, <1>9, <1>10, UserEnds

LEMMA OnUpDrain ==
  ASSUME RoutesInv, NEW c \in Connections, UpDrain(c)
  PROVE  RoutesInv'
<1>1. /\ cloudSocket = "open" /\ Drains(c, cloudSocket, upQueue, upWire)
      /\ UNCHANGED <<cloudSocket, machineSocket, gateway, known, toUser, sent, local, inLocal,
                     pendingData, produced, toLocal, refused, downLink>>
  BY DEF UpDrain, Drains, sockets, cloudVars, localVars
<1>2. Typed /\ Tables(c) /\ OpensOnce(c) /\ UpInOrder(c)
  BY AtRoute
<1>3. /\ UpAt(c) /\ Up(c)' = Up(c)
      /\ DownAt(c) /\ Down(c)' = Down(c) /\ downQueue' = downQueue
  BY <1>1, <1>2, UpDrained, DownStays
<1>4. CloudSide(c)
  BY <1>1, <1>2, <1>3 DEF CloudSide, Typed
<1>5. NothingYet(c)' /\ DownInOrder(c)'
  BY <1>1, <1>3, <1>4, UserAlone
<1>6. Tables(c)' /\ OpensOnce(c)'
  BY <1>1, <1>2, <1>3 DEF Tables, OpensOnce
<1>7. UpInOrder(c)'
  <2>1. Taken(c)' = Taken(c) /\ (Taking(c)' <=> Taking(c))
    BY <1>1, <1>3 DEF Taken, Taking
  <2>. QED BY <1>1, <1>2, <1>3, <2>1 DEF UpInOrder
<1>. QED BY <1>4, <1>5, <1>6, <1>7, CloudStep DEF Route

LEMMA NoOpen ==
  ASSUME NEW u, ~ Has(u, "open")
  PROVE  OneOpen(u) /\ OpenFirst(u)
BY DEF Has, OneOpen, OpenFirst

\* openGatewayConnection starts a route of which nothing is left.
LEMMA OnOpenGateway ==
  ASSUME RoutesInv, NEW c \in Connections, OpenGateway(c)
  PROVE  RoutesInv'
<1>1. /\ local[c] \in {"none", "closed"} /\ upQueue[c] = <<>> /\ upWire[c] = <<>>
      /\ downQueue[c] = <<>> /\ downWire[c] = <<>> /\ cloudSocket \in {"open", "closing"}
      /\ gateway' = [gateway EXCEPT ![c] = "open"] /\ known' = [known EXCEPT ![c] = TRUE]
      /\ sent' = [sent EXCEPT ![c] = 0] /\ toUser' = [toUser EXCEPT ![c] = <<>>]
      /\ local' = [local EXCEPT ![c] = "none"] /\ produced' = [produced EXCEPT ![c] = 0]
      /\ toLocal' = [toLocal EXCEPT ![c] = <<>>] /\ refused' = [refused EXCEPT ![c] = FALSE]
      /\ UpSend(c, OpenFrame)
      /\ UNCHANGED <<cloudSocket, machineSocket, inLocal, pendingData, downLink>>
  BY DEF OpenGateway, Unused, NoFrames, sockets
<1>2. /\ Typed /\ Tables(c) /\ Up(c) \in FrameSeqs
  BY AtRoute
<1>3. /\ DownAt(c) /\ Down(c)' = Down(c) /\ downQueue' = downQueue
  BY <1>1, <1>2, DownStays
<1>4. /\ UpAt(c) /\ (cloudSocket = "open" => Up(c)' = Append(Up(c), OpenFrame))
      /\ (cloudSocket # "open" => Up(c)' = Up(c))
  BY <1>1, <1>2, UpSent, FrameTypes
<1>5. Up(c) = <<>> /\ Down(c) = <<>>
  <2>1. <<>> \o <<>> = <<>>
    BY Dropped, FrameTypes
  <2>. QED BY <1>1, <2>1 DEF Up, Down
<1>6. Up(c)' = <<>> \/ Up(c)' = <<OpenFrame>>
  BY <1>4, <1>5, OneFrame, FrameTypes
<1>7. Typed'
  <2>1. 0 \in 0..MaxMessages
    BY MessageAssumption
  <2>. QED BY <1>1, <1>2, <1>3, <1>4, <2>1, FrameTypes
           DEF Typed, UpAt, DownAt, GatewayStates, LocalStates
<1>8. Elsewhere(c)
  BY <1>1, <1>2, <1>3, <1>4 DEF Typed, UpAt, DownAt, Elsewhere, sockets
<1>9. /\ gateway'[c] = "open" /\ known'[c] = TRUE /\ sent'[c] = 0 /\ toUser'[c] = <<>>
      /\ local'[c] = "none" /\ produced'[c] = 0 /\ toLocal'[c] = <<>> /\ refused'[c] = FALSE
      /\ inLocal'[c] = FALSE /\ pendingData'[c] = <<>> /\ Down(c)' = <<>>
  BY <1>1, <1>2, <1>3, <1>5 DEF Typed, Tables
<1>10. Tables(c)'
  BY <1>1, <1>2, <1>3, <1>9 DEF Tables
<1>11. /\ OneOpen(Up(c)') /\ OpenFirst(Up(c)') /\ ~ Has(Up(c)', "close")
       /\ Carry(Up(c)', 0) /\ (Has(Up(c)', "open") => UpTo(Up(c)', 0, 0))
  <2>1. CASE Up(c)' = <<>>
    BY <2>1, NoneAtAll
  <2>2. CASE Up(c)' = <<OpenFrame>>
    BY <2>2, OneFrame, FrameTypes
  <2>. QED BY <1>6, <2>1, <2>2
<1>12. /\ ~ Has(<<>>, "close") /\ Carry(<<>>, 0) /\ <<>> \o <<>> = <<>>
       /\ Len(<<>>) = 0 /\ IsPrefixOfNumbers(<<>>)
  BY NoneAtAll, NumbersAt, FrameTypes
<1>13. OpensOnce(c)'
  BY <1>9, <1>11, <1>12 DEF OpensOnce
<1>14. NothingYet(c)'
  BY <1>9 DEF NothingYet
<1>15. UpInOrder(c)'
  <2>1. Taken(c)' = <<>>
    BY <1>9, <1>12 DEF Taken
  <2>2. Taking(c)' => Has(Up(c)', "open")
    BY <1>9 DEF Taking
  <2>. QED BY <1>9, <1>11, <1>12, <2>1, <2>2 DEF UpInOrder
<1>16. DownInOrder(c)'
  BY <1>9, <1>12 DEF DownInOrder
<1>. QED BY <1>7, <1>8, <1>10, <1>13, <1>14, <1>15, <1>16, OneRoute DEF Route

-----------------------------------------------------------------------------
(***************************************************************************)
(* The cloud hears of a route.                                             *)
(***************************************************************************)
\* What comes from a local websocket comes from one that was opened.
LEMMA Unopened ==
  ASSUME RoutesInv, NEW c \in Connections, Down(c) # <<>>
  PROVE  /\ local[c] \notin {"none", "connecting"} /\ ~ Has(Up(c), "open")
         /\ Has(Up(c), "close") => gateway[c] # "open"
         /\ ~ refused[c] => IsPrefixOfNumbers(Taken(c))
         /\ ~ refused[c] /\ inLocal[c] =>
              /\ Carry(Up(c), Len(Taken(c)))
              /\ cloudSocket = "open" /\ gateway[c] \in {"open", "closing"} =>
                   UpTo(Up(c), Len(Taken(c)), sent[c])
         /\ Has(Down(c), "close") => ~ inLocal[c]
<1>1. OpensOnce(c) /\ NothingYet(c) /\ UpInOrder(c)
  BY AtRoute
<1>2. local[c] \notin {"none", "connecting"}
  BY <1>1 DEF NothingYet
<1>. QED BY <1>1, <1>2 DEF OpensOnce, UpInOrder, Taking

LEMMA CloudHears ==
  ASSUME RoutesInv, NEW c \in Connections, CloudSide(c),
         Down(c) # <<>>, Down(c)' = Tail(Down(c)), downQueue' = downQueue,
         refused'[c] = refused[c], sent'[c] = sent[c],
         known'[c] => known[c] /\ gateway'[c] = gateway[c],
         gateway'[c] = "open" => gateway[c] = "open" /\ known'[c],
         cloudSocket = "closed" => upQueue'[c] = <<>>,
         ~ Has(Up(c)', "open"), Has(Up(c)', "close") => gateway'[c] # "open",
         ~ refused[c] /\ inLocal[c] =>
           /\ Carry(Up(c)', Len(Taken(c)))
           /\ cloudSocket = "open" /\ gateway'[c] \in {"open", "closing"} =>
                UpTo(Up(c)', Len(Taken(c)), sent[c]),
         IsPrefixOfNumbers(toUser'[c]),
         gateway'[c] = "open" =>
           /\ Carry(Tail(Down(c)), Len(toUser'[c]))
           /\ \A n \in Nat : UpTo(Down(c), Len(toUser[c]), n) =>
                UpTo(Tail(Down(c)), Len(toUser'[c]), n)
  PROVE  RoutesInv'
<1>1. /\ Tables(c) /\ OpensOnce(c) /\ NothingYet(c) /\ DownInOrder(c)
      /\ Down(c) \in FrameSeqs /\ produced[c] \in Nat
  BY AtRoute
<1>2. /\ local[c] \notin {"none", "connecting"}
      /\ ~ refused[c] => IsPrefixOfNumbers(Taken(c))
  BY Unopened
<1>3. /\ Has(Down(c)', "close") => Has(Down(c), "close")
      /\ OnlyCloses(Down(c)) => OnlyCloses(Down(c)')
  BY <1>1, HasTail
<1>4. Tables(c)'
  BY <1>1 DEF Tables, CloudSide
<1>5. OpensOnce(c)'
  BY <1>1, <1>2, <1>3, NoOpen DEF OpensOnce, CloudSide
<1>6. NothingYet(c)'
  BY <1>1, <1>2, <1>3 DEF NothingYet, CloudSide
<1>7. UpInOrder(c)'
  BY <1>2 DEF UpInOrder, Taking, Taken, CloudSide
<1>8. DownInOrder(c)'
  BY <1>1 DEF DownInOrder, CloudSide
<1>. QED BY <1>4, <1>5, <1>6, <1>7, <1>8, CloudStep DEF Route

LEMMA OnReceiveOpenOk ==
  ASSUME RoutesInv, NEW c \in Connections, ReceiveOpenOk(c)
  PROVE  RoutesInv'
<1>1. /\ downWire[c] # <<>> /\ Head(downWire[c]).type = "openOk" /\ Arrives(c, downWire)
      /\ UNCHANGED <<cloudSocket, machineSocket, gateway, known, sent, toUser, local, inLocal,
                     pendingData, produced, toLocal, refused, upLink, downQueue>>
  BY DEF ReceiveOpenOk, CloudReceives, Arriving, sockets, cloudVars, localVars
<1>2. /\ Typed /\ Tables(c) /\ DownInOrder(c) /\ Down(c) \in FrameSeqs /\ Len(toUser[c]) \in Nat
  BY AtRoute
<1>3. /\ DownAt(c) /\ Down(c) # <<>> /\ Down(c)' = Tail(Down(c)) /\ Head(Down(c)).type = "openOk"
      /\ UpAt(c) /\ Up(c)' = Up(c) /\ upQueue' = upQueue
  BY <1>1, <1>2, DownArrives, UpStays
<1>4. CloudSide(c)
  BY <1>1, <1>2, <1>3 DEF CloudSide, Typed
<1>5. gateway[c] = "open" =>
        /\ Carry(Tail(Down(c)), Len(toUser[c]))
        /\ \A n \in Nat : UpTo(Down(c), Len(toUser[c]), n) => UpTo(Tail(Down(c)), Len(toUser[c]), n)
  BY <1>2, <1>3, CarryTail DEF DownInOrder
<1>6. IsPrefixOfNumbers(toUser[c])
  BY <1>2 DEF DownInOrder
<1>. QED BY <1>1, <1>2, <1>3, <1>4, <1>5, <1>6, Unopened, CloudHears DEF Tables

LEMMA OnReceiveOpenFailed ==
  ASSUME RoutesInv, NEW c \in Connections, ReceiveOpenFailed(c)
  PROVE  RoutesInv'
<1>1. /\ downWire[c] # <<>> /\ Head(downWire[c]).type = "openFailed" /\ Arrives(c, downWire)
      /\ gateway' = [gateway EXCEPT ![c] = IF Handled /\ known[c] THEN Closed(@) ELSE @]
      /\ known' = [known EXCEPT ![c] = @ /\ ~ Handled]
      /\ UNCHANGED <<cloudSocket, machineSocket, sent, toUser, local, inLocal,
                     pendingData, produced, toLocal, refused, upLink, downQueue>>
  BY DEF ReceiveOpenFailed, CloudReceives, Arriving, sockets, localVars
<1>2. /\ Typed /\ Tables(c) /\ DownInOrder(c) /\ Down(c) \in FrameSeqs /\ Len(toUser[c]) \in Nat
      /\ gateway[c] \in GatewayStates
  BY AtRoute
<1>3. /\ DownAt(c) /\ Down(c) # <<>> /\ Down(c)' = Tail(Down(c))
      /\ Head(Down(c)).type = "openFailed"
      /\ UpAt(c) /\ Up(c)' = Up(c) /\ upQueue' = upQueue
  BY <1>1, <1>2, DownArrives, UpStays
<1>4. Closed(gateway[c]) \in GatewayStates \ {"open"}
      /\ (Closed(gateway[c]) \in {"open", "closing"} => gateway[c] \in {"open", "closing"})
  BY <1>2, ClosedStates
<1>5. CloudSide(c)
  BY <1>1, <1>2, <1>3, <1>4 DEF CloudSide, Typed
<1>6. /\ gateway'[c] = IF Handled /\ known[c] THEN Closed(gateway[c]) ELSE gateway[c]
      /\ known'[c] <=> known[c] /\ ~ Handled
  BY <1>1, <1>2 DEF Typed
<1>7. /\ gateway'[c] # "open" /\ ~ known'[c]
      /\ gateway'[c] \in {"open", "closing"} => gateway[c] \in {"open", "closing"}
  BY <1>2, <1>4, <1>6 DEF Tables, Handled
<1>8. IsPrefixOfNumbers(toUser[c])
  BY <1>2 DEF DownInOrder
<1>. QED BY <1>1, <1>2, <1>3, <1>5, <1>7, <1>8, Unopened, CloudHears DEF Tables

LEMMA OnReceiveData ==
  ASSUME RoutesInv, NEW c \in Connections, ReceiveData(c)
  PROVE  RoutesInv'
<1>1. /\ downWire[c] # <<>> /\ Head(downWire[c]).type = "data" /\ Arrives(c, downWire)
      /\ toUser' = [toUser EXCEPT ![c] = IF Handled /\ known[c] /\ gateway[c] = "open"
                                         THEN Append(@, Head(downWire[c]).n) ELSE @]
      /\ UNCHANGED <<cloudSocket, machineSocket, gateway, known, sent, local, inLocal,
                     pendingData, produced, toLocal, refused, upLink, downQueue>>
  BY DEF ReceiveData, CloudReceives, Arriving, sockets, localVars
<1>2. /\ Typed /\ Tables(c) /\ DownInOrder(c) /\ Down(c) \in FrameSeqs /\ Len(toUser[c]) \in Nat
      /\ toUser[c] \in NumberSeqs
  BY AtRoute
<1>3. /\ DownAt(c) /\ Down(c) # <<>> /\ Down(c)' = Tail(Down(c)) /\ Head(Down(c)).type = "data"
      /\ Head(Down(c)) = Head(downWire[c]) /\ Head(downWire[c]) \in FrameSet
      /\ UpAt(c) /\ Up(c)' = Up(c) /\ upQueue' = upQueue
  BY <1>1, <1>2, DownArrives, UpStays
<1>. DEFINE n == Head(Down(c)).n
<1>4. n \in 1..MaxMessages
  BY <1>1, <1>3 DEF FrameSet, Frames
<1>5. gateway[c] = "open" =>
        /\ n = Len(toUser[c]) + 1
        /\ Carry(Tail(Down(c)), Len(toUser[c]) + 1)
        /\ \A m \in Nat : UpTo(Down(c), Len(toUser[c]), m) =>
                            UpTo(Tail(Down(c)), Len(toUser[c]) + 1, m)
  BY <1>2, <1>3, CarryTail DEF DownInOrder
<1>6. toUser' = [toUser EXCEPT ![c] = IF gateway[c] = "open" THEN Append(@, n) ELSE @]
  BY <1>1, <1>2, <1>3 DEF Tables, Handled
<1>. HIDE DEF n
<1>7. /\ Append(toUser[c], n) \in NumberSeqs /\ Len(Append(toUser[c], n)) = Len(toUser[c]) + 1
      /\ IsPrefixOfNumbers(toUser[c]) /\ n = Len(toUser[c]) + 1 =>
           IsPrefixOfNumbers(Append(toUser[c], n))
  BY <1>2, <1>4, NumberTaken
<1>8. CloudSide(c)
  BY <1>1, <1>2, <1>3, <1>6, <1>7 DEF CloudSide, Typed
<1>9. toUser'[c] = IF gateway[c] = "open" THEN Append(toUser[c], n) ELSE toUser[c]
  BY <1>2, <1>6 DEF Typed
<1>10. /\ IsPrefixOfNumbers(toUser'[c])
       /\ gateway[c] = "open" => Len(toUser'[c]) = Len(toUser[c]) + 1
  BY <1>2, <1>5, <1>7, <1>9 DEF DownInOrder
<1>11. gateway'[c] = "open" =>
         /\ Carry(Tail(Down(c)), Len(toUser'[c]))
         /\ \A m \in Nat : UpTo(Down(c), Len(toUser[c]), m) =>
                             UpTo(Tail(Down(c)), Len(toUser'[c]), m)
  BY <1>1, <1>5, <1>10
<1>. QED BY <1>1, <1>2, <1>3, <1>8, <1>10, <1>11, Unopened, CloudHears DEF Tables

LEMMA OnReceiveDataOverloads ==
  ASSUME RoutesInv, NEW c \in Connections, ReceiveDataOverloads(c)
  PROVE  RoutesInv'
<1>1. /\ downWire[c] # <<>> /\ Arrives(c, downWire)
      /\ gateway' = [gateway EXCEPT ![c] = IF known[c] THEN Closed(@) ELSE @]
      /\ known' = [known EXCEPT ![c] = FALSE]
      /\ upWire' = IF cloudSocket = "open"
                   THEN [upWire EXCEPT ![c] = Append(@, CloseFrame)] ELSE upWire
      /\ UNCHANGED <<cloudSocket, machineSocket, sent, toUser, local, inLocal,
                     pendingData, produced, toLocal, refused, upQueue, downQueue>>
  BY DEF ReceiveDataOverloads, CloudReceives, GatewayOverload, Arriving, sockets, localVars
<1>2. /\ Typed /\ Tables(c) /\ DownInOrder(c) /\ Len(Taken(c)) \in Nat
      /\ gateway[c] \in GatewayStates
  BY AtRoute
<1>3. DownAt(c) /\ Down(c) # <<>> /\ Down(c)' = Tail(Down(c))
  BY <1>1, <1>2, DownArrives
<1>4. /\ UpAt(c) /\ (cloudSocket # "open" => Up(c)' = Up(c))
      /\ cloudSocket = "open" => Up(c)' = Append(upWire[c], CloseFrame) \o upQueue[c]
  BY <1>1, <1>2, UpOvertaken
<1>5. /\ Closed(gateway[c]) \in GatewayStates \ {"open"}
      /\ Closed(gateway[c]) \in {"open", "closing"} => gateway[c] \in {"open", "closing"}
  BY <1>2, ClosedStates
<1>6. CloudSide(c)
  BY <1>1, <1>2, <1>3, <1>4, <1>5 DEF CloudSide, Typed
<1>7. ~ known'[c] /\ gateway'[c] # "open"
  BY <1>1, <1>2, <1>5 DEF Tables, Typed
<1>8. /\ ~ Has(Up(c), "open")
      /\ ~ refused[c] /\ inLocal[c] => Carry(Up(c), Len(Taken(c)))
  BY <1>3, Unopened
<1>9. /\ ~ Has(Up(c)', "open")
      /\ ~ refused[c] /\ inLocal[c] =>
           /\ Carry(Up(c)', Len(Taken(c)))
           /\ cloudSocket = "open" => UpTo(Up(c)', Len(Taken(c)), sent[c])
  <2>1. /\ upWire[c] \in FrameSeqs /\ upQueue[c] \in FrameSeqs /\ Up(c) = upWire[c] \o upQueue[c]
    BY <1>2, UpTypes
  <2>2. CASE cloudSocket = "open"
    <3>1. Up(c)' = Append(upWire[c], CloseFrame) \o upQueue[c]
      BY <1>4, <2>2
    <3>2. /\ \A type : type # "close" => (Has(Up(c)', type) <=> Has(Up(c), type))
          /\ \A k \in Nat : Carry(Up(c), k) => Carry(Up(c)', k) /\ \A n : UpTo(Up(c)', k, n)
      BY <2>1, <3>1, Overtaken
    <3>. QED BY <1>2, <1>8, <3>2
  <2>3. CASE cloudSocket # "open"
    BY <1>4, <1>8, <2>3
  <2>. QED BY <2>2, <2>3
<1>10. IsPrefixOfNumbers(toUser[c])
  BY <1>2 DEF DownInOrder
<1>. QED BY <1>1, <1>2, <1>3, <1>6, <1>7, <1>9, <1>10, CloudHears DEF Tables

LEMMA OnReceiveClose ==
  ASSUME RoutesInv, NEW c \in Connections, ReceiveClose(c)
  PROVE  RoutesInv'
<1>. DEFINE handled == Handled /\ known[c]
<1>1. /\ downWire[c] # <<>> /\ Head(downWire[c]).type = "close" /\ Arrives(c, downWire)
      /\ gateway' = [gateway EXCEPT ![c] = IF handled THEN Closed(@) ELSE @]
      /\ upQueue' = [upQueue EXCEPT ![c] = IF handled THEN <<>> ELSE @]
      /\ known' = [known EXCEPT ![c] = @ /\ ~ Handled]
      /\ UNCHANGED <<cloudSocket, machineSocket, sent, toUser, local, inLocal,
                     pendingData, produced, toLocal, refused, upWire, downQueue>>
  BY DEF ReceiveClose, CloudReceives, Arriving, sockets, localVars
<1>2. /\ Typed /\ Tables(c) /\ DownInOrder(c) /\ Down(c) \in FrameSeqs
      /\ gateway[c] \in GatewayStates
  BY AtRoute
<1>3. /\ DownAt(c) /\ Down(c) # <<>> /\ Down(c)' = Tail(Down(c)) /\ Head(Down(c)).type = "close"
  BY <1>1, <1>2, DownArrives
<1>4. /\ ~ Has(Up(c), "open") /\ ~ inLocal[c]
  <2>1. Has(Down(c), "close")
    BY <1>2, <1>3, HasTail
  <2>. QED BY <1>3, <2>1, Unopened
<1>5. UpAt(c) /\ ~ Has(Up(c)', "open") /\ (cloudSocket = "closed" => upQueue'[c] = <<>>)
  <2>1. CASE handled
    <3>1. upQueue' = [upQueue EXCEPT ![c] = <<>>]
      BY <1>1, <2>1
    <3>2. UpAt(c) /\ Up(c)' = upWire[c] /\ upQueue'[c] = <<>>
      BY <1>1, <1>2, <3>1, UpCut
    <3>3. /\ upWire[c] \in FrameSeqs /\ upQueue[c] \in FrameSeqs /\ Up(c) = upWire[c] \o upQueue[c]
      BY <1>2, UpTypes
    <3>. QED BY <1>4, <3>2, <3>3, Dropped
  <2>2. CASE ~ handled
    <3>1. UNCHANGED upLink
      BY <1>1, <1>2, <2>2 DEF upLink, Typed
    <3>. QED BY <1>2, <1>4, <3>1, UpStays DEF Tables
  <2>. QED BY <2>1, <2>2
<1>6. Closed(gateway[c]) \in GatewayStates \ {"open"}
  BY <1>2, ClosedStates
<1>7. CloudSide(c)
  BY <1>1, <1>2, <1>3, <1>5, <1>6 DEF CloudSide, Typed
<1>8. ~ known'[c] /\ gateway'[c] # "open"
  BY <1>1, <1>2, <1>6 DEF Tables, Typed, Handled
<1>9. IsPrefixOfNumbers(toUser[c])
  BY <1>2 DEF DownInOrder
<1>. QED BY <1>1, <1>3, <1>4, <1>5, <1>7, <1>8, <1>9, CloudHears

-----------------------------------------------------------------------------
(***************************************************************************)
(* The steps that take the local websocket away, by closing it or because  *)
(* it has gone.                                                            *)
(***************************************************************************)
LEMMA LocalEnds ==
  ASSUME RoutesInv, NEW c \in Connections, MachineSide(c),
         \/ Up(c)' = Up(c) /\ local[c] # "none"
         \/ Up(c) # <<>> /\ Up(c)' = Tail(Up(c)),
         upQueue' = upQueue, ~ inLocal'[c], pendingData'[c] = <<>>,
         IsPrefixOfNumbers(Taken(c)) => IsPrefixOfNumbers(Taken(c)'),
         local'[c] \notin {"connecting", "open"}, local'[c] = "none" <=> local[c] = "none",
         local[c] = "none" => /\ Down(c)' = Down(c)
                              /\ produced'[c] = produced[c] /\ toLocal'[c] = toLocal[c],
         machineSocket = "closed" => downQueue'[c] = <<>>,
         local'[c] = "aborted" => OnlyCloses(Down(c)'),
         gateway[c] = "open" =>
           /\ Carry(Down(c)', Len(toUser[c]))
           /\ machineSocket = "open" /\ local'[c] = "closing" =>
                UpTo(Down(c)', Len(toUser[c]), produced'[c])
  PROVE  RoutesInv'
<1>1. /\ Tables(c) /\ OpensOnce(c) /\ NothingYet(c) /\ UpInOrder(c) /\ DownInOrder(c)
      /\ Up(c) \in FrameSeqs
  BY AtRoute
<1>2. /\ \A type : Has(Up(c)', type) => Has(Up(c), type)
      /\ OneOpen(Up(c)') /\ (~ refused[c] => OpenFirst(Up(c)') /\ ~ Has(Up(c)', "open"))
  <2>1. CASE Up(c)' = Up(c) /\ local[c] # "none"
    BY <1>1, <2>1 DEF OpensOnce
  <2>2. CASE Up(c) # <<>> /\ Up(c)' = Tail(Up(c))
    BY <1>1, <2>2, HasTail DEF OpensOnce
  <2>. QED BY <2>1, <2>2
<1>3. Tables(c)'
  BY <1>1 DEF Tables, MachineSide
<1>4. OpensOnce(c)'
  <2>1. /\ (Has(Up(c)', "open") => Has(Up(c), "open"))
        /\ Has(Up(c)', "close") => Has(Up(c), "close")
    BY <1>2
  <2>2. Has(Up(c)', "open") => local'[c] = "none"
    <3>1. SUFFICES ASSUME Has(Up(c)', "open") PROVE local'[c] = "none"
      OBVIOUS
    <3>2. local[c] = "none" /\ ~ (Up(c)' = Up(c) /\ local[c] # "none")
      BY <1>1, <2>1, <3>1 DEF OpensOnce
    <3>. QED BY <3>2
  <2>3. Has(Down(c)', "close") => local'[c] # "none"
    BY <1>1 DEF OpensOnce
  <2>. QED BY <1>1, <1>2, <2>1, <2>2, <2>3 DEF OpensOnce, MachineSide
<1>5. NothingYet(c)'
  BY <1>1 DEF NothingYet, MachineSide
<1>6. UpInOrder(c)'
  BY <1>1, <1>2 DEF UpInOrder, Taking, MachineSide
<1>7. DownInOrder(c)'
  BY <1>1 DEF DownInOrder, MachineSide
<1>. QED BY <1>3, <1>4, <1>5, <1>6, <1>7, MachineStep DEF Route

\* What was kept for the local websocket goes.
LEMMA PendingLost ==
  ASSUME RoutesInv, NEW c \in Connections, toLocal'[c] = toLocal[c], pendingData'[c] = <<>>
  PROVE  IsPrefixOfNumbers(Taken(c)) => IsPrefixOfNumbers(Taken(c)')
<1>1. toLocal[c] \in NumberSeqs /\ pendingData[c] \in NumberSeqs
  BY AtRoute
<1>2. Taken(c)' = toLocal[c]
  BY <1>1, NumbersAt DEF Taken
<1>. QED BY <1>1, <1>2, NumbersLost DEF Taken

LEMMA AfterCloses ==
  ASSUME NEW w \in FrameSeqs, OnlyCloses(w), NEW f \in FrameSet, f.type # "data", NEW k \in Nat
  PROVE  Carry(w, k) /\ Carry(Append(w, f), k)
<1>1. CASE w = <<>>
  BY <1>1, NoneAtAll, OneFrame
<1>2. CASE w # <<>>
  <2>1. 1 \in 1..Len(w) /\ w[1].type = "close" /\ Append(w, f)[1] = w[1]
    <3>1. Len(w) \in Nat \ {0}
      BY <1>2, FrameSeqLen
    <3>2. 1 \in 1..Len(w)
      BY <3>1
    <3>. QED BY <3>2, AppendAt DEF OnlyCloses
  <2>2. /\ \A i \in 1..Len(w) : 1 \in 1..i
        /\ \A i \in 1..Len(Append(w, f)) : 1 \in 1..i
    OBVIOUS
  <2>. QED BY <2>1, <2>2 DEF Carry
<1>. QED BY <1>1, <1>2

LEMMA OnLocalMessageRefused ==
  ASSUME RoutesInv, NEW c \in Connections, LocalMessageRefused(c)
  PROVE  RoutesInv'
<1>1. /\ local[c] \in {"open", "closing"} /\ sent[c] + produced[c] < MaxMessages
      /\ produced' = [produced EXCEPT ![c] = @ + 1] /\ machineSocket = "open"
      /\ local' = [local EXCEPT ![c] = IF inLocal[c] THEN Closed(@) ELSE @]
      /\ inLocal' = [inLocal EXCEPT ![c] = FALSE]
      /\ pendingData' = [pendingData EXCEPT ![c] = <<>>]
      /\ downWire' = IF machineSocket = "open"
                     THEN [downWire EXCEPT ![c] = Append(@, CloseFrame)] ELSE downWire
      /\ UNCHANGED <<cloudSocket, machineSocket, gateway, known, sent, toUser, toLocal, refused,
                     upLink, downQueue>>
  BY DEF LocalMessageRefused, LocalSends, LocalOverload, sockets, cloudVars
<1>2. /\ Typed /\ Tables(c) /\ DownInOrder(c) /\ produced[c] \in Nat /\ sent[c] \in Nat
      /\ Len(toUser[c]) \in Nat
  BY AtRoute
<1>3. DownAt(c) /\ Down(c)' = Append(downWire[c], CloseFrame) \o downQueue[c]
  BY <1>1, <1>2, DownOvertaken
<1>4. UpAt(c) /\ Up(c)' = Up(c) /\ upQueue' = upQueue
  BY <1>1, <1>2, UpStays
<1>5. local'[c] = "closing" /\ produced'[c] = produced[c] + 1 /\ produced[c] + 1 \in 0..MaxMessages
      /\ ~ inLocal'[c] /\ pendingData'[c] = <<>> /\ toLocal'[c] = toLocal[c]
  BY <1>1, <1>2, MessageAssumption DEF Tables, Typed, Closed
<1>6. MachineSide(c)
  <2>1. local' \in [Connections -> LocalStates] /\ \A d \in Connections \ {c} : local'[d] = local[d]
    BY <1>1, <1>2, <1>5 DEF Typed, LocalStates
  <2>. QED BY <1>1, <1>2, <1>3, <1>4, <1>5, <2>1, FrameTypes DEF MachineSide, Typed
<1>7. gateway[c] = "open" =>
        Carry(Down(c)', Len(toUser[c])) /\ \A n : UpTo(Down(c)', Len(toUser[c]), n)
  <2>1. /\ downWire[c] \in FrameSeqs /\ downQueue[c] \in FrameSeqs
        /\ Down(c) = downWire[c] \o downQueue[c]
    BY <1>2, DownTypes
  <2>2. \A k \in Nat : Carry(Down(c), k) => Carry(Down(c)', k) /\ \A n : UpTo(Down(c)', k, n)
    BY <1>3, <2>1, Overtaken
  <2>. QED BY <1>2, <2>2 DEF DownInOrder
<1>. QED BY <1>1, <1>4, <1>5, <1>6, <1>7, PendingLost, LocalEnds

LEMMA OnDownOverflows ==
  ASSUME RoutesInv, NEW c \in Connections, DownOverflows(c)
  PROVE  RoutesInv'
<1>1. /\ machineSocket = "open" /\ downQueue[c] # <<>>
      /\ downQueue' = [downQueue EXCEPT ![c] = <<>>]
      /\ local' = [local EXCEPT ![c] = IF inLocal[c] THEN Closed(@) ELSE @]
      /\ inLocal' = [inLocal EXCEPT ![c] = FALSE]
      /\ pendingData' = [pendingData EXCEPT ![c] = <<>>]
      /\ downWire' = IF machineSocket = "open"
                     THEN [downWire EXCEPT ![c] = Append(@, CloseFrame)] ELSE downWire
      /\ UNCHANGED <<cloudSocket, machineSocket, gateway, known, sent, toUser, produced, toLocal,
                     refused, upLink>>
  BY DEF DownOverflows, LocalOverload, sockets, cloudVars
<1>2. /\ Typed /\ Tables(c) /\ NothingYet(c) /\ DownInOrder(c) /\ Len(toUser[c]) \in Nat
      /\ local[c] \in LocalStates
  BY AtRoute
<1>3. DownAt(c) /\ Down(c)' = Append(downWire[c], CloseFrame)
  BY <1>1, <1>2, DownOverflown
<1>4. UpAt(c) /\ Up(c)' = Up(c) /\ upQueue' = upQueue
  BY <1>1, <1>2, UpStays
<1>. DEFINE w == downWire[c]
<1>5. /\ w \in FrameSeqs /\ downQueue[c] \in FrameSeqs /\ Down(c) = w \o downQueue[c]
  BY <1>2, DownTypes
<1>6. /\ \A k \in Nat : Carry(Down(c), k) => Carry(w, k)
      /\ OnlyCloses(Down(c)) => OnlyCloses(w)
      /\ Down(c) # <<>>
  BY <1>1, <1>5, Dropped
<1>. HIDE DEF w
<1>7. Down(c)' = Append(w, CloseFrame)
  BY <1>3 DEF w
<1>8. local[c] \notin {"none", "connecting"}
  BY <1>2, <1>6 DEF NothingYet
<1>9. /\ Closed(local[c]) \in LocalStates \ {"open", "connecting"}
      /\ (Closed(local[c]) = "none" => local[c] = "none")
      /\ (Closed(local[c]) = "aborted" => local[c] \in {"connecting", "aborted"})
  BY <1>2, ClosedStates
<1>10. /\ local'[c] = IF inLocal[c] THEN Closed(local[c]) ELSE local[c]
       /\ ~ inLocal'[c] /\ pendingData'[c] = <<>> /\ toLocal'[c] = toLocal[c]
  BY <1>1, <1>2 DEF Typed
<1>11. /\ local'[c] \notin {"none", "connecting", "open"}
       /\ local'[c] = "aborted" => local[c] = "aborted"
  BY <1>2, <1>8, <1>9, <1>10 DEF Tables
<1>12. MachineSide(c)
  BY <1>1, <1>2, <1>3, <1>4, <1>9, FrameTypes DEF MachineSide, Typed
<1>13. local'[c] = "aborted" => OnlyCloses(Down(c)')
  BY <1>2, <1>5, <1>6, <1>7, <1>11, HasAppend, FrameTypes DEF NothingYet
<1>14. gateway[c] = "open" =>
         Carry(Down(c)', Len(toUser[c])) /\ \A n : UpTo(Down(c)', Len(toUser[c]), n)
  BY <1>2, <1>5, <1>6, <1>7, CarryClose DEF DownInOrder
<1>. QED BY <1>1, <1>4, <1>8, <1>10, <1>11, <1>12, <1>13, <1>14, PendingLost, LocalEnds

\* The "error" event of a local websocket that has not opened.
LEMMA OnLocalFails ==
  ASSUME RoutesInv, NEW c \in Connections, LocalFails(c)
  PROVE  RoutesInv'
<1>1. /\ local[c] \in {"connecting", "aborted"} /\ local' = [local EXCEPT ![c] = "failed"]
      /\ inLocal' = [inLocal EXCEPT ![c] = FALSE]
      /\ pendingData' = [pendingData EXCEPT ![c] = <<>>]
      /\ DownRemoveThen(c, OpenFailed)
      /\ UNCHANGED <<cloudSocket, machineSocket, gateway, known, sent, toUser, produced, toLocal,
                     refused, upLink>>
  BY DEF LocalFails, sockets, cloudVars
<1>2. /\ Typed /\ Tables(c) /\ NothingYet(c) /\ DownInOrder(c) /\ Len(toUser[c]) \in Nat
  BY AtRoute
<1>. DEFINE w == downWire[c]
<1>3. /\ DownAt(c) /\ (machineSocket # "open" => downQueue'[c] = <<>>)
      /\ Down(c)' = w \/ Down(c)' = Append(w, OpenFailed)
  BY <1>1, <1>2, DownRemoved, FrameTypes
<1>4. UpAt(c) /\ Up(c)' = Up(c) /\ upQueue' = upQueue
  BY <1>1, <1>2, UpStays
<1>5. /\ w \in FrameSeqs /\ downQueue[c] \in FrameSeqs /\ Down(c) = w \o downQueue[c]
  BY <1>2, DownTypes
<1>6. OnlyCloses(w)
  <2>1. OnlyCloses(Down(c))
    BY <1>1, <1>2, NoneAtAll DEF NothingYet
  <2>. QED BY <1>5, <2>1, Dropped
<1>. HIDE DEF w
<1>7. /\ local'[c] = "failed"
      /\ ~ inLocal'[c] /\ pendingData'[c] = <<>> /\ toLocal'[c] = toLocal[c]
  BY <1>1, <1>2 DEF Typed
<1>8. MachineSide(c)
  BY <1>1, <1>2, <1>3, <1>4, FrameTypes DEF MachineSide, Typed, LocalStates
<1>9. Carry(Down(c)', Len(toUser[c]))
  BY <1>2, <1>3, <1>5, <1>6, AfterCloses, FrameTypes
<1>. QED BY <1>1, <1>3, <1>4, <1>7, <1>8, <1>9, PendingLost, LocalEnds

LEMMA OnLocalError ==
  ASSUME RoutesInv, NEW c \in Connections, LocalError(c)
  PROVE  RoutesInv'
<1>1. /\ local[c] \in {"open", "closing"} /\ local' = [local EXCEPT ![c] = "failed"]
      /\ inLocal' = [inLocal EXCEPT ![c] = FALSE]
      /\ pendingData' = [pendingData EXCEPT ![c] = <<>>]
      /\ downQueue' = [downQueue EXCEPT ![c] = <<>>]
      /\ UNCHANGED <<cloudSocket, machineSocket, gateway, known, sent, toUser, produced, toLocal,
                     refused, upLink, downWire>>
  BY DEF LocalError, sockets, cloudVars
<1>2. Typed /\ DownInOrder(c) /\ Len(toUser[c]) \in Nat
  BY AtRoute
<1>3. /\ DownAt(c) /\ Down(c)' = downWire[c] /\ downQueue'[c] = <<>>
      /\ UpAt(c) /\ Up(c)' = Up(c) /\ upQueue' = upQueue
  BY <1>1, <1>2, DownCut, UpStays
<1>4. /\ local'[c] = "failed"
      /\ ~ inLocal'[c] /\ pendingData'[c] = <<>> /\ toLocal'[c] = toLocal[c]
  BY <1>1, <1>2 DEF Typed
<1>5. MachineSide(c)
  BY <1>1, <1>2, <1>3, FrameTypes DEF MachineSide, Typed, LocalStates
<1>6. gateway[c] = "open" => Carry(Down(c)', Len(toUser[c]))
  <2>1. /\ downWire[c] \in FrameSeqs /\ downQueue[c] \in FrameSeqs
        /\ Down(c) = downWire[c] \o downQueue[c]
    BY <1>2, DownTypes
  <2>2. \A k \in Nat : Carry(Down(c), k) => Carry(Down(c)', k)
    BY <1>3, <2>1, Dropped
  <2>. QED BY <1>2, <2>2 DEF DownInOrder
<1>. QED BY <1>1, <1>3, <1>4, <1>5, <1>6, PendingLost, LocalEnds

LEMMA OnLocalClose ==
  ASSUME RoutesInv, NEW c \in Connections, LocalClose(c)
  PROVE  RoutesInv'
<1>1. /\ local[c] \in {"open", "closing", "failed"} /\ local' = [local EXCEPT ![c] = "closed"]
      /\ inLocal' = [inLocal EXCEPT ![c] = FALSE]
      /\ pendingData' = [pendingData EXCEPT ![c] = <<>>]
      /\ DownRemoveThen(c, CloseFrame)
      /\ UNCHANGED <<cloudSocket, machineSocket, gateway, known, sent, toUser, produced, toLocal,
                     refused, upLink>>
  BY DEF LocalClose, sockets, cloudVars
<1>2. Typed /\ DownInOrder(c) /\ Len(toUser[c]) \in Nat
  BY AtRoute
<1>. DEFINE w == downWire[c]
<1>3. /\ DownAt(c) /\ (machineSocket # "open" => downQueue'[c] = <<>>)
      /\ Down(c)' = w \/ Down(c)' = Append(w, CloseFrame)
  BY <1>1, <1>2, DownRemoved, FrameTypes
<1>4. UpAt(c) /\ Up(c)' = Up(c) /\ upQueue' = upQueue
  BY <1>1, <1>2, UpStays
<1>5. /\ w \in FrameSeqs /\ downQueue[c] \in FrameSeqs /\ Down(c) = w \o downQueue[c]
  BY <1>2, DownTypes
<1>6. \A k \in Nat : Carry(Down(c), k) => Carry(w, k)
  BY <1>5, Dropped
<1>. HIDE DEF w
<1>7. /\ local'[c] = "closed"
      /\ ~ inLocal'[c] /\ pendingData'[c] = <<>> /\ toLocal'[c] = toLocal[c]
  BY <1>1, <1>2 DEF Typed
<1>8. MachineSide(c)
  BY <1>1, <1>2, <1>3, <1>4, FrameTypes DEF MachineSide, Typed, LocalStates
<1>9. gateway[c] = "open" => Carry(Down(c)', Len(toUser[c]))
  BY <1>2, <1>3, <1>5, <1>6, CarryClose DEF DownInOrder
<1>. QED BY <1>1, <1>3, <1>4, <1>7, <1>8, <1>9, PendingLost, LocalEnds

LEMMA TwoFrames ==
  ASSUME NEW a \in FrameSet, NEW b \in FrameSet
  PROVE  /\ <<a>> \in FrameSeqs /\ <<a, b>> \in FrameSeqs /\ Append(<<>>, a) = <<a>>
         /\ <<a>> \o <<b>> = <<a, b>>
         /\ <<>> \o <<a, b>> = <<a, b>> /\ <<a, b>> \o <<>> = <<a, b>>
<1>1. Append(<<>>, a) = <<a>> /\ <<a>> \in Seq(FrameSet) /\ <<>> \in Seq(FrameSet)
  OBVIOUS
<1>2. <<a, b>> \in Seq(FrameSet)
  OBVIOUS
<1>3. Append(<<a>>, b) = <<a, b>>
  <2>1. \A u \in FrameSeqs : u[1] = a /\ Len(u) = 1 => Append(u, b) = <<a, b>>
    <3>1. SUFFICES ASSUME NEW u \in FrameSeqs, u[1] = a, Len(u) = 1
                   PROVE  Append(u, b) = <<a, b>>
      OBVIOUS
    <3>. DEFINE s == Append(u, b)  t == <<a, b>>
    <3>2. /\ s \in Seq(FrameSet) /\ Len(s) = Len(u) + 1 /\ s[Len(u) + 1] = b
          /\ \A i \in 1..Len(u) : s[i] = u[i]
      BY AppendAt DEF FrameSeqs
    <3>3. t \in Seq(FrameSet) /\ Len(t) = 2 /\ t[1] = a /\ t[2] = b
      BY <1>2
    <3>. HIDE DEF s, t
    <3>4. 1 \in 1..Len(u) /\ Len(u) + 1 = 2 /\ \A i \in 1..2 : i = 1 \/ i = 2
      BY <3>1
    <3>5. s = t
      BY <3>1, <3>2, <3>3, <3>4, SeqEqual
    <3>. QED BY <3>5 DEF s, t
  <2>2. <<a>> \in FrameSeqs /\ <<a>>[1] = a /\ Len(<<a>>) = 1
    BY <1>1 DEF FrameSeqs
  <2>. QED BY <2>1, <2>2
<1>4. Append(<<a>>, b) = <<a>> \o <<b>>
  BY <1>1, AppendIsConcat
<1>5. <<>> \o <<a, b>> = <<a, b>> /\ <<a, b>> \o <<>> = <<a, b>>
  BY <1>2, ConcatEmptySeq
<1>. QED BY <1>1, <1>2, <1>3, <1>4, <1>5 DEF FrameSeqs

\* The frames kept are too many.
LEMMA OnLocalOpenOverloads ==
  ASSUME RoutesInv, NEW c \in Connections, LocalOpenOverloads(c)
  PROVE  RoutesInv'
<1>1. /\ local[c] = "connecting" /\ local' = [local EXCEPT ![c] = "closing"]
      /\ inLocal' = [inLocal EXCEPT ![c] = FALSE]
      /\ pendingData' = [pendingData EXCEPT ![c] = <<>>]
      /\ UNCHANGED <<cloudSocket, machineSocket, gateway, known, sent, toUser, produced,
                     refused, upLink>>
  BY DEF LocalOpenOverloads, sockets, cloudVars
<1>2. PICK n \in 0..(Len(pendingData[c]) - 1) :
        toLocal' = [toLocal EXCEPT ![c] = @ \o SubSeq(pendingData[c], 1, n)]
  BY DEF LocalOpenOverloads
<1>3. IF machineSocket # "open"
      THEN UNCHANGED downLink
      ELSE \/ /\ downQueue = Quiet
              /\ downWire' = [downWire EXCEPT ![c] = @ \o <<OpenOk, CloseFrame>>]
              /\ UNCHANGED downQueue
           \/ /\ downQueue' = [downQueue EXCEPT ![c] = Append(@, OpenOk)]
              /\ downWire' = [downWire EXCEPT ![c] = Append(@, CloseFrame)]
  BY DEF LocalOpenOverloads
<1>4. /\ Typed /\ Tables(c) /\ NothingYet(c) /\ DownInOrder(c) /\ UpInOrder(c)
      /\ toLocal[c] \in NumberSeqs /\ pendingData[c] \in NumberSeqs
  BY AtRoute
<1>5. UpAt(c) /\ Up(c)' = Up(c) /\ upQueue' = upQueue
  BY <1>1, <1>4, UpStays
<1>6. downWire[c] = <<>> /\ downQueue[c] = <<>> /\ Down(c) = <<>> /\ toUser[c] = <<>>
  <2>1. Down(c) = <<>> /\ toUser[c] = <<>>
    BY <1>1, <1>4 DEF NothingYet
  <2>2. /\ downWire[c] \in FrameSeqs /\ downQueue[c] \in FrameSeqs
        /\ Down(c) = downWire[c] \o downQueue[c]
    BY <1>4, DownTypes
  <2>. QED BY ZenonT(60), <2>1, <2>2, Dropped
<1>. DEFINE both == <<OpenOk, CloseFrame>>  overtaken == <<CloseFrame, OpenOk>>
<1>7. /\ both \in FrameSeqs /\ overtaken \in FrameSeqs /\ <<CloseFrame>> \in FrameSeqs
      /\ <<OpenOk>> \in FrameSeqs /\ <<CloseFrame>> \o <<OpenOk>> = overtaken
      /\ Append(<<>>, OpenOk) = <<OpenOk>> /\ Append(<<>>, CloseFrame) = <<CloseFrame>>
      /\ <<>> \o both = both /\ both \o <<>> = both
  <2>1. OpenOk \in FrameSet /\ CloseFrame \in FrameSet
    BY FrameTypes
  <2>. HIDE DEF OpenOk, CloseFrame
  <2>. QED BY <2>1, TwoFrames
<1>8. /\ Carry(both, 0) /\ Has(both, "close") /\ Carry(overtaken, 0) /\ Has(overtaken, "close")
  <2>1. /\ Len(both) = 2 /\ both[1].type = "openOk" /\ both[2].type = "close"
        /\ Len(overtaken) = 2 /\ overtaken[1].type = "close"
    BY FrameTypes
  <2>. HIDE DEF both, overtaken
  <2>2. \A i \in 1..2 : i = 1 \/ i = 2
    OBVIOUS
  <2>3. Carry(both, 0)
    BY <2>1, <2>2 DEF Carry
  <2>4. Carry(overtaken, 0)
    BY <2>1, <2>2 DEF Carry
  <2>5. Has(both, "close") /\ Has(overtaken, "close")
    BY <2>1 DEF Has
  <2>. QED BY <2>3, <2>4, <2>5
<1>. HIDE DEF both, overtaken
<1>9. /\ DownAt(c) /\ (machineSocket = "closed" => downQueue'[c] = <<>>)
      /\ machineSocket # "open" => Down(c)' = <<>>
      /\ machineSocket = "open" => Down(c)' \in {both, overtaken}
  <2>1. CASE machineSocket # "open"
    <3>1. UNCHANGED downLink
      BY <1>3, <2>1
    <3>2. DownAt(c) /\ Down(c)' = Down(c) /\ downQueue' = downQueue
      BY <1>4, <3>1, DownStays
    <3>. QED BY <1>6, <2>1, <3>2
  <2>2. CASE /\ machineSocket = "open" /\ UNCHANGED downQueue
             /\ downWire' = [downWire EXCEPT ![c] = @ \o both]
    BY <1>4, <1>6, <1>7, <2>2, DownTypes DEF DownAt, Down
  <2>3. CASE /\ machineSocket = "open"
             /\ downQueue' = [downQueue EXCEPT ![c] = Append(@, OpenOk)]
             /\ downWire' = [downWire EXCEPT ![c] = Append(@, CloseFrame)]
    BY <1>4, <1>6, <1>7, <2>3, DownTypes DEF DownAt, Down
  <2>. QED BY <1>3, <2>1, <2>2, <2>3 DEF both
<1>10. /\ local'[c] = "closing" /\ ~ inLocal'[c] /\ pendingData'[c] = <<>>
       /\ toLocal'[c] = toLocal[c] \o SubSeq(pendingData[c], 1, n)
  BY <1>1, <1>2, <1>4 DEF Typed
<1>11. toLocal[c] \o SubSeq(pendingData[c], 1, n) \in NumberSeqs
  <2>1. SubSeq(pendingData[c], 1, n) \in NumberSeqs
    BY <1>4, SubNumbers
  <2>. QED BY <1>4, <2>1, NumbersAt
<1>12. MachineSide(c)
  BY <1>1, <1>2, <1>4, <1>5, <1>9, <1>11, FrameTypes DEF MachineSide, Typed, LocalStates
<1>13. IsPrefixOfNumbers(Taken(c)) => IsPrefixOfNumbers(Taken(c)')
  <2>1. Taken(c)' = toLocal[c] \o SubSeq(pendingData[c], 1, n)
    BY <1>10, <1>11, NumbersAt DEF Taken
  <2>. QED BY <1>4, <2>1, NumbersLost DEF Taken
<1>14. /\ Len(toUser[c]) = 0
       /\ Carry(Down(c)', 0) /\ (machineSocket = "open" => Has(Down(c)', "close"))
  BY <1>6, <1>8, <1>9, NoneAtAll, NumbersAt, FrameTypes
<1>. QED BY <1>1, <1>5, <1>9, <1>10, <1>12, <1>13, <1>14, LocalEnds DEF UpTo

-----------------------------------------------------------------------------
(***************************************************************************)
(* The steps of the local websocket that keep it.                          *)
(***************************************************************************)
LEMMA OnLocalCloses ==
  ASSUME RoutesInv, NEW c \in Connections, LocalCloses(c)
  PROVE  RoutesInv'
<1>1. /\ local[c] = "open" /\ local' = [local EXCEPT ![c] = "closing"]
      /\ UNCHANGED <<cloudSocket, machineSocket, gateway, known, sent, toUser, inLocal,
                     pendingData, produced, toLocal, refused, upLink, downLink>>
  BY DEF LocalCloses, linkVars, sockets, cloudVars
<1>2. Typed /\ Tables(c) /\ OpensOnce(c) /\ NothingYet(c) /\ DownInOrder(c)
  BY AtRoute
<1>3. /\ UpAt(c) /\ Up(c)' = Up(c) /\ upQueue' = upQueue
      /\ DownAt(c) /\ Down(c)' = Down(c) /\ downQueue' = downQueue
  BY <1>1, <1>2, UpStays, DownStays
<1>4. MachineSide(c) /\ local'[c] = "closing"
  BY <1>1, <1>2, <1>3 DEF MachineSide, Typed, LocalStates
<1>5. Taken(c)' = Taken(c)
  BY <1>1 DEF Taken
<1>6. OpensOnce(c)' /\ UpInOrder(c)'
  <2>1. Has(Down(c)', "close") => ~ inLocal'[c] /\ local'[c] \notin {"none", "connecting"}
    BY <1>1, <1>2, <1>3, <1>4 DEF OpensOnce
  <2>. QED BY <1>1, <1>3, <1>4, <1>5, <2>1, LocalAlone
<1>7. Tables(c)'
  BY <1>1, <1>2, <1>3, <1>4 DEF Tables
<1>8. NothingYet(c)'
  BY <1>4 DEF NothingYet
<1>9. DownInOrder(c)'
  BY <1>1, <1>2, <1>3, <1>4 DEF DownInOrder
<1>. QED BY <1>4, <1>6, <1>7, <1>8, <1>9, MachineStep DEF Route

LEMMA OnDownDrain ==
  ASSUME RoutesInv, NEW c \in Connections, DownDrain(c)
  PROVE  RoutesInv'
<1>1. /\ machineSocket = "open" /\ Drains(c, machineSocket, downQueue, downWire)
      /\ UNCHANGED <<cloudSocket, machineSocket, gateway, known, toUser, sent, local, inLocal,
                     pendingData, produced, toLocal, refused, upLink>>
  BY DEF DownDrain, Drains, sockets, cloudVars, localVars
<1>2. Typed /\ Tables(c) /\ OpensOnce(c) /\ NothingYet(c) /\ UpInOrder(c) /\ DownInOrder(c)
  BY AtRoute
<1>3. /\ DownAt(c) /\ Down(c)' = Down(c)
      /\ UpAt(c) /\ Up(c)' = Up(c) /\ upQueue' = upQueue
  BY <1>1, <1>2, DownDrained, UpStays
<1>4. MachineSide(c)
  BY <1>1, <1>2, <1>3 DEF MachineSide, Typed
<1>5. Tables(c)' /\ OpensOnce(c)'
  BY <1>1, <1>2, <1>3 DEF Tables, OpensOnce
<1>6. NothingYet(c)' /\ DownInOrder(c)'
  BY <1>1, <1>2, <1>3 DEF NothingYet, DownInOrder
<1>7. UpInOrder(c)'
  <2>1. Taken(c)' = Taken(c) /\ (Taking(c)' <=> Taking(c))
    BY <1>1, <1>3 DEF Taken, Taking
  <2>. QED BY <1>1, <1>2, <1>3, <2>1 DEF UpInOrder
<1>. QED BY <1>4, <1>5, <1>6, <1>7, MachineStep DEF Route

LEMMA OnLocalMessage ==
  ASSUME RoutesInv, NEW c \in Connections, LocalMessage(c)
  PROVE  RoutesInv'
<1>1. /\ local[c] \in {"open", "closing"} /\ sent[c] + produced[c] < MaxMessages
      /\ produced' = [produced EXCEPT ![c] = @ + 1] /\ DownSend(c, Data(produced[c] + 1))
      /\ UNCHANGED <<cloudSocket, machineSocket, gateway, known, sent, toUser, local, inLocal,
                     pendingData, toLocal, refused, upLink>>
  BY DEF LocalMessage, LocalSends, sockets, cloudVars
<1>2. /\ Typed /\ Tables(c) /\ OpensOnce(c) /\ DownInOrder(c)
      /\ sent[c] \in Nat /\ produced[c] \in Nat /\ Len(toUser[c]) \in Nat /\ Down(c) \in FrameSeqs
  BY AtRoute
<1>3. PICK n \in 1..MaxMessages : n = produced[c] + 1
  BY <1>1, <1>2, MessageAssumption
<1>. DEFINE f == Data(n)
<1>4. f \in FrameSet /\ f.type = "data" /\ f.n = produced[c] + 1
  BY <1>3, FrameTypes
<1>5. /\ DownAt(c) /\ (machineSocket = "open" => Down(c)' = Append(Down(c), f))
      /\ (machineSocket # "open" => Down(c)' = Down(c) /\ downQueue' = downQueue)
  <2>1. DownSend(c, f)
    BY <1>1, <1>3 DEF DownSend, Enqueue
  <2>. QED BY <1>2, <1>4, <2>1, DownSent
<1>. HIDE DEF f
<1>6. UpAt(c) /\ Up(c)' = Up(c) /\ upQueue' = upQueue
  BY <1>1, <1>2, UpStays
<1>7. MachineSide(c) /\ produced'[c] = produced[c] + 1
  <2>1. /\ produced' \in [Connections -> 0..MaxMessages] /\ produced'[c] = produced[c] + 1
        /\ \A d \in Connections \ {c} : produced'[d] = produced[d]
    BY <1>1, <1>2, <1>3 DEF Typed
  <2>. QED BY <1>1, <1>2, <1>5, <1>6, <2>1 DEF MachineSide, Typed
<1>8. Has(Down(c)', "close") => Has(Down(c), "close")
  <2>1. \A type : Has(Append(Down(c), f), type) <=> Has(Down(c), type) \/ f.type = type
    BY <1>2, <1>4, HasAppend
  <2>. QED BY <1>4, <1>5, <2>1
<1>9. OpensOnce(c)' /\ UpInOrder(c)'
  <2>1. Has(Down(c)', "close") => ~ inLocal'[c] /\ local'[c] \notin {"none", "connecting"}
    BY <1>1, <1>2, <1>8 DEF OpensOnce
  <2>2. Taken(c)' = Taken(c)
    BY <1>1 DEF Taken
  <2>. QED BY <1>1, <1>6, <1>7, <2>1, <2>2, LocalAlone
<1>10. Tables(c)'
  BY <1>1, <1>2, <1>5, <1>6 DEF Tables
<1>11. NothingYet(c)'
  BY <1>1 DEF NothingYet
<1>12. DownInOrder(c)'
  <2>1. CASE machineSocket = "open"
    BY <1>1, <1>2, <1>4, <1>5, <1>7, <2>1, CarryData DEF DownInOrder
  <2>2. CASE machineSocket # "open"
    BY <1>1, <1>2, <1>5, <2>2 DEF DownInOrder
  <2>. QED BY <2>1, <2>2
<1>. QED BY <1>7, <1>9, <1>10, <1>11, <1>12, MachineStep DEF Route

LEMMA OnLocalOpen ==
  ASSUME RoutesInv, NEW c \in Connections, LocalOpen(c)
  PROVE  RoutesInv'
<1>1. /\ local[c] = "connecting" /\ local' = [local EXCEPT ![c] = "open"]
      /\ toLocal' = [toLocal EXCEPT ![c] = @ \o pendingData[c]]
      /\ pendingData' = [pendingData EXCEPT ![c] = <<>>] /\ DownSend(c, OpenOk)
      /\ UNCHANGED <<cloudSocket, machineSocket, gateway, known, sent, toUser, inLocal, produced,
                     refused, upLink>>
  BY DEF LocalOpen, sockets, cloudVars
<1>2. /\ Typed /\ Tables(c) /\ OpensOnce(c) /\ NothingYet(c) /\ DownInOrder(c)
      /\ toLocal[c] \in NumberSeqs /\ pendingData[c] \in NumberSeqs /\ Taken(c) \in NumberSeqs
  BY AtRoute
<1>3. UpAt(c) /\ Up(c)' = Up(c) /\ upQueue' = upQueue
  BY <1>1, <1>2, UpStays
<1>4. Down(c) = <<>> /\ toUser[c] = <<>> /\ produced[c] = 0 /\ inLocal[c]
  BY <1>1, <1>2 DEF NothingYet, Tables
<1>5. /\ DownAt(c) /\ (machineSocket = "open" => Down(c)' = <<OpenOk>>)
      /\ machineSocket # "open" => Down(c)' = <<>> /\ downQueue' = downQueue
  <2>1. Append(<<>>, OpenOk) = <<OpenOk>>
    BY OneFrame, FrameTypes
  <2>2. /\ DownAt(c) /\ (machineSocket = "open" => Down(c)' = Append(Down(c), OpenOk))
        /\ machineSocket # "open" => Down(c)' = Down(c) /\ downQueue' = downQueue
    BY <1>1, <1>2, DownSent, FrameTypes
  <2>. QED BY <1>4, <2>1, <2>2
<1>6. /\ local'[c] = "open" /\ pendingData'[c] = <<>> /\ toLocal'[c] = Taken(c)
      /\ toLocal[c] \o pendingData[c] \in NumberSeqs
  BY <1>1, <1>2 DEF Typed, Taken
<1>7. MachineSide(c)
  BY <1>1, <1>2, <1>3, <1>5, <1>6, FrameTypes DEF MachineSide, Typed, LocalStates
<1>8. Taken(c)' = Taken(c)
  <2>1. Taken(c) \o <<>> = Taken(c)
    BY <1>2, NumbersAt
  <2>2. Taken(c)' = toLocal'[c] \o pendingData'[c]
    BY DEF Taken
  <2>. QED BY <1>6, <2>1, <2>2
<1>9. ~ Has(Down(c)', "close")
  BY <1>5, NoneAtAll, OneFrame, FrameTypes
<1>10. OpensOnce(c)' /\ UpInOrder(c)'
  BY <1>1, <1>3, <1>7, <1>8, <1>9, LocalAlone
<1>11. Tables(c)'
  BY <1>1, <1>2, <1>3, <1>4, <1>5, <1>6 DEF Tables
<1>12. NothingYet(c)'
  BY <1>6 DEF NothingYet
<1>13. DownInOrder(c)'
  <2>1. /\ Len(<<>>) = 0 /\ IsPrefixOfNumbers(<<>>) /\ Carry(<<>>, 0)
        /\ Carry(<<OpenOk>>, 0) /\ UpTo(<<OpenOk>>, 0, 0)
    BY NumbersAt, NoneAtAll, OneFrame, FrameTypes
  <2>. QED BY <1>1, <1>4, <1>5, <1>6, <2>1 DEF DownInOrder
<1>. QED BY <1>7, <1>10, <1>11, <1>12, <1>13, MachineStep DEF Route

-----------------------------------------------------------------------------
(***************************************************************************)
(* The machine hears of a route.                                           *)
(***************************************************************************)
LEMMA OnMachineOpen ==
  ASSUME RoutesInv, NEW c \in Connections, MachineOpen(c)
  PROVE  RoutesInv'
<1>1. /\ upWire[c] # <<>> /\ Head(upWire[c]).type = "open" /\ Arrives(c, upWire)
      /\ machineSocket # "closed"
      /\ local' = [local EXCEPT ![c] = "connecting"]
      /\ inLocal' = [inLocal EXCEPT ![c] = TRUE]
      /\ pendingData' = [pendingData EXCEPT ![c] = <<>>]
      /\ UNCHANGED <<cloudSocket, machineSocket, gateway, known, sent, toUser, produced, toLocal,
                     refused, upQueue, downLink>>
  BY DEF MachineOpen, MachineReceives, Arriving, sockets, cloudVars
<1>2. /\ Typed /\ Tables(c) /\ OpensOnce(c) /\ NothingYet(c) /\ UpInOrder(c) /\ DownInOrder(c)
      /\ Up(c) \in FrameSeqs /\ Len(Taken(c)) \in Nat /\ sent[c] \in Nat
  BY AtRoute
<1>3. /\ UpAt(c) /\ Up(c) # <<>> /\ Up(c)' = Tail(Up(c)) /\ Head(Up(c)).type = "open"
      /\ DownAt(c) /\ Down(c)' = Down(c) /\ downQueue' = downQueue
  BY <1>1, <1>2, UpArrives, DownStays
<1>4. /\ \A type : Has(Up(c), type) <=> Head(Up(c)).type = type \/ Has(Up(c)', type)
      /\ OneOpen(Up(c)') /\ ~ Has(Up(c)', "open") /\ (~ refused[c] => OpenFirst(Up(c)'))
  BY <1>2, <1>3, HasTail DEF OpensOnce
<1>5. Has(Up(c), "open") /\ local[c] = "none" /\ ~ inLocal[c] /\ pendingData[c] = <<>>
  BY <1>2, <1>3, <1>4 DEF OpensOnce, Tables
<1>6. MachineSide(c) /\ local'[c] = "connecting" /\ inLocal'[c] /\ pendingData'[c] = <<>>
  BY <1>1, <1>2, <1>3, FrameTypes DEF MachineSide, Typed, LocalStates
<1>7. Taken(c)' = Taken(c)
  BY <1>1, <1>5, <1>6 DEF Taken
<1>8. Tables(c)'
  BY <1>1, <1>2, <1>3, <1>6 DEF Tables
<1>9. OpensOnce(c)'
  <2>1. ~ Has(Down(c)', "close")
    BY <1>2, <1>3, <1>5 DEF OpensOnce
  <2>. QED BY <1>1, <1>2, <1>4, <2>1 DEF OpensOnce
<1>10. NothingYet(c)'
  BY <1>1, <1>2, <1>3, <1>5, <1>6 DEF NothingYet
<1>11. UpInOrder(c)'
  <2>1. ~ refused[c] => /\ IsPrefixOfNumbers(Taken(c)) /\ Carry(Up(c), Len(Taken(c)))
                        /\ cloudSocket = "open" /\ gateway[c] \in {"open", "closing"} =>
                             UpTo(Up(c), Len(Taken(c)), sent[c])
    BY <1>2, <1>5 DEF UpInOrder, Taking
  <2>2. Carry(Up(c), Len(Taken(c))) =>
          /\ Carry(Up(c)', Len(Taken(c)))
          /\ UpTo(Up(c), Len(Taken(c)), sent[c]) => UpTo(Up(c)', Len(Taken(c)), sent[c])
    BY <1>2, <1>3, CarryTail
  <2>. QED BY <1>1, <1>7, <2>1, <2>2 DEF UpInOrder
<1>12. DownInOrder(c)'
  BY <1>1, <1>2, <1>3, <1>6 DEF DownInOrder
<1>. QED BY <1>6, <1>8, <1>9, <1>10, <1>11, <1>12, MachineStep DEF Route

\* wsData: to the local websocket, or kept for it.
LEMMA OnMachineData ==
  ASSUME RoutesInv, NEW c \in Connections, MachineData(c)
  PROVE  RoutesInv'
<1>1. /\ upWire[c] # <<>> /\ Head(upWire[c]).type = "data" /\ Arrives(c, upWire)
      /\ toLocal' = [toLocal EXCEPT ![c] = IF inLocal[c] /\ local[c] = "open"
                                           THEN Append(@, Head(upWire[c]).n) ELSE @]
      /\ pendingData' = [pendingData EXCEPT ![c] = IF inLocal[c] /\ local[c] # "open"
                                                   THEN Append(@, Head(upWire[c]).n) ELSE @]
      /\ UNCHANGED <<cloudSocket, machineSocket, gateway, known, sent, toUser, local, inLocal,
                     produced, refused, upQueue, downLink>>
  BY DEF MachineData, MachineReceives, Arriving, sockets, cloudVars
<1>2. /\ Typed /\ Tables(c) /\ OpensOnce(c) /\ NothingYet(c) /\ UpInOrder(c) /\ DownInOrder(c)
      /\ Up(c) \in FrameSeqs /\ Len(Taken(c)) \in Nat /\ sent[c] \in Nat
      /\ toLocal[c] \in NumberSeqs /\ pendingData[c] \in NumberSeqs /\ Taken(c) \in NumberSeqs
  BY AtRoute
<1>3. /\ UpAt(c) /\ Up(c) # <<>> /\ Up(c)' = Tail(Up(c)) /\ Head(Up(c)).type = "data"
      /\ Head(Up(c)) = Head(upWire[c]) /\ Head(upWire[c]) \in FrameSet
      /\ DownAt(c) /\ Down(c)' = Down(c) /\ downQueue' = downQueue
  BY <1>1, <1>2, UpArrives, DownStays
<1>4. PICK n \in 1..MaxMessages : n = Head(upWire[c]).n
  BY <1>1, <1>3 DEF FrameSet, Frames
<1>5. /\ \A type : type # "data" => (Has(Up(c), type) <=> Has(Up(c)', type))
      /\ OneOpen(Up(c)') /\ (~ refused[c] => OpenFirst(Up(c)') /\ ~ Has(Up(c)', "open"))
  BY <1>2, <1>3, HasTail DEF OpensOnce
<1>6. /\ Append(toLocal[c], n) \in NumberSeqs /\ Append(pendingData[c], n) \in NumberSeqs
      /\ Append(pendingData[c], n) # <<>>
      /\ Len(Append(Taken(c), n)) = Len(Taken(c)) + 1
      /\ IsPrefixOfNumbers(Taken(c)) /\ n = Len(Taken(c)) + 1 =>
           IsPrefixOfNumbers(Append(Taken(c), n))
      /\ pendingData[c] = <<>> => Append(toLocal[c], n) \o pendingData[c] = Append(Taken(c), n)
      /\ toLocal[c] \o Append(pendingData[c], n) = Append(Taken(c), n)
  BY ZenonT(60), <1>2, NumberTaken, NumberKept DEF Taken
<1>7. /\ toLocal'[c] = IF inLocal[c] /\ local[c] = "open" THEN Append(toLocal[c], n) ELSE toLocal[c]
      /\ pendingData'[c] = IF inLocal[c] /\ local[c] # "open"
                           THEN Append(pendingData[c], n) ELSE pendingData[c]
  BY <1>1, <1>2, <1>4 DEF Typed
<1>8. MachineSide(c)
  <2>1. /\ toLocal' \in [Connections -> NumberSeqs] /\ pendingData' \in [Connections -> NumberSeqs]
        /\ \A d \in Connections \ {c} : toLocal'[d] = toLocal[d] /\ pendingData'[d] = pendingData[d]
    BY <1>1, <1>2, <1>4, <1>6 DEF Typed
  <2>. QED BY <1>1, <1>2, <1>3, <2>1 DEF MachineSide, Typed
<1>9. Taken(c)' = IF inLocal[c] THEN Append(Taken(c), n) ELSE Taken(c)
  <2>1. Taken(c)' = toLocal'[c] \o pendingData'[c] /\ Taken(c) = toLocal[c] \o pendingData[c]
    BY DEF Taken
  <2>2. CASE inLocal[c] /\ local[c] = "open"
    <3>1. pendingData[c] = <<>>
      BY <1>2, <2>2 DEF Tables
    <3>. QED BY <1>6, <1>7, <2>1, <2>2, <3>1
  <2>3. CASE inLocal[c] /\ local[c] # "open"
    BY <1>6, <1>7, <2>1, <2>3
  <2>4. CASE ~ inLocal[c]
    BY <1>7, <2>1, <2>4
  <2>. QED BY <2>2, <2>3, <2>4
<1>10. Tables(c)'
  BY <1>1, <1>2, <1>3, <1>7 DEF Tables
<1>11. OpensOnce(c)'
  BY <1>1, <1>2, <1>3, <1>5 DEF OpensOnce
<1>12. NothingYet(c)'
  BY <1>1, <1>2, <1>3, <1>7 DEF NothingYet
<1>13. UpInOrder(c)'
  <2>1. SUFFICES ASSUME ~ refused[c] PROVE UpInOrder(c)'
    BY <1>1 DEF UpInOrder
  <2>2. IsPrefixOfNumbers(Taken(c)) /\ (Taking(c)' <=> inLocal[c])
    BY <1>1, <1>2, <1>5, <2>1 DEF UpInOrder, Taking
  <2>3. CASE ~ inLocal[c]
    BY <1>9, <2>2, <2>3 DEF UpInOrder
  <2>4. CASE inLocal[c]
    <3>1. /\ Carry(Up(c), Len(Taken(c)))
          /\ cloudSocket = "open" /\ gateway[c] \in {"open", "closing"} =>
               UpTo(Up(c), Len(Taken(c)), sent[c])
      BY <1>2, <2>1, <2>4 DEF UpInOrder, Taking
    <3>2. /\ n = Len(Taken(c)) + 1 /\ Carry(Up(c)', Len(Taken(c)) + 1)
          /\ UpTo(Up(c), Len(Taken(c)), sent[c]) => UpTo(Up(c)', Len(Taken(c)) + 1, sent[c])
      BY <1>2, <1>3, <1>4, <3>1, CarryTail
    <3>3. Taken(c)' = Append(Taken(c), n) /\ Len(Taken(c)') = Len(Taken(c)) + 1
      BY <1>6, <1>9, <2>4
    <3>4. IsPrefixOfNumbers(Taken(c)')
      BY <1>6, <2>2, <3>2, <3>3
    <3>. QED BY <1>1, <3>1, <3>2, <3>3, <3>4 DEF UpInOrder
  <2>. QED BY <2>3, <2>4
<1>14. DownInOrder(c)'
  BY <1>1, <1>2, <1>3 DEF DownInOrder
<1>. QED BY <1>8, <1>10, <1>11, <1>12, <1>13, <1>14, MachineStep DEF Route

LEMMA OnMachineDataOverloads ==
  ASSUME RoutesInv, NEW c \in Connections, MachineDataOverloads(c)
  PROVE  RoutesInv'
<1>1. /\ upWire[c] # <<>> /\ Arrives(c, upWire) /\ inLocal[c]
      /\ local' = [local EXCEPT ![c] = IF inLocal[c] THEN Closed(@) ELSE @]
      /\ inLocal' = [inLocal EXCEPT ![c] = FALSE]
      /\ pendingData' = [pendingData EXCEPT ![c] = <<>>]
      /\ downWire' = IF machineSocket = "open"
                     THEN [downWire EXCEPT ![c] = Append(@, CloseFrame)] ELSE downWire
      /\ UNCHANGED <<cloudSocket, machineSocket, gateway, known, sent, toUser, produced, toLocal,
                     refused, upQueue, downQueue>>
  BY DEF MachineDataOverloads, MachineReceives, LocalOverload, Arriving, sockets, cloudVars
<1>2. /\ Typed /\ Tables(c) /\ NothingYet(c) /\ DownInOrder(c) /\ Len(toUser[c]) \in Nat
      /\ local[c] \in LocalStates
  BY AtRoute
<1>3. UpAt(c) /\ Up(c) # <<>> /\ Up(c)' = Tail(Up(c))
  BY <1>1, <1>2, UpArrives
<1>4. /\ DownAt(c) /\ (machineSocket # "open" => Down(c)' = Down(c))
      /\ machineSocket = "open" => Down(c)' = Append(downWire[c], CloseFrame) \o downQueue[c]
  BY <1>1, <1>2, DownOvertaken
<1>5. /\ OnlyCloses(Down(c)) => OnlyCloses(Down(c)')
      /\ \A k \in Nat : Carry(Down(c), k) =>
           Carry(Down(c)', k) /\ (machineSocket = "open" => \A n : UpTo(Down(c)', k, n))
  <2>1. /\ downWire[c] \in FrameSeqs /\ downQueue[c] \in FrameSeqs
        /\ Down(c) = downWire[c] \o downQueue[c]
    BY <1>2, DownTypes
  <2>2. CASE machineSocket = "open"
    <3>1. Down(c)' = Append(downWire[c], CloseFrame) \o downQueue[c]
      BY <1>4, <2>2
    <3>. QED BY <2>1, <3>1, Overtaken
  <2>3. CASE machineSocket # "open"
    BY <1>4, <2>3
  <2>. QED BY <2>2, <2>3
<1>6. /\ local[c] \in {"connecting", "open", "closing"}
      /\ local'[c] = Closed(local[c]) /\ Closed(local[c]) \in LocalStates
      /\ local'[c] \notin {"none", "connecting", "open"}
      /\ local'[c] = "aborted" => local[c] = "connecting"
      /\ ~ inLocal'[c] /\ pendingData'[c] = <<>> /\ toLocal'[c] = toLocal[c]
  BY <1>1, <1>2 DEF Tables, Typed, Closed, LocalStates
<1>7. MachineSide(c)
  BY <1>1, <1>2, <1>3, <1>4, <1>6, FrameTypes DEF MachineSide, Typed
<1>8. local'[c] = "aborted" => OnlyCloses(Down(c)')
  BY <1>2, <1>5, <1>6, NoneAtAll DEF NothingYet
<1>9. gateway[c] = "open" =>
        /\ Carry(Down(c)', Len(toUser[c]))
        /\ machineSocket = "open" => UpTo(Down(c)', Len(toUser[c]), produced'[c])
  BY <1>2, <1>5 DEF DownInOrder
<1>. QED BY <1>1, <1>2, <1>3, <1>6, <1>7, <1>8, <1>9, PendingLost, LocalEnds DEF Tables

\* The "close" case of handleCloudMessage.
LEMMA OnMachineClose ==
  ASSUME RoutesInv, NEW c \in Connections, MachineClose(c)
  PROVE  RoutesInv'
<1>1. /\ upWire[c] # <<>> /\ Head(upWire[c]).type = "close" /\ Arrives(c, upWire)
      /\ local' = [local EXCEPT ![c] = IF inLocal[c] THEN Closed(@) ELSE @]
      /\ inLocal' = [inLocal EXCEPT ![c] = FALSE]
      /\ pendingData' = [pendingData EXCEPT ![c] = <<>>]
      /\ downQueue' = [downQueue EXCEPT ![c] = <<>>]
      /\ UNCHANGED <<cloudSocket, machineSocket, gateway, known, sent, toUser, produced, toLocal,
                     refused, upQueue, downWire>>
  BY DEF MachineClose, MachineReceives, Arriving, sockets, cloudVars
<1>2. /\ Typed /\ Tables(c) /\ OpensOnce(c) /\ NothingYet(c)
      /\ Up(c) \in FrameSeqs /\ local[c] \in LocalStates
  BY AtRoute
<1>3. /\ UpAt(c) /\ Up(c) # <<>> /\ Up(c)' = Tail(Up(c)) /\ Head(Up(c)).type = "close"
      /\ DownAt(c) /\ Down(c)' = downWire[c] /\ downQueue'[c] = <<>>
  BY <1>1, <1>2, UpArrives, DownCut
<1>4. gateway[c] # "open"
  <2>1. Has(Up(c), "close")
    BY <1>2, <1>3, HasTail
  <2>. QED BY <1>2, <2>1 DEF OpensOnce
<1>5. /\ downWire[c] \in FrameSeqs /\ downQueue[c] \in FrameSeqs
      /\ Down(c) = downWire[c] \o downQueue[c]
  BY <1>2, DownTypes
<1>6. /\ OnlyCloses(Down(c)) => OnlyCloses(Down(c)')
      /\ Down(c) = <<>> => Down(c)' = <<>>
  BY <1>3, <1>5, Dropped
<1>7. /\ Closed(local[c]) \in LocalStates \ {"open", "connecting"}
      /\ (Closed(local[c]) = "none" => local[c] = "none")
      /\ (Closed(local[c]) = "aborted" => local[c] \in {"connecting", "aborted"})
  BY <1>2, ClosedStates
<1>8. /\ local'[c] = IF inLocal[c] THEN Closed(local[c]) ELSE local[c]
      /\ ~ inLocal'[c] /\ pendingData'[c] = <<>> /\ toLocal'[c] = toLocal[c]
  BY <1>1, <1>2 DEF Typed
<1>9. /\ local'[c] \notin {"connecting", "open"}
      /\ local'[c] = "none" <=> local[c] = "none"
      /\ local'[c] = "aborted" => local[c] \in {"connecting", "aborted"}
  BY <1>2, <1>7, <1>8 DEF Tables
<1>10. MachineSide(c)
  BY <1>1, <1>2, <1>3, <1>7, FrameTypes DEF MachineSide, Typed
<1>11. local'[c] = "aborted" => OnlyCloses(Down(c)')
  BY <1>2, <1>6, <1>9, NoneAtAll DEF NothingYet
<1>12. local[c] = "none" => Down(c)' = Down(c)
  BY <1>2, <1>6 DEF NothingYet
<1>. QED BY <1>1, <1>3, <1>4, <1>8, <1>9, <1>10, <1>11, <1>12, PendingLost, LocalEnds

-----------------------------------------------------------------------------
(***************************************************************************)
(* The steps of the tunnel's websocket, which every route shares.          *)
(***************************************************************************)
LEMMA OnCloudSocketCloses ==
  ASSUME RoutesInv, CloudSocketCloses
  PROVE  RoutesInv'
<1>1. /\ cloudSocket = "open" /\ cloudSocket' = "closing"
      /\ UNCHANGED <<machineSocket, upQueue, upWire, downQueue, downWire, gateway, known, sent,
                     toUser, local, inLocal, pendingData, produced, toLocal, refused>>
  BY DEF CloudSocketCloses, CloudCloses, upLink, downLink, cloudVars, localVars
<1>2. Typed'
  BY <1>1 DEF RoutesInv, Typed
<1>3. ASSUME NEW c \in Connections PROVE Route(c)'
  <2>1. Tables(c) /\ OpensOnce(c) /\ NothingYet(c) /\ UpInOrder(c) /\ DownInOrder(c)
    BY AtRoute
  <2>2. Up(c)' = Up(c) /\ Down(c)' = Down(c) /\ Taken(c)' = Taken(c)
    BY <1>1 DEF Up, Down, Taken
  <2>3. Tables(c)' /\ OpensOnce(c)'
    BY <1>1, <2>1, <2>2 DEF Tables, OpensOnce
  <2>4. NothingYet(c)' /\ DownInOrder(c)'
    BY <1>1, <2>1, <2>2 DEF NothingYet, DownInOrder
  <2>5. UpInOrder(c)'
    BY <1>1, <2>1, <2>2 DEF UpInOrder, Taking
  <2>. QED BY <2>3, <2>4, <2>5 DEF Route
<1>. QED BY <1>2, <1>3 DEF RoutesInv

LEMMA OnMachineSocketCloses ==
  ASSUME RoutesInv, MachineSocketCloses
  PROVE  RoutesInv'
<1>1. /\ machineSocket = "open" /\ machineSocket' = "closing"
      /\ UNCHANGED <<cloudSocket, upQueue, upWire, downQueue, downWire, gateway, known, sent,
                     toUser, local, inLocal, pendingData, produced, toLocal, refused>>
  BY DEF MachineSocketCloses, MachineCloses, upLink, downLink, cloudVars, localVars
<1>2. Typed'
  BY <1>1 DEF RoutesInv, Typed
<1>3. ASSUME NEW c \in Connections PROVE Route(c)'
  <2>1. Tables(c) /\ OpensOnce(c) /\ NothingYet(c) /\ UpInOrder(c) /\ DownInOrder(c)
    BY AtRoute
  <2>2. Up(c)' = Up(c) /\ Down(c)' = Down(c) /\ Taken(c)' = Taken(c)
    BY <1>1 DEF Up, Down, Taken
  <2>3. Tables(c)' /\ OpensOnce(c)'
    BY <1>1, <2>1, <2>2 DEF Tables, OpensOnce
  <2>4. NothingYet(c)' /\ DownInOrder(c)'
    BY <1>1, <2>1, <2>2 DEF NothingYet, DownInOrder
  <2>5. UpInOrder(c)'
    BY <1>1, <2>1, <2>2 DEF UpInOrder, Taking
  <2>. QED BY <2>3, <2>4, <2>5 DEF Route
<1>. QED BY <1>2, <1>3 DEF RoutesInv

\* The cloud's end of every route is closed: its queue goes, and what is on the wire to it
\* when its socket is closed.
LEMMA GatewaysClose ==
  ASSUME RoutesInv, CloseGateways, upQueue' = Quiet, upWire' = upWire,
         cloudSocket' \in {"replaced", "closed"}, machineSocket' = machineSocket,
         downQueue' = downQueue, downWire' = downWire \/ downWire' = Quiet,
         UNCHANGED <<sent, toUser, local, inLocal, pendingData, produced, toLocal, refused>>
  PROVE  RoutesInv'
<1>1. Typed
  BY DEF RoutesInv
<1>2. /\ gateway' = [c \in Connections |-> IF known[c] THEN Closed(gateway[c]) ELSE gateway[c]]
      /\ known' = [c \in Connections |-> FALSE]
  BY DEF CloseGateways
<1>3. \A c \in Connections : Closed(gateway[c]) \in GatewayStates \ {"open"}
  BY <1>1, ClosedStates DEF Typed
<1>4. Quiet \in [Connections -> FrameSeqs] /\ \A c \in Connections : Quiet[c] = <<>>
  BY FrameTypes DEF Quiet
<1>5. Typed'
  BY <1>1, <1>2, <1>3, <1>4 DEF Typed
<1>6. ASSUME NEW c \in Connections PROVE Route(c)'
  <2>1. /\ Tables(c) /\ OpensOnce(c) /\ NothingYet(c) /\ UpInOrder(c) /\ DownInOrder(c)
        /\ Len(Taken(c)) \in Nat
    BY AtRoute
  <2>2. gateway'[c] # "open" /\ ~ known'[c]
    BY <1>2, <1>3, <2>1 DEF Tables
  <2>3. /\ upWire[c] \in FrameSeqs /\ upQueue[c] \in FrameSeqs /\ Up(c) = upWire[c] \o upQueue[c]
        /\ downWire[c] \in FrameSeqs /\ downQueue[c] \in FrameSeqs
        /\ Down(c) = downWire[c] \o downQueue[c]
    BY <1>1, UpTypes, DownTypes
  <2>4. Up(c)' = upWire[c]
    BY <1>4, <2>3, Dropped DEF Up
  <2>5. /\ \A type : Has(Up(c)', type) => Has(Up(c), type)
        /\ OneOpen(Up(c)') /\ (~ refused[c] => OpenFirst(Up(c)'))
        /\ \A k \in Nat : Carry(Up(c), k) => Carry(Up(c)', k)
    BY <2>1, <2>3, <2>4, Dropped DEF OpensOnce
  <2>6. /\ Has(Down(c)', "close") => Has(Down(c), "close")
        /\ OnlyCloses(Down(c)) => OnlyCloses(Down(c)')
        /\ Down(c) = <<>> => Down(c)' = <<>>
    <3>1. CASE downWire' = downWire
      <4>1. Down(c)' = Down(c)
        BY <3>1 DEF Down
      <4>. QED BY <4>1
    <3>2. CASE downWire' = Quiet
      <4>1. Down(c)' = downQueue[c]
        BY <1>4, <2>3, <3>2, Unwired DEF Down
      <4>2. Down(c) = <<>> => downQueue[c] = <<>>
        BY ZenonT(60), <2>3, Dropped
      <4>. QED BY <2>3, <4>1, <4>2, Unwired
    <3>. QED BY <3>1, <3>2
  <2>7. Tables(c)'
    BY <1>4, <2>1, <2>2 DEF Tables
  <2>8. OpensOnce(c)'
    BY <2>1, <2>2, <2>5, <2>6 DEF OpensOnce
  <2>9. NothingYet(c)'
    BY <2>1, <2>6 DEF NothingYet
  <2>10. UpInOrder(c)'
    <3>1. Taken(c)' = Taken(c) /\ (Taking(c)' => Taking(c))
      BY <2>5 DEF Taken, Taking
    <3>. QED BY <2>1, <2>5, <3>1 DEF UpInOrder
  <2>11. DownInOrder(c)'
    BY <2>1, <2>2 DEF DownInOrder
  <2>. QED BY <2>7, <2>8, <2>9, <2>10, <2>11 DEF Route
<1>. QED BY <1>5, <1>6 DEF RoutesInv

\* The machine's end of every route is closed: its queue goes, and what is on the wire to it.
LEMMA LocalsClose ==
  ASSUME RoutesInv, machineSocket' = "closed", cloudSocket' = cloudSocket,
         downQueue' = Quiet, upWire' = Quiet, upQueue' = upQueue, downWire' = downWire,
         local' \in [Connections -> LocalStates],
         \A c \in Connections :
           /\ local'[c] \notin {"connecting", "open"} /\ (local'[c] = "none" <=> local[c] = "none")
           /\ local'[c] = "aborted" => local[c] \in {"connecting", "aborted"},
         inLocal' = [c \in Connections |-> FALSE], pendingData' = Quiet,
         UNCHANGED <<gateway, known, sent, toUser, produced, toLocal, refused>>
  PROVE  RoutesInv'
<1>1. Typed
  BY DEF RoutesInv
<1>2. /\ Quiet \in [Connections -> FrameSeqs] /\ \A c \in Connections : Quiet[c] = <<>>
      /\ Quiet \in [Connections -> NumberSeqs]
  BY FrameTypes DEF Quiet
<1>3. Typed'
  BY <1>1, <1>2 DEF Typed
<1>4. ASSUME NEW c \in Connections PROVE Route(c)'
  <2>1. /\ Tables(c) /\ OpensOnce(c) /\ NothingYet(c) /\ UpInOrder(c) /\ DownInOrder(c)
        /\ Len(Taken(c)) \in Nat /\ Len(toUser[c]) \in Nat
    BY AtRoute
  <2>2. ~ inLocal'[c] /\ pendingData'[c] = <<>> /\ toLocal'[c] = toLocal[c]
    BY <1>2
  <2>3. /\ upWire[c] \in FrameSeqs /\ upQueue[c] \in FrameSeqs /\ Up(c) = upWire[c] \o upQueue[c]
        /\ downWire[c] \in FrameSeqs /\ downQueue[c] \in FrameSeqs
        /\ Down(c) = downWire[c] \o downQueue[c]
    BY <1>1, UpTypes, DownTypes
  <2>4. Up(c)' = upQueue[c] /\ Down(c)' = downWire[c]
    BY <1>2, <2>3, Dropped, Unwired DEF Up, Down
  <2>5. /\ \A type : Has(Up(c)', type) => Has(Up(c), type)
        /\ OneOpen(Up(c)') /\ (~ refused[c] => OpenFirst(Up(c)'))
        /\ ~ refused[c] /\ Has(Up(c)', "open") => Up(c)' = Up(c)
    <3>1. ASSUME NEW w \in FrameSeqs, NEW q \in FrameSeqs, NEW u, u = w \o q
          PROVE  /\ \A type : Has(q, type) => Has(u, type)
                 /\ OneOpen(u) => OneOpen(q)
                 /\ OpenFirst(u) => OpenFirst(q)
                 /\ OpenFirst(u) /\ Has(q, "open") => u = q
      BY <3>1, Unwired
    <3>2. /\ \A type : Has(upQueue[c], type) => Has(Up(c), type)
          /\ OneOpen(Up(c)) => OneOpen(upQueue[c])
          /\ OpenFirst(Up(c)) => OpenFirst(upQueue[c])
          /\ OpenFirst(Up(c)) /\ Has(upQueue[c], "open") => Up(c) = upQueue[c]
      BY <2>3, <3>1
    <3>. QED BY <2>1, <2>4, <3>2 DEF OpensOnce
  <2>6. /\ Has(Down(c)', "close") => Has(Down(c), "close")
        /\ OnlyCloses(Down(c)) => OnlyCloses(Down(c)')
        /\ Down(c) = <<>> => Down(c)' = <<>>
        /\ \A k \in Nat : Carry(Down(c), k) => Carry(Down(c)', k)
    BY <2>3, <2>4, Dropped
  <2>7. Tables(c)'
    BY <1>2, <2>1, <2>2 DEF Tables
  <2>8. OpensOnce(c)'
    BY <2>1, <2>2, <2>5, <2>6 DEF OpensOnce
  <2>9. NothingYet(c)'
    BY <2>1, <2>6, NoneAtAll DEF NothingYet
  <2>10. UpInOrder(c)'
    <3>1. SUFFICES ASSUME ~ refused[c] PROVE UpInOrder(c)'
      BY DEF UpInOrder
    <3>2. IsPrefixOfNumbers(Taken(c)')
      BY <2>1, <2>2, <3>1, PendingLost DEF UpInOrder
    <3>3. Taking(c)' => Up(c)' = Up(c) /\ Taken(c)' = Taken(c) /\ Taking(c)
      <4>1. SUFFICES ASSUME Taking(c)' PROVE Up(c)' = Up(c) /\ Taken(c)' = Taken(c) /\ Taking(c)
        OBVIOUS
      <4>2. Has(Up(c)', "open")
        BY <2>2, <4>1 DEF Taking
      <4>3. Up(c)' = Up(c) /\ local[c] = "none" /\ Taking(c)
        BY <2>1, <2>5, <3>1, <4>2 DEF OpensOnce, Taking
      <4>4. pendingData[c] = <<>>
        BY <2>1, <4>3 DEF Tables
      <4>. QED BY <2>2, <4>3, <4>4 DEF Taken
    <3>. QED BY <2>1, <3>2, <3>3 DEF UpInOrder
  <2>11. DownInOrder(c)'
    BY <2>1, <2>6 DEF DownInOrder
  <2>. QED BY <2>7, <2>8, <2>9, <2>10, <2>11 DEF Route
<1>. QED BY <1>3, <1>4 DEF RoutesInv

LEMMA OnMachineEnds ==
  ASSUME RoutesInv, MachineCloseEvent \/ MachineExits
  PROVE  RoutesInv'
<1>1. /\ machineSocket' = "closed" /\ cloudSocket' = cloudSocket
      /\ downQueue' = Quiet /\ upWire' = Quiet /\ upQueue' = upQueue /\ downWire' = downWire
      /\ inLocal' = [c \in Connections |-> FALSE] /\ pendingData' = Quiet
      /\ UNCHANGED <<gateway, known, sent, toUser, produced, toLocal, refused>>
  BY DEF MachineCloseEvent, MachineExits, MachineClosed, MachineGone, cloudVars
<1>2. \A c \in Connections : Tables(c) /\ local[c] \in LocalStates
  BY AtRoute
<1>3. /\ local' \in [Connections -> LocalStates]
      /\ \A c \in Connections :
           /\ local'[c] \notin {"connecting", "open"} /\ (local'[c] = "none" <=> local[c] = "none")
           /\ local'[c] = "aborted" => local[c] \in {"connecting", "aborted"}
  <2>1. CASE MachineCloseEvent
    <3>1. local' = [c \in Connections |-> IF inLocal[c] THEN Closed(local[c]) ELSE local[c]]
      BY <2>1 DEF MachineCloseEvent
    <3>2. ASSUME NEW c \in Connections
          PROVE  /\ local'[c] \in LocalStates \ {"connecting", "open"}
                 /\ (local'[c] = "none" <=> local[c] = "none")
                 /\ local'[c] = "aborted" => local[c] \in {"connecting", "aborted"}
      <4>1. /\ Closed(local[c]) \in LocalStates \ {"open", "connecting"}
            /\ (Closed(local[c]) = "none" => local[c] = "none")
            /\ (Closed(local[c]) = "aborted" => local[c] \in {"connecting", "aborted"})
        BY <1>2, ClosedStates
      <4>2. local'[c] = IF inLocal[c] THEN Closed(local[c]) ELSE local[c]
        BY <3>1
      <4>3. /\ local[c] \in {"connecting", "open"} => inLocal[c]
            /\ inLocal[c] => local[c] # "none"
        BY <1>2 DEF Tables
      <4>. QED BY <1>2, <4>1, <4>2, <4>3
    <3>. QED BY <3>1, <3>2
  <2>2. CASE MachineExits
    <3>1. local' = [c \in Connections |-> IF local[c] = "none" THEN "none" ELSE "closed"]
      BY <2>2 DEF MachineExits
    <3>. QED BY <3>1 DEF LocalStates
  <2>. QED BY <2>1, <2>2
<1>. QED BY <1>1, <1>3, LocalsClose

\* A new tunnel carries nothing of the routes of the one before.
LEMMA OnReconnect ==
  ASSUME RoutesInv, Reconnect
  PROVE  RoutesInv'
<1>1. /\ cloudSocket = "closed" /\ machineSocket = "closed"
      /\ cloudSocket' = "open" /\ machineSocket' = "open" /\ upWire' = Quiet /\ downWire' = Quiet
      /\ UNCHANGED <<upQueue, downQueue, gateway, known, sent,
                     toUser, local, inLocal, pendingData, produced, toLocal, refused>>
  BY DEF Reconnect, Reconnected, cloudVars, localVars
<1>2. Quiet \in [Connections -> FrameSeqs] /\ \A c \in Connections : Quiet[c] = <<>>
  BY FrameTypes DEF Quiet
<1>3. Typed'
  BY <1>1, <1>2 DEF RoutesInv, Typed
<1>4. ASSUME NEW c \in Connections PROVE Route(c)'
  <2>1. Tables(c) /\ OpensOnce(c) /\ NothingYet(c) /\ UpInOrder(c) /\ DownInOrder(c)
    BY AtRoute
  <2>2. upQueue[c] = <<>> /\ downQueue[c] = <<>> /\ ~ known[c] /\ gateway[c] # "open" /\ ~ inLocal[c]
    BY <1>1, <2>1 DEF Tables
  <2>3. Up(c)' = <<>> /\ Down(c)' = <<>> /\ Taken(c)' = Taken(c)
    <3>1. <<>> \o <<>> = <<>>
      BY Dropped, FrameTypes
    <3>. QED BY <1>1, <1>2, <2>2, <3>1 DEF Up, Down, Taken
  <2>4. /\ \A type : ~ Has(<<>>, type)
        /\ OneOpen(<<>>) /\ OpenFirst(<<>>) /\ OnlyCloses(<<>>)
    BY NoneAtAll
  <2>5. Tables(c)'
    BY <1>1, <2>1, <2>2 DEF Tables
  <2>6. OpensOnce(c)'
    BY <2>3, <2>4 DEF OpensOnce
  <2>7. NothingYet(c)'
    BY <1>1, <2>1, <2>3, <2>4 DEF NothingYet
  <2>8. UpInOrder(c)'
    BY <1>1, <2>1, <2>2, <2>3, <2>4 DEF UpInOrder, Taking
  <2>9. DownInOrder(c)'
    BY <1>1, <2>1, <2>2 DEF DownInOrder
  <2>. QED BY <2>5, <2>6, <2>7, <2>8, <2>9 DEF Route
<1>. QED BY <1>3, <1>4 DEF RoutesInv

-----------------------------------------------------------------------------
(***************************************************************************)
(* The theorems.                                                           *)
(***************************************************************************)
LEMMA Starts == Init => RoutesInv
<1>1. SUFFICES ASSUME Init PROVE RoutesInv
  OBVIOUS
<1>2. /\ Quiet \in [Connections -> FrameSeqs] /\ \A c \in Connections : Quiet[c] = <<>>
      /\ 0 \in 0..MaxMessages /\ <<>> \in NumberSeqs
  BY FrameTypes, MessageAssumption DEF Quiet
<1>3. Typed
  BY <1>1, <1>2 DEF Init, LinkInit, Typed, GatewayStates, LocalStates
<1>4. ASSUME NEW c \in Connections PROVE Route(c)
  <2>1. /\ cloudSocket = "open" /\ machineSocket = "open"
        /\ upQueue[c] = <<>> /\ upWire[c] = <<>> /\ downQueue[c] = <<>> /\ downWire[c] = <<>>
        /\ gateway[c] = "none" /\ known[c] = FALSE /\ toUser[c] = <<>> /\ local[c] = "none"
        /\ inLocal[c] = FALSE /\ pendingData[c] = <<>> /\ produced[c] = 0 /\ toLocal[c] = <<>>
    BY <1>1, <1>2 DEF Init, LinkInit
  <2>2. Up(c) = <<>> /\ Down(c) = <<>> /\ Taken(c) = <<>>
    <3>1. <<>> \o <<>> = <<>>
      BY Dropped, FrameTypes
    <3>. QED BY <2>1, <3>1 DEF Up, Down, Taken
  <2>3. /\ \A type : ~ Has(<<>>, type)
        /\ OneOpen(<<>>) /\ OpenFirst(<<>>) /\ OnlyCloses(<<>>) /\ IsPrefixOfNumbers(<<>>)
    BY NoneAtAll, NumbersAt, FrameTypes
  <2>4. Tables(c) /\ OpensOnce(c) /\ NothingYet(c)
    BY <2>1, <2>2, <2>3 DEF Tables, OpensOnce, NothingYet
  <2>5. UpInOrder(c) /\ DownInOrder(c)
    BY <2>1, <2>2, <2>3 DEF UpInOrder, DownInOrder, Taking
  <2>. QED BY <2>4, <2>5 DEF Route
<1>. QED BY <1>3, <1>4 DEF RoutesInv

LEMMA Steps == RoutesInv /\ [Next]_vars => RoutesInv'
<1>1. SUFFICES ASSUME RoutesInv, [Next]_vars PROVE RoutesInv'
  OBVIOUS
<1>2. CASE UNCHANGED vars
  <2>1. /\ UNCHANGED <<cloudSocket, machineSocket, upQueue, upWire, downQueue, downWire, gateway,
                       known, sent, toUser, local, inLocal, pendingData, produced, toLocal, refused>>
    BY <1>2 DEF vars, linkVars, sockets, upLink, downLink, cloudVars, localVars
  <2>2. Typed'
    BY <1>1, <2>1 DEF RoutesInv, Typed
  <2>3. ASSUME NEW c \in Connections PROVE Route(c)'
    BY <1>1, <2>1, AtRoute
    DEF Route, Tables, OpensOnce, NothingYet, UpInOrder, DownInOrder, Up, Down, Taken, Taking
  <2>. QED BY <2>2, <2>3 DEF RoutesInv
<1>3. ASSUME NEW c \in Connections,
             \/ OpenGateway(c) \/ GatewayMessage(c) \/ GatewayMessageRefused(c) \/ UpOverflows(c)
             \/ GatewayCloses(c) \/ GatewayError(c) \/ GatewayClose(c)
             \/ CloudHandles(c) \/ UpDrain(c)
      PROVE  RoutesInv'
  BY <1>1, <1>3, OnOpenGateway, OnGatewayMessage, OnGatewayMessageRefused, OnUpOverflows,
     OnGatewayCloses, OnGatewayGone, OnReceiveOpenOk, OnReceiveOpenFailed, OnReceiveData,
     OnReceiveDataOverloads, OnReceiveClose, OnUpDrain
  DEF CloudHandles
<1>4. ASSUME NEW c \in Connections,
             \/ LocalOpen(c) \/ LocalOpenOverloads(c) \/ LocalMessage(c) \/ LocalMessageRefused(c)
             \/ DownOverflows(c) \/ LocalFails(c) \/ LocalError(c) \/ LocalCloses(c)
             \/ LocalClose(c) \/ MachineHandles(c) \/ DownDrain(c)
      PROVE  RoutesInv'
  BY <1>1, <1>4, OnLocalOpen, OnLocalOpenOverloads, OnLocalMessage, OnLocalMessageRefused,
     OnDownOverflows, OnLocalFails, OnLocalError, OnLocalCloses, OnLocalClose, OnMachineOpen,
     OnMachineData, OnMachineDataOverloads, OnMachineClose, OnDownDrain
  DEF MachineHandles
<1>5. CASE Replaced \/ CloudCloseEvent
  <2>1. /\ CloseGateways /\ upQueue' = Quiet /\ upWire' = upWire
        /\ cloudSocket' \in {"replaced", "closed"} /\ machineSocket' = machineSocket
        /\ downQueue' = downQueue /\ (downWire' = downWire \/ downWire' = Quiet)
        /\ UNCHANGED <<sent, toUser, local, inLocal, pendingData, produced, toLocal, refused>>
    BY <1>5 DEF Replaced, CloudCloseEvent, CloudReplaced, CloudClosed, downLink, localVars
  <2>. QED BY <1>1, <2>1, GatewaysClose
<1>6. CASE CloudSocketCloses \/ MachineSocketCloses
  BY <1>1, <1>6, OnCloudSocketCloses, OnMachineSocketCloses
<1>7. CASE MachineCloseEvent \/ MachineExits \/ Reconnect
  BY <1>1, <1>7, OnMachineEnds, OnReconnect
<1>. QED BY <1>1, <1>2, <1>3, <1>4, <1>5, <1>6, <1>7 DEF Next

\* The tables say of a route's websockets what the frames under way bear out: whatever happens
\* to either end, to the tunnel's websocket or to the machine.
THEOREM RoutesCorrect == Spec => []RoutesInv
BY Starts, Steps, PTL DEF Spec

\* Types, and a record in gatewayConnections or localConnections only for a websocket that
\* is there, with nothing kept for a local websocket that is gone: the two tables of
\* MachineTunnel and MachineTunnelClient.
THEOREM RoutesTypeCorrect == Spec => []TypeOK
<1>1. RoutesInv => TypeOK
  <2>1. SUFFICES ASSUME RoutesInv PROVE TypeOK
    OBVIOUS
  <2>2. ASSUME NEW s \in FrameSeqs PROVE s \in Seq(Frames)
    <3>1. FrameSet \subseteq Frames
      BY DEF FrameSet, Frames
    <3>. QED BY <3>1, SeqDef DEF FrameSeqs
  <2>3. Typed
    BY <2>1 DEF RoutesInv
  <2>4. {upQueue, upWire, downQueue, downWire} \subseteq [Connections -> Seq(Frames)]
    BY <2>2, <2>3 DEF Typed
  <2>5. \A c \in Connections :
          /\ known[c] => gateway[c] \in {"open", "closing"}
          /\ inLocal[c] => local[c] \in {"connecting", "open", "closing"}
          /\ pendingData[c] # <<>> => inLocal[c]
    BY <2>1, AtRoute DEF Tables
  <2>6. /\ {known, inLocal, refused} \subseteq [Connections -> BOOLEAN]
        /\ {sent, produced} \subseteq [Connections -> 0..MaxMessages]
        /\ {toUser, toLocal, pendingData} \subseteq [Connections -> Seq(1..MaxMessages)]
    BY <2>3 DEF Typed, NumberSeqs
  <2>7. /\ cloudSocket \in {"open", "closing", "replaced", "closed"}
        /\ machineSocket \in {"open", "closing", "closed"}
        /\ gateway \in [Connections -> {"none", "open", "closing", "failed", "closed"}]
        /\ local \in [Connections ->
                        {"none", "connecting", "open", "aborted", "failed", "closing", "closed"}]
    BY <2>3 DEF Typed, GatewayStates, LocalStates
  <2>. QED BY <2>4, <2>5, <2>6, <2>7 DEF TypeOK
<1>. QED BY <1>1, RoutesCorrect, PTL

\* Both directions of a route pass on what was sent, in order and without a gap, up to some
\* message: across the queues and the wire, the frames kept while the local websocket opens,
\* overloads, and the closes that overtake what is queued.
THEOREM RoutesInOrder == Spec => []InOrder
<1>1. RoutesInv => InOrder
  <2>1. SUFFICES ASSUME RoutesInv PROVE InOrder
    OBVIOUS
  <2>2. ASSUME NEW c \in Connections
        PROVE  /\ ~ refused[c] => IsPrefixOfNumbers(toLocal[c])
               /\ IsPrefixOfNumbers(toUser[c])
    <3>1. /\ UpInOrder(c) /\ DownInOrder(c)
          /\ toLocal[c] \in NumberSeqs /\ pendingData[c] \in NumberSeqs
      BY <2>1, AtRoute
    <3>2. ~ refused[c] => IsPrefixOfNumbers(toLocal[c])
      BY <3>1, NumbersLost DEF UpInOrder, Taken
    <3>. QED BY <3>1, <3>2 DEF DownInOrder
  <2>. QED BY <2>2 DEF InOrder, PrefixUp, PrefixDown
<1>. QED BY <1>1, RoutesCorrect, PTL

\* When an end of the tunnel has closed, no route on it is open at that end:
\* closeGatewayConnections and closeLocalConnections leave none out.
THEOREM RoutesEndCorrect == Spec => []RoutesEndWithTunnel
<1>1. RoutesInv => RoutesEndWithTunnel
  BY AtRoute DEF RoutesEndWithTunnel, Tables
<1>. QED BY <1>1, RoutesCorrect, PTL
=============================================================================
