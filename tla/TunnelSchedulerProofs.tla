----------------------- MODULE TunnelSchedulerProofs -----------------------
(***************************************************************************)
(* The safety properties of the tunnel scheduler for any set of            *)
(* connections, any profiles and any limits, and that it implements a      *)
(* RouteChannel for each connection.                                       *)
(***************************************************************************)
EXTENDS TunnelScheduler, SequenceProofs, SequenceTheorems

\* The Map: a connection has at most one queue, and has one only while frames
\* wait in it.
OrderOK ==
  /\ \A i, j \in DOMAIN order : order[i] = order[j] => i = j
  /\ \A c \in Conns : frames[c] # <<>> <=> \E i \in DOMAIN order : order[i] = c

\* What the limits mean inside enqueue(): only the caller's queue can be over
\* its own limit, and the total is enforced last.
LimitsHold ==
  /\ pc = "connectionLimits" =>
       /\ caller \in Conns
       /\ \A c \in Conns \ {caller} : queuedBytes[c] <= MaxQueuedBytes[c]
  /\ pc # "connectionLimits" => \A c \in Conns : queuedBytes[c] <= MaxQueuedBytes[c]
  /\ pc \in {"idle", "drain"} => totalQueuedBytes <= TotalLimit

\* A scheduler whose socket is closed holds nothing.
ClosedIsEmpty ==
  socket = "closed" => /\ order = <<>>
                       /\ accepted = [c \in Conns |-> 0]
                       /\ handed = [c \in Conns |-> 0]

IInv ==
  /\ TypeOK
  /\ OrderOK
  /\ CountersExact
  /\ PrefixDelivery
  /\ NothingStranded
  /\ LimitsHold
  /\ ClosedIsEmpty

-----------------------------------------------------------------------------
\* RemoveAt takes out one element and closes the hole.
LEMMA RemoveAtElements ==
  ASSUME NEW S, NEW s \in Seq(S), NEW i \in 1..Len(s)
  PROVE  /\ RemoveAt(s, i) \in Seq(S)
         /\ Len(RemoveAt(s, i)) = Len(s) - 1
         /\ \A j \in 1..(Len(s) - 1) : j < i => RemoveAt(s, i)[j] = s[j]
         /\ \A j \in 1..(Len(s) - 1) : j >= i => RemoveAt(s, i)[j] = s[j + 1]
<1>. DEFINE a == SubSeq(s, 1, i - 1)
            b == SubSeq(s, i + 1, Len(s))
<1>1. a \in Seq(S) /\ Len(a) = i - 1 /\ \A j \in 1..(i - 1) : a[j] = s[j]
  OBVIOUS
<1>2. b \in Seq(S) /\ Len(b) = Len(s) - i /\ \A j \in 1..(Len(s) - i) : b[j] = s[i + j]
  OBVIOUS
<1>3. RemoveAt(s, i) = a \o b
  BY DEF RemoveAt
<1>. HIDE DEF a, b
<1>4. Len(a) \in Nat /\ Len(b) \in Nat /\ Len(a) + Len(b) = Len(s) - 1
  BY <1>1, <1>2
<1>5. /\ a \o b \in Seq(S)
      /\ Len(a \o b) = Len(s) - 1
      /\ \A j \in 1..(Len(s) - 1) : (a \o b)[j] = IF j <= Len(a) THEN a[j] ELSE b[j - Len(a)]
  <2>1. /\ a \o b \in Seq(S) /\ Len(a \o b) = Len(a) + Len(b)
        /\ \A j \in 1..(Len(a) + Len(b)) :
             (a \o b)[j] = IF j <= Len(a) THEN a[j] ELSE b[j - Len(a)]
    BY <1>1, <1>2, ConcatProperties
  <2>. QED BY <2>1, <1>4
<1>6. ASSUME NEW j \in 1..(Len(s) - 1), j < i PROVE (a \o b)[j] = s[j]
  BY <1>1, <1>5, <1>6
<1>7. ASSUME NEW j \in 1..(Len(s) - 1), j >= i PROVE (a \o b)[j] = s[j + 1]
  <2>1. (a \o b)[j] = b[j - (i - 1)] /\ j - (i - 1) \in 1..(Len(s) - i)
    BY <1>1, <1>5, <1>7
  <2>. QED BY SMTT(30), <2>1, <1>2
<1>. QED BY <1>3, <1>5, <1>6, <1>7

\* Taking out an element of a sequence without duplicates leaves the others.
LEMMA RemoveAtDistinct ==
  ASSUME NEW S, NEW s \in Seq(S), NEW i \in 1..Len(s),
         \A j, k \in 1..Len(s) : s[j] = s[k] => j = k
  PROVE  /\ \A j, k \in 1..Len(RemoveAt(s, i)) :
              RemoveAt(s, i)[j] = RemoveAt(s, i)[k] => j = k
         /\ \A j \in 1..Len(RemoveAt(s, i)) : RemoveAt(s, i)[j] # s[i]
         /\ \A c : (\E j \in 1..Len(RemoveAt(s, i)) : RemoveAt(s, i)[j] = c)
                     <=> c # s[i] /\ \E j \in 1..Len(s) : s[j] = c
<1>. DEFINE r == RemoveAt(s, i)
<1>1. /\ Len(r) = Len(s) - 1
      /\ \A j \in 1..(Len(s) - 1) : j < i => r[j] = s[j]
      /\ \A j \in 1..(Len(s) - 1) : j >= i => r[j] = s[j + 1]
  BY RemoveAtElements
<1>. HIDE DEF r
<1>2. ASSUME NEW j \in 1..Len(r) 
      PROVE  \E m \in 1..Len(s) : m # i /\ r[j] = s[m] /\ m = IF j < i THEN j ELSE j + 1
  <2>1. CASE j < i
    BY <2>1, <1>1
  <2>2. CASE j >= i
    <3>1. j + 1 \in 1..Len(s) /\ j + 1 # i /\ r[j] = s[j + 1]
      BY <2>2, <1>1
    <3>. QED BY <2>2, <3>1
  <2>. QED BY <2>1, <2>2, <1>1
<1>3. ASSUME NEW j \in 1..Len(r), NEW k \in 1..Len(r), r[j] = r[k] PROVE j = k
  <2>1. PICK m \in 1..Len(s) : r[j] = s[m] /\ m = IF j < i THEN j ELSE j + 1
    BY <1>2
  <2>2. PICK n \in 1..Len(s) : r[k] = s[n] /\ n = IF k < i THEN k ELSE k + 1
    BY <1>2
  <2>3. m = n
    BY <1>3, <2>1, <2>2
  <2>. QED BY <2>1, <2>2, <2>3, <1>1
<1>4. ASSUME NEW j \in 1..Len(r) PROVE r[j] # s[i]
  BY <1>2
<1>5. ASSUME NEW j \in 1..Len(s), j # i PROVE \E k \in 1..Len(r) : r[k] = s[j]
  <2>1. CASE j < i
    BY <2>1, <1>1
  <2>2. CASE j > i
    <3>1. j - 1 \in 1..Len(r) /\ r[j - 1] = s[(j - 1) + 1]
      BY <2>2, <1>1
    <3>2. (j - 1) + 1 = j
      OBVIOUS
    <3>. QED BY <3>1, <3>2
  <2>. QED BY <2>1, <2>2, <1>5
<1>6. ASSUME NEW c
      PROVE  (\E j \in 1..Len(r) : r[j] = c) <=> c # s[i] /\ \E j \in 1..Len(s) : s[j] = c
  BY <1>2, <1>4, <1>5
<1>. QED BY <1>3, <1>4, <1>6 DEF r

-----------------------------------------------------------------------------
\* The bytes of a queue's frames.
LEMMA FrameBytesElements ==
  ASSUME NEW s \in Seq(Frame)
  PROVE  /\ FrameBytes(s) \in Seq(Nat \ {0})
         /\ FrameBytes(s) \in Seq(Nat)
         /\ Len(FrameBytes(s)) = Len(s)
         /\ \A i \in 1..Len(s) : /\ FrameBytes(s)[i] = s[i].byteLength
                                 /\ s[i].byteLength \in Nat \ {0}
                                 /\ s[i].number \in FrameNumbers
<1>1. ASSUME NEW i \in 1..Len(s)
      PROVE  s[i].byteLength \in Nat \ {0} /\ s[i].number \in FrameNumbers
  <2>1. s[i] \in Frame
    OBVIOUS
  <2>. QED BY <2>1, LimitAssumption DEF Frame
<1>2. Len(s) \in Nat
  OBVIOUS
<1>. QED BY <1>1, <1>2 DEF FrameBytes

\* A push.
LEMMA PushFrame ==
  ASSUME NEW s \in Seq(Frame), NEW f \in Frame, NEW t \in Nat, SumsTo(FrameBytes(s), t)
  PROVE  SumsTo(FrameBytes(Append(s, f)), t + f.byteLength)
<1>. DEFINE a == FrameBytes(s)
            r == FrameBytes(Append(s, f))
<1>1. /\ Append(s, f) \in Seq(Frame)
      /\ Len(Append(s, f)) = Len(s) + 1
      /\ \A i \in 1..Len(s) : Append(s, f)[i] = s[i]
      /\ Append(s, f)[Len(s) + 1] = f
      /\ Len(s) \in Nat
  BY AppendProperties
<1>2. /\ a \in Seq(Nat) /\ Len(a) = Len(s)
      /\ \A i \in 1..Len(s) : a[i] = s[i].byteLength
  BY FrameBytesElements
<1>3. /\ r \in Seq(Nat) /\ Len(r) = Len(s) + 1
      /\ \A i \in 1..(Len(s) + 1) : r[i] = Append(s, f)[i].byteLength
  BY <1>1, FrameBytesElements
<1>4. f.byteLength \in Nat
  BY LimitAssumption DEF Frame
<1>5. r[Len(r)] = f.byteLength /\ \A i \in 1..Len(a) : r[i] = a[i]
  BY <1>1, <1>2, <1>3
<1>6. SumsTo(a, t)
  OBVIOUS
<1>7. Len(r) = Len(a) + 1
  BY <1>2, <1>3
<1>. HIDE DEF a, r
<1>8. SumsTo(r, t + f.byteLength)
  BY <1>2, <1>3, <1>4, <1>5, <1>6, <1>7, SumsAppend
<1>. QED BY <1>8 DEF r

\* A shift.
LEMMA ShiftFrame ==
  ASSUME NEW s \in Seq(Frame), s # <<>>, NEW t \in Nat, SumsTo(FrameBytes(s), t)
  PROVE  /\ t - Head(s).byteLength \in Nat
         /\ SumsTo(FrameBytes(Tail(s)), t - Head(s).byteLength)
<1>. DEFINE a == FrameBytes(s)
            r == FrameBytes(Tail(s))
<1>1. /\ Tail(s) \in Seq(Frame)
      /\ Len(Tail(s)) = Len(s) - 1
      /\ \A i \in 1..Len(Tail(s)) : Tail(s)[i] = s[i + 1]
      /\ Len(s) \in Nat \ {0} /\ Head(s) = s[1]
  BY HeadTailProperties, EmptySeq
<1>2. /\ a \in Seq(Nat) /\ Len(a) = Len(s)
      /\ \A i \in 1..Len(s) : a[i] = s[i].byteLength
  BY SMTT(30), FrameBytesElements
<1>3. /\ r \in Seq(Nat) /\ Len(r) = Len(s) - 1
      /\ \A i \in 1..(Len(s) - 1) : r[i] = Tail(s)[i].byteLength
  BY <1>1, FrameBytesElements
<1>4. a[1] = Head(s).byteLength /\ 1 \in 1..Len(a)
  BY <1>1, <1>2
<1>5. ASSUME NEW i \in 1..Len(r) PROVE r[i] = a[i + 1] /\ i >= 1 /\ ~ (i < 1)
  <2>1. r[i] = s[i + 1].byteLength /\ i + 1 \in 1..Len(s)
    BY <1>1, <1>3
  <2>. QED BY <2>1, <1>2
<1>6. SumsTo(a, t) /\ Len(r) = Len(a) - 1
  BY <1>2, <1>3
<1>. HIDE DEF a, r
<1>7. t - a[1] \in Nat /\ SumsTo(r, t - a[1])
  BY <1>2, <1>3, <1>4, <1>5, <1>6, SumsRemove
<1>. QED BY <1>4, <1>7 DEF r

\* The bytes of the queues.
LEMMA QueueBytesElements ==
  ASSUME NEW o \in Seq(Conns), NEW q \in [Conns -> Nat]
  PROVE  /\ QueueBytes(o, q) \in Seq(Nat)
         /\ Len(QueueBytes(o, q)) = Len(o)
         /\ \A i \in 1..Len(o) : o[i] \in Conns /\ QueueBytes(o, q)[i] = q[o[i]]
<1>1. Len(o) \in Nat /\ \A i \in 1..Len(o) : o[i] \in Conns /\ q[o[i]] \in Nat
  OBVIOUS
<1>. QED BY <1>1 DEF QueueBytes

\* A queue that is not empty counts: a total of zero means there is none.
LEMMA NothingQueued ==
  ASSUME NEW o \in Seq(Conns), NEW q \in [Conns -> Nat],
         \A i \in 1..Len(o) : q[o[i]] # 0, SumsTo(QueueBytes(o, q), 0)
  PROVE  o = <<>>
<1>1. /\ QueueBytes(o, q) \in Seq(Nat)
      /\ Len(QueueBytes(o, q)) = Len(o)
      /\ \A i \in 1..Len(o) : QueueBytes(o, q)[i] = q[o[i]]
  BY QueueBytesElements
<1>2. Len(o) \in Nat
  OBVIOUS
<1>3. ASSUME Len(o) # 0 PROVE FALSE
  <2>1. 1 \in 1..Len(o) /\ 1 \in 1..Len(QueueBytes(o, q))
    BY <1>1, <1>2, <1>3
  <2>2. QueueBytes(o, q)[1] <= 0
    BY <1>1, <2>1, SumsPart
  <2>3. q[o[1]] \in Nat /\ q[o[1]] # 0
    BY <2>1
  <2>. QED BY <1>1, <2>1, <2>2, <2>3
<1>. QED BY <1>3, EmptySeq

\* A new queue, at the end of the Map.
LEMMA AddQueue ==
  ASSUME NEW o \in Seq(Conns), NEW q \in [Conns -> Nat], NEW t \in Nat,
         SumsTo(QueueBytes(o, q), t), NEW c \in Conns, NEW n \in Nat,
         \A i \in 1..Len(o) : o[i] # c
  PROVE  SumsTo(QueueBytes(Append(o, c), [q EXCEPT ![c] = n]), t + n)
<1>. DEFINE u == [q EXCEPT ![c] = n]
            a == QueueBytes(o, q)
            w == Append(o, c)
            r == QueueBytes(w, u)
<1>1. u \in [Conns -> Nat] /\ u[c] = n /\ \A d \in Conns : d # c => u[d] = q[d]
  OBVIOUS
<1>. HIDE DEF u
<1>2. /\ w \in Seq(Conns) /\ Len(w) = Len(o) + 1
      /\ \A i \in 1..Len(o) : w[i] = o[i]
      /\ w[Len(o) + 1] = c /\ Len(o) \in Nat
  BY AppendProperties
<1>. HIDE DEF w
<1>3. /\ a \in Seq(Nat) /\ Len(a) = Len(o)
      /\ \A i \in 1..Len(o) : o[i] \in Conns /\ a[i] = q[o[i]]
  BY QueueBytesElements
<1>4. /\ r \in Seq(Nat) /\ Len(r) = Len(o) + 1
      /\ \A i \in 1..(Len(o) + 1) : r[i] = u[w[i]]
  <2>1. r \in Seq(Nat) /\ Len(r) = Len(w) /\ \A i \in 1..Len(w) : r[i] = u[w[i]]
    BY <1>1, <1>2, QueueBytesElements
  <2>. HIDE DEF r
  <2>. QED BY <1>2, <2>1
<1>5. r[Len(r)] = n /\ \A i \in 1..Len(a) : r[i] = a[i]
  BY <1>1, <1>2, <1>3, <1>4
<1>6. SumsTo(a, t) /\ Len(r) = Len(a) + 1
  BY <1>3, <1>4
<1>. HIDE DEF a, r
<1>7. SumsTo(r, t + n)
  BY <1>3, <1>4, <1>5, <1>6, SumsAppend
<1>. QED BY <1>7 DEF r, u, w

\* A queue that gets or loses bytes.
LEMMA ResizeQueue ==
  ASSUME NEW o \in Seq(Conns), NEW q \in [Conns -> Nat], NEW t \in Nat,
         SumsTo(QueueBytes(o, q), t), NEW k \in 1..Len(o), NEW n \in Nat,
         \A i, j \in 1..Len(o) : o[i] = o[j] => i = j
  PROVE  /\ t - q[o[k]] + n \in Nat
         /\ SumsTo(QueueBytes(o, [q EXCEPT ![o[k]] = n]), t - q[o[k]] + n)
<1>. DEFINE u == [q EXCEPT ![o[k]] = n]
            a == QueueBytes(o, q)
            r == QueueBytes(o, u)
<1>0. o[k] \in Conns
  OBVIOUS
<1>1. u \in [Conns -> Nat] /\ u[o[k]] = n /\ \A d \in Conns : d # o[k] => u[d] = q[d]
  BY <1>0
<1>. HIDE DEF u
<1>3. /\ a \in Seq(Nat) /\ Len(a) = Len(o)
      /\ \A i \in 1..Len(o) : o[i] \in Conns /\ a[i] = q[o[i]]
  BY QueueBytesElements
<1>4. /\ r \in Seq(Nat) /\ Len(r) = Len(o)
      /\ \A i \in 1..Len(o) : r[i] = u[o[i]]
  BY SMTT(30), <1>1, QueueBytesElements
<1>5. r[k] = n /\ \A i \in 1..Len(a) : i # k => r[i] = a[i]
  BY SMTT(30), <1>1, <1>3, <1>4
<1>6. SumsTo(a, t) /\ Len(r) = Len(a) /\ k \in 1..Len(a) /\ a[k] = q[o[k]]
  BY <1>3, <1>4
<1>. HIDE DEF a, r
<1>7. t - a[k] + n \in Nat /\ SumsTo(r, t - a[k] + n)
  BY <1>3, <1>4, <1>5, <1>6, SumsUpdate
<1>. QED BY <1>6, <1>7 DEF r, u

\* A queue that leaves the Map.
LEMMA RemoveQueue ==
  ASSUME NEW o \in Seq(Conns), NEW q \in [Conns -> Nat], NEW t \in Nat,
         SumsTo(QueueBytes(o, q), t), NEW k \in 1..Len(o), NEW n \in Nat,
         \A i, j \in 1..Len(o) : o[i] = o[j] => i = j
  PROVE  /\ t - q[o[k]] \in Nat
         /\ SumsTo(QueueBytes(RemoveAt(o, k), [q EXCEPT ![o[k]] = n]), t - q[o[k]])
<1>. DEFINE u == [q EXCEPT ![o[k]] = n]
            a == QueueBytes(o, q)
            w == RemoveAt(o, k)
            r == QueueBytes(w, u)
<1>0. o[k] \in Conns
  OBVIOUS
<1>1. u \in [Conns -> Nat] /\ \A d \in Conns : d # o[k] => u[d] = q[d]
  BY <1>0
<1>. HIDE DEF u
<1>2. /\ w \in Seq(Conns) /\ Len(w) = Len(o) - 1
      /\ \A i \in 1..(Len(o) - 1) : i < k => w[i] = o[i]
      /\ \A i \in 1..(Len(o) - 1) : i >= k => w[i] = o[i + 1]
  BY RemoveAtElements
<1>. HIDE DEF w
<1>3. /\ a \in Seq(Nat) /\ Len(a) = Len(o)
      /\ \A i \in 1..Len(o) : o[i] \in Conns /\ a[i] = q[o[i]]
  BY QueueBytesElements
<1>4. /\ r \in Seq(Nat) /\ Len(r) = Len(o) - 1
      /\ \A i \in 1..(Len(o) - 1) : r[i] = u[w[i]]
  <2>1. r \in Seq(Nat) /\ Len(r) = Len(w) /\ \A i \in 1..Len(w) : r[i] = u[w[i]]
    BY ZenonT(60), <1>1, <1>2, QueueBytesElements
  <2>. HIDE DEF r
  <2>. QED BY <1>2, <2>1
<1>5. ASSUME NEW i \in 1..Len(r), i < k PROVE r[i] = a[i]
  <2>1. i \in 1..Len(o) /\ i \in 1..(Len(o) - 1) /\ i # k
    BY SMTT(30), <1>4, <1>5
  <2>2. w[i] = o[i]
    BY <1>2, <1>5, <2>1
  <2>3. o[i] # o[k] /\ o[i] \in Conns
    BY <2>1
  <2>4. r[i] = u[w[i]] /\ a[i] = q[o[i]]
    BY <1>3, <1>4, <2>1
  <2>5. u[o[i]] = q[o[i]]
    BY <1>1, <2>3
  <2>. QED BY <2>2, <2>4, <2>5
<1>6. ASSUME NEW i \in 1..Len(r), i >= k PROVE r[i] = a[i + 1]
  <2>1. i + 1 \in 1..Len(o) /\ i \in 1..(Len(o) - 1) /\ i + 1 # k
    BY <1>4, <1>6
  <2>2. w[i] = o[i + 1]
    BY <1>2, <1>6, <2>1
  <2>3. o[i + 1] # o[k] /\ o[i + 1] \in Conns
    BY <2>1
  <2>4. r[i] = u[w[i]] /\ a[i + 1] = q[o[i + 1]]
    BY <1>3, <1>4, <2>1
  <2>5. u[o[i + 1]] = q[o[i + 1]]
    BY <1>1, <2>3
  <2>. QED BY <2>2, <2>4, <2>5
<1>7. SumsTo(a, t) /\ Len(r) = Len(a) - 1 /\ k \in 1..Len(a) /\ a[k] = q[o[k]]
  BY <1>3, <1>4
<1>. HIDE DEF a, r
<1>8. t - a[k] \in Nat /\ SumsTo(r, t - a[k])
  BY <1>3, <1>4, <1>5, <1>6, <1>7, SumsRemove
<1>. QED BY <1>7, <1>8 DEF r, u, w

-----------------------------------------------------------------------------
\* Frame numbers wrap around.
LEMMA SuccType ==
  ASSUME NEW n \in FrameNumbers
  PROVE  Succ(n) \in FrameNumbers /\ 0 \in FrameNumbers
BY LimitAssumption DEF Succ, FrameNumbers

\* The next frame offered goes to the end of the queue.
LEMMA PushInOrder ==
  ASSUME NEW s \in Seq(Frame), NEW f \in Frame, NEW h, NEW a,
         Consecutive(h, s, a), f.number = Succ(a)
  PROVE  Consecutive(h, Append(s, f), Succ(a))
<1>1. /\ Append(s, f) # <<>> /\ Len(Append(s, f)) = Len(s) + 1
      /\ \A i \in 1..Len(s) : Append(s, f)[i] = s[i]
      /\ Append(s, f)[Len(s) + 1] = f /\ Len(s) \in Nat
  BY AppendProperties
<1>2. CASE s = <<>>
  <2>1. h = a /\ Len(s) = 0
    BY <1>2 DEF Consecutive
  <2>. QED BY <1>1, <2>1 DEF Consecutive
<1>3. CASE s # <<>>
  <2>1. /\ s[1].number = Succ(h) /\ s[Len(s)].number = a
        /\ \A i \in 1..(Len(s) - 1) : s[i + 1].number = Succ(s[i].number)
        /\ Len(s) >= 1
    BY <1>3, EmptySeq DEF Consecutive
  <2>2. ASSUME NEW i \in 1..Len(s)
        PROVE  Append(s, f)[i + 1].number = Succ(Append(s, f)[i].number)
    <3>1. CASE i = Len(s)
      BY <3>1, <1>1, <2>1
    <3>2. CASE i # Len(s)
      <4>1. i \in 1..(Len(s) - 1) /\ i + 1 \in 1..Len(s)
        BY <3>2
      <4>. QED BY <4>1, <1>1, <2>1
    <3>. QED BY <3>1, <3>2
  <2>3. Append(s, f)[1].number = Succ(h)
    BY <1>1, <2>1
  <2>. QED BY <1>1, <2>2, <2>3 DEF Consecutive
<1>. QED BY <1>2, <1>3

\* The first frame of the queue is the next one to hand over.
LEMMA ShiftInOrder ==
  ASSUME NEW s \in Seq(Frame), s # <<>>, NEW h, NEW a, Consecutive(h, s, a)
  PROVE  Consecutive(Head(s).number, Tail(s), a)
<1>. DEFINE w == Tail(s)
<1>1. /\ w \in Seq(Frame) /\ Len(w) = Len(s) - 1
      /\ \A i \in 1..Len(w) : w[i] = s[i + 1]
      /\ Len(s) \in Nat \ {0} /\ Head(s) = s[1]
  BY HeadTailProperties, EmptySeq
<1>. SUFFICES Consecutive(Head(s).number, w, a)
  OBVIOUS
<1>. HIDE DEF w
<1>2. /\ s[Len(s)].number = a
      /\ \A i \in 1..(Len(s) - 1) : s[i + 1].number = Succ(s[i].number)
  BY DEF Consecutive
<1>3. CASE w = <<>>
  <2>1. Len(w) = 0
    BY <1>3, EmptySeq
  <2>2. Len(s) = 1
    BY <1>1, <2>1
  <2>. QED BY <1>1, <1>2, <1>3, <2>2 DEF Consecutive
<1>4. CASE w # <<>>
  <2>1. Len(w) >= 1
    BY <1>1, <1>4, EmptySeq
  <2>2. w[1].number = Succ(Head(s).number)
    BY <1>1, <1>2, <2>1
  <2>3. ASSUME NEW i \in 1..(Len(w) - 1)
        PROVE  w[i + 1].number = Succ(w[i].number)
    <3>1. /\ i \in 1..Len(w) /\ i + 1 \in 1..Len(w) /\ i + 1 \in 1..(Len(s) - 1)
      BY <1>1
    <3>2. w[i] = s[i + 1] /\ w[i + 1] = s[(i + 1) + 1]
      BY <1>1, <3>1
    <3>. QED BY <1>2, <3>1, <3>2
  <2>4. w[Len(w)].number = a
    <3>1. Len(w) \in 1..Len(w) /\ Len(w) + 1 = Len(s)
      BY <1>1, <2>1
    <3>2. w[Len(w)] = s[Len(w) + 1]
      BY <1>1, <3>1
    <3>. QED BY <1>2, <3>1, <3>2
  <2>. QED BY <1>4, <2>2, <2>3, <2>4 DEF Consecutive
<1>. QED BY <1>3, <1>4

-----------------------------------------------------------------------------
(***************************************************************************)
(* Facts of a state that satisfies the invariant.                          *)
(***************************************************************************)

\* A queue has bytes exactly while it has frames.
LEMMA BytesOfQueue ==
  ASSUME TypeOK, CountersExact, NEW c \in Conns
  PROVE  frames[c] = <<>> <=> queuedBytes[c] = 0
<1>1. /\ frames[c] \in Seq(Frame) /\ queuedBytes[c] \in Nat
      /\ SumsTo(FrameBytes(frames[c]), queuedBytes[c])
  BY DEF TypeOK, CountersExact
<1>2. FrameBytes(frames[c]) \in Seq(Nat \ {0}) /\ Len(FrameBytes(frames[c])) = Len(frames[c])
  BY <1>1, FrameBytesElements
<1>3. ASSUME frames[c] = <<>> PROVE queuedBytes[c] = 0
  <2>1. FrameBytes(frames[c]) = <<>>
    BY <1>2, <1>3, EmptySeq
  <2>. QED BY <1>1, <2>1, SumsEmpty
<1>4. ASSUME queuedBytes[c] = 0 PROVE frames[c] = <<>>
  <2>1. FrameBytes(frames[c]) = <<>>
    BY <1>1, <1>2, <1>4, SumsZero
  <2>2. Len(frames[c]) = 0
    BY <1>2, <2>1, EmptySeq
  <2>. QED BY <1>1, <2>2, EmptySeq
<1>. QED BY <1>3, <1>4

\* The total is zero exactly while the Map is empty.
LEMMA BytesOfAll ==
  ASSUME TypeOK, OrderOK, CountersExact
  PROVE  order = <<>> <=> totalQueuedBytes = 0
<1>1. /\ order \in Seq(Conns) /\ queuedBytes \in [Conns -> Nat] /\ totalQueuedBytes \in Nat
      /\ SumsTo(QueueBytes(order, queuedBytes), totalQueuedBytes)
  BY DEF TypeOK, CountersExact
<1>2. ASSUME order = <<>> PROVE totalQueuedBytes = 0
  <2>1. QueueBytes(order, queuedBytes) = <<>>
    BY <1>1, <1>2, QueueBytesElements, EmptySeq
  <2>. QED BY <1>1, <2>1, SumsEmpty
<1>3. ASSUME totalQueuedBytes = 0 PROVE order = <<>>
  <2>1. ASSUME NEW i \in 1..Len(order) PROVE queuedBytes[order[i]] # 0
    <3>1. order[i] \in Conns /\ i \in DOMAIN order
      BY <1>1
    <3>2. frames[order[i]] # <<>>
      BY <3>1 DEF OrderOK
    <3>. QED BY <3>1, <3>2, BytesOfQueue
  <2>. QED BY <1>1, <1>3, <2>1, NothingQueued
<1>. QED BY <1>2, <1>3

-----------------------------------------------------------------------------
(***************************************************************************)
(* dropQueue(), as enforceLimits() and removeConnection() use it.          *)
(***************************************************************************)
LEMMA DropQueueStep ==
  ASSUME TypeOK, OrderOK, CountersExact, PrefixDelivery,
         NEW i \in DOMAIN order, DropQueue(i)
  PROVE  /\ order' \in Seq(Conns)
         /\ frames' \in [Conns -> Seq(Frame)]
         /\ queuedBytes' \in [Conns -> Nat]
         /\ sentInRound' \in [Conns -> Nat]
         /\ totalQueuedBytes' \in Nat
         /\ accepted' \in [Conns -> FrameNumbers]
         /\ handed' \in [Conns -> FrameNumbers]
         /\ gap' \in SUBSET Conns
         /\ OrderOK'
         /\ CountersExact'
         /\ PrefixDelivery'
         /\ order[i] \in Conns
         /\ \A c \in Conns : queuedBytes'[c] = IF c = order[i] THEN 0 ELSE queuedBytes[c]
         /\ totalQueuedBytes' <= totalQueuedBytes
         /\ \A c : (\E j \in DOMAIN order' : order'[j] = c)
                     <=> c # order[i] /\ \E j \in DOMAIN order : order[j] = c
<1>. DEFINE c == order[i]
<1>1. /\ order \in Seq(Conns) /\ DOMAIN order = 1..Len(order) /\ i \in 1..Len(order)
      /\ c \in Conns
      /\ queuedBytes \in [Conns -> Nat] /\ totalQueuedBytes \in Nat
      /\ frames \in [Conns -> Seq(Frame)]
      /\ sentInRound \in [Conns -> Nat]
      /\ accepted \in [Conns -> FrameNumbers] /\ handed \in [Conns -> FrameNumbers]
      /\ gap \in SUBSET Conns
  BY SMTT(30) DEF TypeOK
<1>2. /\ order' = RemoveAt(order, i)
      /\ frames' = [frames EXCEPT ![c] = <<>>]
      /\ queuedBytes' = [queuedBytes EXCEPT ![c] = 0]
      /\ sentInRound' = [sentInRound EXCEPT ![c] = 0]
      /\ totalQueuedBytes' = totalQueuedBytes - queuedBytes[c]
      /\ gap' = gap \cup {c}
      /\ accepted' = [accepted EXCEPT ![c] = 0]
      /\ handed' = [handed EXCEPT ![c] = 0]
  BY DEF DropQueue
<1>. HIDE DEF c
<1>3. \A j, k \in 1..Len(order) : order[j] = order[k] => j = k
  <2>1. \A j, k \in DOMAIN order : order[j] = order[k] => j = k
    BY DEF OrderOK
  <2>2. DOMAIN order = 1..Len(order)
    BY <1>1
  <2>. QED BY <2>1, <2>2
<1>4. order' \in Seq(Conns) /\ DOMAIN order' = 1..Len(order')
  BY <1>1, <1>2, RemoveAtElements
<1>5. /\ \A j, k \in 1..Len(order') : order'[j] = order'[k] => j = k
      /\ \A d : (\E j \in 1..Len(order') : order'[j] = d)
                  <=> d # c /\ \E j \in 1..Len(order) : order[j] = d
  <2>1. order \in Seq(Conns) /\ i \in 1..Len(order) /\ c = order[i]
    BY <1>1 DEF c
  <2>2. /\ \A j, k \in 1..Len(RemoveAt(order, i)) :
             RemoveAt(order, i)[j] = RemoveAt(order, i)[k] => j = k
        /\ \A d : (\E j \in 1..Len(RemoveAt(order, i)) : RemoveAt(order, i)[j] = d)
                    <=> d # order[i] /\ \E j \in 1..Len(order) : order[j] = d
    BY <1>3, <2>1, RemoveAtDistinct
  <2>3. order' = RemoveAt(order, i)
    BY <1>2
  <2>. QED BY <2>1, <2>2, <2>3
<1>6. OrderOK'
  <2>1. ASSUME NEW d \in Conns
        PROVE  frames'[d] # <<>> <=> \E j \in DOMAIN order' : order'[j] = d
    <3>1. frames'[d] # <<>> <=> d # c /\ frames[d] # <<>>
      BY <1>1, <1>2
    <3>2. frames[d] # <<>> <=> \E j \in 1..Len(order) : order[j] = d
      BY <1>1 DEF OrderOK
    <3>. QED BY <1>4, <1>5, <3>1, <3>2
  <2>. QED BY <1>4, <1>5, <2>1 DEF OrderOK
<1>7. totalQueuedBytes' \in Nat /\ SumsTo(QueueBytes(order', queuedBytes'), totalQueuedBytes')
  <2>1. SumsTo(QueueBytes(order, queuedBytes), totalQueuedBytes)
    BY DEF CountersExact
  <2>. QED BY <1>1, <1>2, <1>3, <2>1, RemoveQueue DEF c
<1>8. CountersExact'
  <2>1. ASSUME NEW d \in Conns PROVE SumsTo(FrameBytes(frames'[d]), queuedBytes'[d])
    <3>1. CASE d = c
      <4>1. frames'[d] = <<>> /\ queuedBytes'[d] = 0
        BY <1>1, <1>2, <3>1
      <4>2. FrameBytes(<<>>) = <<>>
        BY FrameBytesElements, EmptySeq
      <4>. QED BY <4>1, <4>2, SumsEmpty
    <3>2. CASE d # c
      <4>1. frames'[d] = frames[d] /\ queuedBytes'[d] = queuedBytes[d]
        BY <1>1, <1>2, <3>2
      <4>. QED BY <4>1 DEF CountersExact
    <3>. QED BY <3>1, <3>2
  <2>. QED BY <1>7, <2>1 DEF CountersExact
<1>9. PrefixDelivery'
  <2>1. ASSUME NEW d \in Conns \ gap' PROVE Consecutive(handed'[d], frames'[d], accepted'[d])
    <3>1. d \in Conns \ gap /\ d # c
      BY <1>2
    <3>2. handed'[d] = handed[d] /\ frames'[d] = frames[d] /\ accepted'[d] = accepted[d]
      BY <1>1, <1>2, <3>1
    <3>. QED BY <3>1, <3>2 DEF PrefixDelivery
  <2>. QED BY <2>1 DEF PrefixDelivery
<1>10. 0 \in FrameNumbers
  BY LimitAssumption DEF FrameNumbers
<1>11. /\ frames' \in [Conns -> Seq(Frame)]
       /\ queuedBytes' \in [Conns -> Nat]
       /\ sentInRound' \in [Conns -> Nat]
       /\ accepted' \in [Conns -> FrameNumbers]
       /\ handed' \in [Conns -> FrameNumbers]
       /\ gap' \in SUBSET Conns
  <2>1. frames' \in [Conns -> Seq(Frame)]
    BY <1>1, <1>2
  <2>2. queuedBytes' \in [Conns -> Nat] /\ sentInRound' \in [Conns -> Nat]
    BY <1>1, <1>2
  <2>3. accepted' \in [Conns -> FrameNumbers] /\ handed' \in [Conns -> FrameNumbers]
    BY <1>1, <1>2, <1>10
  <2>. QED BY <1>1, <1>2, <2>1, <2>2, <2>3
<1>12. \A d \in Conns : queuedBytes'[d] = IF d = c THEN 0 ELSE queuedBytes[d]
  BY <1>1, <1>2
<1>13. totalQueuedBytes' <= totalQueuedBytes
  BY <1>1, <1>2
<1>. QED
  BY <1>1, <1>4, <1>5, <1>6, <1>7, <1>8, <1>9, <1>11, <1>12, <1>13 DEF c

-----------------------------------------------------------------------------
(***************************************************************************)
(* Every action preserves the invariant.                                   *)
(***************************************************************************)
LEMMA NothingToAdd == FrameBytes(<<>>) = <<>> /\ SumsTo(FrameBytes(<<>>), 0)
<1>1. FrameBytes(<<>>) = <<>>
  BY FrameBytesElements, EmptySeq
<1>. QED BY <1>1, SumsEmpty

\* An empty Map and empty queues: the start, and what close() leaves.
LEMMA EmptyScheduler ==
  ASSUME order = <<>>, frames = [c \in Conns |-> <<>>],
         queuedBytes = [c \in Conns |-> 0], totalQueuedBytes = 0
  PROVE  OrderOK /\ CountersExact
<1>1. DOMAIN order = {}
  BY EmptySeq, LenProperties
<1>2. OrderOK
  BY <1>1 DEF OrderOK
<1>3. SumsTo(QueueBytes(order, queuedBytes), totalQueuedBytes)
  <2>1. order \in Seq(Conns) /\ queuedBytes \in [Conns -> Nat] /\ Len(order) = 0
    BY EmptySeq
  <2>2. QueueBytes(order, queuedBytes) = <<>>
    BY <2>1, QueueBytesElements, EmptySeq
  <2>. QED BY <2>2, SumsEmpty
<1>4. \A c \in Conns : SumsTo(FrameBytes(frames[c]), queuedBytes[c])
  BY NothingToAdd
<1>. QED BY <1>2, <1>3, <1>4 DEF CountersExact

LEMMA InitInv == Init => IInv
<1>. SUFFICES ASSUME Init PROVE IInv
  OBVIOUS
<1>1. 0 \in FrameNumbers
  BY LimitAssumption DEF FrameNumbers
<1>2. TypeOK
  BY <1>1, EmptySeq DEF Init, TypeOK
<1>3. OrderOK /\ CountersExact
  BY EmptyScheduler DEF Init
<1>4. PrefixDelivery
  BY DEF Init, PrefixDelivery, Consecutive
<1>5. NothingStranded /\ ClosedIsEmpty
  BY DEF Init, NothingStranded, ClosedIsEmpty
<1>6. LimitsHold
  BY ProfileAssumption, LimitAssumption DEF Init, LimitsHold
<1>. QED BY <1>2, <1>3, <1>4, <1>5, <1>6 DEF IInv

LEMMA EnqueueOversizedInv ==
  ASSUME IInv, NEW c \in Conns, EnqueueOversized(c)
  PROVE  IInv'
<1>. USE DEF IInv, EnqueueOversized, Offer, queueVars
<1>1. NextNumber(c) \in FrameNumbers
  BY SuccType, LimitAssumption DEF TypeOK, NextNumber, FrameNumbers
<1>2. TypeOK'
  BY <1>1 DEF TypeOK
<1>3. OrderOK' /\ CountersExact'
  BY DEF OrderOK, CountersExact
<1>4. PrefixDelivery'
  <2>. SUFFICES ASSUME NEW d \in Conns \ gap'
                PROVE  Consecutive(handed'[d], frames'[d], accepted'[d])
    BY DEF PrefixDelivery
  <2>1. d \in Conns \ gap /\ accepted'[d] = accepted[d] /\ handed' = handed /\ frames' = frames
    BY DEF TypeOK
  <2>. QED BY <2>1 DEF PrefixDelivery
<1>5. NothingStranded' /\ LimitsHold' /\ ClosedIsEmpty'
  BY DEF NothingStranded, LimitsHold, ClosedIsEmpty
<1>. QED BY <1>2, <1>3, <1>4, <1>5

LEMMA EnqueueDirectInv ==
  ASSUME IInv, NEW c \in Conns, EnqueueDirect(c)
  PROVE  IInv'
<1>. USE DEF IInv, EnqueueDirect, Offer, queueVars
<1>1. NextNumber(c) \in FrameNumbers
  BY SuccType, LimitAssumption DEF TypeOK, NextNumber, FrameNumbers
<1>2. TypeOK'
  <2>1. PICK size \in FrameSizes : bufferedAmount' = bufferedAmount + size
    OBVIOUS
  <2>2. bufferedAmount' \in Nat
    BY <2>1, LimitAssumption DEF TypeOK
  <2>. QED BY <1>1, <2>2 DEF TypeOK
<1>3. OrderOK' /\ CountersExact'
  BY DEF OrderOK, CountersExact
<1>4. PrefixDelivery'
  <2>. SUFFICES ASSUME NEW d \in Conns \ gap'
                PROVE  Consecutive(handed'[d], frames'[d], accepted'[d])
    BY DEF PrefixDelivery
  <2>1. d \in Conns \ gap /\ frames' = frames
    OBVIOUS
  <2>2. Consecutive(handed[d], frames[d], accepted[d])
    BY <2>1 DEF PrefixDelivery
  <2>3. CASE d = c
    <3>1. order = <<>>
      BY BytesOfAll
    <3>2. DOMAIN order = {}
      BY <3>1, EmptySeq, LenProperties
    <3>3. frames[c] = <<>>
      BY <3>2 DEF OrderOK
    <3>4. handed'[c] = NextNumber(c) /\ accepted'[c] = NextNumber(c)
      BY DEF TypeOK
    <3>. QED BY <2>1, <2>3, <3>3, <3>4 DEF Consecutive
  <2>4. CASE d # c
    <3>1. handed'[d] = handed[d] /\ accepted'[d] = accepted[d]
      BY <2>4 DEF TypeOK
    <3>. QED BY <2>1, <2>2, <3>1
  <2>. QED BY <2>3, <2>4
<1>5. NothingStranded' /\ LimitsHold' /\ ClosedIsEmpty'
  BY DEF NothingStranded, LimitsHold, ClosedIsEmpty
<1>. QED BY <1>2, <1>3, <1>4, <1>5

LEMMA EnqueueQueuedInv ==
  ASSUME IInv, NEW c \in Conns, EnqueueQueued(c)
  PROVE  IInv'
<1>. DEFINE n == NextNumber(c)
<1>0. /\ TypeOK /\ OrderOK /\ CountersExact /\ PrefixDelivery /\ LimitsHold
      /\ pc = "idle" /\ socket = "open"
      /\ accepted' = [accepted EXCEPT ![c] = n]
      /\ order' = IF c \in Queued THEN order ELSE Append(order, c)
      /\ pc' = "connectionLimits" /\ caller' = c
      /\ UNCHANGED <<sentInRound, drainTimer, socket, bufferedAmount, handed, gap>>
  BY DEF IInv, EnqueueQueued, Offer
<1>1. PICK size \in FrameSizes :
        /\ frames' = [frames EXCEPT ![c] = Append(@, [number |-> n, byteLength |-> size])]
        /\ queuedBytes' = [queuedBytes EXCEPT ![c] = @ + size]
        /\ totalQueuedBytes' = totalQueuedBytes + size
  BY DEF EnqueueQueued
<1>. DEFINE f == [number |-> n, byteLength |-> size]
<1>2. n \in FrameNumbers
  BY <1>0, SuccType, LimitAssumption DEF TypeOK, NextNumber, FrameNumbers
<1>. HIDE DEF n
<1>3. f \in Frame /\ size \in Nat \ {0} /\ f.byteLength = size /\ f.number = n
  BY <1>2, LimitAssumption DEF Frame
<1>4. /\ order \in Seq(Conns) /\ DOMAIN order = 1..Len(order)
      /\ frames \in [Conns -> Seq(Frame)] /\ queuedBytes \in [Conns -> Nat]
      /\ totalQueuedBytes \in Nat /\ frames[c] \in Seq(Frame) /\ queuedBytes[c] \in Nat
  BY <1>0 DEF TypeOK
<1>5. c \in Queued <=> \E i \in 1..Len(order) : order[i] = c
  BY <1>4 DEF Queued
<1>6. c \in Queued <=> frames[c] # <<>>
  BY <1>0, <1>4, <1>5 DEF OrderOK
<1>7. frames' = [frames EXCEPT ![c] = Append(frames[c], f)]
  BY <1>1, <1>4
<1>. HIDE DEF f
<1>8. /\ Append(frames[c], f) \in Seq(Frame) /\ Append(frames[c], f) # <<>>
  BY SMTT(30), <1>3, <1>4, AppendProperties
<1>9. /\ frames'[c] = Append(frames[c], f)
      /\ \A d \in Conns : d # c => frames'[d] = frames[d]
      /\ frames' \in [Conns -> Seq(Frame)]
  BY <1>4, <1>7, <1>8
<1>10. /\ queuedBytes'[c] = queuedBytes[c] + size
       /\ \A d \in Conns : d # c => queuedBytes'[d] = queuedBytes[d]
       /\ queuedBytes' \in [Conns -> Nat]
       /\ queuedBytes' = [queuedBytes EXCEPT ![c] = queuedBytes[c] + size]
  BY <1>1, <1>3, <1>4
<1>11. order' \in Seq(Conns) /\ DOMAIN order' = 1..Len(order')
  <2>1. Append(order, c) \in Seq(Conns)
    BY <1>4, AppendProperties
  <2>. QED BY <1>0, <1>4, <2>1
<1>12. TypeOK'
  BY <1>0, <1>1, <1>2, <1>3, <1>4, <1>9, <1>10, <1>11 DEF TypeOK
<1>13. OrderOK' /\ SumsTo(QueueBytes(order', queuedBytes'), totalQueuedBytes')
  <2>0. /\ \A i, j \in 1..Len(order) : order[i] = order[j] => i = j
        /\ \A d \in Conns : frames[d] # <<>> <=> \E i \in 1..Len(order) : order[i] = d
        /\ SumsTo(QueueBytes(order, queuedBytes), totalQueuedBytes)
    BY ZenonT(60), <1>0, <1>4 DEF OrderOK, CountersExact
  <2>1. CASE c \in Queued
    <3>1. order' = order
      BY <1>0, <2>1
    <3>2. PICK k \in 1..Len(order) : order[k] = c
      BY <1>5, <2>1
    <3>3. frames'[c] # <<>> /\ frames[c] # <<>>
      BY <1>6, <1>8, <1>9, <2>1
    <3>4. OrderOK'
      BY <1>0, <1>9, <3>1, <3>3 DEF OrderOK
    <3>5. queuedBytes[c] + size \in Nat
      BY <1>3, <1>4
    <3>6. SumsTo(QueueBytes(order, [queuedBytes EXCEPT ![order[k]] = queuedBytes[c] + size]),
                 totalQueuedBytes - queuedBytes[order[k]] + (queuedBytes[c] + size))
      BY <1>4, <2>0, <3>5, ResizeQueue
    <3>7. totalQueuedBytes - queuedBytes[order[k]] + (queuedBytes[c] + size) = totalQueuedBytes'
      BY <1>1, <1>3, <1>4, <3>2
    <3>. QED BY <1>10, <3>1, <3>2, <3>4, <3>6, <3>7
  <2>2. CASE c \notin Queued
    <3>1. order' = Append(order, c)
      BY <1>0, <2>2
    <3>2. /\ Len(order') = Len(order) + 1 /\ Len(order) \in Nat
          /\ \A i \in 1..Len(order) : order'[i] = order[i]
          /\ order'[Len(order) + 1] = c
      BY <1>4, <3>1, AppendProperties
    <3>3. \A i \in 1..Len(order) : order[i] # c
      BY <1>5, <2>2
    <3>4. ASSUME NEW i \in 1..Len(order'), NEW j \in 1..Len(order'), order'[i] = order'[j]
          PROVE  i = j
      <4>1. i \in 1..Len(order) \/ i = Len(order) + 1
        BY <3>2
      <4>2. j \in 1..Len(order) \/ j = Len(order) + 1
        BY <3>2
      <4>. QED BY <2>0, <3>2, <3>3, <3>4, <4>1, <4>2
    <3>5. ASSUME NEW d \in Conns
          PROVE  frames'[d] # <<>> <=> \E i \in 1..Len(order') : order'[i] = d
      <4>1. (\E i \in 1..Len(order') : order'[i] = d)
              <=> d = c \/ \E i \in 1..Len(order) : order[i] = d
        <5>1. ASSUME NEW i \in 1..Len(order') PROVE i \in 1..Len(order) \/ i = Len(order) + 1
          BY <3>2
        <5>2. 1..Len(order) \subseteq 1..Len(order') /\ Len(order) + 1 \in 1..Len(order')
          BY <3>2
        <5>. QED BY <3>2, <5>1, <5>2
      <4>2. frames'[d] # <<>> <=> d = c \/ frames[d] # <<>>
        BY <1>8, <1>9
      <4>. QED BY <2>0, <4>1, <4>2
    <3>6. OrderOK'
      BY <1>11, <3>4, <3>5 DEF OrderOK
    <3>7. queuedBytes[c] = 0
      BY <1>0, <1>6, <2>2, BytesOfQueue
    <3>8. queuedBytes' = [queuedBytes EXCEPT ![c] = size]
      BY <1>3, <1>10, <3>7
    <3>9. SumsTo(QueueBytes(order', queuedBytes'), totalQueuedBytes + size)
      BY <1>3, <1>4, <2>0, <3>1, <3>3, <3>8, AddQueue
    <3>. QED BY <1>1, <3>6, <3>9
  <2>. QED BY <2>1, <2>2
<1>14. CountersExact'
  <2>1. ASSUME NEW d \in Conns PROVE SumsTo(FrameBytes(frames'[d]), queuedBytes'[d])
    <3>0. SumsTo(FrameBytes(frames[d]), queuedBytes[d])
      BY <1>0 DEF CountersExact
    <3>1. CASE d = c
      <4>1. SumsTo(FrameBytes(Append(frames[c], f)), queuedBytes[c] + f.byteLength)
        BY <1>3, <1>4, <3>0, <3>1, PushFrame
      <4>. QED BY <1>3, <1>9, <1>10, <3>1, <4>1
    <3>2. CASE d # c
      BY <1>9, <1>10, <3>0, <3>2
    <3>. QED BY <3>1, <3>2
  <2>. QED BY <1>13, <2>1 DEF CountersExact
<1>15. PrefixDelivery'
  <2>. SUFFICES ASSUME NEW d \in Conns \ gap'
                PROVE  Consecutive(handed'[d], frames'[d], accepted'[d])
    BY DEF PrefixDelivery
  <2>1. d \in Conns \ gap /\ Consecutive(handed[d], frames[d], accepted[d]) /\ handed' = handed
    BY <1>0 DEF PrefixDelivery
  <2>2. CASE d = c
    <3>1. n = Succ(accepted[c])
      BY <2>1, <2>2 DEF NextNumber, n
    <3>2. accepted'[c] = n
      BY <1>0 DEF TypeOK
    <3>3. Consecutive(handed[c], Append(frames[c], f), Succ(accepted[c]))
      BY <1>3, <1>4, <2>1, <2>2, <3>1, PushInOrder
    <3>. QED BY <1>9, <2>1, <2>2, <3>1, <3>2, <3>3
  <2>3. CASE d # c
    <3>1. accepted'[d] = accepted[d]
      BY <1>0, <2>3 DEF TypeOK
    <3>. QED BY <1>9, <2>1, <2>3, <3>1
  <2>. QED BY <2>2, <2>3
<1>16. LimitsHold'
  <2>1. ASSUME NEW d \in Conns \ {c} PROVE queuedBytes'[d] <= MaxQueuedBytes[d]
    BY <1>0, <1>10 DEF LimitsHold
  <2>. QED BY <1>0, <2>1 DEF LimitsHold
<1>17. NothingStranded' /\ ClosedIsEmpty'
  BY <1>0 DEF NothingStranded, ClosedIsEmpty
<1>. QED BY <1>12, <1>13, <1>14, <1>15, <1>16, <1>17 DEF IInv

LEMMA DropOverfullInv ==
  ASSUME IInv, DropOverfull
  PROVE  IInv'
<1>1. PICK i \in DOMAIN order : Overfull(i) /\ DropQueue(i)
  BY DEF DropOverfull
<1>2. /\ order' \in Seq(Conns)
      /\ frames' \in [Conns -> Seq(Frame)]
      /\ queuedBytes' \in [Conns -> Nat]
      /\ sentInRound' \in [Conns -> Nat]
      /\ totalQueuedBytes' \in Nat
      /\ accepted' \in [Conns -> FrameNumbers]
      /\ handed' \in [Conns -> FrameNumbers]
      /\ gap' \in SUBSET Conns
      /\ OrderOK' /\ CountersExact' /\ PrefixDelivery'
      /\ order[i] \in Conns
      /\ \A c \in Conns : queuedBytes'[c] = IF c = order[i] THEN 0 ELSE queuedBytes[c]
  BY <1>1, DropQueueStep DEF IInv
<1>3. /\ TypeOK /\ LimitsHold /\ ClosedIsEmpty /\ pc = "connectionLimits"
      /\ UNCHANGED <<drainTimer, pc, caller, socket, bufferedAmount>>
  BY DEF IInv, DropOverfull
<1>4. TypeOK'
  BY <1>2, <1>3 DEF TypeOK
<1>5. LimitsHold'
  <2>1. caller \in Conns /\ \A c \in Conns \ {caller} : queuedBytes[c] <= MaxQueuedBytes[c]
    BY <1>3 DEF LimitsHold
  <2>2. ASSUME NEW c \in Conns \ {caller} PROVE queuedBytes'[c] <= MaxQueuedBytes[c]
    <3>1. MaxQueuedBytes[c] \in Nat
      BY ProfileAssumption
    <3>2. queuedBytes'[c] = IF c = order[i] THEN 0 ELSE queuedBytes[c]
      BY <1>2
    <3>3. queuedBytes[c] <= MaxQueuedBytes[c]
      BY <2>1
    <3>. QED BY <3>1, <3>2, <3>3
  <2>. QED BY <1>3, <2>1, <2>2 DEF LimitsHold
<1>6. NothingStranded'
  BY <1>3 DEF NothingStranded
<1>7. ClosedIsEmpty'
  <2>1. order # <<>>
    BY EmptySeq, LenProperties
  <2>. QED BY <1>3, <2>1 DEF ClosedIsEmpty
<1>. QED BY <1>2, <1>4, <1>5, <1>6, <1>7 DEF IInv

LEMMA ConnectionsWithinLimitsInv ==
  ASSUME IInv, ConnectionsWithinLimits
  PROVE  IInv'
<1>. USE DEF IInv, ConnectionsWithinLimits, queueVars, historyVars
<1>1. TypeOK'
  BY DEF TypeOK
<1>2. OrderOK' /\ CountersExact' /\ PrefixDelivery'
  BY DEF OrderOK, CountersExact, PrefixDelivery
<1>3. ASSUME NEW c \in Conns PROVE queuedBytes[c] <= MaxQueuedBytes[c]
  <2>0. queuedBytes[c] \in Nat /\ MaxQueuedBytes[c] \in Nat
    BY ProfileAssumption DEF TypeOK
  <2>1. CASE frames[c] = <<>>
    <3>1. queuedBytes[c] = 0
      BY <2>1, BytesOfQueue
    <3>. QED BY <2>0, <3>1
  <2>2. CASE frames[c] # <<>>
    <3>1. PICK i \in DOMAIN order : order[i] = c
      BY <2>2 DEF OrderOK
    <3>2. ~ (queuedBytes[c] > MaxQueuedBytes[c])
      BY <3>1 DEF Overfull
    <3>. QED BY <2>0, <3>2
  <2>. QED BY <2>1, <2>2
<1>4. LimitsHold'
  BY <1>3 DEF LimitsHold
<1>5. NothingStranded' /\ ClosedIsEmpty'
  BY DEF NothingStranded, ClosedIsEmpty
<1>. QED BY <1>1, <1>2, <1>4, <1>5

LEMMA DropLargestInv ==
  ASSUME IInv, DropLargest
  PROVE  IInv'
<1>1. PICK i \in DOMAIN order : IsLargest(i) /\ DropQueue(i)
  BY DEF DropLargest
<1>2. /\ order' \in Seq(Conns)
      /\ frames' \in [Conns -> Seq(Frame)]
      /\ queuedBytes' \in [Conns -> Nat]
      /\ sentInRound' \in [Conns -> Nat]
      /\ totalQueuedBytes' \in Nat
      /\ accepted' \in [Conns -> FrameNumbers]
      /\ handed' \in [Conns -> FrameNumbers]
      /\ gap' \in SUBSET Conns
      /\ OrderOK' /\ CountersExact' /\ PrefixDelivery'
      /\ order[i] \in Conns
      /\ \A c \in Conns : queuedBytes'[c] = IF c = order[i] THEN 0 ELSE queuedBytes[c]
  BY <1>1, DropQueueStep DEF IInv
<1>3. /\ TypeOK /\ LimitsHold /\ ClosedIsEmpty /\ pc = "totalLimit"
      /\ UNCHANGED <<drainTimer, pc, caller, socket, bufferedAmount>>
  BY DEF IInv, DropLargest
<1>4. TypeOK'
  BY <1>2, <1>3 DEF TypeOK
<1>5. LimitsHold'
  <2>1. ASSUME NEW c \in Conns PROVE queuedBytes'[c] <= MaxQueuedBytes[c]
    <3>1. MaxQueuedBytes[c] \in Nat /\ queuedBytes[c] <= MaxQueuedBytes[c]
      BY <1>3, ProfileAssumption DEF LimitsHold
    <3>2. queuedBytes'[c] = IF c = order[i] THEN 0 ELSE queuedBytes[c]
      BY <1>2
    <3>. QED BY <3>1, <3>2
  <2>. QED BY <1>3, <2>1 DEF LimitsHold
<1>6. NothingStranded'
  BY <1>3 DEF NothingStranded
<1>7. ClosedIsEmpty'
  <2>1. order # <<>>
    BY EmptySeq, LenProperties
  <2>. QED BY <1>3, <2>1 DEF ClosedIsEmpty
<1>. QED BY <1>2, <1>4, <1>5, <1>6, <1>7 DEF IInv

LEMMA ScheduleDrainInv ==
  ASSUME IInv, ScheduleDrain
  PROVE  IInv'
<1>. USE DEF IInv, ScheduleDrain, queueVars, historyVars
<1>1. TypeOK'
  BY DEF TypeOK
<1>2. OrderOK' /\ CountersExact' /\ PrefixDelivery'
  BY DEF OrderOK, CountersExact, PrefixDelivery
<1>3. totalQueuedBytes <= TotalLimit
  <2>1. totalQueuedBytes \in Nat /\ TotalLimit \in Nat
    BY LimitAssumption DEF TypeOK
  <2>2. order = <<>> => totalQueuedBytes = 0
    BY BytesOfAll
  <2>. QED BY <2>1, <2>2 DEF OverTotal
<1>4. LimitsHold'
  BY <1>3 DEF LimitsHold
<1>5. NothingStranded' /\ ClosedIsEmpty'
  BY DEF NothingStranded, ClosedIsEmpty
<1>. QED BY <1>1, <1>2, <1>4, <1>5

LEMMA DrainTimerFiresInv ==
  ASSUME IInv, DrainTimerFires
  PROVE  IInv'
<1>. USE DEF IInv, DrainTimerFires, queueVars, historyVars
<1>1. TypeOK'
  BY DEF TypeOK
<1>2. OrderOK' /\ CountersExact' /\ PrefixDelivery'
  BY DEF OrderOK, CountersExact, PrefixDelivery
<1>3. LimitsHold' /\ NothingStranded' /\ ClosedIsEmpty'
  BY DEF LimitsHold, NothingStranded, ClosedIsEmpty
<1>. QED BY <1>1, <1>2, <1>3

LEMMA DrainEndInv ==
  ASSUME IInv, DrainEnd
  PROVE  IInv'
<1>. USE DEF IInv, DrainEnd, historyVars
<1>1. TypeOK'
  BY DEF TypeOK
<1>2. OrderOK' /\ CountersExact' /\ PrefixDelivery'
  BY DEF OrderOK, CountersExact, PrefixDelivery
<1>3. NothingStranded'
  <2>1. order # <<>> => totalQueuedBytes # 0
    BY BytesOfAll
  <2>2. totalQueuedBytes \in Nat
    BY DEF TypeOK
  <2>3. CASE order = <<>>
    BY <2>3 DEF NothingStranded
  <2>4. CASE order # <<>>
    <3>1. (totalQueuedBytes > 0) = TRUE
      BY <2>1, <2>2, <2>4
    <3>2. drainTimer' = TRUE
      BY <3>1
    <3>. QED BY <3>2 DEF NothingStranded
  <2>. QED BY <2>3, <2>4
<1>4. LimitsHold' /\ ClosedIsEmpty'
  BY DEF LimitsHold, ClosedIsEmpty
<1>. QED BY <1>1, <1>2, <1>3, <1>4

LEMMA RemoveConnectionInv ==
  ASSUME IInv, NEW d \in Conns, RemoveConnection(d)
  PROVE  IInv'
<1>1. PICK i \in DOMAIN order : order[i] = d /\ DropQueue(i)
  BY DEF RemoveConnection
<1>2. /\ order' \in Seq(Conns)
      /\ frames' \in [Conns -> Seq(Frame)]
      /\ queuedBytes' \in [Conns -> Nat]
      /\ sentInRound' \in [Conns -> Nat]
      /\ totalQueuedBytes' \in Nat
      /\ accepted' \in [Conns -> FrameNumbers]
      /\ handed' \in [Conns -> FrameNumbers]
      /\ gap' \in SUBSET Conns
      /\ OrderOK' /\ CountersExact' /\ PrefixDelivery'
      /\ order[i] \in Conns
      /\ \A c \in Conns : queuedBytes'[c] = IF c = order[i] THEN 0 ELSE queuedBytes[c]
      /\ totalQueuedBytes' <= totalQueuedBytes
  BY <1>1, DropQueueStep DEF IInv
<1>3. /\ TypeOK /\ LimitsHold /\ ClosedIsEmpty /\ NothingStranded /\ pc = "idle"
      /\ UNCHANGED <<drainTimer, pc, caller, socket, bufferedAmount>>
  BY DEF IInv, RemoveConnection
<1>4. TypeOK'
  BY <1>2, <1>3 DEF TypeOK
<1>5. LimitsHold'
  <2>1. ASSUME NEW c \in Conns PROVE queuedBytes'[c] <= MaxQueuedBytes[c]
    <3>1. MaxQueuedBytes[c] \in Nat /\ queuedBytes[c] <= MaxQueuedBytes[c]
      BY <1>3, ProfileAssumption DEF LimitsHold
    <3>2. queuedBytes'[c] = IF c = order[i] THEN 0 ELSE queuedBytes[c]
      BY <1>2
    <3>. QED BY <3>1, <3>2
  <2>2. totalQueuedBytes' <= TotalLimit
    <3>1. totalQueuedBytes \in Nat /\ totalQueuedBytes <= TotalLimit
      BY <1>3 DEF LimitsHold, TypeOK
    <3>. QED BY <1>2, <3>1, LimitAssumption
  <2>. QED BY <1>3, <2>1, <2>2 DEF LimitsHold
<1>6. order # <<>>
  BY EmptySeq, LenProperties
<1>7. NothingStranded'
  BY <1>3, <1>6 DEF NothingStranded
<1>8. ClosedIsEmpty'
  BY <1>3, <1>6 DEF ClosedIsEmpty
<1>. QED BY <1>2, <1>4, <1>5, <1>7, <1>8 DEF IInv

LEMMA FlushInv ==
  ASSUME IInv, Flush
  PROVE  IInv'
<1>. USE DEF IInv, Flush, queueVars, historyVars
<1>1. TypeOK'
  BY DEF TypeOK
<1>2. OrderOK' /\ CountersExact' /\ PrefixDelivery'
  BY DEF OrderOK, CountersExact, PrefixDelivery
<1>3. LimitsHold' /\ NothingStranded' /\ ClosedIsEmpty'
  BY DEF LimitsHold, NothingStranded, ClosedIsEmpty
<1>. QED BY <1>1, <1>2, <1>3

LEMMA SocketClosesInv ==
  ASSUME IInv, SocketCloses
  PROVE  IInv'
<1>. USE DEF IInv, SocketCloses, queueVars, historyVars
<1>1. TypeOK'
  BY DEF TypeOK
<1>2. OrderOK' /\ CountersExact' /\ PrefixDelivery'
  BY DEF OrderOK, CountersExact, PrefixDelivery
<1>3. LimitsHold' /\ NothingStranded' /\ ClosedIsEmpty'
  BY DEF LimitsHold, NothingStranded, ClosedIsEmpty
<1>. QED BY <1>1, <1>2, <1>3

LEMMA CloseInv ==
  ASSUME IInv, Close
  PROVE  IInv'
<1>. USE DEF IInv, Close
<1>1. 0 \in FrameNumbers
  BY LimitAssumption DEF FrameNumbers
<1>2. TypeOK'
  BY <1>1, EmptySeq DEF TypeOK
<1>3. OrderOK' /\ CountersExact'
  <2>1. DOMAIN order' = {}
    BY EmptySeq, LenProperties
  <2>2. OrderOK'
    BY <2>1 DEF OrderOK
  <2>3. SumsTo(QueueBytes(order', queuedBytes'), totalQueuedBytes')
    <3>1. order' \in Seq(Conns) /\ queuedBytes' \in [Conns -> Nat] /\ Len(order') = 0
      BY EmptySeq
    <3>2. QueueBytes(order', queuedBytes') = <<>>
      BY <3>1, QueueBytesElements, EmptySeq
    <3>. QED BY <3>2, SumsEmpty
  <2>4. \A c \in Conns : SumsTo(FrameBytes(frames'[c]), queuedBytes'[c])
    BY NothingToAdd
  <2>. QED BY <2>2, <2>3, <2>4 DEF CountersExact
<1>4. PrefixDelivery'
  BY DEF PrefixDelivery
<1>5. NothingStranded' /\ ClosedIsEmpty'
  BY DEF NothingStranded, ClosedIsEmpty
<1>6. LimitsHold'
  BY ProfileAssumption, LimitAssumption DEF LimitsHold
<1>. QED BY <1>2, <1>3, <1>4, <1>5, <1>6

LEMMA NewConnectionInv ==
  ASSUME IInv, NEW c \in Conns, NewConnection(c)
  PROVE  IInv'
<1>. USE DEF IInv, NewConnection, queueVars
<1>1. 0 \in FrameNumbers
  BY LimitAssumption DEF FrameNumbers
<1>2. TypeOK'
  BY <1>1 DEF TypeOK
<1>3. OrderOK' /\ CountersExact'
  BY DEF OrderOK, CountersExact
<1>4. PrefixDelivery'
  <2>. SUFFICES ASSUME NEW d \in Conns \ gap'
                PROVE  Consecutive(handed'[d], frames'[d], accepted'[d])
    BY DEF PrefixDelivery
  <2>1. CASE d = c
    <3>1. frames[c] = <<>>
      BY DEF OrderOK, Queued
    <3>2. handed'[c] = 0 /\ accepted'[c] = 0 /\ frames' = frames
      BY DEF TypeOK
    <3>. QED BY <2>1, <3>1, <3>2 DEF Consecutive
  <2>2. CASE d # c
    <3>1. d \in Conns \ gap /\ handed'[d] = handed[d] /\ accepted'[d] = accepted[d]
          /\ frames' = frames
      BY <2>2 DEF TypeOK
    <3>. QED BY <3>1 DEF PrefixDelivery
  <2>. QED BY <2>1, <2>2
<1>5. NothingStranded' /\ LimitsHold' /\ ClosedIsEmpty'
  BY DEF NothingStranded, LimitsHold, ClosedIsEmpty
<1>. QED BY <1>2, <1>3, <1>4, <1>5

LEMMA ReconnectInv ==
  ASSUME IInv, Reconnect
  PROVE  IInv'
<1>. USE DEF IInv, Reconnect, queueVars
<1>1. TypeOK'
  BY DEF TypeOK
<1>2. OrderOK' /\ CountersExact'
  BY DEF OrderOK, CountersExact
<1>3. PrefixDelivery'
  <2>. SUFFICES ASSUME NEW d \in Conns
                PROVE  Consecutive(handed'[d], frames'[d], accepted'[d])
    BY DEF PrefixDelivery
  <2>1. DOMAIN order = {}
    BY EmptySeq, LenProperties DEF ClosedIsEmpty
  <2>2. frames[d] = <<>>
    BY <2>1 DEF OrderOK
  <2>3. handed'[d] = 0 /\ accepted'[d] = 0 /\ frames' = frames
    BY DEF ClosedIsEmpty
  <2>. QED BY <2>2, <2>3 DEF Consecutive
<1>4. NothingStranded' /\ LimitsHold' /\ ClosedIsEmpty'
  BY DEF NothingStranded, LimitsHold, ClosedIsEmpty
<1>. QED BY <1>1, <1>2, <1>3, <1>4

LEMMA DrainSendInv ==
  ASSUME IInv, DrainSend
  PROVE  IInv'
<1>0. /\ TypeOK /\ OrderOK /\ CountersExact /\ PrefixDelivery /\ LimitsHold /\ ClosedIsEmpty
      /\ pc = "drain" /\ socket = "open"
      /\ UNCHANGED <<drainTimer, pc, caller, socket, accepted, gap>>
  BY DEF IInv, DrainSend, CanSendFromQueue
<1>1. PICK k \in DOMAIN order :
        /\ frames' = [frames EXCEPT ![order[k]] = Tail(@)]
        /\ queuedBytes' = [queuedBytes EXCEPT ![order[k]] =
                             @ - Head(frames[order[k]]).byteLength]
        /\ totalQueuedBytes' = totalQueuedBytes - Head(frames[order[k]]).byteLength
        /\ order' = IF Len(frames[order[k]]) = 1 THEN RemoveAt(order, k) ELSE order
        /\ sentInRound' = [sentInRound EXCEPT ![order[k]] =
                             IF Len(frames[order[k]]) = 1 THEN 0 ELSE @ + 1]
        /\ bufferedAmount' = bufferedAmount + Head(frames[order[k]]).byteLength
        /\ handed' = [handed EXCEPT ![order[k]] = Head(frames[order[k]]).number]
  BY DEF DrainSend
<1>. DEFINE c == order[k]
            s == frames[c]
            b == Head(s).byteLength
<1>2. /\ order \in Seq(Conns) /\ DOMAIN order = 1..Len(order) /\ k \in 1..Len(order)
      /\ c \in Conns /\ frames \in [Conns -> Seq(Frame)] /\ s \in Seq(Frame)
      /\ queuedBytes \in [Conns -> Nat] /\ queuedBytes[c] \in Nat /\ totalQueuedBytes \in Nat
      /\ sentInRound \in [Conns -> Nat] /\ bufferedAmount \in Nat
      /\ handed \in [Conns -> FrameNumbers]
  BY SMTT(30), <1>0 DEF TypeOK
<1>3. /\ \A i, j \in 1..Len(order) : order[i] = order[j] => i = j
      /\ \A d \in Conns : frames[d] # <<>> <=> \E i \in 1..Len(order) : order[i] = d
      /\ SumsTo(QueueBytes(order, queuedBytes), totalQueuedBytes)
      /\ \A d \in Conns : SumsTo(FrameBytes(frames[d]), queuedBytes[d])
  BY ZenonT(60), <1>0, <1>2 DEF OrderOK, CountersExact
<1>4. s # <<>>
  BY <1>2, <1>3
<1>5. /\ Head(s) \in Frame /\ Tail(s) \in Seq(Frame) /\ Len(Tail(s)) = Len(s) - 1
      /\ Len(s) \in Nat \ {0}
      /\ b \in Nat \ {0} /\ Head(s).number \in FrameNumbers
  <2>1. /\ Head(s) \in Frame /\ Tail(s) \in Seq(Frame) /\ Len(Tail(s)) = Len(s) - 1
        /\ Len(s) \in Nat \ {0}
    BY <1>2, <1>4, HeadTailProperties, EmptySeq
  <2>. QED BY <2>1, LimitAssumption DEF Frame
<1>6. queuedBytes[c] - b \in Nat /\ SumsTo(FrameBytes(Tail(s)), queuedBytes[c] - b)
  BY <1>2, <1>3, <1>4, ShiftFrame
<1>7. /\ frames' = [frames EXCEPT ![c] = Tail(s)]
      /\ queuedBytes' = [queuedBytes EXCEPT ![c] = queuedBytes[c] - b]
      /\ totalQueuedBytes' = totalQueuedBytes - b
      /\ order' = IF Len(s) = 1 THEN RemoveAt(order, k) ELSE order
      /\ sentInRound' = [sentInRound EXCEPT ![c] = IF Len(s) = 1 THEN 0 ELSE sentInRound[c] + 1]
      /\ bufferedAmount' = bufferedAmount + b
      /\ handed' = [handed EXCEPT ![c] = Head(s).number]
  BY <1>1, <1>2
<1>8. c = order[k] /\ s = frames[c]
  OBVIOUS
<1>9. PrefixDelivery'
  <2>. SUFFICES ASSUME NEW d \in Conns \ gap'
                PROVE  Consecutive(handed'[d], frames'[d], accepted'[d])
    BY DEF PrefixDelivery
  <2>1. Consecutive(handed[d], frames[d], accepted[d]) /\ accepted' = accepted
    BY <1>0 DEF PrefixDelivery
  <2>2. CASE d = c
    <3>1. Consecutive(Head(s).number, Tail(s), accepted[c])
      BY <1>2, <1>4, <2>1, <2>2, ShiftInOrder
    <3>2. handed'[c] = Head(s).number /\ frames'[c] = Tail(s)
      BY <1>2, <1>7
    <3>. QED BY <2>1, <2>2, <3>1, <3>2
  <2>3. CASE d # c
    <3>1. handed'[d] = handed[d] /\ frames'[d] = frames[d]
      BY <1>2, <1>7, <2>3
    <3>. QED BY <2>1, <3>1
  <2>. QED BY <2>2, <2>3
<1>. HIDE DEF c, s, b
<1>10. /\ frames'[c] = Tail(s) /\ \A d \in Conns : d # c => frames'[d] = frames[d]
       /\ frames' \in [Conns -> Seq(Frame)]
  BY <1>2, <1>5, <1>7
<1>11. /\ queuedBytes'[c] = queuedBytes[c] - b
       /\ \A d \in Conns : d # c => queuedBytes'[d] = queuedBytes[d]
       /\ queuedBytes' \in [Conns -> Nat]
  BY <1>2, <1>6, <1>7
<1>12. ASSUME NEW d \in Conns PROVE SumsTo(FrameBytes(frames'[d]), queuedBytes'[d])
  <2>1. CASE d = c
    BY <1>6, <1>10, <1>11, <2>1
  <2>2. CASE d # c
    BY <1>3, <1>10, <1>11, <2>2
  <2>. QED BY <2>1, <2>2
<1>13. /\ order' \in Seq(Conns) /\ totalQueuedBytes' \in Nat /\ OrderOK'
       /\ SumsTo(QueueBytes(order', queuedBytes'), totalQueuedBytes')
  <2>1. CASE Len(s) = 1
    <3>1. order' = RemoveAt(order, k)
      BY <1>7, <2>1
    <3>2. order' \in Seq(Conns) /\ DOMAIN order' = 1..Len(order')
      BY <1>2, <3>1, RemoveAtElements
    <3>3. /\ \A i, j \in 1..Len(order') : order'[i] = order'[j] => i = j
          /\ \A d : (\E j \in 1..Len(order') : order'[j] = d)
                      <=> d # order[k] /\ \E j \in 1..Len(order) : order[j] = d
      <4>1. /\ \A i, j \in 1..Len(RemoveAt(order, k)) :
                 RemoveAt(order, k)[i] = RemoveAt(order, k)[j] => i = j
            /\ \A d : (\E j \in 1..Len(RemoveAt(order, k)) : RemoveAt(order, k)[j] = d)
                        <=> d # order[k] /\ \E j \in 1..Len(order) : order[j] = d
        BY <1>2, <1>3, RemoveAtDistinct
      <4>. QED BY <3>1, <4>1
    <3>4. Len(Tail(s)) = 0
      BY <1>5, <2>1
    <3>5. Tail(s) = <<>>
      BY <1>5, <3>4, EmptySeq
    <3>6. queuedBytes[c] - b = 0
      <4>1. FrameBytes(Tail(s)) = <<>>
        BY <3>5, NothingToAdd
      <4>. QED BY <1>6, <4>1, SumsEmpty
    <3>7. queuedBytes[c] = b
      BY <1>2, <1>5, <3>6
    <3>8. ASSUME NEW d \in Conns
          PROVE  frames'[d] # <<>> <=> \E j \in DOMAIN order' : order'[j] = d
      <4>1. frames'[d] # <<>> <=> d # c /\ frames[d] # <<>>
        BY <1>10, <3>5
      <4>. QED BY <1>3, <1>8, <3>2, <3>3, <4>1
    <3>9. OrderOK'
      BY <3>2, <3>3, <3>8 DEF OrderOK
    <3>10. /\ totalQueuedBytes - queuedBytes[order[k]] \in Nat
           /\ SumsTo(QueueBytes(RemoveAt(order, k),
                                [queuedBytes EXCEPT ![order[k]] = queuedBytes[c] - b]),
                     totalQueuedBytes - queuedBytes[order[k]])
      BY <1>2, <1>3, <1>6, RemoveQueue
    <3>. QED BY <1>7, <1>8, <3>1, <3>2, <3>7, <3>9, <3>10
  <2>2. CASE Len(s) # 1
    <3>1. order' = order
      BY <1>7, <2>2
    <3>2. Tail(s) # <<>> /\ s # <<>>
      <4>1. Len(Tail(s)) # 0
        BY <1>5, <2>2
      <4>. QED BY <1>4, <4>1, EmptySeq
    <3>3. OrderOK'
      BY <1>0, <1>8, <1>10, <3>1, <3>2 DEF OrderOK
    <3>4. /\ totalQueuedBytes - queuedBytes[order[k]] + (queuedBytes[c] - b) \in Nat
          /\ SumsTo(QueueBytes(order, [queuedBytes EXCEPT ![order[k]] = queuedBytes[c] - b]),
                    totalQueuedBytes - queuedBytes[order[k]] + (queuedBytes[c] - b))
      BY <1>2, <1>3, <1>6, ResizeQueue
    <3>5. totalQueuedBytes - queuedBytes[order[k]] + (queuedBytes[c] - b) = totalQueuedBytes - b
      BY <1>2, <1>5, <1>8
    <3>. QED BY <1>2, <1>7, <1>8, <3>1, <3>3, <3>4, <3>5
  <2>. QED BY <2>1, <2>2
<1>14. CountersExact'
  BY <1>12, <1>13 DEF CountersExact
<1>15. TypeOK'
  <2>1. sentInRound' \in [Conns -> Nat] /\ handed' \in [Conns -> FrameNumbers]
    <3>1. (IF Len(s) = 1 THEN 0 ELSE sentInRound[c] + 1) \in Nat
      BY SMTT(30), <1>2
    <3>. QED BY <1>2, <1>5, <1>7, <3>1
  <2>2. bufferedAmount' \in Nat
    BY <1>2, <1>5, <1>7
  <2>. QED BY <1>0, <1>10, <1>11, <1>13, <2>1, <2>2 DEF TypeOK
<1>16. LimitsHold'
  <2>1. ASSUME NEW d \in Conns PROVE queuedBytes'[d] <= MaxQueuedBytes[d]
    <3>1. queuedBytes[d] <= MaxQueuedBytes[d] /\ MaxQueuedBytes[d] \in Nat /\ queuedBytes[d] \in Nat
      BY <1>0, <1>2, ProfileAssumption DEF LimitsHold
    <3>2. CASE d = c
      BY <1>5, <1>11, <3>1, <3>2
    <3>3. CASE d # c
      BY <1>11, <3>1, <3>3
    <3>. QED BY <3>2, <3>3
  <2>2. totalQueuedBytes' <= TotalLimit
    <3>1. totalQueuedBytes <= TotalLimit
      BY <1>0 DEF LimitsHold
    <3>. QED BY <1>2, <1>5, <1>7, <3>1, LimitAssumption
  <2>. QED BY <1>0, <2>1, <2>2 DEF LimitsHold
<1>17. NothingStranded' /\ ClosedIsEmpty'
  BY <1>0 DEF NothingStranded, ClosedIsEmpty
<1>. QED BY <1>9, <1>13, <1>14, <1>15, <1>16, <1>17 DEF IInv

-----------------------------------------------------------------------------
LEMMA NextInv == IInv /\ [Next]_vars => IInv'
<1>. SUFFICES ASSUME IInv, [Next]_vars PROVE IInv'
  OBVIOUS
<1>1. CASE \E c \in Conns : Enqueue(c) \/ RemoveConnection(c) \/ NewConnection(c)
  BY <1>1, EnqueueOversizedInv, EnqueueDirectInv, EnqueueQueuedInv,
     RemoveConnectionInv, NewConnectionInv DEF Enqueue
<1>2. CASE EnforceLimits
  BY <1>2, DropOverfullInv, ConnectionsWithinLimitsInv, DropLargestInv, ScheduleDrainInv
     DEF EnforceLimits
<1>3. CASE DrainNow
  BY <1>3, DrainTimerFiresInv, DrainSendInv, DrainEndInv DEF DrainNow
<1>4. CASE Flush \/ SocketCloses \/ Close \/ Reconnect
  BY <1>4, FlushInv, SocketClosesInv, CloseInv, ReconnectInv
<1>5. CASE UNCHANGED vars
  BY <1>5 DEF IInv, TypeOK, OrderOK, CountersExact, PrefixDelivery, NothingStranded,
              LimitsHold, ClosedIsEmpty, vars, queueVars, historyVars
<1>. QED BY <1>1, <1>2, <1>3, <1>4, <1>5 DEF Next

\* The invariant of the scheduler.
THEOREM Invariance == Spec => []IInv
<1>. QED BY InitInv, NextInv, PTL DEF Spec

\* Every variable keeps its type; in particular no counter ever goes negative.
THEOREM TypeCorrect == Spec => []TypeOK
<1>1. IInv => TypeOK
  BY DEF IInv
<1>. QED BY <1>1, Invariance, PTL

\* The running counters of the scheduler are exact (index.ts:278-284, 324-326, 368-379).
THEOREM CountersCorrect == Spec => []CountersExact
<1>1. IInv => CountersExact
  BY DEF IInv
<1>. QED BY <1>1, Invariance, PTL

\* A connection that has lost no frame has its frames handed to the socket in the
\* order they were offered, with none skipped or repeated.
THEOREM PrefixCorrect == Spec => []PrefixDelivery
<1>1. IInv => PrefixDelivery
  BY DEF IInv
<1>. QED BY <1>1, Invariance, PTL

\* Frames never wait without a drain timer (index.ts:254, 292-294).
THEOREM NothingStrandedCorrect == Spec => []NothingStranded
<1>1. IInv => NothingStranded
  BY DEF IInv
<1>. QED BY <1>1, Invariance, PTL

\* Both limits hold whenever no handler runs (index.ts:329-346).
THEOREM LimitsCorrect == Spec => []WithinLimits
<1>1. IInv => WithinLimits
  BY DEF IInv, LimitsHold, WithinLimits
<1>. QED BY <1>1, Invariance, PTL

\* An overflow closes only the route that overflows, and a bulk one before an
\* interactive one when the total is exceeded (index.ts:329-346, 362-366).
THEOREM VictimCorrect == Spec => OverflowVictim
<1>. DEFINE Left == Queued \ {order'[i] : i \in DOMAIN order'}
            Victim == \A c \in Left :
                        /\ pc = "connectionLimits" => c = caller
                        /\ pc = "totalLimit" /\ c \notin Bulk => Queued \cap Bulk = {}
<1>1. ASSUME IInv, [Next]_vars PROVE [Victim]_vars
  <2>1. ASSUME DropOverfull PROVE Victim
    <3>1. PICK i \in DOMAIN order : Overfull(i) /\ DropQueue(i)
      BY <2>1 DEF DropOverfull
    <3>2. /\ order[i] \in Conns
          /\ \A c : (\E j \in DOMAIN order' : order'[j] = c)
                      <=> c # order[i] /\ \E j \in DOMAIN order : order[j] = c
      BY <1>1, <3>1, DropQueueStep DEF IInv
    <3>3. ASSUME NEW c \in Left PROVE c = order[i]
      BY <3>2 DEF Queued
    <3>4. pc = "connectionLimits"
      BY <2>1 DEF DropOverfull
    <3>5. order[i] = caller
      <4>1. queuedBytes[order[i]] \in Nat /\ MaxQueuedBytes[order[i]] \in Nat
        BY <1>1, <3>2, ProfileAssumption DEF IInv, TypeOK
      <4>. QED BY <1>1, <3>1, <3>2, <3>4, <4>1 DEF IInv, LimitsHold, Overfull
    <3>. QED BY <3>3, <3>4, <3>5
  <2>2. ASSUME DropLargest PROVE Victim
    <3>1. PICK i \in DOMAIN order : IsLargest(i) /\ DropQueue(i)
      BY <2>2 DEF DropLargest
    <3>2. \A c : (\E j \in DOMAIN order' : order'[j] = c)
                   <=> c # order[i] /\ \E j \in DOMAIN order : order[j] = c
      BY <1>1, <3>1, DropQueueStep DEF IInv
    <3>3. ASSUME NEW c \in Left PROVE c = order[i]
      BY <3>2 DEF Queued
    <3>4. order[i] \notin Bulk => Queued \cap Bulk = {}
      BY <3>1 DEF IsLargest, Candidates, Queued
    <3>5. pc = "totalLimit"
      BY <2>2 DEF DropLargest
    <3>. QED BY <3>3, <3>4, <3>5
  <2>3. ASSUME pc \notin {"connectionLimits", "totalLimit"} PROVE Victim
    BY <2>3
  <2>4. ASSUME ConnectionsWithinLimits \/ ScheduleDrain \/ UNCHANGED vars PROVE Victim
    <3>1. order' = order
      BY <2>4 DEF ConnectionsWithinLimits, ScheduleDrain, vars, queueVars
    <3>. QED BY <3>1 DEF Queued
  <2>5. \/ DropOverfull \/ DropLargest \/ pc \notin {"connectionLimits", "totalLimit"}
        \/ ConnectionsWithinLimits \/ ScheduleDrain \/ UNCHANGED vars
    <3>1. CASE \E c \in Conns : Enqueue(c) \/ RemoveConnection(c) \/ NewConnection(c)
      BY <3>1 DEF Enqueue, EnqueueOversized, EnqueueDirect, EnqueueQueued, Offer,
                  RemoveConnection, NewConnection
    <3>2. CASE EnforceLimits
      BY <3>2 DEF EnforceLimits
    <3>3. CASE DrainNow
      BY <3>3 DEF DrainNow, DrainTimerFires, DrainSend, DrainEnd
    <3>4. CASE Flush \/ SocketCloses \/ Close \/ Reconnect
      BY <3>4 DEF Flush, SocketCloses, Close, Reconnect
    <3>. QED BY <1>1, <3>1, <3>2, <3>3, <3>4 DEF Next
  <2>. QED BY <2>1, <2>2, <2>3, <2>4, <2>5
<1>2. OverflowVictim <=> [][Victim]_vars
  BY DEF OverflowVictim
<1>. HIDE DEF Victim
<1>3. Spec => [][Victim]_vars
  BY <1>1, Invariance, PTL DEF Spec
<1>. QED BY <1>2, <1>3

-----------------------------------------------------------------------------
(***************************************************************************)
(* The scheduler implements the channels: every action of it is, for each  *)
(* connection, a step of RouteChannel or a stutter.                        *)
(***************************************************************************)
\* The numbers of a queue's frames, one for each.
LEMMA NumbersElements ==
  ASSUME NEW s \in Seq(Frame)
  PROVE  /\ Numbers(s) \in Seq(FrameNumbers)
         /\ Len(Numbers(s)) = Len(s)
         /\ \A i \in 1..Len(s) : Numbers(s)[i] = s[i].number
         /\ Numbers(s) = <<>> <=> s = <<>>
<1>1. Len(s) \in Nat /\ \A i \in 1..Len(s) : s[i].number \in FrameNumbers
  BY FrameBytesElements
<1>2. /\ Numbers(s) \in Seq(FrameNumbers)
      /\ Len(Numbers(s)) = Len(s)
      /\ \A i \in 1..Len(s) : Numbers(s)[i] = s[i].number
  BY <1>1 DEF Numbers
<1>3. Numbers(s) = <<>> <=> s = <<>>
  BY <1>2, EmptySeq
<1>. QED BY <1>2, <1>3

\* A push.
LEMMA PushNumber ==
  ASSUME NEW s \in Seq(Frame), NEW f \in Frame
  PROVE  Numbers(Append(s, f)) = Append(Numbers(s), f.number)
<1>. DEFINE a == Numbers(Append(s, f))
            b == Append(Numbers(s), f.number)
<1>1. /\ Append(s, f) \in Seq(Frame)
      /\ Len(Append(s, f)) = Len(s) + 1
      /\ \A i \in 1..Len(s) : Append(s, f)[i] = s[i]
      /\ Append(s, f)[Len(s) + 1] = f
      /\ Len(s) \in Nat
  BY AppendProperties
<1>2. /\ a \in Seq(FrameNumbers) /\ Len(a) = Len(s) + 1
      /\ \A i \in 1..(Len(s) + 1) : a[i] = Append(s, f)[i].number
  BY <1>1, NumbersElements
<1>3. f.number \in FrameNumbers /\ Numbers(s) \in Seq(FrameNumbers) /\ Len(Numbers(s)) = Len(s)
  BY NumbersElements DEF Frame
<1>4. /\ b \in Seq(FrameNumbers) /\ Len(b) = Len(s) + 1
      /\ \A i \in 1..Len(s) : b[i] = Numbers(s)[i]
      /\ b[Len(s) + 1] = f.number
  BY <1>3, AppendProperties
<1>5. ASSUME NEW i \in 1..(Len(s) + 1) PROVE a[i] = b[i]
  <2>1. CASE i = Len(s) + 1
    BY <1>1, <1>2, <1>4, <2>1
  <2>2. CASE i \in 1..Len(s)
    <3>1. Numbers(s)[i] = s[i].number
      BY <2>2, NumbersElements
    <3>2. a[i] = s[i].number
      BY <1>1, <1>2, <2>2
    <3>3. b[i] = Numbers(s)[i]
      BY <1>4, <2>2
    <3>. QED BY <3>1, <3>2, <3>3
  <2>3. i = Len(s) + 1 \/ i \in 1..Len(s)
    BY <1>1
  <2>. QED BY <2>1, <2>2, <2>3
<1>. HIDE DEF a, b
<1>6. a = b
  BY <1>2, <1>4, <1>5, SeqEqual
<1>. QED BY <1>6 DEF a, b

\* A shift.
LEMMA ShiftNumber ==
  ASSUME NEW s \in Seq(Frame), s # <<>>
  PROVE  /\ Numbers(Tail(s)) = Tail(Numbers(s))
         /\ Head(Numbers(s)) = Head(s).number
<1>. DEFINE a == Numbers(Tail(s))
            b == Tail(Numbers(s))
<1>1. /\ Tail(s) \in Seq(Frame)
      /\ Len(Tail(s)) = Len(s) - 1
      /\ \A i \in 1..Len(Tail(s)) : Tail(s)[i] = s[i + 1]
      /\ Len(s) \in Nat \ {0} /\ Head(s) = s[1]
  BY SMTT(30), HeadTailProperties, EmptySeq
<1>2. /\ a \in Seq(FrameNumbers) /\ Len(a) = Len(s) - 1
      /\ \A i \in 1..(Len(s) - 1) : a[i] = Tail(s)[i].number
  BY <1>1, NumbersElements
<1>3. /\ Numbers(s) \in Seq(FrameNumbers) /\ Numbers(s) # <<>> /\ Len(Numbers(s)) = Len(s)
      /\ \A i \in 1..Len(s) : Numbers(s)[i] = s[i].number
  BY NumbersElements
<1>4. /\ b \in Seq(FrameNumbers) /\ Len(b) = Len(s) - 1
      /\ \A i \in 1..(Len(s) - 1) : b[i] = Numbers(s)[i + 1]
      /\ Head(Numbers(s)) = Numbers(s)[1]
  BY <1>3, HeadTailProperties
<1>5. ASSUME NEW i \in 1..(Len(s) - 1) PROVE a[i] = b[i]
  <2>1. i + 1 \in 1..Len(s)
    BY <1>1
  <2>. QED BY <1>1, <1>2, <1>3, <1>4, <2>1
<1>6. Head(Numbers(s)) = Head(s).number
  BY <1>1, <1>3, <1>4
<1>. HIDE DEF a, b
<1>7. a = b
  BY <1>2, <1>4, <1>5, SeqEqual
<1>. QED BY <1>6, <1>7 DEF a, b

-----------------------------------------------------------------------------
(***************************************************************************)
(* One connection's channel.                                               *)
(***************************************************************************)

\* The scheduler and the channel number frames alike.
LEMMA NumberOfChannel ==
  ASSUME NEW c \in Conns
  PROVE  Channel(c)!Number = NextNumber(c)
BY DEF Channel!Number, NextNumber, Succ

\* A step that leaves a connection alone is a stutter of its channel.
LEMMA ChannelStutters ==
  ASSUME NEW c \in Conns,
         frames'[c] = frames[c], accepted'[c] = accepted[c], handed'[c] = handed[c],
         c \in gap' <=> c \in gap
  PROVE  UNCHANGED Channel(c)!vars
<1>1. Numbers(frames'[c]) = Numbers(frames[c])
  OBVIOUS
<1>. QED BY <1>1 DEF Channel!vars

\* dropQueue() breaks one channel and leaves the others alone.
LEMMA DropQueueBreaks ==
  ASSUME IInv, NEW i \in DOMAIN order, DropQueue(i), NEW c \in Conns
  PROVE  [Channel(c)!Next]_(Channel(c)!vars)
<1>1. /\ frames \in [Conns -> Seq(Frame)]
      /\ accepted \in [Conns -> FrameNumbers] /\ handed \in [Conns -> FrameNumbers]
  BY DEF IInv, TypeOK
<1>2. /\ frames' = [frames EXCEPT ![order[i]] = <<>>]
      /\ gap' = gap \cup {order[i]}
      /\ accepted' = [accepted EXCEPT ![order[i]] = 0]
      /\ handed' = [handed EXCEPT ![order[i]] = 0]
  BY DEF DropQueue
<1>3. CASE c = order[i]
  <2>1. frames'[c] = <<>> /\ accepted'[c] = 0 /\ handed'[c] = 0 /\ c \in gap'
    BY <1>1, <1>2, <1>3
  <2>2. Numbers(frames'[c]) = <<>>
    BY <2>1, NumbersElements, EmptySeq
  <2>3. Channel(c)!Break
    BY <2>1, <2>2 DEF Channel!Break
  <2>. QED BY <2>3 DEF Channel!Next
<1>4. CASE c # order[i]
  <2>1. /\ frames'[c] = frames[c] /\ accepted'[c] = accepted[c] /\ handed'[c] = handed[c]
        /\ c \in gap' <=> c \in gap
    BY <1>1, <1>2, <1>4
  <2>. QED BY <2>1, ChannelStutters
<1>. QED BY <1>3, <1>4

-----------------------------------------------------------------------------
(***************************************************************************)
(* The actions.                                                            *)
(***************************************************************************)

\* enqueue() is for its connection a frame that passes, waits or is refused.
LEMMA EnqueueChannel ==
  ASSUME IInv, NEW d \in Conns, Enqueue(d), NEW c \in Conns
  PROVE  [Channel(c)!Next]_(Channel(c)!vars)
<1>1. /\ frames \in [Conns -> Seq(Frame)]
      /\ accepted \in [Conns -> FrameNumbers] /\ handed \in [Conns -> FrameNumbers]
      /\ gap \in SUBSET Conns /\ frames[c] \in Seq(Frame)
  BY DEF IInv, TypeOK
<1>2. Channel(c)!Number = NextNumber(c)
  BY NumberOfChannel
<1>3. CASE EnqueueOversized(d)
  <2>1. /\ accepted' = [accepted EXCEPT ![d] = NextNumber(d)]
        /\ gap' = gap \cup {d} /\ frames' = frames /\ handed' = handed
    BY <1>3 DEF EnqueueOversized, Offer, queueVars
  <2>2. CASE c = d
    <3>1. Channel(c)!Refuse
      BY <1>1, <1>2, <2>1, <2>2 DEF Channel!Refuse
    <3>. QED BY <3>1 DEF Channel!Next
  <2>3. CASE c # d
    BY <1>1, <2>1, <2>3, ChannelStutters
  <2>. QED BY <2>2, <2>3
<1>4. CASE EnqueueDirect(d)
  <2>1. /\ accepted' = [accepted EXCEPT ![d] = NextNumber(d)]
        /\ handed' = [handed EXCEPT ![d] = NextNumber(d)]
        /\ gap' = gap /\ frames' = frames /\ totalQueuedBytes = 0
    BY <1>4 DEF EnqueueDirect, Offer, queueVars
  <2>2. CASE c = d
    <3>1. order = <<>>
      BY <2>1, BytesOfAll DEF IInv
    <3>2. frames[c] = <<>>
      BY <3>1 DEF IInv, OrderOK
    <3>3. Numbers(frames[c]) = <<>>
      BY <1>1, <3>2, NumbersElements
    <3>4. /\ accepted'[c] = NextNumber(c) /\ handed'[c] = NextNumber(c)
          /\ frames'[c] = frames[c] /\ gap' = gap
      BY <1>1, <2>1, <2>2
    <3>5. Channel(c)!Pass
      BY <1>2, <3>3, <3>4 DEF Channel!Pass
    <3>. QED BY <3>5 DEF Channel!Next
  <2>3. CASE c # d
    BY <1>1, <2>1, <2>3, ChannelStutters
  <2>. QED BY <2>2, <2>3
<1>5. CASE EnqueueQueued(d)
  <2>1. PICK size \in FrameSizes :
          frames' = [frames EXCEPT ![d] =
                       Append(@, [number |-> NextNumber(d), byteLength |-> size])]
    BY <1>5 DEF EnqueueQueued
  <2>2. /\ accepted' = [accepted EXCEPT ![d] = NextNumber(d)]
        /\ gap' = gap /\ handed' = handed
    BY <1>5 DEF EnqueueQueued, Offer
  <2>3. CASE c = d
    <3>. DEFINE frame == [number |-> NextNumber(c), byteLength |-> size]
    <3>1. NextNumber(c) \in FrameNumbers
      BY <1>1, SuccType, LimitAssumption DEF NextNumber, FrameNumbers
    <3>2. frame \in Frame /\ frame.number = NextNumber(c)
      BY <3>1 DEF Frame
    <3>3. frames'[c] = Append(frames[c], frame)
      BY <1>1, <2>1, <2>3
    <3>. HIDE DEF frame
    <3>4. Numbers(frames'[c]) = Append(Numbers(frames[c]), NextNumber(c))
      BY <1>1, <3>2, <3>3, PushNumber
    <3>5. accepted'[c] = NextNumber(c) /\ handed'[c] = handed[c] /\ gap' = gap
      BY <1>1, <2>2, <2>3
    <3>6. Channel(c)!Keep
      BY <1>2, <3>4, <3>5 DEF Channel!Keep
    <3>. QED BY <3>6 DEF Channel!Next
  <2>4. CASE c # d
    <3>1. /\ frames'[c] = frames[c] /\ accepted'[c] = accepted[c] /\ handed'[c] = handed[c]
          /\ c \in gap' <=> c \in gap
      BY <1>1, <2>1, <2>2, <2>4
    <3>. QED BY <3>1, ChannelStutters
  <2>. QED BY <2>3, <2>4
<1>. QED BY <1>3, <1>4, <1>5 DEF Enqueue

\* drainNow() hands the picked queue's first frame to the socket.
LEMMA DrainSendChannel ==
  ASSUME IInv, DrainSend, NEW c \in Conns
  PROVE  [Channel(c)!Next]_(Channel(c)!vars)
<1>1. /\ frames \in [Conns -> Seq(Frame)] /\ order \in Seq(Conns)
      /\ accepted \in [Conns -> FrameNumbers] /\ handed \in [Conns -> FrameNumbers]
      /\ frames[c] \in Seq(Frame)
  BY DEF IInv, TypeOK
<1>2. PICK i \in DOMAIN order :
        /\ frames' = [frames EXCEPT ![order[i]] = Tail(@)]
        /\ handed' = [handed EXCEPT ![order[i]] = Head(frames[order[i]]).number]
  BY DEF DrainSend
<1>3. accepted' = accepted /\ gap' = gap
  BY DEF DrainSend
<1>4. CASE c = order[i]
  <2>1. frames[c] # <<>>
    BY <1>4 DEF IInv, OrderOK
  <2>2. frames'[c] = Tail(frames[c]) /\ handed'[c] = Head(frames[c]).number
    BY <1>1, <1>2, <1>4
  <2>3. /\ Numbers(frames'[c]) = Tail(Numbers(frames[c]))
        /\ handed'[c] = Head(Numbers(frames[c]))
        /\ Numbers(frames[c]) # <<>>
    BY <1>1, <2>1, <2>2, ShiftNumber, NumbersElements
  <2>4. Channel(c)!Hand
    BY <1>3, <2>3 DEF Channel!Hand
  <2>. QED BY <2>4 DEF Channel!Next
<1>5. CASE c # order[i]
  <2>1. frames'[c] = frames[c] /\ handed'[c] = handed[c]
    BY <1>1, <1>2, <1>5
  <2>. QED BY <1>3, <2>1, ChannelStutters
<1>. QED BY <1>4, <1>5

\* A fresh id: nothing is left of the one that the slot stood for.
LEMMA NewConnectionChannel ==
  ASSUME IInv, NEW d \in Conns, NewConnection(d), NEW c \in Conns
  PROVE  [Channel(c)!Next]_(Channel(c)!vars)
<1>1. /\ accepted \in [Conns -> FrameNumbers] /\ handed \in [Conns -> FrameNumbers]
      /\ frames[c] \in Seq(Frame)
  BY DEF IInv, TypeOK
<1>2. /\ accepted' = [accepted EXCEPT ![d] = 0] /\ handed' = [handed EXCEPT ![d] = 0]
      /\ gap' = gap \ {d} /\ frames' = frames /\ d \in gap \ Queued
  BY DEF NewConnection, queueVars
<1>3. CASE c = d
  <2>1. frames[c] = <<>>
    BY <1>2, <1>3 DEF IInv, OrderOK, Queued
  <2>2. Numbers(frames[c]) = <<>>
    BY <1>1, <2>1, NumbersElements
  <2>3. Channel(c)!Renew
    BY <1>1, <1>2, <1>3, <2>2 DEF Channel!Renew
  <2>. QED BY <2>3 DEF Channel!Next
<1>4. CASE c # d
  BY <1>1, <1>2, <1>4, ChannelStutters
<1>. QED BY <1>3, <1>4

\* close() breaks every channel, and a new tunnel has fresh ids only.
LEMMA TunnelChannel ==
  ASSUME IInv, Close \/ Reconnect, NEW c \in Conns
  PROVE  [Channel(c)!Next]_(Channel(c)!vars)
<1>1. frames[c] \in Seq(Frame)
  BY DEF IInv, TypeOK
<1>2. CASE Close
  <2>1. frames'[c] = <<>> /\ accepted'[c] = 0 /\ handed'[c] = 0 /\ c \in gap'
    BY <1>2 DEF Close
  <2>2. Numbers(frames'[c]) = <<>>
    BY <2>1, NumbersElements, EmptySeq
  <2>3. Channel(c)!Break
    BY <2>1, <2>2 DEF Channel!Break
  <2>. QED BY <2>3 DEF Channel!Next
<1>3. CASE Reconnect
  <2>1. /\ order = <<>> /\ accepted[c] = 0 /\ handed[c] = 0
    BY <1>3 DEF Reconnect, IInv, ClosedIsEmpty
  <2>2. frames[c] = <<>>
    BY <2>1 DEF IInv, OrderOK
  <2>3. Numbers(frames[c]) = <<>>
    BY <1>1, <2>2, NumbersElements
  <2>4. frames' = frames /\ accepted' = accepted /\ handed' = handed /\ gap' = {}
    BY <1>3 DEF Reconnect, queueVars
  <2>5. CASE c \in gap
    <3>1. Channel(c)!Renew
      BY <2>1, <2>3, <2>4, <2>5 DEF Channel!Renew
    <3>. QED BY <3>1 DEF Channel!Next
  <2>6. CASE c \notin gap
    BY <2>4, <2>6, ChannelStutters
  <2>. QED BY <2>5, <2>6
<1>. QED BY <1>2, <1>3

\* Everything else leaves all channels alone.
LEMMA OtherChannel ==
  ASSUME \/ ConnectionsWithinLimits \/ ScheduleDrain \/ DrainTimerFires \/ DrainEnd
         \/ Flush \/ SocketCloses \/ UNCHANGED vars,
         NEW c \in Conns
  PROVE  [Channel(c)!Next]_(Channel(c)!vars)
<1>1. frames' = frames /\ accepted' = accepted /\ handed' = handed /\ gap' = gap
  BY DEF ConnectionsWithinLimits, ScheduleDrain, DrainTimerFires, DrainEnd, Flush,
         SocketCloses, vars, queueVars, historyVars
<1>. QED BY <1>1, ChannelStutters

LEMMA ChannelStep ==
  ASSUME IInv, [Next]_vars, NEW c \in Conns
  PROVE  [Channel(c)!Next]_(Channel(c)!vars)
<1>1. CASE \E d \in Conns : Enqueue(d)
  BY <1>1, EnqueueChannel
<1>2. CASE \E d \in Conns : NewConnection(d)
  BY <1>2, NewConnectionChannel
<1>3. CASE \E d \in Conns : RemoveConnection(d)
  BY <1>3, DropQueueBreaks DEF RemoveConnection
<1>4. CASE DropOverfull \/ DropLargest
  BY <1>4, DropQueueBreaks DEF DropOverfull, DropLargest
<1>5. CASE DrainSend
  BY <1>5, DrainSendChannel
<1>6. CASE Close \/ Reconnect
  BY <1>6, TunnelChannel
<1>7. CASE \/ ConnectionsWithinLimits \/ ScheduleDrain \/ DrainTimerFires \/ DrainEnd
           \/ Flush \/ SocketCloses \/ UNCHANGED vars
  BY <1>7, OtherChannel
<1>. QED
  BY <1>1, <1>2, <1>3, <1>4, <1>5, <1>6, <1>7 DEF Next, EnforceLimits, DrainNow

LEMMA ChannelInit ==
  ASSUME Init, NEW c \in Conns
  PROVE  Channel(c)!Init
<1>1. frames[c] = <<>> /\ accepted[c] = 0 /\ handed[c] = 0 /\ c \notin gap
  BY DEF Init
<1>2. Numbers(frames[c]) = <<>>
  BY <1>1, NumbersElements, EmptySeq
<1>. QED BY <1>1, <1>2 DEF Channel!Init

\* The scheduler implements a channel for each connection (index.ts:236-311): whatever
\* the others do, its frames go to the socket in order until all that wait are dropped.
THEOREM ChannelCorrect == ASSUME NEW c \in Conns PROVE Spec => Channel(c)!Spec
<1>1. Init => Channel(c)!Init
  BY ChannelInit
<1>2. IInv /\ [Next]_vars => [Channel(c)!Next]_(Channel(c)!vars)
  BY ChannelStep
<1>. QED BY <1>1, <1>2, Invariance, PTL DEF Spec, Channel!Spec

\* The same, of all the connections at once.
THEOREM ChannelsCorrect == Spec => ImplementsChannels
<1>. DEFINE Start == \A c \in Conns : Channel(c)!Init
            Step == \A c \in Conns : [Channel(c)!Next]_(Channel(c)!vars)
<1>1. Init => Start
  BY ChannelInit
<1>2. IInv /\ [Next]_vars => [Step]_vars
  BY ChannelStep
<1>3. ImplementsChannels <=> Start /\ [][Step]_vars
  BY DEF ImplementsChannels
<1>. HIDE DEF Start, Step
<1>4. Spec => Start /\ [][Step]_vars
  BY <1>1, <1>2, Invariance, PTL DEF Spec
<1>. QED BY <1>3, <1>4

=============================================================================
