---------------------------- MODULE AgentsProofs ----------------------------
(***************************************************************************)
(* The safety properties of the agent runs for any clients, whatever their *)
(* users do, runs of any length and any number of reconnections; of a      *)
(* client that joins a run from the thread's snapshot, for any number of   *)
(* messages and texts of any length, whichever messages it takes for the   *)
(* same; and of the runs with the turns of the codex harness               *)
(* (CodexTurnsProofs).                                                     *)
(***************************************************************************)
EXTENDS MCAgents, CodexTurnsProofs, SequenceTheorems

\* The n envelopes after number a.
Numbered(a, n) == [i \in 1..n |-> a + i]

ClientRecord ==
  [phase : Phases, kind : Kinds, runId : Nat, lastEventId : Nat,
   attempts : Nat, cancel : {"no", "wanted", "sent"}]
StreamRecord == [run : Nat, wire : Seq(Nat), ended : BOOLEAN]
RequestRecord ==
  [client : Clients, kind : Kinds \cup {"edit accepted", "events"},
   attempt : Nat, run : Nat, after : Nat]

\* A run without an end is one that the server has forgotten.
LostIsGone == \A r \in DOMAIN runs : runs[r].status = "lost" => runs[r].gone

\* What a client has of its run: nothing before it knows the run, nothing that the run
\* has not said.
HasOfRun(c) ==
  /\ client[c].phase = "idle" => client[c].runId = NoRun /\ client[c].lastEventId = 0
  /\ client[c].phase \in {"requesting", "streaming", "sleeping"} /\ client[c].runId = NoRun =>
       client[c].lastEventId = 0
  /\ client[c].runId # NoRun =>
       /\ client[c].runId \in DOMAIN runs
       /\ client[c].lastEventId <= Len(runs[client[c].runId].envelopes)
  /\ from[c] <= client[c].lastEventId

\* What is on the wire: the next envelopes of the run that the client follows.
WireIsNext(c) ==
  client[c].phase = "streaming" =>
    /\ stream[c].run \in DOMAIN runs
    /\ client[c].runId \in {NoRun, stream[c].run}
    /\ stream[c].wire = Numbered(client[c].lastEventId, Len(stream[c].wire))
    /\ client[c].lastEventId + Len(stream[c].wire) <= Len(runs[stream[c].run].envelopes)

\* Gapless and StreamIsCurrent for one client.
HasAll(c) == passed[c] = Numbered(from[c], client[c].lastEventId - from[c])
IsCurrent(c) ==
  client[c].phase = "streaming" /\ ~ stream[c].ended =>
    /\ Active(stream[c].run)
    /\ client[c].lastEventId + Len(stream[c].wire) = Len(runs[stream[c].run].envelopes)

Follows(c) == HasOfRun(c) /\ WireIsNext(c) /\ HasAll(c) /\ IsCurrent(c)

\* A request: only the one of the client's last attempt is listened for, and it says
\* what the client has.
Asked(q) ==
  /\ q.attempt <= client[q.client].attempts
  /\ client[q.client].phase # "idle"
  /\ client[q.client].phase = "sleeping" => q.attempt < client[q.client].attempts
  /\ q.kind = "events" => q.run \in DOMAIN runs
  /\ Listening(q) =>
       IF q.kind = "events"
       THEN q.run = client[q.client].runId /\ q.run # NoRun
            /\ q.after = client[q.client].lastEventId
       ELSE q.after = 0 /\ client[q.client].runId = NoRun

IInv ==
  /\ TypeOK
  /\ LostIsGone
  /\ OneRunEach
  /\ \A c \in Clients : Follows(c)
  /\ \A q \in requests : Asked(q)

-----------------------------------------------------------------------------
\* Envelopes on their way: none, the first of them, some more.
LEMMA NumberedNone ==
  ASSUME NEW a \in Nat
  PROVE  Numbered(a, 0) = <<>>
BY DEF Numbered

LEMMA NumberedSeq ==
  ASSUME NEW a \in Nat, NEW n \in Nat
  PROVE  /\ Numbered(a, n) \in Seq(Nat)
         /\ Len(Numbered(a, n)) = n
         /\ \A i \in 1..n : Numbered(a, n)[i] = a + i
<1>1. \A i \in 1..n : a + i \in Nat
  OBVIOUS
<1>. QED BY <1>1 DEF Numbered

LEMMA NumberedHead ==
  ASSUME NEW a \in Nat, NEW n \in Nat, n # 0
  PROVE  /\ Head(Numbered(a, n)) = a + 1
         /\ Tail(Numbered(a, n)) = Numbered(a + 1, n - 1)
<1>. DEFINE s == Numbered(a, n)
            t == Numbered(a + 1, n - 1)
<1>1. s \in Seq(Nat) /\ Len(s) = n /\ \A i \in 1..n : s[i] = a + i
  BY NumberedSeq
<1>2. t \in Seq(Nat) /\ Len(t) = n - 1 /\ \A i \in 1..(n - 1) : t[i] = (a + 1) + i
  <2>1. a + 1 \in Nat /\ n - 1 \in Nat
    OBVIOUS
  <2>. QED BY <2>1, NumberedSeq
<1>. HIDE DEF s, t
<1>3. s # <<>>
  BY <1>1
<1>4. Tail(s) \in Seq(Nat) /\ Len(Tail(s)) = n - 1 /\ \A i \in 1..(n - 1) : Tail(s)[i] = s[i + 1]
  BY <1>1, <1>3, HeadTailProperties
<1>5. ASSUME NEW i \in 1..(n - 1) PROVE Tail(s)[i] = t[i]
  <2>1. i + 1 \in 1..n /\ a + (i + 1) = (a + 1) + i
    OBVIOUS
  <2>. QED BY <2>1, <1>1, <1>2, <1>4
<1>6. Tail(s) = t
  BY <1>2, <1>4, <1>5, SeqEqual
<1>7. Head(s) = a + 1
  BY <1>1
<1>. QED BY <1>6, <1>7 DEF s, t

LEMMA NumberedConcat ==
  ASSUME NEW a \in Nat, NEW n \in Nat, NEW m \in Nat
  PROVE  Numbered(a, n) \o Numbered(a + n, m) = Numbered(a, n + m)
<1>. DEFINE s == Numbered(a, n)
            t == Numbered(a + n, m)
            u == Numbered(a, n + m)
<1>1. s \in Seq(Nat) /\ Len(s) = n /\ \A i \in 1..n : s[i] = a + i
  BY NumberedSeq
<1>2. t \in Seq(Nat) /\ Len(t) = m /\ \A i \in 1..m : t[i] = (a + n) + i
  <2>1. a + n \in Nat
    OBVIOUS
  <2>. QED BY <2>1, NumberedSeq
<1>3. u \in Seq(Nat) /\ Len(u) = n + m /\ \A i \in 1..(n + m) : u[i] = a + i
  <2>1. n + m \in Nat
    OBVIOUS
  <2>. QED BY <2>1, NumberedSeq
<1>. HIDE DEF s, t, u
<1>4. /\ s \o t \in Seq(Nat) /\ Len(s \o t) = n + m
      /\ \A i \in 1..(n + m) : (s \o t)[i] = IF i <= n THEN s[i] ELSE t[i - n]
  BY ZenonT(60), <1>1, <1>2, ConcatProperties
<1>5. ASSUME NEW i \in 1..(n + m) PROVE (s \o t)[i] = u[i]
  <2>1. CASE i <= n
    BY <2>1, <1>1, <1>3, <1>4
  <2>2. CASE ~ (i <= n)
    <3>1. i - n \in 1..m /\ (a + n) + (i - n) = a + i
      BY <2>2
    <3>. QED BY <2>2, <3>1, <1>2, <1>3, <1>4
  <2>. QED BY <2>1, <2>2
<1>6. s \o t = u
  BY <1>3, <1>4, <1>5, SeqEqual
<1>. QED BY <1>6 DEF s, t, u

LEMMA NumberedAppend ==
  ASSUME NEW a \in Nat, NEW n \in Nat
  PROVE  Append(Numbered(a, n), a + n + 1) = Numbered(a, n + 1)
<1>. DEFINE s == Numbered(a, n)
            u == Numbered(a, n + 1)
<1>1. s \in Seq(Nat) /\ Len(s) = n /\ \A i \in 1..n : s[i] = a + i
  BY NumberedSeq
<1>2. u \in Seq(Nat) /\ Len(u) = n + 1 /\ \A i \in 1..(n + 1) : u[i] = a + i
  <2>1. n + 1 \in Nat
    OBVIOUS
  <2>. QED BY <2>1, NumberedSeq
<1>. HIDE DEF s, u
<1>3. /\ Append(s, a + n + 1) \in Seq(Nat) /\ Len(Append(s, a + n + 1)) = n + 1
      /\ \A i \in 1..n : Append(s, a + n + 1)[i] = s[i]
      /\ Append(s, a + n + 1)[n + 1] = a + n + 1
  BY <1>1, AppendProperties
<1>4. ASSUME NEW i \in 1..(n + 1) PROVE Append(s, a + n + 1)[i] = u[i]
  <2>1. CASE i = n + 1
    BY <2>1, <1>2, <1>3
  <2>2. CASE i # n + 1
    <3>1. i \in 1..n
      BY <2>2
    <3>. QED BY <3>1, <1>1, <1>2, <1>3
  <2>. QED BY <2>1, <2>2
<1>5. Append(s, a + n + 1) = u
  BY SMTT(30), <1>2, <1>3, <1>4, SeqEqual
<1>. QED BY <1>5 DEF s, u

-----------------------------------------------------------------------------
\* The types that the steps below use.
LEMMA TypesOf ==
  ASSUME IInv
  PROVE  /\ client \in [Clients -> ClientRecord] /\ stream \in [Clients -> StreamRecord]
         /\ from \in [Clients -> Nat] /\ passed \in [Clients -> Seq(Nat)]
         /\ runs \in Seq(RunRecord) /\ DOMAIN runs = 1..Len(runs) /\ Len(runs) \in Nat
         /\ \A r \in DOMAIN runs : /\ runs[r] \in RunRecord
                                   /\ runs[r].envelopes \in Seq(Types)
                                   /\ Len(runs[r].envelopes) \in Nat
<1>1. /\ client \in [Clients -> ClientRecord] /\ stream \in [Clients -> StreamRecord]
      /\ from \in [Clients -> Nat] /\ passed \in [Clients -> Seq(Nat)]
      /\ runs \in Seq(RunRecord)
  BY DEF IInv, TypeOK, ClientRecord, StreamRecord
<1>2. DOMAIN runs = 1..Len(runs) /\ Len(runs) \in Nat
  BY <1>1
<1>3. ASSUME NEW r \in DOMAIN runs
      PROVE /\ runs[r] \in RunRecord /\ runs[r].envelopes \in Seq(Types)
            /\ Len(runs[r].envelopes) \in Nat
  <2>1. runs[r] \in RunRecord
    BY <1>1
  <2>2. runs[r].envelopes \in Seq(Types)
    BY <2>1 DEF RunRecord
  <2>. QED BY <2>1, <2>2
<1>. QED BY <1>1, <1>2, <1>3

LEMMA WireTypes ==
  ASSUME IInv, NEW c \in Clients
  PROVE  /\ stream[c] \in StreamRecord /\ stream[c].wire \in Seq(Nat)
         /\ Len(stream[c].wire) \in Nat
<1>1. stream[c] \in StreamRecord
  BY TypesOf
<1>2. stream[c].wire \in Seq(Nat)
  BY <1>1 DEF StreamRecord
<1>. QED BY <1>1, <1>2

\* A client that a step leaves alone, while the runs it may follow stay as they are.
LEMMA OtherClient ==
  ASSUME NEW c \in Clients, Follows(c),
         client'[c] = client[c], stream'[c] = stream[c],
         from'[c] = from[c], passed'[c] = passed[c],
         \A r \in DOMAIN runs : r \in DOMAIN runs' /\ runs'[r] = runs[r]
  PROVE  Follows(c)'
BY DEF Follows, HasOfRun, WireIsNext, HasAll, IsCurrent, Active

\* A step of one client, or of the server for one client: what is to be shown is about
\* this client, its requests, and new runs.
LEMMA OneClient ==
  ASSUME IInv, NEW c \in Clients, TypeOK',
         \A r \in DOMAIN runs : r \in DOMAIN runs' /\ runs'[r] = runs[r],
         LostIsGone', OneRunEach',
         \A d \in Clients : d # c => /\ client'[d] = client[d] /\ stream'[d] = stream[d]
                                     /\ from'[d] = from[d] /\ passed'[d] = passed[d],
         Follows(c)',
         \A q \in requests' : q \in requests \/ q.client = c,
         \A q \in requests' : q.client = c => Asked(q)'
  PROVE  IInv'
<1>1. ASSUME NEW d \in Clients PROVE Follows(d)'
  <2>1. CASE d = c
    BY <2>1
  <2>2. CASE d # c
    BY <2>2, OtherClient DEF IInv
  <2>. QED BY <2>1, <2>2
<1>2. ASSUME NEW q \in requests' PROVE Asked(q)'
  <2>1. CASE q.client = c
    BY <2>1
  <2>2. CASE q.client # c
    <3>1. Asked(q) /\ q.client \in Clients
      BY <2>2 DEF IInv, TypeOK
    <3>2. client'[q.client] = client[q.client]
      BY <2>2, <3>1
    <3>. QED BY <3>1, <3>2 DEF Asked, Listening
  <2>. QED BY <2>1, <2>2
<1>. QED BY <1>1, <1>2 DEF IInv

\* The same for a step that leaves the runs alone.
LEMMA ClientStep ==
  ASSUME IInv, NEW c \in Clients, runs' = runs,
         client' \in [Clients -> ClientRecord], stream' \in [Clients -> StreamRecord],
         from' \in [Clients -> Nat], passed' \in [Clients -> Seq(Nat)],
         requests' \subseteq RequestRecord,
         \A d \in Clients : d # c => /\ client'[d] = client[d] /\ stream'[d] = stream[d]
                                     /\ from'[d] = from[d] /\ passed'[d] = passed[d],
         Follows(c)',
         \A q \in requests' : q \in requests \/ q.client = c,
         \A q \in requests' : q.client = c => Asked(q)'
  PROVE  IInv'
<1>1. TypeOK'
  BY DEF IInv, TypeOK, ClientRecord, StreamRecord, RequestRecord, Active
<1>2. LostIsGone' /\ OneRunEach'
  BY DEF IInv, LostIsGone, OneRunEach
<1>. QED BY <1>1, <1>2, OneClient

LEMMA RequestTypes ==
  ASSUME IInv
  PROVE  requests \subseteq RequestRecord
BY DEF IInv, TypeOK, RequestRecord

-----------------------------------------------------------------------------
(***************************************************************************)
(* The client's steps.                                                     *)
(***************************************************************************)
LEMMA StartStep ==
  ASSUME IInv, NEW c \in Clients, NEW kind \in Kinds, Start(c, kind)
  PROVE  IInv'
<1>. DEFINE q0 == Request(c, kind, 0, NoRun, 0)
<1>1. /\ client' \in [Clients -> ClientRecord]
      /\ client'[c].phase = "requesting" /\ client'[c].runId = client[c].runId
      /\ client'[c].lastEventId = client[c].lastEventId
      /\ client'[c].attempts = client[c].attempts
      /\ \A d \in Clients : d # c => client'[d] = client[d]
  BY ZenonT(60), TypesOf DEF Start, ClientRecord, Phases
<1>2. client[c].attempts \in Nat /\ client[c].lastEventId \in Nat
  BY TypesOf DEF ClientRecord
<1>3. requests' = requests \cup {q0} /\ requests' \subseteq RequestRecord
  <2>1. q0 \in RequestRecord
    BY DEF Request, RequestRecord, NoRun
  <2>. QED BY <2>1, RequestTypes DEF Start
<1>4. Follows(c)'
  <2>1. Follows(c) /\ client[c].phase = "idle" /\ UNCHANGED <<runs, stream, from, passed>>
    BY DEF IInv, Start
  <2>. QED BY <1>1, <2>1 DEF Follows, HasOfRun, WireIsNext, HasAll, IsCurrent
<1>5. ASSUME NEW q \in requests', q.client = c PROVE Asked(q)'
  <2>1. q = q0
    BY <1>3, <1>5 DEF IInv, Asked, Start
  <2>2. q.client = c /\ q.kind = kind /\ q.attempt = 0 /\ q.after = 0
    BY <2>1 DEF Request
  <2>3. client[c].runId = NoRun
    BY DEF IInv, Start, Follows, HasOfRun
  <2>. QED BY <1>1, <1>2, <2>2, <2>3 DEF Asked, Listening, Kinds
<1>6. \A q \in requests' : q \in requests \/ q.client = c
  BY <1>3 DEF Request
<1>. QED BY <1>1, <1>3, <1>4, <1>5, <1>6, ClientStep, TypesOf DEF Start

LEMMA ResumeStep ==
  ASSUME IInv, NEW c \in Clients, Resume(c)
  PROVE  IInv'
<1>0. PICK r \in DOMAIN runs : \E after \in 0..Len(runs[r].envelopes) :
        /\ client' = [client EXCEPT ![c].phase = "requesting",
                                    ![c].runId = r, ![c].lastEventId = after]
        /\ from' = [from EXCEPT ![c] = after]
        /\ requests' = requests \cup {Request(c, "events", 0, r, after)}
  BY Zenon DEF Resume
<1>1. PICK after \in 0..Len(runs[r].envelopes) :
        /\ client' = [client EXCEPT ![c].phase = "requesting",
                                    ![c].runId = r, ![c].lastEventId = after]
        /\ from' = [from EXCEPT ![c] = after]
        /\ requests' = requests \cup {Request(c, "events", 0, r, after)}
  BY <1>0
<1>. DEFINE q0 == Request(c, "events", 0, r, after)
<1>2. client[c].phase = "idle" /\ UNCHANGED <<runs, stream, passed>>
  BY DEF Resume
<1>3. r \in Nat \ {0} /\ after \in Nat /\ after <= Len(runs[r].envelopes)
  BY <1>1, TypesOf
<1>4. /\ client' \in [Clients -> ClientRecord]
      /\ client'[c].phase = "requesting" /\ client'[c].runId = r
      /\ client'[c].lastEventId = after /\ client'[c].attempts = client[c].attempts
      /\ \A d \in Clients : d # c => client'[d] = client[d]
  <2>. DEFINE v == [client[c] EXCEPT !.phase = "requesting", !.runId = r, !.lastEventId = after]
  <2>1. client[c] \in ClientRecord /\ client \in [Clients -> ClientRecord]
    BY TypesOf
  <2>2. /\ v \in ClientRecord
        /\ v.phase = "requesting" /\ v.runId = r
        /\ v.lastEventId = after /\ v.attempts = client[c].attempts
    BY <1>3, <2>1 DEF ClientRecord, Phases
  <2>3. client' = [client EXCEPT ![c] = v]
    BY <1>1, <2>1
  <2>. HIDE DEF v
  <2>. QED BY <2>1, <2>2, <2>3
<1>5. /\ from' \in [Clients -> Nat] /\ from'[c] = after
      /\ \A d \in Clients : d # c => from'[d] = from[d]
  BY <1>1, <1>3, TypesOf
<1>6. client[c].attempts \in Nat
  BY TypesOf DEF ClientRecord
<1>7. requests' \subseteq RequestRecord
  <2>1. q0 \in RequestRecord
    BY <1>3 DEF Request, RequestRecord
  <2>. QED BY <1>1, <2>1, RequestTypes
<1>8. passed[c] = <<>>
  <2>1. client[c].lastEventId = 0 /\ from[c] = 0
    <3>1. client[c].lastEventId = 0 /\ from[c] <= 0 /\ from[c] \in Nat
      BY <1>2, TypesOf DEF IInv, Follows, HasOfRun
    <3>. QED BY <3>1
  <2>2. passed[c] = Numbered(0, 0)
    BY <2>1 DEF IInv, Follows, HasAll
  <2>. QED BY <2>2, NumberedNone
<1>9. Follows(c)'
  <2>1. HasOfRun(c)'
    BY <1>2, <1>3, <1>4, <1>5 DEF HasOfRun, NoRun
  <2>2. HasAll(c)'
    BY <1>2, <1>3, <1>4, <1>5, <1>8, NumberedNone DEF HasAll
  <2>. QED BY <1>4, <2>1, <2>2 DEF Follows, WireIsNext, IsCurrent
<1>10. ASSUME NEW q \in requests', q.client = c PROVE Asked(q)'
  <2>1. q = q0
    BY <1>1, <1>2, <1>10 DEF IInv, Asked
  <2>2. q.client = c /\ q.kind = "events" /\ q.attempt = 0 /\ q.after = after /\ q.run = r
    BY <2>1 DEF Request
  <2>. QED BY <1>2, <1>3, <1>4, <1>6, <2>2 DEF Asked, Listening, NoRun
<1>11. \A q \in requests' : q \in requests \/ q.client = c
  BY <1>1 DEF Request
<1>. QED BY <1>2, <1>4, <1>5, <1>7, <1>9, <1>10, <1>11, ClientStep, TypesOf

\* The catch block: the client is told nothing, and counts the attempt if there is another.
LEMMA CaughtClient ==
  ASSUME IInv, NEW c \in Clients, Caught(c)
  PROVE  /\ client' \in [Clients -> ClientRecord]
         /\ client'[c].runId = client[c].runId
         /\ client'[c].lastEventId = client[c].lastEventId
         /\ \/ client'[c].phase = "ended" /\ client'[c].attempts = client[c].attempts
            \/ client'[c].phase = "sleeping" /\ client'[c].attempts = client[c].attempts + 1
         /\ client[c].attempts \in Nat
         /\ \A d \in Clients : d # c => client'[d] = client[d]
<1>1. client[c] \in ClientRecord /\ client \in [Clients -> ClientRecord]
  BY TypesOf
<1>2. client[c].attempts \in Nat
  BY <1>1 DEF ClientRecord
<1>3. CASE client[c].attempts < MaxReconnects[c]
  <2>1. client' = [client EXCEPT ![c].phase = "sleeping", ![c].attempts = @ + 1]
    BY <1>3 DEF Caught
  <2>. QED BY <1>1, <1>2, <2>1 DEF ClientRecord, Phases
<1>4. CASE ~ (client[c].attempts < MaxReconnects[c])
  <2>1. client' = [client EXCEPT ![c].phase = "ended"]
    BY <1>4 DEF Caught
  <2>. QED BY <1>1, <1>2, <2>1 DEF ClientRecord, Phases
<1>. QED BY <1>3, <1>4

\* A client that stops following: what it has, and what it has asked for, stays sound.
LEMMA StopsFollowing ==
  ASSUME IInv, NEW c \in Clients,
         UNCHANGED <<from, passed>>,
         \A r \in DOMAIN runs : r \in DOMAIN runs' /\ runs'[r] = runs[r],
         client'[c].phase \in {"sleeping", "ended", "closed"},
         client'[c].phase = "sleeping" => client[c].phase \in {"requesting", "streaming"},
         client'[c].runId = client[c].runId,
         client'[c].lastEventId = client[c].lastEventId
  PROVE  Follows(c)'
<1>1. Follows(c)
  BY DEF IInv
<1>. QED BY <1>1 DEF Follows, HasOfRun, WireIsNext, HasAll, IsCurrent

LEMMA BreaksStep ==
  ASSUME IInv, NEW c \in Clients, Breaks(c)
  PROVE  IInv'
<1>1. /\ client[c].phase \in {"requesting", "streaming"} /\ Caught(c)
      /\ stream' = [stream EXCEPT ![c] = NoStream] /\ UNCHANGED <<runs, from, passed>>
      /\ requests' \subseteq requests
  BY DEF Breaks
<1>2. /\ stream' \in [Clients -> StreamRecord]
      /\ \A d \in Clients : d # c => stream'[d] = stream[d]
  BY <1>1, TypesOf DEF StreamRecord, NoStream, NoRun
<1>3. Follows(c)'
  BY <1>1, CaughtClient, StopsFollowing
<1>4. ASSUME NEW q \in requests', q.client = c PROVE Asked(q)'
  <2>1. Asked(q) /\ q.attempt \in Nat
    BY <1>1, RequestTypes DEF IInv, RequestRecord
  <2>. QED BY <1>1, <1>4, <2>1, CaughtClient DEF Asked, Listening
<1>. QED BY <1>1, <1>2, <1>3, <1>4, CaughtClient, ClientStep, TypesOf, RequestTypes

LEMMA StreamEndsStep ==
  ASSUME IInv, NEW c \in Clients, StreamEnds(c)
  PROVE  IInv'
<1>1. /\ client[c].phase = "streaming" /\ Caught(c)
      /\ stream' = [stream EXCEPT ![c] = NoStream]
      /\ UNCHANGED <<runs, requests, from, passed>>
  BY DEF StreamEnds
<1>2. /\ stream' \in [Clients -> StreamRecord]
      /\ \A d \in Clients : d # c => stream'[d] = stream[d]
  BY <1>1, TypesOf DEF StreamRecord, NoStream, NoRun
<1>3. Follows(c)'
  BY <1>1, CaughtClient, StopsFollowing
<1>4. ASSUME NEW q \in requests', q.client = c PROVE Asked(q)'
  <2>1. Asked(q) /\ q.attempt \in Nat
    BY <1>1, RequestTypes DEF IInv, RequestRecord
  <2>. QED BY <1>1, <1>4, <2>1, CaughtClient DEF Asked, Listening
<1>. QED BY <1>1, <1>2, <1>3, <1>4, CaughtClient, ClientStep, TypesOf, RequestTypes

LEMMA ReconnectsStep ==
  ASSUME IInv, NEW c \in Clients, Reconnects(c)
  PROVE  IInv'
<1>. DEFINE q0 == IF client[c].runId # NoRun
                  THEN Request(c, "events", client[c].attempts, client[c].runId,
                               client[c].lastEventId)
                  ELSE Request(c, client[c].kind, client[c].attempts, NoRun, 0)
<1>1. /\ client[c].phase = "sleeping"
      /\ client' = [client EXCEPT ![c].phase = "requesting"]
      /\ requests' = requests \cup {q0}
      /\ UNCHANGED <<runs, stream, from, passed>>
  BY DEF Reconnects
<1>2. /\ client' \in [Clients -> ClientRecord]
      /\ client'[c].phase = "requesting" /\ client'[c].runId = client[c].runId
      /\ client'[c].lastEventId = client[c].lastEventId
      /\ client'[c].attempts = client[c].attempts
      /\ \A d \in Clients : d # c => client'[d] = client[d]
  BY <1>1, TypesOf DEF ClientRecord, Phases
<1>3. /\ client[c].attempts \in Nat /\ client[c].lastEventId \in Nat
      /\ client[c].runId \in Nat /\ client[c].kind \in Kinds
  BY TypesOf DEF ClientRecord
<1>4. q0 \in RequestRecord
  BY <1>3 DEF Request, RequestRecord, NoRun
<1>5. Follows(c)
  BY DEF IInv
<1>6. Follows(c)'
  BY <1>1, <1>2, <1>5 DEF Follows, HasOfRun, WireIsNext, HasAll, IsCurrent
<1>7. ASSUME NEW q \in requests', q.client = c PROVE Asked(q)'
  <2>1. CASE q \in requests
    <3>1. Asked(q) /\ q.attempt \in Nat
      BY <2>1, RequestTypes DEF IInv, RequestRecord
    <3>. QED BY <1>1, <1>2, <1>3, <1>7, <3>1 DEF Asked, Listening
  <2>2. CASE q = q0 /\ client[c].runId # NoRun
    <3>1. /\ q.client = c /\ q.kind = "events" /\ q.attempt = client[c].attempts
          /\ q.run = client[c].runId /\ q.after = client[c].lastEventId
      BY <2>2 DEF Request
    <3>2. q.run \in DOMAIN runs
      BY <2>2, <3>1, <1>5 DEF Follows, HasOfRun
    <3>. QED BY <1>1, <1>2, <1>3, <2>2, <3>1, <3>2 DEF Asked, Listening
  <2>3. CASE q = q0 /\ client[c].runId = NoRun
    <3>1. /\ q.client = c /\ q.kind \in Kinds /\ q.attempt = client[c].attempts /\ q.after = 0
      BY <2>3, <1>3 DEF Request
    <3>. QED BY <1>1, <1>2, <1>3, <2>3, <3>1 DEF Asked, Listening, Kinds
  <2>. QED BY <1>1, <2>1, <2>2, <2>3
<1>8. \A q \in requests' : q \in requests \/ q.client = c
  BY <1>1 DEF Request
<1>9. requests' \subseteq RequestRecord
  BY <1>1, <1>4, RequestTypes
<1>. HIDE DEF q0
<1>. QED BY <1>1, <1>2, <1>6, <1>7, <1>8, <1>9, ClientStep, TypesOf

\* The next message is the envelope after the last one that the client has.
LEMMA ReadsNext ==
  ASSUME IInv, NEW c \in Clients, NEW type, Reads(c, type)
  PROVE  /\ LastRead(c) = client[c].lastEventId + 1
         /\ stream' \in [Clients -> StreamRecord]
         /\ stream'[c].run = stream[c].run /\ stream'[c].ended = stream[c].ended
         /\ Len(stream[c].wire) \in Nat \ {0}
         /\ Len(stream'[c].wire) = Len(stream[c].wire) - 1
         /\ stream'[c].wire = Numbered(client[c].lastEventId + 1, Len(stream[c].wire) - 1)
         /\ passed' \in [Clients -> Seq(Nat)]
         /\ passed'[c] = Numbered(from[c], (client[c].lastEventId + 1) - from[c])
         /\ \A d \in Clients : d # c => stream'[d] = stream[d] /\ passed'[d] = passed[d]
<1>. DEFINE s == stream[c].wire
            last == client[c].lastEventId
            n == last - from[c]
<1>1. /\ client[c].phase = "streaming" /\ s # <<>>
      /\ stream' = [stream EXCEPT ![c].wire = Tail(s)]
      /\ passed' = [passed EXCEPT ![c] = Append(passed[c], Head(s))]
  BY TypesOf DEF Reads
<1>2. /\ last \in Nat /\ from[c] \in Nat /\ stream[c] \in StreamRecord /\ passed[c] \in Seq(Nat)
      /\ s \in Seq(Nat) /\ stream \in [Clients -> StreamRecord]
      /\ passed \in [Clients -> Seq(Nat)]
  BY TypesOf DEF ClientRecord, StreamRecord
<1>3. Len(s) \in Nat \ {0}
  BY <1>1, <1>2, EmptySeq
<1>4. s = Numbered(last, Len(s)) /\ from[c] <= last /\ passed[c] = Numbered(from[c], n)
  BY <1>1 DEF IInv, Follows, WireIsNext, HasOfRun, HasAll
<1>5. Head(s) = last + 1 /\ Tail(s) = Numbered(last + 1, Len(s) - 1)
  BY <1>2, <1>3, <1>4, NumberedHead
<1>6. Tail(s) \in Seq(Nat) /\ Len(Tail(s)) = Len(s) - 1
  BY <1>1, <1>2, HeadTailProperties
<1>7. LastRead(c) = last + 1
  BY <1>2, <1>5 DEF LastRead, MathMax
<1>8. n \in Nat /\ from[c] + n + 1 = last + 1 /\ n + 1 = (last + 1) - from[c]
  BY SMTT(30), <1>2, <1>4
<1>9. Append(passed[c], Head(s)) = Numbered(from[c], (last + 1) - from[c])
  BY <1>2, <1>4, <1>5, <1>8, NumberedAppend
<1>10. Append(passed[c], Head(s)) \in Seq(Nat)
  BY <1>2, <1>5
<1>11. /\ stream' \in [Clients -> StreamRecord]
       /\ stream'[c].run = stream[c].run /\ stream'[c].ended = stream[c].ended
       /\ stream'[c].wire = Tail(s)
       /\ \A d \in Clients : d # c => stream'[d] = stream[d]
  BY <1>1, <1>2, <1>6 DEF StreamRecord
<1>12. /\ passed' \in [Clients -> Seq(Nat)]
       /\ passed'[c] = Append(passed[c], Head(s))
       /\ \A d \in Clients : d # c => passed'[d] = passed[d]
  BY <1>1, <1>2, <1>10
<1>. QED BY <1>3, <1>5, <1>6, <1>7, <1>9, <1>11, <1>12

\* Whatever the message says, the client has one envelope more.
LEMMA ReadsOne ==
  ASSUME IInv, NEW c \in Clients, NEW type, Reads(c, type),
         client' \in [Clients -> ClientRecord],
         client'[c].lastEventId = client[c].lastEventId + 1,
         client'[c].attempts = client[c].attempts,
         \/ client'[c].phase = "streaming" /\ client'[c].runId = stream[c].run
         \/ client'[c].phase = "ended" /\ client'[c].runId = client[c].runId,
         \A d \in Clients : d # c => client'[d] = client[d]
  PROVE  IInv'
<1>1. client[c].phase = "streaming" /\ UNCHANGED <<runs, requests, from>>
  BY DEF Reads
<1>2. /\ HasOfRun(c) /\ IsCurrent(c)
      /\ stream[c].run \in DOMAIN runs
      /\ client[c].runId \in {NoRun, stream[c].run}
      /\ client[c].lastEventId + Len(stream[c].wire) <= Len(runs[stream[c].run].envelopes)
  BY <1>1 DEF IInv, Follows, WireIsNext
<1>3. /\ client[c].lastEventId \in Nat /\ from[c] \in Nat
      /\ stream[c].run \in Nat \ {0} /\ Len(runs[stream[c].run].envelopes) \in Nat
      /\ client[c].attempts \in Nat
  BY <1>2, TypesOf DEF ClientRecord
<1>. DEFINE s == stream[c].wire
            t == stream'[c].wire
<1>4. /\ stream'[c].run = stream[c].run /\ stream'[c].ended = stream[c].ended
      /\ Len(s) \in Nat \ {0} /\ Len(t) = Len(s) - 1
      /\ t = Numbered(client[c].lastEventId + 1, Len(s) - 1)
      /\ passed'[c] = Numbered(from[c], (client[c].lastEventId + 1) - from[c])
  BY ReadsNext
<1>11. client[c].lastEventId + 1 <= Len(runs[stream[c].run].envelopes)
  <2>. DEFINE l == client[c].lastEventId
              e == Len(runs[stream[c].run].envelopes)
  <2>1. l \in Nat /\ e \in Nat /\ Len(s) \in Nat \ {0} /\ l + Len(s) <= e
    BY <1>2, <1>3, <1>4
  <2>. HIDE DEF l, e, s
  <2>2. l + 1 <= e
    BY <2>1
  <2>. QED BY <2>2 DEF l, e
<1>12. (client[c].lastEventId + 1) + Len(t) = client[c].lastEventId + Len(s)
  <2>1. client[c].lastEventId \in Nat /\ Len(s) \in Nat \ {0} /\ Len(t) = Len(s) - 1
    BY <1>3, <1>4
  <2>2. PICK l : l = client[c].lastEventId
    OBVIOUS
  <2>3. PICK m : m = Len(s)
    OBVIOUS
  <2>4. PICK n : n = Len(t)
    OBVIOUS
  <2>5. l \in Nat /\ m \in Nat \ {0} /\ n = m - 1
    BY <2>1, <2>2, <2>3, <2>4
  <2>6. (l + 1) + n = l + m
    BY <2>5
  <2>. QED BY <2>2, <2>3, <2>4, <2>6
<1>5. HasOfRun(c)'
  BY <1>1, <1>2, <1>3, <1>11 DEF HasOfRun, NoRun
<1>6. WireIsNext(c)'
  BY <1>1, <1>2, <1>3, <1>4, <1>12 DEF WireIsNext
<1>7. HasAll(c)'
  BY <1>1, <1>4 DEF HasAll
<1>8. IsCurrent(c)'
  BY <1>1, <1>2, <1>3, <1>4, <1>12 DEF IsCurrent, Active
<1>9. ASSUME NEW q \in requests', q.client = c PROVE Asked(q)'
  <2>1. Asked(q)
    BY <1>1 DEF IInv
  <2>. QED BY <1>1, <1>9, <2>1 DEF Asked, Listening
<1>10. requests' \subseteq RequestRecord /\ from' \in [Clients -> Nat]
  BY <1>1, RequestTypes, TypesOf
<1>. QED BY <1>1, <1>5, <1>6, <1>7, <1>8, <1>9, <1>10, ReadsNext, ClientStep DEF Follows

LEMMA ReadingStep ==
  ASSUME IInv, NEW c \in Clients, Reading(c)
  PROVE  IInv'
<1>. DEFINE last == client[c].lastEventId + 1
            run == stream[c].run
<1>1. /\ client \in [Clients -> ClientRecord] /\ client[c] \in ClientRecord
      /\ last \in Nat /\ run \in Nat
  BY TypesOf DEF ClientRecord, StreamRecord
<1>2. CASE ReadsStart(c)
  <2>1. Reads(c, "run_start") /\ client[c].phase = "streaming"
    BY <1>2 DEF ReadsStart, Reads
  <2>2. LastRead(c) = last
    BY <2>1, ReadsNext
  <2>. DEFINE v == [client[c] EXCEPT !.lastEventId = last, !.runId = run,
                                     !.cancel = IF @ = "wanted" THEN "sent" ELSE @]
  <2>3. client' = [client EXCEPT ![c] = v]
    BY <1>1, <1>2, <2>2 DEF ReadsStart
  <2>. HIDE DEF last, run
  <2>4. /\ v \in ClientRecord
        /\ v.lastEventId = last /\ v.attempts = client[c].attempts
        /\ v.phase = "streaming" /\ v.runId = run
    BY <1>1, <2>1 DEF ClientRecord
  <2>. HIDE DEF v
  <2>. QED BY <1>1, <2>1, <2>3, <2>4, ReadsOne DEF last, run
<1>3. CASE ReadsEvent(c)
  <2>1. Reads(c, "event") /\ client[c].phase = "streaming"
    BY <1>3 DEF ReadsEvent, Reads
  <2>2. LastRead(c) = last
    BY <2>1, ReadsNext
  <2>. DEFINE v == [client[c] EXCEPT !.lastEventId = last, !.runId = run]
  <2>3. client' = [client EXCEPT ![c] = v]
    BY <1>1, <1>3, <2>2 DEF ReadsEvent
  <2>. HIDE DEF last, run
  <2>4. /\ v \in ClientRecord
        /\ v.lastEventId = last /\ v.attempts = client[c].attempts
        /\ v.phase = "streaming" /\ v.runId = run
    BY <1>1, <2>1 DEF ClientRecord
  <2>. HIDE DEF v
  <2>. QED BY <1>1, <2>1, <2>3, <2>4, ReadsOne DEF last, run
<1>4. CASE ReadsLast(c)
  <2>1. Reads(c, "last")
    BY <1>4 DEF ReadsLast
  <2>2. LastRead(c) = last
    BY <2>1, ReadsNext
  <2>. DEFINE v == [client[c] EXCEPT !.lastEventId = last, !.phase = "ended"]
  <2>3. client' = [client EXCEPT ![c] = v]
    BY <1>1, <1>4, <2>2 DEF ReadsLast
  <2>. HIDE DEF last
  <2>4. /\ v \in ClientRecord
        /\ v.lastEventId = last /\ v.attempts = client[c].attempts
        /\ v.phase = "ended" /\ v.runId = client[c].runId
    BY <1>1 DEF ClientRecord, Phases
  <2>. HIDE DEF v
  <2>. QED BY <1>1, <2>1, <2>3, <2>4, ReadsOne DEF last
<1>. QED BY <1>2, <1>3, <1>4 DEF Reading

LEMMA CancelStep ==
  ASSUME IInv, NEW c \in Clients, Cancel(c)
  PROVE  IInv'
<1>1. /\ client' = [client EXCEPT ![c].cancel =
                      IF client[c].runId = NoRun THEN "wanted" ELSE "sent"]
      /\ UNCHANGED <<runs, requests, stream, from, passed>>
  BY DEF Cancel
<1>2. /\ client' \in [Clients -> ClientRecord]
      /\ client'[c].phase = client[c].phase /\ client'[c].runId = client[c].runId
      /\ client'[c].lastEventId = client[c].lastEventId
      /\ client'[c].attempts = client[c].attempts
      /\ \A d \in Clients : d # c => client'[d] = client[d]
  BY ZenonT(60), <1>1, TypesOf DEF ClientRecord
<1>3. Follows(c) /\ \A q \in requests : Asked(q)
  BY DEF IInv
<1>4. Follows(c)'
  BY <1>1, <1>2, <1>3 DEF Follows, HasOfRun, WireIsNext, HasAll, IsCurrent, Active
<1>5. ASSUME NEW q \in requests', q.client = c PROVE Asked(q)'
  BY <1>1, <1>2, <1>3, <1>5 DEF Asked, Listening
<1>. QED BY <1>1, <1>2, <1>4, <1>5, ClientStep, TypesOf, RequestTypes

LEMMA CloseStep ==
  ASSUME IInv, NEW c \in Clients, Close(c)
  PROVE  IInv'
<1>1. /\ client' = [client EXCEPT ![c].phase = "closed"]
      /\ stream' = [stream EXCEPT ![c] = NoStream]
      /\ requests' \subseteq requests
      /\ UNCHANGED <<runs, from, passed>>
  BY DEF Close
<1>2. /\ client' \in [Clients -> ClientRecord]
      /\ client'[c].phase = "closed" /\ client'[c].runId = client[c].runId
      /\ client'[c].lastEventId = client[c].lastEventId
      /\ client'[c].attempts = client[c].attempts
      /\ \A d \in Clients : d # c => client'[d] = client[d]
  BY ZenonT(60), <1>1, TypesOf DEF ClientRecord, Phases
<1>3. /\ stream' \in [Clients -> StreamRecord]
      /\ \A d \in Clients : d # c => stream'[d] = stream[d]
  BY <1>1, TypesOf DEF StreamRecord, NoStream, NoRun
<1>4. Follows(c)'
  BY <1>1, <1>2, StopsFollowing
<1>5. ASSUME NEW q \in requests', q.client = c PROVE Asked(q)'
  <2>1. Asked(q)
    BY <1>1 DEF IInv
  <2>. QED BY <1>1, <1>2, <1>5, <2>1 DEF Asked, Listening
<1>. QED BY <1>1, <1>2, <1>3, <1>4, <1>5, ClientStep, TypesOf, RequestTypes

-----------------------------------------------------------------------------
(***************************************************************************)
(* The server's handlers.                                                  *)
(***************************************************************************)
\* A request that is listened for asks for the envelopes after the client's last one.
LEMMA AsksForTheRest ==
  ASSUME IInv, NEW q \in requests, Listening(q)
  PROVE  /\ q.client \in Clients
         /\ client[q.client].phase = "requesting"
         /\ q.after = client[q.client].lastEventId /\ q.after \in Nat
         /\ \/ q.kind = "events" /\ q.run = client[q.client].runId /\ q.run \in DOMAIN runs
               /\ q.after <= Len(runs[q.run].envelopes)
            \/ q.kind # "events" /\ q.after = 0 /\ client[q.client].runId = NoRun
<1>1. q.client \in Clients /\ q.after \in Nat
  BY RequestTypes DEF RequestRecord
<1>2. client[q.client].phase = "requesting" /\ HasOfRun(q.client) /\ Asked(q)
  BY <1>1 DEF Listening, IInv, Follows
<1>. QED BY <1>1, <1>2 DEF HasOfRun, Asked

\* subscribe(): the wire takes up where the client is, and ends where the run is.
LEMMA StreamRunFollows ==
  ASSUME IInv, NEW q \in requests, NEW r, StreamRun(q, r, runs'[r]),
         \A s \in DOMAIN runs : s \in DOMAIN runs' /\ runs'[s] = runs[s],
         r \in DOMAIN runs', r \in Nat, runs'[r] \in RunRecord, runs'[r].status # "lost",
         q.kind = "events" => q.run = r,
         UNCHANGED <<from, passed>>
  PROVE  /\ client' \in [Clients -> ClientRecord] /\ stream' \in [Clients -> StreamRecord]
         /\ \A d \in Clients : d # q.client => client'[d] = client[d] /\ stream'[d] = stream[d]
         /\ Follows(q.client)'
         /\ \A p \in requests : p.client = q.client => Asked(p)'
<1>. DEFINE c == q.client
            run == runs'[r]
            n == Len(run.envelopes)
<1>1. c \in Clients /\ Follows(c) /\ Asked(q)
  BY RequestTypes DEF RequestRecord, IInv
<1>2. CASE ~ Listening(q)
  <2>1. UNCHANGED <<stream, client>>
    BY <1>2 DEF StreamRun
  <2>2. Follows(c)'
    BY <1>1, <2>1, OtherClient
  <2>3. ASSUME NEW p \in requests PROVE Asked(p)'
    <3>1. Asked(p)
      BY DEF IInv
    <3>. QED BY <2>1, <3>1 DEF Asked, Listening
  <2>. QED BY <2>1, <2>2, <2>3, TypesOf
<1>3. CASE Listening(q)
  <2>. DEFINE v == [run |-> r, wire |-> Replay(run, q.after), ended |-> Finished(run)]
  <2>1. stream' = [stream EXCEPT ![c] = v] /\ client' = [client EXCEPT ![c].phase = "streaming"]
    BY <1>3 DEF StreamRun
  <2>2. /\ client[c].phase = "requesting" /\ q.after = client[c].lastEventId
        /\ q.after \in Nat
        /\ \/ q.kind = "events" /\ q.run = client[c].runId /\ q.run \in DOMAIN runs
              /\ q.after <= Len(runs[q.run].envelopes)
           \/ q.kind # "events" /\ q.after = 0 /\ client[c].runId = NoRun
    BY <1>3, AsksForTheRest
  <2>3. n \in Nat /\ q.after <= n /\ client[c].runId \in {NoRun, r}
    <3>1. run.envelopes \in Seq(Types)
      BY DEF RunRecord
    <3>2. n \in Nat
      BY <3>1
    <3>3. CASE q.kind = "events"
      <4>1. q.run = r /\ run = runs[r]
        BY <2>2, <3>3
      <4>. QED BY <2>2, <3>2, <3>3, <4>1
    <3>4. CASE q.kind # "events"
      BY <2>2, <3>2, <3>4
    <3>. QED BY <3>3, <3>4
  <2>4. n - q.after \in Nat /\ q.after + (n - q.after) = n
    BY <2>2, <2>3
  <2>5. /\ v.wire = Numbered(q.after, n - q.after) /\ v.wire \in Seq(Nat)
        /\ Len(v.wire) = n - q.after
    <3>1. v.wire = Numbered(q.after, n - q.after)
      BY DEF Replay, Numbered
    <3>2. PICK l \in Nat : l = n - q.after
      BY <2>4
    <3>3. PICK k \in Nat : k = q.after
      BY <2>2
    <3>4. Numbered(k, l) \in Seq(Nat) /\ Len(Numbered(k, l)) = l
      BY NumberedSeq
    <3>. QED BY <3>1, <3>2, <3>3, <3>4
  <2>6. v \in StreamRecord /\ v.run = r
    BY <2>5 DEF StreamRecord, Finished
  <2>7. ~ v.ended => run.status \in {"starting", "running"}
    BY DEF Finished, RunRecord
  <2>. HIDE DEF v
  <2>8. /\ client' \in [Clients -> ClientRecord]
        /\ client'[c].phase = "streaming" /\ client'[c].runId = client[c].runId
        /\ client'[c].lastEventId = client[c].lastEventId
        /\ client'[c].attempts = client[c].attempts
        /\ \A d \in Clients : d # c => client'[d] = client[d]
    <3>1. client \in [Clients -> ClientRecord] /\ c \in Clients
      BY <1>1, TypesOf
    <3>. HIDE DEF c
    <3>. QED BY <2>1, <3>1 DEF ClientRecord, Phases
  <2>9. /\ stream' \in [Clients -> StreamRecord] /\ stream'[c] = v
        /\ \A d \in Clients : d # c => stream'[d] = stream[d]
    BY <1>1, <2>1, <2>6, TypesOf
  <2>10. HasOfRun(c)'
    BY <1>1, <2>2, <2>8 DEF Follows, HasOfRun
  <2>11. WireIsNext(c)'
    BY <2>2, <2>3, <2>4, <2>5, <2>6, <2>8, <2>9 DEF WireIsNext
  <2>12. HasAll(c)'
    BY <1>1, <2>8 DEF Follows, HasAll
  <2>13. IsCurrent(c)'
    BY <2>2, <2>4, <2>5, <2>6, <2>7, <2>8, <2>9 DEF IsCurrent, Active
  <2>14. ASSUME NEW p \in requests, p.client = c PROVE Asked(p)'
    <3>1. Asked(p)
      BY DEF IInv
    <3>. QED BY <2>2, <2>8, <2>14, <3>1 DEF Asked, Listening
  <2>. QED BY <2>8, <2>9, <2>10, <2>11, <2>12, <2>13, <2>14 DEF Follows
<1>. QED BY <1>2, <1>3

\* A run more: it is the last one.
LEMMA AppendRun ==
  ASSUME IInv, NEW q \in requests, NEW kind \in Kinds,
         runs' = Append(runs, NewRun(q, kind))
  PROVE  /\ runs' \in Seq(RunRecord)
         /\ DOMAIN runs' = DOMAIN runs \cup {Len(runs) + 1}
         /\ Len(runs) + 1 \in Nat /\ Len(runs) + 1 \notin DOMAIN runs
         /\ \A s \in DOMAIN runs : runs'[s] = runs[s]
         /\ NewRun(q, kind) \in RunRecord /\ NewRun(q, kind).status = "starting"
         /\ NewRun(q, kind).owner = q.client /\ ~ NewRun(q, kind).gone
         /\ runs'[Len(runs) + 1] = NewRun(q, kind)
<1>1. /\ runs \in Seq(RunRecord) /\ DOMAIN runs = 1..Len(runs) /\ Len(runs) \in Nat
  BY TypesOf
<1>2. q.client \in Clients
  BY RequestTypes DEF RequestRecord
<1>3. /\ NewRun(q, kind) \in RunRecord /\ NewRun(q, kind).status = "starting"
      /\ NewRun(q, kind).owner = q.client /\ ~ NewRun(q, kind).gone
  BY <1>2 DEF NewRun, RunRecord
<1>. HIDE DEF NewRun
<1>4. /\ runs' \in Seq(RunRecord) /\ Len(runs') = Len(runs) + 1
      /\ \A s \in 1..Len(runs) : runs'[s] = runs[s]
      /\ runs'[Len(runs) + 1] = NewRun(q, kind)
  BY <1>1, <1>3, AppendProperties
<1>5. DOMAIN runs' = 1..(Len(runs) + 1)
  BY <1>1, <1>4
<1>. QED BY <1>1, <1>3, <1>4, <1>5

\* startRun() for a request that is answered.
LEMMA StartRunStep ==
  ASSUME IInv, NEW q \in requests, q.kind # "events", NEW kind \in Kinds,
         StartRun(q, kind), requests' = requests \ {q}, UNCHANGED <<from, passed>>
  PROVE  IInv'
<1>1. q.client \in Clients /\ \A s \in DOMAIN runs : runs[s] \in RunRecord
  BY RequestTypes, TypesOf DEF RequestRecord
<1>2. requests' \subseteq RequestRecord /\ \A p \in requests' : p \in requests
  BY RequestTypes
<1>3. from' \in [Clients -> Nat] /\ passed' \in [Clients -> Seq(Nat)]
  BY TypesOf
<1>4. CASE OwnRuns(q.client) = {} /\ runs' = Append(runs, NewRun(q, kind))
           /\ StreamRun(q, Len(runs) + 1, NewRun(q, kind))
  <2>1. /\ runs' \in Seq(RunRecord)
        /\ DOMAIN runs' = DOMAIN runs \cup {Len(runs) + 1}
        /\ Len(runs) + 1 \in Nat /\ Len(runs) + 1 \notin DOMAIN runs
        /\ \A s \in DOMAIN runs : runs'[s] = runs[s]
        /\ runs'[Len(runs) + 1] \in RunRecord /\ runs'[Len(runs) + 1].status = "starting"
        /\ runs'[Len(runs) + 1].owner = q.client /\ ~ runs'[Len(runs) + 1].gone
        /\ runs'[Len(runs) + 1] = NewRun(q, kind)
    BY <1>4, AppendRun
  <2>2. LostIsGone'
    BY <2>1 DEF IInv, LostIsGone
  <2>3. OneRunEach'
    <3>1. ASSUME NEW s \in DOMAIN runs, runs[s].owner = q.client PROVE runs[s].gone
      <4>1. runs[s].gone \in BOOLEAN
        BY <1>1 DEF RunRecord
      <4>. QED BY <1>4, <3>1, <4>1 DEF OwnRuns
    <3>2. \A s \in DOMAIN runs : s < Len(runs) + 1
      BY TypesOf
    <3>3. \A s \in DOMAIN runs : s \in Nat
      BY TypesOf
    <3>. QED BY <2>1, <3>1, <3>2, <3>3 DEF IInv, OneRunEach
  <2>4. /\ client' \in [Clients -> ClientRecord] /\ stream' \in [Clients -> StreamRecord]
        /\ \A d \in Clients : d # q.client => client'[d] = client[d] /\ stream'[d] = stream[d]
        /\ Follows(q.client)'
        /\ \A p \in requests : p.client = q.client => Asked(p)'
    BY <1>4, <2>1, StreamRunFollows
  <2>5. TypeOK'
    <3>1. \A s \in DOMAIN runs' : Active(s)' => ~ runs'[s].gone
      BY <2>1 DEF IInv, TypeOK, Active
    <3>. QED BY <1>2, <1>3, <2>1, <2>4, <3>1
             DEF TypeOK, ClientRecord, StreamRecord, RequestRecord
  <2>. QED BY <1>1, <1>2, <2>1, <2>2, <2>3, <2>4, <2>5, OneClient
<1>5. CASE runs' = runs /\ \E r \in OwnRuns(q.client) : StreamRun(q, r, runs[r])
  <2>1. PICK r \in OwnRuns(q.client) : StreamRun(q, r, runs[r])
    BY <1>5
  <2>2. r \in DOMAIN runs /\ r \in Nat /\ runs[r] \in RunRecord /\ runs[r].status # "lost"
    BY <1>1, TypesOf DEF OwnRuns, IInv, LostIsGone
  <2>3. /\ client' \in [Clients -> ClientRecord] /\ stream' \in [Clients -> StreamRecord]
        /\ \A d \in Clients : d # q.client => client'[d] = client[d] /\ stream'[d] = stream[d]
        /\ Follows(q.client)'
        /\ \A p \in requests : p.client = q.client => Asked(p)'
    BY <1>5, <2>1, <2>2, StreamRunFollows
  <2>. QED BY <1>1, <1>2, <1>3, <1>5, <2>3, ClientStep
<1>. QED BY <1>4, <1>5 DEF StartRun

LEMMA PostRunStep ==
  ASSUME IInv, NEW q \in requests, PostRun(q)
  PROVE  IInv'
<1>1. q.kind # "events" /\ q.kind \in Kinds
  BY DEF PostRun, Kinds
<1>. QED BY <1>1, StartRunStep DEF PostRun

LEMMA EditStartsStep ==
  ASSUME IInv, NEW q \in requests, EditStarts(q)
  PROVE  IInv'
<1>1. q.kind # "events" /\ "edit" \in Kinds
  BY DEF EditStarts, Kinds
<1>. QED BY <1>1, StartRunStep DEF EditStarts

\* An answer that is an error.
LEMMA RefuseStep ==
  ASSUME IInv, NEW q \in requests, Refuse(q), requests' = requests \ {q},
         UNCHANGED <<runs, stream, from, passed>>
  PROVE  IInv'
<1>1. q.client \in Clients /\ requests' \subseteq RequestRecord
  BY RequestTypes DEF RequestRecord
<1>2. CASE Listening(q)
  <2>1. Caught(q.client) /\ client[q.client].phase = "requesting"
    BY <1>2 DEF Refuse, Listening
  <2>2. Follows(q.client)'
    BY <1>1, <2>1, CaughtClient, StopsFollowing
  <2>3. ASSUME NEW p \in requests', p.client = q.client PROVE Asked(p)'
    <3>1. Asked(p) /\ p.attempt \in Nat
      BY RequestTypes DEF IInv, RequestRecord
    <3>. QED BY <1>1, <2>1, <2>3, <3>1, CaughtClient DEF Asked, Listening
  <2>. QED BY <1>1, <2>1, <2>2, <2>3, CaughtClient, ClientStep, TypesOf
<1>3. CASE ~ Listening(q)
  <2>1. UNCHANGED client
    BY <1>3 DEF Refuse
  <2>2. Follows(q.client)'
    BY <1>1, <2>1, OtherClient DEF IInv
  <2>3. ASSUME NEW p \in requests' PROVE Asked(p)'
    <3>1. Asked(p)
      BY DEF IInv
    <3>. QED BY <2>1, <3>1 DEF Asked, Listening
  <2>. QED BY <1>1, <2>1, <2>2, <2>3, ClientStep, TypesOf
<1>. QED BY <1>2, <1>3

LEMMA EditRefusedStep ==
  ASSUME IInv, NEW q \in requests, EditRefused(q) \/ EditGivenUp(q)
  PROVE  IInv'
BY RefuseStep DEF EditRefused, EditGivenUp

LEMMA EditAcceptedStep ==
  ASSUME IInv, NEW q \in requests, EditAccepted(q)
  PROVE  IInv'
<1>. DEFINE e == [q EXCEPT !.kind = "edit accepted"]
<1>1. q \in RequestRecord /\ q.client \in Clients
  BY RequestTypes DEF RequestRecord
<1>2. /\ e \in RequestRecord /\ e.client = q.client /\ e.kind = "edit accepted"
      /\ e.attempt = q.attempt /\ e.after = q.after
  BY <1>1 DEF RequestRecord
<1>3. /\ q.kind = "edit" /\ requests' = (requests \ {q}) \cup {e}
      /\ UNCHANGED <<runs, client, stream, from, passed>>
  BY DEF EditAccepted
<1>. HIDE DEF e
<1>4. requests' \subseteq RequestRecord
  BY <1>2, <1>3, RequestTypes
<1>5. Follows(q.client)'
  BY <1>1, <1>3, OtherClient DEF IInv
<1>6. ASSUME NEW p \in requests' PROVE Asked(p)'
  <2>1. CASE p \in requests
    <3>1. Asked(p)
      BY <2>1 DEF IInv
    <3>. QED BY <1>3, <3>1 DEF Asked, Listening
  <2>2. CASE p = e
    <3>1. Asked(q)
      BY DEF IInv
    <3>. QED BY <1>2, <1>3, <2>2, <3>1 DEF Asked, Listening
  <2>. QED BY <1>3, <2>1, <2>2
<1>7. \A p \in requests' : p \in requests \/ p.client = q.client
  BY <1>2, <1>3
<1>. QED BY <1>1, <1>3, <1>4, <1>5, <1>6, <1>7, ClientStep, TypesOf

LEMMA GetEventsStep ==
  ASSUME IInv, NEW q \in requests, GetEvents(q)
  PROVE  IInv'
<1>1. /\ q.kind = "events" /\ requests' = requests \ {q} /\ UNCHANGED <<runs, from, passed>>
  BY DEF GetEvents
<1>2. q.client \in Clients /\ q.run \in DOMAIN runs
  BY <1>1, RequestTypes DEF RequestRecord, IInv, Asked
<1>3. CASE runs[q.run].gone
  BY <1>1, <1>3, RefuseStep DEF GetEvents
<1>4. CASE ~ runs[q.run].gone
  <2>1. StreamRun(q, q.run, runs[q.run])
    BY <1>4 DEF GetEvents
  <2>2. q.run \in Nat /\ runs[q.run] \in RunRecord /\ runs[q.run].status # "lost"
    BY <1>2, <1>4, TypesOf DEF IInv, LostIsGone
  <2>3. /\ client' \in [Clients -> ClientRecord] /\ stream' \in [Clients -> StreamRecord]
        /\ \A d \in Clients : d # q.client => client'[d] = client[d] /\ stream'[d] = stream[d]
        /\ Follows(q.client)'
        /\ \A p \in requests : p.client = q.client => Asked(p)'
    BY <1>1, <1>2, <2>1, <2>2, StreamRunFollows
  <2>. QED BY <1>1, <1>2, <2>3, ClientStep, TypesOf, RequestTypes
<1>. QED BY <1>3, <1>4

-----------------------------------------------------------------------------
(***************************************************************************)
(* consumeRun(), and the end of a run's record.                            *)
(***************************************************************************)
\* The rest of the invariant when the runs are those they were and nothing is forgotten of
\* their logs: what is to be shown is about the clients.
LEMMA RunsStep ==
  ASSUME IInv, runs' \in Seq(RunRecord), DOMAIN runs' = DOMAIN runs,
         \A r \in DOMAIN runs : /\ runs'[r].owner = runs[r].owner
                                /\ runs[r].gone => runs'[r].gone
                                /\ runs'[r].status = "lost" => runs'[r].gone
                                /\ Active(r)' => ~ runs'[r].gone,
         client' = client, from' = from, passed' = passed, requests' \subseteq requests,
         stream' \in [Clients -> StreamRecord],
         \A c \in Clients : Follows(c)'
  PROVE  IInv'
<1>1. TypeOK'
  BY DEF IInv, TypeOK, StreamRecord
<1>2. LostIsGone' /\ OneRunEach'
  BY DEF IInv, LostIsGone, OneRunEach
<1>3. ASSUME NEW q \in requests' PROVE Asked(q)'
  <2>1. Asked(q)
    BY DEF IInv
  <2>. QED BY <2>1 DEF Asked, Listening
<1>. QED BY <1>1, <1>2, <1>3 DEF IInv

\* One run's record is changed.
LEMMA ChangeRun ==
  ASSUME IInv, NEW r \in DOMAIN runs, NEW v \in RunRecord, runs' = [runs EXCEPT ![r] = v]
  PROVE  /\ runs' \in Seq(RunRecord) /\ DOMAIN runs' = DOMAIN runs /\ runs'[r] = v
         /\ \A s \in DOMAIN runs : s # r => runs'[s] = runs[s]
<1>1. runs \in Seq(RunRecord) /\ r \in 1..Len(runs) /\ DOMAIN runs = 1..Len(runs)
  BY TypesOf
<1>2. /\ runs' \in Seq(RunRecord) /\ Len(runs') = Len(runs)
      /\ \A s \in 1..Len(runs) : runs'[s] = IF s = r THEN v ELSE runs[s]
  BY <1>1, ExceptSeq
<1>3. DOMAIN runs' = 1..Len(runs)
  BY <1>2
<1>. QED BY <1>1, <1>2, <1>3

\* What the run says is at the end of its log and on the wires that are open, which end
\* with it.
LEMMA AppendStep ==
  ASSUME IInv, NEW r \in DOMAIN runs, NEW types \in Seq(Types), NEW status,
         AppendEnvelopes(r, types, status), Active(r),
         \/ status = "running" /\ Last(types) # "last"
         \/ status = "finished" /\ Last(types) = "last"
  PROVE  IInv'
<1>. DEFINE log == runs[r].envelopes
            n == Len(log)
            m == Len(types)
            new == [i \in 1..m |-> n + i]
            longer == log \o types
            v == [runs[r] EXCEPT !.envelopes = longer, !.status = status]
<1>1. /\ runs[r] \in RunRecord /\ log \in Seq(Types) /\ n \in Nat /\ m \in Nat
      /\ status \in {"running", "finished"} /\ ~ runs[r].gone
  <2>1. runs[r] \in RunRecord /\ log \in Seq(Types) /\ n \in Nat
    BY TypesOf
  <2>2. m \in Nat
    OBVIOUS
  <2>3. ~ runs[r].gone
    BY DEF IInv, TypeOK
  <2>. QED BY <2>1, <2>2, <2>3
<1>2. longer \in Seq(Types) /\ Len(longer) = n + m
  BY <1>1, ConcatProperties
<1>3. runs' = [runs EXCEPT ![r] = v]
  BY <1>1, TypesOf DEF AppendEnvelopes
<1>4. /\ v \in RunRecord /\ v.owner = runs[r].owner /\ v.gone = runs[r].gone
      /\ v.status = status /\ Len(v.envelopes) = n + m
  <2>. HIDE DEF longer, n, m
  <2>1. v.envelopes = longer
    BY <1>1 DEF RunRecord
  <2>2. /\ v \in RunRecord /\ v.owner = runs[r].owner /\ v.gone = runs[r].gone
        /\ v.status = status
    BY <1>1, <1>2 DEF RunRecord
  <2>. QED BY <1>2, <2>1, <2>2
<1>. HIDE DEF v
<1>5. /\ runs' \in Seq(RunRecord) /\ DOMAIN runs' = DOMAIN runs /\ runs'[r] = v
      /\ \A s \in DOMAIN runs : s # r => runs'[s] = runs[s]
  BY <1>3, <1>4, ChangeRun
<1>6. UNCHANGED <<requests, client, from, passed>>
  BY DEF AppendEnvelopes
<1>7. stream' = [c \in Clients |->
         IF Subscribed(c, r)
         THEN [stream[c] EXCEPT !.wire = @ \o new, !.ended = Last(types) = "last"]
         ELSE stream[c]]
  BY DEF AppendEnvelopes
<1>8. new = Numbered(n, m)
  BY DEF Numbered
<1>9. new \in Seq(Nat) /\ Len(new) = m
  BY ZenonT(60), <1>1, <1>8, NumberedSeq
<1>. HIDE DEF new
<1>10. ASSUME NEW c \in Clients, Subscribed(c, r)
       PROVE  /\ stream'[c] \in StreamRecord /\ stream'[c].run = r
              /\ stream'[c].wire = stream[c].wire \o new
              /\ Len(stream'[c].wire) = Len(stream[c].wire) + m
              /\ Len(stream[c].wire) \in Nat
              /\ stream'[c].ended <=> Last(types) = "last"
  <2>. DEFINE ended == Last(types) = "last"
              wire == stream[c].wire \o new
  <2>1. /\ stream[c] \in StreamRecord /\ stream[c].wire \in Seq(Nat) /\ stream[c].run = r
        /\ Len(stream[c].wire) \in Nat
    BY <1>10, WireTypes DEF Subscribed
  <2>2. wire \in Seq(Nat) /\ Len(wire) = Len(stream[c].wire) + m
    <3>1. wire \in Seq(Nat) /\ Len(wire) = Len(stream[c].wire) + Len(new)
      BY <1>9, <2>1, ConcatProperties
    <3>. QED BY <1>9, <3>1
  <2>3. stream'[c] = [stream[c] EXCEPT !.wire = wire, !.ended = ended]
    BY <1>7, <1>10
  <2>4. ended \in BOOLEAN
    OBVIOUS
  <2>. HIDE DEF ended, wire
  <2>5. /\ stream'[c] \in StreamRecord /\ stream'[c].run = r
        /\ stream'[c].wire = wire /\ stream'[c].ended = ended
    BY <2>1, <2>2, <2>3, <2>4 DEF StreamRecord
  <2>. QED BY <2>1, <2>2, <2>5 DEF ended, wire
<1>11. ASSUME NEW c \in Clients, ~ Subscribed(c, r) PROVE stream'[c] = stream[c]
  BY <1>7, <1>11
<1>12. stream' \in [Clients -> StreamRecord]
  <2>1. ASSUME NEW c \in Clients PROVE stream'[c] \in StreamRecord
    <3>1. stream[c] \in StreamRecord
      BY TypesOf
    <3>. QED BY <1>10, <1>11, <3>1
  <2>2. stream' = [c \in Clients |-> stream'[c]]
    BY <1>7
  <2>. QED BY <2>1, <2>2
<1>13. ASSUME NEW s \in DOMAIN runs
       PROVE  /\ Len(runs[s].envelopes) \in Nat /\ Len(runs'[s].envelopes) \in Nat
              /\ Len(runs[s].envelopes) <= Len(runs'[s].envelopes)
  <2>1. Len(runs[s].envelopes) \in Nat
    BY TypesOf
  <2>2. CASE s = r
    BY <1>1, <1>4, <1>5, <2>2
  <2>3. CASE s # r
    BY <1>5, <2>1, <2>3
  <2>. QED BY <2>2, <2>3
<1>14. ASSUME NEW c \in Clients PROVE Follows(c)'
  <2>1. Follows(c) /\ client[c].lastEventId \in Nat
    BY TypesOf DEF IInv, ClientRecord
  <2>2. HasOfRun(c)'
    BY <1>5, <1>6, <1>13, <2>1 DEF Follows, HasOfRun
  <2>3. HasAll(c)'
    BY <1>6, <2>1 DEF Follows, HasAll
  <2>4. CASE Subscribed(c, r)
    <3>. DEFINE last == client[c].lastEventId
                k == Len(stream[c].wire)
    <3>1. /\ client[c].phase = "streaming" /\ stream[c].run = r
          /\ stream[c].wire = Numbered(last, k) /\ last + k = n
          /\ client[c].runId \in {NoRun, r}
      BY <2>1, <2>4 DEF Follows, WireIsNext, IsCurrent, Subscribed
    <3>2. k \in Nat /\ Len(stream'[c].wire) = k + m
      BY <1>10, <2>4
    <3>3. last + (k + m) = n + m
      <4>1. last \in Nat /\ k \in Nat /\ m \in Nat /\ last + k = n
        BY <1>1, <2>1, <3>1, <3>2
      <4>. HIDE DEF last, k, m, n
      <4>. QED BY <4>1
    <3>4. stream'[c].wire = Numbered(last, k + m)
      <4>1. stream'[c].wire = Numbered(last, k) \o Numbered(last + k, m)
        BY <1>8, <1>10, <2>4, <3>1
      <4>. QED BY <1>1, <2>1, <3>2, <4>1, NumberedConcat
    <3>5. WireIsNext(c)'
      BY <1>1, <1>4, <1>5, <1>6, <1>10, <2>4, <3>1, <3>2, <3>3, <3>4 DEF WireIsNext
    <3>6. IsCurrent(c)'
      BY <1>4, <1>5, <1>6, <1>10, <2>4, <3>1, <3>2, <3>3 DEF IsCurrent, Active
    <3>. QED BY <2>2, <2>3, <3>5, <3>6 DEF Follows
  <2>5. CASE ~ Subscribed(c, r)
    <3>1. stream'[c] = stream[c] /\ stream[c] \in StreamRecord /\ Len(stream[c].wire) \in Nat
      BY <1>11, <2>5, WireTypes
    <3>2. WireIsNext(c)'
      <4>. SUFFICES ASSUME client[c].phase = "streaming"
                    PROVE  WireIsNext(c)'
        BY <1>6 DEF WireIsNext
      <4>. DEFINE had == Len(runs[stream[c].run].envelopes)
                  has == Len(runs'[stream[c].run].envelopes)
                  upTo == client[c].lastEventId + Len(stream[c].wire)
      <4>1. stream[c].run \in DOMAIN runs /\ upTo <= had /\ upTo \in Nat
        BY <2>1, <3>1 DEF Follows, WireIsNext
      <4>2. had \in Nat /\ has \in Nat /\ had <= has
        BY <1>13, <4>1
      <4>. HIDE DEF had, has, upTo
      <4>3. upTo <= has
        BY <4>1, <4>2
      <4>. QED BY <1>5, <1>6, <2>1, <3>1, <4>1, <4>3 DEF Follows, WireIsNext, has, upTo
    <3>3. IsCurrent(c)'
      BY <1>5, <1>6, <2>1, <2>5, <3>1 DEF Follows, WireIsNext, IsCurrent, Subscribed, Active
    <3>. QED BY <2>2, <2>3, <3>2, <3>3 DEF Follows
  <2>. QED BY <2>4, <2>5
<1>15. ASSUME NEW s \in DOMAIN runs
       PROVE  /\ runs'[s].owner = runs[s].owner
              /\ runs[s].gone => runs'[s].gone
              /\ runs'[s].status = "lost" => runs'[s].gone
              /\ Active(s)' => ~ runs'[s].gone
  <2>1. CASE s = r
    BY <1>1, <1>4, <1>5, <2>1
  <2>2. CASE s # r
    BY <1>5, <2>2 DEF IInv, TypeOK, LostIsGone, Active
  <2>. QED BY <2>1, <2>2
<1>. QED BY <1>5, <1>6, <1>12, <1>14, <1>15, RunsStep

LEMMA RunStartsStep ==
  ASSUME IInv, NEW r \in DOMAIN runs, RunStarts(r)
  PROVE  IInv'
<1>. DEFINE types == <<"run_start", "event">>
<1>1. types \in Seq(Types) /\ Last(types) = "event"
  BY DEF Types, Last
<1>2. AppendEnvelopes(r, types, "running") /\ Active(r)
  BY DEF RunStarts, Active
<1>. HIDE DEF types
<1>. QED BY <1>1, <1>2, AppendStep

LEMMA RunEventStep ==
  ASSUME IInv, NEW r \in DOMAIN runs, RunEvent(r)
  PROVE  IInv'
<1>. DEFINE types == <<"event">>
<1>1. types \in Seq(Types) /\ Last(types) = "event"
  BY DEF Types, Last
<1>2. AppendEnvelopes(r, types, "running") /\ Active(r)
  BY DEF RunEvent, Active
<1>. HIDE DEF types
<1>. QED BY <1>1, <1>2, AppendStep

LEMMA RunEndsStep ==
  ASSUME IInv, NEW r \in DOMAIN runs, RunEnds(r)
  PROVE  IInv'
<1>. DEFINE types == <<"last">>
<1>1. types \in Seq(Types) /\ Last(types) = "last"
  BY DEF Types, Last
<1>2. AppendEnvelopes(r, types, "finished") /\ Active(r)
  BY DEF RunEnds
<1>. HIDE DEF types
<1>. QED BY <1>1, <1>2, AppendStep

LEMMA ExpiresStep ==
  ASSUME IInv, NEW r \in DOMAIN runs, Expires(r)
  PROVE  IInv'
<1>. DEFINE v == [runs[r] EXCEPT !.gone = TRUE]
<1>1. /\ runs[r].status = "finished" /\ UNCHANGED <<requests, client, stream, from, passed>>
  BY DEF Expires, Finished
<1>2. /\ v \in RunRecord /\ v.owner = runs[r].owner /\ v.gone = TRUE
      /\ v.status = "finished" /\ v.envelopes = runs[r].envelopes
  BY <1>1, TypesOf DEF RunRecord
<1>3. runs' = [runs EXCEPT ![r] = v]
  BY TypesOf DEF Expires
<1>. HIDE DEF v
<1>4. /\ runs' \in Seq(RunRecord) /\ DOMAIN runs' = DOMAIN runs /\ runs'[r] = v
      /\ \A s \in DOMAIN runs : s # r => runs'[s] = runs[s]
  BY <1>2, <1>3, ChangeRun
<1>5. ASSUME NEW s \in DOMAIN runs
      PROVE  /\ runs'[s].envelopes = runs[s].envelopes /\ runs'[s].status = runs[s].status
             /\ runs'[s].owner = runs[s].owner
             /\ runs[s].gone => runs'[s].gone
             /\ runs'[s].status = "lost" => runs'[s].gone
             /\ Active(s)' => ~ runs'[s].gone
  <2>1. CASE s = r
    BY <1>1, <1>2, <1>4, <2>1 DEF Active
  <2>2. CASE s # r
    BY <1>4, <2>2 DEF IInv, TypeOK, LostIsGone, Active
  <2>. QED BY <2>1, <2>2
<1>6. ASSUME NEW c \in Clients PROVE Follows(c)'
  <2>1. Follows(c)
    BY DEF IInv
  <2>. QED BY <1>1, <1>4, <1>5, <2>1
           DEF Follows, HasOfRun, WireIsNext, HasAll, IsCurrent, Active
<1>. QED BY <1>1, <1>4, <1>5, <1>6, RunsStep, TypesOf

LEMMA ServerRestartsStep ==
  ASSUME IInv, ServerRestarts
  PROVE  IInv'
<1>1. /\ runs' = [r \in DOMAIN runs |->
           [runs[r] EXCEPT !.gone = TRUE, !.status = IF Active(r) THEN "lost" ELSE @]]
      /\ requests' \subseteq requests /\ UNCHANGED <<client, from, passed>>
      /\ stream' = [c \in Clients |->
           [stream[c] EXCEPT !.ended = @ \/ client[c].phase = "streaming"]]
  BY DEF ServerRestarts
<1>2. ASSUME NEW r \in DOMAIN runs
      PROVE  /\ runs'[r] \in RunRecord /\ runs'[r].owner = runs[r].owner /\ runs'[r].gone
             /\ runs'[r].envelopes = runs[r].envelopes /\ ~ Active(r)'
  <2>. DEFINE status == IF Active(r) THEN "lost" ELSE runs[r].status
  <2>1. /\ runs[r] \in RunRecord
        /\ runs'[r] = [runs[r] EXCEPT !.gone = TRUE, !.status = status]
    BY <1>1, TypesOf
  <2>2. status \in {"finished", "lost"}
    BY <2>1 DEF RunRecord, Active
  <2>. HIDE DEF status
  <2>3. /\ runs'[r] \in RunRecord /\ runs'[r].owner = runs[r].owner /\ runs'[r].gone
        /\ runs'[r].envelopes = runs[r].envelopes /\ runs'[r].status = status
    BY <2>1, <2>2 DEF RunRecord
  <2>. QED BY <2>2, <2>3 DEF Active
<1>3. runs' \in Seq(RunRecord) /\ DOMAIN runs' = DOMAIN runs
  <2>1. DOMAIN runs = 1..Len(runs) /\ Len(runs) \in Nat
    BY TypesOf
  <2>2. DOMAIN runs' = DOMAIN runs
    BY <1>1
  <2>3. runs' \in [1..Len(runs) -> RunRecord]
    BY <1>1, <1>2, <2>1, <2>2
  <2>. QED BY <2>1, <2>2, <2>3
<1>4. ASSUME NEW c \in Clients
      PROVE  /\ stream'[c] \in StreamRecord
             /\ stream'[c].run = stream[c].run /\ stream'[c].wire = stream[c].wire
             /\ client[c].phase = "streaming" => stream'[c].ended
  <2>. DEFINE ended == stream[c].ended \/ client[c].phase = "streaming"
  <2>1. stream[c] \in StreamRecord /\ stream'[c] = [stream[c] EXCEPT !.ended = ended]
    BY <1>1, TypesOf
  <2>2. ended \in BOOLEAN /\ (client[c].phase = "streaming" => ended)
    OBVIOUS
  <2>. HIDE DEF ended
  <2>3. /\ stream'[c] \in StreamRecord /\ stream'[c].ended = ended
        /\ stream'[c].run = stream[c].run /\ stream'[c].wire = stream[c].wire
    BY <2>1, <2>2 DEF StreamRecord
  <2>. QED BY <2>2, <2>3
<1>5. stream' \in [Clients -> StreamRecord]
  <2>1. stream' = [c \in Clients |-> stream'[c]]
    BY <1>1
  <2>. QED BY <1>4, <2>1
<1>6. ASSUME NEW c \in Clients PROVE Follows(c)'
  <2>1. Follows(c)
    BY DEF IInv
  <2>. QED BY ZenonT(60), <1>1, <1>2, <1>3, <1>4, <2>1
           DEF Follows, HasOfRun, WireIsNext, HasAll, IsCurrent
<1>. QED BY <1>1, <1>2, <1>3, <1>5, <1>6, RunsStep

-----------------------------------------------------------------------------
LEMMA Initially ==
  ASSUME Init
  PROVE  IInv
<1>1. TypeOK
  <2>1. Idle \in ClientRecord /\ NoStream \in StreamRecord
    BY DEF Idle, NoStream, NoRun, ClientRecord, StreamRecord, Phases, Kinds
  <2>2. runs \in Seq(RunRecord) /\ DOMAIN runs = {}
    BY DEF Init
  <2>. QED BY <2>1, <2>2 DEF Init, TypeOK, ClientRecord, StreamRecord
<1>2. LostIsGone /\ OneRunEach
  BY DEF Init, LostIsGone, OneRunEach
<1>3. ASSUME NEW c \in Clients PROVE Follows(c)
  <2>1. /\ client[c].phase = "idle" /\ client[c].runId = NoRun
        /\ client[c].lastEventId = 0 /\ from[c] = 0 /\ passed[c] = <<>>
    BY DEF Init, Idle
  <2>2. passed[c] = Numbered(0, 0 - 0)
    BY <2>1, NumberedNone
  <2>. QED BY <2>1, <2>2 DEF Follows, HasOfRun, WireIsNext, HasAll, IsCurrent
<1>4. requests = {}
  BY DEF Init
<1>. QED BY <1>1, <1>2, <1>3, <1>4 DEF IInv

LEMMA Step ==
  ASSUME IInv, [Next]_vars
  PROVE  IInv'
<1>1. ASSUME NEW c \in Clients,
             \/ \E kind \in Kinds : Start(c, kind)
             \/ Resume(c) \/ Breaks(c) \/ StreamEnds(c) \/ Reconnects(c) \/ Reading(c)
             \/ Cancel(c) \/ Close(c)
      PROVE  IInv'
  BY <1>1, StartStep, ResumeStep, BreaksStep, StreamEndsStep, ReconnectsStep, ReadingStep,
     CancelStep, CloseStep
<1>2. ASSUME NEW q \in requests, Serve(q) PROVE IInv'
  BY <1>2, PostRunStep, EditRefusedStep, EditAcceptedStep, EditStartsStep, GetEventsStep
     DEF Serve
<1>3. ASSUME NEW r \in DOMAIN runs, RunStarts(r) \/ RunEvent(r) \/ RunEnds(r) \/ Expires(r)
      PROVE  IInv'
  BY <1>3, RunStartsStep, RunEventStep, RunEndsStep, ExpiresStep
<1>4. CASE UNCHANGED vars
  BY <1>4 DEF vars, IInv, TypeOK, LostIsGone, OneRunEach, Follows, HasOfRun, WireIsNext,
              HasAll, IsCurrent, Asked, Listening, Active
<1>. QED BY <1>1, <1>2, <1>3, <1>4, ServerRestartsStep DEF Next

\* Whatever the users, the network and the harness do, the requests, the clients, the wires
\* and the logs of the runs agree as IInv says (run-manager.ts, agent-client.ts).
THEOREM Invariance == Spec => []IInv
<1>1. Init => IInv
  BY Initially
<1>2. IInv /\ [Next]_vars => IInv'
  BY Step
<1>. QED BY <1>1, <1>2, PTL DEF Spec

\* Every variable keeps its type; a run that is active is in the Map.
THEOREM TypeCorrect == Spec => []TypeOK
<1>1. IInv => TypeOK
  BY DEF IInv
<1>. QED BY <1>1, Invariance, PTL

\* A client passes on every envelope of its run from the one its stream starts with, once
\* and in order, however often runStreamLoop() reconnects and whichever way the subscribe()
\* and the appends of the server fall.
THEOREM GaplessCorrect == Spec => []Gapless
<1>1. IInv => Gapless
  BY DEF IInv, Follows, HasAll, Numbered, Gapless
<1>. QED BY <1>1, Invariance, PTL

\* Between the replay of subscribe(), the appends of appendEnvelope() and the end of the run
\* no envelope is lost, and no stream outlives its run.
THEOREM StreamIsCurrentCorrect == Spec => []StreamIsCurrent
<1>1. IInv => StreamIsCurrent
  BY DEF IInv, Follows, IsCurrent, StreamIsCurrent
<1>. QED BY <1>1, Invariance, PTL

\* runsByClientRunId: however often its POST is repeated, a client has one run at a time
\* that the server remembers.
THEOREM OneRunEachCorrect == Spec => []OneRunEach
<1>1. IInv => OneRunEach
  BY DEF IInv
<1>. QED BY <1>1, Invariance, PTL

\* Only an accepted edit that finds the thread at rest starts a run of kind edit.
LEMMA EditAloneStep ==
  ASSUME IInv, [Next]_vars, NEW r \in DOMAIN runs' \ DOMAIN runs, runs'[r].kind = "edit"
  PROVE  ~ ThreadRunning
<1>1. runs' # runs
  OBVIOUS
<1>2. ASSUME NEW s \in DOMAIN runs, RunStarts(s) \/ RunEvent(s) \/ RunEnds(s) \/ Expires(s)
      PROVE  DOMAIN runs' = DOMAIN runs
  BY <1>2 DEF RunStarts, RunEvent, RunEnds, Expires, AppendEnvelopes
<1>3. ASSUME ServerRestarts PROVE DOMAIN runs' = DOMAIN runs
  BY <1>3 DEF ServerRestarts
<1>4. ASSUME NEW q \in requests, Serve(q) PROVE ~ ThreadRunning
  <2>1. CASE EditStarts(q)
    BY <2>1 DEF EditStarts
  <2>2. CASE PostRun(q)
    <3>1. q.kind \in {"new", "message"} /\ runs' = Append(runs, NewRun(q, q.kind))
      BY <1>1, <2>2 DEF PostRun, StartRun
    <3>2. r = Len(runs) + 1 /\ runs'[r] = NewRun(q, q.kind)
      BY <3>1, AppendRun DEF Kinds
    <3>. QED BY <3>1, <3>2 DEF NewRun
  <2>3. CASE ~ EditStarts(q) /\ ~ PostRun(q)
    BY ZenonT(60), <1>1, <1>4, <2>3 DEF Serve, EditRefused, EditAccepted, EditGivenUp, GetEvents
  <2>. QED BY <2>1, <2>2, <2>3
<1>5. ASSUME NEW c \in Clients,
             \/ \E kind \in Kinds : Start(c, kind)
             \/ Resume(c) \/ Breaks(c) \/ StreamEnds(c) \/ Reconnects(c) \/ Reading(c)
             \/ Cancel(c) \/ Close(c)
      PROVE  FALSE
  BY <1>1, <1>5 DEF Start, Resume, Breaks, StreamEnds, Reconnects, Reading, ReadsStart,
                    ReadsEvent, ReadsLast, Reads, Cancel, Close
<1>. QED BY <1>1, <1>2, <1>3, <1>4, <1>5 DEF Next, vars

\* startRun() looks at the thread once more after the await of the edit's handler: no edit
\* starts in a thread that is running.
THEOREM EditAloneCorrect == Spec => EditAlone
<1>1. IInv /\ [Next]_vars =>
        [\A r \in DOMAIN runs' \ DOMAIN runs : runs'[r].kind = "edit" => ~ ThreadRunning]_vars
  BY EditAloneStep
<1>. QED BY <1>1, Invariance, PTL DEF Spec, EditAlone

-----------------------------------------------------------------------------
(***************************************************************************)
(* A client that joins a run.  What the agent said is in order and true of *)
(* its thread; of what the log told up to the client's place, the view has *)
(* each message under its key or replaced by a later one.                  *)
(***************************************************************************)
\* The records.
ItemStates == {"absent", "partial", "final"}
EventTypes ==
  {"start", "message.started", "content.delta", "message.completed", "item.started",
   "item.completed", "request.opened", "turn.completed", "last"}
Events == [type : EventTypes, message : Nat, text : Nat]
TextsShown == [Messages -> Int]
ThreadRecords ==
  [users : SUBSET Messages, text : TextsShown, done : SUBSET Messages, item : ItemStates,
   turn : {"none", "running", "over"}]
FetchRecords ==
  [state : {"none", "asked", "read"}, snapshot : [text : TextsShown, item : ItemStates]]
ViewRecords ==
  [text : TextsShown, alias : [Messages -> Messages], replayed : [Messages -> Nat],
   pending : [of : 0 .. NumMessages, deltas : Nat], item : ItemStates, beganPartial : BOOLEAN,
   shows : [Messages -> Messages]]

\* The types.
ResumeTyped ==
  /\ agentThread \in ThreadRecords
  /\ runLog \in Seq(Events) /\ notices \in Seq(Events)
  /\ fetch \in FetchRecords
  /\ view \in ViewRecords
  /\ position \in Int /\ NotFollowing <= position /\ position <= Len(runLog)

\* What the agent has said, in the log or not yet.
Said == runLog \o notices

\* The text of a message at the agent.
Text(m) == agentThread.text[m]

\* The types of the events that are of no message.
PlainTypes == {"start", "item.started", "item.completed", "request.opened", "turn.completed", "last"}

\* What an event says is true of the agent's thread.
IsTrueOf(e, thread) ==
  \/ e.type \in PlainTypes /\ e.message = 0
  \/ /\ e.message \in Messages
     /\ \/ e.type = "message.started" /\ thread.text[e.message] # NoText
           /\ e.text <= thread.text[e.message] /\ (e.message \in thread.users => e.text > 0)
        \/ e.type = "message.completed" /\ e.message \in thread.done /\ e.text = thread.text[e.message]
        \/ e.type = "content.delta" /\ thread.text[e.message] > 0 /\ e.text = 1
EventsAreTrue == \A i \in 1 .. Len(Said) : IsTrueOf(Said[i], agentThread)

\* The texts have their bounds, and a completed message has one.
TextsAreBounded == \A m \in Messages :
  /\ NoText <= Text(m) /\ Text(m) <= MaxText
  /\ m \in agentThread.done => Text(m) # NoText

\* A message begins when all before it are complete.
BegunInOrder == \A m \in Messages : Text(m) # NoText => 1 .. (m - 1) \subseteq agentThread.done

\* A message is said to start before anything else is said of it, and nothing after its end.
StartsFirst == \A j \in 1 .. Len(Said) : Said[j].type = "message.started" =>
  \A i \in 1 .. (j - 1) : Said[i].message # Said[j].message
StartsSaid == \A j \in 1 .. Len(Said) : Said[j].type \in {"content.delta", "message.completed"} =>
  \E i \in 1 .. (j - 1) : Said[i].type = "message.started" /\ Said[i].message = Said[j].message
CompletesLast == \A j \in 1 .. Len(Said) : \A i \in 1 .. (j - 1) :
  Said[i].type = "message.completed" => Said[i].message # Said[j].message

\* A message that was begun and is not complete was said to start.
IsAnnounced(m) == \E i \in 1 .. Len(Said) : Said[i].type = "message.started" /\ Said[i].message = m
StreamsAreSaid == \A m \in Messages : Text(m) # NoText => m \in agentThread.done \/ IsAnnounced(m)

\* The messages are spoken of in their order.
MessagesInOrder == \A j \in 1 .. Len(Said) : \A i \in 1 .. (j - 1) :
  Said[j].message \in Messages => Said[i].message <= Said[j].message

\* The item that was told of is there, and its start comes before its end.
ItemInOrder ==
  /\ \A i \in 1 .. Len(Said) :
       Said[i].type \in {"item.started", "item.completed"} => agentThread.item # "absent"
  /\ \A j \in 1 .. Len(Said) : Said[j].type = "item.started" =>
       \A i \in 1 .. (j - 1) : Said[i].type # "item.completed"

\* The deltas of a message among the first n events.
DeltasIn(s, n, m) == Cardinality({k \in 1 .. n : s[k].type = "content.delta" /\ s[k].message = m})

\* The deltas of a message are no more than its text.
DeltasAreText == \A m \in Messages :
  DeltasIn(Said, Len(Said), m) = 0 \/ DeltasIn(Said, Len(Said), m) <= Text(m)

\* The invariant of the agent.
AgentInv ==
  /\ EventsAreTrue /\ TextsAreBounded /\ BegunInOrder
  /\ StartsFirst /\ StartsSaid /\ CompletesLast /\ StreamsAreSaid /\ MessagesInOrder
  /\ ItemInOrder /\ DeltasAreText

\* The texts of a snapshot are beginnings of the agent's, and leave out no message before
\* another that they have.
SnapshotIsPast == \A m \in Messages :
  /\ NoText <= fetch.snapshot.text[m] /\ fetch.snapshot.text[m] <= Text(m)
  /\ fetch.snapshot.text[m] # NoText => \A k \in 1 .. (m - 1) : fetch.snapshot.text[k] # NoText

\* The log told of a message up to place p.
IsTold(m, p) == \E i \in 1 .. p : runLog[i].message = m

\* The deltas of a message that wait.
Waiting(v, m) == IF v.pending.of = m THEN v.pending.deltas ELSE 0

\* What a view v has of the log up to place p.  The texts:
TextsAreSaid(v) == \A k \in Messages :
  /\ NoText <= v.text[k]
  /\ v.text[k] > 0 => \E n \in Messages : v.alias[n] = k /\ Text(n) > 0
TextsAreInOrder(v, p) == \A m \in Messages : v.text[m] # NoText =>
  IsTold(m, p) \/ \A k \in 1 .. (m - 1) : v.text[k] # NoText

\* A message with an alias was taken for an earlier one; its deltas are counted.
AliasesAreEarlier(v, p) == \A n \in Messages :
  /\ v.alias[n] # n =>
       /\ v.alias[n] < n /\ IsTold(n, p) /\ Text(n) > 0
       /\ v.replayed[n] + Waiting(v, n) = DeltasUpTo(p, n)
       /\ v.shows[v.alias[n]] = n => v.text[v.alias[n]] >= v.replayed[n]
  /\ v.alias[n] = n => v.replayed[n] = 0

\* What was told is there, or a later message has replaced it.
StartsAreSeen(v, p) == \A i \in 1 .. p :
  runLog[i].type = "message.started" => v.text[v.alias[runLog[i].message]] # NoText
LaterReplace(v, p) == \A n \in Messages : IsTold(n, p) =>
  \/ v.shows[v.alias[n]] = n
  \/ v.shows[v.alias[n]] > n /\ v.alias[v.shows[v.alias[n]]] = v.alias[n]
EndsAreSeen(v, p) == \A i \in 1 .. p : runLog[i].type = "message.completed" =>
  /\ v.pending.of # runLog[i].message
  /\ v.shows[v.alias[runLog[i].message]] = runLog[i].message =>
       v.text[v.alias[runLog[i].message]] = runLog[i].text
DeltasAreSeen(v, p) == \A m \in Messages : v.alias[m] = m /\ v.shows[m] = m =>
  DeltasUpTo(p, m) = 0 \/ v.text[m] + Waiting(v, m) >= DeltasUpTo(p, m)
ItemIsSeen(v, p) == \A i \in 1 .. p :
  /\ runLog[i].type = "item.started" => v.item # "absent"
  /\ runLog[i].type = "item.completed" => v.item = "final" \/ v.beganPartial

\* What waits are the last deltas that were told.
LastWaits(v, p) ==
  /\ v.pending.deltas > 0 =>
       p >= 1 /\ runLog[p].type = "content.delta" /\ runLog[p].message = v.pending.of
  /\ v.pending.deltas = 0 => v.pending.of = 0

Seen(v, p) ==
  /\ TextsAreSaid(v) /\ TextsAreInOrder(v, p) /\ AliasesAreEarlier(v, p) /\ StartsAreSeen(v, p)
  /\ LaterReplace(v, p) /\ EndsAreSeen(v, p) /\ DeltasAreSeen(v, p) /\ ItemIsSeen(v, p)
  /\ LastWaits(v, p)

Attends == position # NotFollowing

\* While no run is followed nothing waits.
ViewIsSeen ==
  /\ Attends => Seen(view, position)
  /\ ~ Attends => view.pending = NothingPending /\ \A m \in Messages : NoText <= view.text[m]

\* The invariant.
ResumeInv == ResumeTyped /\ AgentInv /\ SnapshotIsPast /\ ViewIsSeen

-----------------------------------------------------------------------------
(***************************************************************************)
(* The invariant's words.                                                  *)
(***************************************************************************)
\* The constants are numbers, and no message has the number 0.
LEMMA ResumeNumbers ==
  /\ NoText = -1 /\ NotFollowing = -1 /\ NumMessages \in Nat /\ MaxText \in Nat /\ MaxText > 0
  /\ Messages \subseteq Nat /\ 0 \notin Messages
BY ResumeAssumption DEF NoText, NotFollowing, Messages

\* Deltas are counted one after the other.
LEMMA DeltasCount ==
  ASSUME NEW s, NEW m, NEW n \in Nat
  PROVE  /\ DeltasIn(s, n, m) \in Nat /\ DeltasIn(s, 0, m) = 0
         /\ DeltasIn(s, n + 1, m) = DeltasIn(s, n, m) +
              (IF s[n + 1].type = "content.delta" /\ s[n + 1].message = m THEN 1 ELSE 0)
         /\ \A l \in 0 .. n : DeltasIn(s, l, m) <= DeltasIn(s, n, m)
<1>. DEFINE D(l) == {k \in 1 .. l : s[k].type = "content.delta" /\ s[k].message = m}
<1>1. \A l \in Nat : IsFiniteSet(D(l))
  <2>. SUFFICES ASSUME NEW l \in Nat PROVE IsFiniteSet(D(l))
    OBVIOUS
  <2>1. IsFiniteSet(1 .. l)
    BY FS_Interval
  <2>2. D(l) \subseteq 1 .. l
    OBVIOUS
  <2>. QED BY <2>1, <2>2, FS_Subset
<1>2. D(n + 1) = IF s[n + 1].type = "content.delta" /\ s[n + 1].message = m
                 THEN D(n) \cup {n + 1} ELSE D(n)
  <2>1. 1 .. (n + 1) = (1 .. n) \cup {n + 1}
    OBVIOUS
  <2>. QED BY <2>1
<1>3. n + 1 \notin D(n)
  OBVIOUS
<1>4. D(0) = {}
  OBVIOUS
<1>5. \A l \in 0 .. n : D(l) \subseteq D(n)
  OBVIOUS
<1>6. \A l \in Nat : DeltasIn(s, l, m) = Cardinality(D(l))
  BY DEF DeltasIn
<1>. HIDE DEF D
<1>7. DeltasIn(s, n, m) \in Nat /\ DeltasIn(s, 0, m) = 0
  BY <1>1, <1>4, <1>6, FS_CardinalityType, FS_EmptySet
<1>8. DeltasIn(s, n + 1, m) = DeltasIn(s, n, m) +
              (IF s[n + 1].type = "content.delta" /\ s[n + 1].message = m THEN 1 ELSE 0)
  <2>1. CASE s[n + 1].type = "content.delta" /\ s[n + 1].message = m
    <3>1. D(n + 1) = D(n) \cup {n + 1}
      BY <1>2, <2>1
    <3>2. Cardinality(D(n) \cup {n + 1}) = Cardinality(D(n)) + 1
      BY <1>1, <1>3, FS_AddElement
    <3>3. DeltasIn(s, n + 1, m) = Cardinality(D(n + 1)) /\ DeltasIn(s, n, m) = Cardinality(D(n))
      BY <1>6
    <3>. QED BY <2>1, <3>1, <3>2, <3>3
  <2>2. CASE ~ (s[n + 1].type = "content.delta" /\ s[n + 1].message = m)
    <3>1. D(n + 1) = D(n)
      BY <1>2, <2>2
    <3>. QED BY <1>6, <1>7, <2>2, <3>1
  <2>. QED BY <2>1, <2>2
<1>9. \A l \in 0 .. n : DeltasIn(s, l, m) <= DeltasIn(s, n, m)
  BY <1>1, <1>5, <1>6, FS_Subset
<1>. QED BY <1>7, <1>8, <1>9

\* What is not changed of a sequence has the same deltas.
LEMMA DeltasSame ==
  ASSUME NEW s, NEW r, NEW n \in Nat, \A k \in 1 .. n : s[k] = r[k], NEW m
  PROVE  DeltasIn(s, n, m) = DeltasIn(r, n, m)
<1>1. {k \in 1 .. n : s[k].type = "content.delta" /\ s[k].message = m}
      = {k \in 1 .. n : r[k].type = "content.delta" /\ r[k].message = m}
  OBVIOUS
<1>. QED BY <1>1 DEF DeltasIn

\* The log is the beginning of what was said.
LEMMA LogIsBeginning ==
  ASSUME ResumeTyped
  PROVE  /\ Said \in Seq(Events) /\ Len(Said) = Len(runLog) + Len(notices)
         /\ Len(runLog) \in Nat /\ Len(notices) \in Nat /\ Len(Said) \in Nat
         /\ \A i \in 1 .. Len(runLog) : Said[i] = runLog[i]
BY ConcatProperties, LenProperties DEF ResumeTyped, Said

-----------------------------------------------------------------------------
(***************************************************************************)
(* The steps of the agent.                                                 *)
(***************************************************************************)
\* What a step of the agent adds to what was said, and to the texts.
SaidGrows(n) ==
  /\ Len(Said') = Len(Said) + n /\ notices' \in Seq(Events)
  /\ \A i \in 1 .. Len(Said) : Said'[i] = Said[i]
AgentOnly == UNCHANGED <<runLog, fetch, view, position>>
TextBecomes(m, text) ==
  /\ agentThread'.text[m] = text /\ \A d \in Messages \ {m} : agentThread'.text[d] = Text(d)
  /\ agentThread'.item = agentThread.item /\ agentThread'.users = agentThread.users
IsNew(i, type, m, text) ==
  Said'[i].type = type /\ Said'[i].message = m /\ Said'[i].text = text

\* The effects: no text changes, or one message starts, grows, is completed, comes at once.
PlainEffect == \E n \in {1, 2} :
  /\ AgentOnly /\ SaidGrows(n) /\ agentThread'.text = agentThread.text
  /\ agentThread'.done = agentThread.done /\ agentThread'.users = agentThread.users
  /\ agentThread.item # "absent" => agentThread'.item # "absent"
  /\ \A i \in (Len(Said) + 1) .. (Len(Said) + n) :
       /\ Said'[i].type \in PlainTypes /\ Said'[i].message = 0
       /\ Said'[i].type = "item.started" => n = 1 /\ agentThread.item = "absent"
       /\ Said'[i].type \in {"item.started", "item.completed"} => agentThread'.item # "absent"
IsNext(m) == Text(m) = NoText /\ m \notin agentThread.done /\ 1 .. (m - 1) \subseteq agentThread.done
MessageStartsEffect(m, x) ==
  /\ AgentOnly /\ SaidGrows(1) /\ IsNext(m) /\ m \notin agentThread.users
  /\ TextBecomes(m, x) /\ agentThread'.done = agentThread.done
  /\ IsNew(Len(Said) + 1, "message.started", m, x)
MessageGrowsEffect(m) ==
  /\ AgentOnly /\ SaidGrows(1) /\ Text(m) # NoText /\ Text(m) < MaxText /\ m \notin agentThread.done
  /\ TextBecomes(m, Text(m) + 1) /\ agentThread'.done = agentThread.done
  /\ IsNew(Len(Said) + 1, "content.delta", m, 1)
MessageCompletesEffect(m) ==
  /\ AgentOnly /\ SaidGrows(1) /\ Text(m) # NoText /\ m \notin agentThread.done
  /\ TextBecomes(m, Text(m)) /\ agentThread'.done = agentThread.done \cup {m}
  /\ IsNew(Len(Said) + 1, "message.completed", m, Text(m))
MessageAtOnceEffect(m) ==
  /\ AgentOnly /\ SaidGrows(2) /\ IsNext(m)
  /\ TextBecomes(m, MaxText) /\ agentThread'.done = agentThread.done \cup {m}
  /\ IsNew(Len(Said) + 1, "message.started", m, MaxText)
  /\ IsNew(Len(Said) + 2, "message.completed", m, MaxText)

\* Events that the agent says are at the end of what was said.
LEMMA SaysAll ==
  ASSUME ResumeTyped, NEW e \in Seq(Events), Says(e)
  PROVE  /\ AgentOnly /\ SaidGrows(Len(e))
         /\ \A j \in 1 .. Len(e) : Said'[Len(Said) + j] = e[j]
<1>1. PICK l \in Seq(Events), n \in Seq(Events) : l = runLog /\ n = notices
  BY DEF ResumeTyped
<1>2. PICK x \in Seq(Events) : x = n \o e
  BY ConcatProperties
<1>3. /\ Len(l) \in Nat /\ Len(n) \in Nat /\ Len(e) \in Nat /\ Len(x) = Len(n) + Len(e)
      /\ Len(l \o n) = Len(l) + Len(n) /\ Len(l \o x) = Len(l) + Len(x)
      /\ \A i \in 1 .. (Len(n) + Len(e)) : x[i] = IF i <= Len(n) THEN n[i] ELSE e[i - Len(n)]
      /\ \A i \in 1 .. (Len(l) + Len(n)) : (l \o n)[i] = IF i <= Len(l) THEN l[i] ELSE n[i - Len(l)]
      /\ \A i \in 1 .. (Len(l) + Len(x)) : (l \o x)[i] = IF i <= Len(l) THEN l[i] ELSE x[i - Len(l)]
  BY <1>2, ConcatProperties, LenProperties
<1>4. Said = l \o n /\ Said' = l \o x /\ notices' = x
  BY <1>1, <1>2 DEF Said, Says
<1>5. ASSUME NEW i \in 1 .. (Len(l) + Len(n)) PROVE (l \o x)[i] = (l \o n)[i]
  <2>1. i \in 1 .. (Len(l) + Len(x))
    BY <1>3
  <2>2. CASE i <= Len(l)
    BY <1>3, <2>1, <2>2
  <2>3. CASE ~ (i <= Len(l))
    <3>1. i - Len(l) \in 1 .. (Len(n) + Len(e)) /\ i - Len(l) <= Len(n)
      BY <1>3, <2>3
    <3>. QED BY <1>3, <2>1, <2>3, <3>1
  <2>. QED BY <2>2, <2>3
<1>6. ASSUME NEW j \in 1 .. Len(e) PROVE (l \o x)[Len(l) + Len(n) + j] = e[j]
  <2>1. PICK k : k = Len(l) + Len(n) + j
    OBVIOUS
  <2>2. k \in 1 .. (Len(l) + Len(x)) /\ ~ (k <= Len(l)) /\ k - Len(l) = Len(n) + j
    BY <1>3, <2>1
  <2>3. Len(n) + j \in 1 .. (Len(n) + Len(e)) /\ ~ (Len(n) + j <= Len(n)) /\ (Len(n) + j) - Len(n) = j
    BY <1>3
  <2>4. (l \o x)[k] = x[Len(n) + j]
    BY <1>3, <2>2
  <2>5. x[Len(n) + j] = e[j]
    BY <1>3, <2>3
  <2>. QED BY <2>1, <2>4, <2>5
<1>7. /\ Len(Said') = Len(Said) + Len(e) /\ Len(Said) = Len(l) + Len(n)
      /\ \A i \in 1 .. Len(Said) : Said'[i] = Said[i]
  BY <1>3, <1>4, <1>5
<1>8. \A j \in 1 .. Len(e) : Said'[Len(Said) + j] = e[j]
  BY <1>4, <1>6, <1>7
<1>. QED BY <1>4, <1>7, <1>8 DEF AgentOnly, SaidGrows, Says

\* An event by its fields.
LEMMA EventFields ==
  ASSUME NEW type \in EventTypes, NEW m \in Nat, NEW text \in Nat
  PROVE  /\ Event(type, m, text) \in Events /\ Event(type, m, text).type = type
         /\ Event(type, m, text).message = m /\ Event(type, m, text).text = text
BY DEF Event, Events

\* One event is said.
LEMMA SaysOne ==
  ASSUME ResumeTyped, NEW e \in Events, Says(<<e>>)
  PROVE  AgentOnly /\ SaidGrows(1) /\ Said'[Len(Said) + 1] = e
<1>1. PICK s \in Seq(Events) : s = <<e>> /\ Len(s) = 1 /\ s[1] = e
  <2>1. <<e>> \in Seq(Events) /\ Len(<<e>>) = 1 /\ <<e>>[1] = e
    OBVIOUS
  <2>. QED BY <2>1
<1>2. 1 \in 1 .. Len(s)
  BY <1>1
<1>. QED BY <1>1, <1>2, SaysAll

\* Two events are said.
LEMMA SaysTwo ==
  ASSUME ResumeTyped, NEW e \in Events, NEW f \in Events, Says(<<e, f>>)
  PROVE  AgentOnly /\ SaidGrows(2) /\ Said'[Len(Said) + 1] = e /\ Said'[Len(Said) + 2] = f
<1>1. PICK s \in Seq(Events) : s = <<e, f>> /\ Len(s) = 2 /\ s[1] = e /\ s[2] = f
  <2>1. <<e, f>> \in Seq(Events) /\ Len(<<e, f>>) = 2 /\ <<e, f>>[1] = e /\ <<e, f>>[2] = f
    OBVIOUS
  <2>. QED BY <2>1
<1>2. 1 \in 1 .. Len(s) /\ 2 \in 1 .. Len(s)
  BY <1>1
<1>. QED BY <1>1, <1>2, SaysAll

\* What the start of the turn adds to what was said, and to the texts.
LEMMA TurnStartsChanges ==
  ASSUME ResumeTyped, TurnStarts
  PROVE  PlainEffect
<1>1. PICK e \in Events : e = Plain("start") /\ e.type = "start" /\ e.message = 0
  <2>1. Plain("start") \in Events /\ Plain("start").type = "start" /\ Plain("start").message = 0
    BY EventFields DEF Plain, EventTypes
  <2>. QED BY <2>1
<1>2. AgentOnly /\ SaidGrows(1) /\ Said'[Len(Said) + 1] = e
  BY <1>1, SaysOne DEF TurnStarts
<1>3. /\ agentThread'.text = agentThread.text /\ agentThread'.done = agentThread.done
      /\ agentThread'.users = agentThread.users
      /\ agentThread.item # "absent" => agentThread'.item # "absent"
      /\ "start" = "item.started" => agentThread.item = "absent"
      /\ "start" \in {"item.started", "item.completed"} => agentThread'.item # "absent"
  BY DEF TurnStarts, ResumeTyped, ThreadRecords
<1>4. Len(Said) \in Nat
  BY LogIsBeginning
<1>5. \A i \in (Len(Said) + 1) .. (Len(Said) + 1) : Said'[i] = e
  BY <1>2, <1>4
<1>. QED BY <1>1, <1>2, <1>3, <1>5 DEF PlainEffect, PlainTypes

\* What the start of the item adds to what was said, and to the texts.
LEMMA ItemStartsChanges ==
  ASSUME ResumeTyped, ItemStarts
  PROVE  PlainEffect
<1>1. PICK e \in Events : e = Plain("item.started") /\ e.type = "item.started" /\ e.message = 0
  <2>1. /\ Plain("item.started") \in Events /\ Plain("item.started").type = "item.started"
        /\ Plain("item.started").message = 0
    BY EventFields DEF Plain, EventTypes
  <2>. QED BY <2>1
<1>2. AgentOnly /\ SaidGrows(1) /\ Said'[Len(Said) + 1] = e
  BY <1>1, SaysOne DEF ItemStarts
<1>3. /\ agentThread'.text = agentThread.text /\ agentThread'.done = agentThread.done
      /\ agentThread'.users = agentThread.users
      /\ agentThread.item # "absent" => agentThread'.item # "absent"
      /\ "item.started" = "item.started" => agentThread.item = "absent"
      /\ "item.started" \in {"item.started", "item.completed"} => agentThread'.item # "absent"
  BY DEF ItemStarts, ResumeTyped, ThreadRecords
<1>4. Len(Said) \in Nat
  BY LogIsBeginning
<1>5. \A i \in (Len(Said) + 1) .. (Len(Said) + 1) : Said'[i] = e
  BY <1>2, <1>4
<1>. QED BY <1>1, <1>2, <1>3, <1>5 DEF PlainEffect, PlainTypes

\* What the end of the item adds to what was said, and to the texts.
LEMMA ItemCompletesChanges ==
  ASSUME ResumeTyped, ItemCompletes
  PROVE  PlainEffect
<1>1. PICK e \in Events : e = Plain("item.completed") /\ e.type = "item.completed" /\ e.message = 0
  <2>1. /\ Plain("item.completed") \in Events /\ Plain("item.completed").type = "item.completed"
        /\ Plain("item.completed").message = 0
    BY EventFields DEF Plain, EventTypes
  <2>. QED BY <2>1
<1>2. AgentOnly /\ SaidGrows(1) /\ Said'[Len(Said) + 1] = e
  BY <1>1, SaysOne DEF ItemCompletes
<1>3. /\ agentThread'.text = agentThread.text /\ agentThread'.done = agentThread.done
      /\ agentThread'.users = agentThread.users
      /\ agentThread.item # "absent" => agentThread'.item # "absent"
      /\ "item.completed" = "item.started" => agentThread.item = "absent"
      /\ "item.completed" \in {"item.started", "item.completed"} => agentThread'.item # "absent"
  BY DEF ItemCompletes, ResumeTyped, ThreadRecords
<1>4. Len(Said) \in Nat
  BY LogIsBeginning
<1>5. \A i \in (Len(Said) + 1) .. (Len(Said) + 1) : Said'[i] = e
  BY <1>2, <1>4
<1>. QED BY <1>1, <1>2, <1>3, <1>5 DEF PlainEffect, PlainTypes

\* What an event that no snapshot has adds to what was said, and to the texts.
LEMMA OnlyLiveChanges ==
  ASSUME ResumeTyped, OnlyLive
  PROVE  PlainEffect
<1>1. PICK e \in Events : e = Plain("request.opened") /\ e.type = "request.opened" /\ e.message = 0
  <2>1. /\ Plain("request.opened") \in Events /\ Plain("request.opened").type = "request.opened"
        /\ Plain("request.opened").message = 0
    BY EventFields DEF Plain, EventTypes
  <2>. QED BY <2>1
<1>2. AgentOnly /\ SaidGrows(1) /\ Said'[Len(Said) + 1] = e
  BY <1>1, SaysOne DEF OnlyLive
<1>3. /\ agentThread'.text = agentThread.text /\ agentThread'.done = agentThread.done
      /\ agentThread'.users = agentThread.users
      /\ agentThread.item # "absent" => agentThread'.item # "absent"
      /\ "request.opened" = "item.started" => agentThread.item = "absent"
      /\ "request.opened" \in {"item.started", "item.completed"} => agentThread'.item # "absent"
  BY DEF OnlyLive, ResumeTyped, ThreadRecords
<1>4. Len(Said) \in Nat
  BY LogIsBeginning
<1>5. \A i \in (Len(Said) + 1) .. (Len(Said) + 1) : Said'[i] = e
  BY <1>2, <1>4
<1>. QED BY <1>1, <1>2, <1>3, <1>5 DEF PlainEffect, PlainTypes

\* What the end of the turn adds to what was said, and to the texts.
LEMMA TurnEndsChanges ==
  ASSUME ResumeTyped, TurnEnds
  PROVE  PlainEffect
<1>1. PICK e \in Events, f \in Events :
        /\ e = Plain("turn.completed") /\ e.type = "turn.completed" /\ e.message = 0
        /\ f = Plain("last") /\ f.type = "last" /\ f.message = 0
  <2>1. /\ Plain("turn.completed") \in Events /\ Plain("turn.completed").type = "turn.completed"
        /\ Plain("turn.completed").message = 0
        /\ Plain("last") \in Events /\ Plain("last").type = "last" /\ Plain("last").message = 0
    BY EventFields DEF Plain, EventTypes
  <2>. QED BY <2>1
<1>2. AgentOnly /\ SaidGrows(2) /\ Said'[Len(Said) + 1] = e /\ Said'[Len(Said) + 2] = f
  BY <1>1, SaysTwo DEF TurnEnds
<1>3. /\ agentThread'.text = agentThread.text /\ agentThread'.done = agentThread.done
      /\ agentThread'.users = agentThread.users
      /\ agentThread.item # "absent" => agentThread'.item # "absent"
  BY DEF TurnEnds, ResumeTyped, ThreadRecords
<1>4. Len(Said) \in Nat
  BY LogIsBeginning
<1>5. \A i \in (Len(Said) + 1) .. (Len(Said) + 2) : Said'[i] \in {e, f}
  BY <1>2, <1>4
<1>. QED BY <1>1, <1>2, <1>3, <1>5 DEF PlainEffect, PlainTypes

\* The message that may begin: all before it are complete.
LEMMA BegunIsNext ==
  ASSUME ResumeTyped, TextsAreBounded, BegunInOrder, NEW m \in Messages, MayBegin(m)
  PROVE  IsNext(m)
<1>. USE ResumeNumbers
<1>1. Text(m) = NoText /\ m \notin agentThread.done
  BY DEF MayBegin, Text, TextsAreBounded
<1>2. ASSUME m # 1 PROVE 1 .. (m - 1) \subseteq agentThread.done
  <2>1. m - 1 \in agentThread.done /\ m - 1 \in Messages /\ m \in Nat
    BY <1>2 DEF MayBegin, Messages
  <2>2. Text(m - 1) # NoText
    BY <2>1 DEF TextsAreBounded
  <2>3. 1 .. ((m - 1) - 1) \subseteq agentThread.done
    BY <2>1, <2>2 DEF BegunInOrder
  <2>4. 1 .. (m - 1) = (1 .. ((m - 1) - 1)) \cup {m - 1}
    BY <1>2, <2>1 DEF Messages
  <2>. QED BY <2>1, <2>3, <2>4
<1>3. ASSUME m = 1 PROVE 1 .. (m - 1) \subseteq agentThread.done
  BY <1>3
<1>. QED BY <1>1, <1>2, <1>3 DEF IsNext

\* What the start of a message adds to what was said, and to the texts.
LEMMA MessageStartsChanges ==
  ASSUME ResumeTyped, TextsAreBounded, BegunInOrder, NEW m \in Messages, MessageStarts(m)
  PROVE  \E x \in 0 .. MaxText : MessageStartsEffect(m, x) /\ agentThread' \in ThreadRecords
<1>. USE ResumeNumbers
<1>1. PICK x \in 0 .. MaxText :
        /\ agentThread' = [agentThread EXCEPT !.text[m] = x]
        /\ Says(<<Event("message.started", m, x)>>)
  BY DEF MessageStarts
<1>2. IsNext(m) /\ m \notin agentThread.users
  BY BegunIsNext DEF MessageStarts
<1>3. PICK e \in Events : /\ e = Event("message.started", m, x) /\ e.type = "message.started"
                          /\ e.message = m /\ e.text = x
  <2>1. /\ Event("message.started", m, x) \in Events
        /\ Event("message.started", m, x).type = "message.started"
        /\ Event("message.started", m, x).message = m /\ Event("message.started", m, x).text = x
    BY EventFields DEF EventTypes
  <2>. QED BY <2>1
<1>4. AgentOnly /\ SaidGrows(1) /\ Said'[Len(Said) + 1] = e
  BY <1>1, <1>3, SaysOne
<1>5. TextBecomes(m, x) /\ agentThread'.done = agentThread.done
  BY <1>1 DEF ResumeTyped, ThreadRecords, TextsShown, Text, TextBecomes
<1>6. agentThread' \in ThreadRecords
  <2>1. PICK texts \in TextsShown : texts = [agentThread.text EXCEPT ![m] = x]
    <3>1. agentThread.text \in TextsShown
      BY DEF ResumeTyped, ThreadRecords
    <3>2. [agentThread.text EXCEPT ![m] = x] \in TextsShown
      BY <3>1 DEF TextsShown
    <3>. QED BY <3>2
  <2>2. agentThread' = [agentThread EXCEPT !.text = texts]
    BY <1>1, <2>1 DEF ResumeTyped, ThreadRecords, TextsShown
  <2>. QED BY <2>1, <2>2 DEF ResumeTyped, ThreadRecords
<1>7. MessageStartsEffect(m, x)
  BY <1>2, <1>3, <1>4, <1>5 DEF MessageStartsEffect, IsNew
<1>. QED BY <1>6, <1>7

\* What a delta of a message adds to what was said, and to the texts.
LEMMA MessageGrowsChanges ==
  ASSUME ResumeTyped, TextsAreBounded, NEW m \in Messages, MessageGrows(m)
  PROVE  MessageGrowsEffect(m)
<1>. USE ResumeNumbers
<1>0. Text(m) \in Int /\ NoText <= Text(m) /\ (m \in agentThread.done => Text(m) # NoText)
  BY DEF TextsAreBounded, Text, ResumeTyped, ThreadRecords, TextsShown
<1>1. PICK x : x = 1
  OBVIOUS
<1>2. x \in Nat
  BY <1>0, <1>1 DEF MessageGrows, MayBegin, IsStreaming, Text
<1>3. PICK e \in Events : /\ e = Event("content.delta", m, x) /\ e.type = "content.delta"
                          /\ e.message = m /\ e.text = x
  <2>1. /\ Event("content.delta", m, x) \in Events
        /\ Event("content.delta", m, x).type = "content.delta"
        /\ Event("content.delta", m, x).message = m /\ Event("content.delta", m, x).text = x
    BY <1>2, EventFields DEF EventTypes
  <2>. QED BY <2>1
<1>4. AgentOnly /\ SaidGrows(1) /\ Said'[Len(Said) + 1] = e
  BY <1>1, <1>3, SaysOne DEF MessageGrows, Text
<1>5. TextBecomes(m, Text(m) + 1) /\ agentThread'.done = agentThread.done
  BY <1>0
     DEF MessageGrows, MayBegin, IsStreaming, ResumeTyped, ThreadRecords, TextsShown, Text,
       TextBecomes
<1>. QED BY <1>0, <1>1, <1>3, <1>4, <1>5
     DEF MessageGrowsEffect, IsNew, MessageGrows, MayBegin, IsStreaming, Text

\* What the end of a message adds to what was said, and to the texts.
LEMMA MessageCompletesChanges ==
  ASSUME ResumeTyped, TextsAreBounded, NEW m \in Messages, MessageCompletes(m)
  PROVE  MessageCompletesEffect(m)
<1>. USE ResumeNumbers
<1>0. Text(m) \in Int /\ NoText <= Text(m) /\ (m \in agentThread.done => Text(m) # NoText)
  BY DEF TextsAreBounded, Text, ResumeTyped, ThreadRecords, TextsShown
<1>1. PICK x : x = Text(m)
  OBVIOUS
<1>2. x \in Nat
  BY <1>0, <1>1 DEF MessageCompletes, MayBegin, IsStreaming, Text
<1>3. PICK e \in Events : /\ e = Event("message.completed", m, x) /\ e.type = "message.completed"
                          /\ e.message = m /\ e.text = x
  <2>1. /\ Event("message.completed", m, x) \in Events
        /\ Event("message.completed", m, x).type = "message.completed"
        /\ Event("message.completed", m, x).message = m /\ Event("message.completed", m, x).text = x
    BY <1>2, EventFields DEF EventTypes
  <2>. QED BY <2>1
<1>4. AgentOnly /\ SaidGrows(1) /\ Said'[Len(Said) + 1] = e
  BY <1>1, <1>3, SaysOne DEF MessageCompletes, Text
<1>5. TextBecomes(m, Text(m)) /\ agentThread'.done = agentThread.done \cup {m}
  BY <1>0
     DEF MessageCompletes, MayBegin, IsStreaming, ResumeTyped, ThreadRecords, TextsShown, Text,
       TextBecomes
<1>. QED BY <1>0, <1>1, <1>3, <1>4, <1>5
     DEF MessageCompletesEffect, IsNew, MessageCompletes, MayBegin, IsStreaming, Text

\* What a message that comes at once adds to what was said, and to the texts.
LEMMA MessageAtOnceChanges ==
  ASSUME ResumeTyped, TextsAreBounded, BegunInOrder, NEW m \in Messages, MessageAtOnce(m)
  PROVE  MessageAtOnceEffect(m)
<1>. USE ResumeNumbers
<1>0. Text(m) \in Int /\ NoText <= Text(m) /\ (m \in agentThread.done => Text(m) # NoText)
  BY DEF TextsAreBounded, Text, ResumeTyped, ThreadRecords, TextsShown
<1>1. PICK e \in Events, f \in Events :
        /\ e = Event("message.started", m, MaxText) /\ e.type = "message.started"
        /\ e.message = m /\ e.text = MaxText
        /\ f = Event("message.completed", m, MaxText) /\ f.type = "message.completed"
        /\ f.message = m /\ f.text = MaxText
  <2>1. /\ Event("message.started", m, MaxText) \in Events
        /\ Event("message.started", m, MaxText).type = "message.started"
        /\ Event("message.started", m, MaxText).message = m
        /\ Event("message.started", m, MaxText).text = MaxText
    BY EventFields DEF EventTypes
  <2>2. /\ Event("message.completed", m, MaxText) \in Events
        /\ Event("message.completed", m, MaxText).type = "message.completed"
        /\ Event("message.completed", m, MaxText).message = m
        /\ Event("message.completed", m, MaxText).text = MaxText
    BY EventFields DEF EventTypes
  <2>. QED BY <2>1, <2>2
<1>2. AgentOnly /\ SaidGrows(2) /\ Said'[Len(Said) + 1] = e /\ Said'[Len(Said) + 2] = f
  BY <1>1, SaysTwo DEF MessageAtOnce
<1>3. TextBecomes(m, MaxText) /\ agentThread'.done = agentThread.done \cup {m}
  BY DEF MessageAtOnce, ResumeTyped, ThreadRecords, TextsShown, Text, TextBecomes
<1>4. IsNext(m)
  BY BegunIsNext DEF MessageAtOnce
<1>. QED BY <1>1, <1>2, <1>3, <1>4 DEF MessageAtOnceEffect, IsNew

\* What every step of the agent keeps: the texts only grow, and those of completed messages
\* stay.
TextsGrow ==
  /\ agentThread.done \subseteq agentThread'.done
  /\ \A d \in Messages :
       /\ Text(d) <= Text(d)' /\ Text(d)' <= MaxText /\ Text(d)' \in Int
       /\ d \in agentThread.done => Text(d)' = Text(d)
       /\ d \in agentThread'.done => Text(d)' # NoText
       /\ Text(d)' # NoText => Text(d) # NoText \/ 1 .. (d - 1) \subseteq agentThread.done
  /\ agentThread'.users = agentThread.users
  /\ agentThread.item # "absent" => agentThread'.item # "absent"

\* What the i-th event, one of n new ones, may be.
IsSaidInTurn(i, n) ==
  LET e == Said'[i] IN
  /\ IsTrueOf(e, agentThread') /\ e.message \notin agentThread.done
  /\ e.type = "message.started" => i = Len(Said) + 1 /\ Text(e.message) = NoText
  /\ e.type = "message.completed" => i = Len(Said) + n
  /\ e.type \in {"content.delta", "message.completed"} =>
       \E j \in 1 .. (i - 1) : Said'[j].type = "message.started" /\ Said'[j].message = e.message
  /\ \A j \in (Len(Said) + 1) .. i : Said'[j].message = e.message
  /\ e.type = "content.delta" =>
       n = 1 /\ Text(e.message) # NoText /\ agentThread'.text[e.message] = Text(e.message) + 1
  /\ e.type = "item.started" => n = 1 /\ agentThread.item = "absent"
  /\ e.type \in {"item.started", "item.completed"} => agentThread'.item # "absent"

\* A step of the agent.
AgentStep == \E n \in {1, 2} :
  /\ AgentOnly /\ SaidGrows(n) /\ TextsGrow
  /\ \A i \in (Len(Said) + 1) .. (Len(Said) + n) : IsSaidInTurn(i, n)
  /\ \A d \in Messages : Text(d)' # NoText /\ Text(d) = NoText => IsAnnounced(d)'

\* The texts of the messages are numbers within their bounds.
LEMMA TextNumbers ==
  ASSUME ResumeTyped, TextsAreBounded
  PROVE  \A d \in Messages : /\ Text(d) \in Int /\ NoText <= Text(d) /\ Text(d) <= MaxText
                             /\ d \in agentThread.done => Text(d) # NoText
BY DEF TextsAreBounded, Text, ResumeTyped, ThreadRecords, TextsShown

\* The steps that change no text.
LEMMA PlainIsStep ==
  ASSUME ResumeTyped, AgentInv, PlainEffect
  PROVE  AgentStep
<1>. USE ResumeNumbers
<1>1. \A d \in Messages : /\ Text(d) \in Int /\ NoText <= Text(d) /\ Text(d) <= MaxText
                          /\ d \in agentThread.done => Text(d) # NoText
  BY TextNumbers DEF AgentInv
<1>2. PICK n \in {1, 2} :
        /\ AgentOnly /\ SaidGrows(n) /\ agentThread'.text = agentThread.text
        /\ agentThread'.done = agentThread.done /\ agentThread'.users = agentThread.users
        /\ agentThread.item # "absent" => agentThread'.item # "absent"
        /\ \A i \in (Len(Said) + 1) .. (Len(Said) + n) :
             /\ Said'[i].type \in PlainTypes /\ Said'[i].message = 0
             /\ Said'[i].type = "item.started" => n = 1 /\ agentThread.item = "absent"
             /\ Said'[i].type \in {"item.started", "item.completed"} => agentThread'.item # "absent"
  BY DEF PlainEffect
<1>3. TextsGrow
  BY <1>1, <1>2 DEF TextsGrow, Text
<1>4. agentThread.done \subseteq Messages
  BY DEF ResumeTyped, ThreadRecords
<1>5. ASSUME NEW i \in (Len(Said) + 1) .. (Len(Said) + n) PROVE IsSaidInTurn(i, n)
  <2>1. PICK e : e = Said'[i] /\ e.type \in PlainTypes /\ e.message = 0
    BY <1>2, <1>5
  <2>2. IsTrueOf(e, agentThread')
    BY <2>1 DEF IsTrueOf, PlainTypes
  <2>3. /\ e.type = "item.started" => n = 1 /\ agentThread.item = "absent"
        /\ e.type \in {"item.started", "item.completed"} => agentThread'.item # "absent"
    BY <1>2, <1>5, <2>1
  <2>4. \A j \in (Len(Said) + 1) .. i : Said'[j].message = 0
    <3>1. PICK l \in Nat : l = Len(Said)
      BY LogIsBeginning
    <3>2. \A j \in (l + 1) .. i : j \in (l + 1) .. (l + n)
      BY <1>2, <1>5, <3>1
    <3>. QED BY <1>2, <3>1, <3>2
  <2>. QED BY <1>4, <2>1, <2>2, <2>3, <2>4 DEF IsSaidInTurn, PlainTypes
<1>6. \A d \in Messages : ~ (Text(d)' # NoText /\ Text(d) = NoText)
  BY <1>2 DEF Text
<1>. QED BY <1>2, <1>3, <1>5, <1>6 DEF AgentStep

\* A message starts.
LEMMA MessageStartsIsStep ==
  ASSUME ResumeTyped, AgentInv, NEW m \in Messages, NEW x \in 0 .. MaxText,
         MessageStartsEffect(m, x)
  PROVE  AgentStep
<1>. USE ResumeNumbers
<1>1. \A d \in Messages : /\ Text(d) \in Int /\ NoText <= Text(d) /\ Text(d) <= MaxText
                          /\ d \in agentThread.done => Text(d) # NoText
  BY TextNumbers DEF AgentInv
<1>2. \A d \in Messages : Text(d)' = IF d = m THEN x ELSE Text(d)
  BY DEF MessageStartsEffect, TextBecomes, Text
<1>3. TextsGrow
  BY <1>1, <1>2 DEF TextsGrow, MessageStartsEffect, TextBecomes, IsNext
<1>4. Len(Said) \in Nat
  BY LogIsBeginning
<1>5. /\ IsSaidInTurn(Len(Said) + 1, 1)
      /\ Said'[Len(Said) + 1].type = "message.started" /\ Said'[Len(Said) + 1].message = m
  <2>1. PICK e : e = Said'[Len(Said) + 1] /\ e.type = "message.started" /\ e.message = m /\ e.text = x
    BY DEF MessageStartsEffect, IsNew
  <2>2. IsTrueOf(e, agentThread')
    BY <2>1 DEF IsTrueOf, MessageStartsEffect, TextBecomes
  <2>3. \A j \in (Len(Said) + 1) .. (Len(Said) + 1) : Said'[j] = e
    BY <1>4, <2>1
  <2>. QED BY <2>1, <2>2, <2>3 DEF IsSaidInTurn, MessageStartsEffect, IsNext
<1>6. \A i \in (Len(Said) + 1) .. (Len(Said) + 1) : IsSaidInTurn(i, 1)
  BY <1>4, <1>5
<1>7. \A d \in Messages : Text(d)' # NoText /\ Text(d) = NoText => IsAnnounced(d)'
  <2>1. Len(Said) + 1 \in 1 .. Len(Said')
    BY <1>4 DEF MessageStartsEffect, SaidGrows
  <2>. QED BY <1>2, <1>5, <2>1 DEF IsAnnounced
<1>. QED BY <1>3, <1>6, <1>7 DEF AgentStep, MessageStartsEffect

\* A message grows.
LEMMA MessageGrowsIsStep ==
  ASSUME ResumeTyped, AgentInv, NEW m \in Messages, MessageGrowsEffect(m)
  PROVE  AgentStep
<1>. USE ResumeNumbers
<1>1. \A d \in Messages : /\ Text(d) \in Int /\ NoText <= Text(d) /\ Text(d) <= MaxText
                          /\ d \in agentThread.done => Text(d) # NoText
  BY TextNumbers DEF AgentInv
<1>2. \A d \in Messages : Text(d)' = IF d = m THEN Text(m) + 1 ELSE Text(d)
  BY DEF MessageGrowsEffect, TextBecomes, Text
<1>3. TextsGrow
  BY <1>1, <1>2 DEF TextsGrow, MessageGrowsEffect, TextBecomes
<1>4. Len(Said) \in Nat
  BY LogIsBeginning
<1>5. IsSaidInTurn(Len(Said) + 1, 1)
  <2>1. PICK e : e = Said'[Len(Said) + 1] /\ e.type = "content.delta" /\ e.message = m /\ e.text = 1
    BY DEF MessageGrowsEffect, IsNew
  <2>2. IsTrueOf(e, agentThread')
    BY <1>1, <2>1 DEF IsTrueOf, MessageGrowsEffect, TextBecomes
  <2>3. \A j \in (Len(Said) + 1) .. (Len(Said) + 1) : Said'[j] = e
    BY <1>4, <2>1
  <2>4. \E j \in 1 .. ((Len(Said) + 1) - 1) :
          Said'[j].type = "message.started" /\ Said'[j].message = m
    <3>1. IsAnnounced(m)
      BY DEF AgentInv, StreamsAreSaid, MessageGrowsEffect
    <3>2. PICK j \in 1 .. Len(Said) : Said[j].type = "message.started" /\ Said[j].message = m
      BY <3>1 DEF IsAnnounced
    <3>3. Said'[j] = Said[j] /\ j \in 1 .. ((Len(Said) + 1) - 1)
      BY <1>4 DEF MessageGrowsEffect, SaidGrows
    <3>. QED BY <3>2, <3>3
  <2>. QED BY <2>1, <2>2, <2>3, <2>4 DEF IsSaidInTurn, MessageGrowsEffect, TextBecomes
<1>6. \A i \in (Len(Said) + 1) .. (Len(Said) + 1) : IsSaidInTurn(i, 1)
  BY <1>4, <1>5
<1>7. \A d \in Messages : ~ (Text(d)' # NoText /\ Text(d) = NoText)
  BY <1>2 DEF MessageGrowsEffect
<1>. QED BY <1>3, <1>6, <1>7 DEF AgentStep, MessageGrowsEffect

\* A message is completed.
LEMMA MessageCompletesIsStep ==
  ASSUME ResumeTyped, AgentInv, NEW m \in Messages, MessageCompletesEffect(m)
  PROVE  AgentStep
<1>. USE ResumeNumbers
<1>1. \A d \in Messages : /\ Text(d) \in Int /\ NoText <= Text(d) /\ Text(d) <= MaxText
                          /\ d \in agentThread.done => Text(d) # NoText
  BY TextNumbers DEF AgentInv
<1>2. \A d \in Messages : Text(d)' = Text(d)
  BY DEF MessageCompletesEffect, TextBecomes, Text
<1>3. TextsGrow
  BY <1>1, <1>2 DEF TextsGrow, MessageCompletesEffect, TextBecomes
<1>4. Len(Said) \in Nat
  BY LogIsBeginning
<1>5. IsSaidInTurn(Len(Said) + 1, 1)
  <2>1. PICK e : /\ e = Said'[Len(Said) + 1] /\ e.type = "message.completed" /\ e.message = m
                 /\ e.text = Text(m)
    BY DEF MessageCompletesEffect, IsNew
  <2>2. IsTrueOf(e, agentThread')
    BY <1>1, <2>1 DEF IsTrueOf, MessageCompletesEffect, TextBecomes
  <2>3. \A j \in (Len(Said) + 1) .. (Len(Said) + 1) : Said'[j] = e
    BY <1>4, <2>1
  <2>4. \E j \in 1 .. ((Len(Said) + 1) - 1) :
          Said'[j].type = "message.started" /\ Said'[j].message = m
    <3>1. IsAnnounced(m)
      BY DEF AgentInv, StreamsAreSaid, MessageCompletesEffect
    <3>2. PICK j \in 1 .. Len(Said) : Said[j].type = "message.started" /\ Said[j].message = m
      BY <3>1 DEF IsAnnounced
    <3>3. Said'[j] = Said[j] /\ j \in 1 .. ((Len(Said) + 1) - 1)
      BY <1>4 DEF MessageCompletesEffect, SaidGrows
    <3>. QED BY <3>2, <3>3
  <2>. QED BY <2>1, <2>2, <2>3, <2>4 DEF IsSaidInTurn, MessageCompletesEffect
<1>6. \A i \in (Len(Said) + 1) .. (Len(Said) + 1) : IsSaidInTurn(i, 1)
  BY <1>4, <1>5
<1>7. \A d \in Messages : ~ (Text(d)' # NoText /\ Text(d) = NoText)
  BY <1>2 DEF MessageCompletesEffect
<1>. QED BY <1>3, <1>6, <1>7 DEF AgentStep, MessageCompletesEffect

\* A message comes at once.
LEMMA MessageAtOnceIsStep ==
  ASSUME ResumeTyped, AgentInv, NEW m \in Messages, MessageAtOnceEffect(m)
  PROVE  AgentStep
<1>. USE ResumeNumbers
<1>1. \A d \in Messages : /\ Text(d) \in Int /\ NoText <= Text(d) /\ Text(d) <= MaxText
                          /\ d \in agentThread.done => Text(d) # NoText
  BY TextNumbers DEF AgentInv
<1>2. \A d \in Messages : Text(d)' = IF d = m THEN MaxText ELSE Text(d)
  BY DEF MessageAtOnceEffect, TextBecomes, Text
<1>3. TextsGrow
  BY <1>1, <1>2 DEF TextsGrow, MessageAtOnceEffect, TextBecomes, IsNext
<1>4. Len(Said) \in Nat
  BY LogIsBeginning
<1>5. IsSaidInTurn(Len(Said) + 1, 2)
  <2>1. PICK e : /\ e = Said'[Len(Said) + 1] /\ e.type = "message.started" /\ e.message = m
                 /\ e.text = MaxText
    BY DEF MessageAtOnceEffect, IsNew
  <2>2. IsTrueOf(e, agentThread')
    BY <2>1 DEF IsTrueOf, MessageAtOnceEffect, TextBecomes
  <2>3. \A j \in (Len(Said) + 1) .. (Len(Said) + 1) : Said'[j] = e
    BY <1>4, <2>1
  <2>. QED BY <2>1, <2>2, <2>3 DEF IsSaidInTurn, MessageAtOnceEffect, IsNext
<1>6. IsSaidInTurn(Len(Said) + 2, 2)
  <2>1. PICK e : /\ e = Said'[Len(Said) + 2] /\ e.type = "message.completed" /\ e.message = m
                 /\ e.text = MaxText
    BY DEF MessageAtOnceEffect, IsNew
  <2>2. IsTrueOf(e, agentThread')
    BY <2>1 DEF IsTrueOf, MessageAtOnceEffect, TextBecomes
  <2>3. \A j \in (Len(Said) + 1) .. (Len(Said) + 2) : j = Len(Said) + 1 \/ j = Len(Said) + 2
    BY <1>4
  <2>4. Said'[Len(Said) + 1].type = "message.started" /\ Said'[Len(Said) + 1].message = m
    BY DEF MessageAtOnceEffect, IsNew
  <2>5. \A j \in (Len(Said) + 1) .. (Len(Said) + 2) : Said'[j].message = m
    BY <2>1, <2>3, <2>4
  <2>6. Len(Said) + 1 \in 1 .. ((Len(Said) + 2) - 1)
    BY <1>4
  <2>7. \E j \in 1 .. ((Len(Said) + 2) - 1) :
          Said'[j].type = "message.started" /\ Said'[j].message = m
    BY <2>4, <2>6
  <2>. QED BY <2>1, <2>2, <2>5, <2>7 DEF IsSaidInTurn, MessageAtOnceEffect, IsNext
<1>7. \A i \in (Len(Said) + 1) .. (Len(Said) + 2) : i = Len(Said) + 1 \/ i = Len(Said) + 2
  BY <1>4
<1>8. \A i \in (Len(Said) + 1) .. (Len(Said) + 2) : IsSaidInTurn(i, 2)
  BY <1>5, <1>6, <1>7
<1>9. \A d \in Messages : Text(d)' # NoText /\ Text(d) = NoText => IsAnnounced(d)'
  <2>1. Len(Said) + 1 \in 1 .. Len(Said')
    BY <1>4 DEF MessageAtOnceEffect, SaidGrows
  <2>2. Said'[Len(Said) + 1].type = "message.started" /\ Said'[Len(Said) + 1].message = m
    BY DEF MessageAtOnceEffect, IsNew
  <2>. QED BY <1>2, <2>1, <2>2 DEF IsAnnounced
<1>. QED BY <1>3, <1>8, <1>9 DEF AgentStep, MessageAtOnceEffect

\* What was said stays true of the agent's thread, in its order, and the deltas of a message
\* make no more than its text.
LEMMA AgentStepKeeps ==
  ASSUME ResumeTyped, AgentInv, AgentStep
  PROVE  AgentInv'
<1>. USE ResumeNumbers
<1>1. PICK n \in {1, 2} :
        /\ AgentOnly /\ SaidGrows(n) /\ TextsGrow
        /\ \A i \in (Len(Said) + 1) .. (Len(Said) + n) : IsSaidInTurn(i, n)
        /\ \A d \in Messages : Text(d)' # NoText /\ Text(d) = NoText => IsAnnounced(d)'
  BY DEF AgentStep
<1>2. PICK l \in Nat : l = Len(Said)
  BY LogIsBeginning
<1>3. \A d \in Messages : /\ Text(d) \in Int /\ NoText <= Text(d) /\ Text(d) <= MaxText
                          /\ d \in agentThread.done => Text(d) # NoText
  BY TextNumbers DEF AgentInv
<1>4. PICK s, r : s = Said /\ r = Said'
  OBVIOUS
<1>5. Len(r) = l + n /\ \A i \in 1 .. l : r[i] = s[i]
  BY <1>1, <1>2, <1>4 DEF SaidGrows
<1>6. \A i \in 1 .. (l + n) : i \in 1 .. l \/ i \in (l + 1) .. (l + n)
  BY <1>2
<1>7. ASSUME NEW i \in (l + 1) .. (l + n)
      PROVE  /\ IsTrueOf(r[i], agentThread') /\ r[i].message \notin agentThread.done
             /\ r[i].type = "message.started" => i = l + 1 /\ Text(r[i].message) = NoText
             /\ r[i].type = "message.completed" => i = l + n
             /\ r[i].type \in {"content.delta", "message.completed"} =>
                  \E j \in 1 .. (i - 1) : r[j].type = "message.started" /\ r[j].message = r[i].message
             /\ \A j \in (l + 1) .. i : r[j].message = r[i].message
             /\ r[i].type = "content.delta" =>
                  /\ n = 1 /\ Text(r[i].message) # NoText
                  /\ agentThread'.text[r[i].message] = Text(r[i].message) + 1
             /\ r[i].type = "item.started" => n = 1 /\ agentThread.item = "absent"
             /\ r[i].type \in {"item.started", "item.completed"} => agentThread'.item # "absent"
  BY <1>1, <1>2, <1>4 DEF IsSaidInTurn
<1>8. ASSUME NEW i \in 1 .. l PROVE IsTrueOf(s[i], agentThread)
  BY <1>2, <1>4 DEF AgentInv, EventsAreTrue
<1>9. EventsAreTrue'
  <2>1. ASSUME NEW i \in 1 .. l PROVE IsTrueOf(r[i], agentThread')
    <3>1. PICK e : e = s[i] /\ e = r[i]
      BY <1>5
    <3>2. IsTrueOf(e, agentThread)
      BY <1>8, <3>1
    <3>3. ASSUME e.message \in Messages
          PROVE  /\ agentThread'.text[e.message] \in Int
                 /\ agentThread.text[e.message] <= agentThread'.text[e.message]
                 /\ agentThread.text[e.message] \in Int /\ NoText <= agentThread.text[e.message]
                 /\ agentThread'.users = agentThread.users
                 /\ e.message \in agentThread.done =>
                      /\ e.message \in agentThread'.done
                      /\ agentThread'.text[e.message] = agentThread.text[e.message]
      BY <1>1, <1>3, <3>3 DEF TextsGrow, Text
    <3>4. e \in Events
      BY <1>2, <1>4, <3>1, LogIsBeginning, ElementOfSeq
    <3>5. IsTrueOf(e, agentThread')
      BY <3>2, <3>3, <3>4 DEF IsTrueOf, Events
    <3>. QED BY <3>1, <3>5
  <2>2. \A i \in 1 .. Len(r) : IsTrueOf(r[i], agentThread')
    BY <1>5, <1>6, <1>7, <2>1
  <2>. QED BY <1>4, <2>2 DEF EventsAreTrue
<1>10. TextsAreBounded'
  <2>1. \A d \in Messages : /\ NoText <= Text(d)' /\ Text(d)' <= MaxText
                            /\ d \in agentThread'.done => Text(d)' # NoText
    BY <1>1, <1>3 DEF TextsGrow
  <2>. QED BY <2>1 DEF TextsAreBounded
<1>11. StartsFirst'
  <2>1. ASSUME NEW j \in 1 .. Len(r), r[j].type = "message.started", NEW i \in 1 .. (j - 1)
        PROVE  r[i].message # r[j].message
    <3>1. CASE j \in 1 .. l
      <4>1. i \in 1 .. l /\ r[i] = s[i] /\ r[j] = s[j]
        BY <1>5, <3>1
      <4>. QED BY <1>2, <1>4, <2>1, <3>1, <4>1 DEF AgentInv, StartsFirst
    <3>2. CASE j \in (l + 1) .. (l + n)
      <4>1. j = l + 1 /\ Text(r[j].message) = NoText /\ IsTrueOf(r[j], agentThread')
        BY <1>7, <2>1, <3>2
      <4>2. i \in 1 .. l /\ IsTrueOf(r[i], agentThread)
        BY <1>5, <1>8, <4>1
      <4>3. r[j].message \in Messages
        BY <2>1, <4>1 DEF IsTrueOf, PlainTypes
      <4>4. r[i].message \in Messages => Text(r[i].message) # NoText
        <5>1. PICK e : e = r[i]
          OBVIOUS
        <5>2. ASSUME e.message \in Messages PROVE Text(e.message) # NoText
          <6>1. agentThread.text[e.message] \in Int /\ Text(e.message) = agentThread.text[e.message]
            BY <1>3, <5>2 DEF Text
          <6>2. IsTrueOf(e, agentThread) /\ (e.message \in agentThread.done => Text(e.message) # NoText)
            BY <1>3, <4>2, <5>1, <5>2
          <6>. QED BY <5>2, <6>1, <6>2 DEF IsTrueOf
        <5>. QED BY <5>1, <5>2
      <4>. QED BY <4>1, <4>3, <4>4
    <3>. QED BY <1>5, <1>6, <3>1, <3>2
  <2>. QED BY <1>4, <2>1 DEF StartsFirst
<1>12. CompletesLast'
  <2>1. ASSUME NEW j \in 1 .. Len(r), NEW i \in 1 .. (j - 1), r[i].type = "message.completed"
        PROVE  r[i].message # r[j].message
    <3>1. CASE j \in 1 .. l
      <4>1. i \in 1 .. l /\ r[i] = s[i] /\ r[j] = s[j]
        BY <1>5, <3>1
      <4>. QED BY <1>2, <1>4, <2>1, <3>1, <4>1 DEF AgentInv, CompletesLast
    <3>2. CASE j \in (l + 1) .. (l + n)
      <4>1. r[j].message \notin agentThread.done
        BY <1>7, <3>2
      <4>2. i \in 1 .. l
        <5>1. i \in 1 .. (l + n) /\ i # l + n
          BY <1>5, <3>2
        <5>. QED BY <1>6, <1>7, <2>1, <5>1
      <4>3. r[i].message \in agentThread.done
        BY <1>5, <1>8, <2>1, <4>2 DEF IsTrueOf, PlainTypes
      <4>. QED BY <4>1, <4>3
    <3>. QED BY <1>5, <1>6, <3>1, <3>2
  <2>. QED BY <1>4, <2>1 DEF CompletesLast
<1>13. ItemInOrder'
  <2>1. ASSUME NEW i \in 1 .. Len(r), r[i].type \in {"item.started", "item.completed"}
        PROVE  agentThread'.item # "absent"
    <3>1. CASE i \in 1 .. l
      <4>1. agentThread.item # "absent"
        BY <1>2, <1>4, <1>5, <2>1, <3>1 DEF AgentInv, ItemInOrder
      <4>. QED BY <1>1, <4>1 DEF TextsGrow
    <3>2. CASE i \in (l + 1) .. (l + n)
      BY <1>7, <2>1, <3>2
    <3>. QED BY <1>5, <1>6, <3>1, <3>2
  <2>2. ASSUME NEW j \in 1 .. Len(r), r[j].type = "item.started", NEW i \in 1 .. (j - 1)
        PROVE  r[i].type # "item.completed"
    <3>1. CASE j \in 1 .. l
      <4>1. i \in 1 .. l /\ r[i] = s[i] /\ r[j] = s[j]
        BY <1>5, <3>1
      <4>. QED BY <1>2, <1>4, <2>2, <3>1, <4>1 DEF AgentInv, ItemInOrder
    <3>2. CASE j \in (l + 1) .. (l + n)
      <4>1. n = 1 /\ agentThread.item = "absent"
        BY <1>7, <2>2, <3>2
      <4>2. i \in 1 .. l
        BY <3>2, <4>1
      <4>. QED BY <1>2, <1>4, <1>5, <4>1, <4>2 DEF AgentInv, ItemInOrder
    <3>. QED BY <1>5, <1>6, <3>1, <3>2
  <2>. QED BY <1>4, <2>1, <2>2 DEF ItemInOrder
<1>14. DeltasAreText'
  <2>1. ASSUME NEW m \in Messages
        PROVE  DeltasIn(r, l + n, m) = 0 \/ DeltasIn(r, l + n, m) <= Text(m)'
    <3>0. DeltasIn(s, l, m) = DeltasIn(r, l, m)
      BY <1>5, DeltasSame
    <3>1. /\ DeltasIn(s, l, m) \in Nat /\ DeltasIn(r, l, m) = DeltasIn(s, l, m)
          /\ DeltasIn(s, l, m) = 0 \/ DeltasIn(s, l, m) <= Text(m)
      <4>1. DeltasIn(s, l, m) \in Nat
        BY DeltasCount
      <4>2. DeltasIn(s, l, m) = 0 \/ DeltasIn(s, l, m) <= Text(m)
        BY <1>2, <1>4 DEF AgentInv, DeltasAreText
      <4>. QED BY <3>0, <4>1, <4>2
    <3>2. Text(m) \in Int /\ NoText <= Text(m) /\ Text(m)' \in Int /\ Text(m) <= Text(m)'
      BY <1>1, <1>3 DEF TextsGrow
    <3>3. DeltasIn(r, l + 1, m) = DeltasIn(r, l, m) +
            (IF r[l + 1].type = "content.delta" /\ r[l + 1].message = m THEN 1 ELSE 0)
      BY <1>2, DeltasCount
    <3>4. l + 1 \in (l + 1) .. (l + n)
      BY <1>2
    <3>7. Text(m)' = agentThread'.text[m]
      BY DEF Text
    <3>5. CASE n = 1
      BY <1>7, <3>7, <3>1, <3>2, <3>3, <3>4, <3>5
    <3>6. CASE n = 2
      <4>1. l + 1 \in Nat /\ l + 2 = (l + 1) + 1
        BY <1>2
      <4>2. DeltasIn(r, l + 2, m) = DeltasIn(r, l + 1, m) +
              (IF r[l + 2].type = "content.delta" /\ r[l + 2].message = m THEN 1 ELSE 0)
        BY <4>1, DeltasCount
      <4>3. l + 2 \in (l + 1) .. (l + n)
        BY <1>2, <3>6
      <4>4. r[l + 1].type # "content.delta" /\ r[l + 2].type # "content.delta"
        BY <1>7, <3>4, <3>6, <4>3
      <4>. QED BY <3>1, <3>2, <3>3, <3>6, <4>2, <4>4
    <3>. QED BY <3>5, <3>6
  <2>. QED BY <1>4, <1>5, <2>1 DEF DeltasAreText
<1>15. BegunInOrder'
  <2>1. ASSUME NEW d \in Messages, Text(d)' # NoText PROVE 1 .. (d - 1) \subseteq agentThread'.done
    <3>1. Text(d) # NoText => 1 .. (d - 1) \subseteq agentThread.done
      BY DEF AgentInv, BegunInOrder
    <3>. QED BY <1>1, <2>1, <3>1 DEF TextsGrow
  <2>. QED BY <2>1 DEF BegunInOrder
<1>16. StartsSaid'
  <2>1. ASSUME NEW j \in 1 .. Len(r), r[j].type \in {"content.delta", "message.completed"}
        PROVE  \E i \in 1 .. (j - 1) : r[i].type = "message.started" /\ r[i].message = r[j].message
    <3>1. CASE j \in 1 .. l
      <4>1. PICK i \in 1 .. (j - 1) : s[i].type = "message.started" /\ s[i].message = s[j].message
        BY <1>2, <1>4, <1>5, <2>1, <3>1 DEF AgentInv, StartsSaid
      <4>2. i \in 1 .. l /\ r[i] = s[i] /\ r[j] = s[j]
        BY <1>5, <3>1
      <4>. QED BY <4>1, <4>2
    <3>2. CASE j \in (l + 1) .. (l + n)
      BY <1>7, <2>1, <3>2
    <3>. QED BY <1>5, <1>6, <3>1, <3>2
  <2>. QED BY <1>4, <2>1 DEF StartsSaid
<1>17. StreamsAreSaid'
  <2>1. ASSUME NEW d \in Messages, IsAnnounced(d) PROVE IsAnnounced(d)'
    <3>1. PICK i \in 1 .. l : s[i].type = "message.started" /\ s[i].message = d
      BY <1>2, <1>4, <2>1 DEF IsAnnounced
    <3>2. i \in 1 .. Len(r) /\ r[i] = s[i]
      BY <1>5
    <3>. QED BY <1>4, <3>1, <3>2 DEF IsAnnounced
  <2>2. ASSUME NEW d \in Messages, Text(d)' # NoText PROVE d \in agentThread'.done \/ IsAnnounced(d)'
    BY <1>1, <2>1, <2>2 DEF AgentInv, StreamsAreSaid, TextsGrow
  <2>. QED BY <2>2 DEF StreamsAreSaid
<1>18. MessagesInOrder'
  <2>1. ASSUME NEW j \in 1 .. Len(r), NEW i \in 1 .. (j - 1), r[j].message \in Messages
        PROVE  r[i].message <= r[j].message
    <3>1. CASE j \in 1 .. l
      <4>1. i \in 1 .. l /\ r[i] = s[i] /\ r[j] = s[j]
        BY <1>5, <3>1
      <4>. QED BY <1>2, <1>4, <2>1, <3>1, <4>1 DEF AgentInv, MessagesInOrder
    <3>2. CASE j \in (l + 1) .. (l + n) /\ i \in (l + 1) .. (l + n)
      <4>1. i \in (l + 1) .. j
        BY <3>2
      <4>2. r[i].message = r[j].message
        BY <1>7, <3>2, <4>1
      <4>3. PICK d \in Nat : d = r[j].message
        BY <2>1
      <4>. QED BY <4>2, <4>3
    <3>3. CASE j \in (l + 1) .. (l + n) /\ i \in 1 .. l
      <4>1. PICK d \in Messages : d = r[j].message /\ d \notin agentThread.done
        BY <1>7, <2>1, <3>3
      <4>2. PICK e : e = r[i] /\ IsTrueOf(e, agentThread)
        BY <1>5, <1>8, <3>3
      <4>3. CASE e.message \in Messages
        <5>1. Text(e.message) # NoText
          <6>1. agentThread.text[e.message] \in Int /\ Text(e.message) = agentThread.text[e.message]
            BY <1>3, <4>3 DEF Text
          <6>2. e.message \in agentThread.done => Text(e.message) # NoText
            BY <1>3, <4>3
          <6>. QED BY <4>2, <4>3, <6>1, <6>2 DEF IsTrueOf
        <5>2. d \notin 1 .. (e.message - 1)
          BY <4>1, <4>3, <5>1 DEF AgentInv, BegunInOrder
        <5>3. e.message \in Nat /\ d \in Nat /\ d >= 1
          BY <4>1, <4>3 DEF Messages
        <5>. QED BY <4>1, <4>2, <5>2, <5>3
      <4>4. CASE e.message = 0
        BY <4>1, <4>2, <4>4
      <4>. QED BY <4>2, <4>3, <4>4 DEF IsTrueOf
    <3>. QED BY <1>2, <1>5, <1>6, <3>1, <3>2, <3>3
  <2>. QED BY <1>4, <2>1 DEF MessagesInOrder
<1>. QED BY <1>9, <1>10, <1>11, <1>12, <1>13, <1>14, <1>15, <1>16, <1>17, <1>18 DEF AgentInv

\* The agent's record keeps its type at the start of the turn.
LEMMA TurnStartsTyped ==
  ASSUME ResumeTyped, TurnStarts
  PROVE  agentThread' \in ThreadRecords
BY DEF ResumeTyped, ThreadRecords, ItemStates, TurnStarts

\* The agent's record keeps its type at the start of the item.
LEMMA ItemStartsTyped ==
  ASSUME ResumeTyped, ItemStarts
  PROVE  agentThread' \in ThreadRecords
BY DEF ResumeTyped, ThreadRecords, ItemStates, ItemStarts

\* The agent's record keeps its type at the end of the item.
LEMMA ItemCompletesTyped ==
  ASSUME ResumeTyped, ItemCompletes
  PROVE  agentThread' \in ThreadRecords
BY DEF ResumeTyped, ThreadRecords, ItemStates, ItemCompletes

\* The agent's record keeps its type at an event that no snapshot has.
LEMMA OnlyLiveTyped ==
  ASSUME ResumeTyped, OnlyLive
  PROVE  agentThread' \in ThreadRecords
BY DEF ResumeTyped, ThreadRecords, ItemStates, OnlyLive

\* The agent's record keeps its type at the end of the turn.
LEMMA TurnEndsTyped ==
  ASSUME ResumeTyped, TurnEnds
  PROVE  agentThread' \in ThreadRecords
BY DEF ResumeTyped, ThreadRecords, ItemStates, TurnEnds

\* The agent's record keeps its type at a delta of a message.
LEMMA MessageGrowsTyped ==
  ASSUME ResumeTyped, NEW m \in Messages, MessageGrows(m)
  PROVE  agentThread' \in ThreadRecords
<1>1. PICK texts \in TextsShown, done \in SUBSET Messages :
        texts = [agentThread.text EXCEPT ![m] = @ + 1] /\ done = agentThread.done
  <2>1. agentThread.text \in TextsShown /\ agentThread.done \in SUBSET Messages
    BY DEF ResumeTyped, ThreadRecords
  <2>2. [agentThread.text EXCEPT ![m] = @ + 1] \in TextsShown
    BY <2>1, ResumeNumbers DEF TextsShown
  <2>. QED BY <2>1, <2>2
<1>2. agentThread' = [agentThread EXCEPT !.text = texts, !.done = done]
  BY <1>1 DEF MessageGrows, ResumeTyped, ThreadRecords, TextsShown
<1>. QED BY <1>1, <1>2 DEF ResumeTyped, ThreadRecords

\* The agent's record keeps its type at the end of a message.
LEMMA MessageCompletesTyped ==
  ASSUME ResumeTyped, NEW m \in Messages, MessageCompletes(m)
  PROVE  agentThread' \in ThreadRecords
<1>1. PICK texts \in TextsShown, done \in SUBSET Messages :
        texts = [agentThread.text EXCEPT ![m] = @] /\ done = agentThread.done \cup {m}
  <2>1. agentThread.text \in TextsShown /\ agentThread.done \in SUBSET Messages
    BY DEF ResumeTyped, ThreadRecords
  <2>2. [agentThread.text EXCEPT ![m] = @] \in TextsShown
    BY <2>1, ResumeNumbers DEF TextsShown
  <2>. QED BY <2>1, <2>2
<1>2. agentThread' = [agentThread EXCEPT !.text = texts, !.done = done]
  BY <1>1 DEF MessageCompletes, ResumeTyped, ThreadRecords, TextsShown
<1>. QED BY <1>1, <1>2 DEF ResumeTyped, ThreadRecords

\* The agent's record keeps its type at a message that comes at once.
LEMMA MessageAtOnceTyped ==
  ASSUME ResumeTyped, NEW m \in Messages, MessageAtOnce(m)
  PROVE  agentThread' \in ThreadRecords
<1>1. PICK texts \in TextsShown, done \in SUBSET Messages :
        texts = [agentThread.text EXCEPT ![m] = MaxText] /\ done = agentThread.done \cup {m}
  <2>1. agentThread.text \in TextsShown /\ agentThread.done \in SUBSET Messages
    BY DEF ResumeTyped, ThreadRecords
  <2>2. [agentThread.text EXCEPT ![m] = MaxText] \in TextsShown
    BY <2>1, ResumeNumbers DEF TextsShown
  <2>. QED BY <2>1, <2>2
<1>2. agentThread' = [agentThread EXCEPT !.text = texts, !.done = done]
  BY <1>1 DEF MessageAtOnce, ResumeTyped, ThreadRecords, TextsShown
<1>. QED BY <1>1, <1>2 DEF ResumeTyped, ThreadRecords

\* A step of the agent keeps the types.
LEMMA AgentStepTyped ==
  ASSUME ResumeTyped, AgentStep, agentThread' \in ThreadRecords
  PROVE  ResumeTyped'
BY DEF ResumeTyped, AgentStep, AgentOnly, SaidGrows

\* What the agent has said is not changed by its way to the log.
LEMMA LogAppendsChanges ==
  ASSUME ResumeTyped, LogAppends
  PROVE  /\ ResumeTyped' /\ Said' = Said /\ Len(runLog)' = Len(runLog) + 1
         /\ \A i \in 1 .. Len(runLog) : runLog'[i] = runLog[i]
<1>1. PICK l \in Seq(Events), n \in Seq(Events) : l = runLog /\ n = notices /\ n # <<>>
  BY DEF ResumeTyped, LogAppends
<1>2. /\ Head(n) \in Events /\ Tail(n) \in Seq(Events) /\ Len(Tail(n)) = Len(n) - 1
      /\ Len(n) \in Nat /\ Len(n) > 0 /\ Head(n) = n[1]
      /\ \A i \in 1 .. Len(Tail(n)) : Tail(n)[i] = n[i + 1]
  BY <1>1, HeadTailProperties, EmptySeq, LenProperties
<1>3. PICK e \in Events, t \in Seq(Events) : e = Head(n) /\ t = Tail(n)
  BY <1>2
<1>4. PICK k \in Seq(Events) : k = Append(l, e)
  BY AppendProperties
<1>5. /\ Len(k) = Len(l) + 1 /\ Len(l) \in Nat /\ k[Len(l) + 1] = e
      /\ \A i \in 1 .. Len(l) : k[i] = l[i]
  BY <1>4, AppendProperties, LenProperties
<1>6. /\ Len(t) = Len(n) - 1 /\ e = n[1] /\ \A i \in 1 .. Len(t) : t[i] = n[i + 1]
  BY <1>2, <1>3
<1>7. k \o t = l \o n
  <2>1. /\ k \o t \in Seq(Events) /\ l \o n \in Seq(Events)
        /\ Len(k \o t) = Len(k) + Len(t) /\ Len(l \o n) = Len(l) + Len(n)
        /\ \A i \in 1 .. (Len(k) + Len(t)) : (k \o t)[i] = IF i <= Len(k) THEN k[i] ELSE t[i - Len(k)]
        /\ \A i \in 1 .. (Len(l) + Len(n)) : (l \o n)[i] = IF i <= Len(l) THEN l[i] ELSE n[i - Len(l)]
    BY ConcatProperties
  <2>2. PICK a \in Nat, b \in Nat : a = Len(l) /\ b = Len(t) /\ Len(n) = b + 1 /\ Len(k) = a + 1
    <3>1. Len(t) \in Nat /\ Len(l) \in Nat
      BY LenProperties
    <3>2. Len(n) = Len(t) + 1 /\ Len(k) = Len(l) + 1
      BY <1>2, <1>5, <1>6
    <3>. QED BY <3>1, <3>2
  <2>3. Len(k \o t) = Len(l \o n) /\ Len(k \o t) = a + b + 1
    BY <2>1, <2>2
  <2>4. ASSUME NEW i \in 1 .. (a + b + 1) PROVE (k \o t)[i] = (l \o n)[i]
    <3>1. CASE i <= a
      <4>1. i \in 1 .. a /\ i <= a + 1
        BY <2>2, <3>1
      <4>. QED BY <1>5, <2>1, <2>2, <3>1, <4>1
    <3>2. CASE i = a + 1
      <4>1. ~ (i <= a) /\ i - a = 1 /\ i <= a + 1
        BY <2>2, <3>2
      <4>2. (k \o t)[i] = k[i] /\ (l \o n)[i] = n[1]
        BY <2>1, <2>2, <4>1
      <4>. QED BY <1>5, <1>6, <2>2, <3>2, <4>2
    <3>3. CASE i > a + 1
      <4>1. ~ (i <= a) /\ ~ (i <= a + 1) /\ i - (a + 1) \in 1 .. b /\ (i - (a + 1)) + 1 = i - a
        BY <2>2, <3>3
      <4>2. (k \o t)[i] = t[i - (a + 1)] /\ (l \o n)[i] = n[i - a]
        BY <2>1, <2>2, <4>1
      <4>. QED BY <1>6, <2>2, <4>1, <4>2
    <3>. QED BY <2>2, <3>1, <3>2, <3>3
  <2>5. \A i \in 1 .. Len(k \o t) : (k \o t)[i] = (l \o n)[i]
    BY <2>3, <2>4
  <2>. QED BY <2>1, <2>3, <2>5, SeqEqual
<1>8. runLog' = k /\ notices' = t
  BY <1>1, <1>3, <1>4 DEF LogAppends
<1>9. Said' = Said
  BY <1>1, <1>7, <1>8 DEF Said
<1>10. position <= Len(k)
  BY <1>1, <1>5 DEF ResumeTyped
<1>11. ResumeTyped'
  BY <1>8, <1>10 DEF ResumeTyped, LogAppends
<1>. QED BY <1>1, <1>5, <1>8, <1>9, <1>11

-----------------------------------------------------------------------------
(***************************************************************************)
(* What the log tells.                                                     *)
(***************************************************************************)
\* The next event adds one to the deltas of its message.
LEMMA PlaceSteps ==
  ASSUME NEW n \in Nat, NEW m
  PROVE  /\ DeltasUpTo(n, m) \in Nat /\ DeltasUpTo(0, m) = 0
         /\ DeltasUpTo(n + 1, m) = DeltasUpTo(n, m) +
              (IF runLog[n + 1].type = "content.delta" /\ runLog[n + 1].message = m THEN 1 ELSE 0)
<1>1. \A k \in Nat : DeltasUpTo(k, m) = DeltasIn(runLog, k, m)
  BY DEF DeltasUpTo, DeltasIn
<1>2. n + 1 \in Nat /\ 0 \in Nat
  OBVIOUS
<1>3. PICK s : s = runLog
  OBVIOUS
<1>4. /\ DeltasIn(s, n, m) \in Nat /\ DeltasIn(s, 0, m) = 0
      /\ DeltasIn(s, n + 1, m) = DeltasIn(s, n, m) +
            (IF s[n + 1].type = "content.delta" /\ s[n + 1].message = m THEN 1 ELSE 0)
  BY DeltasCount
<1>. QED BY <1>1, <1>2, <1>3, <1>4

\* The deltas of a message in the log are part of its text.
LEMMA PlaceDeltas ==
  ASSUME ResumeTyped, AgentInv, NEW n \in 0 .. Len(runLog), NEW m \in Messages
  PROVE  /\ DeltasUpTo(n, m) \in Nat
         /\ DeltasUpTo(n, m) = 0 \/ DeltasUpTo(n, m) <= Text(m)
<1>. USE ResumeNumbers
<1>1. /\ Len(Said) \in Nat /\ n \in Nat /\ n <= Len(Said)
      /\ \A i \in 1 .. n : Said[i] = runLog[i]
  <2>2. /\ Len(Said) = Len(runLog) + Len(notices) /\ Len(runLog) \in Nat /\ Len(notices) \in Nat
        /\ \A i \in 1 .. Len(runLog) : Said[i] = runLog[i]
    BY LogIsBeginning
  <2>. QED BY <2>2
<1>2. PICK l, s : l \in Nat /\ l = Len(Said) /\ s = Said
  BY <1>1
<1>3. n \in 0 .. l /\ DeltasIn(s, n, m) \in Nat /\ DeltasIn(s, l, m) \in Nat
  BY <1>1, <1>2, DeltasCount
<1>4. DeltasIn(s, n, m) <= DeltasIn(s, l, m)
  BY <1>2, <1>3, DeltasCount
<1>5. DeltasIn(s, n, m) = DeltasUpTo(n, m)
  BY <1>1, <1>2, DeltasSame DEF DeltasUpTo, DeltasIn
<1>6. DeltasIn(s, l, m) = 0 \/ DeltasIn(s, l, m) <= Text(m)
  BY <1>2 DEF AgentInv, DeltasAreText
<1>7. Text(m) \in Int
  BY TextNumbers DEF AgentInv
<1>. QED BY <1>3, <1>4, <1>5, <1>6, <1>7

\* The events of the log.
LEMMA LogIsTrue ==
  ASSUME ResumeTyped, AgentInv, NEW n \in 1 .. Len(runLog)
  PROVE  /\ runLog[n] \in Events /\ IsTrueOf(runLog[n], agentThread)
         /\ \A i \in 1 .. (n - 1) :
              /\ runLog[n].type = "message.started" => runLog[i].message # runLog[n].message
              /\ runLog[i].type = "message.completed" => runLog[i].message # runLog[n].message
              /\ runLog[n].type = "item.started" => runLog[i].type # "item.completed"
              /\ runLog[n].message \in Messages => runLog[i].message <= runLog[n].message
         /\ runLog[n].type \in {"content.delta", "message.completed"} =>
              \E i \in 1 .. (n - 1) :
                runLog[i].type = "message.started" /\ runLog[i].message = runLog[n].message
<1>2. /\ Len(Said) = Len(runLog) + Len(notices) /\ Len(runLog) \in Nat /\ Len(notices) \in Nat
      /\ \A i \in 1 .. Len(runLog) : Said[i] = runLog[i]
  BY LogIsBeginning
<1>3. n \in 1 .. Len(Said) /\ Said[n] = runLog[n]
  BY <1>2
<1>4. \A i \in 1 .. (n - 1) : i \in 1 .. Len(runLog) /\ Said[i] = runLog[i]
  BY <1>2
<1>5. runLog[n] \in Events
  BY ElementOfSeq DEF ResumeTyped
<1>6. IsTrueOf(runLog[n], agentThread)
  BY <1>3 DEF AgentInv, EventsAreTrue
<1>8. StartsFirst /\ CompletesLast /\ ItemInOrder /\ MessagesInOrder /\ StartsSaid
  BY DEF AgentInv
<1>7. ASSUME NEW i \in 1 .. (n - 1)
      PROVE  /\ runLog[n].type = "message.started" => runLog[i].message # runLog[n].message
             /\ runLog[i].type = "message.completed" => runLog[i].message # runLog[n].message
             /\ runLog[n].type = "item.started" => runLog[i].type # "item.completed"
             /\ runLog[n].message \in Messages => runLog[i].message <= runLog[n].message
  <2>2. runLog[n].type = "message.started" => runLog[i].message # runLog[n].message
    BY <1>3, <1>4, <1>8 DEF StartsFirst
  <2>3. runLog[i].type = "message.completed" => runLog[i].message # runLog[n].message
    BY <1>3, <1>4, <1>8 DEF CompletesLast
  <2>4. runLog[n].type = "item.started" => runLog[i].type # "item.completed"
    BY <1>3, <1>4, <1>8 DEF ItemInOrder
  <2>5. runLog[n].message \in Messages => runLog[i].message <= runLog[n].message
    BY <1>3, <1>4, <1>8 DEF MessagesInOrder
  <2>. QED BY <2>2, <2>3, <2>4, <2>5
<1>9. runLog[n].type \in {"content.delta", "message.completed"} =>
        \E i \in 1 .. (n - 1) :
          runLog[i].type = "message.started" /\ runLog[i].message = runLog[n].message
  BY <1>3, <1>4, <1>8 DEF StartsSaid
<1>. QED BY <1>5, <1>6, <1>7, <1>9

\* A message that is told of has an event of a message, and its start was told before or then.
LEMMA ToldFacts ==
  ASSUME ResumeTyped, AgentInv, NEW n \in 1 .. Len(runLog)
  PROVE  /\ runLog[n].type \in EventTypes /\ runLog[n].message \in Nat /\ runLog[n].text \in Nat
         /\ runLog[n].message = 0 <=> runLog[n].type \in PlainTypes
         /\ runLog[n].type \notin PlainTypes =>
              /\ runLog[n].message \in Messages
              /\ runLog[n].type \in {"message.started", "content.delta", "message.completed"}
              /\ \E i \in 1 .. n :
                   runLog[i].type = "message.started" /\ runLog[i].message = runLog[n].message
<1>. USE ResumeNumbers
<1>1. PICK e \in Events : e = runLog[n] /\ IsTrueOf(e, agentThread)
  BY LogIsTrue
<1>2. e.type \in EventTypes /\ e.message \in Nat /\ e.text \in Nat
  BY <1>1 DEF Events
<1>3. e.message = 0 <=> e.type \in PlainTypes
  BY <1>1 DEF IsTrueOf, PlainTypes
<1>4. e.type \notin PlainTypes =>
        /\ e.message \in Messages
        /\ e.type \in {"message.started", "content.delta", "message.completed"}
  BY <1>1 DEF IsTrueOf
<1>5. ASSUME e.type \in {"content.delta", "message.completed"}
      PROVE  \E i \in 1 .. n : runLog[i].type = "message.started" /\ runLog[i].message = e.message
  <2>1. PICK i \in 1 .. (n - 1) :
          runLog[i].type = "message.started" /\ runLog[i].message = e.message
    BY <1>1, <1>5, LogIsTrue
  <2>. QED BY <2>1
<1>6. ASSUME e.type = "message.started"
      PROVE  \E i \in 1 .. n : runLog[i].type = "message.started" /\ runLog[i].message = e.message
  BY <1>1, <1>6
<1>. QED BY <1>1, <1>2, <1>3, <1>4, <1>5, <1>6

\* What the next event tells of.
LEMMA ToldNext ==
  ASSUME ResumeTyped, NEW p \in Nat, p + 1 <= Len(runLog), NEW m
  PROVE  IsTold(m, p + 1) <=> IsTold(m, p) \/ runLog[p + 1].message = m
<1>1. \A i \in 1 .. (p + 1) : i \in 1 .. p \/ i = p + 1
  OBVIOUS
<1>2. p + 1 \in 1 .. (p + 1) /\ \A i \in 1 .. p : i \in 1 .. (p + 1)
  OBVIOUS
<1>. QED BY <1>1, <1>2 DEF IsTold

-----------------------------------------------------------------------------
(***************************************************************************)
(* The deltas that wait.                                                   *)
(***************************************************************************)
\* A view by its fields.
LEMMA ViewFields ==
  ASSUME NEW v \in ViewRecords
  PROVE  /\ v.text \in [Messages -> Int] /\ v.alias \in [Messages -> Messages]
         /\ v.shows \in [Messages -> Messages] /\ v.replayed \in [Messages -> Nat]
         /\ v.pending \in [of : 0 .. NumMessages, deltas : Nat]
         /\ v.pending.of \in 0 .. NumMessages /\ v.pending.deltas \in Nat
         /\ v.pending.of # 0 => v.pending.of \in Messages
         /\ v.item \in ItemStates /\ v.beganPartial \in BOOLEAN
<1>1. v.pending \in [of : 0 .. NumMessages, deltas : Nat]
  BY DEF ViewRecords
<1>2. v.pending.of \in 0 .. NumMessages /\ v.pending.deltas \in Nat
  BY <1>1
<1>3. v.pending.of # 0 => v.pending.of \in Messages
  BY <1>2, ResumeNumbers DEF Messages
<1>. QED BY <1>1, <1>2, <1>3 DEF ViewRecords, TextsShown

\* The message whose deltas wait is under way, and none after it was told of.
LEMMA PendingFacts ==
  ASSUME ResumeTyped, AgentInv, NEW p \in 0 .. Len(runLog), NEW v \in ViewRecords, Seen(v, p),
         v.pending.deltas > 0
  PROVE  /\ p \in 1 .. Len(runLog) /\ v.pending.of \in Messages /\ Text(v.pending.of) > 0
         /\ IsTold(v.pending.of, p) /\ v.text[v.alias[v.pending.of]] # NoText
         /\ \A i \in 1 .. p :
              /\ runLog[i].message <= v.pending.of
              /\ runLog[i].type = "message.completed" => runLog[i].message # v.pending.of
<1>. USE ResumeNumbers
<1>1. /\ p \in 1 .. Len(runLog) /\ runLog[p].type = "content.delta"
      /\ runLog[p].message = v.pending.of
  BY DEF Seen, LastWaits
<1>2. PICK q : q = v.pending.of
  OBVIOUS
<1>3. q \in Messages /\ Text(q) > 0
  <2>1. IsTrueOf(runLog[p], agentThread)
    BY <1>1, LogIsTrue
  <2>. QED BY <1>1, <1>2, <2>1 DEF IsTrueOf, PlainTypes, Text
<1>4. IsTold(q, p)
  BY <1>1, <1>2 DEF IsTold
<1>5. PICK i \in 1 .. (p - 1) : runLog[i].type = "message.started" /\ runLog[i].message = q
  BY <1>1, <1>2, LogIsTrue
<1>6. v.text[v.alias[q]] # NoText
  <2>1. i \in 1 .. p
    BY <1>1
  <2>. QED BY <1>5, <2>1 DEF Seen, StartsAreSeen
<1>7. ASSUME NEW j \in 1 .. p
      PROVE  /\ runLog[j].message <= q
             /\ runLog[j].type = "message.completed" => runLog[j].message # q
  <2>1. runLog[j].type = "message.completed" => runLog[j].message # q
    BY <1>2 DEF Seen, EndsAreSeen
  <2>2. CASE j = p
    <3>1. runLog[j].message = q
      BY <1>1, <1>2, <2>2
    <3>2. q <= q
      BY <1>3
    <3>. QED BY <2>1, <3>1, <3>2
  <2>3. CASE j # p
    <3>1. j \in 1 .. (p - 1)
      BY <1>1, <2>3
    <3>2. runLog[j].message <= runLog[p].message
      BY <1>1, <1>2, <1>3, <3>1, LogIsTrue
    <3>. QED BY <1>1, <1>2, <2>1, <3>2
  <2>. QED BY <2>2, <2>3
<1>. QED BY <1>1, <1>2, <1>3, <1>4, <1>6, <1>7

\* What is appended, by its fields.
LEMMA AppendedFields ==
  ASSUME NEW v \in ViewRecords, v.pending.of \in Messages, NEW isVisible \in BOOLEAN,
         v.text[v.alias[v.pending.of]] # NoText, NoText <= v.text[v.alias[v.pending.of]]
  PROVE  LET w == Appended(v, isVisible)
             q == v.pending.of
             key == v.alias[q] IN
         /\ w \in ViewRecords /\ w.alias = v.alias /\ w.shows = v.shows /\ w.item = v.item
         /\ w.beganPartial = v.beganPartial /\ w.pending = NothingPending
         /\ \A k \in Messages \ {key} : w.text[k] = v.text[k]
         /\ w.text[key] = IF isVisible THEN v.text[key] ELSE v.text[key] + v.pending.deltas
         /\ \A k \in Messages \ {q} : w.replayed[k] = v.replayed[k]
         /\ w.replayed[q] = IF key = q THEN v.replayed[q] ELSE v.replayed[q] + v.pending.deltas
<1>. USE ResumeNumbers
<1>1. PICK q, d, key, x, y :
        /\ q = v.pending.of /\ d = v.pending.deltas /\ key = v.alias[q]
        /\ x = (IF isVisible THEN v.text[key] ELSE v.text[key] + d)
        /\ y = (IF key = q THEN v.replayed[q] ELSE v.replayed[q] + d)
  OBVIOUS
<1>2. /\ q \in Messages /\ d \in Nat /\ key \in Messages /\ v.text[key] \in Int
      /\ v.replayed[q] \in Nat
  BY <1>1, ViewFields
<1>3. x \in Int /\ y \in Nat
  BY <1>1, <1>2
<1>4. Appended(v, isVisible)
      = [v EXCEPT !.text[key] = x, !.replayed[q] = y, !.pending = NothingPending]
  BY <1>1, <1>2 DEF Appended
<1>5. NothingPending \in [of : 0 .. NumMessages, deltas : Nat]
  BY DEF NothingPending
<1>6. PICK w : w = Appended(v, isVisible)
  OBVIOUS
<1>7. /\ w.text = [v.text EXCEPT ![key] = x] /\ w.replayed = [v.replayed EXCEPT ![q] = y]
      /\ w.pending = NothingPending /\ w.alias = v.alias /\ w.shows = v.shows
      /\ w.item = v.item /\ w.beganPartial = v.beganPartial
  BY <1>4, <1>6 DEF ViewRecords
<1>8. /\ w.text \in TextsShown /\ w.replayed \in [Messages -> Nat]
      /\ \A k \in Messages \ {key} : w.text[k] = v.text[k] /\ w.text[key] = x
      /\ w.text[key] = x
      /\ \A k \in Messages \ {q} : w.replayed[k] = v.replayed[k] 
      /\ w.replayed[q] = y
  BY <1>2, <1>3, <1>7, ViewFields DEF TextsShown
<1>9. w \in ViewRecords
  <2>1. w = [text |-> w.text, alias |-> w.alias, replayed |-> w.replayed, pending |-> w.pending,
             item |-> w.item, beganPartial |-> w.beganPartial, shows |-> w.shows]
    BY <1>4, <1>6 DEF ViewRecords
  <2>. QED BY <1>5, <1>7, <1>8, <2>1, ViewFields DEF ViewRecords
<1>. QED BY <1>1, <1>6, <1>7, <1>8, <1>9

\* A flush leads to a view that has seen as much, and nothing waits.
LEMMA FlushKeeps ==
  ASSUME ResumeTyped, AgentInv, NEW p \in 0 .. Len(runLog), NEW v \in ViewRecords, Seen(v, p),
         NEW w \in Flushed(v)
  PROVE  /\ w \in ViewRecords /\ Seen(w, p) /\ w.pending = NothingPending
         /\ w.alias = v.alias /\ w.item = v.item /\ w.beganPartial = v.beganPartial
<1>. USE ResumeNumbers
<1>1. CASE v.pending.deltas = 0
  <2>1. w = v
    BY <1>1 DEF Flushed
  <2>2. v.pending.of = 0
    BY <1>1 DEF Seen, LastWaits
  <2>3. v.pending = NothingPending
    BY <1>1, <2>2, ViewFields DEF NothingPending
  <2>. QED BY <2>1, <2>3
<1>2. CASE v.pending.deltas # 0
  <2>. DEFINE q == v.pending.of
              d == v.pending.deltas
              key == v.alias[q]
  <2>1. d \in Nat /\ d > 0
    BY <1>2, ViewFields
  <2>2. /\ q \in Messages /\ Text(q) > 0 /\ IsTold(q, p) /\ v.text[key] # NoText
        /\ \A i \in 1 .. p :
             /\ runLog[i].message <= q
             /\ runLog[i].type = "message.completed" => runLog[i].message # q
    BY <2>1, PendingFacts
  <2>3. key \in Messages
    BY <2>2, ViewFields
  <2>4. \A k \in Messages : NoText <= v.text[k] /\ v.text[k] \in Int
    BY ViewFields DEF Seen, TextsAreSaid
  <2>5. PICK b \in BOOLEAN : w = Appended(v, b) /\ (b => MayBeVisible(v))
    <3>1. MayBeVisible(v) \in BOOLEAN
      BY DEF MayBeVisible
    <3>. QED BY <1>2, <3>1 DEF Flushed
  <2>6. b => key # q /\ v.replayed[q] + d <= v.text[key]
    BY <2>5 DEF MayBeVisible
  <2>7. /\ w \in ViewRecords /\ w.alias = v.alias /\ w.shows = v.shows /\ w.item = v.item
        /\ w.beganPartial = v.beganPartial /\ w.pending = NothingPending
        /\ \A k \in Messages \ {key} : w.text[k] = v.text[k]
        /\ w.text[key] = IF b THEN v.text[key] ELSE v.text[key] + d
        /\ \A k \in Messages \ {q} : w.replayed[k] = v.replayed[k]
        /\ w.replayed[q] = IF key = q THEN v.replayed[q] ELSE v.replayed[q] + d
    BY <2>2, <2>3, <2>4, <2>5, AppendedFields
  <2>. HIDE DEF q, d, key
  <2>8. w.pending.of = 0 /\ w.pending.deltas = 0
    BY <2>7 DEF NothingPending
  <2>9. \A n \in Messages : Waiting(w, n) = 0 /\ Waiting(v, n) = IF n = q THEN d ELSE 0
    BY <2>8 DEF Waiting, q, d
  <2>10. \A k \in Messages : w.text[k] \in Int /\ v.text[k] <= w.text[k]
    <3>1. v.text[key] \in Int /\ w.text[key] \in Int /\ v.text[key] <= w.text[key]
      <4>1. PICK t \in Int : t = v.text[key]
        BY <2>3, <2>4
      <4>2. w.text[key] = t \/ w.text[key] = t + d
        BY <2>7, <4>1
      <4>. QED BY <2>1, <4>1, <4>2
    <3>2. ASSUME NEW k \in Messages, k # key
          PROVE  w.text[k] \in Int /\ v.text[k] <= w.text[k]
      <4>1. PICK t \in Int : t = v.text[k]
        BY <2>4
      <4>2. w.text[k] = t /\ t <= t
        BY <2>7, <3>2, <4>1
      <4>. QED BY <4>1, <4>2
    <3>. QED BY <3>1, <3>2
  <2>11. \A k \in Messages : w.text[k] # NoText <=> v.text[k] # NoText
    <3>1. ASSUME NEW k \in Messages, v.text[k] # NoText PROVE w.text[k] # NoText
      BY <2>4, <2>10, <3>1
    <3>2. ASSUME NEW k \in Messages, w.text[k] # NoText PROVE v.text[k] # NoText
      BY <2>2, <2>7, <3>2
    <3>. QED BY <3>1, <3>2
  <2>12. \A n \in Messages : v.replayed[n] \in Nat /\ v.alias[n] \in Messages
    BY ViewFields
  <2>13. TextsAreSaid(w)
    <3>1. ASSUME NEW k \in Messages PROVE NoText <= w.text[k]
      BY <2>4, <2>10
    <3>2. ASSUME NEW k \in Messages, w.text[k] > 0
          PROVE  \E n \in Messages : w.alias[n] = k /\ Text(n) > 0
      <4>1. CASE k = key
        BY <2>2, <2>7, <4>1 DEF key
      <4>2. CASE k # key
        <5>1. v.text[k] > 0
          BY <2>7, <3>2, <4>2
        <5>. QED BY <2>7, <5>1 DEF Seen, TextsAreSaid
      <4>. QED BY <4>1, <4>2
    <3>. QED BY <3>1, <3>2 DEF TextsAreSaid
  <2>14. TextsAreInOrder(w, p)
    <3>1. TextsAreInOrder(v, p)
      BY DEF Seen
    <3>2. \A m \in Messages : \A k \in 1 .. (m - 1) : k \in Messages
      BY DEF Messages
    <3>. QED BY <2>11, <3>1, <3>2 DEF TextsAreInOrder
  <2>15. AliasesAreEarlier(w, p)
    <3>1. AliasesAreEarlier(v, p)
      BY DEF Seen
    <3>2. ASSUME NEW n \in Messages, v.alias[n] # n
          PROVE  /\ w.replayed[n] + Waiting(w, n) = DeltasUpTo(p, n)
                 /\ v.shows[v.alias[n]] = n => w.text[v.alias[n]] >= w.replayed[n]
      <4>1. /\ v.replayed[n] + Waiting(v, n) = DeltasUpTo(p, n)
            /\ v.shows[v.alias[n]] = n => v.text[v.alias[n]] >= v.replayed[n]
        BY <3>1, <3>2 DEF AliasesAreEarlier
      <4>2. CASE n = q
        <5>1. key # q /\ v.alias[n] = key
          BY <3>2, <4>2 DEF key
        <5>2. w.replayed[n] = v.replayed[n] + d /\ Waiting(w, n) = 0 /\ Waiting(v, n) = d
          BY <2>7, <2>9, <4>2, <5>1
        <5>3. w.replayed[n] + Waiting(w, n) = DeltasUpTo(p, n)
          <6>1. PICK r \in Nat : r = v.replayed[n]
            BY <2>12
          <6>2. r + d = DeltasUpTo(p, n)
            BY <4>1, <5>2, <6>1
          <6>3. (r + d) + 0 = r + d
            BY <2>1
          <6>. QED BY <5>2, <6>1, <6>2, <6>3
        <5>4. ASSUME v.shows[v.alias[n]] = n PROVE w.text[v.alias[n]] >= w.replayed[n]
          <6>1. CASE b
            <7>1. w.text[key] = v.text[key] /\ v.replayed[q] + d <= v.text[key]
              BY <2>6, <2>7, <6>1
            <7>. QED BY <2>1, <2>3, <2>4, <2>12, <4>2, <5>1, <5>2, <7>1
          <6>2. CASE ~ b
            <7>1. w.text[key] = v.text[key] + d /\ v.text[key] >= v.replayed[n]
              BY <2>7, <4>1, <5>1, <5>4, <6>2
            <7>2. PICK t \in Int, r \in Nat : t = v.text[key] /\ r = v.replayed[n]
              BY <2>3, <2>4, <2>12
            <7>3. t + d >= r + d
              BY <2>1, <7>1, <7>2
            <7>. QED BY <5>1, <5>2, <7>1, <7>2, <7>3
          <6>. QED BY <6>1, <6>2
        <5>. QED BY <5>3, <5>4
      <4>3. CASE n # q
        <5>1. w.replayed[n] = v.replayed[n] /\ Waiting(w, n) = 0 /\ Waiting(v, n) = 0
          BY <2>7, <2>9, <4>3
        <5>2. PICK t \in Int, u \in Int, r \in Nat :
                /\ t = v.text[v.alias[n]] /\ u = w.text[v.alias[n]] /\ r = v.replayed[n]
                /\ t <= u
          BY <2>4, <2>10, <2>12
        <5>3. v.shows[v.alias[n]] = n => u >= r
          BY <4>1, <5>2
        <5>. QED BY <4>1, <5>1, <5>2, <5>3
      <4>. QED BY <4>2, <4>3
    <3>3. ASSUME NEW n \in Messages, v.alias[n] = n PROVE w.replayed[n] = 0
      <4>1. v.replayed[n] = 0
        BY <3>1, <3>3 DEF AliasesAreEarlier
      <4>2. w.replayed[n] = v.replayed[n]
        BY <2>7, <3>3 DEF key
      <4>. QED BY <4>1, <4>2
    <3>. QED BY <2>7, <3>1, <3>2, <3>3 DEF AliasesAreEarlier
  <2>16. \A i \in 1 .. p :
           runLog[i].type \in {"message.started", "message.completed"} => runLog[i].message \in Messages
    <3>1. \A i \in 1 .. p : i \in 1 .. Len(runLog)
      BY LogIsBeginning
    <3>. QED BY <3>1, ToldFacts DEF PlainTypes
  <2>17. StartsAreSeen(w, p)
    BY <2>7, <2>11, <2>12, <2>16 DEF Seen, StartsAreSeen
  <2>18. LaterReplace(w, p)
    BY <2>7 DEF Seen, LaterReplace
  <2>19. EndsAreSeen(w, p)
    <3>1. SUFFICES ASSUME NEW i \in 1 .. p, runLog[i].type = "message.completed"
                   PROVE  /\ w.pending.of # runLog[i].message
                          /\ w.shows[w.alias[runLog[i].message]] = runLog[i].message =>
                               w.text[w.alias[runLog[i].message]] = runLog[i].text
      BY DEF EndsAreSeen
    <3>2. PICK n \in Messages : n = runLog[i].message /\ n # 0
      BY <2>16, <3>1
    <3>3. n <= q /\ n # q
      BY <2>2, <3>1, <3>2
    <3>4. v.shows[v.alias[n]] = n => v.text[v.alias[n]] = runLog[i].text
      BY <3>1, <3>2 DEF Seen, EndsAreSeen
    <3>5. v.shows[key] = q \/ v.shows[key] > q
      BY <2>2 DEF Seen, LaterReplace, key
    <3>6. v.shows[key] # n
      <4>1. v.shows[key] \in Nat /\ q \in Nat /\ n \in Nat
        BY <2>2, <2>3, ViewFields
      <4>. QED BY <3>3, <3>5, <4>1
    <3>7. v.shows[v.alias[n]] = n => w.text[v.alias[n]] = v.text[v.alias[n]]
      BY <2>7, <2>12, <3>6
    <3>. QED BY <2>7, <2>8, <3>2, <3>4, <3>7
  <2>20. DeltasAreSeen(w, p)
    <3>1. SUFFICES ASSUME NEW m \in Messages, v.alias[m] = m, v.shows[m] = m, DeltasUpTo(p, m) # 0
                   PROVE  w.text[m] + Waiting(w, m) >= DeltasUpTo(p, m)
      BY <2>7 DEF DeltasAreSeen
    <3>2. v.text[m] + Waiting(v, m) >= DeltasUpTo(p, m)
      BY <3>1 DEF Seen, DeltasAreSeen
    <3>3. CASE m = q
      <4>1. key = q /\ ~ b
        BY <2>6, <3>1, <3>3 DEF key
      <4>2. PICK t \in Int : t = v.text[m]
        BY <2>4
      <4>3. w.text[m] = t + d /\ Waiting(w, m) = 0 /\ Waiting(v, m) = d
        BY <2>7, <2>9, <3>3, <4>1, <4>2
      <4>4. (t + d) + 0 = t + d
        BY <2>1
      <4>. QED BY <3>2, <4>2, <4>3, <4>4
    <3>4. CASE m # q
      <4>1. Waiting(v, m) = 0 /\ Waiting(w, m) = 0
        BY <2>9, <3>4
      <4>2. DeltasUpTo(p, m) \in Nat
        BY PlaceDeltas
      <4>. QED BY <2>4, <2>10, <3>2, <4>1, <4>2
    <3>. QED BY <3>3, <3>4
  <2>21. ItemIsSeen(w, p)
    BY <2>7 DEF Seen, ItemIsSeen
  <2>22. LastWaits(w, p)
    BY <2>8 DEF LastWaits
  <2>. QED BY <2>7, <2>13, <2>14, <2>15, <2>17, <2>18, <2>19, <2>20, <2>21, <2>22 DEF Seen
<1>. QED BY <1>1, <1>2

-----------------------------------------------------------------------------
(***************************************************************************)
(* The next event.                                                         *)
(***************************************************************************)
\* The places up to the next one, and what it adds to the deltas and to what is told.
LEMMA NextPlace ==
  ASSUME ResumeTyped, AgentInv, NEW p \in Nat, p + 1 <= Len(runLog)
  PROVE  /\ p \in 0 .. Len(runLog) /\ p + 1 \in 1 .. Len(runLog) /\ p + 1 \in 0 .. Len(runLog)
         /\ \A i \in 1 .. (p + 1) : i \in 1 .. Len(runLog) /\ (i \in 1 .. p \/ i = p + 1)
         /\ \A i \in 1 .. p : i \in 1 .. Len(runLog) /\ i \in 1 .. ((p + 1) - 1)
         /\ \A n \in Messages :
              /\ DeltasUpTo(p, n) \in Nat
              /\ DeltasUpTo(p + 1, n) = DeltasUpTo(p, n) +
                   (IF runLog[p + 1].type = "content.delta" /\ runLog[p + 1].message = n
                    THEN 1 ELSE 0)
              /\ IsTold(n, p + 1) <=> IsTold(n, p) \/ runLog[p + 1].message = n
<1>1. Len(runLog) \in Nat
  BY LogIsBeginning
<1>2. /\ p \in 0 .. Len(runLog) /\ p + 1 \in 1 .. Len(runLog) /\ p + 1 \in 0 .. Len(runLog)
      /\ \A i \in 1 .. (p + 1) : i \in 1 .. Len(runLog) /\ (i \in 1 .. p \/ i = p + 1)
      /\ \A i \in 1 .. p : i \in 1 .. Len(runLog) /\ i \in 1 .. ((p + 1) - 1)
  BY <1>1
<1>. QED BY <1>2, PlaceSteps, ToldNext

\* A delta waits behind those of its message.
LEMMA DeltaKeeps ==
  ASSUME ResumeTyped, AgentInv, NEW p \in Nat, p + 1 <= Len(runLog),
         NEW v \in ViewRecords, Seen(v, p), runLog[p + 1].type = "content.delta"
  PROVE  LET w == [v EXCEPT !.pending = [of |-> runLog[p + 1].message, deltas |-> @.deltas + 1]] IN
         w \in ViewRecords /\ Seen(w, p + 1)
<1>. USE ResumeNumbers, NextPlace
<1>1. PICK m \in Messages : m = runLog[p + 1].message
  BY ToldFacts DEF PlainTypes
<1>2. PICK j \in 1 .. p : runLog[j].type = "message.started" /\ runLog[j].message = m
  BY <1>1, LogIsTrue
<1>3. IsTold(m, p)
  BY <1>2 DEF IsTold
<1>4. ASSUME v.pending.deltas > 0 PROVE v.pending.of = m
  <2>1. /\ p \in 1 .. Len(runLog) /\ v.pending.of \in Messages
        /\ \A i \in 1 .. p : runLog[i].message <= v.pending.of
    BY <1>4, PendingFacts
  <2>2. runLog[p].message = v.pending.of
    BY <1>4 DEF Seen, LastWaits
  <2>3. m <= v.pending.of
    BY <1>2, <2>1
  <2>4. v.pending.of <= m
    <3>1. p \in 1 .. p
      BY <2>1
    <3>. QED BY <1>1, <2>2, <3>1, LogIsTrue
  <2>5. m \in Nat /\ v.pending.of \in Nat
    BY <2>1
  <2>. QED BY <2>3, <2>4, <2>5
<1>5. PICK d \in Nat : d = v.pending.deltas
  BY ViewFields
<1>6. PICK w : w = [v EXCEPT !.pending = [of |-> m, deltas |-> d + 1]]
  OBVIOUS
<1>7. w = [v EXCEPT !.pending = [of |-> runLog[p + 1].message, deltas |-> @.deltas + 1]]
  BY <1>1, <1>5, <1>6 DEF ViewRecords
<1>8. /\ w.pending = [of |-> m, deltas |-> d + 1] /\ w.text = v.text /\ w.alias = v.alias
      /\ w.shows = v.shows /\ w.item = v.item /\ w.beganPartial = v.beganPartial
      /\ w.replayed = v.replayed
  BY <1>6 DEF ViewRecords
<1>9. w \in ViewRecords
  <2>1. m \in 0 .. NumMessages
    BY DEF Messages
  <2>2. [of |-> m, deltas |-> d + 1] \in [of : 0 .. NumMessages, deltas : Nat]
    BY <2>1
  <2>3. w = [text |-> w.text, alias |-> w.alias, replayed |-> w.replayed, pending |-> w.pending,
             item |-> w.item, beganPartial |-> w.beganPartial, shows |-> w.shows]
    BY <1>6 DEF ViewRecords
  <2>. QED BY <1>8, <2>2, <2>3, ViewFields DEF ViewRecords, TextsShown
<1>10. w.pending.of = m /\ w.pending.deltas = d + 1
  BY <1>8
<1>11. \A n \in Messages : /\ Waiting(v, n) \in Nat
                           /\ Waiting(w, n) = Waiting(v, n) + (IF n = m THEN 1 ELSE 0)
  <2>1. ASSUME NEW n \in Messages
        PROVE  Waiting(v, n) = IF n = m THEN d ELSE 0
    <3>1. CASE d > 0
      BY <1>4, <1>5, <3>1 DEF Waiting
    <3>2. CASE d = 0
      BY <1>5, <3>2 DEF Waiting
    <3>. QED BY <1>5, <3>1, <3>2
  <2>2. \A n \in Messages : Waiting(w, n) = IF n = m THEN d + 1 ELSE 0
    BY <1>10 DEF Waiting
  <2>3. ASSUME NEW n \in Messages
        PROVE  /\ Waiting(v, n) \in Nat
               /\ Waiting(w, n) = Waiting(v, n) + (IF n = m THEN 1 ELSE 0)
    <3>1. CASE n = m
      <4>1. Waiting(v, n) = d /\ Waiting(w, n) = d + 1
        BY <2>1, <2>2, <3>1
      <4>. QED BY <3>1, <4>1
    <3>2. CASE n # m
      <4>1. Waiting(v, n) = 0 /\ Waiting(w, n) = 0
        BY <2>1, <2>2, <3>2
      <4>. QED BY <3>2, <4>1
    <3>. QED BY <3>1, <3>2
  <2>. QED BY <2>3
<1>12. \A n \in Messages : IsTold(n, p + 1) <=> IsTold(n, p)
  BY <1>1, <1>3
<1>13. \A n \in Messages : DeltasUpTo(p + 1, n) = DeltasUpTo(p, n) + (IF n = m THEN 1 ELSE 0)
  BY <1>1
<1>14. \A k \in Messages : v.text[k] \in Int /\ NoText <= v.text[k]
  BY ViewFields DEF Seen, TextsAreSaid
<1>15. TextsAreSaid(w) /\ TextsAreInOrder(w, p + 1)
  BY <1>8, <1>12 DEF Seen, TextsAreSaid, TextsAreInOrder
<1>16. AliasesAreEarlier(w, p + 1)
  <2>1. AliasesAreEarlier(v, p)
    BY DEF Seen
  <2>2. ASSUME NEW n \in Messages, v.alias[n] # n
        PROVE  v.replayed[n] + Waiting(w, n) = DeltasUpTo(p + 1, n)
    <3>1. v.replayed[n] + Waiting(v, n) = DeltasUpTo(p, n) /\ v.replayed[n] \in Nat
      BY <2>1, <2>2, ViewFields DEF AliasesAreEarlier
    <3>2. PICK r \in Nat, x \in Nat, c \in {0, 1} :
            /\ r = v.replayed[n] /\ x = Waiting(v, n) /\ c = (IF n = m THEN 1 ELSE 0)
      BY <1>11, <3>1
    <3>3. Waiting(w, n) = x + c /\ DeltasUpTo(p + 1, n) = (r + x) + c
      BY <1>11, <1>13, <3>1, <3>2
    <3>4. r + (x + c) = (r + x) + c
      OBVIOUS
    <3>. QED BY <3>2, <3>3, <3>4
  <2>. QED BY <1>8, <1>12, <2>1, <2>2 DEF AliasesAreEarlier
<1>17. StartsAreSeen(w, p + 1) /\ LaterReplace(w, p + 1) /\ ItemIsSeen(w, p + 1)
  <2>1. StartsAreSeen(w, p + 1)
    BY <1>8 DEF Seen, StartsAreSeen
  <2>2. LaterReplace(w, p + 1)
    BY <1>8, <1>12 DEF Seen, LaterReplace
  <2>3. ItemIsSeen(w, p + 1)
    BY <1>8 DEF Seen, ItemIsSeen
  <2>. QED BY <2>1, <2>2, <2>3
<1>18. EndsAreSeen(w, p + 1)
  <2>1. ASSUME NEW i \in 1 .. (p + 1), runLog[i].type = "message.completed"
        PROVE  i \in 1 .. p /\ runLog[i].message # m
    BY <1>1, <2>1, LogIsTrue
  <2>. QED BY <1>8, <1>10, <2>1 DEF Seen, EndsAreSeen
<1>19. DeltasAreSeen(w, p + 1)
  <2>1. SUFFICES ASSUME NEW n \in Messages, v.alias[n] = n, v.shows[n] = n, DeltasUpTo(p + 1, n) # 0
                 PROVE  v.text[n] + Waiting(w, n) >= DeltasUpTo(p + 1, n)
    BY <1>8 DEF DeltasAreSeen
  <2>2. DeltasUpTo(p, n) = 0 \/ v.text[n] + Waiting(v, n) >= DeltasUpTo(p, n)
    BY <2>1 DEF Seen, DeltasAreSeen
  <2>3. CASE n = m
    <3>1. v.text[m] # NoText
      BY <1>2, <2>1, <2>3 DEF Seen, StartsAreSeen
    <3>. QED BY <1>11, <1>13, <1>14, <2>2, <2>3, <3>1
  <2>4. CASE n # m
    <3>1. PICK x \in Nat, y \in Nat : x = Waiting(v, n) /\ y = DeltasUpTo(p, n)
      BY <1>11
    <3>2. Waiting(w, n) = x + 0 /\ DeltasUpTo(p + 1, n) = y + 0
      BY <1>11, <1>13, <2>4, <3>1
    <3>3. x + 0 = x /\ y + 0 = y
      OBVIOUS
    <3>. QED BY <2>1, <2>2, <3>1, <3>2, <3>3
  <2>. QED BY <2>3, <2>4
<1>20. LastWaits(w, p + 1)
  BY <1>1, <1>5, <1>10 DEF LastWaits
<1>21. Seen(w, p + 1)
  BY <1>15, <1>16, <1>17, <1>18, <1>19, <1>20 DEF Seen
<1>. QED BY <1>7, <1>9, <1>21

\* An event of no message changes the item at most, when nothing waits.
LEMMA PlainKeeps ==
  ASSUME ResumeTyped, AgentInv, NEW p \in Nat, p + 1 <= Len(runLog),
         NEW v \in ViewRecords, Seen(v, p), v.pending = NothingPending,
         runLog[p + 1].type \in PlainTypes, NEW item \in ItemStates,
         item = CASE runLog[p + 1].type = "item.started" -> "partial"
                  [] runLog[p + 1].type = "item.completed" -> "final"
                  [] OTHER -> v.item
  PROVE  LET w == [v EXCEPT !.item = item] IN
         w \in ViewRecords /\ Seen(w, p + 1) /\ w.pending = NothingPending
<1>. USE ResumeNumbers, NextPlace
<1>1. PICK w : w = [v EXCEPT !.item = item]
  OBVIOUS
<1>2. /\ w \in ViewRecords /\ w.pending = v.pending /\ w.text = v.text /\ w.alias = v.alias
      /\ w.shows = v.shows /\ w.item = item /\ w.beganPartial = v.beganPartial
      /\ w.replayed = v.replayed
  BY <1>1 DEF ViewRecords
<1>3. w.pending.of = 0 /\ w.pending.deltas = 0
  BY <1>2 DEF NothingPending
<1>4. \A n \in Messages : Waiting(w, n) = Waiting(v, n)
  BY <1>2 DEF Waiting
<1>5. \A n \in Messages : n # 0
  OBVIOUS
<1>6. /\ runLog[p + 1].message = 0
      /\ runLog[p + 1].type \notin {"message.started", "content.delta", "message.completed"}
  BY ToldFacts DEF PlainTypes
<1>7. \A n \in Messages : IsTold(n, p + 1) <=> IsTold(n, p)
  BY <1>5, <1>6
<1>8. \A n \in Messages : DeltasUpTo(p + 1, n) = DeltasUpTo(p, n)
  <2>1. ASSUME NEW n \in Messages PROVE DeltasUpTo(p + 1, n) = DeltasUpTo(p, n) + 0
    BY <1>6
  <2>. QED BY <2>1
<1>9. TextsAreSaid(w) /\ TextsAreInOrder(w, p + 1)
  BY <1>2, <1>7 DEF Seen, TextsAreSaid, TextsAreInOrder
<1>10. AliasesAreEarlier(w, p + 1)
  BY <1>2, <1>4, <1>7, <1>8 DEF Seen, AliasesAreEarlier
<1>11. StartsAreSeen(w, p + 1)
  BY <1>2, <1>6 DEF Seen, StartsAreSeen
<1>12. LaterReplace(w, p + 1)
  BY <1>2, <1>7 DEF Seen, LaterReplace
<1>13. EndsAreSeen(w, p + 1)
  BY <1>2, <1>6 DEF Seen, EndsAreSeen
<1>14. DeltasAreSeen(w, p + 1)
  BY <1>2, <1>4, <1>8 DEF Seen, DeltasAreSeen
<1>15. LastWaits(w, p + 1)
  BY <1>3 DEF LastWaits
<1>16. ItemIsSeen(w, p + 1)
  <2>1. ASSUME NEW i \in 1 .. (p + 1), runLog[i].type = "item.started" PROVE item # "absent"
    <3>1. CASE i = p + 1
      BY <2>1, <3>1
    <3>2. CASE i \in 1 .. p
      BY <2>1, <3>2 DEF Seen, ItemIsSeen
    <3>. QED BY <3>1, <3>2
  <2>2. ASSUME NEW i \in 1 .. (p + 1), runLog[i].type = "item.completed"
        PROVE  item = "final" \/ w.beganPartial
    <3>1. CASE i = p + 1
      BY <2>2, <3>1
    <3>2. CASE i \in 1 .. p
      <4>1. v.item = "final" \/ v.beganPartial
        BY <2>2, <3>2 DEF Seen, ItemIsSeen
      <4>2. runLog[p + 1].type # "item.started"
        BY <2>2, <3>2, LogIsTrue
      <4>. QED BY <1>2, <4>1, <4>2
    <3>. QED BY <3>1, <3>2
  <2>. QED BY <1>2, <2>1, <2>2 DEF ItemIsSeen
<1>17. Seen(w, p + 1)
  BY <1>9, <1>10, <1>11, <1>12, <1>13, <1>14, <1>15, <1>16 DEF Seen
<1>. QED BY <1>1, <1>2, <1>17

\* A message with a text has come under a key, by the fields of the views.
ComesUnder(v, w, m, t, key) ==
  /\ w \in ViewRecords /\ w.item = v.item /\ w.beganPartial = v.beganPartial
  /\ w.pending = v.pending /\ w.replayed = v.replayed
  /\ \A k \in Messages \ {key} : w.text[k] = v.text[k] /\ w.shows[k] = v.shows[k]
  /\ w.text[key] = MergeText(v.text[key], t) /\ w.shows[key] = m
  /\ \A n \in Messages \ {m} : w.alias[n] = v.alias[n]
  /\ w.alias[m] = key

\* Which is what Upserted() does.
LEMMA UpsertedFields ==
  ASSUME NEW v \in ViewRecords, NEW m \in Messages, NEW t \in Nat, NEW key \in Messages,
         NEW w, w = Upserted(v, m, t, key)
  PROVE  ComesUnder(v, w, m, t, key)
<1>1. PICK x : x = MergeText(v.text[key], t)
  OBVIOUS
<1>2. x \in Int
  BY <1>1, ViewFields DEF MergeText
<1>3. w = [v EXCEPT !.text[key] = x, !.alias[m] = key, !.shows[key] = m]
  BY <1>1 DEF Upserted
<1>4. /\ w.text = [v.text EXCEPT ![key] = x] /\ w.alias = [v.alias EXCEPT ![m] = key]
      /\ w.shows = [v.shows EXCEPT ![key] = m] /\ w.replayed = v.replayed
      /\ w.pending = v.pending /\ w.item = v.item /\ w.beganPartial = v.beganPartial
  BY <1>3 DEF ViewRecords
<1>5. /\ w.text \in TextsShown /\ w.alias \in [Messages -> Messages]
      /\ w.shows \in [Messages -> Messages]
      /\ \A k \in Messages \ {key} : w.text[k] = v.text[k] /\ w.shows[k] = v.shows[k]
      /\ w.text[key] = x /\ w.shows[key] = m
      /\ \A n \in Messages \ {m} : w.alias[n] = v.alias[n]
      /\ w.alias[m] = key
  BY <1>2, <1>4, ViewFields DEF TextsShown
<1>6. w \in ViewRecords
  <2>1. w = [text |-> w.text, alias |-> w.alias, replayed |-> w.replayed, pending |-> w.pending,
             item |-> w.item, beganPartial |-> w.beganPartial, shows |-> w.shows]
    BY <1>3 DEF ViewRecords
  <2>. QED BY <1>4, <1>5, <2>1, ViewFields DEF ViewRecords
<1>. QED BY <1>1, <1>4, <1>5, <1>6 DEF ComesUnder

\* A message of which nothing was told has no deltas.
LEMMA UntoldDeltas ==
  ASSUME NEW p \in Nat, NEW m, ~ IsTold(m, p)
  PROVE  DeltasUpTo(p, m) = 0
<1>1. {k \in 1 .. p : runLog[k].type = "content.delta" /\ runLog[k].message = m} = {}
  BY DEF IsTold
<1>. QED BY <1>1, FS_EmptySet DEF DeltasUpTo

\* The keys of a message that is not known: its own, or that of another that is there.
LEMMA NewKeys ==
  ASSUME NEW v \in ViewRecords, NEW m \in Messages, NEW t \in Nat, v.alias[m] = m,
         m \in agentThread.users => t > 0, NEW key \in Keys(v, m, t)
  PROVE  /\ key \in Messages
         /\ key # m => v.text[m] = NoText /\ v.text[key] # NoText /\ t > 0
<1>. DEFINE others == {k \in Messages \ {m} : /\ v.text[k] # NoText
                                              /\ (k \in agentThread.users) = (m \in agentThread.users)}
            empty == {k \in others : v.text[k] = 0}
            Chosen == {k \in others : \A e \in empty : e <= k}
<1>1. \A k \in others : k \in Messages /\ v.text[k] # NoText
  OBVIOUS
<1>2. Keys(v, m, t) = IF v.alias[m] # m \/ v.text[m] # NoText THEN {v.alias[m]}
                      ELSE IF m \in agentThread.users THEN {m} \cup {k \in others : v.text[k] = t}
                      ELSE IF t = 0 THEN {m}
                      ELSE Chosen \cup (IF empty = {} THEN {m} ELSE {})
  BY Zenon DEF Keys
<1>3. \A k \in Chosen : k \in others
  OBVIOUS
<1>. HIDE DEF others, empty, Chosen
<1>4. CASE v.text[m] # NoText
  <2>1. Keys(v, m, t) = {v.alias[m]}
    BY <1>2, <1>4
  <2>. QED BY <2>1
<1>5. CASE v.text[m] = NoText /\ m \in agentThread.users
  <2>1. key \in {m} \cup {k \in others : v.text[k] = t}
    BY <1>2, <1>5
  <2>. QED BY <1>1, <1>5, <2>1
<1>6. CASE v.text[m] = NoText /\ m \notin agentThread.users /\ t = 0
  BY <1>2, <1>6
<1>7. CASE v.text[m] = NoText /\ m \notin agentThread.users /\ t # 0
  <2>1. key \in Chosen \cup {m}
    BY <1>2, <1>7
  <2>. QED BY <1>1, <1>3, <1>7, <2>1
<1>. QED BY <1>4, <1>5, <1>6, <1>7

\* A message that is known has its key.
LEMMA OldKeys ==
  ASSUME NEW v \in ViewRecords, NEW m \in Messages, NEW t, v.text[v.alias[m]] # NoText,
         NEW key \in Keys(v, m, t)
  PROVE  key = v.alias[m]
<1>1. v.alias[m] # m \/ v.text[m] # NoText
  OBVIOUS
<1>2. Keys(v, m, t) = {v.alias[m]}
  BY <1>1, Zenon DEF Keys
<1>. QED BY <1>2

\* The start of a message makes its item, or takes an earlier message for it.
LEMMA StartKeeps ==
  ASSUME ResumeTyped, AgentInv, NEW p \in Nat, p + 1 <= Len(runLog),
         NEW v \in ViewRecords, Seen(v, p), v.pending = NothingPending,
         runLog[p + 1].type = "message.started",
         NEW key \in Keys(v, runLog[p + 1].message, runLog[p + 1].text)
  PROVE  LET w == Upserted(v, runLog[p + 1].message, runLog[p + 1].text, key) IN
         w \in ViewRecords /\ Seen(w, p + 1) /\ w.pending = NothingPending
<1>. USE ResumeNumbers, NextPlace
<1>1. PICK m \in Messages, t \in Nat : m = runLog[p + 1].message /\ t = runLog[p + 1].text
  BY ToldFacts DEF PlainTypes
<1>2. /\ t <= Text(m) /\ Text(m) \in Int /\ (m \in agentThread.users => t > 0)
  <2>1. IsTrueOf(runLog[p + 1], agentThread)
    BY LogIsTrue
  <2>2. Text(m) \in Int
    BY TextNumbers DEF AgentInv
  <2>. QED BY <1>1, <2>1, <2>2 DEF IsTrueOf, PlainTypes, Text
<1>3. \A i \in 1 .. p : runLog[i].message # m /\ runLog[i].message <= m
  BY <1>1, LogIsTrue
<1>4. ~ IsTold(m, p) /\ \A n \in Messages : IsTold(n, p) => n < m
  <2>1. \A n \in Messages : IsTold(n, p) => n # m /\ n <= m
    BY <1>3 DEF IsTold
  <2>2. ASSUME NEW n \in Messages, n # m, n <= m PROVE n < m
    <3>1. n \in Nat /\ m \in Nat
      OBVIOUS
    <3>. QED BY <2>2, <3>1
  <2>3. ~ IsTold(m, p)
    BY <2>1
  <2>. QED BY <2>1, <2>2, <2>3
<1>5. DeltasUpTo(p, m) = 0
  BY <1>4, UntoldDeltas
<1>6. AliasesAreEarlier(v, p) /\ TextsAreSaid(v) /\ TextsAreInOrder(v, p)
  BY DEF Seen
<1>7. v.alias[m] = m /\ v.replayed[m] = 0
  BY <1>4, <1>6 DEF AliasesAreEarlier
<1>8. /\ key \in Messages
      /\ key # m => v.text[m] = NoText /\ v.text[key] # NoText /\ t > 0
  BY <1>1, <1>2, <1>7, NewKeys
<1>9. key # m => key < m
  <2>1. SUFFICES ASSUME key # m, ~ (key < m) PROVE FALSE
    OBVIOUS
  <2>2. m \in 1 .. (key - 1)
    BY <1>8, <2>1 DEF Messages
  <2>3. IsTold(key, p) \/ v.text[m] # NoText
    BY <1>6, <1>8, <2>1, <2>2 DEF TextsAreInOrder
  <2>. QED BY <1>4, <1>8, <2>1, <2>3
<1>10. PICK x : x = MergeText(v.text[key], t)
  OBVIOUS
<1>11. \A k \in Messages : v.text[k] \in Int /\ NoText <= v.text[k] /\ v.alias[k] \in Messages
                           /\ v.shows[k] \in Messages
  BY <1>6, ViewFields DEF TextsAreSaid
<1>12. /\ x \in Nat /\ x # NoText /\ (t > 0 => x = t)
       /\ x > 0 => t > 0 \/ (key = m /\ v.text[m] > 0)
  BY <1>8, <1>10, <1>11 DEF MergeText
<1>13. PICK w : w = Upserted(v, runLog[p + 1].message, runLog[p + 1].text, key)
  OBVIOUS
<1>14. /\ w \in ViewRecords /\ w.item = v.item /\ w.beganPartial = v.beganPartial
       /\ w.pending = v.pending /\ w.replayed = v.replayed
       /\ \A k \in Messages \ {key} : w.text[k] = v.text[k] /\ w.shows[k] = v.shows[k]
       /\ w.text[key] = x /\ w.shows[key] = m
       /\ \A n \in Messages \ {m} : w.alias[n] = v.alias[n]
       /\ w.alias[m] = key
  <2>1. w = Upserted(v, m, t, key)
    BY <1>1, <1>13
  <2>2. ComesUnder(v, w, m, t, key)
    BY <1>8, <2>1, UpsertedFields
  <2>. QED BY <1>10, <2>2 DEF ComesUnder
<1>15. w.pending.of = 0 /\ w.pending.deltas = 0
  BY <1>14 DEF NothingPending
<1>16. \A n \in Messages : Waiting(w, n) = 0 /\ Waiting(v, n) = 0
  BY <1>14, <1>15 DEF Waiting
<1>17. \A k \in Messages : v.text[k] # NoText => w.text[k] # NoText
  BY <1>12, <1>14
<1>18. \A n \in Messages : IsTold(n, p + 1) <=> IsTold(n, p) \/ n = m
  BY <1>1
<1>19. \A n \in Messages : DeltasUpTo(p + 1, n) = DeltasUpTo(p, n)
  <2>1. ASSUME NEW n \in Messages PROVE DeltasUpTo(p + 1, n) = DeltasUpTo(p, n) + 0
    OBVIOUS
  <2>. QED BY <2>1
<1>20. \A i \in 1 .. p : runLog[i].type \in {"message.started", "message.completed"} =>
         runLog[i].message \in Messages
  BY ToldFacts DEF PlainTypes
<1>21. TextsAreSaid(w)
  <2>1. ASSUME NEW k \in Messages PROVE NoText <= w.text[k]
    BY <1>11, <1>12, <1>14
  <2>2. ASSUME NEW k \in Messages, w.text[k] > 0
        PROVE  \E n \in Messages : w.alias[n] = k /\ Text(n) > 0
    <3>1. CASE k = key /\ t > 0
      <4>1. PICK said \in Int : said = Text(m) /\ t <= said
        BY <1>2
      <4>2. Text(m) > 0
        BY <3>1, <4>1
      <4>3. m \in Messages /\ w.alias[m] = k
        BY <1>14, <3>1
      <4>. QED BY <4>2, <4>3
    <3>2. CASE ~ (k = key /\ t > 0)
      <4>1. v.text[k] > 0
        BY <1>12, <1>14, <2>2, <3>2
      <4>2. PICK n \in Messages : v.alias[n] = k /\ Text(n) > 0
        BY <1>6, <4>1 DEF TextsAreSaid
      <4>3. w.alias[n] = k
        BY <1>7, <1>8, <1>14, <3>2, <4>1, <4>2
      <4>. QED BY <4>2, <4>3
    <3>. QED BY <3>1, <3>2
  <2>. QED BY <2>1, <2>2 DEF TextsAreSaid
<1>22. TextsAreInOrder(w, p + 1)
  <2>1. ASSUME NEW n \in Messages, w.text[n] # NoText, n # m
        PROVE  IsTold(n, p) \/ \A k \in 1 .. (n - 1) : w.text[k] # NoText
    <3>1. v.text[n] # NoText
      BY <1>8, <1>14, <2>1
    <3>2. \A k \in 1 .. (n - 1) : k \in Messages
      BY DEF Messages
    <3>. QED BY <1>6, <1>17, <3>1, <3>2 DEF TextsAreInOrder
  <2>. QED BY <1>18, <2>1 DEF TextsAreInOrder
<1>23. AliasesAreEarlier(w, p + 1)
  <2>1. ASSUME NEW n \in Messages, n # m
        PROVE  /\ v.alias[n] # n =>
                    /\ v.alias[n] < n /\ IsTold(n, p + 1) /\ Text(n) > 0
                    /\ w.replayed[n] + Waiting(w, n) = DeltasUpTo(p + 1, n)
                    /\ w.shows[v.alias[n]] = n => w.text[v.alias[n]] >= w.replayed[n]
               /\ v.alias[n] = n => w.replayed[n] = 0
    <3>1. w.shows[v.alias[n]] = n => v.alias[n] # key
      BY <1>14, <2>1
    <3>2. w.shows[v.alias[n]] = n =>
            w.text[v.alias[n]] = v.text[v.alias[n]] /\ v.shows[v.alias[n]] = n
      BY <1>11, <1>14, <3>1
    <3>. QED BY <1>6, <1>14, <1>16, <1>18, <1>19, <3>2 DEF AliasesAreEarlier
  <2>2. w.replayed[m] = 0 /\ Waiting(w, m) = 0 /\ DeltasUpTo(p + 1, m) = 0
    BY <1>5, <1>7, <1>14, <1>16, <1>19
  <2>3. w.text[key] >= 0 /\ IsTold(m, p + 1) /\ (key # m => Text(m) > 0)
    BY <1>2, <1>8, <1>12, <1>14, <1>18
  <2>. QED BY <1>9, <1>14, <2>1, <2>2, <2>3 DEF AliasesAreEarlier
<1>24. StartsAreSeen(w, p + 1)
  <2>1. ASSUME NEW i \in 1 .. p, runLog[i].type = "message.started"
        PROVE  w.text[w.alias[runLog[i].message]] # NoText
    <3>1. PICK n \in Messages : n = runLog[i].message /\ n # m
      BY <1>3, <1>20, <2>1
    <3>2. v.text[v.alias[n]] # NoText
      BY <2>1, <3>1 DEF Seen, StartsAreSeen
    <3>. QED BY <1>11, <1>14, <1>17, <3>1, <3>2
  <2>2. w.text[w.alias[m]] # NoText
    BY <1>12, <1>14
  <2>. QED BY <1>1, <2>1, <2>2 DEF StartsAreSeen
<1>25. LaterReplace(w, p + 1)
  <2>1. ASSUME NEW n \in Messages, IsTold(n, p)
        PROVE  \/ w.shows[w.alias[n]] = n
               \/ w.shows[w.alias[n]] > n /\ w.alias[w.shows[w.alias[n]]] = w.alias[n]
    <3>1. n < m
      BY <1>4, <2>1
    <3>2. PICK a \in Messages : a = v.alias[n] /\ w.alias[n] = a /\ a <= n
      <4>1. n # m
        BY <3>1
      <4>2. v.alias[n] <= n
        <5>1. PICK a \in Messages : a = v.alias[n]
          BY <1>11
        <5>2. a # n => a < n
          BY <1>6, <5>1 DEF AliasesAreEarlier
        <5>3. a \in Nat /\ n \in Nat
          OBVIOUS
        <5>. QED BY <5>1, <5>2, <5>3
      <4>. QED BY <1>11, <1>14, <4>1, <4>2
    <3>3. CASE a = key
      BY <1>14, <3>1, <3>2, <3>3
    <3>4. CASE a # key
      <4>1. w.shows[a] = v.shows[a]
        BY <1>14, <3>4
      <4>2. \/ v.shows[a] = n
            \/ v.shows[a] > n /\ v.alias[v.shows[a]] = a
        BY <2>1, <3>2 DEF Seen, LaterReplace
      <4>3. v.alias[v.shows[a]] = a => v.shows[a] # m
        <5>1. a # m
          <6>1. a \in Nat /\ n \in Nat /\ m \in Nat
            OBVIOUS
          <6>. QED BY <3>1, <3>2, <6>1
        <5>. QED BY <1>7, <5>1
      <4>4. v.alias[v.shows[a]] = a => w.alias[v.shows[a]] = a
        BY <1>11, <1>14, <4>3
      <4>. QED BY <3>2, <4>1, <4>2, <4>4
    <3>. QED BY <3>3, <3>4
  <2>. QED BY <1>14, <1>18, <2>1 DEF LaterReplace
<1>26. EndsAreSeen(w, p + 1)
  <2>1. SUFFICES ASSUME NEW i \in 1 .. p, runLog[i].type = "message.completed"
                 PROVE  /\ w.pending.of # runLog[i].message
                        /\ w.shows[w.alias[runLog[i].message]] = runLog[i].message =>
                             w.text[w.alias[runLog[i].message]] = runLog[i].text
    BY DEF EndsAreSeen
  <2>2. PICK n \in Messages : n = runLog[i].message /\ n # m /\ n # 0
    BY <1>3, <1>20, <2>1
  <2>3. v.shows[v.alias[n]] = n => v.text[v.alias[n]] = runLog[i].text
    BY <2>1, <2>2 DEF Seen, EndsAreSeen
  <2>4. w.alias[n] = v.alias[n]
    BY <1>14, <2>2
  <2>5. w.shows[v.alias[n]] = n => v.alias[n] # key
    BY <1>14, <2>2
  <2>6. w.shows[v.alias[n]] = n =>
          w.text[v.alias[n]] = v.text[v.alias[n]] /\ v.shows[v.alias[n]] = n
    BY <1>11, <1>14, <2>5
  <2>. QED BY <1>15, <2>2, <2>3, <2>4, <2>6
<1>27. DeltasAreSeen(w, p + 1)
  <2>1. SUFFICES ASSUME NEW n \in Messages, w.alias[n] = n, w.shows[n] = n, DeltasUpTo(p + 1, n) # 0
                 PROVE  w.text[n] + Waiting(w, n) >= DeltasUpTo(p + 1, n)
    BY DEF DeltasAreSeen
  <2>2. n # m
    BY <1>5, <1>19, <2>1
  <2>3. n # key /\ v.alias[n] = n /\ v.shows[n] = n /\ w.text[n] = v.text[n]
    BY <1>14, <2>1, <2>2
  <2>. QED BY <1>16, <1>19, <2>1, <2>3 DEF Seen, DeltasAreSeen
<1>28. ItemIsSeen(w, p + 1)
  BY <1>14 DEF Seen, ItemIsSeen
<1>29. LastWaits(w, p + 1)
  BY <1>15 DEF LastWaits
<1>30. Seen(w, p + 1)
  BY <1>21, <1>22, <1>23, <1>24, <1>25, <1>26, <1>27, <1>28, <1>29 DEF Seen
<1>. QED BY <1>13, <1>14, <1>30

\* The end of a message gives its item the text.
LEMMA EndKeeps ==
  ASSUME ResumeTyped, AgentInv, NEW p \in Nat, p + 1 <= Len(runLog),
         NEW v \in ViewRecords, Seen(v, p), v.pending = NothingPending,
         runLog[p + 1].type = "message.completed",
         NEW key \in Keys(v, runLog[p + 1].message, runLog[p + 1].text)
  PROVE  LET w == Upserted(v, runLog[p + 1].message, runLog[p + 1].text, key) IN
         w \in ViewRecords /\ Seen(w, p + 1) /\ w.pending = NothingPending
<1>. USE ResumeNumbers, NextPlace
<1>1. PICK m \in Messages, t \in Nat : m = runLog[p + 1].message /\ t = runLog[p + 1].text
  BY ToldFacts DEF PlainTypes
<1>2. t = Text(m)
  <2>1. IsTrueOf(runLog[p + 1], agentThread)
    BY LogIsTrue
  <2>. QED BY <1>1, <2>1 DEF IsTrueOf, PlainTypes, Text
<1>3. \A i \in 1 .. p :
        runLog[i].message <= m /\ (runLog[i].type = "message.completed" => runLog[i].message # m)
  BY <1>1, LogIsTrue
<1>4. PICK j \in 1 .. p : runLog[j].type = "message.started" /\ runLog[j].message = m
  BY <1>1, LogIsTrue
<1>5. IsTold(m, p) /\ \A n \in Messages : IsTold(n, p) => n <= m
  BY <1>3, <1>4 DEF IsTold
<1>6. AliasesAreEarlier(v, p) /\ TextsAreSaid(v) /\ TextsAreInOrder(v, p)
  BY DEF Seen
<1>7. v.text[v.alias[m]] # NoText
  BY <1>4 DEF Seen, StartsAreSeen
<1>8. key = v.alias[m]
  BY <1>1, <1>7, OldKeys
<1>9. \A k \in Messages : v.text[k] \in Int /\ NoText <= v.text[k] /\ v.alias[k] \in Messages
                          /\ v.shows[k] \in Messages
  BY <1>6, ViewFields DEF TextsAreSaid
<1>10. key \in Messages /\ v.text[key] # NoText
  BY <1>7, <1>8, <1>9
<1>11. MergeText(v.text[key], t) = t
  <2>1. PICK x \in Int : x = v.text[key] /\ NoText <= x /\ x # NoText
    BY <1>9, <1>10
  <2>2. MergeText(v.text[key], t) = IF t = 0 THEN x ELSE t
    BY <2>1 DEF MergeText
  <2>3. ASSUME t = 0, x > 0 PROVE FALSE
    <3>1. Text(m) = 0 /\ ~ (0 > 0)
      BY <1>2, <2>3
    <3>2. key = m
      BY <1>6, <1>8, <3>1 DEF AliasesAreEarlier
    <3>3. PICK n \in Messages : v.alias[n] = m /\ Text(n) > 0
      BY <1>6, <1>10, <2>1, <2>3, <3>2 DEF TextsAreSaid
    <3>4. n # m
      BY <3>1, <3>3
    <3>5. m < n /\ IsTold(n, p)
      BY <1>6, <3>3, <3>4 DEF AliasesAreEarlier
    <3>6. n <= m /\ n \in Nat /\ m \in Nat
      BY <1>5, <3>5
    <3>. QED BY <3>5, <3>6
  <2>4. ASSUME t = 0 PROVE x = 0
    <3>1. ~ (x > 0) /\ x \in Int /\ NoText <= x /\ x # NoText /\ NoText = -1
      BY <2>1, <2>3, <2>4
    <3>. QED BY <3>1
  <2>. QED BY <2>2, <2>4
<1>12. PICK w : w = Upserted(v, runLog[p + 1].message, runLog[p + 1].text, key)
  OBVIOUS
<1>13. /\ w \in ViewRecords /\ w.item = v.item /\ w.beganPartial = v.beganPartial
       /\ w.pending = v.pending /\ w.replayed = v.replayed
       /\ \A k \in Messages \ {key} : w.text[k] = v.text[k] /\ w.shows[k] = v.shows[k]
       /\ w.text[key] = t /\ w.shows[key] = m
       /\ \A n \in Messages : w.alias[n] = v.alias[n]
  <2>1. /\ w \in ViewRecords /\ w.item = v.item /\ w.beganPartial = v.beganPartial
        /\ w.pending = v.pending /\ w.replayed = v.replayed
        /\ \A k \in Messages \ {key} : w.text[k] = v.text[k] /\ w.shows[k] = v.shows[k]
        /\ w.text[key] = MergeText(v.text[key], t) /\ w.shows[key] = m
        /\ \A n \in Messages \ {m} : w.alias[n] = v.alias[n]
        /\ w.alias[m] = key
    <3>1. w = Upserted(v, m, t, key)
      BY <1>1, <1>12
    <3>2. ComesUnder(v, w, m, t, key)
      BY <1>10, <3>1, UpsertedFields
    <3>. QED BY <3>2 DEF ComesUnder
  <2>. QED BY <1>8, <1>11, <2>1
<1>14. w.pending.of = 0 /\ w.pending.deltas = 0
  BY <1>13 DEF NothingPending
<1>15. \A n \in Messages : Waiting(w, n) = 0 /\ Waiting(v, n) = 0
  BY <1>13, <1>14 DEF Waiting
<1>16. \A k \in Messages : w.text[k] # NoText <=> v.text[k] # NoText
  <2>1. t # NoText
    OBVIOUS
  <2>2. ASSUME NEW k \in Messages, k = key PROVE w.text[k] # NoText /\ v.text[k] # NoText
    BY <1>10, <1>13, <2>1, <2>2
  <2>3. ASSUME NEW k \in Messages, k # key PROVE w.text[k] = v.text[k]
    BY <1>13, <2>3
  <2>. QED BY <2>2, <2>3
<1>17. \A n \in Messages : IsTold(n, p + 1) <=> IsTold(n, p)
  BY <1>1, <1>5
<1>18. \A n \in Messages : DeltasUpTo(p + 1, n) = DeltasUpTo(p, n)
  <2>1. ASSUME NEW n \in Messages PROVE DeltasUpTo(p + 1, n) = DeltasUpTo(p, n) + 0
    OBVIOUS
  <2>. QED BY <2>1
<1>19. \A i \in 1 .. p : runLog[i].type \in {"message.started", "message.completed"} =>
         runLog[i].message \in Messages
  BY ToldFacts DEF PlainTypes
<1>20. DeltasUpTo(p, m) \in Nat /\ DeltasUpTo(p, m) <= t
  <2>1. DeltasUpTo(p, m) \in Nat /\ (DeltasUpTo(p, m) = 0 \/ DeltasUpTo(p, m) <= Text(m))
    BY PlaceDeltas
  <2>. QED BY <1>2, <2>1
<1>21. TextsAreSaid(w)
  <2>1. ASSUME NEW k \in Messages PROVE NoText <= w.text[k]
    <3>1. CASE k = key
      <4>1. NoText <= t
        OBVIOUS
      <4>. QED BY <1>13, <3>1, <4>1
    <3>2. CASE k # key
      BY <1>9, <1>13, <3>2
    <3>. QED BY <3>1, <3>2
  <2>2. ASSUME NEW k \in Messages, w.text[k] > 0
        PROVE  \E n \in Messages : w.alias[n] = k /\ Text(n) > 0
    <3>1. CASE k = key
      <4>1. Text(m) > 0
        BY <1>2, <1>13, <2>2, <3>1
      <4>2. w.alias[m] = k
        BY <1>8, <1>13, <3>1
      <4>. QED BY <4>1, <4>2
    <3>2. CASE k # key
      <4>1. v.text[k] > 0
        BY <1>13, <2>2, <3>2
      <4>. QED BY <1>6, <1>13, <4>1 DEF TextsAreSaid
    <3>. QED BY <3>1, <3>2
  <2>. QED BY <2>1, <2>2 DEF TextsAreSaid
<1>22. TextsAreInOrder(w, p + 1)
  <2>1. \A n \in Messages : \A k \in 1 .. (n - 1) : k \in Messages
    BY DEF Messages
  <2>. QED BY <1>6, <1>16, <1>17, <2>1 DEF TextsAreInOrder
<1>23. AliasesAreEarlier(w, p + 1)
  <2>1. ASSUME NEW n \in Messages, v.alias[n] # n, w.shows[v.alias[n]] = n
        PROVE  w.text[v.alias[n]] >= w.replayed[n]
    <3>1. v.replayed[n] \in Nat /\ v.replayed[n] + 0 = DeltasUpTo(p, n)
      BY <1>6, <1>15, <2>1, ViewFields DEF AliasesAreEarlier
    <3>2. CASE v.alias[n] = key
      <4>1. n = m
        BY <1>13, <2>1, <3>2
      <4>2. w.replayed[n] = DeltasUpTo(p, m) /\ w.text[v.alias[n]] = t
        BY <1>13, <3>1, <3>2, <4>1
      <4>. QED BY <1>20, <4>2
    <3>3. CASE v.alias[n] # key
      <4>1. w.text[v.alias[n]] = v.text[v.alias[n]] /\ v.shows[v.alias[n]] = n
        BY <1>9, <1>13, <2>1, <3>3
      <4>. QED BY <1>6, <1>13, <2>1, <4>1 DEF AliasesAreEarlier
    <3>. QED BY <3>2, <3>3
  <2>2. ASSUME NEW n \in Messages, v.alias[n] # n
        PROVE  /\ v.alias[n] < n /\ IsTold(n, p + 1) /\ Text(n) > 0
               /\ w.replayed[n] + Waiting(w, n) = DeltasUpTo(p + 1, n)
    <3>1. /\ v.alias[n] < n /\ IsTold(n, p) /\ Text(n) > 0
          /\ v.replayed[n] + Waiting(v, n) = DeltasUpTo(p, n)
      BY <1>6, <2>2 DEF AliasesAreEarlier
    <3>2. Waiting(w, n) = Waiting(v, n) /\ w.replayed[n] = v.replayed[n]
      BY <1>13, <1>15
    <3>. QED BY <1>17, <1>18, <3>1, <3>2
  <2>3. \A n \in Messages : v.alias[n] = n => w.replayed[n] = 0
    BY <1>6, <1>13 DEF AliasesAreEarlier
  <2>. QED BY <1>13, <2>1, <2>2, <2>3 DEF AliasesAreEarlier
<1>24. StartsAreSeen(w, p + 1)
  <2>1. ASSUME NEW i \in 1 .. p, runLog[i].type = "message.started"
        PROVE  w.text[w.alias[runLog[i].message]] # NoText
    <3>1. PICK n \in Messages : n = runLog[i].message
      BY <1>19, <2>1
    <3>2. v.text[v.alias[n]] # NoText
      BY <2>1, <3>1 DEF Seen, StartsAreSeen
    <3>. QED BY <1>9, <1>13, <1>16, <3>1, <3>2
  <2>. QED BY <2>1 DEF StartsAreSeen
<1>25. LaterReplace(w, p + 1)
  <2>1. ASSUME NEW n \in Messages, IsTold(n, p)
        PROVE  \/ w.shows[w.alias[n]] = n
               \/ w.shows[w.alias[n]] > n /\ w.alias[w.shows[w.alias[n]]] = w.alias[n]
    <3>1. PICK a \in Messages : a = v.alias[n] /\ w.alias[n] = a
      BY <1>9, <1>13
    <3>2. CASE a = key
      <4>1. n <= m
        BY <1>5, <2>1
      <4>. QED BY <1>8, <1>13, <3>1, <3>2, <4>1
    <3>3. CASE a # key
      <4>1. w.shows[a] = v.shows[a]
        BY <1>13, <3>3
      <4>2. \/ v.shows[a] = n
            \/ v.shows[a] > n /\ v.alias[v.shows[a]] = a
        BY <2>1, <3>1 DEF Seen, LaterReplace
      <4>3. w.alias[v.shows[a]] = v.alias[v.shows[a]]
        BY <1>9, <1>13
      <4>. QED BY <3>1, <4>1, <4>2, <4>3
    <3>. QED BY <3>2, <3>3
  <2>. QED BY <1>17, <2>1 DEF LaterReplace
<1>26. EndsAreSeen(w, p + 1)
  <2>1. ASSUME NEW i \in 1 .. p, runLog[i].type = "message.completed"
        PROVE  /\ w.pending.of # runLog[i].message
               /\ w.shows[w.alias[runLog[i].message]] = runLog[i].message =>
                    w.text[w.alias[runLog[i].message]] = runLog[i].text
    <3>1. PICK n \in Messages : n = runLog[i].message /\ n # m /\ n # 0
      BY <1>3, <1>19, <2>1
    <3>2. v.shows[v.alias[n]] = n => v.text[v.alias[n]] = runLog[i].text
      BY <2>1, <3>1 DEF Seen, EndsAreSeen
    <3>3. w.shows[v.alias[n]] = n => v.alias[n] # key
      BY <1>13, <3>1
    <3>4. w.shows[v.alias[n]] = n =>
            w.text[v.alias[n]] = v.text[v.alias[n]] /\ v.shows[v.alias[n]] = n
      BY <1>9, <1>13, <3>3
    <3>. QED BY <1>13, <1>14, <3>1, <3>2, <3>4
  <2>2. w.pending.of # m /\ w.text[w.alias[m]] = t
    BY <1>8, <1>13, <1>14
  <2>. QED BY <1>1, <2>1, <2>2 DEF EndsAreSeen
<1>27. DeltasAreSeen(w, p + 1)
  <2>1. SUFFICES ASSUME NEW n \in Messages, v.alias[n] = n, w.shows[n] = n, DeltasUpTo(p, n) # 0
                 PROVE  w.text[n] + Waiting(w, n) >= DeltasUpTo(p, n)
    BY <1>13, <1>18 DEF DeltasAreSeen
  <2>2. CASE n = key
    <3>1. n = m
      BY <1>13, <2>1, <2>2
    <3>2. w.text[n] = t /\ Waiting(w, n) = 0
      BY <1>13, <1>15, <2>2
    <3>. QED BY <1>20, <3>1, <3>2
  <2>3. CASE n # key
    <3>1. v.shows[n] = n /\ w.text[n] = v.text[n] /\ Waiting(w, n) = Waiting(v, n)
      BY <1>13, <1>15, <2>1, <2>3
    <3>. QED BY <2>1, <3>1 DEF Seen, DeltasAreSeen
  <2>. QED BY <2>2, <2>3
<1>28. ItemIsSeen(w, p + 1)
  BY <1>13 DEF Seen, ItemIsSeen
<1>29. LastWaits(w, p + 1)
  BY <1>14 DEF LastWaits
<1>30. Seen(w, p + 1)
  BY <1>21, <1>22, <1>23, <1>24, <1>25, <1>26, <1>27, <1>28, <1>29 DEF Seen
<1>. QED BY <1>12, <1>13, <1>30

-----------------------------------------------------------------------------
(***************************************************************************)
(* The thread's snapshot.                                                  *)
(***************************************************************************)
\* A snapshot that represents the beginning of the log has its deltas.
LEMMA RepresentedDeltas ==
  ASSUME ResumeTyped, NEW snapshot, NEW p \in Nat, NEW m \in Messages, snapshot.text[m] \in Int,
         \A k \in 1 .. p : MayBeRepresented(snapshot, k)
  PROVE  DeltasUpTo(p, m) = 0 \/ snapshot.text[m] >= DeltasUpTo(p, m)
<1>1. PICK S : S = {n \in 0 .. p : DeltasUpTo(n, m) = 0 \/ snapshot.text[m] >= DeltasUpTo(n, m)}
  OBVIOUS
<1>2. S \in SUBSET (0 .. p)
  BY <1>1
<1>3. 0 \in S
  <2>1. 0 \in Nat
    OBVIOUS
  <2>2. DeltasUpTo(0, m) = 0
    BY <2>1, PlaceSteps
  <2>. QED BY <1>1, <2>2
<1>4. ASSUME NEW n \in S, n # p PROVE n + 1 \in S
  <2>1. /\ n \in Nat /\ n + 1 \in 0 .. p /\ n + 1 \in 1 .. p
        /\ DeltasUpTo(n, m) = 0 \/ snapshot.text[m] >= DeltasUpTo(n, m)
    BY <1>1, <1>4
  <2>2. /\ DeltasUpTo(n, m) \in Nat
        /\ DeltasUpTo(n + 1, m) = DeltasUpTo(n, m) +
              (IF runLog[n + 1].type = "content.delta" /\ runLog[n + 1].message = m THEN 1 ELSE 0)
    BY <2>1, PlaceSteps
  <2>3. CASE runLog[n + 1].type = "content.delta" /\ runLog[n + 1].message = m
    <3>1. MayBeRepresented(snapshot, n + 1)
      BY <2>1
    <3>2. snapshot.text[m] >= DeltasUpTo(n + 1, m)
      BY <2>3, <3>1 DEF MayBeRepresented
    <3>. QED BY <1>1, <2>1, <3>2
  <2>4. CASE ~ (runLog[n + 1].type = "content.delta" /\ runLog[n + 1].message = m)
    <3>1. DeltasUpTo(n + 1, m) = DeltasUpTo(n, m)
      BY <2>2, <2>4
    <3>. QED BY <1>1, <2>1, <3>1
  <2>. QED BY <2>3, <2>4
<1>5. p \in S
  BY <1>2, <1>3, <1>4, Climbs
<1>. QED BY <1>1, <1>5

\* A new view by its fields.
LEMMA NewFields ==
  ASSUME NEW s \in [text : TextsShown, item : ItemStates]
  PROVE  /\ NewView(s) \in ViewRecords /\ NewView(s).text = s.text /\ NewView(s).item = s.item
         /\ NewView(s).beganPartial = (s.item = "partial")
         /\ NewView(s).pending = NothingPending
         /\ \A m \in Messages : /\ NewView(s).alias[m] = m /\ NewView(s).replayed[m] = 0
                                /\ NewView(s).shows[m] = m
<1>1. NothingPending \in [of : 0 .. NumMessages, deltas : Nat]
  BY ResumeNumbers DEF NothingPending
<1>. QED BY <1>1 DEF NewView, ViewRecords

\* A view of a snapshot has what the log tells in its represented beginning.
LEMMA LoadSeen ==
  ASSUME ResumeTyped, AgentInv, NEW s \in [text : TextsShown, item : ItemStates],
         \A m \in Messages :
           /\ NoText <= s.text[m] /\ s.text[m] <= Text(m)
           /\ s.text[m] # NoText => \A k \in 1 .. (m - 1) : s.text[k] # NoText,
         NEW p \in ReplayPlaces(s)
  PROVE  Seen(NewView(s), p)
<1>. USE ResumeNumbers
<1>1. PICK v \in ViewRecords : v = NewView(s)
  BY NewFields
<1>2. /\ v.text = s.text /\ v.item = s.item
      /\ v.beganPartial = (s.item = "partial") /\ v.pending = NothingPending
      /\ \A m \in Messages : v.alias[m] = m /\ v.replayed[m] = 0 /\ v.shows[m] = m
  BY <1>1, NewFields
<1>3. v.pending.of = 0 /\ v.pending.deltas = 0
  BY <1>2 DEF NothingPending
<1>4. /\ p \in 0 .. Len(runLog) /\ p \in Nat /\ \A k \in 1 .. p : k \in 1 .. Len(runLog)
      /\ \A k \in 1 .. p : MayBeRepresented(s, k)
  <2>1. Len(runLog) \in Nat
    BY LogIsBeginning
  <2>2. p \in 0 .. Len(runLog) /\ \A k \in 1 .. p : MayBeRepresented(s, k)
    BY DEF ReplayPlaces
  <2>. QED BY <2>1, <2>2
<1>5. \A m \in Messages : s.text[m] \in Int /\ Text(m) \in Int
  BY TextNumbers DEF AgentInv, TextsShown
<1>6. \A m \in Messages : Waiting(v, m) = 0
  BY <1>2, <1>3 DEF Waiting
<1>7. TextsAreSaid(v)
  <2>1. ASSUME NEW k \in Messages, s.text[k] > 0 PROVE Text(k) > 0
    BY <1>5, <2>1
  <2>. QED BY <1>2, <2>1 DEF TextsAreSaid
<1>8. TextsAreInOrder(v, p)
  BY <1>2 DEF TextsAreInOrder
<1>9. AliasesAreEarlier(v, p)
  BY <1>2 DEF AliasesAreEarlier
<1>10. StartsAreSeen(v, p)
  <2>1. ASSUME NEW i \in 1 .. p, runLog[i].type = "message.started"
        PROVE  v.text[v.alias[runLog[i].message]] # NoText
    <3>1. runLog[i].message \in Messages
      BY <1>4, <2>1, ToldFacts DEF PlainTypes
    <3>2. s.text[runLog[i].message] # NoText
      BY <1>4, <2>1 DEF MayBeRepresented
    <3>. QED BY <1>2, <3>1, <3>2
  <2>. QED BY <2>1 DEF StartsAreSeen
<1>11. LaterReplace(v, p)
  BY <1>2 DEF LaterReplace
<1>12. EndsAreSeen(v, p)
  <2>1. ASSUME NEW i \in 1 .. p, runLog[i].type = "message.completed"
        PROVE  /\ v.pending.of # runLog[i].message
               /\ v.text[v.alias[runLog[i].message]] = runLog[i].text
    <3>1. PICK m \in Messages : m = runLog[i].message
      BY <1>4, <2>1, ToldFacts DEF PlainTypes
    <3>2. runLog[i].text = Text(m)
      <4>1. IsTrueOf(runLog[i], agentThread)
        BY <1>4, LogIsTrue
      <4>. QED BY <2>1, <3>1, <4>1 DEF IsTrueOf, PlainTypes, Text
    <3>3. s.text[m] >= runLog[i].text
      <4>1. MayBeRepresented(s, i)
        BY <1>4
      <4>. QED BY <2>1, <3>1, <4>1 DEF MayBeRepresented
    <3>4. s.text[m] = Text(m)
      <4>1. PICK x \in Int, y \in Int : x = s.text[m] /\ y = Text(m) /\ x <= y
        BY <1>5
      <4>. QED BY <3>2, <3>3, <4>1
    <3>. QED BY <1>2, <1>3, <3>1, <3>2, <3>4
  <2>. QED BY <2>1 DEF EndsAreSeen
<1>13. DeltasAreSeen(v, p)
  <2>1. ASSUME NEW m \in Messages, DeltasUpTo(p, m) # 0
        PROVE  v.text[m] + Waiting(v, m) >= DeltasUpTo(p, m)
    <3>1. s.text[m] >= DeltasUpTo(p, m)
      BY <1>4, <1>5, <2>1, RepresentedDeltas
    <3>2. DeltasUpTo(p, m) \in Nat
      BY <1>4, PlaceSteps
    <3>. QED BY <1>2, <1>5, <1>6, <3>1, <3>2
  <2>. QED BY <2>1 DEF DeltasAreSeen
<1>14. ItemIsSeen(v, p)
  <2>1. ASSUME NEW i \in 1 .. p, runLog[i].type \in {"item.started", "item.completed"}
        PROVE  s.item # "absent"
    <3>1. MayBeRepresented(s, i)
      BY <1>4
    <3>. QED BY <2>1, <3>1 DEF MayBeRepresented
  <2>2. s.item # "absent" => s.item = "final" \/ s.item = "partial"
    BY DEF ItemStates
  <2>. QED BY <1>2, <2>1, <2>2 DEF ItemIsSeen
<1>15. LastWaits(v, p)
  BY <1>3 DEF LastWaits
<1>16. Seen(v, p)
  BY <1>7, <1>8, <1>9, <1>10, <1>11, <1>12, <1>13, <1>14, <1>15 DEF Seen
<1>. QED BY <1>1, <1>16

-----------------------------------------------------------------------------
(***************************************************************************)
(* The steps of the server and of the client.                              *)
(***************************************************************************)
\* What was said stays true while the agent rests.
LEMMA AgentRests ==
  ASSUME AgentInv, UNCHANGED <<agentThread, Said>>
  PROVE  AgentInv' /\ \A m \in Messages : Text(m)' = Text(m)
BY DEF AgentInv, EventsAreTrue, IsTrueOf, TextsAreBounded, BegunInOrder, StartsFirst, StartsSaid,
       CompletesLast, StreamsAreSaid, IsAnnounced, MessagesInOrder, ItemInOrder, DeltasAreText,
       DeltasIn, Text

\* A view has what the log tells up to its place while this part of the log stays.
LEMMA SeenStays ==
  ASSUME ResumeTyped, NEW p \in 0 .. Len(runLog), NEW v \in ViewRecords, Seen(v, p),
         \A i \in 1 .. p : runLog'[i] = runLog[i],
         \A d \in Messages : Text(d) > 0 => Text(d)' > 0
  PROVE  Seen(v, p)'
<1>1. p \in Nat
  BY LogIsBeginning
<1>2. ASSUME NEW m \in Messages
      PROVE  (IsTold(m, p)' <=> IsTold(m, p)) /\ DeltasUpTo(p, m)' = DeltasUpTo(p, m)
  <2>1. IsTold(m, p)' <=> IsTold(m, p)
    BY DEF IsTold
  <2>2. PICK s, r : s = runLog /\ r = runLog'
    OBVIOUS
  <2>3. DeltasIn(s, p, m) = DeltasIn(r, p, m)
    BY <1>1, <2>2, DeltasSame
  <2>. QED BY <2>1, <2>2, <2>3 DEF DeltasUpTo, DeltasIn
<1>3. TextsAreSaid(v)' /\ TextsAreInOrder(v, p)'
  BY <1>2 DEF Seen, TextsAreSaid, TextsAreInOrder
<1>4. AliasesAreEarlier(v, p)'
  <2>1. AliasesAreEarlier(v, p)
    BY DEF Seen
  <2>2. ASSUME NEW n \in Messages, v.alias[n] # n
        PROVE  /\ v.alias[n] < n /\ IsTold(n, p)' /\ Text(n)' > 0
               /\ v.replayed[n] + Waiting(v, n) = DeltasUpTo(p, n)'
               /\ v.shows[v.alias[n]] = n => v.text[v.alias[n]] >= v.replayed[n]
    BY <1>2, <2>1, <2>2 DEF AliasesAreEarlier
  <2>3. \A n \in Messages : v.alias[n] = n => v.replayed[n] = 0
    BY <2>1 DEF AliasesAreEarlier
  <2>. QED BY <2>2, <2>3 DEF AliasesAreEarlier, Waiting
<1>5. StartsAreSeen(v, p)' /\ EndsAreSeen(v, p)' /\ ItemIsSeen(v, p)'
  BY DEF Seen, StartsAreSeen, EndsAreSeen, ItemIsSeen
<1>6. LaterReplace(v, p)'
  BY <1>2 DEF Seen, LaterReplace
<1>7. DeltasAreSeen(v, p)'
  BY <1>2 DEF Seen, DeltasAreSeen, Waiting
<1>8. LastWaits(v, p)'
  <2>1. LastWaits(v, p)
    BY DEF Seen
  <2>2. ASSUME v.pending.deltas > 0 PROVE runLog'[p] = runLog[p]
    <3>1. p \in 1 .. p
      BY <1>1, <2>1, <2>2 DEF LastWaits
    <3>. QED BY <3>1
  <2>. QED BY <2>1, <2>2 DEF LastWaits
<1>. QED BY <1>3, <1>4, <1>5, <1>6, <1>7, <1>8 DEF Seen

\* The place of a client that follows the run.
LEMMA PlaceNumbers ==
  ASSUME ResumeTyped, Attends
  PROVE  position \in 0 .. Len(runLog) /\ position \in Nat
BY LogIsBeginning DEF ResumeTyped, Attends, NotFollowing

\* The client's view has what the log tells up to its place.
LEMMA ViewStays ==
  ASSUME ResumeTyped, NEW p \in 0 .. Len(runLog), NEW v \in ViewRecords, Seen(v, p),
         \A i \in 1 .. p : runLog'[i] = runLog[i],
         \A d \in Messages : Text(d) > 0 => Text(d)' > 0,
         view' = v, position' = p
  PROVE  ViewIsSeen'
<1>1. Seen(v, p)'
  BY SeenStays
<1>2. p # NotFollowing
  BY LogIsBeginning, ResumeNumbers
<1>3. Attends'
  BY <1>2 DEF Attends
<1>4. Seen(view, position)'
  BY <1>1
<1>. QED BY <1>3, <1>4 DEF ViewIsSeen

\* A step that leaves the client as it is.
LEMMA ClientLooksOn ==
  ASSUME ResumeTyped, ViewIsSeen, UNCHANGED <<view, position>>,
         \A i \in 1 .. Len(runLog) : runLog'[i] = runLog[i],
         \A d \in Messages : Text(d) > 0 => Text(d)' > 0
  PROVE  ViewIsSeen'
<1>1. CASE Attends
  <2>1. PICK p \in 0 .. Len(runLog), v \in ViewRecords : p = position /\ v = view
    BY <1>1, PlaceNumbers DEF ResumeTyped
  <2>2. Seen(v, p)
    BY <1>1, <2>1 DEF ViewIsSeen
  <2>3. \A i \in 1 .. p : runLog'[i] = runLog[i]
    BY LogIsBeginning
  <2>. QED BY <2>1, <2>2, <2>3, ViewStays
<1>2. CASE ~ Attends
  BY <1>2 DEF ViewIsSeen, Attends
<1>. QED BY <1>1, <1>2

\* A step that is of the client or of the server leaves the agent and the log.
LEMMA LogRests ==
  ASSUME ResumeTyped, AgentInv, UNCHANGED <<agentThread, notices, runLog>>
  PROVE  AgentInv' /\ \A m \in Messages : Text(m)' = Text(m)
<1>1. UNCHANGED <<agentThread, Said>>
  BY DEF Said
<1>. QED BY <1>1, AgentRests

\* A step of the agent keeps the invariant.
LEMMA AgentStepInv ==
  ASSUME ResumeInv, AgentStep, agentThread' \in ThreadRecords
  PROVE  ResumeInv'
<1>. USE ResumeNumbers
<1>1. ResumeTyped /\ AgentInv /\ SnapshotIsPast /\ ViewIsSeen /\ TextsAreBounded
  BY DEF ResumeInv, AgentInv
<1>2. ResumeTyped' /\ AgentInv'
  BY <1>1, AgentStepTyped, AgentStepKeeps
<1>3. UNCHANGED <<runLog, fetch, view, position>> /\ TextsGrow
  BY DEF AgentStep, AgentOnly
<1>4. \A d \in Messages : Text(d) \in Int /\ Text(d)' \in Int /\ Text(d) <= Text(d)'
  BY <1>1, <1>3, TextNumbers DEF TextsGrow
<1>5. SnapshotIsPast'
  <2>1. \A d \in Messages : fetch.snapshot.text[d] \in Int
    BY <1>1 DEF ResumeTyped, FetchRecords, TextsShown
  <2>2. \A d \in Messages : NoText <= fetch.snapshot.text[d] /\ fetch.snapshot.text[d] <= Text(d)'
    <3>1. ASSUME NEW d \in Messages PROVE fetch.snapshot.text[d] <= Text(d)'
      <4>1. PICK x \in Int, y \in Int, z \in Int :
              x = fetch.snapshot.text[d] /\ y = Text(d) /\ z = Text(d)' /\ y <= z
        BY <1>4, <2>1
      <4>2. x <= y
        BY <1>1, <4>1 DEF SnapshotIsPast
      <4>. QED BY <4>1, <4>2
    <3>. QED BY <1>1, <3>1 DEF SnapshotIsPast
  <2>. QED BY <1>1, <1>3, <2>2 DEF SnapshotIsPast
<1>6. \A d \in Messages : Text(d) > 0 => Text(d)' > 0
  BY <1>4
<1>7. ViewIsSeen'
  BY <1>1, <1>3, <1>6, ClientLooksOn
<1>. QED BY <1>2, <1>5, <1>7 DEF ResumeInv

\* An event that is appended is behind the client's place.
LEMMA LogAppendsKeeps ==
  ASSUME ResumeInv, LogAppends
  PROVE  ResumeInv'
<1>1. ResumeTyped /\ AgentInv /\ SnapshotIsPast /\ ViewIsSeen
  BY DEF ResumeInv
<1>2. /\ ResumeTyped' /\ Said' = Said
      /\ \A i \in 1 .. Len(runLog) : runLog'[i] = runLog[i]
  BY <1>1, LogAppendsChanges
<1>3. UNCHANGED <<agentThread, fetch, view, position>>
  BY DEF LogAppends
<1>4. AgentInv' /\ \A m \in Messages : Text(m)' = Text(m)
  BY <1>1, <1>2, <1>3, AgentRests
<1>5. SnapshotIsPast'
  BY <1>1, <1>3, <1>4 DEF SnapshotIsPast
<1>6. ViewIsSeen'
  BY <1>1, <1>2, <1>3, <1>4, ClientLooksOn
<1>. QED BY <1>2, <1>4, <1>5, <1>6 DEF ResumeInv

\* The thread is opened.
LEMMA OpenThreadKeeps ==
  ASSUME ResumeInv, OpenThread
  PROVE  ResumeInv'
<1>1. /\ UNCHANGED <<agentThread, notices, runLog, view, position>>
      /\ fetch' = [fetch EXCEPT !.state = "asked"]
  BY DEF OpenThread
<1>2. ResumeTyped /\ AgentInv /\ SnapshotIsPast /\ ViewIsSeen
  BY DEF ResumeInv
<1>3. AgentInv' /\ \A m \in Messages : Text(m)' = Text(m)
  BY <1>1, <1>2, LogRests
<1>4. ResumeTyped' /\ fetch'.snapshot = fetch.snapshot
  BY <1>1, <1>2 DEF ResumeTyped, FetchRecords
<1>5. SnapshotIsPast'
  BY <1>2, <1>3, <1>4 DEF SnapshotIsPast
<1>6. ViewIsSeen'
  BY <1>1, <1>2, <1>3, ClientLooksOn
<1>. QED BY <1>3, <1>4, <1>5, <1>6 DEF ResumeInv

\* The snapshot is read: what the agent leaves out is not complete, and is the last that began.
LEMMA SnapshotIsReadKeeps ==
  ASSUME ResumeInv, SnapshotIsRead
  PROVE  ResumeInv'
<1>. USE ResumeNumbers
<1>1. UNCHANGED <<agentThread, notices, runLog, view, position>>
  BY DEF SnapshotIsRead
<1>2. ResumeTyped /\ AgentInv /\ SnapshotIsPast /\ ViewIsSeen
  BY DEF ResumeInv
<1>3. AgentInv' /\ \A m \in Messages : Text(m)' = Text(m)
  BY <1>1, <1>2, LogRests
<1>4. PICK leftOut, item :
        /\ leftOut \in SUBSET {m \in Messages : IsStreaming(m)}
        /\ item \in {agentThread.item} \cup (IF agentThread.item = "partial" THEN {"absent"} ELSE {})
        /\ fetch' = [state |-> "read", snapshot |->
             [text |-> [m \in Messages |-> IF m \in leftOut THEN NoText ELSE agentThread.text[m]],
              item |-> item]]
  BY DEF SnapshotIsRead
<1>5. item \in ItemStates
  BY <1>2, <1>4 DEF ResumeTyped, ThreadRecords, ItemStates
<1>6. PICK texts : texts = [m \in Messages |-> IF m \in leftOut THEN NoText ELSE agentThread.text[m]]
  OBVIOUS
<1>7. \A m \in Messages : /\ agentThread.text[m] \in Int /\ NoText <= agentThread.text[m]
                          /\ m \in agentThread.done => agentThread.text[m] # NoText
  BY <1>2, TextNumbers DEF AgentInv, Text
<1>8. /\ texts \in TextsShown
      /\ \A m \in Messages : NoText <= texts[m] /\ texts[m] <= Text(m)
  <2>1. \A m \in Messages :
          /\ texts[m] \in {NoText, agentThread.text[m]} /\ texts[m] \in Int
          /\ NoText <= texts[m] /\ texts[m] <= agentThread.text[m]
    BY <1>6, <1>7
  <2>2. texts \in TextsShown
    BY <1>6, <2>1 DEF TextsShown
  <2>. QED BY <2>1, <2>2 DEF Text
<1>9. ASSUME NEW m \in Messages, texts[m] # NoText, NEW k \in 1 .. (m - 1)
      PROVE  texts[k] # NoText
  <2>1. Text(m) # NoText
    BY <1>6, <1>9 DEF Text
  <2>2. k \in agentThread.done
    BY <1>2, <2>1 DEF AgentInv, BegunInOrder
  <2>3. k \in Messages /\ k \notin leftOut
    BY <1>2, <1>4, <2>2 DEF IsStreaming, ResumeTyped, ThreadRecords
  <2>4. texts[k] = agentThread.text[k]
    BY <1>6, <2>3
  <2>. QED BY <1>7, <2>2, <2>3, <2>4
<1>10. ResumeTyped' /\ fetch'.snapshot.text = texts
  BY <1>1, <1>2, <1>4, <1>5, <1>6, <1>8 DEF ResumeTyped, FetchRecords
<1>11. SnapshotIsPast'
  BY <1>3, <1>8, <1>9, <1>10 DEF SnapshotIsPast
<1>12. ViewIsSeen'
  BY <1>1, <1>2, <1>3, ClientLooksOn
<1>. QED BY <1>3, <1>10, <1>11, <1>12 DEF ResumeInv

\* Nothing was read yet.
LEMMA NothingIsRead ==
  ASSUME ResumeTyped, AgentInv
  PROVE  /\ NothingShown \in [text : TextsShown, item : ItemStates]
         /\ \A m \in Messages : NothingShown.text[m] = NoText /\ NoText <= Text(m)
         /\ \A m \in Messages : NoText <= NothingShown.text[m]
<1>. USE ResumeNumbers
<1>1. NothingShown \in [text : TextsShown, item : ItemStates]
  BY DEF NothingShown, TextsShown, ItemStates
<1>2. \A m \in Messages : NothingShown.text[m] = NoText
  BY DEF NothingShown
<1>3. \A m \in Messages : NoText <= Text(m)
  BY TextNumbers DEF AgentInv
<1>. QED BY <1>1, <1>2, <1>3

\* The thread is left.
LEMMA LeaveThreadKeeps ==
  ASSUME ResumeInv, LeaveThread
  PROVE  ResumeInv'
<1>. USE ResumeNumbers
<1>1. /\ UNCHANGED <<agentThread, notices, runLog, fetch>>
      /\ view' = NewView(NothingShown) /\ position' = NotFollowing
  BY DEF LeaveThread
<1>2. ResumeTyped /\ AgentInv /\ SnapshotIsPast
  BY DEF ResumeInv
<1>3. AgentInv' /\ \A m \in Messages : Text(m)' = Text(m)
  BY <1>1, <1>2, LogRests
<1>4. /\ view' \in ViewRecords /\ view'.pending = NothingPending
      /\ \A m \in Messages : NoText <= view'.text[m]
  BY <1>1, <1>2, NothingIsRead, NewFields
<1>5. ResumeTyped'
  <2>1. Len(runLog) \in Nat
    BY <1>2, LogIsBeginning
  <2>2. NotFollowing \in Int /\ NotFollowing <= NotFollowing /\ NotFollowing <= Len(runLog)
    BY <2>1
  <2>. QED BY <1>1, <1>2, <1>4, <2>2 DEF ResumeTyped
<1>6. SnapshotIsPast'
  BY <1>1, <1>2, <1>3 DEF SnapshotIsPast
<1>7. ViewIsSeen'
  BY <1>1, <1>4 DEF ViewIsSeen, Attends
<1>. QED BY <1>3, <1>5, <1>6, <1>7 DEF ResumeInv

\* The client loads the thread and joins its run where the snapshot's beginning ends.
LEMMA ThreadIsLoadedKeeps ==
  ASSUME ResumeInv, ThreadIsLoaded
  PROVE  ResumeInv'
<1>. USE ResumeNumbers
<1>1. ResumeTyped /\ AgentInv /\ SnapshotIsPast
  BY DEF ResumeInv
<1>2. PICK s \in [text : TextsShown, item : ItemStates] : s = fetch.snapshot
  BY <1>1 DEF ResumeTyped, FetchRecords
<1>3. /\ UNCHANGED <<agentThread, notices, runLog>>
      /\ fetch' = [state |-> "none", snapshot |-> NothingShown]
      /\ view' = NewView(s)
      /\ IF RunIsActive THEN position' \in ReplayPlaces(s) ELSE position' = NotFollowing
  BY <1>2 DEF ThreadIsLoaded
<1>4. AgentInv' /\ \A m \in Messages : Text(m)' = Text(m)
  BY <1>1, <1>3, LogRests
<1>5. \A m \in Messages :
        /\ NoText <= s.text[m] /\ s.text[m] <= Text(m)
        /\ s.text[m] # NoText => \A k \in 1 .. (m - 1) : s.text[k] # NoText
  BY <1>1, <1>2 DEF SnapshotIsPast
<1>6. PICK v \in ViewRecords : v = NewView(s)
  BY NewFields
<1>7. v.pending = NothingPending /\ \A m \in Messages : NoText <= v.text[m]
  BY <1>5, <1>6, NewFields
<1>8. Len(runLog) \in Nat
  BY <1>1, LogIsBeginning
<1>9. position' \in Int /\ NotFollowing <= position' /\ position' <= Len(runLog) /\ ViewIsSeen'
  <2>1. CASE RunIsActive
    <3>1. PICK p \in ReplayPlaces(s) : p = position'
      BY <1>3, <2>1
    <3>2. p \in 0 .. Len(runLog)
      BY DEF ReplayPlaces
    <3>3. Seen(v, p)
      BY <1>1, <1>5, <1>6, LoadSeen
    <3>4. ViewIsSeen'
      BY <1>1, <1>3, <1>4, <1>6, <3>1, <3>2, <3>3, ViewStays
    <3>. QED BY <1>8, <3>1, <3>2, <3>4
  <2>2. CASE ~ RunIsActive
    <3>1. position' = NotFollowing
      BY <1>3, <2>2
    <3>2. ViewIsSeen'
      BY <1>3, <1>6, <1>7, <3>1 DEF ViewIsSeen, Attends
    <3>. QED BY <1>8, <3>1, <3>2
  <2>. QED BY <2>1, <2>2
<1>10. NothingShown \in [text : TextsShown, item : ItemStates]
  BY <1>1, NothingIsRead
<1>11. ResumeTyped'
  <2>1. fetch' \in FetchRecords
    BY <1>3, <1>10 DEF FetchRecords
  <2>. QED BY <1>1, <1>3, <1>6, <1>9, <2>1 DEF ResumeTyped
<1>12. SnapshotIsPast'
  <2>1. \A m \in Messages : fetch'.snapshot.text[m] = NoText /\ NoText <= Text(m)'
    BY <1>1, <1>3, <1>4, NothingIsRead
  <2>. QED BY <2>1 DEF SnapshotIsPast
<1>. QED BY <1>4, <1>9, <1>11, <1>12 DEF ResumeInv

\* What waits is flushed.
LEMMA FlushTimerKeeps ==
  ASSUME ResumeInv, FlushTimer
  PROVE  ResumeInv'
<1>1. ResumeTyped /\ AgentInv /\ SnapshotIsPast /\ ViewIsSeen
  BY DEF ResumeInv
<1>2. /\ UNCHANGED <<agentThread, notices, runLog, fetch, position>>
      /\ view.pending.deltas > 0 /\ view' \in Flushed(view)
  BY DEF FlushTimer
<1>3. AgentInv' /\ \A m \in Messages : Text(m)' = Text(m)
  BY <1>1, <1>2, LogRests
<1>4. Attends
  BY <1>1, <1>2 DEF ViewIsSeen, NothingPending
<1>5. PICK p \in 0 .. Len(runLog), v \in ViewRecords : p = position /\ v = view
  BY <1>1, <1>4, PlaceNumbers DEF ResumeTyped
<1>6. Seen(v, p)
  BY <1>1, <1>4, <1>5 DEF ViewIsSeen
<1>7. PICK w \in Flushed(v) : w = view'
  BY <1>2, <1>5
<1>8. w \in ViewRecords /\ Seen(w, p)
  BY <1>1, <1>6, FlushKeeps
<1>9. ViewIsSeen'
  BY <1>1, <1>2, <1>3, <1>5, <1>7, <1>8, ViewStays
<1>10. ResumeTyped'
  BY <1>1, <1>2, <1>7, <1>8 DEF ResumeTyped
<1>11. SnapshotIsPast'
  BY <1>1, <1>2, <1>3 DEF SnapshotIsPast
<1>. QED BY <1>3, <1>9, <1>10, <1>11 DEF ResumeInv

\* What the next event leads to has what the log tells up to then; nothing waits after the last.
LEMMA AppliedKeeps ==
  ASSUME ResumeTyped, AgentInv, NEW p \in Nat, p + 1 <= Len(runLog),
         NEW v \in ViewRecords, Seen(v, p), NEW w \in Applied(v, runLog[p + 1])
  PROVE  /\ w \in ViewRecords /\ Seen(w, p + 1)
         /\ runLog[p + 1].type # "content.delta" => w.pending = NothingPending
<1>. USE ResumeNumbers, NextPlace
<1>1. runLog[p + 1].type \in EventTypes
  BY ToldFacts
<1>2. CASE runLog[p + 1].type = "content.delta"
  <2>1. w = [v EXCEPT !.pending = [of |-> runLog[p + 1].message, deltas |-> @.deltas + 1]]
    BY <1>2 DEF Applied
  <2>. QED BY <1>2, <2>1, DeltaKeeps
<1>3. CASE runLog[p + 1].type = "message.started"
  <2>1. PICK u \in Flushed(v) :
          w \in {Upserted(u, runLog[p + 1].message, runLog[p + 1].text, key) :
                   key \in Keys(u, runLog[p + 1].message, runLog[p + 1].text)}
    BY <1>3 DEF Applied
  <2>2. PICK key \in Keys(u, runLog[p + 1].message, runLog[p + 1].text) :
          w = Upserted(u, runLog[p + 1].message, runLog[p + 1].text, key)
    BY <2>1
  <2>3. u \in ViewRecords /\ Seen(u, p) /\ u.pending = NothingPending
    BY FlushKeeps
  <2>. QED BY <1>3, <2>2, <2>3, StartKeeps
<1>4. CASE runLog[p + 1].type = "message.completed"
  <2>1. PICK u \in Flushed(v) :
          w \in {Upserted(u, runLog[p + 1].message, runLog[p + 1].text, key) :
                   key \in Keys(u, runLog[p + 1].message, runLog[p + 1].text)}
    BY <1>4 DEF Applied
  <2>2. PICK key \in Keys(u, runLog[p + 1].message, runLog[p + 1].text) :
          w = Upserted(u, runLog[p + 1].message, runLog[p + 1].text, key)
    BY <2>1
  <2>3. u \in ViewRecords /\ Seen(u, p) /\ u.pending = NothingPending
    BY FlushKeeps
  <2>. QED BY <1>4, <2>2, <2>3, EndKeeps
<1>5. CASE runLog[p + 1].type \in PlainTypes
  <2>1. PICK u \in Flushed(v), item \in ItemStates :
          /\ item = CASE runLog[p + 1].type = "item.started" -> "partial"
                      [] runLog[p + 1].type = "item.completed" -> "final"
                      [] OTHER -> u.item
          /\ w = [u EXCEPT !.item = item]
    <3>1. CASE runLog[p + 1].type = "item.started"
      BY <3>1 DEF Applied, ItemStates
    <3>2. CASE runLog[p + 1].type = "item.completed"
      BY <3>2 DEF Applied, ItemStates
    <3>3. CASE runLog[p + 1].type \notin {"item.started", "item.completed"}
      <4>1. w \in Flushed(v)
        BY <1>5, <3>3 DEF Applied, PlainTypes
      <4>2. w \in ViewRecords
        BY <4>1, FlushKeeps
      <4>3. w = [w EXCEPT !.item = w.item] /\ w.item \in ItemStates
        BY <4>2 DEF ViewRecords
      <4>. QED BY <3>3, <4>1, <4>3
    <3>. QED BY <3>1, <3>2, <3>3
  <2>2. u \in ViewRecords /\ Seen(u, p) /\ u.pending = NothingPending
    BY FlushKeeps
  <2>. QED BY <1>5, <2>1, <2>2, PlainKeeps
<1>. QED BY <1>1, <1>2, <1>3, <1>4, <1>5 DEF EventTypes, PlainTypes

\* An event arrives.
LEMMA EventArrivesKeeps ==
  ASSUME ResumeInv, EventArrives
  PROVE  ResumeInv'
<1>. USE ResumeNumbers
<1>1. ResumeTyped /\ AgentInv /\ SnapshotIsPast /\ ViewIsSeen
  BY DEF ResumeInv
<1>2. Attends /\ Len(runLog) \in Nat
  BY <1>1, LogIsBeginning DEF EventArrives, Attends
<1>3. PICK p \in Nat, v \in ViewRecords :
        p = position /\ v = view /\ p \in 0 .. Len(runLog) /\ p + 1 \in 0 .. Len(runLog)
  BY <1>1, <1>2, PlaceNumbers DEF ResumeTyped, EventArrives
<1>4. Seen(v, p)
  BY <1>1, <1>2, <1>3 DEF ViewIsSeen
<1>5. /\ UNCHANGED <<agentThread, notices, runLog>>
      /\ view' \in Applied(v, runLog[p + 1])
      /\ position' = IF runLog[p + 1].type = "last" THEN NotFollowing ELSE p + 1
      /\ fetch' = IF runLog[p + 1].type = "last" THEN [fetch EXCEPT !.state = "asked"] ELSE fetch
  BY <1>3 DEF EventArrives
<1>6. PICK w \in Applied(v, runLog[p + 1]) : w = view'
  BY <1>5
<1>7. /\ w \in ViewRecords /\ Seen(w, p + 1)
      /\ runLog[p + 1].type # "content.delta" => w.pending = NothingPending
  BY <1>1, <1>3, <1>4, AppliedKeeps
<1>8. AgentInv' /\ \A m \in Messages : Text(m)' = Text(m)
  BY <1>1, <1>5, LogRests
<1>9. /\ position' \in Int /\ NotFollowing <= position' /\ position' <= Len(runLog)
      /\ ViewIsSeen'
  <2>1. CASE runLog[p + 1].type = "last"
    <3>1. position' = NotFollowing
      BY <1>5, <2>1
    <3>2. \A m \in Messages : NoText <= w.text[m]
      BY <1>7 DEF Seen, TextsAreSaid
    <3>3. ViewIsSeen'
      BY <1>6, <1>7, <2>1, <3>1, <3>2 DEF ViewIsSeen, Attends
    <3>. QED BY <1>2, <3>1, <3>3
  <2>2. CASE runLog[p + 1].type # "last"
    <3>1. PICK q \in 0 .. Len(runLog) : q = p + 1 /\ position' = q
      BY <1>3, <1>5, <2>2
    <3>2. Seen(w, q)
      BY <1>7, <3>1
    <3>3. ViewIsSeen'
      BY <1>1, <1>5, <1>6, <1>7, <1>8, <3>1, <3>2, ViewStays
    <3>. QED BY <1>2, <3>1, <3>3
  <2>. QED BY <2>1, <2>2
<1>10. fetch' \in FetchRecords /\ fetch'.snapshot = fetch.snapshot
  BY <1>1, <1>5 DEF ResumeTyped, FetchRecords
<1>11. ResumeTyped'
  BY <1>1, <1>5, <1>6, <1>7, <1>9, <1>10 DEF ResumeTyped
<1>12. SnapshotIsPast'
  BY <1>1, <1>8, <1>10 DEF SnapshotIsPast
<1>. QED BY <1>8, <1>9, <1>11, <1>12 DEF ResumeInv

\* The invariant holds at the start.
LEMMA ResumeStarts ==
  ASSUME ResumeInit
  PROVE  ResumeInv
<1>. USE ResumeNumbers
<1>1. PICK old, users, text :
        /\ old \in 0 .. NumMessages /\ users \in SUBSET Messages
        /\ text \in [Messages -> NoText .. MaxText]
        /\ \A m \in Messages : (text[m] = NoText) = (m > old)
        /\ agentThread = [users |-> users, text |-> text, done |-> 1 .. old, item |-> "absent",
                          turn |-> "none"]
  BY DEF ResumeInit
<1>2. /\ notices = <<>> /\ runLog = <<>>
      /\ fetch = [state |-> "none", snapshot |-> NothingShown]
      /\ view = NewView(NothingShown) /\ position = NotFollowing
  BY DEF ResumeInit
<1>3. /\ 1 .. old \subseteq Messages /\ \A m \in 1 .. old : m \in Messages /\ ~ (m > old)
      /\ \A m \in Messages : m > old \/ m \in 1 .. old
      /\ \A m \in Messages : m > old \/ 1 .. (m - 1) \subseteq 1 .. old
  BY <1>1 DEF Messages
<1>4. /\ text \in TextsShown
      /\ \A m \in Messages : text[m] \in Int /\ NoText <= text[m] /\ text[m] <= MaxText
  BY <1>1 DEF TextsShown
<1>5. agentThread \in ThreadRecords
  BY <1>1, <1>3, <1>4 DEF ThreadRecords, ItemStates
<1>6. /\ \A m \in Messages : Text(m) = text[m]
      /\ agentThread.done = 1 .. old
  BY <1>1 DEF Text
<1>7. /\ <<>> \in Seq(Events) /\ Len(<<>>) = 0 /\ <<>> \o <<>> = <<>>
  BY EmptySeq, ConcatEmptySeq
<1>8. NothingShown \in [text : TextsShown, item : ItemStates]
  BY DEF NothingShown, TextsShown, ItemStates
<1>9. ResumeTyped
  <2>1. fetch \in FetchRecords
    BY <1>2, <1>8 DEF FetchRecords
  <2>2. view \in ViewRecords
    BY <1>2, <1>8, NewFields
  <2>. QED BY <1>2, <1>5, <1>7, <2>1, <2>2 DEF ResumeTyped
<1>10. Said = <<>> /\ Len(Said) = 0 /\ 1 .. Len(Said) = {}
  BY <1>2, <1>7 DEF Said
<1>11. DeltasAreText
  <2>1. ASSUME NEW m \in Messages PROVE DeltasIn(Said, Len(Said), m) = 0
    <3>1. PICK s : s = Said
      OBVIOUS
    <3>2. 0 \in Nat
      OBVIOUS
    <3>3. DeltasIn(s, 0, m) = 0
      BY <3>2, DeltasCount
    <3>. QED BY <1>10, <3>1, <3>3
  <2>. QED BY <2>1 DEF DeltasAreText
<1>12. TextsAreBounded /\ BegunInOrder /\ StreamsAreSaid
  <2>1. \A m \in Messages : m \in agentThread.done => Text(m) # NoText
    BY <1>1, <1>3, <1>6
  <2>2. \A m \in Messages : Text(m) # NoText =>
          m \in agentThread.done /\ 1 .. (m - 1) \subseteq agentThread.done
    BY <1>1, <1>3, <1>6
  <2>3. \A m \in Messages : NoText <= Text(m) /\ Text(m) <= MaxText
    BY <1>4, <1>6
  <2>. QED BY <2>1, <2>2, <2>3 DEF TextsAreBounded, BegunInOrder, StreamsAreSaid
<1>13. EventsAreTrue /\ StartsFirst /\ StartsSaid /\ CompletesLast /\ MessagesInOrder /\ ItemInOrder
  BY <1>10
     DEF EventsAreTrue, StartsFirst, StartsSaid, CompletesLast, MessagesInOrder, ItemInOrder
<1>14. AgentInv
  BY <1>11, <1>12, <1>13 DEF AgentInv
<1>15. SnapshotIsPast
  BY <1>2, <1>9, <1>14, NothingIsRead DEF SnapshotIsPast
<1>16. ViewIsSeen
  <2>1. view.pending = NothingPending /\ \A m \in Messages : NoText <= view.text[m]
    BY <1>2, <1>8, <1>9, <1>14, NewFields, NothingIsRead
  <2>. QED BY <1>2, <2>1 DEF ViewIsSeen, Attends
<1>. QED BY <1>9, <1>14, <1>15, <1>16 DEF ResumeInv

\* Every step keeps the invariant.
LEMMA ResumeKept ==
  ASSUME ResumeInv, [ResumeNext]_resumeVars
  PROVE  ResumeInv'
<1>1. ResumeTyped /\ AgentInv /\ TextsAreBounded /\ BegunInOrder
  BY DEF ResumeInv, AgentInv
<1>2. CASE TurnStarts
  BY <1>1, <1>2, TurnStartsChanges, TurnStartsTyped, PlainIsStep, AgentStepInv
<1>3. CASE ItemStarts
  BY <1>1, <1>3, ItemStartsChanges, ItemStartsTyped, PlainIsStep, AgentStepInv
<1>4. CASE ItemCompletes
  BY <1>1, <1>4, ItemCompletesChanges, ItemCompletesTyped, PlainIsStep, AgentStepInv
<1>5. CASE OnlyLive
  BY <1>1, <1>5, OnlyLiveChanges, OnlyLiveTyped, PlainIsStep, AgentStepInv
<1>6. CASE TurnEnds
  BY <1>1, <1>6, TurnEndsChanges, TurnEndsTyped, PlainIsStep, AgentStepInv
<1>7. ASSUME NEW m \in Messages, MessageStarts(m) PROVE ResumeInv'
  <2>1. PICK x \in 0 .. MaxText : MessageStartsEffect(m, x) /\ agentThread' \in ThreadRecords
    BY <1>1, <1>7, MessageStartsChanges
  <2>2. AgentStep
    BY <1>1, <2>1, MessageStartsIsStep
  <2>. QED BY <2>1, <2>2, AgentStepInv
<1>8. ASSUME NEW m \in Messages, MessageGrows(m) PROVE ResumeInv'
  BY <1>1, <1>8, MessageGrowsChanges, MessageGrowsTyped, MessageGrowsIsStep, AgentStepInv
<1>9. ASSUME NEW m \in Messages, MessageCompletes(m) PROVE ResumeInv'
  BY <1>1, <1>9, MessageCompletesChanges, MessageCompletesTyped, MessageCompletesIsStep,
     AgentStepInv
<1>10. ASSUME NEW m \in Messages, MessageAtOnce(m) PROVE ResumeInv'
  BY <1>1, <1>10, MessageAtOnceChanges, MessageAtOnceTyped, MessageAtOnceIsStep, AgentStepInv
<1>11. CASE LogAppends
  BY <1>11, LogAppendsKeeps
<1>12. CASE SnapshotIsRead
  BY <1>12, SnapshotIsReadKeeps
<1>13. CASE ThreadIsLoaded
  BY <1>13, ThreadIsLoadedKeeps
<1>14. CASE OpenThread
  BY <1>14, OpenThreadKeeps
<1>15. CASE LeaveThread
  BY <1>15, LeaveThreadKeeps
<1>16. CASE FlushTimer
  BY <1>16, FlushTimerKeeps
<1>17. CASE EventArrives
  BY <1>17, EventArrivesKeeps
<1>18. CASE UNCHANGED resumeVars
  <2>1. UNCHANGED <<agentThread, notices, runLog, fetch, view, position>>
    BY <1>18 DEF resumeVars
  <2>2. AgentInv' /\ \A m \in Messages : Text(m)' = Text(m)
    BY <1>1, <2>1, LogRests
  <2>3. ResumeTyped'
    BY <1>1, <2>1 DEF ResumeTyped
  <2>4. SnapshotIsPast'
    BY <2>1, <2>2 DEF ResumeInv, SnapshotIsPast
  <2>5. ViewIsSeen'
    BY <1>1, <2>1, <2>2, ClientLooksOn DEF ResumeInv
  <2>. QED BY <2>2, <2>3, <2>4, <2>5 DEF ResumeInv
<1>. QED BY <1>2, <1>3, <1>4, <1>5, <1>6, <1>7, <1>8, <1>9, <1>10, <1>11, <1>12, <1>13, <1>14,
   <1>15, <1>16, <1>17, <1>18 DEF ResumeNext

\* A client that joined sees what the log told up to its place.
LEMMA ResumeShows ==
  ASSUME ResumeInv
  PROVE  JoinedViewIsWhole /\ ResumeTypeOK
<1>. USE ResumeNumbers
<1>1. ResumeTyped /\ AgentInv /\ SnapshotIsPast /\ ViewIsSeen /\ TextsAreBounded
  BY DEF ResumeInv, AgentInv
<1>2. PICK v \in ViewRecords, p \in Int : v = view /\ p = position
  BY <1>1 DEF ResumeTyped
<1>3. ASSUME Attends
      PROVE  p \in 0 .. Len(runLog) /\ p \in Nat /\ Seen(v, p)
  BY <1>1, <1>2, <1>3, PlaceNumbers DEF ViewIsSeen
<1>4. \A m \in Messages :
        /\ v.text[m] \in Int /\ NoText <= v.text[m] /\ v.replayed[m] \in Nat
        /\ v.alias[m] \in Messages /\ v.shows[m] \in Messages
  <2>1. CASE Attends
    BY <1>3, <2>1, ViewFields DEF Seen, TextsAreSaid
  <2>2. CASE ~ Attends
    BY <1>1, <1>2, <2>2, ViewFields DEF ViewIsSeen
  <2>. QED BY <2>1, <2>2
<1>5. ASSUME Attends, NEW m \in Messages, NEW text \in 0 .. MaxText
      PROVE  LET key == v.alias[m]
                 started == \E n \in 1 .. p : runLog[n] = Event("message.started", m, text)
                 completed == \E n \in 1 .. p : runLog[n] = Event("message.completed", m, text) IN
             /\ started => v.text[key] # NoText
             /\ started /\ v.shows[key] # m => v.shows[key] > m /\ v.alias[v.shows[key]] = key
             /\ started /\ v.shows[key] = m /\ v.pending.deltas = 0 => v.text[key] >= DeltasUpTo(p, m)
             /\ completed /\ v.shows[key] = m => v.text[key] = text /\ v.pending.of # m
  <2>1. p \in 0 .. Len(runLog) /\ p \in Nat /\ Seen(v, p)
    BY <1>3, <1>5
  <2>2. m \in Nat /\ text \in Nat
    OBVIOUS
  <2>3. ASSUME NEW n \in 1 .. p, runLog[n] = Event("message.started", m, text)
        PROVE  /\ v.text[v.alias[m]] # NoText
               /\ v.shows[v.alias[m]] # m =>
                    v.shows[v.alias[m]] > m /\ v.alias[v.shows[v.alias[m]]] = v.alias[m]
               /\ v.shows[v.alias[m]] = m /\ v.pending.deltas = 0 =>
                    v.text[v.alias[m]] >= DeltasUpTo(p, m)
    <3>1. runLog[n].type = "message.started" /\ runLog[n].message = m
      BY <2>2, <2>3, EventFields DEF EventTypes
    <3>2. v.text[v.alias[m]] # NoText
      BY <2>1, <3>1 DEF Seen, StartsAreSeen
    <3>3. \/ v.shows[v.alias[m]] = m
          \/ v.shows[v.alias[m]] > m /\ v.alias[v.shows[v.alias[m]]] = v.alias[m]
      BY <2>1, <3>1 DEF Seen, LaterReplace, IsTold
    <3>4. ASSUME v.shows[v.alias[m]] = m, v.pending.deltas = 0
          PROVE  v.text[v.alias[m]] >= DeltasUpTo(p, m)
      <4>1. DeltasUpTo(p, m) \in Nat /\ Waiting(v, m) = 0
        BY <2>1, <3>4, PlaceSteps DEF Waiting
      <4>2. CASE v.alias[m] = m
        <5>1. DeltasUpTo(p, m) = 0 \/ v.text[m] + Waiting(v, m) >= DeltasUpTo(p, m)
          BY <2>1, <3>4, <4>2 DEF Seen, DeltasAreSeen
        <5>. QED BY <1>4, <3>2, <4>1, <4>2, <5>1
      <4>3. CASE v.alias[m] # m
        <5>1. /\ v.replayed[m] + Waiting(v, m) = DeltasUpTo(p, m)
              /\ v.text[v.alias[m]] >= v.replayed[m]
          BY <2>1, <3>4, <4>3 DEF Seen, AliasesAreEarlier
        <5>2. v.replayed[m] = DeltasUpTo(p, m)
          <6>1. PICK r \in Nat : r = v.replayed[m] /\ r + 0 = r
            BY <1>4
          <6>. QED BY <4>1, <5>1, <6>1
        <5>. QED BY <5>1, <5>2
      <4>. QED BY <4>2, <4>3
    <3>. QED BY <3>2, <3>3, <3>4
  <2>4. ASSUME NEW n \in 1 .. p, runLog[n] = Event("message.completed", m, text)
        PROVE  v.shows[v.alias[m]] = m => v.text[v.alias[m]] = text /\ v.pending.of # m
    <3>1. /\ runLog[n].type = "message.completed" /\ runLog[n].message = m
          /\ runLog[n].text = text
      BY <2>2, <2>4, EventFields DEF EventTypes
    <3>. QED BY <2>1, <3>1 DEF Seen, EndsAreSeen
  <2>. QED BY <2>3, <2>4
<1>6. ASSUME Attends
      PROVE  /\ (\E n \in 1 .. p : runLog[n] = Plain("item.started")) => v.item # "absent"
             /\ (\E n \in 1 .. p : runLog[n] = Plain("item.completed")) =>
                  v.item = "final" \/ v.beganPartial
  <2>1. Seen(v, p)
    BY <1>3, <1>6
  <2>2. Plain("item.started").type = "item.started" /\ Plain("item.completed").type = "item.completed"
    BY EventFields DEF Plain, EventTypes
  <2>. QED BY <2>1, <2>2 DEF Seen, ItemIsSeen
<1>7. JoinedViewIsWhole
  BY <1>2, <1>5, <1>6 DEF JoinedViewIsWhole, Attends
<1>8. ResumeTypeOK
  <2>1. /\ agentThread.done \subseteq Messages /\ agentThread.users \subseteq Messages
        /\ agentThread.text \in TextsShown /\ fetch.snapshot.text \in TextsShown
    BY <1>1 DEF ResumeTyped, ThreadRecords, FetchRecords
  <2>2. ASSUME NEW m \in Messages
        PROVE  agentThread.text[m] \in NoText .. MaxText /\ fetch.snapshot.text[m] \in NoText .. MaxText
    <3>1. PICK z \in Int : z = Text(m) /\ NoText <= z /\ z <= MaxText /\ z = agentThread.text[m]
      BY <1>1, TextNumbers DEF Text
    <3>2. PICK x \in Int : x = fetch.snapshot.text[m] /\ NoText <= x /\ x <= z
      BY <1>1, <2>1, <3>1 DEF SnapshotIsPast, TextsShown
    <3>. QED BY <3>1, <3>2
  <2>3. /\ agentThread.text \in [Messages -> NoText .. MaxText]
        /\ fetch.snapshot.text \in [Messages -> NoText .. MaxText]
    BY <2>1, <2>2 DEF TextsShown
  <2>4. ASSUME v.pending.deltas > 0
        PROVE  p > 0 /\ runLog[p] = Event("content.delta", v.pending.of, 1)
    <3>1. Attends
      BY <1>1, <1>2, <2>4 DEF ViewIsSeen, NothingPending
    <3>2. p \in 1 .. Len(runLog)
      BY <1>1, <1>3, <2>4, <3>1, PendingFacts
    <3>3. runLog[p].type = "content.delta" /\ runLog[p].message = v.pending.of
      BY <1>3, <2>4, <3>1 DEF Seen, LastWaits
    <3>4. runLog[p] \in Events /\ runLog[p].text = 1
      BY <1>1, <3>2, <3>3, LogIsTrue DEF IsTrueOf, PlainTypes
    <3>. QED BY <3>2, <3>3, <3>4 DEF Events, Event
  <2>5. position \in NotFollowing .. Len(runLog)
    <3>1. Len(runLog) \in Nat
      BY <1>1, LogIsBeginning
    <3>. QED BY <1>1, <3>1 DEF ResumeTyped
  <2>. QED BY <1>2, <1>4, <2>1, <2>3, <2>4, <2>5, ViewFields DEF ResumeTypeOK
<1>. QED BY <1>7, <1>8

-----------------------------------------------------------------------------
(***************************************************************************)
(* The three together: a step of one of them leaves the others.            *)
(***************************************************************************)
\* The invariants of the three are kept.
LEMMA AgentsInvariance == AgentsSpec => [](IInv /\ ResumeInv /\ CodexInv)
<1>1. AgentsInit => IInv /\ ResumeInv /\ CodexInv
  BY Initially, ResumeStarts, CodexStarts DEF AgentsInit
<1>2. /\ IInv /\ ResumeInv /\ CodexInv
      /\ [AgentsNext]_<<vars, resumeVars, codexVars, part>>
      => (IInv /\ ResumeInv /\ CodexInv)'
  <2>1. [AgentsNext]_<<vars, resumeVars, codexVars, part>> =>
          [Next]_vars /\ [ResumeNext]_resumeVars /\ [CodexNext]_codexVars
    BY DEF AgentsNext
  <2>. QED BY <2>1, Step, ResumeKept, CodexKept
<1>. QED BY <1>1, <1>2, PTL DEF AgentsSpec

\* A client that joins a run from a snapshot of any moment, with getReplayAfterEventId(), sees
\* all that the log told up to its place: each message under its own key or the one it was
\* taken for (findEquivalentMessageKey(), messageIdAliases), unless a later message has replaced
\* it there, and exactly its text once it is completed.
THEOREM JoinedViewIsWholeCorrect == AgentsSpec => []JoinedViewIsWhole
<1>1. ResumeInv => JoinedViewIsWhole
  BY ResumeShows
<1>. QED BY <1>1, AgentsInvariance, PTL

\* A call is told of every notification of its turn, whatever process the client has by then,
\* and no call waits for an answer that does not come: pending requests are rejected with the
\* process that owes them, or by an answer that cannot be placed (codex-agent-harness.ts,
\* app-server-client.ts).
THEOREM TurnsAreHeardCorrect == AgentsSpec => []TurnsAreHeard
<1>1. CodexInv => TurnsAreHeard
  BY CodexHears
<1>. QED BY <1>1, AgentsInvariance, PTL

\* The types of the three; a delta waits in the client only as the last thing it was sent.
THEOREM AgentsTypesCorrect == AgentsSpec => []AgentsTypeOK
<1>1. IInv /\ ResumeInv /\ CodexInv => AgentsTypeOK
  BY ResumeShows, CodexHears DEF IInv, AgentsTypeOK
<1>. QED BY <1>1, AgentsInvariance, PTL

=============================================================================
