----------------------------- MODULE AgentRuns -----------------------------
(***************************************************************************)
(* Agent runs on a machine and the clients that follow them.  The machine  *)
(* server (AgentRunManager in packages/server/src/agent/run-manager.ts,    *)
(* behind the handlers of http.ts) keeps for each run a log of numbered    *)
(* envelopes and streams it, from any number on, to the requests that      *)
(* subscribed to it.  A client (runStreamLoop in                           *)
(* apps/web/src/lib/agent/agent-client.ts) starts a run, or joins one, and *)
(* reconnects when its stream breaks.                                      *)
(*                                                                         *)
(* Each client is one call of startAgentRun, editAgentThreadUserMessage or *)
(* resumeAgentRun and has a clientRunId of its own.  Envelope n of a run   *)
(* is its n-th; of its content only the type is kept, "last" for run_end   *)
(* and error, which every part of the code treats alike.  All the clients  *)
(* look at one thread, some start a new one.                               *)
(***************************************************************************)
EXTENDS Naturals, SequencesExt

CONSTANTS
  Clients,
  Operations,      \* bound: what each client's user may do
  MaxEnvelopes,    \* bound: a run's log has that many envelopes before its last one
  MaxReconnects    \* bound: how often each client reconnects, MAX_RECONNECT_ATTEMPTS at most

Kinds == {"new", "message", "edit"}   \* a run in a new thread, in the thread, an edit of it

ASSUME BoundAssumption ==
  /\ Operations \in [Clients -> SUBSET (Kinds \cup {"resume", "cancel", "close"})]
  /\ MaxEnvelopes \in Nat /\ MaxReconnects \in [Clients -> Nat]

VARIABLES
  runs,      \* the AgentRunRecords in the order they were made
  requests,  \* the HTTP requests that the server has not answered
  client,    \* RunStreamState of each client
  stream,    \* the response a client reads: its run, the envelopes under way, response.end()
  from,      \* history: the envelope after which the client's stream starts
  passed     \* history: the envelopes passed on to the client's callbacks

vars == <<runs, requests, client, stream, from, passed>>

Phases == {"idle", "requesting", "streaming", "sleeping", "ended", "closed"}
Types == {"run_start", "event", "last"}
NoRun == 0

Idle == [phase |-> "idle", kind |-> "new", runId |-> NoRun, lastEventId |-> 0,
         attempts |-> 0, cancel |-> "no"]
NoStream == [run |-> NoRun, wire |-> <<>>, ended |-> FALSE]

Init ==
  /\ runs = <<>>
  /\ requests = {}
  /\ client = [c \in Clients |-> Idle]
  /\ stream = [c \in Clients |-> NoStream]
  /\ from = [c \in Clients |-> 0]
  /\ passed = [c \in Clients |-> <<>>]

Active(r) == runs[r].status \in {"starting", "running"}

\* isThreadRunning(); a run in a new thread is in another thread.
ThreadRunning == \E r \in DOMAIN runs : Active(r) /\ runs[r].kind # "new"

-----------------------------------------------------------------------------
(***************************************************************************)
(* The client.                                                             *)
(***************************************************************************)
Request(c, kind, attempt, run, after) ==
  [client |-> c, kind |-> kind, attempt |-> attempt, run |-> run, after |-> after]

\* The client still waits for the answer to this request.
Listening(q) ==
  client[q.client].phase = "requesting" /\ client[q.client].attempts = q.attempt

\* startAgentRun, editAgentThreadUserMessage
Start(c, kind) ==
  /\ kind \in Operations[c] /\ client[c].phase = "idle"
  /\ client' = [client EXCEPT ![c].phase = "requesting", ![c].kind = kind]
  /\ requests' = requests \cup {Request(c, kind, 0, NoRun, 0)}
  /\ UNCHANGED <<runs, stream, from, passed>>

\* getActiveRunForThread(): the first run of the thread that is running.
IsActiveRun(r) ==
  LET Candidate(s) == runs[s].status = "running" /\ runs[s].kind # "new"
  IN Candidate(r) /\ \A s \in 1..(r - 1) : ~ Candidate(s)

\* resumeAgentRun with what GET /agent/threads/:id has said; getReplayAfterEventId()
\* finds any number of envelopes in the thread's snapshot.
Resume(c) ==
  /\ "resume" \in Operations[c] /\ client[c].phase = "idle"
  /\ \E r \in DOMAIN runs :
       /\ IsActiveRun(r)
       /\ \E after \in 0..Len(runs[r].envelopes) :
            /\ client' = [client EXCEPT ![c].phase = "requesting",
                                        ![c].runId = r, ![c].lastEventId = after]
            /\ from' = [from EXCEPT ![c] = after]
            /\ requests' = requests \cup {Request(c, "events", 0, r, after)}
  /\ UNCHANGED <<runs, stream, passed>>

\* The catch block of runStreamLoop: another attempt after a delay, or the end.
Caught(c) ==
  IF client[c].attempts < MaxReconnects[c]
  THEN client' = [client EXCEPT ![c].phase = "sleeping", ![c].attempts = @ + 1]
  ELSE client' = [client EXCEPT ![c].phase = "ended"]

\* The network fails, while the request is under way or while its answer is read.
\* The server may not hear of it and handle a POST all the same; a GET that nobody
\* waits for does nothing.
Breaks(c) ==
  /\ client[c].phase \in {"requesting", "streaming"}
  /\ Caught(c)
  /\ stream' = [stream EXCEPT ![c] = NoStream]
  /\ requests' = {q \in requests : ~ (q.client = c /\ q.kind = "events")}
  /\ UNCHANGED <<runs, from, passed>>

\* The response ends and the run has not: "closed before completion".
StreamEnds(c) ==
  /\ client[c].phase = "streaming" /\ stream[c].ended /\ stream[c].wire = <<>>
  /\ Caught(c)
  /\ stream' = [stream EXCEPT ![c] = NoStream]
  /\ UNCHANGED <<runs, requests, from, passed>>

\* Mutant: the attempt starts over.
ReconnectsAnew(c) ==
  /\ client[c].phase = "sleeping"
  /\ client' = [client EXCEPT ![c].phase = "requesting"]
  /\ requests' = requests \cup
       {IF client[c].runId # NoRun
        THEN Request(c, "events", client[c].attempts, client[c].runId, 0)
        ELSE Request(c, client[c].kind, client[c].attempts, NoRun, 0)}
  /\ UNCHANGED <<runs, stream, from, passed>>

\* The delay is over: the same POST again until the client knows its run, the rest
\* of the run's envelopes when it does.
Reconnects(c) ==
  /\ client[c].phase = "sleeping"
  /\ client' = [client EXCEPT ![c].phase = "requesting"]
  /\ requests' = requests \cup
       {IF client[c].runId # NoRun
        THEN Request(c, "events", client[c].attempts, client[c].runId, client[c].lastEventId)
        ELSE Request(c, client[c].kind, client[c].attempts, NoRun, 0)}
  /\ UNCHANGED <<runs, stream, from, passed>>

MathMax(a, b) == IF a >= b THEN a ELSE b

\* handleRunStreamMessage, for the next message if it has the type.
Reads(c, type) ==
  /\ client[c].phase = "streaming" /\ stream[c].wire # <<>>
  /\ runs[stream[c].run].envelopes[Head(stream[c].wire)] = type
  /\ stream' = [stream EXCEPT ![c].wire = Tail(@)]
  /\ passed' = [passed EXCEPT ![c] = Append(@, Head(stream[c].wire))]
  /\ UNCHANGED <<runs, requests, from>>

LastRead(c) == MathMax(client[c].lastEventId, Head(stream[c].wire))

\* Mutant: a cancellation that came before the run's start is forgotten.
ReadsStartOnly(c) ==
  /\ Reads(c, "run_start")
  /\ client' = [client EXCEPT ![c].lastEventId = LastRead(c), ![c].runId = stream[c].run]

\* A cancellation that came before is sent now.
ReadsStart(c) ==
  /\ Reads(c, "run_start")
  /\ client' = [client EXCEPT ![c].lastEventId = LastRead(c), ![c].runId = stream[c].run,
                              ![c].cancel = IF @ = "wanted" THEN "sent" ELSE @]

ReadsEvent(c) ==
  /\ Reads(c, "event")
  /\ client' = [client EXCEPT ![c].lastEventId = LastRead(c), ![c].runId = stream[c].run]

\* run_end or error: the client is told and is done.
ReadsLast(c) ==
  /\ Reads(c, "last")
  /\ client' = [client EXCEPT ![c].lastEventId = LastRead(c), ![c].phase = "ended"]

\* cancel(): sent as soon as the run is known, at most once.
Cancel(c) ==
  /\ "cancel" \in Operations[c]
  /\ client[c].phase \in {"requesting", "streaming", "sleeping"} /\ client[c].cancel = "no"
  /\ client' = [client EXCEPT ![c].cancel = IF client[c].runId = NoRun THEN "wanted" ELSE "sent"]
  /\ UNCHANGED <<runs, requests, stream, from, passed>>

\* close(): the user has turned to something else.
Close(c) ==
  /\ "close" \in Operations[c]
  /\ client[c].phase \in {"requesting", "streaming", "sleeping"}
  /\ client' = [client EXCEPT ![c].phase = "closed"]
  /\ stream' = [stream EXCEPT ![c] = NoStream]
  /\ requests' = {q \in requests : ~ (q.client = c /\ q.kind = "events")}
  /\ UNCHANGED <<runs, from, passed>>

-----------------------------------------------------------------------------
(***************************************************************************)
(* The server's handlers.  Every look at the runs is preceded by           *)
(* pruneCompletedRuns(), so that a run is gone when its ten minutes have   *)
(* passed.                                                                 *)
(***************************************************************************)
Finished(run) == run.status = "finished"

\* Mutant: the envelope the client has is sent again.
ReplayFrom(run, after) ==
  [i \in 1..(Len(run.envelopes) - after + 1) |-> after + i - 1]

\* What subscribe() sends at once: the envelopes after the one asked for.
Replay(run, after) == [i \in 1..(Len(run.envelopes) - after) |-> after + i]

\* streamRun(), for a client that still listens.
StreamRun(q, r, run) ==
  IF Listening(q)
  THEN /\ stream' = [stream EXCEPT ![q.client] =
                      [run |-> r, wire |-> Replay(run, q.after), ended |-> Finished(run)]]
       /\ client' = [client EXCEPT ![q.client].phase = "streaming"]
  ELSE UNCHANGED <<stream, client>>

\* The answer is an error.
Refuse(q) == IF Listening(q) THEN Caught(q.client) ELSE UNCHANGED client

\* Mutant: only a run that has started is found.
OwnRunsStarted(c) ==
  {r \in DOMAIN runs : runs[r].owner = c /\ ~ runs[r].gone /\ runs[r].status # "starting"}

\* runsByClientRunId
OwnRuns(c) == {r \in DOMAIN runs : runs[r].owner = c /\ ~ runs[r].gone}

NewRun(q, kind) ==
  [owner |-> q.client, kind |-> kind, status |-> "starting", envelopes |-> <<>>, gone |-> FALSE]

\* startRun() after its check of edits, and streamRun(): the client's own run or a new one.
StartRun(q, kind) ==
  \/ /\ OwnRuns(q.client) = {}
     /\ runs' = Append(runs, NewRun(q, kind))
     /\ StreamRun(q, Len(runs) + 1, NewRun(q, kind))
  \/ /\ \E r \in OwnRuns(q.client) : StreamRun(q, r, runs[r])
     /\ UNCHANGED runs

\* POST /agent/runs
PostRun(q) ==
  /\ q.kind \in {"new", "message"}
  /\ requests' = requests \ {q}
  /\ StartRun(q, q.kind)
  /\ UNCHANGED <<from, passed>>

\* POST /agent/threads/:id/edit, up to the await of the thread.
EditRefused(q) ==
  /\ q.kind = "edit" /\ ThreadRunning
  /\ requests' = requests \ {q}
  /\ Refuse(q)
  /\ UNCHANGED <<runs, stream, from, passed>>

EditAccepted(q) ==
  /\ q.kind = "edit" /\ ~ ThreadRunning
  /\ requests' = (requests \ {q}) \cup {[q EXCEPT !.kind = "edit accepted"]}
  /\ UNCHANGED <<runs, client, stream, from, passed>>

\* Mutant: the thread is not looked at again.
EditStartsUnchecked(q) ==
  /\ q.kind = "edit accepted"
  /\ requests' = requests \ {q}
  /\ StartRun(q, "edit")
  /\ UNCHANGED <<from, passed>>

\* ... after it: startRun() looks at the thread again.
EditStarts(q) ==
  /\ q.kind = "edit accepted" /\ ~ ThreadRunning
  /\ requests' = requests \ {q}
  /\ StartRun(q, "edit")
  /\ UNCHANGED <<from, passed>>

\* The thread is running by now, or the harness says so, or it does not find it.
EditGivenUp(q) ==
  /\ q.kind = "edit accepted"
  /\ requests' = requests \ {q}
  /\ Refuse(q)
  /\ UNCHANGED <<runs, stream, from, passed>>

\* GET /agent/runs/:runId/events
GetEvents(q) ==
  /\ q.kind = "events"
  /\ requests' = requests \ {q}
  /\ IF runs[q.run].gone
     THEN Refuse(q) /\ UNCHANGED stream
     ELSE StreamRun(q, q.run, runs[q.run])
  /\ UNCHANGED <<runs, from, passed>>

-----------------------------------------------------------------------------
(***************************************************************************)
(* consumeRun(): what the harness yields is appended to the run's log and  *)
(* sent to its subscribers.                                                *)
(***************************************************************************)
Subscribed(c, r) ==
  client[c].phase = "streaming" /\ stream[c].run = r /\ ~ stream[c].ended

\* appendEnvelope(), for one envelope after the other; the streams end with the run.
AppendEnvelopes(r, types, status) ==
  LET log == runs[r].envelopes
      new == [i \in 1..Len(types) |-> Len(log) + i]
  IN
  /\ runs' = [runs EXCEPT ![r].envelopes = @ \o types, ![r].status = status]
  /\ stream' = [c \in Clients |->
       IF Subscribed(c, r)
       THEN [stream[c] EXCEPT !.wire = @ \o new, !.ended = Last(types) = "last"]
       ELSE stream[c]]
  /\ UNCHANGED <<requests, client, from, passed>>

\* The first event.
RunStarts(r) ==
  /\ runs[r].status = "starting"
  /\ AppendEnvelopes(r, <<"run_start", "event">>, "running")

RunEvent(r) ==
  /\ runs[r].status = "running" /\ Len(runs[r].envelopes) < MaxEnvelopes
  /\ AppendEnvelopes(r, <<"event">>, "running")

\* Mutant: the status changes, the subscribers are not told.
RunEndsSilently(r) ==
  /\ Active(r)
  /\ runs' = [runs EXCEPT ![r].envelopes = Append(@, "last"), ![r].status = "finished"]
  /\ UNCHANGED <<requests, client, stream, from, passed>>

\* The harness is through, or it throws: run_end with status "completed", or error
\* with "failed", which may be before anything else.
RunEnds(r) ==
  /\ Active(r)
  /\ AppendEnvelopes(r, <<"last">>, "finished")

\* Mutant: the time of the end is not looked at.
ExpiresEarly(r) ==
  /\ runs[r].status \in {"starting", "running", "finished"} /\ ~ runs[r].gone
  /\ runs' = [runs EXCEPT ![r].gone = TRUE]
  /\ UNCHANGED <<requests, client, stream, from, passed>>

\* RECENT_RUN_TTL_MS after the end.
Expires(r) ==
  /\ Finished(runs[r]) /\ ~ runs[r].gone
  /\ runs' = [runs EXCEPT ![r].gone = TRUE]
  /\ UNCHANGED <<requests, client, stream, from, passed>>

\* The machine server's process is replaced: its runs are gone, its handlers and
\* streams break off.
ServerRestarts ==
  /\ \E r \in DOMAIN runs : ~ runs[r].gone
  /\ runs' = [r \in DOMAIN runs |->
       [runs[r] EXCEPT !.gone = TRUE, !.status = IF Active(r) THEN "lost" ELSE @]]
  /\ requests' = {q \in requests : q.kind # "edit accepted"}
  /\ stream' = [c \in Clients |->
       [stream[c] EXCEPT !.ended = @ \/ client[c].phase = "streaming"]]
  /\ UNCHANGED <<client, from, passed>>

\* The request died with the server.
Unanswered(c) ==
  client[c].phase = "requesting" /\ \A q \in requests : q.client = c => ~ Listening(q)

Serve(q) ==
  PostRun(q) \/ EditRefused(q) \/ EditAccepted(q) \/ EditStarts(q) \/ EditGivenUp(q) \/ GetEvents(q)

Reading(c) == ReadsStart(c) \/ ReadsEvent(c) \/ ReadsLast(c)

Next ==
  \/ \E c \in Clients :
       \/ \E kind \in Kinds : Start(c, kind)
       \/ Resume(c) \/ Breaks(c) \/ StreamEnds(c) \/ Reconnects(c) \/ Reading(c)
       \/ Cancel(c) \/ Close(c)
  \/ \E q \in requests : Serve(q)
  \/ \E r \in DOMAIN runs : RunStarts(r) \/ RunEvent(r) \/ RunEnds(r) \/ Expires(r)
  \/ ServerRestarts

Spec == Init /\ [][Next]_vars

\* The server answers, timers fire, what is on the wire arrives and a broken connection
\* is noticed.  An agent may work for ever.
Fairness ==
  \A c \in Clients :
    /\ WF_vars(\E q \in requests : q.client = c /\ Listening(q) /\ Serve(q))
    /\ WF_vars(Unanswered(c) /\ Breaks(c))
    /\ WF_vars(Reading(c)) /\ WF_vars(StreamEnds(c)) /\ WF_vars(Reconnects(c))

FairSpec == Spec /\ Fairness

-----------------------------------------------------------------------------
RunRecord ==
  [owner : Clients, kind : Kinds,
   status : {"starting", "running", "finished", "lost"},
   envelopes : Seq(Types), gone : BOOLEAN]

\* Types, and what a status says of the log.
TypeOK ==
  /\ runs \in Seq(RunRecord)
  /\ requests \subseteq [client : Clients, kind : Kinds \cup {"edit accepted", "events"},
                         attempt : Nat, run : Nat, after : Nat]
  /\ client \in [Clients ->
       [phase : Phases, kind : Kinds, runId : Nat, lastEventId : Nat,
        attempts : Nat, cancel : {"no", "wanted", "sent"}]]
  /\ stream \in [Clients -> [run : Nat, wire : Seq(Nat), ended : BOOLEAN]]
  /\ from \in [Clients -> Nat]
  /\ passed \in [Clients -> Seq(Nat)]
  /\ \A r \in DOMAIN runs : Active(r) => ~ runs[r].gone

\* Across all its reconnections a client passes on every envelope of its run from the
\* one its stream starts with, once and in order.
Gapless ==
  \A c \in Clients :
    passed[c] = [i \in 1..(client[c].lastEventId - from[c]) |-> from[c] + i]

\* A stream that is open belongs to a run that is still active, and holds everything
\* the run has said that the client does not have: the answers to requests, the
\* appends to the log and the end of the run leave nothing between the log and the wire.
StreamIsCurrent ==
  \A c \in Clients :
    client[c].phase = "streaming" /\ ~ stream[c].ended =>
      /\ Active(stream[c].run)
      /\ client[c].lastEventId + Len(stream[c].wire) = Len(runs[stream[c].run].envelopes)

\* A message that is posted twice is one run, as long as the run is remembered.
OneRunEach ==
  \A r, s \in DOMAIN runs : r < s /\ runs[r].owner = runs[s].owner => runs[r].gone

\* An edit never starts while the thread has another run, even one that came while the
\* edit's handler awaited the thread.
EditAlone ==
  [][\A r \in DOMAIN runs' \ DOMAIN runs : runs'[r].kind = "edit" => ~ ThreadRunning]_vars

\* No client hangs: in the end it was told how its run went, or it was closed, or it
\* follows a run that still goes on.
FollowsOrEnds ==
  \A c \in Clients :
    <>[](\/ client[c].phase \in {"idle", "ended", "closed"}
         \/ client[c].phase = "streaming" /\ Active(stream[c].run))

\* A run that is cancelled before its client knows it is cancelled when it has started:
\* no client goes on following it with the cancellation still to be sent.
CancelIsSent ==
  \A c \in Clients :
    []<>~ (/\ client[c].cancel = "wanted" /\ client[c].phase = "streaming"
           /\ runs[stream[c].run].status # "starting")

\* The two of them: nobody who has asked for something is left waiting.
ClientsAreServed == FollowsOrEnds /\ CancelIsSent

\* An edit that is posted again finds the run that its first request has started: "a
\* client that retries a POST gets the same run, not a second one" (html-docs).
EditRetried ==
  [][\A q \in requests : EditRefused(q) => \A r \in OwnRuns(q.client) : ~ Active(r)]_vars

=============================================================================
