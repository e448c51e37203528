----------------------------- MODULE AgentResume -----------------------------
(***************************************************************************)
(* A client opens a thread whose run is under way: the thread's snapshot   *)
(* and the place in the run's log where the client goes on from it.  The   *)
(* handler of GET /agent/threads/:id (packages/server/src/agent/http.ts)   *)
(* awaits the snapshot and then looks the run up; getReplayAfterEventId()  *)
(* of run-manager.ts compares the two; the reducer of the web application  *)
(* (apps/web/src/lib/agent/agent-events.ts) applies what follows.          *)
(*                                                                         *)
(* What the agent says comes through the live mapper of the codex harness, *)
(* whose messages and items have the ids of the snapshot's; the thread may *)
(* have messages of earlier turns.  A delta is one unit of text and a text *)
(* is its length: the server's texts of one message are beginnings of one  *)
(* text, so that startsWith() compares lengths.  What the texts of two     *)
(* messages have in common is left open: wherever the client compares      *)
(* them, every outcome that their lengths allow is taken.  The stream      *)
(* loses nothing (AgentRuns), so the client reads the log itself.          *)
(***************************************************************************)
EXTENDS Integers, FiniteSets, SequencesExt

CONSTANTS
  NumMessages,   \* bound: messages of the thread
  MaxText,       \* bound: the longest text of a message
  MaxEvents,     \* bound: how many events the agent makes
  MaxNotices,    \* bound: how many events the log is behind the agent
  MaxFetches     \* bound: how often the user opens the thread

ASSUME ResumeAssumption ==
  NumMessages \in Nat /\ MaxText \in Nat \ {0} /\ {MaxEvents, MaxNotices, MaxFetches} \subseteq Nat

Messages == 1 .. NumMessages
NoText == -1          \* the text of a message that is not there
NotFollowing == -1

VARIABLES
  agentThread,  \* at the agent: the messages that are a user's, text and end of each message,
                \* an item, the turn
  notices,      \* what the agent has said and is not in the log
  runLog,       \* record.envelopes; the run is active until its last one
  fetch,        \* the query of the thread: "none", "asked", or "read" with its snapshot
  view,         \* the client's data (NewView)
  position,     \* lastEventId of the client's stream, or NotFollowing
  fetches       \* how often the thread was opened

resumeVars == <<agentThread, notices, runLog, fetch, view, position, fetches>>

NothingShown == [text |-> [m \in Messages |-> NoText], item |-> "absent"]
NothingPending == [of |-> 0, deltas |-> 0]

\* The client's data: the text under each key, messageIdAliases (a message that has none is its
\* own), how much of each aliased message was replayed, deltas not yet flushed, the item, whether
\* it began with an item that was not finished, and, as history, the message that last came
\* under each key.
NewView(snapshot) ==
  [text |-> snapshot.text, alias |-> [m \in Messages |-> m], replayed |-> [m \in Messages |-> 0],
   pending |-> NothingPending, item |-> snapshot.item, beganPartial |-> snapshot.item = "partial",
   shows |-> [m \in Messages |-> m]]

ResumeInit ==
  /\ \E old \in 0 .. NumMessages, users \in SUBSET Messages :
     \E text \in [Messages -> NoText .. MaxText] :
       /\ \A m \in Messages : (text[m] = NoText) = (m > old)
       /\ agentThread = [users |-> users, text |-> text, done |-> 1 .. old, item |-> "absent",
                         turn |-> "none"]
  /\ notices = <<>> /\ runLog = <<>>
  /\ fetch = [state |-> "none", snapshot |-> NothingShown]
  /\ view = NewView(NothingShown) /\ position = NotFollowing /\ fetches = 0

-----------------------------------------------------------------------------
(***************************************************************************)
(* The agent, and the events that the harness makes of its notifications.  *)
(***************************************************************************)
Event(type, m, text) == [type |-> type, message |-> m, text |-> text]
Plain(type) == Event(type, 0, 0)

Says(events) ==
  /\ Len(notices) < MaxNotices /\ Len(runLog \o notices \o events) <= MaxEvents
  /\ notices' = notices \o events
  /\ UNCHANGED <<runLog, fetch, view, position, fetches>>

\* run_start, thread.created and turn.started, which each snapshot of the thread represents.
TurnStarts ==
  /\ agentThread.turn = "none"
  /\ agentThread' = [agentThread EXCEPT !.turn = "running"]
  /\ Says(<<Plain("start")>>)

MayBegin(m) ==
  /\ agentThread.turn = "running" /\ agentThread.text[m] = NoText
  /\ m = 1 \/ m - 1 \in agentThread.done

\* item/started of a message, which may have text, item/agentMessage/delta, item/completed.
MessageStarts(m) ==
  /\ MayBegin(m) /\ m \notin agentThread.users
  /\ \E text \in 0 .. MaxText :
       /\ agentThread' = [agentThread EXCEPT !.text[m] = text]
       /\ Says(<<Event("message.started", m, text)>>)

IsStreaming(m) ==
  agentThread.turn = "running" /\ agentThread.text[m] # NoText /\ m \notin agentThread.done

MessageGrows(m) ==
  /\ IsStreaming(m) /\ agentThread.text[m] < MaxText
  /\ agentThread' = [agentThread EXCEPT !.text[m] = @ + 1]
  /\ Says(<<Event("content.delta", m, 1)>>)

MessageCompletes(m) ==
  /\ IsStreaming(m)
  /\ agentThread' = [agentThread EXCEPT !.done = @ \cup {m}]
  /\ Says(<<Event("message.completed", m, agentThread.text[m])>>)

\* item/completed of a message that was not started, or a user's message that is.
MessageAtOnce(m) ==
  /\ MayBegin(m)
  /\ agentThread' = [agentThread EXCEPT !.text[m] = MaxText, !.done = @ \cup {m}]
  /\ Says(<<Event("message.started", m, MaxText), Event("message.completed", m, MaxText)>>)

\* item/started and item/completed of a tool.
ItemStarts ==
  /\ agentThread.turn = "running" /\ agentThread.item = "absent"
  /\ agentThread' = [agentThread EXCEPT !.item = "partial"]
  /\ Says(<<Plain("item.started")>>)

ItemCompletes ==
  /\ agentThread.turn = "running" /\ agentThread.item = "partial"
  /\ agentThread' = [agentThread EXCEPT !.item = "final"]
  /\ Says(<<Plain("item.completed")>>)

\* request.opened, or runtime.warning: no snapshot of a codex thread has them.
OnlyLive ==
  /\ agentThread.turn = "running" /\ ~ Contains(runLog \o notices, Plain("request.opened"))
  /\ UNCHANGED agentThread
  /\ Says(<<Plain("request.opened")>>)

\* turn/completed, also of a turn that failed or was interrupted: turn.completed and run_end.
TurnEnds ==
  /\ agentThread.turn = "running"
  /\ agentThread' = [agentThread EXCEPT !.turn = "over"]
  /\ Says(<<Plain("turn.completed"), Plain("last")>>)

\* appendEnvelope(), with the run's end: run_end and the status are one step.
LogAppends ==
  /\ notices # <<>>
  /\ runLog' = Append(runLog, Head(notices))
  /\ notices' = Tail(notices)
  /\ UNCHANGED <<agentThread, fetch, view, position, fetches>>

RunIsActive == runLog # <<>> /\ Last(runLog).type # "last"

-----------------------------------------------------------------------------
(***************************************************************************)
(* The server's handler.                                                   *)
(***************************************************************************)
\* harness.getThread(): the agent may leave out what is not finished.
SnapshotIsRead ==
  /\ fetch.state = "asked"
  /\ \E leftOut \in SUBSET {m \in Messages : IsStreaming(m)} :
     \E item \in {agentThread.item} \cup (IF agentThread.item = "partial" THEN {"absent"} ELSE {}) :
       fetch' = [state |-> "read", snapshot |->
         [text |-> [m \in Messages |-> IF m \in leftOut THEN NoText ELSE agentThread.text[m]],
          item |-> item]]
  /\ UNCHANGED <<agentThread, notices, runLog, view, position, fetches>>

\* The text of a message in the first n envelopes, by its deltas.
DeltasUpTo(n, m) ==
  Cardinality({k \in 1 .. n : runLog[k].type = "content.delta" /\ runLog[k].message = m})

\* isEnvelopeRepresentedBySnapshot(), for the n-th when all before it are represented, as far
\* as the lengths of the texts tell.
MayBeRepresented(snapshot, n) ==
  LET e == runLog[n] IN
  CASE e.type = "start" -> TRUE
    [] e.type = "message.started" -> snapshot.text[e.message] # NoText
    [] e.type = "message.completed" ->
         snapshot.text[e.message] # NoText /\ snapshot.text[e.message] >= e.text
    [] e.type = "content.delta" -> snapshot.text[e.message] >= DeltasUpTo(n, e.message)
    [] e.type \in {"item.started", "item.completed"} -> snapshot.item # "absent"
    [] OTHER -> FALSE

\* The deltas of a message are the beginning of its text if it began without any.
IsRepresented(snapshot, n) ==
  /\ MayBeRepresented(snapshot, n)
  /\ runLog[n].type = "content.delta" =>
       Contains(runLog, Event("message.started", runLog[n].message, 0))

\* Mutant: the scan goes on after an envelope that is not represented.
LastPlaces(snapshot) ==
  {n \in 0 .. Len(runLog) :
     /\ n = 0 \/ MayBeRepresented(snapshot, n)
     /\ \A k \in (n + 1) .. Len(runLog) : ~ IsRepresented(snapshot, k)}

\* getReplayAfterEventId(): where the represented beginning of the log ends.
ReplayPlaces(snapshot) ==
  {n \in 0 .. Len(runLog) :
     /\ \A k \in 1 .. n : MayBeRepresented(snapshot, k)
     /\ n = Len(runLog) \/ ~ IsRepresented(snapshot, n + 1)}

\* getActiveRunForThread() and the answer; the client loads the thread
\* (loadThreadIntoData) and joins the run if there is one (resumeAgentRun).
ThreadIsLoaded ==
  /\ fetch.state = "read"
  /\ fetch' = [state |-> "none", snapshot |-> NothingShown]
  /\ view' = NewView(fetch.snapshot)
  /\ IF RunIsActive THEN position' \in ReplayPlaces(fetch.snapshot) ELSE position' = NotFollowing
  /\ UNCHANGED <<agentThread, notices, runLog, fetches>>

-----------------------------------------------------------------------------
(***************************************************************************)
(* The client.                                                             *)
(***************************************************************************)
\* The user opens the thread, or comes back to it while nothing is followed.
OpenThread ==
  /\ fetch.state = "none" /\ position = NotFollowing /\ fetches < MaxFetches
  /\ fetch' = [fetch EXCEPT !.state = "asked"]
  /\ fetches' = fetches + 1
  /\ UNCHANGED <<agentThread, notices, runLog, view, position>>

\* closeActiveAgentRun() and reset(): another thread is selected.
LeaveThread ==
  /\ fetch.state = "none" /\ position # NotFollowing
  /\ view' = NewView(NothingShown) /\ position' = NotFollowing
  /\ UNCHANGED <<agentThread, notices, runLog, fetch, fetches>>

\* appendContentDelta(), of all that waits (coalesceDeltaEvents): it goes to the message that
\* has the id or its alias, which is made if need be, unless it is a replay of what an alias
\* shows already.
Appended(v, isVisible) ==
  LET m == v.pending.of
      key == v.alias[m] IN
  [v EXCEPT !.text[key] = IF isVisible THEN @
                          ELSE IF @ = NoText THEN v.pending.deltas ELSE @ + v.pending.deltas,
            !.replayed[m] = IF key = m THEN @ ELSE @ + v.pending.deltas,
            !.pending = NothingPending]

MayBeVisible(v) ==
  LET m == v.pending.of IN
  v.alias[m] # m /\ v.replayed[m] + v.pending.deltas <= v.text[v.alias[m]]

\* flushBufferedRuntimeEvents(): the views it may lead to.
Flushed(v) ==
  IF v.pending.deltas = 0 THEN {v}
  ELSE {Appended(v, isVisible) : isVisible \in {FALSE, MayBeVisible(v)}}

FlushTimer ==
  /\ view.pending.deltas > 0
  /\ view' \in Flushed(view)
  /\ UNCHANGED <<agentThread, notices, runLog, fetch, position, fetches>>

\* mergeMessage(): a message without text does not replace one that has some.
MergeText(previous, next) == IF next = 0 /\ previous # NoText THEN previous ELSE next

\* findEquivalentMessageKey(), and the alias of a message that has one: the keys that the message
\* may come under.  An unknown message of a user comes under one of the same text.  An unknown
\* message of the assistant that has text comes under the last one whose text begins with its own
\* or the other way round, as an empty one does.
Keys(v, m, text) ==
  LET others == {k \in Messages \ {m} : /\ v.text[k] # NoText
                                        /\ (k \in agentThread.users) = (m \in agentThread.users)}
      empty == {k \in others : v.text[k] = 0} IN
  IF v.alias[m] # m \/ v.text[m] # NoText THEN {v.alias[m]}
  ELSE IF m \in agentThread.users THEN {m} \cup {k \in others : v.text[k] = text}
  ELSE IF text = 0 THEN {m}
  ELSE {k \in others : \A e \in empty : e <= k} \cup (IF empty = {} THEN {m} ELSE {})

\* Mutant: the alias of a message is not recorded.
UpsertedAnew(v, m, text, key) ==
  [v EXCEPT !.text[key] = MergeText(@, text), !.shows[key] = m]

\* upsertMessageEvent(), under one of those keys.
Upserted(v, m, text, key) ==
  [v EXCEPT !.text[key] = MergeText(@, text), !.alias[m] = key, !.shows[key] = m]

\* Mutant: an event that is no delta overtakes the deltas that are buffered.
AppliedBeforeFlush(v, e) ==
  CASE e.type = "content.delta" -> {[v EXCEPT !.pending = [of |-> e.message, deltas |-> @.deltas + 1]]}
    [] e.type \in {"message.started", "message.completed"} ->
         {Upserted(v, e.message, e.text, key) : key \in Keys(v, e.message, e.text)}
    [] e.type = "item.started" -> {[v EXCEPT !.item = "partial"]}
    [] e.type = "item.completed" -> {[v EXCEPT !.item = "final"]}
    [] OTHER -> {v}

\* dispatchAgentRuntimeEvent() and applyAgentRuntimeEvent(): the views they may lead to.  Only
\* deltas of one message wait together, since its end comes before another's first.
Applied(v, e) ==
  CASE e.type = "content.delta" -> {[v EXCEPT !.pending = [of |-> e.message, deltas |-> @.deltas + 1]]}
    [] e.type \in {"message.started", "message.completed"} ->
         UNION {{Upserted(w, e.message, e.text, key) : key \in Keys(w, e.message, e.text)} :
                  w \in Flushed(v)}
    [] e.type = "item.started" -> {[w EXCEPT !.item = "partial"] : w \in Flushed(v)}
    [] e.type = "item.completed" -> {[w EXCEPT !.item = "final"] : w \in Flushed(v)}
    [] OTHER -> Flushed(v)

\* The next envelope.  After the last one nothing is followed and the thread is asked for
\* again (onRunEnd, onError: invalidateThread).
EventArrives ==
  /\ position # NotFollowing /\ position < Len(runLog)
  /\ LET e == runLog[position + 1] IN
       /\ view' \in Applied(view, e)
       /\ position' = IF e.type = "last" THEN NotFollowing ELSE position + 1
       /\ fetch' = IF e.type = "last" THEN [fetch EXCEPT !.state = "asked"] ELSE fetch
  /\ UNCHANGED <<agentThread, notices, runLog, fetches>>

-----------------------------------------------------------------------------
ResumeNext ==
  \/ TurnStarts \/ ItemStarts \/ ItemCompletes \/ OnlyLive \/ TurnEnds
  \/ \E m \in Messages :
       MessageStarts(m) \/ MessageGrows(m) \/ MessageCompletes(m) \/ MessageAtOnce(m)
  \/ LogAppends \/ SnapshotIsRead \/ ThreadIsLoaded
  \/ OpenThread \/ LeaveThread \/ FlushTimer \/ EventArrives

ResumeTypeOK ==
  /\ agentThread.done \subseteq Messages /\ agentThread.users \subseteq Messages
  /\ agentThread.text \in [Messages -> NoText .. MaxText]
  /\ fetch.snapshot.text \in [Messages -> NoText .. MaxText]
  /\ \A m \in Messages : view.text[m] \in Int /\ view.text[m] >= NoText /\ view.replayed[m] \in Nat
  /\ view.alias \in [Messages -> Messages] /\ view.shows \in [Messages -> Messages]
  /\ view.pending.of \in 0 .. NumMessages /\ view.pending.deltas \in Nat
  /\ view.pending.deltas > 0 =>
       position > 0 /\ runLog[position] = Event("content.delta", view.pending.of, 1)
  /\ position \in NotFollowing .. Len(runLog)

\* A client that joined a run sees all that the log told up to its place.  A message that was
\* told of is there, under its own key or its alias; what is there is this message, unless a later
\* one was taken for the same and has replaced it.  While it is this message, it has at least as
\* much text as its deltas (some of them twice, when the replay had to start before them), and
\* exactly its text once it is completed.  The item that was told of is there; one that the
\* snapshot had unfinished stays so, since its id is all that is compared.
JoinedViewIsWhole ==
  LET Told(e) == \E n \in 1 .. position : runLog[n] = e IN
  position # NotFollowing =>
    /\ \A m \in Messages, text \in 0 .. MaxText :
         LET key == view.alias[m]
             started == Told(Event("message.started", m, text))
             completed == Told(Event("message.completed", m, text)) IN
         /\ started => view.text[key] # NoText
         /\ started /\ view.shows[key] # m => view.shows[key] > m /\ view.alias[view.shows[key]] = key
         /\ started /\ view.shows[key] = m /\ view.pending.deltas = 0 =>
              view.text[key] >= DeltasUpTo(position, m)
         /\ completed /\ view.shows[key] = m => view.text[key] = text /\ view.pending.of # m
    /\ Told(Plain("item.started")) => view.item # "absent"
    /\ Told(Plain("item.completed")) => view.item = "final" \/ view.beganPartial
=============================================================================
