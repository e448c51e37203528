----------------------------- MODULE CodexTurns -----------------------------
(***************************************************************************)
(* Turns of the codex harness and the one "codex app-server" process that  *)
(* all of them share: CodexStdioAppServerClient (packages/server/src/      *)
(* agent/harnesses/codex/app-server-client.ts) with its process, its table *)
(* of requests and its listeners, and sendMessage() and startTurn() of     *)
(* codex-agent-harness.ts, which are its users.                            *)
(*                                                                         *)
(* A call is one sendMessage() on a thread of its own: it asks for the     *)
(* thread, saves attachments, asks for a turn, follows the turn's          *)
(* notifications, and reads the thread again.  A request is identified by  *)
(* its call and its kind.  pendingNotifications and the queue are one      *)
(* sequence, since the first becomes the beginning of the second in one    *)
(* step.  Left out: requests of the app-server, which are answered at      *)
(* once; setup(), which nothing calls; a write to a process that has just  *)
(* ended, which can end the server (EPIPE); steering and cancelling, which *)
(* are requests like any other.                                            *)
(***************************************************************************)
EXTENDS Integers, SequencesExt, SeqFilter

CONSTANTS
  Turns,        \* calls of sendMessage(), each with one turn
  MaxProcesses, \* bound: processes
  MaxSaid,      \* bound: notifications of a turn before its last
  MaxLines,     \* bound: lines of a process that are not read yet
  MaxInvalid    \* bound: lines that are no messages

ASSUME CodexAssumption == {MaxProcesses, MaxSaid, MaxLines, MaxInvalid} \subseteq Nat

Processes == 1 .. MaxProcesses
NoProcess == 0

VARIABLES
  child,        \* this.child
  initialized,  \* this.initialized: "no", "pending" or "done"
  readline,     \* the process whose lines this.readline reads
  process,      \* each process: state, requests to be answered, lines not yet read
  muted,        \* processes whose readline was closed
  call,         \* each call: step, kind and process of its request, notifications not yet handled
  turn,         \* at the app-server: each turn's process, state, and what it said
  invalid,      \* how many lines were no messages
  forgotten     \* history: processes that another's exit event made the client forget

codexVars ==
  <<child, initialized, readline, process, muted, call, turn, invalid, forgotten>>

CodexInit ==
  /\ child = NoProcess /\ initialized = "no" /\ readline = NoProcess
  /\ process = [c \in Processes |-> [state |-> "none", todo |-> {}, lines |-> <<>>]]
  /\ muted = {} /\ invalid = 0 /\ forgotten = {}
  /\ call = [t \in Turns |->
               [step |-> "idle", kind |-> "none", at |-> NoProcess, unread |-> <<>>, handled |-> 0]]
  /\ turn = [t \in Turns |-> [at |-> NoProcess, state |-> "none", said |-> 0]]

Line(type, t, what) == [type |-> type, call |-> t, what |-> what]
Prints(p, c, line) == [p EXCEPT ![c].lines = Append(@, line)]

-----------------------------------------------------------------------------
(***************************************************************************)
(* The client.                                                             *)
(***************************************************************************)
\* A request fails.  That the thread cannot be read again is caught (handleTurnCompleted).
Rejected(cl) == [cl EXCEPT !.step = IF cl.kind = "read" THEN "over" ELSE "failed"]

Awaits(cl) == cl.step \in {"initializing", "asked"}
IsInitializing == \E t \in Turns : call[t].step = "initializing"

\* rejectPending(), and the awaits of ensureInitialized() that depend on it.
RejectPending == [t \in Turns |-> IF Awaits(call[t]) THEN Rejected(call[t]) ELSE call[t]]

Kill(p, c) == [p EXCEPT ![c].state = IF @ \in {"starting", "running"} THEN "ended" ELSE @]
LosesTurns(c) ==
  [t \in Turns |-> IF turn[t].at = c /\ turn[t].state = "running"
                   THEN [turn[t] EXCEPT !.state = "lost"] ELSE turn[t]]

\* Mutant: the process is forgotten and not killed.
CloseForgets(p) ==
  /\ child' = NoProcess /\ initialized' = "no" /\ readline' = NoProcess
  /\ muted' = muted \cup ({readline} \ {NoProcess})
  /\ process' = p
  /\ UNCHANGED turn

\* close(), after an initialization that failed.
CloseClient(p) ==
  /\ child' = NoProcess /\ initialized' = "no" /\ readline' = NoProcess
  /\ muted' = muted \cup ({readline} \ {NoProcess})
  /\ process' = IF child = NoProcess THEN p ELSE Kill(p, child)
  /\ turn' = LosesTurns(child)

Sent(p, c, t, kind) == [p EXCEPT ![c].todo = @ \cup {<<t, kind>>}]

\* request(): ensureInitialized() and sendRequest().
Requests(t, cl, kind) ==
  LET asking == [cl EXCEPT !.kind = kind] IN
  /\ \/ /\ initialized = "done"
        /\ \/ /\ call' = [call EXCEPT ![t] = [asking EXCEPT !.step = "asked", !.at = child]]
              /\ process' = Sent(process, child, t, kind)
           \/ /\ process[child].state = "ended"
              /\ call' = [call EXCEPT ![t] = Rejected(asking)]
              /\ UNCHANGED process
        /\ UNCHANGED <<child, initialized, readline>>
     \/ /\ initialized = "pending"
        /\ call' = [call EXCEPT ![t] = [asking EXCEPT !.step = "initializing", !.at = child]]
        /\ UNCHANGED <<child, initialized, readline, process>>
     \/ /\ initialized = "no"
        /\ \E c \in Processes :
             /\ process[c].state = "none" /\ \A d \in 1 .. (c - 1) : process[d].state # "none"
             /\ process' = [process EXCEPT ![c].state = "starting"]
             /\ call' = [call EXCEPT ![t] = [asking EXCEPT !.step = "initializing", !.at = c]]
             /\ child' = c /\ readline' = c /\ initialized' = "pending"
     \/ /\ initialized = "no"   \* the machine's token is not there yet
        /\ call' = [call EXCEPT ![t] = Rejected(asking)]
        /\ UNCHANGED <<child, initialized, readline, process>>
  /\ UNCHANGED <<muted, turn, invalid, forgotten>>

\* The process was not started; its exit event never comes.
SpawnFails(c) ==
  /\ process[c].state = "starting" /\ process[c].lines = <<>> /\ child = c
  /\ call' = RejectPending
  /\ CloseClient([process EXCEPT ![c].state = "gone"])
  /\ UNCHANGED <<invalid, forgotten>>

\* Mutant: requests that wait are not rejected.
ExitEventQuiet(c) ==
  /\ process[c].state = "ended"
  /\ process' = [process EXCEPT ![c].state = "gone", ![c].todo = {}]
  /\ child' = NoProcess /\ initialized' = "no"
  /\ forgotten' = IF child \in {NoProcess, c} THEN forgotten ELSE forgotten \cup {child}
  /\ UNCHANGED <<call, readline, muted, turn, invalid>>

\* The "exit" event, also of a process that is this.child no more.
ExitEvent(c) ==
  /\ process[c].state = "ended"
  /\ process' = [process EXCEPT ![c].state = "gone", ![c].todo = {}]
  /\ call' = RejectPending
  /\ child' = NoProcess /\ initialized' = "no"
  /\ IF IsInitializing THEN readline' = NoProcess /\ muted' = muted \cup ({readline} \ {NoProcess})
                       ELSE UNCHANGED <<readline, muted>>
  /\ forgotten' = IF child \in {NoProcess, c} THEN forgotten ELSE forgotten \cup {child}
  /\ UNCHANGED <<turn, invalid>>

-----------------------------------------------------------------------------
(***************************************************************************)
(* handleLine().                                                           *)
(***************************************************************************)
HasLine(c) == process[c].lines # <<>> /\ c \notin muted
Read(c) == [process EXCEPT ![c].lines = Tail(@)]

\* Mutant: the listener is registered when the turn's id is known.
ListensLate(cl) == cl.step = "following" \/ (cl.kind = "read" /\ Awaits(cl))

\* client.subscribe() comes before the request of the turn; unsubscribe() is in the finally.
Listens(cl) == cl.step = "following" \/ (cl.kind \in {"turn", "read"} /\ Awaits(cl))

\* The tables of what is asked: pendingRequests has the request that a line answers.
IsPending(c, line) ==
  LET cl == call[line.call] IN cl.step = "asked" /\ cl.at = c /\ cl.kind = line.what
AwaitsInitialize(c) == child = c /\ initialized = "pending"

\* The answer to initialize: all who waited for it send what they have to ask.
Initialized(c) ==
  /\ HasLine(c) /\ Head(process[c].lines).type = "ready"
  /\ IF AwaitsInitialize(c)
     THEN /\ initialized' = "done"
          /\ call' = [t \in Turns |-> IF call[t].step = "initializing"
                                      THEN [call[t] EXCEPT !.step = "asked"] ELSE call[t]]
          /\ process' = [Read(c) EXCEPT ![c].todo = @ \cup
               {<<t, call[t].kind>> : t \in {u \in Turns : call[u].step = "initializing"}}]
     ELSE process' = Read(c) /\ UNCHANGED <<initialized, call>>
  /\ UNCHANGED <<child, readline, muted, turn, invalid, forgotten>>

InitializeRefused(c) ==
  /\ HasLine(c) /\ Head(process[c].lines).type = "refused" /\ AwaitsInitialize(c)
  /\ call' = RejectPending /\ CloseClient(Read(c))
  /\ UNCHANGED <<invalid, forgotten>>

\* A result, or the error of a request that is pending; the result of a request that was
\* rejected is passed over.
AnswerArrives(c) ==
  /\ HasLine(c)
  /\ LET line == Head(process[c].lines)
         cl == call[line.call] IN
       /\ line.type = "result" \/ (line.type = "error" /\ IsPending(c, line))
       /\ call' = IF IsPending(c, line)
                  THEN [call EXCEPT ![line.call] =
                          IF line.type = "error" THEN Rejected(cl)
                          ELSE [cl EXCEPT !.step = CASE cl.kind = "thread" -> "saving"
                                                     [] cl.kind = "turn" -> "following"
                                                     [] cl.kind = "read" -> "over"]]
                  ELSE call
  /\ process' = Read(c)
  /\ UNCHANGED <<child, initialized, readline, muted, turn, invalid, forgotten>>

\* notificationBelongsToThread() and -Turn(): an error belongs to every turn.
NotificationArrives(c) ==
  /\ HasLine(c)
  /\ LET line == Head(process[c].lines) IN
       /\ line.type = "notification"
       /\ call' = [t \in Turns |->
            IF Listens(call[t]) /\ (line.what = "error" \/ line.call = t)
            THEN [call[t] EXCEPT !.unread = Append(@, line)] ELSE call[t]]
  /\ process' = Read(c)
  /\ UNCHANGED <<child, initialized, readline, muted, turn, invalid, forgotten>>

\* Invalid JSON, an error without id, or the error of a request that is not pending any more:
\* whoever waits is rejected, and an initialization that fails closes the client.
InvalidArrives(c) ==
  /\ HasLine(c)
  /\ LET line == Head(process[c].lines) IN
       \/ line.type = "invalid"
       \/ line.type = "error" /\ ~ IsPending(c, line)
       \/ line.type = "refused" /\ ~ AwaitsInitialize(c)
  /\ call' = RejectPending
  /\ IF IsInitializing THEN CloseClient(Read(c))
     ELSE process' = Read(c) /\ UNCHANGED <<child, initialized, readline, muted, turn>>
  /\ UNCHANGED <<invalid, forgotten>>

-----------------------------------------------------------------------------
(***************************************************************************)
(* The harness.                                                            *)
(***************************************************************************)
\* startThread() or resumeThread().
SendMessage(t) == call[t].step = "idle" /\ Requests(t, call[t], "thread")

\* The attachments are saved; startTurn().
StartTurn(t) == call[t].step = "saving" /\ Requests(t, call[t], "turn")

\* The loop of startTurn(), with CodexLiveTurnMapper.handle().
Handles(t) ==
  /\ call[t].step = "following" /\ call[t].unread # <<>>
  /\ LET line == Head(call[t].unread)
         rest == [call[t] EXCEPT !.unread = Tail(@), !.handled = @ + 1] IN
       \/ line.what = "completed" /\ Requests(t, rest, "read")
       \/ /\ line.what # "completed"
          /\ call' = [call EXCEPT ![t] =
               IF line.what = "error" THEN [rest EXCEPT !.step = "over"] ELSE rest]
          /\ UNCHANGED <<child, initialized, readline, process, muted, turn, invalid, forgotten>>

-----------------------------------------------------------------------------
(***************************************************************************)
(* The app-server, and its end.                                            *)
(***************************************************************************)
HasRoom(c) == Len(process[c].lines) < MaxLines
ClientRests == UNCHANGED <<child, initialized, readline, muted, call, forgotten>>

AnswersInitialize(c) ==
  /\ process[c].state = "starting" /\ HasRoom(c)
  /\ \E type \in {"ready", "refused"} :
       process' = [Prints(process, c, Line(type, 0, "")) EXCEPT ![c].state = "running"]
  /\ ClientRests /\ UNCHANGED <<turn, invalid>>

TurnBegins(c, t) ==
  /\ process[c].state = "running" /\ <<t, "turn">> \in process[c].todo
  /\ turn[t].state = "none"
  /\ turn' = [turn EXCEPT ![t] = [at |-> c, state |-> "running", said |-> 0]]
  /\ ClientRests /\ UNCHANGED <<process, invalid>>

Answers(c, t) ==
  /\ process[c].state = "running" /\ HasRoom(c)
  /\ \E kind \in {"thread", "turn", "read"}, type \in {"result", "error"} :
       /\ <<t, kind>> \in process[c].todo
       /\ kind = "turn" => (type = "result") = (turn[t].state # "none")
       /\ process' = [Prints(process, c, Line(type, t, kind))
                        EXCEPT ![c].todo = @ \ {<<t, kind>>}]
  /\ ClientRests /\ UNCHANGED <<turn, invalid>>

\* A notification: one of many, turn/completed, or an error that is not tried again.
TurnSays(t) ==
  /\ turn[t].state = "running" /\ HasRoom(turn[t].at)
  /\ \E what \in {"item", "completed", "error"} :
       /\ what = "item" => turn[t].said < MaxSaid
       /\ process' = Prints(process, turn[t].at, Line("notification", t, what))
       /\ turn' = [turn EXCEPT ![t].said = @ + 1,
                               ![t].state = IF what = "item" THEN "running" ELSE "over"]
  /\ ClientRests /\ UNCHANGED invalid

PrintsInvalid(c) ==
  /\ process[c].state \in {"starting", "running"} /\ HasRoom(c) /\ invalid < MaxInvalid
  /\ process' = Prints(process, c, Line("invalid", 0, ""))
  /\ invalid' = invalid + 1
  /\ ClientRests /\ UNCHANGED turn

ProcessEnds(c) ==
  /\ process[c].state \in {"starting", "running"}
  /\ process' = Kill(process, c) /\ turn' = LosesTurns(c)
  /\ ClientRests /\ UNCHANGED invalid

-----------------------------------------------------------------------------
CodexNext ==
  \/ \E t \in Turns : SendMessage(t) \/ StartTurn(t) \/ Handles(t) \/ TurnSays(t)
  \/ \E c \in Processes :
       \/ SpawnFails(c) \/ ExitEvent(c) \/ Initialized(c) \/ InitializeRefused(c)
       \/ AnswerArrives(c) \/ NotificationArrives(c) \/ InvalidArrives(c)
       \/ AnswersInitialize(c) \/ PrintsInvalid(c) \/ ProcessEnds(c)
       \/ \E t \in Turns : TurnBegins(c, t) \/ Answers(c, t)

CodexTypeOK ==
  /\ {child, readline} \subseteq Processes \cup {NoProcess}
  /\ initialized \in {"no", "pending", "done"}
  /\ muted \subseteq Processes /\ forgotten \subseteq Processes
  /\ \A c \in Processes :
       process[c].state \in {"none", "starting", "running", "ended", "gone"}
  /\ \A t \in Turns :
       /\ call[t].step \in {"idle", "initializing", "asked", "saving", "following", "over", "failed"}
       /\ call[t].kind \in {"none", "thread", "turn", "read"}
       /\ turn[t].state \in {"none", "running", "over", "lost"}

\* A request that waits is at the client's process, which has its answer still to give or has
\* given it, or at one whose exit event is to come: it never waits for nothing.
AnswersCanCome ==
  \A t \in Turns : Awaits(call[t]) =>
    LET c == call[t].at IN
    \/ process[c].state = "ended"
    \/ /\ c = child /\ c \notin muted
       /\ \/ call[t].step = "initializing"
          \/ <<t, call[t].kind>> \in process[c].todo
          \/ \E i \in DOMAIN process[c].lines :
               LET line == process[c].lines[i] IN
               line.type \in {"result", "error"} /\ line.call = t /\ line.what = call[t].kind

\* The notifications of a turn.
Own(t) == {Line("notification", t, what) : what \in {"item", "completed", "error"}}

\* What a turn says reaches its call once and in order, also what it said before the answer
\* with its id: what the call has not handled is in its queue or on the way, the end of a
\* turn that is over with it.  A turn that was lost with its process is followed for ever,
\* since nothing tells its queue.
TurnIsFollowed ==
  \A t \in Turns : call[t].step = "following" =>
    LET own == Filter(call[t].unread, Own(t)) \o Filter(process[turn[t].at].lines, Own(t))
    IN /\ turn[t].at \notin muted
       /\ call[t].handled + Len(own) = turn[t].said
       /\ \/ turn[t].state \in {"running", "lost"}
          \/ own # <<>> /\ Last(own).what \in {"completed", "error"}

\* A process that runs is the client's, unless the late exit event of an earlier one made the
\* client forget it.
OneProcess ==
  \A c \in Processes :
    process[c].state \in {"starting", "running"} => c = child \/ c \in forgotten

\* The three together.
TurnsAreHeard == AnswersCanCome /\ TurnIsFollowed /\ OneProcess
=============================================================================
