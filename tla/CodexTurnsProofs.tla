-------------------------- MODULE CodexTurnsProofs --------------------------
(***************************************************************************)
(* The safety properties of the turns of the codex harness, for any number *)
(* of calls, processes and lines.  The invariant says where each request,  *)
(* answer and notification is on its way between a call and the            *)
(* app-server: what a turn has said is counted where its call has handled  *)
(* it, in the call's queue and on the way from the process.  A step is     *)
(* first read as what it changes, field by field (its effect); the parts   *)
(* of the invariant are kept by every effect.                              *)
(***************************************************************************)
EXTENDS CodexTurns, SequenceProofs

\* What a process has printed and the client has not read.
OnTheWay(c) == Elements(process[c].lines)

\* What a call has queued.
Queue(t) == Elements(call[t].unread)

\* The records.
Lines == [type : {"ready", "refused", "result", "error", "notification", "invalid"},
          call : Turns \cup {0},
          what : {"", "thread", "turn", "read", "item", "completed", "error"}]
LineSeqs == Seq(Lines)
Asks == Turns \X {"thread", "turn", "read"}
ProcessRecords ==
  [state : {"none", "starting", "running", "ended", "gone"}, todo : SUBSET Asks, lines : LineSeqs]
CallRecords ==
  [step : {"idle", "initializing", "asked", "saving", "following", "over", "failed"},
   kind : {"none", "thread", "turn", "read"}, at : Processes \cup {NoProcess},
   unread : LineSeqs, handled : Nat]
TurnRecords ==
  [at : Processes \cup {NoProcess}, state : {"none", "running", "over", "lost"}, said : Nat]

CodexTyped ==
  /\ child \in Processes \cup {NoProcess} /\ readline \in Processes \cup {NoProcess}
  /\ initialized \in {"no", "pending", "done"}
  /\ muted \in SUBSET Processes /\ forgotten \in SUBSET Processes /\ invalid \in Nat
  /\ process \in [Processes -> ProcessRecords]
  /\ call \in [Turns -> CallRecords]
  /\ turn \in [Turns -> TurnRecords]

\* The client's process has been started, its exit event is still to come, and its lines are
\* read.
ChildLives ==
  /\ initialized = "no" <=> child = NoProcess
  /\ child # NoProcess =>
       /\ process[child].state \in {"starting", "running", "ended"}
       /\ readline = child /\ child \notin muted

\* A process that was not spawned has nothing to answer and has printed nothing; until the
\* initialization is over nothing else is asked.
NewProcessRests ==
  /\ \A c \in Processes : process[c].state = "none" =>
       process[c].todo = {} /\ process[c].lines = <<>> /\ c \notin muted /\ c # readline
  /\ child # NoProcess /\ initialized # "done" => process[child].todo = {}

\* A call waits for the client's process: for its initialization, or for an answer.
WaitsAtChild == \A t \in Turns :
  /\ Awaits(call[t]) => call[t].at = child /\ child # NoProcess
  /\ call[t].step = "initializing" => initialized = "pending"
  /\ call[t].step = "asked" => initialized = "done"

\* A call asks for its thread, then for its turn, then for the thread again.
KindsInOrder == \A t \in Turns :
  /\ call[t].step \in {"idle", "saving"} => call[t].kind \in {"none", "thread"}
  /\ call[t].step = "following" => call[t].kind = "turn" /\ turn[t].state # "none"
  /\ Awaits(call[t]) => call[t].kind # "none"
  /\ call[t].kind \in {"none", "thread"} => turn[t].state = "none" /\ call[t].unread = <<>>

\* A turn that is asked for is the one that its call waits for, or has given up.
TurnsAreAsked == \A c \in Processes : \A t \in Turns :
  <<t, "turn">> \in process[c].todo =>
    call[t].kind \in {"turn", "read"} /\ (call[t].kind = "turn" => call[t].at = c)

\* The answer to the request for a turn is printed after the turn has begun.
ResultsOfTurns == \A c \in Processes : \A line \in OnTheWay(c) :
  /\ line.type \in {"result", "error"} =>
       line.call \in Turns /\ line.what \in {"thread", "turn", "read"}
  /\ line.type = "result" /\ line.what = "turn" => turn[line.call].state # "none"

\* A turn has begun at the process that its call asked, which was initialized.
TurnsBegin == \A t \in Turns :
  /\ turn[t].state # "none" =>
       /\ turn[t].at \in Processes
       /\ call[t].kind = "turn" => turn[t].at = call[t].at
       /\ process[turn[t].at].state \notin {"none", "starting"}
       /\ turn[t].at # child \/ initialized = "done"
  /\ turn[t].state = "none" => turn[t].said = 0 /\ call[t].handled = 0

\* Notifications are printed by the process of their turn, after it has begun.
LinesOfTurns == \A c \in Processes : \A line \in OnTheWay(c) :
  line.type = "notification" =>
    /\ line.call \in Turns /\ line.what \in {"item", "completed", "error"}
    /\ turn[line.call].state # "none" /\ turn[line.call].at = c

\* A call queues notifications of its own turn, and errors of all.
UnreadOfTurns == \A t \in Turns : \A line \in Queue(t) :
  /\ line.type = "notification" /\ line.what \in {"item", "completed", "error"}
  /\ line.call = t => turn[t].state # "none"
  /\ line.call = t \/ line.what = "error"

\* A call that follows its turn, or waits for it to begin, queues what the turn says.
Hears(t) == call[t].step = "following" \/ (call[t].kind = "turn" /\ Awaits(call[t]))

\* Notifications of the call's own turn: in its queue, and on the way to it.
OwnUnread(t) == Filter(call[t].unread, Own(t))
OwnLines(t) == Filter(process[turn[t].at].lines, Own(t))

\* The last notification of a turn.
Ends(line) == line.what \in {"completed", "error"}

\* What the turn said was handled, is in the queue or is on the way; what the turn said last
\* is the last of them.
IsFollowed(t) == Hears(t) /\ turn[t].state # "none" =>
  /\ turn[t].at \notin muted
  /\ call[t].handled + Len(OwnUnread(t)) + Len(OwnLines(t)) = turn[t].said
  /\ \/ turn[t].state \in {"running", "lost"}
     \/ OwnLines(t) # <<>> /\ Ends(Last(OwnLines(t)))
     \/ OwnLines(t) = <<>> /\ OwnUnread(t) # <<>> /\ Ends(Last(OwnUnread(t)))
TurnsAreFollowed == \A t \in Turns : IsFollowed(t)

\* A call that waits will hear: its process has ended, or it waits for the initialization,
\* or its request is to be answered, or the answer is printed.
AnswersAreComing == \A t \in Turns : Awaits(call[t]) =>
  \/ process[child].state = "ended"
  \/ call[t].step = "initializing"
  \/ <<t, call[t].kind>> \in process[child].todo
  \/ \E line \in OnTheWay(child) :
       line.type \in {"result", "error"} /\ line.call = t /\ line.what = call[t].kind

\* A process that runs is the client's, or the client was made to forget it.
OthersForgotten == \A c \in Processes :
  process[c].state \in {"starting", "running"} => c = child \/ c \in forgotten

\* The invariant.
CodexInv ==
  /\ CodexTyped /\ ChildLives /\ NewProcessRests /\ WaitsAtChild /\ KindsInOrder
  /\ TurnsAreAsked /\ ResultsOfTurns /\ TurnsBegin /\ LinesOfTurns /\ UnreadOfTurns
  /\ TurnsAreFollowed /\ AnswersAreComing /\ OthersForgotten

-----------------------------------------------------------------------------
(***************************************************************************)
(* What the steps do.                                                      *)
(***************************************************************************)
\* What a call may ask for next, and its record when it does.
MayAsk(t, cl, kind) ==
  \/ call[t].step = "idle" /\ cl = call[t] /\ kind = "thread"
  \/ call[t].step = "saving" /\ cl = call[t] /\ kind = "turn"
  \/ /\ call[t].step = "following" /\ call[t].unread # <<>> /\ kind = "read"
     /\ cl = [call[t] EXCEPT !.unread = Tail(@), !.handled = @ + 1]

\* The outcomes of request(): it is sent, it cannot be written, it waits for an initialization
\* that is under way, it begins one.
RequestSent(t, cl, kind) ==
  /\ MayAsk(t, cl, kind) /\ initialized = "done"
  /\ call' = [call EXCEPT ![t] = [cl EXCEPT !.kind = kind, !.step = "asked", !.at = child]]
  /\ process' = Sent(process, child, t, kind)
  /\ UNCHANGED <<child, initialized, readline, muted, turn, invalid, forgotten>>
RequestRefused(t, cl, kind) ==
  /\ MayAsk(t, cl, kind)
  /\ call' = [call EXCEPT ![t] = Rejected([cl EXCEPT !.kind = kind])]
  /\ UNCHANGED <<child, initialized, readline, process, muted, turn, invalid, forgotten>>
RequestWaits(t, cl, kind) ==
  /\ MayAsk(t, cl, kind) /\ initialized = "pending"
  /\ call' = [call EXCEPT ![t] = [cl EXCEPT !.kind = kind, !.step = "initializing", !.at = child]]
  /\ UNCHANGED <<child, initialized, readline, process, muted, turn, invalid, forgotten>>
ProcessStarts(t, cl, kind) ==
  /\ MayAsk(t, cl, kind) /\ initialized = "no"
  /\ \E c \in Processes :
       /\ process[c].state = "none"
       /\ process' = [process EXCEPT ![c].state = "starting"]
       /\ call' = [call EXCEPT ![t] = [cl EXCEPT !.kind = kind, !.step = "initializing", !.at = c]]
       /\ child' = c /\ readline' = c
  /\ initialized' = "pending"
  /\ UNCHANGED <<muted, turn, invalid, forgotten>>

\* A notification that does not complete the turn.
HandlesOther(t) ==
  /\ call[t].step = "following" /\ call[t].unread # <<>>
  /\ Head(call[t].unread).what # "completed"
  /\ call' = [call EXCEPT ![t] =
       [call[t] EXCEPT !.unread = Tail(call[t].unread), !.handled = call[t].handled + 1,
                       !.step = IF Head(call[t].unread).what = "error" THEN "over" ELSE "following"]]
  /\ UNCHANGED <<child, initialized, readline, process, muted, turn, invalid, forgotten>>

-----------------------------------------------------------------------------
(***************************************************************************)
(* The fields of the records, and the sequences they hold.                 *)
(***************************************************************************)
\* No process has the number 0.
LEMMA CodexNumbers ==
  /\ NoProcess = 0 /\ NoProcess \notin Processes
BY DEF NoProcess, Processes

\* What a step changes, field by field.
SameStates == \A d \in Processes : process'[d].state = process[d].state
SameTodo == \A d \in Processes : process'[d].todo = process[d].todo
SameLines == \A d \in Processes : process'[d].lines = process[d].lines
SameProcesses == SameStates /\ SameTodo /\ SameLines
SameClient == UNCHANGED <<child, initialized, readline, muted, forgotten>>
StateSet(c, state) ==
  /\ process'[c].state = state
  /\ \A d \in Processes \ {c} : process'[d].state = process[d].state
LineRead(c) ==
  /\ process[c].lines # <<>> /\ process'[c].lines = Tail(process[c].lines)
  /\ \A d \in Processes \ {c} : process'[d].lines = process[d].lines
LinePrinted(c, line) ==
  /\ process'[c].lines = Append(process[c].lines, line) /\ line \in Lines
  /\ \A d \in Processes \ {c} : process'[d].lines = process[d].lines
SameBut(t) == \A u \in Turns \ {t} : call'[u] = call[u]
CallSet(t, step, kind, at) ==
  /\ call'[t].step = step /\ call'[t].kind = kind /\ call'[t].at = at
  /\ SameBut(t)
SameUnread(t) == call'[t].unread = call[t].unread /\ call'[t].handled = call[t].handled
WaitersRejected == \A t \in Turns :
  /\ call'[t].kind = call[t].kind /\ call'[t].at = call[t].at /\ SameUnread(t)
  /\ Awaits(call[t]) => call'[t].step \in {"over", "failed"}
  /\ ~ Awaits(call[t]) => call'[t].step = call[t].step
TurnsLost(c) == \A t \in Turns :
  /\ turn'[t].at = turn[t].at /\ turn'[t].said = turn[t].said
  /\ IF turn[t].at = c /\ turn[t].state = "running" THEN turn'[t].state = "lost"
                                                    ELSE turn'[t].state = turn[t].state
ClientClosed ==
  /\ child' = NoProcess /\ initialized' = "no" /\ readline' = NoProcess
  /\ muted' = muted \cup ({readline} \ {NoProcess}) /\ UNCHANGED <<forgotten, invalid>>

\* Only the child may end, and it does.
ChildEnds ==
  /\ child # NoProcess /\ process[child].state \in {"starting", "running"} =>
       process'[child].state = "ended"
  /\ child # NoProcess /\ process[child].state \notin {"starting", "running"} =>
       process'[child].state = process[child].state
  /\ \A d \in Processes \ {child} : process'[d].state = process[d].state

\* The line answers the call's request.
IsAnswered(t, c, line) ==
  line.call = t /\ call[t].step = "asked" /\ call[t].at = c /\ call[t].kind = line.what

\* The call that asks, and its queue.
AsksFrom(t, kind) ==
  /\ call[t].step \in {"idle", "saving", "following"}
  /\ kind = "thread" => call[t].step = "idle" /\ SameUnread(t)
  /\ kind = "turn" => call[t].step = "saving" /\ SameUnread(t)
  /\ kind = "read" => /\ call[t].step = "following" /\ call[t].unread # <<>>
                      /\ call'[t].unread = Tail(call[t].unread)
                      /\ call'[t].handled = call[t].handled + 1
  /\ kind \in {"thread", "turn", "read"}

\* What each step changes, field by field.
SpawnFailsEffect(c) ==
  /\ c = child /\ process[c].state = "starting" /\ StateSet(c, "gone") /\ SameTodo /\ SameLines
  /\ WaitersRejected /\ TurnsLost(c) /\ ClientClosed

ExitEventEffect(c) ==
  /\ process[c].state = "ended" /\ StateSet(c, "gone") /\ SameLines
  /\ process'[c].todo = {} /\ \A d \in Processes \ {c} : process'[d].todo = process[d].todo
  /\ WaitersRejected /\ child' = NoProcess /\ initialized' = "no" /\ UNCHANGED <<turn, invalid>>
  /\ \/ UNCHANGED <<readline, muted>>
     \/ /\ \E t \in Turns : call[t].step = "initializing"
        /\ readline' = NoProcess /\ muted' = muted \cup ({readline} \ {NoProcess})
  /\ \/ child \in {NoProcess, c} /\ forgotten' = forgotten
     \/ child \notin {NoProcess, c} /\ forgotten' = forgotten \cup {child}

InitializedEffect(c) ==
  /\ LineRead(c) /\ SameStates /\ Head(process[c].lines).type = "ready"
  /\ UNCHANGED <<child, readline, muted, turn, invalid, forgotten>>
  /\ \A t \in Turns : /\ call'[t].kind = call[t].kind /\ call'[t].at = call[t].at /\ SameUnread(t)
                      /\ call[t].step # "initializing" => call'[t].step = call[t].step
  /\ \A d \in Processes \ {c} : process'[d].todo = process[d].todo
  /\ \/ initialized' = initialized /\ call' = call /\ process'[c].todo = process[c].todo
     \/ /\ child = c /\ initialized' = "done"
        /\ \A t \in Turns : call[t].step = "initializing" => call'[t].step = "asked"
        /\ process'[c].todo = process[c].todo \cup
             {<<t, call[t].kind>> : t \in {u \in Turns : call[u].step = "initializing"}}

InitializeRefusedEffect(c) ==
  /\ LineRead(c) /\ SameTodo /\ Head(process[c].lines).type = "refused"
  /\ child = c /\ initialized = "pending" /\ ChildEnds /\ WaitersRejected /\ TurnsLost(child)
  /\ ClientClosed

AnswerArrivesEffect(c) ==
  /\ LineRead(c) /\ SameTodo /\ SameStates /\ SameClient /\ UNCHANGED <<turn, invalid>>
  /\ Head(process[c].lines).type \in {"result", "error"}
  /\ \A t \in Turns :
       /\ call'[t].kind = call[t].kind /\ call'[t].at = call[t].at /\ SameUnread(t)
       /\ IsAnswered(t, c, Head(process[c].lines)) =>
            \/ call'[t].step \in {"over", "failed"}
            \/ call'[t].step = "saving" /\ call[t].kind = "thread"
            \/ /\ call'[t].step = "following" /\ call[t].kind = "turn"
               /\ Head(process[c].lines).type = "result"
       /\ ~ IsAnswered(t, c, Head(process[c].lines)) => call'[t].step = call[t].step

NotificationArrivesEffect(c) ==
  /\ LineRead(c) /\ SameTodo /\ SameStates /\ SameClient /\ UNCHANGED <<turn, invalid>>
  /\ Head(process[c].lines).type = "notification"
  /\ \A t \in Turns :
       /\ call'[t].step = call[t].step /\ call'[t].kind = call[t].kind /\ call'[t].at = call[t].at
       /\ call'[t].handled = call[t].handled
       /\ IF /\ Listens(call[t])
             /\ Head(process[c].lines).what = "error" \/ Head(process[c].lines).call = t
          THEN call'[t].unread = Append(call[t].unread, Head(process[c].lines))
          ELSE call'[t].unread = call[t].unread

InvalidArrivesEffect(c) ==
  /\ LineRead(c) /\ SameTodo /\ WaitersRejected
  /\ Head(process[c].lines).type \in {"invalid", "error", "refused"}
  /\ \/ SameStates /\ SameClient /\ UNCHANGED <<turn, invalid>>
     \/ /\ \E t \in Turns : call[t].step = "initializing"
        /\ ChildEnds /\ TurnsLost(child) /\ ClientClosed

HandlesOtherEffect(t) ==
  /\ SameProcesses /\ SameClient /\ UNCHANGED <<process, turn, invalid>> /\ SameBut(t)
  /\ call[t].step = "following" /\ call[t].unread # <<>> /\ Head(call[t].unread).what # "completed"
  /\ call'[t].kind = call[t].kind /\ call'[t].at = call[t].at
  /\ call'[t].unread = Tail(call[t].unread) /\ call'[t].handled = call[t].handled + 1
  /\ call'[t].step = IF Head(call[t].unread).what = "error" THEN "over" ELSE "following"

AnswersInitializeEffect(c) ==
  /\ process[c].state = "starting" /\ StateSet(c, "running") /\ SameTodo /\ SameClient
  /\ UNCHANGED <<turn, invalid, call>>
  /\ \E line \in Lines : LinePrinted(c, line) /\ line.type \in {"ready", "refused"}

TurnBeginsEffect(c, t) ==
  /\ UNCHANGED <<process, call, invalid>> /\ SameProcesses /\ SameClient
  /\ process[c].state = "running" /\ <<t, "turn">> \in process[c].todo /\ turn[t].state = "none"
  /\ turn'[t].at = c /\ turn'[t].state = "running" /\ turn'[t].said = 0
  /\ \A u \in Turns \ {t} : turn'[u] = turn[u]

AnswersEffect(c, t) ==
  /\ SameClient /\ UNCHANGED <<turn, invalid, call>> /\ process[c].state = "running" /\ SameStates
  /\ \E line \in Lines :
       /\ LinePrinted(c, line) /\ line.type \in {"result", "error"} /\ line.call = t
       /\ line.what \in {"thread", "turn", "read"}
       /\ line.type = "result" /\ line.what = "turn" => turn[t].state # "none"
       /\ process'[c].todo = process[c].todo \ {<<t, line.what>>}
       /\ \A d \in Processes \ {c} : process'[d].todo = process[d].todo

TurnSaysEffect(t) ==
  /\ SameClient /\ UNCHANGED <<invalid, call>> /\ SameStates /\ SameTodo
  /\ turn[t].state = "running" /\ turn'[t].at = turn[t].at /\ turn'[t].said = turn[t].said + 1
  /\ \A u \in Turns \ {t} : turn'[u] = turn[u]
  /\ \E line \in Lines :
       /\ LinePrinted(turn[t].at, line) /\ line.type = "notification" /\ line.call = t
       /\ line.what \in {"item", "completed", "error"} /\ line \in Own(t)
       /\ turn'[t].state = IF line.what = "item" THEN "running" ELSE "over"

PrintsInvalidEffect(c) ==
  /\ SameClient /\ UNCHANGED <<turn, call>> /\ SameStates /\ SameTodo
  /\ process[c].state \in {"starting", "running"}
  /\ \E line \in Lines : LinePrinted(c, line) /\ line.type = "invalid"

ProcessEndsEffect(c) ==
  /\ SameClient /\ UNCHANGED <<call, invalid>> /\ SameLines /\ SameTodo /\ StateSet(c, "ended")
  /\ process[c].state \in {"starting", "running"} /\ TurnsLost(c)

RequestSentEffect(t, kind) ==
  /\ SameClient /\ UNCHANGED <<turn, invalid>> /\ SameLines /\ SameStates /\ initialized = "done"
  /\ CallSet(t, "asked", kind, child) /\ AsksFrom(t, kind)
  /\ child # NoProcess => process'[child].todo = process[child].todo \cup {<<t, kind>>}
  /\ \A d \in Processes \ {child} : process'[d].todo = process[d].todo

RequestRefusedEffect(t, kind) ==
  /\ SameClient /\ UNCHANGED <<process, turn, invalid>> /\ SameProcesses
  /\ call'[t].step \in {"over", "failed"} /\ call'[t].kind = kind /\ call'[t].at = call[t].at
  /\ SameBut(t) /\ AsksFrom(t, kind)

RequestWaitsEffect(t, kind) ==
  /\ SameClient /\ UNCHANGED <<process, turn, invalid>> /\ SameProcesses /\ initialized = "pending"
  /\ CallSet(t, "initializing", kind, child) /\ AsksFrom(t, kind)

ProcessStartsEffect(t, kind) ==
  /\ initialized = "no" /\ UNCHANGED <<muted, turn, invalid, forgotten>> /\ SameTodo /\ SameLines
  /\ child' \in Processes /\ readline' = child' /\ initialized' = "pending"
  /\ process[child'].state = "none" /\ StateSet(child', "starting")
  /\ CallSet(t, "initializing", kind, child') /\ AsksFrom(t, kind)

\* A step of the three has one of these effects.
Effects ==
  \/ UNCHANGED codexVars
  \/ \E c \in Processes :
       \/ SpawnFailsEffect(c)
       \/ ExitEventEffect(c)
       \/ InitializedEffect(c)
       \/ InitializeRefusedEffect(c)
       \/ AnswerArrivesEffect(c)
       \/ NotificationArrivesEffect(c)
       \/ InvalidArrivesEffect(c)
       \/ AnswersInitializeEffect(c)
       \/ PrintsInvalidEffect(c)
       \/ ProcessEndsEffect(c)
  \/ \E t \in Turns :
       \/ HandlesOtherEffect(t)
       \/ TurnSaysEffect(t)
  \/ \E c \in Processes, t \in Turns :
       \/ TurnBeginsEffect(c, t)
       \/ AnswersEffect(c, t)
  \/ \E t \in Turns, kind \in {"thread", "turn", "read"} :
       \/ RequestSentEffect(t, kind)
       \/ RequestRefusedEffect(t, kind)
       \/ RequestWaitsEffect(t, kind)
       \/ ProcessStartsEffect(t, kind)

\* A process by its fields.
LEMMA ProcessFields ==
  ASSUME CodexTyped, NEW c \in Processes
  PROVE  /\ process[c].lines \in LineSeqs /\ process[c].todo \in SUBSET Asks
         /\ process[c].state \in {"none", "starting", "running", "ended", "gone"}
         /\ process[c].lines # <<>> => Head(process[c].lines) \in Lines
<1>1. process[c] \in ProcessRecords
  BY DEF CodexTyped
<1>2. PICK s \in LineSeqs : s = process[c].lines
  BY <1>1 DEF ProcessRecords
<1>3. s # <<>> => Head(s) \in Lines
  BY <1>2, HeadTailProperties DEF LineSeqs
<1>. QED BY <1>1, <1>2, <1>3 DEF ProcessRecords

\* Changes of the processes, field by field.
LEMMA ChangedLines ==
  ASSUME CodexTyped, NEW c \in Processes, NEW x, process' = [process EXCEPT ![c].lines = x]
  PROVE  /\ SameStates /\ SameTodo /\ process'[c].lines = x
         /\ \A d \in Processes \ {c} : process'[d].lines = process[d].lines
BY DEF CodexTyped, ProcessRecords, SameStates, SameTodo

\* A line is printed, and read.
LEMMA PrintedLine ==
  ASSUME CodexTyped, NEW c \in Processes, NEW line \in Lines, process' = Prints(process, c, line)
  PROVE  SameStates /\ SameTodo /\ LinePrinted(c, line)
<1>1. process' = [process EXCEPT ![c].lines = Append(process[c].lines, line)]
  BY DEF CodexTyped, Prints
<1>. QED BY <1>1, ChangedLines DEF LinePrinted

\* A line is read.
LEMMA ReadLine ==
  ASSUME CodexTyped, NEW c \in Processes, HasLine(c), process' = Read(c)
  PROVE  SameStates /\ SameTodo /\ LineRead(c) /\ Head(process[c].lines) \in Lines
<1>1. process' = [process EXCEPT ![c].lines = Tail(process[c].lines)]
  BY DEF CodexTyped, Read
<1>. QED BY <1>1, ChangedLines, ProcessFields DEF LineRead, HasLine

\* close(), after the line that made it.
LEMMA ClosedAfterLine ==
  ASSUME CodexTyped, NEW c \in Processes, HasLine(c), CloseClient(Read(c)),
         UNCHANGED <<forgotten, invalid>>
  PROVE  SameTodo /\ LineRead(c) /\ ChildEnds /\ TurnsLost(child) /\ ClientClosed
<1>1. PICK p : p = Read(c)
  OBVIOUS
<1>2. PICK x : x = Tail(process[c].lines)
  OBVIOUS
<1>3. p = [process EXCEPT ![c].lines = x] /\ process[c].lines # <<>>
  BY <1>1, <1>2 DEF CodexTyped, Read, HasLine
<1>4. /\ p[c].lines = x
      /\ \A d \in Processes : p[d].state = process[d].state /\ p[d].todo = process[d].todo
      /\ \A d \in Processes \ {c} : p[d].lines = process[d].lines
  BY <1>3 DEF CodexTyped, ProcessRecords
<1>5. p \in [Processes -> [state : {"none", "starting", "running", "ended", "gone"},
                           todo : SUBSET Asks, lines : {p[d].lines : d \in Processes}]]
  BY <1>3, <1>4 DEF CodexTyped, ProcessRecords
<1>6. process' = IF child = NoProcess THEN p ELSE Kill(p, child)
  BY <1>1 DEF CloseClient
<1>7. /\ \A d \in Processes : process'[d].todo = p[d].todo /\ process'[d].lines = p[d].lines
      /\ \A d \in Processes \ {child} : process'[d].state = p[d].state
      /\ child # NoProcess =>
           process'[child].state = IF p[child].state \in {"starting", "running"} THEN "ended"
                                   ELSE p[child].state
  BY <1>5, <1>6, CodexNumbers DEF CodexTyped, Kill
<1>8. SameTodo /\ LineRead(c) /\ ChildEnds
  BY <1>2, <1>3, <1>4, <1>7, CodexNumbers DEF CodexTyped, SameTodo, LineRead, ChildEnds
<1>9. TurnsLost(child)
  BY DEF CloseClient, LosesTurns, TurnsLost, CodexTyped, TurnRecords
<1>. QED BY <1>8, <1>9 DEF CloseClient, ClientClosed

\* rejectPending().
LEMMA RejectedWaiters ==
  ASSUME CodexTyped, call' = RejectPending
  PROVE  WaitersRejected
BY DEF CodexTyped, CallRecords, RejectPending, Rejected, Awaits, WaitersRejected, SameUnread

\* The request that a call makes next.
LEMMA AskedCall ==
  ASSUME CodexTyped, NEW t \in Turns, NEW cl, NEW kind, MayAsk(t, cl, kind), NEW step, NEW at,
         call' = [call EXCEPT ![t] = [cl EXCEPT !.kind = kind, !.step = step, !.at = at]]
  PROVE  CallSet(t, step, kind, at) /\ AsksFrom(t, kind)
<1>1. PICK x, n : x = Tail(call[t].unread) /\ n = call[t].handled + 1
  OBVIOUS
<1>2. \/ cl = call[t] /\ kind \in {"thread", "turn"}
      \/ cl = [call[t] EXCEPT !.unread = x, !.handled = n] /\ kind = "read"
  BY <1>1 DEF MayAsk
<1>3. call[t] \in [step : {call[t].step}, kind : {call[t].kind}, at : {call[t].at},
unread : {call[t].unread},
                   handled : {call[t].handled}]
  BY DEF CodexTyped, CallRecords
<1>4. CASE cl = call[t] /\ kind \in {"thread", "turn"}
  <2>1. CallSet(t, step, kind, at) /\ SameUnread(t)
    BY <1>3, <1>4 DEF CodexTyped, CallSet, SameBut, SameUnread
  <2>. QED BY <1>4, <2>1 DEF MayAsk, AsksFrom
<1>5. CASE cl = [call[t] EXCEPT !.unread = x, !.handled = n] /\ kind = "read"
  <2>1. /\ CallSet(t, step, kind, at) /\ call'[t].unread = x /\ call'[t].handled = n
    BY <1>3, <1>5 DEF CodexTyped, CallSet, SameBut
  <2>. QED BY <1>1, <1>5, <2>1 DEF MayAsk, AsksFrom
<1>. QED BY <1>2, <1>4, <1>5

\* What is on the way from a process, after a line of it is read.
LEMMA WayRead == ASSUME CodexTyped, NEW c \in Processes, LineRead(c)
  PROVE  /\ Head(process[c].lines) \in OnTheWay(c) /\ OnTheWay(c)' \subseteq OnTheWay(c)
         /\ OnTheWay(c) \subseteq OnTheWay(c)' \cup {Head(process[c].lines)}
         /\ \A d \in Processes \ {c} : OnTheWay(d)' = OnTheWay(d)
<1>1. process[c].lines \in Seq(Lines)
  BY ProcessFields DEF LineSeqs
<1>. QED BY <1>1, ElementsOf DEF OnTheWay, LineRead

\* What is on the way from a process, after a line of it is printed.
LEMMA WayPrinted == ASSUME CodexTyped, NEW c \in Processes, NEW line \in Lines, LinePrinted(c, line)
  PROVE  /\ OnTheWay(c)' = OnTheWay(c) \cup {line}
         /\ \A d \in Processes \ {c} : OnTheWay(d)' = OnTheWay(d)
<1>1. process[c].lines \in Seq(Lines)
  BY ProcessFields DEF LineSeqs
<1>. QED BY <1>1, ElementsOf DEF OnTheWay, LinePrinted

\* What is on the way from the processes, while their lines stay.
LEMMA WaySame == ASSUME SameLines
  PROVE  \A d \in Processes : OnTheWay(d)' = OnTheWay(d)
BY DEF OnTheWay, SameLines

\* A call's record keeps its type, field by field.
LEMMA CallFields ==
  ASSUME CodexTyped, NEW t \in Turns
  PROVE  /\ call[t].unread \in LineSeqs /\ call[t].handled \in Nat
         /\ call[t].at \in Processes \cup {NoProcess}
         /\ call[t].step \in {"idle", "initializing", "asked", "saving", "following", "over", "failed"}
         /\ call[t].kind \in {"none", "thread", "turn", "read"}
BY DEF CodexTyped, CallRecords

\* A notification is taken from the queue of a call.
LEMMA QueueTaken ==
  ASSUME CodexTyped, NEW t \in Turns, call[t].unread # <<>>, call'[t].unread = Tail(call[t].unread)
  PROVE  Queue(t)' \subseteq Queue(t)
<1>1. call[t].unread \in Seq(Lines)
  BY CallFields DEF LineSeqs
<1>. QED BY <1>1, ElementsOf DEF Queue

\* A notification joins the queue of a call.
LEMMA QueueJoined ==
  ASSUME CodexTyped, NEW t \in Turns, NEW line \in Lines,
         call'[t].unread = Append(call[t].unread, line)
  PROVE  Queue(t)' = Queue(t) \cup {line}
<1>1. call[t].unread \in Seq(Lines)
  BY CallFields DEF LineSeqs
<1>. QED BY <1>1, ElementsOf DEF Queue

\* The queue of a call stays.
LEMMA QueueSame ==
  ASSUME NEW t \in Turns, call'[t].unread = call[t].unread
  PROVE  Queue(t)' = Queue(t)
BY DEF Queue

-----------------------------------------------------------------------------
(***************************************************************************)
(* Every step has its effect.                                              *)
(***************************************************************************)
\* What a process that could not be spawned changes, field by field.
LEMMA SpawnFailsChanges ==
  ASSUME CodexTyped, NEW c \in Processes, SpawnFails(c)
  PROVE  SpawnFailsEffect(c)
BY CodexNumbers DEF CodexTyped, ProcessRecords, CallRecords, TurnRecords, SpawnFailsEffect,
   SpawnFails, CloseClient, Kill, LosesTurns, RejectPending, Rejected, Awaits, SameTodo, SameLines,
   StateSet, WaitersRejected, SameUnread, TurnsLost, ClientClosed

\* What the exit event of a process changes, field by field.
LEMMA ExitEventChanges ==
  ASSUME CodexTyped, NEW c \in Processes, ExitEvent(c)
  PROVE  ExitEventEffect(c)
BY CodexNumbers DEF CodexTyped, ProcessRecords, CallRecords, TurnRecords, ExitEventEffect,
   ExitEvent, RejectPending, Rejected, Awaits, IsInitializing, SameLines, StateSet,
   WaitersRejected, SameUnread

\* What the answer to initialize changes, field by field.
LEMMA InitializedChanges ==
  ASSUME CodexTyped, NEW c \in Processes, Initialized(c)
  PROVE  InitializedEffect(c)
<1>. USE CodexNumbers
<1>1. HasLine(c) /\ Head(process[c].lines).type = "ready"
  BY DEF Initialized, AwaitsInitialize
<1>2. CASE child = c /\ initialized = "pending"
  <2>1. PICK x : x = {<<t, call[t].kind>> : t \in {u \in Turns : call[u].step = "initializing"}}
    OBVIOUS
  <2>2. /\ process' = [Read(c) EXCEPT ![c].todo = @ \cup x] /\ initialized' = "done"
        /\ call' = [t \in Turns |-> IF call[t].step = "initializing"
                                    THEN [call[t] EXCEPT !.step = "asked"] ELSE call[t]]
    BY <1>2, <2>1 DEF Initialized, AwaitsInitialize
  <2>3. /\ LineRead(c) /\ SameStates /\ process'[c].todo = process[c].todo \cup x
        /\ \A d \in Processes \ {c} : process'[d].todo = process[d].todo
    BY <1>1, <2>2 DEF Read, HasLine, LineRead, SameStates, CodexTyped, ProcessRecords
  <2>4. \A t \in Turns : /\ call'[t].kind = call[t].kind /\ call'[t].at = call[t].at /\ SameUnread(t)
                         /\ call[t].step # "initializing" => call'[t].step = call[t].step
                         /\ call[t].step = "initializing" => call'[t].step = "asked"
    BY <2>2 DEF CodexTyped, CallRecords, SameUnread
  <2>. QED BY <1>1, <1>2, <2>1, <2>2, <2>3, <2>4 DEF Initialized, AwaitsInitialize, InitializedEffect
<1>3. CASE ~ (child = c /\ initialized = "pending")
  <2>1. process' = Read(c) /\ UNCHANGED <<initialized, call>>
    BY <1>3 DEF Initialized, AwaitsInitialize
  <2>2. SameStates /\ SameTodo /\ LineRead(c)
    BY <1>1, <2>1, ReadLine
  <2>. QED BY <1>1, <2>1, <2>2 DEF Initialized, AwaitsInitialize, InitializedEffect, SameTodo, SameUnread
<1>. QED BY <1>2, <1>3

\* What an initialize that is refused changes, field by field.
LEMMA InitializeRefusedChanges ==
  ASSUME CodexTyped, NEW c \in Processes, InitializeRefused(c)
  PROVE  InitializeRefusedEffect(c)
<1>. USE CodexNumbers
<1>1. /\ HasLine(c) /\ Head(process[c].lines).type = "refused"
      /\ child = c /\ initialized = "pending"
  BY DEF InitializeRefused, AwaitsInitialize
<1>. QED BY <1>1, ClosedAfterLine, RejectedWaiters DEF InitializeRefused, InitializeRefusedEffect

\* What the answer to a request changes, field by field.
LEMMA AnswerArrivesChanges ==
  ASSUME CodexTyped, NEW c \in Processes, AnswerArrives(c)
  PROVE  AnswerArrivesEffect(c)
<1>. USE CodexNumbers
<1>1. /\ SameStates /\ SameTodo /\ LineRead(c) /\ Head(process[c].lines) \in Lines
      /\ SameClient /\ UNCHANGED <<turn, invalid>>
  BY ReadLine DEF AnswerArrives, SameClient
<1>2. PICK line \in Lines : line = Head(process[c].lines)
  BY <1>1
<1>3. PICK u : u = line.call
  OBVIOUS
<1>4. /\ line.type \in {"result", "error"}
      /\ call' = IF call[u].step = "asked" /\ call[u].at = c /\ call[u].kind = line.what
                 THEN [call EXCEPT ![u] =
                         IF line.type = "error" THEN Rejected(call[u])
                         ELSE [call[u] EXCEPT !.step = CASE call[u].kind = "thread" -> "saving"
                                                         [] call[u].kind = "turn" -> "following"
                                                         [] call[u].kind = "read" -> "over"]]
                 ELSE call
  BY <1>2, <1>3 DEF AnswerArrives, IsPending
<1>5. CASE u \notin Turns
  <2>1. call' = call
    BY <1>4, <1>5 DEF CodexTyped
  <2>2. \A t \in Turns : ~ IsAnswered(t, c, line)
    BY <1>3, <1>5 DEF IsAnswered
  <2>. QED BY <1>1, <1>2, <1>4, <2>1, <2>2 DEF AnswerArrivesEffect, SameUnread
<1>6. CASE u \in Turns
  <2>1. CASE call[u].step = "asked" /\ call[u].at = c /\ call[u].kind = line.what
    <3>1. call[u].kind \in {"thread", "turn", "read"}
      <4>1. line.what \in {"", "thread", "turn", "read", "item", "completed", "error"}
        BY <1>2 DEF Lines
      <4>2. call[u].kind \in {"none", "thread", "turn", "read"}
        BY <1>6 DEF CodexTyped, CallRecords
      <4>. QED BY <2>1, <4>1, <4>2
    <3>2. PICK s : s = CASE call[u].kind = "thread" -> "saving"
                         [] call[u].kind = "turn" -> "following"
                         [] call[u].kind = "read" -> "over"
      OBVIOUS
    <3>3. /\ s = "saving" => call[u].kind = "thread"
          /\ s = "following" => call[u].kind = "turn"
          /\ s \in {"saving", "following", "over"}
      BY <3>1, <3>2
    <3>4. call' = [call EXCEPT ![u] = IF line.type = "error" THEN Rejected(call[u])
                                      ELSE [call[u] EXCEPT !.step = s]]
      BY <1>4, <2>1, <3>2
    <3>5. /\ SameBut(u) /\ call'[u].kind = call[u].kind /\ call'[u].at = call[u].at /\ SameUnread(u)
          /\ IF line.type = "error" THEN call'[u].step \in {"over", "failed"} ELSE call'[u].step = s
      BY <1>6, <3>4 DEF CodexTyped, CallRecords, Rejected, SameBut, SameUnread
    <3>6. \A t \in Turns \ {u} : ~ IsAnswered(t, c, line) /\ call'[t] = call[t]
      BY <1>3, <3>5 DEF IsAnswered, SameBut
    <3>7. \/ call'[u].step \in {"over", "failed"}
          \/ call'[u].step = "saving" /\ call[u].kind = "thread"
          \/ call'[u].step = "following" /\ call[u].kind = "turn" /\ line.type = "result"
      BY <1>4, <3>3, <3>5
    <3>8. IsAnswered(u, c, line)
      BY <1>3, <2>1 DEF IsAnswered
    <3>. QED BY <1>1, <1>2, <1>4, <1>6, <3>5, <3>6, <3>7, <3>8 DEF AnswerArrivesEffect, SameUnread
  <2>2. CASE ~ (call[u].step = "asked" /\ call[u].at = c /\ call[u].kind = line.what)
    <3>1. \A t \in Turns : ~ IsAnswered(t, c, line)
      BY <1>3, <2>2 DEF IsAnswered
    <3>. QED BY <1>1, <1>2, <1>4, <2>2, <3>1 DEF AnswerArrivesEffect, SameUnread
  <2>. QED BY <2>1, <2>2
<1>. QED BY <1>5, <1>6

\* What a notification changes: a call that listens queues it, or leaves it.
LEMMA NotificationArrivesChanges ==
  ASSUME CodexTyped, NEW c \in Processes, NotificationArrives(c)
  PROVE  NotificationArrivesEffect(c)
BY CodexNumbers DEF CodexTyped, ProcessRecords, CallRecords, TurnRecords,
   NotificationArrivesEffect, NotificationArrives, HasLine, Read, Listens, Awaits, SameStates,
   SameTodo, SameClient, LineRead

\* What a line that is no message changes, field by field.
LEMMA InvalidArrivesChanges ==
  ASSUME CodexTyped, NEW c \in Processes, InvalidArrives(c)
  PROVE  InvalidArrivesEffect(c)
<1>. USE CodexNumbers
<1>1. /\ WaitersRejected /\ HasLine(c)
      /\ Head(process[c].lines).type \in {"invalid", "error", "refused"}
  BY RejectedWaiters DEF InvalidArrives
<1>2. CASE IsInitializing
  BY <1>1, <1>2, ClosedAfterLine DEF InvalidArrives, InvalidArrivesEffect, IsInitializing
<1>3. CASE ~ IsInitializing
  BY <1>1, <1>3, ReadLine DEF InvalidArrives, InvalidArrivesEffect, SameClient
<1>. QED BY <1>2, <1>3

\* What a notification that a call handles changes, if it does not complete the turn.
LEMMA HandlesOtherChanges ==
  ASSUME CodexTyped, NEW t \in Turns, HandlesOther(t)
  PROVE  HandlesOtherEffect(t)
<1>. USE CodexNumbers
<1>1. PICK h : h = Head(call[t].unread)
  OBVIOUS
<1>2. PICK x : x = Tail(call[t].unread)
  OBVIOUS
<1>3. PICK s : s = IF h.what = "error" THEN "over" ELSE "following"
  OBVIOUS
<1>4. call' = [call EXCEPT ![t] = [call[t] EXCEPT !.unread = x, !.handled = call[t].handled + 1,
!.step = s]]
  BY <1>1, <1>2, <1>3 DEF HandlesOther, CodexTyped
<1>5. /\ SameBut(t) /\ call'[t].kind = call[t].kind /\ call'[t].at = call[t].at
      /\ call'[t].unread = x /\ call'[t].handled = call[t].handled + 1 /\ call'[t].step = s
  BY <1>4 DEF CodexTyped, CallRecords, SameBut
<1>. QED BY <1>1, <1>2, <1>3, <1>5
     DEF HandlesOther, HandlesOtherEffect, SameProcesses, SameStates, SameTodo, SameLines,
       SameClient

\* What an initialize that the app-server answers changes, field by field.
LEMMA AnswersInitializeChanges ==
  ASSUME CodexTyped, NEW c \in Processes, AnswersInitialize(c)
  PROVE  AnswersInitializeEffect(c)
<1>. USE CodexNumbers
<1>1. PICK type \in {"ready", "refused"} :
        process' = [Prints(process, c, Line(type, 0, "")) EXCEPT ![c].state = "running"]
  BY DEF AnswersInitialize
<1>2. PICK line \in Lines : line = Line(type, 0, "") /\ line.type = type
  <2>1. Line(type, 0, "") \in Lines /\ Line(type, 0, "").type = type
    BY DEF Line, Lines
  <2>. QED BY <2>1
<1>3. StateSet(c, "running") /\ SameTodo /\ LinePrinted(c, line)
  BY <1>1, <1>2 DEF CodexTyped, ProcessRecords, Prints, StateSet, SameTodo, LinePrinted
<1>. QED BY <1>2, <1>3 DEF AnswersInitialize, AnswersInitializeEffect, ClientRests, SameClient

\* What a turn that begins at the app-server changes, field by field.
LEMMA TurnBeginsChanges ==
  ASSUME CodexTyped, NEW c \in Processes, NEW t \in Turns, TurnBegins(c, t)
  PROVE  TurnBeginsEffect(c, t)
BY CodexNumbers DEF CodexTyped, ProcessRecords, CallRecords, TurnRecords, TurnBeginsEffect,
   TurnBegins, ClientRests, SameProcesses, SameStates, SameTodo, SameLines, SameClient

\* What a request that the app-server answers changes, field by field.
LEMMA AnswersChanges ==
  ASSUME CodexTyped, NEW c \in Processes, NEW t \in Turns, Answers(c, t)
  PROVE  AnswersEffect(c, t)
<1>. USE CodexNumbers
<1>1. PICK kind \in {"thread", "turn", "read"}, type \in {"result", "error"} :
        /\ kind = "turn" => (type = "result") = (turn[t].state # "none")
        /\ process' = [Prints(process, c, Line(type, t, kind)) EXCEPT ![c].todo = @ \ {<<t, kind>>}]
  BY DEF Answers
<1>2. PICK line \in Lines : /\ line = Line(type, t, kind) /\ line.type = type
                            /\ line.call = t /\ line.what = kind
  <2>. DEFINE l == Line(type, t, kind)
  <2>1. l \in Lines /\ l.type = type /\ l.call = t /\ l.what = kind
    BY DEF Line, Lines
  <2>. QED BY <2>1
<1>3. PICK x : x = {<<t, kind>>}
  OBVIOUS
<1>4. process' = [Prints(process, c, line) EXCEPT ![c].todo = @ \ x]
  BY <1>1, <1>2, <1>3
<1>5. /\ SameStates /\ LinePrinted(c, line) /\ process'[c].todo = process[c].todo \ x
      /\ \A d \in Processes \ {c} : process'[d].todo = process[d].todo
  BY <1>4 DEF CodexTyped, ProcessRecords, Prints, SameStates, LinePrinted
<1>6. line.type \in {"result", "error"} /\ line.what \in {"thread", "turn", "read"}
  BY <1>2
<1>. QED BY <1>1, <1>2, <1>3, <1>5, <1>6 DEF Answers, AnswersEffect, ClientRests, SameClient

\* What a notification of a turn changes, field by field.
LEMMA TurnSaysChanges ==
  ASSUME CodexTyped, NEW t \in Turns, TurnSays(t), turn[t].at \in Processes
  PROVE  TurnSaysEffect(t)
<1>. USE CodexNumbers
<1>1. PICK what \in {"item", "completed", "error"} :
        /\ process' = Prints(process, turn[t].at, Line("notification", t, what))
        /\ turn' = [turn EXCEPT ![t].said = @ + 1,
                                ![t].state = IF what = "item" THEN "running" ELSE "over"]
  BY DEF TurnSays
<1>2. PICK line \in Lines : /\ line = Line("notification", t, what) /\ line.type = "notification"
                            /\ line.call = t /\ line.what = what
  <2>. DEFINE l == Line("notification", t, what)
  <2>1. l \in Lines /\ l.type = "notification" /\ l.call = t /\ l.what = what
    BY DEF Line, Lines
  <2>. QED BY <2>1
<1>3. PICK c : c = turn[t].at
  OBVIOUS
<1>4. SameStates /\ SameTodo /\ LinePrinted(c, line)
  BY <1>1, <1>2, <1>3, PrintedLine
<1>5. line \in Own(t)
  BY <1>2 DEF Own
<1>6. PICK s : s = IF what = "item" THEN "running" ELSE "over"
  OBVIOUS
<1>7. turn' = [turn EXCEPT ![t].said = @ + 1, ![t].state = s]
  BY <1>1, <1>6
<1>8. /\ turn'[t].at = turn[t].at /\ turn'[t].said = turn[t].said + 1 /\ turn'[t].state = s
      /\ \A u \in Turns \ {t} : turn'[u] = turn[u]
  BY <1>7 DEF CodexTyped, TurnRecords
<1>. QED BY <1>2, <1>3, <1>4, <1>5, <1>6, <1>8 DEF TurnSays, TurnSaysEffect, ClientRests, SameClient

\* What a line that the app-server spoils changes, field by field.
LEMMA PrintsInvalidChanges ==
  ASSUME CodexTyped, NEW c \in Processes, PrintsInvalid(c)
  PROVE  PrintsInvalidEffect(c)
<1>. USE CodexNumbers
<1>1. PICK line \in Lines : line = Line("invalid", 0, "") /\ line.type = "invalid"
  <2>1. Line("invalid", 0, "") \in Lines /\ Line("invalid", 0, "").type = "invalid"
    BY DEF Line, Lines
  <2>. QED BY <2>1
<1>2. SameStates /\ SameTodo /\ LinePrinted(c, line)
  BY <1>1, PrintedLine DEF PrintsInvalid
<1>. QED BY <1>1, <1>2 DEF PrintsInvalid, PrintsInvalidEffect, ClientRests, SameClient

\* What a process that ends changes, field by field.
LEMMA ProcessEndsChanges ==
  ASSUME CodexTyped, NEW c \in Processes, ProcessEnds(c)
  PROVE  ProcessEndsEffect(c)
BY CodexNumbers DEF CodexTyped, ProcessRecords, CallRecords, TurnRecords, ProcessEndsEffect,
   ProcessEnds, Kill, LosesTurns, ClientRests, SameTodo, SameLines, SameClient, StateSet, TurnsLost

\* What a request that is sent changes, field by field.
LEMMA RequestSentChanges ==
  ASSUME CodexTyped, NEW t \in Turns, NEW cl, NEW kind, RequestSent(t, cl, kind)
  PROVE  RequestSentEffect(t, kind)
<1>. USE CodexNumbers
<1>1. PICK x : x = {<<t, kind>>}
  OBVIOUS
<1>2. process' = [process EXCEPT ![child].todo = @ \cup x]
  BY <1>1 DEF RequestSent, Sent
<1>3. /\ SameLines /\ SameStates
      /\ child # NoProcess => process'[child].todo = process[child].todo \cup x
      /\ \A d \in Processes \ {child} : process'[d].todo = process[d].todo
  BY <1>2 DEF CodexTyped, ProcessRecords, SameLines, SameStates
<1>4. CallSet(t, "asked", kind, child) /\ AsksFrom(t, kind)
  <2>1. call' = [call EXCEPT ![t] = [cl EXCEPT !.kind = kind, !.step = "asked", !.at = child]]
    BY DEF RequestSent
  <2>. QED BY <2>1, AskedCall DEF RequestSent
<1>. QED BY <1>1, <1>3, <1>4 DEF RequestSent, RequestSentEffect, SameClient

\* What a request that cannot be written changes, field by field.
LEMMA RequestRefusedChanges ==
  ASSUME CodexTyped, NEW t \in Turns, NEW cl, NEW kind, RequestRefused(t, cl, kind)
  PROVE  RequestRefusedEffect(t, kind)
BY CodexNumbers DEF CodexTyped, ProcessRecords, CallRecords, TurnRecords, RequestRefusedEffect,
   RequestRefused, Rejected, SameProcesses, SameStates, SameTodo, SameLines, SameClient, SameBut,
   AsksFrom, SameUnread, MayAsk

\* What a request that waits for the initialization of another changes, field by field.
LEMMA RequestWaitsChanges ==
  ASSUME CodexTyped, NEW t \in Turns, NEW cl, NEW kind, RequestWaits(t, cl, kind)
  PROVE  RequestWaitsEffect(t, kind)
BY CodexNumbers DEF CodexTyped, ProcessRecords, CallRecords, TurnRecords, RequestWaitsEffect,
   RequestWaits, SameProcesses, SameStates, SameTodo, SameLines, SameClient, CallSet, SameBut,
   AsksFrom, SameUnread, MayAsk

\* What a request that starts the process changes, field by field.
LEMMA ProcessStartsChanges ==
  ASSUME CodexTyped, NEW t \in Turns, NEW cl, NEW kind, ProcessStarts(t, cl, kind)
  PROVE  ProcessStartsEffect(t, kind)
<1>. USE CodexNumbers
<1>1. PICK c \in Processes :
        /\ process[c].state = "none"
        /\ process' = [process EXCEPT ![c].state = "starting"]
        /\ call' = [call EXCEPT ![t] = [cl EXCEPT !.kind = kind, !.step = "initializing", !.at = c]]
        /\ child' = c /\ readline' = c
  BY DEF ProcessStarts
<1>2. SameTodo /\ SameLines /\ StateSet(c, "starting")
  BY <1>1 DEF CodexTyped, ProcessRecords, SameTodo, SameLines, StateSet
<1>3. CallSet(t, "initializing", kind, c) /\ AsksFrom(t, kind)
  BY <1>1, AskedCall DEF ProcessStarts
<1>. QED BY <1>1, <1>2, <1>3 DEF ProcessStarts, ProcessStartsEffect

-----------------------------------------------------------------------------
(***************************************************************************)
(* Every step keeps the types.                                             *)
(***************************************************************************)
\* Lines that are taken or added leave a sequence of lines.
LEMMA LinesClosed ==
  ASSUME NEW s \in LineSeqs
  PROVE  /\ s # <<>> => Tail(s) \in LineSeqs /\ Head(s) \in Lines
         /\ \A line \in Lines : Append(s, line) \in LineSeqs
BY HeadTailProperties, AppendProperties DEF LineSeqs

\* rejectPending() leaves records of calls.
LEMMA RejectedTyped ==
  ASSUME CodexTyped
  PROVE  RejectPending \in [Turns -> CallRecords]
<1>1. ASSUME NEW t \in Turns
      PROVE  (IF Awaits(call[t]) THEN Rejected(call[t]) ELSE call[t]) \in CallRecords
  BY DEF CodexTyped, CallRecords, Rejected
<1>. QED BY <1>1 DEF RejectPending

\* The turns of a process that is lost keep their types.
LEMMA LosesTyped ==
  ASSUME CodexTyped, NEW c
  PROVE  LosesTurns(c) \in [Turns -> TurnRecords]
BY DEF CodexTyped, TurnRecords, LosesTurns

\* A process that is killed keeps its type.
LEMMA KilledTyped ==
  ASSUME NEW p \in [Processes -> ProcessRecords], NEW c
  PROVE  Kill(p, c) \in [Processes -> ProcessRecords]
BY DEF ProcessRecords, Kill

\* A process whose line is read keeps its type.
LEMMA ReadTyped ==
  ASSUME CodexTyped, NEW c \in Processes, HasLine(c)
  PROVE  Read(c) \in [Processes -> ProcessRecords]
<1>1. PICK x \in LineSeqs : x = Tail(process[c].lines)
  BY ProcessFields, LinesClosed DEF HasLine
<1>2. Read(c) = [process EXCEPT ![c].lines = x]
  BY <1>1 DEF Read, CodexTyped
<1>. QED BY <1>2 DEF CodexTyped, ProcessRecords

\* A process that prints a line keeps its type.
LEMMA PrintedTyped ==
  ASSUME CodexTyped, NEW c \in Processes, NEW line \in Lines
  PROVE  Prints(process, c, line) \in [Processes -> ProcessRecords]
<1>1. PICK x \in LineSeqs : x = Append(process[c].lines, line)
  BY ProcessFields, LinesClosed
<1>2. Prints(process, c, line) = [process EXCEPT ![c].lines = x]
  BY <1>1 DEF Prints, CodexTyped
<1>. QED BY <1>2 DEF CodexTyped, ProcessRecords

\* close() keeps the types.
LEMMA ClosedTyped ==
  ASSUME CodexTyped, NEW p \in [Processes -> ProcessRecords], CloseClient(p),
         call' \in [Turns -> CallRecords], UNCHANGED <<invalid, forgotten>>
  PROVE  CodexTyped'
<1>1. process' \in [Processes -> ProcessRecords]
  BY KilledTyped DEF CloseClient
<1>2. turn' \in [Turns -> TurnRecords]
  BY LosesTyped DEF CloseClient
<1>3. muted' \in SUBSET Processes
  BY CodexNumbers DEF CloseClient, CodexTyped
<1>. QED BY <1>1, <1>2, <1>3 DEF CloseClient, CodexTyped

\* What a call that asks is given leaves a record of a call.
LEMMA AskingTyped ==
  ASSUME CodexTyped, NEW t \in Turns, NEW cl, NEW kind, MayAsk(t, cl, kind)
  PROVE  cl \in CallRecords /\ kind \in {"thread", "turn", "read"}
<1>1. CASE cl = call[t] /\ kind \in {"thread", "turn"}
  BY <1>1 DEF CodexTyped
<1>2. CASE kind = "read"
  <2>1. PICK x \in LineSeqs : x = Tail(call[t].unread)
    BY <1>2, CallFields, LinesClosed DEF MayAsk
  <2>2. PICK n \in Nat : n = call[t].handled + 1
    BY CallFields
  <2>3. cl = [call[t] EXCEPT !.unread = x, !.handled = n]
    BY <1>2, <2>1, <2>2 DEF MayAsk
  <2>. QED BY <1>2, <2>3 DEF CodexTyped, CallRecords
<1>. QED BY <1>1, <1>2 DEF MayAsk

\* The types, after a process that could not be spawned.
LEMMA SpawnFailsTyped ==
  ASSUME CodexTyped, NEW c \in Processes, SpawnFails(c)
  PROVE  CodexTyped'
<1>1. [process EXCEPT ![c].state = "gone"] \in [Processes -> ProcessRecords]
  BY DEF CodexTyped, ProcessRecords
<1>. QED BY <1>1, RejectedTyped, ClosedTyped DEF SpawnFails

\* The types, after the exit event of a process.
LEMMA ExitEventTyped ==
  ASSUME CodexTyped, NEW c \in Processes, ExitEvent(c)
  PROVE  CodexTyped'
<1>1. process' \in [Processes -> ProcessRecords]
  BY DEF ExitEvent, CodexTyped, ProcessRecords
<1>. QED BY <1>1, RejectedTyped, CodexNumbers DEF ExitEvent, CodexTyped

\* The types, after the answer to initialize.
LEMMA InitializedTyped ==
  ASSUME CodexTyped, KindsInOrder, NEW c \in Processes, Initialized(c)
  PROVE  CodexTyped'
<1>1. Read(c) \in [Processes -> ProcessRecords]
  BY ReadTyped DEF Initialized, AwaitsInitialize
<1>2. CASE child = c /\ initialized = "pending"
  <2>1. PICK x : x = {<<t, call[t].kind>> : t \in {u \in Turns : call[u].step = "initializing"}}
    OBVIOUS
  <2>2. x \in SUBSET Asks
    <3>1. ASSUME NEW t \in Turns, call[t].step = "initializing" PROVE <<t, call[t].kind>> \in Asks
      BY <3>1, CallFields DEF KindsInOrder, Awaits, Asks
    <3>. QED BY <2>1, <3>1
  <2>3. process' = [Read(c) EXCEPT ![c].todo = @ \cup x]
    BY <1>2, <2>1 DEF Initialized, AwaitsInitialize
  <2>4. process' \in [Processes -> ProcessRecords]
    BY <1>1, <2>2, <2>3 DEF ProcessRecords
  <2>5. call' \in [Turns -> CallRecords]
    BY <1>2 DEF Initialized, AwaitsInitialize, CodexTyped, CallRecords
  <2>. QED BY <1>2, <2>4, <2>5 DEF Initialized, AwaitsInitialize, CodexTyped
<1>3. CASE ~ (child = c /\ initialized = "pending")
  BY <1>1, <1>3 DEF Initialized, AwaitsInitialize, CodexTyped
<1>. QED BY <1>2, <1>3

\* The types, after an initialize that is refused.
LEMMA InitializeRefusedTyped ==
  ASSUME CodexTyped, NEW c \in Processes, InitializeRefused(c)
  PROVE  CodexTyped'
<1>1. Read(c) \in [Processes -> ProcessRecords]
  BY ReadTyped DEF InitializeRefused
<1>. QED BY <1>1, RejectedTyped, ClosedTyped DEF InitializeRefused

\* The types, after the answer to a request.
LEMMA AnswerArrivesTyped ==
  ASSUME CodexTyped, NEW c \in Processes, AnswerArrives(c)
  PROVE  CodexTyped'
<1>1. Read(c) \in [Processes -> ProcessRecords]
  BY ReadTyped DEF AnswerArrives
<1>2. PICK line : line = Head(process[c].lines)
  OBVIOUS
<1>3. PICK u : u = line.call
  OBVIOUS
<1>4. \/ call' = call
      \/ /\ u \in Turns /\ call[u].kind = line.what /\ line \in Lines
         /\ call' = [call EXCEPT ![u] =
                      IF line.type = "error" THEN Rejected(call[u])
                      ELSE [call[u] EXCEPT !.step = CASE call[u].kind = "thread" -> "saving"
                                                      [] call[u].kind = "turn" -> "following"
                                                      [] call[u].kind = "read" -> "over"]]
  <2>1. line \in Lines
    BY <1>2, ProcessFields DEF AnswerArrives, HasLine
  <2>2. call' = IF call[u].step = "asked" /\ call[u].at = c /\ call[u].kind = line.what
                THEN [call EXCEPT ![u] =
                        IF line.type = "error" THEN Rejected(call[u])
                        ELSE [call[u] EXCEPT !.step = CASE call[u].kind = "thread" -> "saving"
                                                        [] call[u].kind = "turn" -> "following"
                                                        [] call[u].kind = "read" -> "over"]]
                ELSE call
    BY <1>2, <1>3 DEF AnswerArrives, IsPending
  <2>3. CASE u \notin Turns
    BY <2>2, <2>3 DEF CodexTyped
  <2>4. CASE u \in Turns
    BY <2>1, <2>2, <2>4
  <2>. QED BY <2>3, <2>4
<1>5. call' \in [Turns -> CallRecords]
  <2>1. CASE call' = call
    BY <2>1 DEF CodexTyped
  <2>2. ASSUME u \in Turns, call[u].kind = line.what, line \in Lines,
               call' = [call EXCEPT ![u] =
                      IF line.type = "error" THEN Rejected(call[u])
                      ELSE [call[u] EXCEPT !.step = CASE call[u].kind = "thread" -> "saving"
                                                      [] call[u].kind = "turn" -> "following"
                                                      [] call[u].kind = "read" -> "over"]]
        PROVE  call' \in [Turns -> CallRecords]
    <3>1. PICK s : s = CASE call[u].kind = "thread" -> "saving"
                         [] call[u].kind = "turn" -> "following"
                         [] call[u].kind = "read" -> "over"
      OBVIOUS
    <3>2. call[u].kind \in {"thread", "turn", "read"}
      BY <2>2, CallFields DEF Lines
    <3>3. s \in {"saving", "following", "over"}
      BY <3>1, <3>2
    <3>4. call' = [call EXCEPT ![u] = IF line.type = "error" THEN Rejected(call[u])
                                      ELSE [call[u] EXCEPT !.step = s]]
      BY <2>2, <3>1
    <3>5. Rejected(call[u]) \in CallRecords /\ [call[u] EXCEPT !.step = s] \in CallRecords
      BY <2>2, <3>3 DEF CodexTyped, CallRecords, Rejected
    <3>. QED BY <3>4, <3>5 DEF CodexTyped
  <2>. QED BY <1>4, <2>1, <2>2
<1>. QED BY <1>1, <1>5 DEF AnswerArrives, CodexTyped

\* The types, after a notification that arrives.
LEMMA NotificationArrivesTyped ==
  ASSUME CodexTyped, NEW c \in Processes, NotificationArrives(c)
  PROVE  CodexTyped'
<1>1. Read(c) \in [Processes -> ProcessRecords]
  BY ReadTyped DEF NotificationArrives
<1>2. PICK line \in Lines : line = Head(process[c].lines)
  BY ProcessFields DEF NotificationArrives, HasLine
<1>3. ASSUME NEW t \in Turns
      PROVE  [call[t] EXCEPT !.unread = Append(@, line)] \in CallRecords
  <2>1. PICK x \in LineSeqs : x = Append(call[t].unread, line)
    BY CallFields, LinesClosed
  <2>2. [call[t] EXCEPT !.unread = Append(@, line)] = [call[t] EXCEPT !.unread = x]
    BY <2>1
  <2>3. [call[t] EXCEPT !.unread = x] \in CallRecords
    BY DEF CodexTyped, CallRecords
  <2>. QED BY <2>2, <2>3
<1>4. call' \in [Turns -> CallRecords]
  <2>1. call' = [t \in Turns |-> IF Listens(call[t]) /\ (line.what = "error" \/ line.call = t)
                                 THEN [call[t] EXCEPT !.unread = Append(@, line)] ELSE call[t]]
    BY <1>2 DEF NotificationArrives
  <2>2. \A t \in Turns : call[t] \in CallRecords
    BY DEF CodexTyped
  <2>. HIDE DEF CodexTyped
  <2>. QED BY <1>3, <2>1, <2>2
<1>. QED BY <1>1, <1>4 DEF NotificationArrives, CodexTyped

\* The types, after a line that is no message.
LEMMA InvalidArrivesTyped ==
  ASSUME CodexTyped, NEW c \in Processes, InvalidArrives(c)
  PROVE  CodexTyped'
<1>1. Read(c) \in [Processes -> ProcessRecords]
  BY ReadTyped DEF InvalidArrives
<1>2. CASE IsInitializing
  BY <1>1, <1>2, RejectedTyped, ClosedTyped DEF InvalidArrives
<1>3. CASE ~ IsInitializing
  BY <1>1, <1>3, RejectedTyped DEF InvalidArrives, CodexTyped
<1>. QED BY <1>2, <1>3

\* The types, after a notification that a call handles and that does not complete its turn.
LEMMA HandlesOtherTyped ==
  ASSUME CodexTyped, NEW t \in Turns, HandlesOther(t)
  PROVE  CodexTyped'
<1>1. PICK x \in LineSeqs : x = Tail(call[t].unread)
  BY CallFields, LinesClosed DEF HandlesOther
<1>2. PICK s \in {"over", "following"} :
        call' = [call EXCEPT ![t] = [call[t] EXCEPT !.unread = x, !.handled = call[t].handled + 1,
                                                    !.step = s]]
  <2>1. PICK s : s = IF Head(call[t].unread).what = "error" THEN "over" ELSE "following"
    OBVIOUS
  <2>2. s \in {"over", "following"}
    BY <2>1
  <2>. QED BY <1>1, <2>1, <2>2 DEF HandlesOther
<1>3. [call[t] EXCEPT !.unread = x, !.handled = call[t].handled + 1, !.step = s] \in CallRecords
  <2>1. PICK n \in Nat : n = call[t].handled + 1
    BY CallFields
  <2>2. [call[t] EXCEPT !.unread = x, !.handled = n, !.step = s] \in CallRecords
    BY DEF CodexTyped, CallRecords
  <2>. QED BY <2>1, <2>2
<1>. QED BY <1>2, <1>3 DEF HandlesOther, CodexTyped

\* The types, after an initialize that the app-server answers.
LEMMA AnswersInitializeTyped ==
  ASSUME CodexTyped, NEW c \in Processes, AnswersInitialize(c)
  PROVE  CodexTyped'
<1>1. PICK type \in {"ready", "refused"} :
        process' = [Prints(process, c, Line(type, 0, "")) EXCEPT ![c].state = "running"]
  BY DEF AnswersInitialize
<1>2. Line(type, 0, "") \in Lines
  BY DEF Line, Lines
<1>3. Prints(process, c, Line(type, 0, "")) \in [Processes -> ProcessRecords]
  BY <1>2, PrintedTyped
<1>4. process' \in [Processes -> ProcessRecords]
  BY <1>1, <1>3 DEF ProcessRecords
<1>. QED BY <1>4 DEF AnswersInitialize, ClientRests, CodexTyped

\* The types, after a turn that begins at the app-server.
LEMMA TurnBeginsTyped ==
  ASSUME CodexTyped, NEW c \in Processes, NEW t \in Turns, TurnBegins(c, t)
  PROVE  CodexTyped'
<1>1. turn' \in [Turns -> TurnRecords]
  BY DEF TurnBegins, CodexTyped, TurnRecords
<1>. QED BY <1>1 DEF TurnBegins, ClientRests, CodexTyped

\* The types, after a request that the app-server answers.
LEMMA AnswersTyped ==
  ASSUME CodexTyped, NEW c \in Processes, NEW t \in Turns, Answers(c, t)
  PROVE  CodexTyped'
<1>1. PICK kind \in {"thread", "turn", "read"}, type \in {"result", "error"} :
        process' = [Prints(process, c, Line(type, t, kind)) EXCEPT ![c].todo = @ \ {<<t, kind>>}]
  BY DEF Answers
<1>2. Line(type, t, kind) \in Lines
  BY DEF Line, Lines
<1>3. Prints(process, c, Line(type, t, kind)) \in [Processes -> ProcessRecords]
  BY <1>2, PrintedTyped
<1>4. process' \in [Processes -> ProcessRecords]
  BY <1>1, <1>3 DEF ProcessRecords
<1>. QED BY <1>4 DEF Answers, ClientRests, CodexTyped

\* The types, after a notification of a turn.
LEMMA TurnSaysTyped ==
  ASSUME CodexTyped, TurnsBegin, NEW t \in Turns, TurnSays(t)
  PROVE  CodexTyped'
<1>1. PICK what \in {"item", "completed", "error"} :
        /\ process' = Prints(process, turn[t].at, Line("notification", t, what))
        /\ turn' = [turn EXCEPT ![t].said = @ + 1,
                                ![t].state = IF what = "item" THEN "running" ELSE "over"]
  BY DEF TurnSays
<1>2. Line("notification", t, what) \in Lines
  BY DEF Line, Lines
<1>3. turn[t].at \in Processes
  BY DEF TurnSays, TurnsBegin
<1>4. process' \in [Processes -> ProcessRecords]
  BY <1>1, <1>2, <1>3, PrintedTyped
<1>5. turn' \in [Turns -> TurnRecords]
  <2>1. PICK s \in {"running", "over"} : s = IF what = "item" THEN "running" ELSE "over"
    OBVIOUS
  <2>2. PICK n \in Nat : n = turn[t].said + 1
    BY DEF CodexTyped, TurnRecords
  <2>3. turn' = [turn EXCEPT ![t] = [turn[t] EXCEPT !.said = n, !.state = s]]
    BY <1>1, <2>1, <2>2 DEF CodexTyped, TurnRecords
  <2>. QED BY <2>3 DEF CodexTyped, TurnRecords
<1>. QED BY <1>4, <1>5 DEF TurnSays, ClientRests, CodexTyped

\* The types, after a line that the app-server spoils.
LEMMA PrintsInvalidTyped ==
  ASSUME CodexTyped, NEW c \in Processes, PrintsInvalid(c)
  PROVE  CodexTyped'
<1>1. Line("invalid", 0, "") \in Lines
  BY DEF Line, Lines
<1>2. process' \in [Processes -> ProcessRecords]
  BY <1>1, PrintedTyped DEF PrintsInvalid
<1>3. invalid' \in Nat
  <2>1. PICK n \in Nat : n = invalid
    BY DEF CodexTyped
  <2>2. invalid' = n + 1
    BY <2>1 DEF PrintsInvalid
  <2>. QED BY <2>2
<1>. QED BY <1>2, <1>3 DEF PrintsInvalid, ClientRests, CodexTyped

\* The types, after a process that ends.
LEMMA ProcessEndsTyped ==
  ASSUME CodexTyped, NEW c \in Processes, ProcessEnds(c)
  PROVE  CodexTyped'
<1>1. process' \in [Processes -> ProcessRecords]
  BY KilledTyped DEF ProcessEnds, CodexTyped
<1>2. turn' \in [Turns -> TurnRecords]
  BY LosesTyped DEF ProcessEnds
<1>. QED BY <1>1, <1>2 DEF ProcessEnds, ClientRests, CodexTyped

\* The types, after a request that is sent.
LEMMA RequestSentTyped ==
  ASSUME CodexTyped, NEW t \in Turns, NEW cl, NEW kind, RequestSent(t, cl, kind)
  PROVE  CodexTyped'
<1>1. cl \in CallRecords /\ kind \in {"thread", "turn", "read"}
  BY AskingTyped DEF RequestSent
<1>2. [cl EXCEPT !.kind = kind, !.step = "asked", !.at = child] \in CallRecords
  BY <1>1 DEF CallRecords, CodexTyped
<1>3. call' \in [Turns -> CallRecords]
  BY <1>2 DEF RequestSent, CodexTyped
<1>4. {<<t, kind>>} \subseteq Asks
  BY <1>1 DEF Asks
<1>5. PICK x \in SUBSET Asks : x = {<<t, kind>>}
  BY <1>4
<1>6. process' = [process EXCEPT ![child].todo = @ \cup x]
  BY <1>5 DEF RequestSent, Sent
<1>7. process' \in [Processes -> ProcessRecords]
  BY <1>6 DEF CodexTyped, ProcessRecords
<1>. QED BY <1>3, <1>7 DEF RequestSent, CodexTyped

\* The types, after a request that cannot be written.
LEMMA RequestRefusedTyped ==
  ASSUME CodexTyped, NEW t \in Turns, NEW cl, NEW kind, RequestRefused(t, cl, kind)
  PROVE  CodexTyped'
<1>1. cl \in CallRecords /\ kind \in {"thread", "turn", "read"}
  BY AskingTyped DEF RequestRefused
<1>2. Rejected([cl EXCEPT !.kind = kind]) \in CallRecords
  BY <1>1 DEF CallRecords, Rejected
<1>. QED BY <1>2 DEF RequestRefused, CodexTyped

\* The types, after a request that waits for the initialization of another.
LEMMA RequestWaitsTyped ==
  ASSUME CodexTyped, NEW t \in Turns, NEW cl, NEW kind, RequestWaits(t, cl, kind)
  PROVE  CodexTyped'
<1>1. cl \in CallRecords /\ kind \in {"thread", "turn", "read"}
  BY AskingTyped DEF RequestWaits
<1>2. [cl EXCEPT !.kind = kind, !.step = "initializing", !.at = child] \in CallRecords
  BY <1>1 DEF CallRecords, CodexTyped
<1>. QED BY <1>2 DEF RequestWaits, CodexTyped

\* The types, after a request that starts the process.
LEMMA ProcessStartsTyped ==
  ASSUME CodexTyped, NEW t \in Turns, NEW cl, NEW kind, ProcessStarts(t, cl, kind)
  PROVE  CodexTyped'
<1>1. cl \in CallRecords /\ kind \in {"thread", "turn", "read"}
  BY AskingTyped DEF ProcessStarts
<1>2. PICK c \in Processes :
        /\ process' = [process EXCEPT ![c].state = "starting"]
        /\ call' = [call EXCEPT ![t] = [cl EXCEPT !.kind = kind, !.step = "initializing", !.at = c]]
        /\ child' = c /\ readline' = c
  BY DEF ProcessStarts
<1>3. [cl EXCEPT !.kind = kind, !.step = "initializing", !.at = c] \in CallRecords
  BY <1>1 DEF CallRecords
<1>4. call' \in [Turns -> CallRecords]
  BY <1>2, <1>3 DEF CodexTyped
<1>5. process' \in [Processes -> ProcessRecords]
  BY <1>2 DEF CodexTyped, ProcessRecords
<1>. QED BY <1>2, <1>4, <1>5 DEF ProcessStarts, CodexTyped

-----------------------------------------------------------------------------
(***************************************************************************)
(* Every effect keeps the parts of the invariant.                          *)
(***************************************************************************)
\* The client's process is the one whose lines it reads.
LEMMA ChildLivesKept ==
  ASSUME CodexInv, CodexTyped', Effects
  PROVE  ChildLives'
<1>. USE CodexNumbers DEF CodexInv
<1>1. ASSUME NEW c \in Processes, SpawnFailsEffect(c) PROVE ChildLives'
  BY <1>1 DEF CodexTyped, ChildLives, WaitsAtChild, NewProcessRests, SpawnFailsEffect, SameTodo,
     SameLines, StateSet, WaitersRejected, SameUnread, TurnsLost, ClientClosed, Awaits
<1>2. ASSUME NEW c \in Processes, ExitEventEffect(c) PROVE ChildLives'
  BY <1>2 DEF CodexTyped, ChildLives, WaitsAtChild, NewProcessRests, ExitEventEffect, SameLines,
     StateSet, WaitersRejected, SameUnread, Awaits
<1>3. ASSUME NEW c \in Processes, InitializedEffect(c) PROVE ChildLives'
  BY <1>3 DEF CodexTyped, ChildLives, WaitsAtChild, NewProcessRests, InitializedEffect,
     SameStates, LineRead, SameUnread, Awaits
<1>4. ASSUME NEW c \in Processes, InitializeRefusedEffect(c) PROVE ChildLives'
  BY <1>4 DEF CodexTyped, ChildLives, WaitsAtChild, NewProcessRests, InitializeRefusedEffect,
     SameStates, SameTodo, LineRead, WaitersRejected, SameUnread, TurnsLost, ClientClosed,
     ChildEnds, Awaits
<1>5. ASSUME NEW c \in Processes, AnswerArrivesEffect(c) PROVE ChildLives'
  BY <1>5 DEF CodexTyped, ChildLives, WaitsAtChild, NewProcessRests, AnswerArrivesEffect,
     SameStates, SameTodo, SameClient, LineRead, SameUnread, IsAnswered, Awaits
<1>6. ASSUME NEW c \in Processes, NotificationArrivesEffect(c) PROVE ChildLives'
  BY <1>6 DEF CodexTyped, ChildLives, WaitsAtChild, NewProcessRests, NotificationArrivesEffect,
     SameStates, SameTodo, SameClient, LineRead, Awaits, Listens
<1>7. ASSUME NEW c \in Processes, InvalidArrivesEffect(c) PROVE ChildLives'
  BY <1>7 DEF CodexTyped, ChildLives, WaitsAtChild, NewProcessRests, InvalidArrivesEffect,
     SameStates, SameTodo, SameClient, LineRead, WaitersRejected, SameUnread, TurnsLost,
     ClientClosed, ChildEnds, Awaits
<1>8. ASSUME NEW t \in Turns, HandlesOtherEffect(t) PROVE ChildLives'
  BY <1>8 DEF CodexTyped, ChildLives, WaitsAtChild, NewProcessRests, HandlesOtherEffect,
     SameProcesses, SameStates, SameTodo, SameLines, SameClient, SameBut, Awaits
<1>9. ASSUME NEW c \in Processes, AnswersInitializeEffect(c) PROVE ChildLives'
  BY <1>9 DEF CodexTyped, ChildLives, WaitsAtChild, NewProcessRests, AnswersInitializeEffect,
     SameTodo, SameClient, StateSet, LinePrinted, Awaits
<1>10. ASSUME NEW c \in Processes, NEW t \in Turns, TurnBeginsEffect(c, t) PROVE ChildLives'
  BY <1>10 DEF CodexTyped, ChildLives, WaitsAtChild, NewProcessRests, TurnBeginsEffect,
     SameProcesses, SameStates, SameTodo, SameLines, SameClient, Awaits
<1>11. ASSUME NEW c \in Processes, NEW t \in Turns, AnswersEffect(c, t) PROVE ChildLives'
  BY <1>11 DEF CodexTyped, ChildLives, WaitsAtChild, NewProcessRests, AnswersEffect, SameStates,
     SameClient, LinePrinted, Awaits
<1>12. ASSUME NEW t \in Turns, TurnSaysEffect(t) PROVE ChildLives'
  BY <1>12 DEF CodexTyped, ChildLives, WaitsAtChild, NewProcessRests, TurnSaysEffect,
     SameStates, SameTodo, SameClient, LinePrinted, Awaits
<1>13. ASSUME NEW c \in Processes, PrintsInvalidEffect(c) PROVE ChildLives'
  BY <1>13 DEF CodexTyped, ChildLives, WaitsAtChild, NewProcessRests, PrintsInvalidEffect,
     SameStates, SameTodo, SameClient, LinePrinted, Awaits
<1>14. ASSUME NEW c \in Processes, ProcessEndsEffect(c) PROVE ChildLives'
  BY <1>14 DEF CodexTyped, ChildLives, WaitsAtChild, NewProcessRests, ProcessEndsEffect,
     SameTodo, SameLines, SameClient, StateSet, TurnsLost, Awaits
<1>15. ASSUME NEW t \in Turns, NEW kind \in {"thread", "turn", "read"}, RequestSentEffect(t, kind)
       PROVE  ChildLives'
  BY <1>15 DEF CodexTyped, ChildLives, WaitsAtChild, NewProcessRests, RequestSentEffect,
     SameStates, SameLines, SameClient, CallSet, SameBut, AsksFrom, SameUnread, Awaits
<1>16. ASSUME NEW t \in Turns, NEW kind \in {"thread", "turn", "read"}, RequestRefusedEffect(t, kind)
       PROVE  ChildLives'
  BY <1>16 DEF CodexTyped, ChildLives, WaitsAtChild, NewProcessRests, RequestRefusedEffect,
     SameProcesses, SameStates, SameTodo, SameLines, SameClient, SameBut, AsksFrom, SameUnread,
     Awaits
<1>17. ASSUME NEW t \in Turns, NEW kind \in {"thread", "turn", "read"}, RequestWaitsEffect(t, kind)
       PROVE  ChildLives'
  BY <1>17 DEF CodexTyped, ChildLives, WaitsAtChild, NewProcessRests, RequestWaitsEffect,
     SameProcesses, SameStates, SameTodo, SameLines, SameClient, CallSet, SameBut, AsksFrom,
     SameUnread, Awaits
<1>18. ASSUME NEW t \in Turns, NEW kind \in {"thread", "turn", "read"}, ProcessStartsEffect(t, kind)
       PROVE  ChildLives'
  BY SMTT(30), <1>18 DEF CodexTyped, ChildLives, WaitsAtChild, NewProcessRests,
     ProcessStartsEffect, SameTodo, SameLines, StateSet, CallSet, SameBut, AsksFrom, SameUnread,
     Awaits
<1>19. CASE UNCHANGED codexVars
  BY <1>19 DEF codexVars, ChildLives, Awaits
<1>. QED
  BY <1>1, <1>2, <1>3, <1>4, <1>5, <1>6, <1>7, <1>8, <1>9, <1>10, <1>11, <1>12, <1>13, <1>14,
     <1>15, <1>16, <1>17, <1>18, <1>19 DEF Effects

\* A process that was not spawned has no requests and no lines.
LEMMA NewProcessRestsKept ==
  ASSUME CodexInv, CodexTyped', Effects
  PROVE  NewProcessRests'
<1>. USE CodexNumbers DEF CodexInv
<1>1. ASSUME NEW c \in Processes, SpawnFailsEffect(c) PROVE NewProcessRests'
  BY <1>1 DEF CodexTyped, NewProcessRests, ChildLives, WaitsAtChild, SpawnFailsEffect, SameTodo,
     SameLines, StateSet, WaitersRejected, SameUnread, TurnsLost, ClientClosed, Awaits
<1>2. ASSUME NEW c \in Processes, ExitEventEffect(c) PROVE NewProcessRests'
  BY <1>2 DEF CodexTyped, NewProcessRests, ChildLives, WaitsAtChild, ExitEventEffect, SameLines,
     StateSet, WaitersRejected, SameUnread, Awaits
<1>3. ASSUME NEW c \in Processes, InitializedEffect(c) PROVE NewProcessRests'
  BY <1>3 DEF CodexTyped, NewProcessRests, ChildLives, WaitsAtChild, InitializedEffect,
     SameStates, LineRead, SameUnread, Awaits
<1>4. ASSUME NEW c \in Processes, InitializeRefusedEffect(c) PROVE NewProcessRests'
  BY <1>4 DEF CodexTyped, NewProcessRests, ChildLives, WaitsAtChild, InitializeRefusedEffect,
     SameStates, SameTodo, LineRead, WaitersRejected, SameUnread, TurnsLost, ClientClosed,
     ChildEnds, Awaits
<1>5. ASSUME NEW c \in Processes, AnswerArrivesEffect(c) PROVE NewProcessRests'
  BY <1>5 DEF CodexTyped, NewProcessRests, ChildLives, WaitsAtChild, AnswerArrivesEffect,
     SameStates, SameTodo, SameClient, LineRead, SameUnread, IsAnswered, Awaits
<1>6. ASSUME NEW c \in Processes, NotificationArrivesEffect(c) PROVE NewProcessRests'
  BY <1>6 DEF CodexTyped, NewProcessRests, ChildLives, WaitsAtChild, NotificationArrivesEffect,
     SameStates, SameTodo, SameClient, LineRead, Awaits, Listens
<1>7. ASSUME NEW c \in Processes, InvalidArrivesEffect(c) PROVE NewProcessRests'
  BY <1>7 DEF CodexTyped, NewProcessRests, ChildLives, WaitsAtChild, InvalidArrivesEffect,
     SameStates, SameTodo, SameClient, LineRead, WaitersRejected, SameUnread, TurnsLost,
     ClientClosed, ChildEnds, Awaits
<1>8. ASSUME NEW t \in Turns, HandlesOtherEffect(t) PROVE NewProcessRests'
  BY <1>8 DEF CodexTyped, NewProcessRests, ChildLives, WaitsAtChild, HandlesOtherEffect,
     SameProcesses, SameStates, SameTodo, SameLines, SameClient, SameBut, Awaits
<1>9. ASSUME NEW c \in Processes, AnswersInitializeEffect(c) PROVE NewProcessRests'
  BY <1>9 DEF CodexTyped, NewProcessRests, ChildLives, WaitsAtChild, AnswersInitializeEffect,
     SameTodo, SameClient, StateSet, LinePrinted, Awaits
<1>10. ASSUME NEW c \in Processes, NEW t \in Turns, TurnBeginsEffect(c, t) PROVE NewProcessRests'
  BY <1>10 DEF CodexTyped, NewProcessRests, ChildLives, WaitsAtChild, TurnBeginsEffect,
     SameProcesses, SameStates, SameTodo, SameLines, SameClient, Awaits
<1>11. ASSUME NEW c \in Processes, NEW t \in Turns, AnswersEffect(c, t) PROVE NewProcessRests'
  BY <1>11 DEF CodexTyped, NewProcessRests, ChildLives, WaitsAtChild, AnswersEffect, SameStates,
     SameClient, LinePrinted, Awaits
<1>12. ASSUME NEW t \in Turns, TurnSaysEffect(t) PROVE NewProcessRests'
  <2>1. PICK c \in Processes : c = turn[t].at /\ process[c].state \notin {"none", "starting"}
    BY <1>12 DEF TurnsBegin, TurnSaysEffect
  <2>2. PICK line \in Lines : LinePrinted(c, line) /\ line.type = "notification"
    BY <1>12, <2>1 DEF TurnSaysEffect
  <2>3. /\ OnTheWay(c)' = OnTheWay(c) \cup {line}
        /\ \A d \in Processes \ {c} : OnTheWay(d)' = OnTheWay(d)
    BY <2>2, WayPrinted
  <2>4. /\ \A u \in Turns : turn[u].state # "none" => turn'[u].state # "none"
        /\ \A d \in Processes \ {c} : process'[d].lines = process[d].lines
    BY <1>12, <2>2 DEF TurnSaysEffect, LinePrinted
  <2>. QED
    BY <1>12, <2>1, <2>2, <2>3, <2>4 DEF CodexTyped, NewProcessRests, TurnSaysEffect, SameClient,
       SameStates, SameTodo, WaitsAtChild, ChildLives, Awaits
<1>13. ASSUME NEW c \in Processes, PrintsInvalidEffect(c) PROVE NewProcessRests'
  BY <1>13 DEF CodexTyped, NewProcessRests, ChildLives, WaitsAtChild, PrintsInvalidEffect,
     SameStates, SameTodo, SameClient, LinePrinted, Awaits
<1>14. ASSUME NEW c \in Processes, ProcessEndsEffect(c) PROVE NewProcessRests'
  BY <1>14 DEF CodexTyped, NewProcessRests, ChildLives, WaitsAtChild, ProcessEndsEffect,
     SameTodo, SameLines, SameClient, StateSet, TurnsLost, Awaits
<1>15. ASSUME NEW t \in Turns, NEW kind \in {"thread", "turn", "read"}, RequestSentEffect(t, kind)
       PROVE  NewProcessRests'
  BY <1>15 DEF CodexTyped, NewProcessRests, ChildLives, WaitsAtChild, RequestSentEffect,
     SameStates, SameLines, SameClient, CallSet, SameBut, AsksFrom, SameUnread, Awaits
<1>16. ASSUME NEW t \in Turns, NEW kind \in {"thread", "turn", "read"}, RequestRefusedEffect(t, kind)
       PROVE  NewProcessRests'
  BY <1>16 DEF CodexTyped, NewProcessRests, ChildLives, WaitsAtChild, RequestRefusedEffect,
     SameProcesses, SameStates, SameTodo, SameLines, SameClient, SameBut, AsksFrom, SameUnread,
     Awaits
<1>17. ASSUME NEW t \in Turns, NEW kind \in {"thread", "turn", "read"}, RequestWaitsEffect(t, kind)
       PROVE  NewProcessRests'
  BY <1>17 DEF CodexTyped, NewProcessRests, ChildLives, WaitsAtChild, RequestWaitsEffect,
     SameProcesses, SameStates, SameTodo, SameLines, SameClient, CallSet, SameBut, AsksFrom,
     SameUnread, Awaits
<1>18. ASSUME NEW t \in Turns, NEW kind \in {"thread", "turn", "read"}, ProcessStartsEffect(t, kind)
       PROVE  NewProcessRests'
  BY <1>18 DEF CodexTyped, NewProcessRests, ChildLives, WaitsAtChild, ProcessStartsEffect,
     SameTodo, SameLines, StateSet, CallSet, SameBut, AsksFrom, SameUnread, Awaits
<1>19. CASE UNCHANGED codexVars
  BY <1>19 DEF codexVars, NewProcessRests, Awaits
<1>. QED
  BY <1>1, <1>2, <1>3, <1>4, <1>5, <1>6, <1>7, <1>8, <1>9, <1>10, <1>11, <1>12, <1>13, <1>14,
     <1>15, <1>16, <1>17, <1>18, <1>19 DEF Effects

\* A call waits for the client's process only, and is not forgotten by it.
LEMMA WaitsAtChildKept ==
  ASSUME CodexInv, CodexTyped', Effects
  PROVE  WaitsAtChild'
<1>. USE CodexNumbers DEF CodexInv
<1>1. ASSUME NEW c \in Processes, SpawnFailsEffect(c) PROVE WaitsAtChild'
  BY <1>1 DEF CodexTyped, WaitsAtChild, ChildLives, SpawnFailsEffect, SameTodo, SameLines,
     StateSet, WaitersRejected, SameUnread, TurnsLost, ClientClosed, Awaits
<1>2. ASSUME NEW c \in Processes, ExitEventEffect(c) PROVE WaitsAtChild'
  BY <1>2 DEF CodexTyped, WaitsAtChild, ChildLives, ExitEventEffect, SameLines, StateSet,
     WaitersRejected, SameUnread, Awaits
<1>3. ASSUME NEW c \in Processes, InitializedEffect(c) PROVE WaitsAtChild'
  BY <1>3 DEF CodexTyped, WaitsAtChild, ChildLives, InitializedEffect, SameStates, LineRead,
     SameUnread, Awaits
<1>4. ASSUME NEW c \in Processes, InitializeRefusedEffect(c) PROVE WaitsAtChild'
  BY <1>4 DEF CodexTyped, WaitsAtChild, ChildLives, InitializeRefusedEffect, SameStates,
     SameTodo, LineRead, WaitersRejected, SameUnread, TurnsLost, ClientClosed, ChildEnds, Awaits
<1>5. ASSUME NEW c \in Processes, AnswerArrivesEffect(c) PROVE WaitsAtChild'
  BY <1>5 DEF CodexTyped, WaitsAtChild, ChildLives, AnswerArrivesEffect, SameStates, SameTodo,
     SameClient, LineRead, SameUnread, IsAnswered, Awaits
<1>6. ASSUME NEW c \in Processes, NotificationArrivesEffect(c) PROVE WaitsAtChild'
  BY <1>6 DEF CodexTyped, WaitsAtChild, ChildLives, NotificationArrivesEffect, SameStates,
     SameTodo, SameClient, LineRead, Awaits, Listens
<1>7. ASSUME NEW c \in Processes, InvalidArrivesEffect(c) PROVE WaitsAtChild'
  BY <1>7 DEF CodexTyped, WaitsAtChild, ChildLives, InvalidArrivesEffect, SameStates, SameTodo,
     SameClient, LineRead, WaitersRejected, SameUnread, TurnsLost, ClientClosed, ChildEnds, Awaits
<1>8. ASSUME NEW t \in Turns, HandlesOtherEffect(t) PROVE WaitsAtChild'
  BY <1>8 DEF CodexTyped, WaitsAtChild, ChildLives, HandlesOtherEffect, SameProcesses,
     SameStates, SameTodo, SameLines, SameClient, SameBut, Awaits
<1>9. ASSUME NEW c \in Processes, AnswersInitializeEffect(c) PROVE WaitsAtChild'
  BY <1>9 DEF CodexTyped, WaitsAtChild, ChildLives, AnswersInitializeEffect, SameTodo,
     SameClient, StateSet, LinePrinted, Awaits
<1>10. ASSUME NEW c \in Processes, NEW t \in Turns, TurnBeginsEffect(c, t) PROVE WaitsAtChild'
  BY <1>10 DEF CodexTyped, WaitsAtChild, ChildLives, TurnBeginsEffect, SameProcesses,
     SameStates, SameTodo, SameLines, SameClient, Awaits
<1>11. ASSUME NEW c \in Processes, NEW t \in Turns, AnswersEffect(c, t) PROVE WaitsAtChild'
  BY <1>11 DEF CodexTyped, WaitsAtChild, ChildLives, AnswersEffect, SameStates, SameClient,
     LinePrinted, Awaits
<1>12. ASSUME NEW t \in Turns, TurnSaysEffect(t) PROVE WaitsAtChild'
  BY <1>12 DEF CodexTyped, WaitsAtChild, ChildLives, TurnSaysEffect, SameStates, SameTodo,
     SameClient, LinePrinted, Awaits
<1>13. ASSUME NEW c \in Processes, PrintsInvalidEffect(c) PROVE WaitsAtChild'
  BY <1>13 DEF CodexTyped, WaitsAtChild, ChildLives, PrintsInvalidEffect, SameStates, SameTodo,
     SameClient, LinePrinted, Awaits
<1>14. ASSUME NEW c \in Processes, ProcessEndsEffect(c) PROVE WaitsAtChild'
  BY <1>14 DEF CodexTyped, WaitsAtChild, ChildLives, ProcessEndsEffect, SameTodo, SameLines,
     SameClient, StateSet, TurnsLost, Awaits
<1>15. ASSUME NEW t \in Turns, NEW kind \in {"thread", "turn", "read"}, RequestSentEffect(t, kind)
       PROVE  WaitsAtChild'
  BY <1>15 DEF CodexTyped, WaitsAtChild, ChildLives, RequestSentEffect, SameStates, SameLines,
     SameClient, CallSet, SameBut, AsksFrom, SameUnread, Awaits
<1>16. ASSUME NEW t \in Turns, NEW kind \in {"thread", "turn", "read"}, RequestRefusedEffect(t, kind)
       PROVE  WaitsAtChild'
  BY <1>16 DEF CodexTyped, WaitsAtChild, ChildLives, RequestRefusedEffect, SameProcesses,
     SameStates, SameTodo, SameLines, SameClient, SameBut, AsksFrom, SameUnread, Awaits
<1>17. ASSUME NEW t \in Turns, NEW kind \in {"thread", "turn", "read"}, RequestWaitsEffect(t, kind)
       PROVE  WaitsAtChild'
  BY <1>17 DEF CodexTyped, WaitsAtChild, ChildLives, RequestWaitsEffect, SameProcesses,
     SameStates, SameTodo, SameLines, SameClient, CallSet, SameBut, AsksFrom, SameUnread, Awaits
<1>18. ASSUME NEW t \in Turns, NEW kind \in {"thread", "turn", "read"}, ProcessStartsEffect(t, kind)
       PROVE  WaitsAtChild'
  BY <1>18 DEF CodexTyped, WaitsAtChild, ChildLives, ProcessStartsEffect, SameTodo, SameLines,
     StateSet, CallSet, SameBut, AsksFrom, SameUnread, Awaits
<1>19. CASE UNCHANGED codexVars
  BY <1>19 DEF codexVars, WaitsAtChild, Awaits
<1>. QED
  BY <1>1, <1>2, <1>3, <1>4, <1>5, <1>6, <1>7, <1>8, <1>9, <1>10, <1>11, <1>12, <1>13, <1>14,
     <1>15, <1>16, <1>17, <1>18, <1>19 DEF Effects

\* A call asks for its thread, its turn and its thread again, in this order.
LEMMA KindsInOrderKept ==
  ASSUME CodexInv, CodexTyped', Effects
  PROVE  KindsInOrder'
<1>. USE CodexNumbers DEF CodexInv
<1>1. ASSUME NEW c \in Processes, SpawnFailsEffect(c) PROVE KindsInOrder'
  BY <1>1, WaySame DEF CodexTyped, KindsInOrder, ResultsOfTurns, SpawnFailsEffect, SameTodo,
     StateSet, WaitersRejected, SameUnread, TurnsLost, ClientClosed, Awaits
<1>2. ASSUME NEW c \in Processes, ExitEventEffect(c) PROVE KindsInOrder'
  BY <1>2, WaySame DEF CodexTyped, KindsInOrder, ResultsOfTurns, ExitEventEffect, StateSet,
     WaitersRejected, SameUnread, Awaits
<1>3. ASSUME NEW c \in Processes, InitializedEffect(c) PROVE KindsInOrder'
  BY <1>3, WayRead DEF CodexTyped, KindsInOrder, ResultsOfTurns, InitializedEffect, SameStates,
     SameUnread, Awaits
<1>4. ASSUME NEW c \in Processes, InitializeRefusedEffect(c) PROVE KindsInOrder'
  BY <1>4, WayRead DEF CodexTyped, KindsInOrder, ResultsOfTurns, InitializeRefusedEffect,
     SameStates, SameTodo, WaitersRejected, SameUnread, TurnsLost, ClientClosed, ChildEnds, Awaits
<1>5. ASSUME NEW c \in Processes, AnswerArrivesEffect(c) PROVE KindsInOrder'
  BY <1>5, WayRead DEF CodexTyped, KindsInOrder, ResultsOfTurns, AnswerArrivesEffect,
     SameStates, SameTodo, SameClient, SameUnread, IsAnswered, Awaits
<1>6. ASSUME NEW c \in Processes, NotificationArrivesEffect(c) PROVE KindsInOrder'
  BY <1>6, WayRead DEF CodexTyped, KindsInOrder, ResultsOfTurns, NotificationArrivesEffect,
     SameStates, SameTodo, SameClient, Awaits, Listens
<1>7. ASSUME NEW c \in Processes, InvalidArrivesEffect(c) PROVE KindsInOrder'
  BY <1>7, WayRead DEF CodexTyped, KindsInOrder, ResultsOfTurns, InvalidArrivesEffect,
     SameStates, SameTodo, SameClient, WaitersRejected, SameUnread, TurnsLost, ClientClosed,
     ChildEnds, Awaits
<1>8. ASSUME NEW t \in Turns, HandlesOtherEffect(t) PROVE KindsInOrder'
  BY <1>8, WaySame DEF CodexTyped, KindsInOrder, ResultsOfTurns, HandlesOtherEffect,
     SameProcesses, SameStates, SameTodo, SameClient, SameBut, Awaits, OnTheWay
<1>9. ASSUME NEW c \in Processes, AnswersInitializeEffect(c) PROVE KindsInOrder'
  BY <1>9, WayPrinted DEF CodexTyped, KindsInOrder, ResultsOfTurns, AnswersInitializeEffect,
     SameTodo, SameClient, StateSet, Awaits
<1>10. ASSUME NEW c \in Processes, NEW t \in Turns, TurnBeginsEffect(c, t) PROVE KindsInOrder'
  <2>1. call[t].kind \in {"turn", "read"}
    BY <1>10 DEF TurnsAreAsked, TurnBeginsEffect
  <2>. QED BY <1>10, <2>1 DEF KindsInOrder, TurnBeginsEffect
<1>11. ASSUME NEW c \in Processes, NEW t \in Turns, AnswersEffect(c, t) PROVE KindsInOrder'
  BY <1>11, WayPrinted DEF CodexTyped, KindsInOrder, ResultsOfTurns, AnswersEffect, SameStates,
     SameClient, Awaits
<1>12. ASSUME NEW t \in Turns, TurnSaysEffect(t) PROVE KindsInOrder'
  BY <1>12, WayPrinted DEF CodexTyped, KindsInOrder, ResultsOfTurns, TurnSaysEffect, SameStates,
     SameTodo, SameClient, Awaits
<1>13. ASSUME NEW c \in Processes, PrintsInvalidEffect(c) PROVE KindsInOrder'
  BY <1>13, WayPrinted DEF CodexTyped, KindsInOrder, ResultsOfTurns, PrintsInvalidEffect,
     SameStates, SameTodo, SameClient, Awaits
<1>14. ASSUME NEW c \in Processes, ProcessEndsEffect(c) PROVE KindsInOrder'
  BY <1>14, WaySame DEF CodexTyped, KindsInOrder, ResultsOfTurns, ProcessEndsEffect, SameTodo,
     SameClient, StateSet, TurnsLost, Awaits
<1>15. ASSUME NEW t \in Turns, NEW kind \in {"thread", "turn", "read"}, RequestSentEffect(t, kind)
       PROVE  KindsInOrder'
  BY <1>15, WaySame DEF CodexTyped, KindsInOrder, ResultsOfTurns, RequestSentEffect, SameStates,
     SameClient, CallSet, SameBut, AsksFrom, SameUnread, Awaits
<1>16. ASSUME NEW t \in Turns, NEW kind \in {"thread", "turn", "read"}, RequestRefusedEffect(t, kind)
       PROVE  KindsInOrder'
  BY <1>16, WaySame DEF CodexTyped, KindsInOrder, ResultsOfTurns, RequestRefusedEffect,
     SameProcesses, SameStates, SameTodo, SameClient, SameBut, AsksFrom, SameUnread, Awaits,
     OnTheWay
<1>17. ASSUME NEW t \in Turns, NEW kind \in {"thread", "turn", "read"}, RequestWaitsEffect(t, kind)
       PROVE  KindsInOrder'
  BY <1>17, WaySame DEF CodexTyped, KindsInOrder, ResultsOfTurns, RequestWaitsEffect,
     SameProcesses, SameStates, SameTodo, SameClient, CallSet, SameBut, AsksFrom, SameUnread,
     Awaits, OnTheWay
<1>18. ASSUME NEW t \in Turns, NEW kind \in {"thread", "turn", "read"}, ProcessStartsEffect(t, kind)
       PROVE  KindsInOrder'
  BY <1>18, WaySame DEF CodexTyped, KindsInOrder, ResultsOfTurns, ProcessStartsEffect, SameTodo,
     StateSet, CallSet, SameBut, AsksFrom, SameUnread, Awaits
<1>19. CASE UNCHANGED codexVars
  BY <1>19 DEF codexVars, KindsInOrder, Awaits, OnTheWay
<1>. QED
  BY <1>1, <1>2, <1>3, <1>4, <1>5, <1>6, <1>7, <1>8, <1>9, <1>10, <1>11, <1>12, <1>13, <1>14,
     <1>15, <1>16, <1>17, <1>18, <1>19 DEF Effects

\* A turn that the app-server is asked for is the one its call waits for.
LEMMA TurnsAreAskedKept ==
  ASSUME CodexInv, CodexTyped', Effects
  PROVE  TurnsAreAsked'
<1>. USE CodexNumbers DEF CodexInv
<1>1. ASSUME NEW c \in Processes, SpawnFailsEffect(c) PROVE TurnsAreAsked'
  BY <1>1 DEF CodexTyped, TurnsAreAsked, WaitsAtChild, KindsInOrder, ChildLives,
     NewProcessRests, SpawnFailsEffect, SameTodo, SameLines, StateSet, WaitersRejected, SameUnread,
     TurnsLost, ClientClosed, Awaits
<1>2. ASSUME NEW c \in Processes, ExitEventEffect(c) PROVE TurnsAreAsked'
  <2>1. /\ \A d \in Processes : process'[d].todo \subseteq process[d].todo
        /\ \A t \in Turns : call'[t].kind = call[t].kind /\ call'[t].at = call[t].at
    BY <1>2 DEF ExitEventEffect, WaitersRejected
  <2>. QED BY <2>1 DEF TurnsAreAsked
<1>3. ASSUME NEW c \in Processes, InitializedEffect(c) PROVE TurnsAreAsked'
  BY <1>3 DEF CodexTyped, TurnsAreAsked, WaitsAtChild, KindsInOrder, ChildLives,
     NewProcessRests, InitializedEffect, SameStates, LineRead, SameUnread, Awaits
<1>4. ASSUME NEW c \in Processes, InitializeRefusedEffect(c) PROVE TurnsAreAsked'
  BY <1>4 DEF CodexTyped, TurnsAreAsked, WaitsAtChild, KindsInOrder, ChildLives,
     NewProcessRests, InitializeRefusedEffect, SameStates, SameTodo, LineRead, WaitersRejected,
     SameUnread, TurnsLost, ClientClosed, ChildEnds, Awaits
<1>5. ASSUME NEW c \in Processes, AnswerArrivesEffect(c) PROVE TurnsAreAsked'
  BY <1>5 DEF CodexTyped, TurnsAreAsked, WaitsAtChild, KindsInOrder, ChildLives,
     NewProcessRests, AnswerArrivesEffect, SameStates, SameTodo, SameClient, LineRead, SameUnread,
     IsAnswered, Awaits
<1>6. ASSUME NEW c \in Processes, NotificationArrivesEffect(c) PROVE TurnsAreAsked'
  BY <1>6 DEF CodexTyped, TurnsAreAsked, WaitsAtChild, KindsInOrder, ChildLives,
     NewProcessRests, NotificationArrivesEffect, SameStates, SameTodo, SameClient, LineRead,
     Awaits, Listens
<1>7. ASSUME NEW c \in Processes, InvalidArrivesEffect(c) PROVE TurnsAreAsked'
  BY <1>7 DEF CodexTyped, TurnsAreAsked, WaitsAtChild, KindsInOrder, ChildLives,
     NewProcessRests, InvalidArrivesEffect, SameStates, SameTodo, SameClient, LineRead,
     WaitersRejected, SameUnread, TurnsLost, ClientClosed, ChildEnds, Awaits
<1>8. ASSUME NEW t \in Turns, HandlesOtherEffect(t) PROVE TurnsAreAsked'
  BY <1>8 DEF CodexTyped, TurnsAreAsked, WaitsAtChild, KindsInOrder, ChildLives,
     NewProcessRests, HandlesOtherEffect, SameProcesses, SameStates, SameTodo, SameLines,
     SameClient, SameBut, Awaits
<1>9. ASSUME NEW c \in Processes, AnswersInitializeEffect(c) PROVE TurnsAreAsked'
  BY <1>9 DEF CodexTyped, TurnsAreAsked, WaitsAtChild, KindsInOrder, ChildLives,
     NewProcessRests, AnswersInitializeEffect, SameTodo, SameClient, StateSet, LinePrinted, Awaits
<1>10. ASSUME NEW c \in Processes, NEW t \in Turns, TurnBeginsEffect(c, t) PROVE TurnsAreAsked'
  BY <1>10 DEF CodexTyped, TurnsAreAsked, WaitsAtChild, KindsInOrder, ChildLives,
     NewProcessRests, TurnBeginsEffect, SameProcesses, SameStates, SameTodo, SameLines, SameClient,
     Awaits
<1>11. ASSUME NEW c \in Processes, NEW t \in Turns, AnswersEffect(c, t) PROVE TurnsAreAsked'
  BY <1>11 DEF CodexTyped, TurnsAreAsked, WaitsAtChild, KindsInOrder, ChildLives,
     NewProcessRests, AnswersEffect, SameStates, SameClient, LinePrinted, Awaits
<1>12. ASSUME NEW t \in Turns, TurnSaysEffect(t) PROVE TurnsAreAsked'
  BY <1>12 DEF CodexTyped, TurnsAreAsked, WaitsAtChild, KindsInOrder, ChildLives,
     NewProcessRests, TurnSaysEffect, SameStates, SameTodo, SameClient, LinePrinted, Awaits
<1>13. ASSUME NEW c \in Processes, PrintsInvalidEffect(c) PROVE TurnsAreAsked'
  BY <1>13 DEF CodexTyped, TurnsAreAsked, WaitsAtChild, KindsInOrder, ChildLives,
     NewProcessRests, PrintsInvalidEffect, SameStates, SameTodo, SameClient, LinePrinted, Awaits
<1>14. ASSUME NEW c \in Processes, ProcessEndsEffect(c) PROVE TurnsAreAsked'
  BY <1>14 DEF CodexTyped, TurnsAreAsked, WaitsAtChild, KindsInOrder, ChildLives,
     NewProcessRests, ProcessEndsEffect, SameTodo, SameLines, SameClient, StateSet, TurnsLost,
     Awaits
<1>15. ASSUME NEW t \in Turns, NEW kind \in {"thread", "turn", "read"}, RequestSentEffect(t, kind)
       PROVE  TurnsAreAsked'
  BY <1>15 DEF CodexTyped, TurnsAreAsked, WaitsAtChild, KindsInOrder, ChildLives,
     NewProcessRests, RequestSentEffect, SameStates, SameLines, SameClient, CallSet, SameBut,
     AsksFrom, SameUnread, Awaits
<1>16. ASSUME NEW t \in Turns, NEW kind \in {"thread", "turn", "read"}, RequestRefusedEffect(t, kind)
       PROVE  TurnsAreAsked'
  BY <1>16 DEF CodexTyped, TurnsAreAsked, WaitsAtChild, KindsInOrder, ChildLives,
     NewProcessRests, RequestRefusedEffect, SameProcesses, SameStates, SameTodo, SameLines,
     SameClient, SameBut, AsksFrom, SameUnread, Awaits
<1>17. ASSUME NEW t \in Turns, NEW kind \in {"thread", "turn", "read"}, RequestWaitsEffect(t, kind)
       PROVE  TurnsAreAsked'
  BY <1>17 DEF CodexTyped, TurnsAreAsked, WaitsAtChild, KindsInOrder, ChildLives,
     NewProcessRests, RequestWaitsEffect, SameProcesses, SameStates, SameTodo, SameLines,
     SameClient, CallSet, SameBut, AsksFrom, SameUnread, Awaits
<1>18. ASSUME NEW t \in Turns, NEW kind \in {"thread", "turn", "read"}, ProcessStartsEffect(t, kind)
       PROVE  TurnsAreAsked'
  BY <1>18 DEF CodexTyped, TurnsAreAsked, WaitsAtChild, KindsInOrder, ChildLives,
     NewProcessRests, ProcessStartsEffect, SameTodo, SameLines, StateSet, CallSet, SameBut,
     AsksFrom, SameUnread, Awaits
<1>19. CASE UNCHANGED codexVars
  BY <1>19 DEF codexVars, TurnsAreAsked, Awaits
<1>. QED
  BY <1>1, <1>2, <1>3, <1>4, <1>5, <1>6, <1>7, <1>8, <1>9, <1>10, <1>11, <1>12, <1>13, <1>14,
     <1>15, <1>16, <1>17, <1>18, <1>19 DEF Effects

\* The answer to a request for a turn comes after the turn has begun.
LEMMA ResultsOfTurnsKept ==
  ASSUME CodexInv, CodexTyped', Effects
  PROVE  ResultsOfTurns'
<1>. USE CodexNumbers DEF CodexInv
<1>1. ASSUME NEW c \in Processes, SpawnFailsEffect(c) PROVE ResultsOfTurns'
  BY <1>1, WaySame DEF CodexTyped, ResultsOfTurns, NewProcessRests, SpawnFailsEffect, SameTodo,
     StateSet, WaitersRejected, SameUnread, TurnsLost, ClientClosed, Awaits
<1>2. ASSUME NEW c \in Processes, ExitEventEffect(c) PROVE ResultsOfTurns'
  BY <1>2, WaySame DEF CodexTyped, ResultsOfTurns, NewProcessRests, ExitEventEffect, StateSet,
     WaitersRejected, SameUnread, Awaits
<1>3. ASSUME NEW c \in Processes, InitializedEffect(c) PROVE ResultsOfTurns'
  BY <1>3, WayRead DEF CodexTyped, ResultsOfTurns, NewProcessRests, InitializedEffect,
     SameStates, SameUnread, Awaits
<1>4. ASSUME NEW c \in Processes, InitializeRefusedEffect(c) PROVE ResultsOfTurns'
  BY <1>4, WayRead DEF CodexTyped, ResultsOfTurns, NewProcessRests, InitializeRefusedEffect,
     SameStates, SameTodo, WaitersRejected, SameUnread, TurnsLost, ClientClosed, ChildEnds, Awaits
<1>5. ASSUME NEW c \in Processes, AnswerArrivesEffect(c) PROVE ResultsOfTurns'
  BY <1>5, WayRead DEF CodexTyped, ResultsOfTurns, NewProcessRests, AnswerArrivesEffect,
     SameStates, SameTodo, SameClient, SameUnread, IsAnswered, Awaits
<1>6. ASSUME NEW c \in Processes, NotificationArrivesEffect(c) PROVE ResultsOfTurns'
  BY <1>6, WayRead DEF CodexTyped, ResultsOfTurns, NewProcessRests, NotificationArrivesEffect,
     SameStates, SameTodo, SameClient, Awaits, Listens
<1>7. ASSUME NEW c \in Processes, InvalidArrivesEffect(c) PROVE ResultsOfTurns'
  BY SMTT(30), <1>7, WayRead DEF CodexTyped, ResultsOfTurns, NewProcessRests,
     InvalidArrivesEffect, SameStates, SameTodo, SameClient, WaitersRejected, SameUnread,
     TurnsLost, ClientClosed, ChildEnds, Awaits
<1>8. ASSUME NEW t \in Turns, HandlesOtherEffect(t) PROVE ResultsOfTurns'
  BY <1>8, WaySame DEF CodexTyped, ResultsOfTurns, NewProcessRests, HandlesOtherEffect,
     SameProcesses, SameStates, SameTodo, SameClient, SameBut, Awaits, OnTheWay
<1>9. ASSUME NEW c \in Processes, AnswersInitializeEffect(c) PROVE ResultsOfTurns'
  BY <1>9, WayPrinted DEF CodexTyped, ResultsOfTurns, NewProcessRests, AnswersInitializeEffect,
     SameTodo, SameClient, StateSet, Awaits
<1>10. ASSUME NEW c \in Processes, NEW t \in Turns, TurnBeginsEffect(c, t) PROVE ResultsOfTurns'
  BY <1>10, WaySame DEF CodexTyped, ResultsOfTurns, NewProcessRests, TurnBeginsEffect,
     SameProcesses, SameStates, SameTodo, SameClient, Awaits, OnTheWay
<1>11. ASSUME NEW c \in Processes, NEW t \in Turns, AnswersEffect(c, t) PROVE ResultsOfTurns'
  BY <1>11, WayPrinted DEF CodexTyped, ResultsOfTurns, NewProcessRests, AnswersEffect,
     SameStates, SameClient, Awaits
<1>12. ASSUME NEW t \in Turns, TurnSaysEffect(t) PROVE ResultsOfTurns'
  <2>1. PICK c \in Processes : c = turn[t].at /\ process[c].state \notin {"none", "starting"}
    BY <1>12 DEF TurnsBegin, TurnSaysEffect
  <2>2. PICK line \in Lines : LinePrinted(c, line) /\ line.type = "notification"
    BY <1>12, <2>1 DEF TurnSaysEffect
  <2>3. /\ OnTheWay(c)' = OnTheWay(c) \cup {line}
        /\ \A d \in Processes \ {c} : OnTheWay(d)' = OnTheWay(d)
    BY <2>2, WayPrinted
  <2>4. /\ \A u \in Turns : turn[u].state # "none" => turn'[u].state # "none"
        /\ \A d \in Processes \ {c} : process'[d].lines = process[d].lines
    BY <1>12, <2>2 DEF TurnSaysEffect, LinePrinted
  <2>. QED
    BY <1>12, <2>1, <2>2, <2>3, <2>4 DEF CodexTyped, ResultsOfTurns, TurnSaysEffect, SameClient,
       SameStates, SameTodo
<1>13. ASSUME NEW c \in Processes, PrintsInvalidEffect(c) PROVE ResultsOfTurns'
  BY <1>13, WayPrinted DEF CodexTyped, ResultsOfTurns, NewProcessRests, PrintsInvalidEffect,
     SameStates, SameTodo, SameClient, Awaits
<1>14. ASSUME NEW c \in Processes, ProcessEndsEffect(c) PROVE ResultsOfTurns'
  BY <1>14, WaySame DEF CodexTyped, ResultsOfTurns, NewProcessRests, ProcessEndsEffect,
     SameTodo, SameClient, StateSet, TurnsLost, Awaits
<1>15. ASSUME NEW t \in Turns, NEW kind \in {"thread", "turn", "read"}, RequestSentEffect(t, kind)
       PROVE  ResultsOfTurns'
  BY <1>15, WaySame DEF CodexTyped, ResultsOfTurns, NewProcessRests, RequestSentEffect,
     SameStates, SameClient, CallSet, SameBut, AsksFrom, SameUnread, Awaits
<1>16. ASSUME NEW t \in Turns, NEW kind \in {"thread", "turn", "read"}, RequestRefusedEffect(t, kind)
       PROVE  ResultsOfTurns'
  BY <1>16, WaySame DEF CodexTyped, ResultsOfTurns, NewProcessRests, RequestRefusedEffect,
     SameProcesses, SameStates, SameTodo, SameClient, SameBut, AsksFrom, SameUnread, Awaits,
     OnTheWay
<1>17. ASSUME NEW t \in Turns, NEW kind \in {"thread", "turn", "read"}, RequestWaitsEffect(t, kind)
       PROVE  ResultsOfTurns'
  BY <1>17, WaySame DEF CodexTyped, ResultsOfTurns, NewProcessRests, RequestWaitsEffect,
     SameProcesses, SameStates, SameTodo, SameClient, CallSet, SameBut, AsksFrom, SameUnread,
     Awaits, OnTheWay
<1>18. ASSUME NEW t \in Turns, NEW kind \in {"thread", "turn", "read"}, ProcessStartsEffect(t, kind)
       PROVE  ResultsOfTurns'
  BY <1>18, WaySame DEF CodexTyped, ResultsOfTurns, NewProcessRests, ProcessStartsEffect,
     SameTodo, StateSet, CallSet, SameBut, AsksFrom, SameUnread, Awaits
<1>19. CASE UNCHANGED codexVars
  BY <1>19 DEF codexVars, ResultsOfTurns, Awaits, OnTheWay
<1>. QED
  BY <1>1, <1>2, <1>3, <1>4, <1>5, <1>6, <1>7, <1>8, <1>9, <1>10, <1>11, <1>12, <1>13, <1>14,
     <1>15, <1>16, <1>17, <1>18, <1>19 DEF Effects

\* A turn has begun at the process that its call asked.
LEMMA TurnsBeginKept ==
  ASSUME CodexInv, CodexTyped', Effects
  PROVE  TurnsBegin'
<1>. USE CodexNumbers DEF CodexInv
<1>1. ASSUME NEW c \in Processes, SpawnFailsEffect(c) PROVE TurnsBegin'
  <2>. SUFFICES ASSUME NEW u \in Turns
                PROVE  /\ turn'[u].state # "none" =>
                            /\ turn'[u].at \in Processes
                            /\ call'[u].kind = "turn" => turn'[u].at = call'[u].at
                            /\ process'[turn'[u].at].state \notin {"none", "starting"}
                            /\ turn'[u].at # child' \/ initialized' = "done"
                       /\ turn'[u].state = "none" => turn'[u].said = 0 /\ call'[u].handled = 0
    BY DEF TurnsBegin
  <2>1. /\ call'[u].kind = call[u].kind /\ call'[u].at = call[u].at
        /\ call'[u].handled = call[u].handled
        /\ turn'[u].at = turn[u].at /\ turn'[u].said = turn[u].said
        /\ turn'[u].state = "none" <=> turn[u].state = "none"
    BY <1>1 DEF SpawnFailsEffect, WaitersRejected, SameUnread, TurnsLost
  <2>2. \A d \in Processes : process'[d].state \in {"none",
  "starting"} => process[d].state \in {"none", "starting"}
    BY <1>1 DEF SpawnFailsEffect, StateSet
  <2>3. child' = NoProcess
    BY <1>1 DEF SpawnFailsEffect, ClientClosed
  <2>. QED BY <2>1, <2>2, <2>3 DEF TurnsBegin
<1>2. ASSUME NEW c \in Processes, ExitEventEffect(c) PROVE TurnsBegin'
  <2>. SUFFICES ASSUME NEW u \in Turns
                PROVE  /\ turn'[u].state # "none" =>
                            /\ turn'[u].at \in Processes
                            /\ call'[u].kind = "turn" => turn'[u].at = call'[u].at
                            /\ process'[turn'[u].at].state \notin {"none", "starting"}
                            /\ turn'[u].at # child' \/ initialized' = "done"
                       /\ turn'[u].state = "none" => turn'[u].said = 0 /\ call'[u].handled = 0
    BY DEF TurnsBegin
  <2>1. /\ call'[u].kind = call[u].kind /\ call'[u].at = call[u].at
        /\ call'[u].handled = call[u].handled
        /\ turn'[u].at = turn[u].at /\ turn'[u].said = turn[u].said
        /\ turn'[u].state = "none" <=> turn[u].state = "none"
    BY <1>2 DEF ExitEventEffect, WaitersRejected, SameUnread, TurnsLost
  <2>2. \A d \in Processes : process'[d].state \in {"none",
  "starting"} => process[d].state \in {"none", "starting"}
    BY <1>2 DEF ExitEventEffect, StateSet
  <2>3. child' = NoProcess
    BY <1>2 DEF ExitEventEffect, ClientClosed
  <2>. QED BY <2>1, <2>2, <2>3 DEF TurnsBegin
<1>3. ASSUME NEW c \in Processes, InitializedEffect(c) PROVE TurnsBegin'
  BY <1>3 DEF CodexTyped, TurnsBegin, KindsInOrder, TurnsAreAsked, NewProcessRests, ChildLives,
     WaitsAtChild, InitializedEffect, SameStates, LineRead, SameUnread, Awaits
<1>4. ASSUME NEW c \in Processes, InitializeRefusedEffect(c) PROVE TurnsBegin'
  <2>. SUFFICES ASSUME NEW u \in Turns
                PROVE  /\ turn'[u].state # "none" =>
                            /\ turn'[u].at \in Processes
                            /\ call'[u].kind = "turn" => turn'[u].at = call'[u].at
                            /\ process'[turn'[u].at].state \notin {"none", "starting"}
                            /\ turn'[u].at # child' \/ initialized' = "done"
                       /\ turn'[u].state = "none" => turn'[u].said = 0 /\ call'[u].handled = 0
    BY DEF TurnsBegin
  <2>1. /\ call'[u].kind = call[u].kind /\ call'[u].at = call[u].at
        /\ call'[u].handled = call[u].handled
        /\ turn'[u].at = turn[u].at /\ turn'[u].said = turn[u].said
        /\ turn'[u].state = "none" <=> turn[u].state = "none"
    BY <1>4 DEF InitializeRefusedEffect, WaitersRejected, SameUnread, TurnsLost
  <2>2. \A d \in Processes : process'[d].state \in {"none",
  "starting"} => process[d].state \in {"none", "starting"}
    BY <1>4 DEF InitializeRefusedEffect, ChildEnds
  <2>3. child' = NoProcess
    BY <1>4 DEF InitializeRefusedEffect, ClientClosed
  <2>. QED BY <2>1, <2>2, <2>3 DEF TurnsBegin
<1>5. ASSUME NEW c \in Processes, AnswerArrivesEffect(c) PROVE TurnsBegin'
  BY <1>5 DEF CodexTyped, TurnsBegin, KindsInOrder, TurnsAreAsked, NewProcessRests, ChildLives,
     WaitsAtChild, AnswerArrivesEffect, SameStates, SameTodo, SameClient, LineRead, SameUnread,
     IsAnswered, Awaits
<1>6. ASSUME NEW c \in Processes, NotificationArrivesEffect(c) PROVE TurnsBegin'
  BY <1>6 DEF CodexTyped, TurnsBegin, KindsInOrder, TurnsAreAsked, NewProcessRests, ChildLives,
     WaitsAtChild, NotificationArrivesEffect, SameStates, SameTodo, SameClient, LineRead, Awaits,
     Listens
<1>7. ASSUME NEW c \in Processes, InvalidArrivesEffect(c) PROVE TurnsBegin'
  BY <1>7 DEF CodexTyped, TurnsBegin, KindsInOrder, TurnsAreAsked, NewProcessRests, ChildLives,
     WaitsAtChild, InvalidArrivesEffect, SameStates, SameTodo, SameClient, LineRead,
     WaitersRejected, SameUnread, TurnsLost, ClientClosed, ChildEnds, Awaits
<1>8. ASSUME NEW t \in Turns, HandlesOtherEffect(t) PROVE TurnsBegin'
  BY <1>8 DEF CodexTyped, TurnsBegin, KindsInOrder, TurnsAreAsked, NewProcessRests, ChildLives,
     WaitsAtChild, HandlesOtherEffect, SameProcesses, SameStates, SameTodo, SameLines, SameClient,
     SameBut, Awaits
<1>9. ASSUME NEW c \in Processes, AnswersInitializeEffect(c) PROVE TurnsBegin'
  BY <1>9 DEF CodexTyped, TurnsBegin, KindsInOrder, TurnsAreAsked, NewProcessRests, ChildLives,
     WaitsAtChild, AnswersInitializeEffect, SameTodo, SameClient, StateSet, LinePrinted, Awaits
<1>10. ASSUME NEW c \in Processes, NEW t \in Turns, TurnBeginsEffect(c, t) PROVE TurnsBegin'
  BY <1>10 DEF CodexTyped, TurnsBegin, KindsInOrder, TurnsAreAsked, NewProcessRests, ChildLives,
     WaitsAtChild, TurnBeginsEffect, SameProcesses, SameStates, SameTodo, SameLines, SameClient,
     Awaits
<1>11. ASSUME NEW c \in Processes, NEW t \in Turns, AnswersEffect(c, t) PROVE TurnsBegin'
  BY <1>11 DEF CodexTyped, TurnsBegin, KindsInOrder, TurnsAreAsked, NewProcessRests, ChildLives,
     WaitsAtChild, AnswersEffect, SameStates, SameClient, LinePrinted, Awaits
<1>12. ASSUME NEW t \in Turns, TurnSaysEffect(t) PROVE TurnsBegin'
  BY <1>12 DEF CodexTyped, TurnsBegin, KindsInOrder, TurnsAreAsked, NewProcessRests, ChildLives,
     WaitsAtChild, TurnSaysEffect, SameStates, SameTodo, SameClient, LinePrinted, Awaits
<1>13. ASSUME NEW c \in Processes, PrintsInvalidEffect(c) PROVE TurnsBegin'
  BY <1>13 DEF CodexTyped, TurnsBegin, KindsInOrder, TurnsAreAsked, NewProcessRests, ChildLives,
     WaitsAtChild, PrintsInvalidEffect, SameStates, SameTodo, SameClient, LinePrinted, Awaits
<1>14. ASSUME NEW c \in Processes, ProcessEndsEffect(c) PROVE TurnsBegin'
  BY <1>14 DEF CodexTyped, TurnsBegin, KindsInOrder, TurnsAreAsked, NewProcessRests, ChildLives,
     WaitsAtChild, ProcessEndsEffect, SameTodo, SameLines, SameClient, StateSet, TurnsLost, Awaits
<1>15. ASSUME NEW t \in Turns, NEW kind \in {"thread", "turn", "read"}, RequestSentEffect(t, kind)
       PROVE  TurnsBegin'
  BY <1>15 DEF CodexTyped, TurnsBegin, KindsInOrder, TurnsAreAsked, NewProcessRests, ChildLives,
     WaitsAtChild, RequestSentEffect, SameStates, SameLines, SameClient, CallSet, SameBut,
     AsksFrom, SameUnread, Awaits
<1>16. ASSUME NEW t \in Turns, NEW kind \in {"thread", "turn", "read"}, RequestRefusedEffect(t, kind)
       PROVE  TurnsBegin'
  BY <1>16 DEF CodexTyped, TurnsBegin, KindsInOrder, TurnsAreAsked, NewProcessRests, ChildLives,
     WaitsAtChild, RequestRefusedEffect, SameProcesses, SameStates, SameTodo, SameLines,
     SameClient, SameBut, AsksFrom, SameUnread, Awaits
<1>17. ASSUME NEW t \in Turns, NEW kind \in {"thread", "turn", "read"}, RequestWaitsEffect(t, kind)
       PROVE  TurnsBegin'
  BY <1>17 DEF CodexTyped, TurnsBegin, KindsInOrder, TurnsAreAsked, NewProcessRests, ChildLives,
     WaitsAtChild, RequestWaitsEffect, SameProcesses, SameStates, SameTodo, SameLines, SameClient,
     CallSet, SameBut, AsksFrom, SameUnread, Awaits
<1>18. ASSUME NEW t \in Turns, NEW kind \in {"thread", "turn", "read"}, ProcessStartsEffect(t, kind)
       PROVE  TurnsBegin'
  BY <1>18 DEF CodexTyped, TurnsBegin, KindsInOrder, TurnsAreAsked, NewProcessRests, ChildLives,
     WaitsAtChild, ProcessStartsEffect, SameTodo, SameLines, StateSet, CallSet, SameBut, AsksFrom,
     SameUnread, Awaits
<1>19. CASE UNCHANGED codexVars
  BY <1>19 DEF codexVars, TurnsBegin, Awaits
<1>. QED
  BY <1>1, <1>2, <1>3, <1>4, <1>5, <1>6, <1>7, <1>8, <1>9, <1>10, <1>11, <1>12, <1>13, <1>14,
     <1>15, <1>16, <1>17, <1>18, <1>19 DEF Effects

\* The notifications of a turn are on the way from its process.
LEMMA LinesOfTurnsKept ==
  ASSUME CodexInv, CodexTyped', Effects
  PROVE  LinesOfTurns'
<1>. USE CodexNumbers DEF CodexInv
<1>1. ASSUME NEW c \in Processes, SpawnFailsEffect(c) PROVE LinesOfTurns'
  BY <1>1, WaySame DEF CodexTyped, LinesOfTurns, TurnsBegin, SpawnFailsEffect, SameTodo,
     StateSet, WaitersRejected, SameUnread, TurnsLost, ClientClosed, Awaits
<1>2. ASSUME NEW c \in Processes, ExitEventEffect(c) PROVE LinesOfTurns'
  <2>1. (\A d \in Processes : OnTheWay(d)' = OnTheWay(d)) /\ turn' = turn
    BY <1>2, WaySame DEF ExitEventEffect
  <2>. QED BY <2>1 DEF LinesOfTurns
<1>3. ASSUME NEW c \in Processes, InitializedEffect(c) PROVE LinesOfTurns'
  BY <1>3, WayRead DEF CodexTyped, LinesOfTurns, TurnsBegin, InitializedEffect, SameStates,
     SameUnread, Awaits
<1>4. ASSUME NEW c \in Processes, InitializeRefusedEffect(c) PROVE LinesOfTurns'
  BY <1>4, WayRead DEF CodexTyped, LinesOfTurns, TurnsBegin, InitializeRefusedEffect,
     SameStates, SameTodo, WaitersRejected, SameUnread, TurnsLost, ClientClosed, ChildEnds, Awaits
<1>5. ASSUME NEW c \in Processes, AnswerArrivesEffect(c) PROVE LinesOfTurns'
  BY <1>5, WayRead DEF CodexTyped, LinesOfTurns, TurnsBegin, AnswerArrivesEffect, SameStates,
     SameTodo, SameClient, SameUnread, IsAnswered, Awaits
<1>6. ASSUME NEW c \in Processes, NotificationArrivesEffect(c) PROVE LinesOfTurns'
  BY <1>6, WayRead DEF CodexTyped, LinesOfTurns, TurnsBegin, NotificationArrivesEffect,
     SameStates, SameTodo, SameClient, Awaits, Listens
<1>7. ASSUME NEW c \in Processes, InvalidArrivesEffect(c) PROVE LinesOfTurns'
  BY <1>7, WayRead DEF CodexTyped, LinesOfTurns, TurnsBegin, InvalidArrivesEffect, SameStates,
     SameTodo, SameClient, WaitersRejected, SameUnread, TurnsLost, ClientClosed, ChildEnds, Awaits
<1>8. ASSUME NEW t \in Turns, HandlesOtherEffect(t) PROVE LinesOfTurns'
  BY <1>8, WaySame DEF CodexTyped, LinesOfTurns, TurnsBegin, HandlesOtherEffect, SameProcesses,
     SameStates, SameTodo, SameClient, SameBut, Awaits, OnTheWay
<1>9. ASSUME NEW c \in Processes, AnswersInitializeEffect(c) PROVE LinesOfTurns'
  BY <1>9, WayPrinted DEF CodexTyped, LinesOfTurns, TurnsBegin, AnswersInitializeEffect,
     SameTodo, SameClient, StateSet, Awaits
<1>10. ASSUME NEW c \in Processes, NEW t \in Turns, TurnBeginsEffect(c, t) PROVE LinesOfTurns'
  BY <1>10, WaySame DEF CodexTyped, LinesOfTurns, TurnsBegin, TurnBeginsEffect, SameProcesses,
     SameStates, SameTodo, SameClient, Awaits, OnTheWay
<1>11. ASSUME NEW c \in Processes, NEW t \in Turns, AnswersEffect(c, t) PROVE LinesOfTurns'
  BY <1>11, WayPrinted DEF CodexTyped, LinesOfTurns, TurnsBegin, AnswersEffect, SameStates,
     SameClient, Awaits
<1>12. ASSUME NEW t \in Turns, TurnSaysEffect(t) PROVE LinesOfTurns'
  BY <1>12, WayPrinted DEF CodexTyped, LinesOfTurns, TurnsBegin, TurnSaysEffect, SameStates,
     SameTodo, SameClient, Awaits
<1>13. ASSUME NEW c \in Processes, PrintsInvalidEffect(c) PROVE LinesOfTurns'
  BY <1>13, WayPrinted DEF CodexTyped, LinesOfTurns, TurnsBegin, PrintsInvalidEffect,
     SameStates, SameTodo, SameClient, Awaits
<1>14. ASSUME NEW c \in Processes, ProcessEndsEffect(c) PROVE LinesOfTurns'
  BY <1>14, WaySame DEF CodexTyped, LinesOfTurns, TurnsBegin, ProcessEndsEffect, SameTodo,
     SameClient, StateSet, TurnsLost, Awaits
<1>15. ASSUME NEW t \in Turns, NEW kind \in {"thread", "turn", "read"}, RequestSentEffect(t, kind)
       PROVE  LinesOfTurns'
  BY <1>15, WaySame DEF CodexTyped, LinesOfTurns, TurnsBegin, RequestSentEffect, SameStates,
     SameClient, CallSet, SameBut, AsksFrom, SameUnread, Awaits
<1>16. ASSUME NEW t \in Turns, NEW kind \in {"thread", "turn", "read"}, RequestRefusedEffect(t, kind)
       PROVE  LinesOfTurns'
  BY <1>16, WaySame DEF CodexTyped, LinesOfTurns, TurnsBegin, RequestRefusedEffect,
     SameProcesses, SameStates, SameTodo, SameClient, SameBut, AsksFrom, SameUnread, Awaits,
     OnTheWay
<1>17. ASSUME NEW t \in Turns, NEW kind \in {"thread", "turn", "read"}, RequestWaitsEffect(t, kind)
       PROVE  LinesOfTurns'
  BY <1>17, WaySame DEF CodexTyped, LinesOfTurns, TurnsBegin, RequestWaitsEffect, SameProcesses,
     SameStates, SameTodo, SameClient, CallSet, SameBut, AsksFrom, SameUnread, Awaits, OnTheWay
<1>18. ASSUME NEW t \in Turns, NEW kind \in {"thread", "turn", "read"}, ProcessStartsEffect(t, kind)
       PROVE  LinesOfTurns'
  BY <1>18, WaySame DEF CodexTyped, LinesOfTurns, TurnsBegin, ProcessStartsEffect, SameTodo,
     StateSet, CallSet, SameBut, AsksFrom, SameUnread, Awaits
<1>19. CASE UNCHANGED codexVars
  BY <1>19 DEF codexVars, LinesOfTurns, Awaits, OnTheWay
<1>. QED
  BY <1>1, <1>2, <1>3, <1>4, <1>5, <1>6, <1>7, <1>8, <1>9, <1>10, <1>11, <1>12, <1>13, <1>14,
     <1>15, <1>16, <1>17, <1>18, <1>19 DEF Effects

\* A call queues the notifications of its turn, and the errors of all.
LEMMA UnreadOfTurnsKept ==
  ASSUME CodexInv, CodexTyped', Effects
  PROVE  UnreadOfTurns'
<1>1. ASSUME NEW c \in Processes, SpawnFailsEffect(c) PROVE UnreadOfTurns'
  BY <1>1 DEF CodexInv, UnreadOfTurns, Queue, SpawnFailsEffect, WaitersRejected, SameUnread,
     TurnsLost
<1>2. ASSUME NEW c \in Processes, ExitEventEffect(c) PROVE UnreadOfTurns'
  BY <1>2 DEF CodexInv, UnreadOfTurns, Queue, ExitEventEffect, WaitersRejected, SameUnread
<1>3. ASSUME NEW c \in Processes, InitializedEffect(c) PROVE UnreadOfTurns'
  BY <1>3 DEF CodexInv, UnreadOfTurns, Queue, InitializedEffect, SameUnread
<1>4. ASSUME NEW c \in Processes, InitializeRefusedEffect(c) PROVE UnreadOfTurns'
  BY <1>4 DEF CodexInv, UnreadOfTurns, Queue, InitializeRefusedEffect, WaitersRejected,
     SameUnread, TurnsLost
<1>5. ASSUME NEW c \in Processes, AnswerArrivesEffect(c) PROVE UnreadOfTurns'
  BY <1>5 DEF CodexInv, UnreadOfTurns, Queue, AnswerArrivesEffect, SameUnread
<1>6. ASSUME NEW c \in Processes, NotificationArrivesEffect(c) PROVE UnreadOfTurns'
  <2>1. PICK line \in Lines : line = Head(process[c].lines)
    BY <1>6, ProcessFields DEF CodexInv, NotificationArrivesEffect, LineRead
  <2>2. line \in OnTheWay(c) /\ line.type = "notification"
    BY <1>6, <2>1, WayRead DEF CodexInv, NotificationArrivesEffect
  <2>3. /\ line.call \in Turns /\ line.what \in {"item", "completed", "error"}
        /\ turn[line.call].state # "none"
    BY <2>2 DEF CodexInv, LinesOfTurns
  <2>. SUFFICES ASSUME NEW t \in Turns, NEW l \in Queue(t)'
                PROVE  /\ l.type = "notification" /\ l.what \in {"item", "completed", "error"}
                       /\ l.call = t => turn'[t].state # "none"
                       /\ l.call = t \/ l.what = "error"
    BY DEF UnreadOfTurns
  <2>4. turn' = turn
    BY <1>6 DEF NotificationArrivesEffect
  <2>5. CASE Listens(call[t]) /\ (line.what = "error" \/ line.call = t)
    <3>1. call'[t].unread = Append(call[t].unread, line)
      BY <1>6, <2>1, <2>5 DEF NotificationArrivesEffect
    <3>2. l \in Queue(t) \/ l = line
      BY <3>1, QueueJoined DEF CodexInv
    <3>. QED BY <2>2, <2>3, <2>4, <2>5, <3>2 DEF CodexInv, UnreadOfTurns
  <2>6. CASE ~ (Listens(call[t]) /\ (line.what = "error" \/ line.call = t))
    <3>1. call'[t].unread = call[t].unread
      BY <1>6, <2>1, <2>6 DEF NotificationArrivesEffect
    <3>2. l \in Queue(t)
      BY <3>1, QueueSame
    <3>. QED BY <2>4, <3>2 DEF CodexInv, UnreadOfTurns
  <2>. QED BY <2>5, <2>6
<1>7. ASSUME NEW c \in Processes, InvalidArrivesEffect(c) PROVE UnreadOfTurns'
  BY <1>7 DEF CodexInv, UnreadOfTurns, Queue, InvalidArrivesEffect, WaitersRejected, SameUnread,
     TurnsLost
<1>8. ASSUME NEW t \in Turns, HandlesOtherEffect(t) PROVE UnreadOfTurns'
  <2>1. \A u \in Turns :
          \/ call'[u].unread = call[u].unread
          \/ call[u].unread # <<>> /\ call'[u].unread = Tail(call[u].unread)
    BY <1>8 DEF HandlesOtherEffect, SameBut
  <2>2. \A u \in Turns : Queue(u)' \subseteq Queue(u)
    BY <2>1, QueueTaken, QueueSame DEF CodexInv
  <2>. QED BY <2>2, <1>8 DEF CodexInv, UnreadOfTurns, HandlesOtherEffect
<1>9. ASSUME NEW c \in Processes, AnswersInitializeEffect(c) PROVE UnreadOfTurns'
  BY <1>9 DEF CodexInv, UnreadOfTurns, Queue, AnswersInitializeEffect
<1>10. ASSUME NEW c \in Processes, NEW t \in Turns, TurnBeginsEffect(c, t) PROVE UnreadOfTurns'
  BY <1>10 DEF CodexInv, UnreadOfTurns, Queue, TurnBeginsEffect
<1>11. ASSUME NEW c \in Processes, NEW t \in Turns, AnswersEffect(c, t) PROVE UnreadOfTurns'
  BY <1>11 DEF CodexInv, UnreadOfTurns, Queue, AnswersEffect
<1>12. ASSUME NEW t \in Turns, TurnSaysEffect(t) PROVE UnreadOfTurns'
  BY <1>12 DEF CodexInv, UnreadOfTurns, Queue, TurnSaysEffect
<1>13. ASSUME NEW c \in Processes, PrintsInvalidEffect(c) PROVE UnreadOfTurns'
  BY <1>13 DEF CodexInv, UnreadOfTurns, Queue, PrintsInvalidEffect
<1>14. ASSUME NEW c \in Processes, ProcessEndsEffect(c) PROVE UnreadOfTurns'
  BY <1>14 DEF CodexInv, UnreadOfTurns, Queue, ProcessEndsEffect, TurnsLost
<1>15. ASSUME NEW t \in Turns, NEW kind \in {"thread", "turn", "read"}, RequestSentEffect(t, kind)
       PROVE  UnreadOfTurns'
  <2>1. \A u \in Turns :
          \/ call'[u].unread = call[u].unread
          \/ call[u].unread # <<>> /\ call'[u].unread = Tail(call[u].unread)
    BY <1>15 DEF RequestSentEffect, CallSet, SameBut, AsksFrom, SameUnread
  <2>2. \A u \in Turns : Queue(u)' \subseteq Queue(u)
    BY <2>1, QueueTaken, QueueSame DEF CodexInv
  <2>. QED BY <2>2, <1>15 DEF CodexInv, UnreadOfTurns, RequestSentEffect
<1>16. ASSUME NEW t \in Turns, NEW kind \in {"thread", "turn", "read"}, RequestRefusedEffect(t, kind)
       PROVE  UnreadOfTurns'
  <2>1. \A u \in Turns :
          \/ call'[u].unread = call[u].unread
          \/ call[u].unread # <<>> /\ call'[u].unread = Tail(call[u].unread)
    BY <1>16 DEF RequestRefusedEffect, SameBut, AsksFrom, SameUnread
  <2>2. \A u \in Turns : Queue(u)' \subseteq Queue(u)
    BY <2>1, QueueTaken, QueueSame DEF CodexInv
  <2>. QED BY <2>2, <1>16 DEF CodexInv, UnreadOfTurns, RequestRefusedEffect
<1>17. ASSUME NEW t \in Turns, NEW kind \in {"thread", "turn", "read"}, RequestWaitsEffect(t, kind)
       PROVE  UnreadOfTurns'
  <2>1. \A u \in Turns :
          \/ call'[u].unread = call[u].unread
          \/ call[u].unread # <<>> /\ call'[u].unread = Tail(call[u].unread)
    BY <1>17 DEF RequestWaitsEffect, CallSet, SameBut, AsksFrom, SameUnread
  <2>2. \A u \in Turns : Queue(u)' \subseteq Queue(u)
    BY <2>1, QueueTaken, QueueSame DEF CodexInv
  <2>. QED BY <2>2, <1>17 DEF CodexInv, UnreadOfTurns, RequestWaitsEffect
<1>18. ASSUME NEW t \in Turns, NEW kind \in {"thread", "turn", "read"}, ProcessStartsEffect(t, kind)
       PROVE  UnreadOfTurns'
  <2>1. \A u \in Turns :
          \/ call'[u].unread = call[u].unread
          \/ call[u].unread # <<>> /\ call'[u].unread = Tail(call[u].unread)
    BY <1>18 DEF ProcessStartsEffect, CallSet, SameBut, AsksFrom, SameUnread
  <2>2. \A u \in Turns : Queue(u)' \subseteq Queue(u)
    BY <2>1, QueueTaken, QueueSame DEF CodexInv
  <2>. QED BY <2>2, <1>18 DEF CodexInv, UnreadOfTurns, ProcessStartsEffect
<1>19. CASE UNCHANGED codexVars
  BY <1>19 DEF CodexInv, codexVars, UnreadOfTurns, Queue
<1>. QED
  BY <1>1, <1>2, <1>3, <1>4, <1>5, <1>6, <1>7, <1>8, <1>9, <1>10, <1>11, <1>12, <1>13, <1>14,
     <1>15, <1>16, <1>17, <1>18, <1>19 DEF Effects

\* What a call waits for is still to come.
LEMMA AnswersAreComingKept ==
  ASSUME CodexInv, CodexTyped', Effects
  PROVE  AnswersAreComing'
<1>. USE CodexNumbers DEF CodexInv
<1>1. ASSUME NEW c \in Processes, SpawnFailsEffect(c) PROVE AnswersAreComing'
  BY <1>1, WaySame DEF CodexTyped, AnswersAreComing, WaitsAtChild, ChildLives, NewProcessRests,
     SpawnFailsEffect, SameTodo, StateSet, WaitersRejected, SameUnread, TurnsLost, ClientClosed,
     Awaits
<1>2. ASSUME NEW c \in Processes, ExitEventEffect(c) PROVE AnswersAreComing'
  BY <1>2, WaySame DEF CodexTyped, AnswersAreComing, WaitsAtChild, ChildLives, NewProcessRests,
     ExitEventEffect, StateSet, WaitersRejected, SameUnread, Awaits
<1>3. ASSUME NEW c \in Processes, InitializedEffect(c) PROVE AnswersAreComing'
  BY <1>3, WayRead DEF CodexTyped, AnswersAreComing, WaitsAtChild, ChildLives, NewProcessRests,
     InitializedEffect, SameStates, SameUnread, Awaits
<1>4. ASSUME NEW c \in Processes, InitializeRefusedEffect(c) PROVE AnswersAreComing'
  BY SMTT(30), <1>4, WayRead DEF CodexTyped, AnswersAreComing, WaitsAtChild, ChildLives,
     NewProcessRests, InitializeRefusedEffect, SameStates, SameTodo, WaitersRejected, SameUnread,
     TurnsLost, ClientClosed, ChildEnds, Awaits
<1>5. ASSUME NEW c \in Processes, AnswerArrivesEffect(c) PROVE AnswersAreComing'
  BY <1>5, WayRead DEF CodexTyped, AnswersAreComing, WaitsAtChild, ChildLives, NewProcessRests,
     AnswerArrivesEffect, SameStates, SameTodo, SameClient, SameUnread, IsAnswered, Awaits
<1>6. ASSUME NEW c \in Processes, NotificationArrivesEffect(c) PROVE AnswersAreComing'
  BY <1>6, WayRead DEF CodexTyped, AnswersAreComing, WaitsAtChild, ChildLives, NewProcessRests,
     NotificationArrivesEffect, SameStates, SameTodo, SameClient, Awaits, Listens
<1>7. ASSUME NEW c \in Processes, InvalidArrivesEffect(c) PROVE AnswersAreComing'
  BY <1>7, WayRead DEF CodexTyped, AnswersAreComing, WaitsAtChild, ChildLives, NewProcessRests,
     InvalidArrivesEffect, SameStates, SameTodo, SameClient, WaitersRejected, SameUnread,
     TurnsLost, ClientClosed, ChildEnds, Awaits
<1>8. ASSUME NEW t \in Turns, HandlesOtherEffect(t) PROVE AnswersAreComing'
  BY <1>8, WaySame DEF CodexTyped, AnswersAreComing, WaitsAtChild, ChildLives, NewProcessRests,
     HandlesOtherEffect, SameProcesses, SameStates, SameTodo, SameClient, SameBut, Awaits, OnTheWay
<1>9. ASSUME NEW c \in Processes, AnswersInitializeEffect(c) PROVE AnswersAreComing'
  BY <1>9, WayPrinted DEF CodexTyped, AnswersAreComing, WaitsAtChild, ChildLives,
     NewProcessRests, AnswersInitializeEffect, SameTodo, SameClient, StateSet, Awaits
<1>10. ASSUME NEW c \in Processes, NEW t \in Turns, TurnBeginsEffect(c, t) PROVE AnswersAreComing'
  BY <1>10, WaySame DEF CodexTyped, AnswersAreComing, WaitsAtChild, ChildLives, NewProcessRests,
     TurnBeginsEffect, SameProcesses, SameStates, SameTodo, SameClient, Awaits, OnTheWay
<1>11. ASSUME NEW c \in Processes, NEW t \in Turns, AnswersEffect(c, t) PROVE AnswersAreComing'
  BY <1>11, WayPrinted DEF CodexTyped, AnswersAreComing, WaitsAtChild, ChildLives,
     NewProcessRests, AnswersEffect, SameStates, SameClient, Awaits
<1>12. ASSUME NEW t \in Turns, TurnSaysEffect(t) PROVE AnswersAreComing'
  <2>1. PICK c \in Processes : c = turn[t].at /\ process[c].state \notin {"none", "starting"}
    BY <1>12 DEF TurnsBegin, TurnSaysEffect
  <2>2. PICK line \in Lines : LinePrinted(c, line) /\ line.type = "notification"
    BY <1>12, <2>1 DEF TurnSaysEffect
  <2>3. /\ OnTheWay(c)' = OnTheWay(c) \cup {line}
        /\ \A d \in Processes \ {c} : OnTheWay(d)' = OnTheWay(d)
    BY <2>2, WayPrinted
  <2>4. /\ \A u \in Turns : turn[u].state # "none" => turn'[u].state # "none"
        /\ \A d \in Processes \ {c} : process'[d].lines = process[d].lines
    BY <1>12, <2>2 DEF TurnSaysEffect, LinePrinted
  <2>. QED
    BY <1>12, <2>1, <2>2, <2>3, <2>4 DEF CodexTyped, AnswersAreComing, TurnSaysEffect, SameClient,
       SameStates, SameTodo, WaitsAtChild, ChildLives, Awaits
<1>13. ASSUME NEW c \in Processes, PrintsInvalidEffect(c) PROVE AnswersAreComing'
  BY <1>13, WayPrinted DEF CodexTyped, AnswersAreComing, WaitsAtChild, ChildLives,
     NewProcessRests, PrintsInvalidEffect, SameStates, SameTodo, SameClient, Awaits
<1>14. ASSUME NEW c \in Processes, ProcessEndsEffect(c) PROVE AnswersAreComing'
  BY <1>14, WaySame DEF CodexTyped, AnswersAreComing, WaitsAtChild, ChildLives, NewProcessRests,
     ProcessEndsEffect, SameTodo, SameClient, StateSet, TurnsLost, Awaits
<1>15. ASSUME NEW t \in Turns, NEW kind \in {"thread", "turn", "read"}, RequestSentEffect(t, kind)
       PROVE  AnswersAreComing'
  BY <1>15, WaySame DEF CodexTyped, AnswersAreComing, WaitsAtChild, ChildLives, NewProcessRests,
     RequestSentEffect, SameStates, SameClient, CallSet, SameBut, AsksFrom, SameUnread, Awaits
<1>16. ASSUME NEW t \in Turns, NEW kind \in {"thread", "turn", "read"}, RequestRefusedEffect(t, kind)
       PROVE  AnswersAreComing'
  BY <1>16, WaySame DEF CodexTyped, AnswersAreComing, WaitsAtChild, ChildLives, NewProcessRests,
     RequestRefusedEffect, SameProcesses, SameStates, SameTodo, SameClient, SameBut, AsksFrom,
     SameUnread, Awaits, OnTheWay
<1>17. ASSUME NEW t \in Turns, NEW kind \in {"thread", "turn", "read"}, RequestWaitsEffect(t, kind)
       PROVE  AnswersAreComing'
  BY <1>17, WaySame DEF CodexTyped, AnswersAreComing, WaitsAtChild, ChildLives, NewProcessRests,
     RequestWaitsEffect, SameProcesses, SameStates, SameTodo, SameClient, CallSet, SameBut,
     AsksFrom, SameUnread, Awaits, OnTheWay
<1>18. ASSUME NEW t \in Turns, NEW kind \in {"thread", "turn", "read"}, ProcessStartsEffect(t, kind)
       PROVE  AnswersAreComing'
  BY <1>18, WaySame DEF CodexTyped, AnswersAreComing, WaitsAtChild, ChildLives, NewProcessRests,
     ProcessStartsEffect, SameTodo, StateSet, CallSet, SameBut, AsksFrom, SameUnread, Awaits
<1>19. CASE UNCHANGED codexVars
  BY <1>19 DEF codexVars, AnswersAreComing, Awaits, OnTheWay
<1>. QED
  BY <1>1, <1>2, <1>3, <1>4, <1>5, <1>6, <1>7, <1>8, <1>9, <1>10, <1>11, <1>12, <1>13, <1>14,
     <1>15, <1>16, <1>17, <1>18, <1>19 DEF Effects

\* A process that runs is the client's, or was forgotten.
LEMMA OthersForgottenKept ==
  ASSUME CodexInv, CodexTyped', Effects
  PROVE  OthersForgotten'
<1>. USE CodexNumbers DEF CodexInv
<1>1. ASSUME NEW c \in Processes, SpawnFailsEffect(c) PROVE OthersForgotten'
  BY <1>1 DEF CodexTyped, OthersForgotten, ChildLives, NewProcessRests, SpawnFailsEffect,
     SameTodo, SameLines, StateSet, WaitersRejected, SameUnread, TurnsLost, ClientClosed, Awaits
<1>2. ASSUME NEW c \in Processes, ExitEventEffect(c) PROVE OthersForgotten'
  BY <1>2 DEF CodexTyped, OthersForgotten, ChildLives, NewProcessRests, ExitEventEffect,
     SameLines, StateSet, WaitersRejected, SameUnread, Awaits
<1>3. ASSUME NEW c \in Processes, InitializedEffect(c) PROVE OthersForgotten'
  BY <1>3 DEF CodexTyped, OthersForgotten, ChildLives, NewProcessRests, InitializedEffect,
     SameStates, LineRead, SameUnread, Awaits
<1>4. ASSUME NEW c \in Processes, InitializeRefusedEffect(c) PROVE OthersForgotten'
  BY <1>4 DEF CodexTyped, OthersForgotten, ChildLives, NewProcessRests, InitializeRefusedEffect,
     SameStates, SameTodo, LineRead, WaitersRejected, SameUnread, TurnsLost, ClientClosed,
     ChildEnds, Awaits
<1>5. ASSUME NEW c \in Processes, AnswerArrivesEffect(c) PROVE OthersForgotten'
  BY <1>5 DEF CodexTyped, OthersForgotten, ChildLives, NewProcessRests, AnswerArrivesEffect,
     SameStates, SameTodo, SameClient, LineRead, SameUnread, IsAnswered, Awaits
<1>6. ASSUME NEW c \in Processes, NotificationArrivesEffect(c) PROVE OthersForgotten'
  BY <1>6 DEF CodexTyped, OthersForgotten, ChildLives, NewProcessRests,
     NotificationArrivesEffect, SameStates, SameTodo, SameClient, LineRead, Awaits, Listens
<1>7. ASSUME NEW c \in Processes, InvalidArrivesEffect(c) PROVE OthersForgotten'
  BY <1>7 DEF CodexTyped, OthersForgotten, ChildLives, NewProcessRests, InvalidArrivesEffect,
     SameStates, SameTodo, SameClient, LineRead, WaitersRejected, SameUnread, TurnsLost,
     ClientClosed, ChildEnds, Awaits
<1>8. ASSUME NEW t \in Turns, HandlesOtherEffect(t) PROVE OthersForgotten'
  BY <1>8 DEF CodexTyped, OthersForgotten, ChildLives, NewProcessRests, HandlesOtherEffect,
     SameProcesses, SameStates, SameTodo, SameLines, SameClient, SameBut, Awaits
<1>9. ASSUME NEW c \in Processes, AnswersInitializeEffect(c) PROVE OthersForgotten'
  BY <1>9 DEF CodexTyped, OthersForgotten, ChildLives, NewProcessRests, AnswersInitializeEffect,
     SameTodo, SameClient, StateSet, LinePrinted, Awaits
<1>10. ASSUME NEW c \in Processes, NEW t \in Turns, TurnBeginsEffect(c, t) PROVE OthersForgotten'
  BY <1>10 DEF CodexTyped, OthersForgotten, ChildLives, NewProcessRests, TurnBeginsEffect,
     SameProcesses, SameStates, SameTodo, SameLines, SameClient, Awaits
<1>11. ASSUME NEW c \in Processes, NEW t \in Turns, AnswersEffect(c, t) PROVE OthersForgotten'
  BY <1>11 DEF CodexTyped, OthersForgotten, ChildLives, NewProcessRests, AnswersEffect,
     SameStates, SameClient, LinePrinted, Awaits
<1>12. ASSUME NEW t \in Turns, TurnSaysEffect(t) PROVE OthersForgotten'
  BY <1>12 DEF CodexTyped, OthersForgotten, ChildLives, NewProcessRests, TurnSaysEffect,
     SameStates, SameTodo, SameClient, LinePrinted, Awaits
<1>13. ASSUME NEW c \in Processes, PrintsInvalidEffect(c) PROVE OthersForgotten'
  BY <1>13 DEF CodexTyped, OthersForgotten, ChildLives, NewProcessRests, PrintsInvalidEffect,
     SameStates, SameTodo, SameClient, LinePrinted, Awaits
<1>14. ASSUME NEW c \in Processes, ProcessEndsEffect(c) PROVE OthersForgotten'
  BY <1>14 DEF CodexTyped, OthersForgotten, ChildLives, NewProcessRests, ProcessEndsEffect,
     SameTodo, SameLines, SameClient, StateSet, TurnsLost, Awaits
<1>15. ASSUME NEW t \in Turns, NEW kind \in {"thread", "turn", "read"}, RequestSentEffect(t, kind)
       PROVE  OthersForgotten'
  BY <1>15 DEF CodexTyped, OthersForgotten, ChildLives, NewProcessRests, RequestSentEffect,
     SameStates, SameLines, SameClient, CallSet, SameBut, AsksFrom, SameUnread, Awaits
<1>16. ASSUME NEW t \in Turns, NEW kind \in {"thread", "turn", "read"}, RequestRefusedEffect(t, kind)
       PROVE  OthersForgotten'
  BY <1>16 DEF CodexTyped, OthersForgotten, ChildLives, NewProcessRests, RequestRefusedEffect,
     SameProcesses, SameStates, SameTodo, SameLines, SameClient, SameBut, AsksFrom, SameUnread,
     Awaits
<1>17. ASSUME NEW t \in Turns, NEW kind \in {"thread", "turn", "read"}, RequestWaitsEffect(t, kind)
       PROVE  OthersForgotten'
  BY <1>17 DEF CodexTyped, OthersForgotten, ChildLives, NewProcessRests, RequestWaitsEffect,
     SameProcesses, SameStates, SameTodo, SameLines, SameClient, CallSet, SameBut, AsksFrom,
     SameUnread, Awaits
<1>18. ASSUME NEW t \in Turns, NEW kind \in {"thread", "turn", "read"}, ProcessStartsEffect(t, kind)
       PROVE  OthersForgotten'
  BY <1>18 DEF CodexTyped, OthersForgotten, ChildLives, NewProcessRests, ProcessStartsEffect,
     SameTodo, SameLines, StateSet, CallSet, SameBut, AsksFrom, SameUnread, Awaits
<1>19. CASE UNCHANGED codexVars
  BY <1>19 DEF codexVars, OthersForgotten, Awaits
<1>. QED
  BY <1>1, <1>2, <1>3, <1>4, <1>5, <1>6, <1>7, <1>8, <1>9, <1>10, <1>11, <1>12, <1>13, <1>14,
     <1>15, <1>16, <1>17, <1>18, <1>19 DEF Effects

-----------------------------------------------------------------------------
(***************************************************************************)
(* What a turn says reaches its call.                                      *)
(***************************************************************************)
\* None of what a sequence holds passes.
LEMMA FilterNone ==
  ASSUME NEW S, NEW s \in Seq(S), NEW T, \A e \in Elements(s) : e \notin T
  PROVE  Filter(s, T) = <<>>
<1>1. PICK f \in Seq(S) : f = Filter(s, T)
  BY FilterElements
<1>2. \A e : Contains(s, e) => e \in Elements(s)
  BY DEF Contains, Elements
<1>3. \A e : ~ Contains(f, e)
  BY <1>1, <1>2, FilterElements
<1>4. CASE f # <<>>
  <2>1. 1 \in 1 .. Len(f)
    BY <1>4, EmptySeq, LenProperties
  <2>2. Contains(f, f[1])
    BY <2>1 DEF Contains
  <2>. QED BY <1>3, <2>2
<1>. QED BY <1>1, <1>4

\* The notifications of a turn in the queue of its call can be counted.
LEMMA OwnUnreadCounted ==
  ASSUME CodexTyped, NEW t \in Turns
  PROVE  Len(OwnUnread(t)) \in Nat
<1>1. PICK a \in Seq(Lines) : a = call[t].unread
  BY CallFields DEF LineSeqs
<1>2. PICK f \in Seq(Lines) : f = Filter(a, Own(t))
  BY <1>1, FilterElements
<1>. QED BY <1>1, <1>2 DEF OwnUnread

\* The notifications of a turn on the way to its call can be counted.
LEMMA OwnLinesCounted ==
  ASSUME CodexTyped, NEW t \in Turns, turn[t].at \in Processes
  PROVE  Len(OwnLines(t)) \in Nat
<1>1. PICK b \in Seq(Lines) : b = process[turn[t].at].lines
  BY ProcessFields DEF LineSeqs
<1>2. PICK f \in Seq(Lines) : f = Filter(b, Own(t))
  BY <1>1, FilterElements
<1>. QED BY <1>1, <1>2 DEF OwnLines

\* What a turn said and its call has not read, after a step that does not concern it.
LEMMA OwnSame ==
  ASSUME NEW t \in Turns, NEW c, c = turn[t].at, turn'[t].at = c, process'[c].lines = process[c].lines
  PROVE  OwnLines(t)' = OwnLines(t)
BY DEF OwnLines

\* What a turn said and its call has queued, while the queue stays.
LEMMA OwnUnreadSame ==
  ASSUME NEW t \in Turns, call'[t].unread = call[t].unread
  PROVE  OwnUnread(t)' = OwnUnread(t)
BY DEF OwnUnread

\* The notifications of a turn that are on the way, after a line is read.
LEMMA OwnRead ==
  ASSUME CodexTyped, NEW c \in Processes, LineRead(c),
         NEW t \in Turns, turn[t].at \in Processes, turn'[t].at = turn[t].at,
         turn[t].at # c \/ Head(process[c].lines) \notin Own(t)
  PROVE  OwnLines(t)' = OwnLines(t)
<1>1. CASE turn[t].at # c
  BY <1>1, OwnSame DEF LineRead
<1>2. CASE turn[t].at = c /\ Head(process[c].lines) \notin Own(t)
  <2>1. PICK s \in Seq(Lines) : s = process[c].lines
    BY ProcessFields DEF LineSeqs
  <2>2. Filter(s, Own(t)) = Filter(Tail(s), Own(t))
    BY <1>2, <2>1, FilterTail DEF LineRead
  <2>. QED BY <1>2, <2>1, <2>2 DEF OwnLines, LineRead
<1>. QED BY <1>1, <1>2

\* The notifications of a turn that are on the way, after a line is printed.
LEMMA OwnPrinted ==
  ASSUME CodexTyped, NEW c \in Processes, NEW line \in Lines, LinePrinted(c, line),
         NEW t \in Turns, turn[t].at \in Processes, turn'[t].at = turn[t].at,
         turn[t].at # c \/ line \notin Own(t)
  PROVE  OwnLines(t)' = OwnLines(t)
<1>1. CASE turn[t].at # c
  BY <1>1, OwnSame DEF LinePrinted
<1>2. CASE turn[t].at = c /\ line \notin Own(t)
  <2>1. PICK s \in Seq(Lines) : s = process[c].lines
    BY ProcessFields DEF LineSeqs
  <2>2. Filter(Append(s, line), Own(t)) = Filter(s, Own(t))
    BY <1>2, FilterAppend
  <2>. QED BY <1>2, <2>1, <2>2 DEF OwnLines, LinePrinted
<1>. QED BY <1>1, <1>2

\* A line that is no notification is of no turn.
LEMMA OwnIsNotification ==
  ASSUME NEW t \in Turns, NEW line \in Own(t)
  PROVE  line.type = "notification" /\ line.call = t /\ line.what \in {"item", "completed", "error"}
BY DEF Own, Line

\* A notification of a turn is one of its own.
LEMMA NotificationIsOwn ==
  ASSUME NEW t \in Turns, NEW line \in Lines, line.type = "notification", line.call = t,
         line.what \in {"item", "completed", "error"}
  PROVE  line \in Own(t)
BY DEF Own, Line, Lines

\* A step that does not concern a turn, or loses it.
LEMMA FollowedStill ==
  ASSUME NEW t \in Turns, IsFollowed(t),
         Hears(t)' /\ turn'[t].state # "none" =>
           /\ Hears(t) /\ turn'[t].at = turn[t].at /\ turn[t].at \notin muted'
           /\ turn[t].state # "none"
           /\ turn'[t].state \in {turn[t].state, "lost"} /\ turn'[t].said = turn[t].said
           /\ call'[t].handled = call[t].handled
           /\ OwnLines(t)' = OwnLines(t) /\ OwnUnread(t)' = OwnUnread(t)
  PROVE  IsFollowed(t)'
BY DEF IsFollowed

\* A call whose wait is rejected hears no turn any more.
LEMMA RejectedHears ==
  ASSUME CodexTyped, WaitersRejected, NEW t \in Turns, Hears(t)'
  PROVE  /\ call[t].step = "following" /\ Hears(t)
         /\ call'[t].handled = call[t].handled /\ OwnUnread(t)' = OwnUnread(t)
BY OwnUnreadSame DEF WaitersRejected, SameUnread, Hears, Awaits

\* A client that is closed mutes its child only.
LEMMA ClosedMutes ==
  ASSUME CodexTyped, ChildLives, child # NoProcess, ClientClosed
  PROVE  muted' = muted \cup {child}
BY CodexNumbers DEF ClientClosed, ChildLives

\* A line that is no notification is read.
LEMMA SilentRead ==
  ASSUME CodexTyped, NEW c \in Processes, LineRead(c), Head(process[c].lines).type # "notification",
         NEW t \in Turns, turn[t].at \in Processes, turn'[t].at = turn[t].at
  PROVE  OwnLines(t)' = OwnLines(t)
BY OwnRead, OwnIsNotification

\* What a call has handled, has in its queue and has on the way to it is what its turn said.
LEMMA TurnsAreFollowedKept ==
  ASSUME CodexInv, CodexTyped', Effects
  PROVE  TurnsAreFollowed'
<1>. USE CodexNumbers DEF CodexInv
<1>. SUFFICES ASSUME NEW t \in Turns PROVE IsFollowed(t)'
  BY DEF TurnsAreFollowed
<1>a. /\ IsFollowed(t)
      /\ turn[t].state # "none" =>
           /\ turn[t].at \in Processes /\ process[turn[t].at].state \notin {"none", "starting"}
           /\ turn[t].at # child \/ initialized = "done"
      /\ call[t].step = "following" => turn[t].state # "none"
  BY DEF TurnsAreFollowed, TurnsBegin, KindsInOrder
<1>. DEFINE Still == /\ Hears(t) /\ turn'[t].at = turn[t].at /\ turn[t].at \notin muted'
                     /\ turn[t].state # "none"
                     /\ turn'[t].state \in {turn[t].state, "lost"} /\ turn'[t].said = turn[t].said
                     /\ call'[t].handled = call[t].handled
                     /\ OwnLines(t)' = OwnLines(t) /\ OwnUnread(t)' = OwnUnread(t)
<1>s. (Hears(t)' /\ turn'[t].state # "none" => Still) => IsFollowed(t)'
  BY <1>a, FollowedStill
<1>m. Hears(t) /\ turn[t].state # "none" => turn[t].at \notin muted
  BY <1>a DEF IsFollowed
<1>. HIDE DEF Still
<1>1. ASSUME NEW c \in Processes, SpawnFailsEffect(c) PROVE IsFollowed(t)'
  <2>. SUFFICES ASSUME Hears(t)', turn'[t].state # "none" PROVE Still
    BY <1>s
  <2>1. /\ call[t].step = "following" /\ Hears(t)
        /\ call'[t].handled = call[t].handled /\ OwnUnread(t)' = OwnUnread(t)
    BY <1>1, RejectedHears DEF SpawnFailsEffect
  <2>2. /\ turn'[t].at = turn[t].at /\ turn'[t].said = turn[t].said
        /\ turn[t].state # "none" /\ turn'[t].state \in {turn[t].state, "lost"}
    BY <1>1 DEF SpawnFailsEffect, TurnsLost
  <2>3. OwnLines(t)' = OwnLines(t)
    BY <1>1, <1>a, <2>2, OwnSame DEF SpawnFailsEffect, SameLines
  <2>4. muted' = muted \cup {child} /\ turn[t].at # child
    BY <1>1, <1>a, <2>2, ClosedMutes DEF SpawnFailsEffect
  <2>. QED BY <1>m, <2>1, <2>2, <2>3, <2>4 DEF Still
<1>2. ASSUME NEW c \in Processes, ExitEventEffect(c) PROVE IsFollowed(t)'
  <2>. SUFFICES ASSUME Hears(t)', turn'[t].state # "none" PROVE Still
    BY <1>s
  <2>1. /\ call[t].step = "following" /\ Hears(t)
        /\ call'[t].handled = call[t].handled /\ OwnUnread(t)' = OwnUnread(t)
    BY <1>2, RejectedHears DEF ExitEventEffect
  <2>2. turn' = turn
    BY <1>2 DEF ExitEventEffect
  <2>3. OwnLines(t)' = OwnLines(t)
    BY <1>2, <1>a, <2>1, <2>2, OwnSame DEF ExitEventEffect, SameLines
  <2>4. muted' = muted \/ (muted' = muted \cup {child} /\ turn[t].at # child)
    <3>1. ASSUME NEW u \in Turns, call[u].step = "initializing"
          PROVE  initialized = "pending" /\ readline = child /\ child # NoProcess
      BY <3>1 DEF WaitsAtChild, Awaits, ChildLives
    <3>. QED BY <1>2, <1>a, <2>1, <3>1 DEF ExitEventEffect
  <2>. QED BY <1>a, <1>m, <2>1, <2>2, <2>3, <2>4 DEF Still
<1>3. ASSUME NEW c \in Processes, InitializedEffect(c) PROVE IsFollowed(t)'
  <2>. SUFFICES ASSUME Hears(t)', turn'[t].state # "none" PROVE Still
    BY <1>s
  <2>1. /\ Hears(t) /\ call'[t].handled = call[t].handled /\ OwnUnread(t)' = OwnUnread(t)
        /\ turn' = turn /\ muted' = muted
    BY <1>3, OwnUnreadSame DEF InitializedEffect, SameUnread, Hears, Awaits
  <2>2. OwnLines(t)' = OwnLines(t)
    BY <1>3, <1>a, <2>1, SilentRead DEF InitializedEffect
  <2>. QED BY <1>m, <2>1, <2>2 DEF Still
<1>4. ASSUME NEW c \in Processes, InitializeRefusedEffect(c) PROVE IsFollowed(t)'
  <2>. SUFFICES ASSUME Hears(t)', turn'[t].state # "none" PROVE Still
    BY <1>s
  <2>1. Hears(t) /\ call'[t].handled = call[t].handled /\ OwnUnread(t)' = OwnUnread(t)
    <3>1. CASE call' = call
      BY <3>1, OwnUnreadSame DEF Hears, Awaits
    <3>2. CASE WaitersRejected
      BY <3>2, RejectedHears
    <3>. QED BY <1>4, <3>1, <3>2 DEF InitializeRefusedEffect
  <2>2. /\ turn'[t].at = turn[t].at /\ turn'[t].said = turn[t].said
        /\ turn[t].state # "none" /\ turn'[t].state \in {turn[t].state, "lost"}
    BY <1>4 DEF InitializeRefusedEffect, TurnsLost
  <2>3. OwnLines(t)' = OwnLines(t)
    BY <1>4, <1>a, <2>2, SilentRead DEF InitializeRefusedEffect
  <2>4. muted' = muted \/ (muted' = muted \cup {child} /\ turn[t].at # child)
    BY <1>4, <1>a, <2>2, ClosedMutes DEF InitializeRefusedEffect
  <2>. QED BY <1>m, <2>1, <2>2, <2>3, <2>4 DEF Still
<1>5. ASSUME NEW c \in Processes, AnswerArrivesEffect(c) PROVE IsFollowed(t)'
  <2>. SUFFICES ASSUME Hears(t)', turn'[t].state # "none" PROVE Still
    BY <1>s
  <2>1. /\ Hears(t) /\ call'[t].handled = call[t].handled /\ OwnUnread(t)' = OwnUnread(t)
        /\ turn' = turn /\ muted' = muted
    BY <1>5, OwnUnreadSame
       DEF AnswerArrivesEffect, IsAnswered, SameUnread, SameClient, Hears, Awaits
  <2>2. OwnLines(t)' = OwnLines(t)
    BY <1>5, <1>a, <2>1, SilentRead DEF AnswerArrivesEffect
  <2>. QED BY <1>m, <2>1, <2>2 DEF Still
<1>6. ASSUME NEW c \in Processes, NotificationArrivesEffect(c) PROVE IsFollowed(t)'
  <2>. SUFFICES ASSUME Hears(t)', turn'[t].state # "none" PROVE IsFollowed(t)'
    BY DEF IsFollowed
  <2>1. /\ Hears(t) /\ call'[t].handled = call[t].handled /\ turn' = turn /\ muted' = muted
        /\ Listens(call[t])
    BY <1>6 DEF NotificationArrivesEffect, SameClient, Hears, Awaits, Listens
  <2>2. PICK line \in Lines : line = Head(process[c].lines) /\ line.type = "notification"
    BY <1>6, ProcessFields DEF NotificationArrivesEffect, LineRead
  <2>3. /\ line.call \in Turns /\ line.what \in {"item", "completed", "error"}
        /\ turn[line.call].at = c
    BY <1>6, <2>2, WayRead DEF LinesOfTurns, NotificationArrivesEffect
  <2>4. line \in Own(t) <=> line.call = t
    BY <2>2, <2>3, NotificationIsOwn, OwnIsNotification
  <2>5. PICK a \in Seq(Lines) : a = call[t].unread
    BY CallFields DEF LineSeqs
  <2>6. CASE line.call # t
    <3>1. OwnLines(t)' = OwnLines(t)
      BY <1>a, <1>6, <2>1, <2>2, <2>4, <2>6, OwnRead DEF NotificationArrivesEffect
    <3>2. OwnUnread(t)' = OwnUnread(t)
      <4>1. CASE line.what = "error"
        <5>1. call'[t].unread = Append(a, line)
          BY <1>6, <2>1, <2>2, <2>5, <4>1 DEF NotificationArrivesEffect
        <5>2. Filter(Append(a, line), Own(t)) = Filter(a, Own(t))
          BY <2>4, <2>6, FilterAppend
        <5>. QED BY <2>5, <5>1, <5>2 DEF OwnUnread
      <4>2. CASE line.what # "error"
        BY <1>6, <2>1, <2>2, <2>6, <4>2, OwnUnreadSame DEF NotificationArrivesEffect
      <4>. QED BY <4>1, <4>2
    <3>. QED BY <1>m, <1>s, <2>1, <3>1, <3>2 DEF Still
  <2>7. CASE line.call = t
    <3>1. PICK b \in Seq(Lines) : b = process[c].lines /\ b # <<>> /\ Head(b) = line
      BY <1>6, <2>2, ProcessFields DEF LineSeqs, NotificationArrivesEffect, LineRead
    <3>2. /\ OwnLines(t) = Filter(b, Own(t)) /\ OwnLines(t)' = Filter(Tail(b), Own(t))
          /\ OwnUnread(t) = Filter(a, Own(t)) /\ OwnUnread(t)' = Filter(Append(a, line), Own(t))
      <4>1. call'[t].unread = Append(a, line)
        BY <1>6, <2>1, <2>2, <2>5, <2>7 DEF NotificationArrivesEffect
      <4>2. process'[c].lines = Tail(b) /\ turn[t].at = c
        BY <1>6, <2>3, <2>7, <3>1 DEF NotificationArrivesEffect, LineRead
      <4>. QED BY <2>1, <2>5, <3>1, <4>1, <4>2 DEF OwnLines, OwnUnread
    <3>3. PICK f \in Seq(Lines) : f = Filter(a, Own(t)) /\ OwnUnread(t)' = Append(f, line)
      <4>1. /\ Filter(a, Own(t)) \in Seq(Lines)
            /\ Filter(Append(a, line), Own(t)) = Append(Filter(a, Own(t)), line)
        BY <2>4, <2>7, FilterElements, FilterAppend
      <4>. QED BY <3>2, <4>1
    <3>4. /\ Len(OwnUnread(t)') = Len(OwnUnread(t)) + 1 /\ Len(OwnUnread(t)) \in Nat
          /\ OwnUnread(t)' # <<>> /\ Last(OwnUnread(t)') = line
      BY <3>2, <3>3, AppendProperties DEF Last
    <3>5. /\ Len(OwnLines(t)) = 1 + Len(OwnLines(t)') /\ Len(OwnLines(t)') \in Nat
          /\ Last(OwnLines(t)) = IF OwnLines(t)' = <<>> THEN line ELSE Last(OwnLines(t)')
      <4>1. Tail(b) \in Seq(Lines)
        BY <3>1, HeadTailProperties
      <4>2. Filter(Tail(b), Own(t)) \in Seq(Lines)
        BY <4>1, FilterElements
      <4>. QED BY <2>4, <2>7, <3>1, <3>2, <4>2, FilterTail, LenProperties
    <3>6. OwnLines(t) # <<>>
      BY <3>5
    <3>7. call[t].handled \in Nat
      BY CallFields
    <3>8. /\ call[t].handled + Len(OwnUnread(t)) + Len(OwnLines(t)) = turn[t].said
          /\ \/ turn[t].state \in {"running", "lost"}
             \/ Ends(Last(OwnLines(t)))
      BY <1>a, <2>1, <3>6 DEF IsFollowed
    <3>9. call'[t].handled + Len(OwnUnread(t)') + Len(OwnLines(t)') = turn'[t].said
      <4>1. PICK h, a0, b0, a1, b1, n :
              /\ h = call[t].handled /\ a0 = Len(OwnUnread(t)) /\ b0 = Len(OwnLines(t))
              /\ a1 = Len(OwnUnread(t)') /\ b1 = Len(OwnLines(t)') /\ n = turn[t].said
        OBVIOUS
      <4>2. h \in Nat /\ a0 \in Nat /\ b1 \in Nat /\ a1 = a0 + 1 /\ b0 = 1 + b1 /\ h + a0 + b0 = n
        BY <3>4, <3>5, <3>7, <3>8, <4>1
      <4>3. h + a1 + b1 = n
        BY <4>2
      <4>. QED BY <2>1, <4>1, <4>3
    <3>10. \/ turn'[t].state \in {"running", "lost"}
           \/ OwnLines(t)' # <<>> /\ Ends(Last(OwnLines(t)'))
           \/ OwnLines(t)' = <<>> /\ OwnUnread(t)' # <<>> /\ Ends(Last(OwnUnread(t)'))
      BY <2>1, <3>4, <3>5, <3>8
    <3>. QED BY <1>m, <2>1, <3>9, <3>10 DEF IsFollowed, Ends
  <2>. QED BY <2>6, <2>7
<1>7. ASSUME NEW c \in Processes, InvalidArrivesEffect(c) PROVE IsFollowed(t)'
  <2>. SUFFICES ASSUME Hears(t)', turn'[t].state # "none" PROVE Still
    BY <1>s
  <2>1. /\ call[t].step = "following" /\ Hears(t)
        /\ call'[t].handled = call[t].handled /\ OwnUnread(t)' = OwnUnread(t)
    BY <1>7, RejectedHears DEF InvalidArrivesEffect
  <2>2. /\ turn'[t].at = turn[t].at /\ turn'[t].said = turn[t].said
        /\ turn[t].state # "none" /\ turn'[t].state \in {turn[t].state, "lost"}
    BY <1>7, <1>a, <2>1 DEF InvalidArrivesEffect, TurnsLost
  <2>3. OwnLines(t)' = OwnLines(t)
    BY <1>7, <1>a, <2>2, SilentRead DEF InvalidArrivesEffect
  <2>4. muted' = muted \/ (muted' = muted \cup {child} /\ turn[t].at # child)
    <3>1. ASSUME NEW u \in Turns, call[u].step = "initializing"
          PROVE  initialized = "pending" /\ child # NoProcess
      BY <3>1 DEF WaitsAtChild, Awaits
    <3>. QED BY <1>7, <1>a, <2>2, <3>1, ClosedMutes DEF InvalidArrivesEffect, SameClient
  <2>. QED BY <1>m, <2>1, <2>2, <2>3, <2>4 DEF Still
<1>8. ASSUME NEW u \in Turns, HandlesOtherEffect(u) PROVE IsFollowed(t)'
  <2>1. turn' = turn /\ muted' = muted /\ process' = process
    BY <1>8 DEF HandlesOtherEffect, SameClient
  <2>2. OwnLines(t)' = OwnLines(t)
    BY <2>1 DEF OwnLines
  <2>3. CASE u # t
    <3>1. call'[t] = call[t]
      BY <1>8, <2>3 DEF HandlesOtherEffect, SameBut
    <3>2. Hears(t)' /\ turn'[t].state # "none" => Still
      BY <1>m, <2>1, <2>2, <3>1, OwnUnreadSame DEF Hears, Still, Awaits
    <3>. QED BY <1>s, <3>2
  <2>4. CASE u = t
    <3>. SUFFICES ASSUME Hears(t)', turn'[t].state # "none" PROVE IsFollowed(t)'
      BY DEF IsFollowed
    <3>1. PICK a \in Seq(Lines) : a = call[t].unread /\ a # <<>> /\ call'[t].unread = Tail(a)
      BY <1>8, <2>4, CallFields DEF LineSeqs, HandlesOtherEffect
    <3>2. PICK line \in Lines : line = Head(a) /\ line \in Queue(t)
      <4>1. Head(a) \in Elements(a) /\ Elements(a) \subseteq Lines
        BY <3>1, ElementsOf
      <4>. QED BY <3>1, <4>1 DEF Queue
    <3>3. line.what # "completed" /\ line.what # "error" /\ call[t].step = "following"
      BY <1>8, <2>4, <3>1, <3>2 DEF HandlesOtherEffect, Hears, Awaits
    <3>4. line \in Own(t)
      BY <3>2, <3>3, NotificationIsOwn DEF UnreadOfTurns
    <3>5. OwnUnread(t) = Filter(a, Own(t)) /\ OwnUnread(t)' = Filter(Tail(a), Own(t))
      BY <3>1 DEF OwnUnread
    <3>6. /\ Len(OwnUnread(t)) = 1 + Len(OwnUnread(t)') /\ Len(OwnUnread(t)') \in Nat
          /\ Last(OwnUnread(t)) = IF OwnUnread(t)' = <<>> THEN line ELSE Last(OwnUnread(t)')
      <4>1. Tail(a) \in Seq(Lines)
        BY <3>1, HeadTailProperties
      <4>2. Filter(Tail(a), Own(t)) \in Seq(Lines)
        BY <4>1, FilterElements
      <4>. QED BY <3>1, <3>2, <3>4, <3>5, <4>2, FilterTail, LenProperties
    <3>7. call[t].handled \in Nat /\ call'[t].handled = call[t].handled + 1 /\ Hears(t)
      BY <1>8, <2>4, <3>3, CallFields DEF HandlesOtherEffect, Hears
    <3>8. ~ Ends(line)
      BY <3>3 DEF Ends
    <3>9. Len(OwnLines(t)) \in Nat
      BY <1>a, <2>1, OwnLinesCounted
    <3>. QED BY <1>a, <2>1, <2>2, <3>6, <3>7, <3>8, <3>9 DEF IsFollowed, Ends
  <2>. QED BY <2>3, <2>4
<1>9. ASSUME NEW c \in Processes, AnswersInitializeEffect(c) PROVE IsFollowed(t)'
  <2>. SUFFICES ASSUME Hears(t)', turn'[t].state # "none" PROVE Still
    BY <1>s
  <2>1. call' = call /\ turn' = turn /\ muted' = muted /\ Hears(t)
    BY <1>9 DEF AnswersInitializeEffect, SameClient, Hears, Awaits
  <2>2. OwnLines(t)' = OwnLines(t)
    BY <1>9, <1>a, <2>1, OwnPrinted, OwnIsNotification DEF AnswersInitializeEffect
  <2>. QED BY <1>m, <2>1, <2>2, OwnUnreadSame DEF Still
<1>10. ASSUME NEW c \in Processes, NEW u \in Turns, TurnBeginsEffect(c, u) PROVE IsFollowed(t)'
  <2>1. call' = call /\ muted' = muted /\ process' = process
    BY <1>10 DEF TurnBeginsEffect, SameClient
  <2>2. CASE u # t
    <3>1. turn'[t] = turn[t]
      BY <1>10, <2>2 DEF TurnBeginsEffect
    <3>2. Hears(t)' /\ turn'[t].state # "none" => Still
      BY <1>m, <2>1, <3>1, OwnUnreadSame DEF Hears, OwnLines, Still, Awaits
    <3>. QED BY <1>s, <3>2
  <2>3. CASE u = t
    <3>. SUFFICES ASSUME Hears(t)', turn'[t].state # "none" PROVE IsFollowed(t)'
      BY DEF IsFollowed
    <3>1. /\ turn[t].state = "none" /\ turn'[t].state = "running" /\ turn'[t].said = 0
          /\ turn'[t].at = c /\ <<t, "turn">> \in process[c].todo /\ call[t].handled = 0
      BY <1>10, <2>3 DEF TurnBeginsEffect, TurnsBegin
    <3>2. call[t].kind = "turn" /\ Awaits(call[t])
      BY <1>a, <2>1, <3>1 DEF Hears
    <3>3. c = child /\ c \notin muted
      BY <3>1, <3>2 DEF TurnsAreAsked, WaitsAtChild, ChildLives
    <3>4. OwnUnread(t) = <<>>
      <4>1. PICK a \in Seq(Lines) : a = call[t].unread
        BY CallFields DEF LineSeqs
      <4>2. \A line \in Elements(a) : line \notin Own(t)
        BY <3>1, <4>1, OwnIsNotification DEF UnreadOfTurns, Queue
      <4>. QED BY <4>1, <4>2, FilterNone DEF OwnUnread
    <3>5. OwnLines(t)' = <<>>
      <4>1. PICK b \in Seq(Lines) : b = process[c].lines
        BY ProcessFields DEF LineSeqs
      <4>2. \A line \in Elements(b) : line \notin Own(t)
        BY <3>1, <4>1, OwnIsNotification DEF LinesOfTurns, OnTheWay
      <4>. QED BY <2>1, <3>1, <4>1, <4>2, FilterNone DEF OwnLines
    <3>6. OwnUnread(t)' = <<>>
      BY <2>1, <3>4, OwnUnreadSame
    <3>7. Len(OwnUnread(t)') = 0 /\ Len(OwnLines(t)') = 0
      BY <3>5, <3>6
    <3>. QED BY <2>1, <3>1, <3>3, <3>7 DEF IsFollowed
  <2>. QED BY <2>2, <2>3
<1>11. ASSUME NEW c \in Processes, NEW u \in Turns, AnswersEffect(c, u) PROVE IsFollowed(t)'
  <2>. SUFFICES ASSUME Hears(t)', turn'[t].state # "none" PROVE Still
    BY <1>s
  <2>1. call' = call /\ turn' = turn /\ muted' = muted /\ Hears(t)
    BY <1>11 DEF AnswersEffect, SameClient, Hears, Awaits
  <2>2. OwnLines(t)' = OwnLines(t)
    BY <1>11, <1>a, <2>1, OwnPrinted, OwnIsNotification DEF AnswersEffect
  <2>. QED BY <1>m, <2>1, <2>2, OwnUnreadSame DEF Still
<1>12. ASSUME NEW u \in Turns, TurnSaysEffect(u) PROVE IsFollowed(t)'
  <2>. SUFFICES ASSUME Hears(t)', turn'[t].state # "none" PROVE IsFollowed(t)'
    BY DEF IsFollowed
  <2>1. call' = call /\ muted' = muted /\ Hears(t) /\ OwnUnread(t)' = OwnUnread(t)
    BY <1>12, OwnUnreadSame DEF TurnSaysEffect, SameClient, Hears, Awaits
  <2>2. PICK c \in Processes : c = turn[u].at
    BY <1>12 DEF TurnsBegin, TurnSaysEffect
  <2>3. PICK line \in Lines :
          /\ LinePrinted(c, line) /\ line \in Own(u)
          /\ line.call = u /\ line.what \in {"item", "completed", "error"}
          /\ turn'[u].state = IF line.what = "item" THEN "running" ELSE "over"
    BY <1>12, <2>2 DEF TurnSaysEffect
  <2>4. CASE u # t
    <3>1. turn'[t] = turn[t] /\ turn[t].state # "none"
      BY <1>12, <2>4 DEF TurnSaysEffect
    <3>2. OwnLines(t)' = OwnLines(t)
      BY <1>a, <2>3, <2>4, <3>1, OwnPrinted, OwnIsNotification
    <3>. QED BY <1>m, <1>s, <2>1, <3>1, <3>2 DEF Still
  <2>5. CASE u = t
    <3>1. /\ turn[t].state = "running" /\ turn'[t].at = turn[t].at
          /\ turn'[t].said = turn[t].said + 1
      BY <1>12, <2>5 DEF TurnSaysEffect
    <3>2. PICK b \in Seq(Lines) : b = process[c].lines
      BY ProcessFields DEF LineSeqs
    <3>3. OwnLines(t) = Filter(b, Own(t)) /\ OwnLines(t)' = Filter(Append(b, line), Own(t))
      BY <2>2, <2>3, <2>5, <3>1, <3>2 DEF OwnLines, LinePrinted
    <3>4. PICK f \in Seq(Lines) : f = Filter(b, Own(t)) /\ OwnLines(t)' = Append(f, line)
      <4>1. /\ Filter(b, Own(t)) \in Seq(Lines)
            /\ Filter(Append(b, line), Own(t)) = Append(Filter(b, Own(t)), line)
        BY <2>3, <2>5, FilterElements, FilterAppend
      <4>. QED BY <3>3, <4>1
    <3>5. /\ Len(OwnLines(t)') = Len(OwnLines(t)) + 1 /\ Len(OwnLines(t)) \in Nat
          /\ OwnLines(t)' # <<>> /\ Last(OwnLines(t)') = line
      BY <3>3, <3>4, AppendProperties DEF Last
    <3>6. turn'[t].state = "running" \/ Ends(line)
      BY <2>3, <2>5 DEF Ends
    <3>7. call[t].handled \in Nat /\ Len(OwnUnread(t)) \in Nat
      BY CallFields, OwnUnreadCounted
    <3>8. call[t].handled + Len(OwnUnread(t)) + Len(OwnLines(t)) = turn[t].said
      BY <1>a, <2>1, <3>1 DEF IsFollowed
    <3>9. call'[t].handled + Len(OwnUnread(t)') + Len(OwnLines(t)') = turn'[t].said
      <4>1. PICK h, a0, b0, b1, n :
              /\ h = call[t].handled /\ a0 = Len(OwnUnread(t)) /\ b0 = Len(OwnLines(t))
              /\ b1 = Len(OwnLines(t)') /\ n = turn[t].said
        OBVIOUS
      <4>2. h \in Nat /\ a0 \in Nat /\ b0 \in Nat /\ b1 = b0 + 1 /\ h + a0 + b0 = n
        BY <3>5, <3>7, <3>8, <4>1
      <4>3. h + a0 + b1 = n + 1
        BY <4>2
      <4>. QED BY <2>1, <3>1, <4>1, <4>3
    <3>10. turn'[t].state = "running" \/ Ends(Last(OwnLines(t)'))
      BY <3>5, <3>6
    <3>. QED BY <1>m, <2>1, <3>1, <3>5, <3>9, <3>10 DEF IsFollowed, Ends
  <2>. QED BY <2>4, <2>5
<1>13. ASSUME NEW c \in Processes, PrintsInvalidEffect(c) PROVE IsFollowed(t)'
  <2>. SUFFICES ASSUME Hears(t)', turn'[t].state # "none" PROVE Still
    BY <1>s
  <2>1. call' = call /\ turn' = turn /\ muted' = muted /\ Hears(t)
    BY <1>13 DEF PrintsInvalidEffect, SameClient, Hears, Awaits
  <2>2. OwnLines(t)' = OwnLines(t)
    BY <1>13, <1>a, <2>1, OwnPrinted, OwnIsNotification DEF PrintsInvalidEffect
  <2>. QED BY <1>m, <2>1, <2>2, OwnUnreadSame DEF Still
<1>14. ASSUME NEW c \in Processes, ProcessEndsEffect(c) PROVE IsFollowed(t)'
  <2>. SUFFICES ASSUME Hears(t)', turn'[t].state # "none" PROVE Still
    BY <1>s
  <2>1. call' = call /\ muted' = muted /\ Hears(t)
    BY <1>14 DEF ProcessEndsEffect, SameClient, Hears, Awaits
  <2>2. /\ turn'[t].at = turn[t].at /\ turn'[t].said = turn[t].said
        /\ turn[t].state # "none" /\ turn'[t].state \in {turn[t].state, "lost"}
    BY <1>14 DEF ProcessEndsEffect, TurnsLost
  <2>3. OwnLines(t)' = OwnLines(t)
    BY <1>14, <1>a, <2>2, OwnSame DEF ProcessEndsEffect, SameLines
  <2>. QED BY <1>m, <2>1, <2>2, <2>3, OwnUnreadSame DEF Still
<1>15. ASSUME NEW u \in Turns, NEW kind \in {"thread", "turn", "read"}, RequestSentEffect(u, kind)
      PROVE  IsFollowed(t)'
  <2>1. turn' = turn /\ muted' = muted /\ AsksFrom(u, kind) /\ SameLines
    BY <1>15 DEF RequestSentEffect, SameClient, SameProcesses
  <2>2. CASE u # t
    <3>1. call'[t] = call[t]
      BY <1>15, <2>2 DEF RequestSentEffect, SameBut, CallSet
    <3>2. turn[t].state # "none" => OwnLines(t)' = OwnLines(t)
      BY <1>a, <2>1, OwnSame DEF SameLines
    <3>3. Hears(t)' /\ turn'[t].state # "none" => Still
      BY <1>m, <2>1, <3>1, <3>2, OwnUnreadSame DEF Hears, Still, Awaits
    <3>. QED BY <1>s, <3>3
  <2>3. CASE u = t
    <3>1. Hears(t)' => kind = "turn"
      BY <1>15, <2>3 DEF RequestSentEffect, Hears, Awaits, CallSet
    <3>2. kind = "turn" => turn[t].state = "none"
      BY <2>1, <2>3, CallFields DEF AsksFrom, KindsInOrder
    <3>. QED BY <2>1, <3>1, <3>2 DEF IsFollowed
  <2>. QED BY <2>2, <2>3
<1>16. ASSUME NEW u \in Turns, NEW kind \in {"thread", "turn", "read"}, RequestRefusedEffect(u, kind)
      PROVE  IsFollowed(t)'
  <2>1. turn' = turn /\ muted' = muted /\ AsksFrom(u, kind) /\ SameLines
    BY <1>16 DEF RequestRefusedEffect, SameClient, SameProcesses
  <2>2. CASE u # t
    <3>1. call'[t] = call[t]
      BY <1>16, <2>2 DEF RequestRefusedEffect, SameBut
    <3>2. turn[t].state # "none" => OwnLines(t)' = OwnLines(t)
      BY <1>a, <2>1, OwnSame DEF SameLines
    <3>3. Hears(t)' /\ turn'[t].state # "none" => Still
      BY <1>m, <2>1, <3>1, <3>2, OwnUnreadSame DEF Hears, Still, Awaits
    <3>. QED BY <1>s, <3>3
  <2>3. CASE u = t
    <3>1. Hears(t)' => kind = "turn"
      BY <1>16, <2>3 DEF RequestRefusedEffect, Hears, Awaits
    <3>2. kind = "turn" => turn[t].state = "none"
      BY <2>1, <2>3, CallFields DEF AsksFrom, KindsInOrder
    <3>. QED BY <2>1, <3>1, <3>2 DEF IsFollowed
  <2>. QED BY <2>2, <2>3
<1>17. ASSUME NEW u \in Turns, NEW kind \in {"thread", "turn", "read"}, RequestWaitsEffect(u, kind)
      PROVE  IsFollowed(t)'
  <2>1. turn' = turn /\ muted' = muted /\ AsksFrom(u, kind) /\ SameLines
    BY <1>17 DEF RequestWaitsEffect, SameClient, SameProcesses
  <2>2. CASE u # t
    <3>1. call'[t] = call[t]
      BY <1>17, <2>2 DEF RequestWaitsEffect, SameBut, CallSet
    <3>2. turn[t].state # "none" => OwnLines(t)' = OwnLines(t)
      BY <1>a, <2>1, OwnSame DEF SameLines
    <3>3. Hears(t)' /\ turn'[t].state # "none" => Still
      BY <1>m, <2>1, <3>1, <3>2, OwnUnreadSame DEF Hears, Still, Awaits
    <3>. QED BY <1>s, <3>3
  <2>3. CASE u = t
    <3>1. Hears(t)' => kind = "turn"
      BY <1>17, <2>3 DEF RequestWaitsEffect, Hears, Awaits, CallSet
    <3>2. kind = "turn" => turn[t].state = "none"
      BY <2>1, <2>3, CallFields DEF AsksFrom, KindsInOrder
    <3>. QED BY <2>1, <3>1, <3>2 DEF IsFollowed
  <2>. QED BY <2>2, <2>3
<1>18. ASSUME NEW u \in Turns, NEW kind \in {"thread", "turn", "read"}, ProcessStartsEffect(u, kind)
      PROVE  IsFollowed(t)'
  <2>1. turn' = turn /\ muted' = muted /\ AsksFrom(u, kind) /\ SameLines
    BY <1>18 DEF ProcessStartsEffect, SameClient, SameProcesses
  <2>2. CASE u # t
    <3>1. call'[t] = call[t]
      BY <1>18, <2>2 DEF ProcessStartsEffect, SameBut, CallSet
    <3>2. turn[t].state # "none" => OwnLines(t)' = OwnLines(t)
      BY <1>a, <2>1, OwnSame DEF SameLines
    <3>3. Hears(t)' /\ turn'[t].state # "none" => Still
      BY <1>m, <2>1, <3>1, <3>2, OwnUnreadSame DEF Hears, Still, Awaits
    <3>. QED BY <1>s, <3>3
  <2>3. CASE u = t
    <3>1. Hears(t)' => kind = "turn"
      BY <1>18, <2>3 DEF ProcessStartsEffect, Hears, Awaits, CallSet
    <3>2. kind = "turn" => turn[t].state = "none"
      BY <2>1, <2>3, CallFields DEF AsksFrom, KindsInOrder
    <3>. QED BY <2>1, <3>1, <3>2 DEF IsFollowed
  <2>. QED BY <2>2, <2>3
<1>19. CASE UNCHANGED codexVars
  BY <1>a, <1>19 DEF codexVars, IsFollowed, Hears, Awaits, OwnUnread, OwnLines
<1>. QED
  BY <1>1, <1>2, <1>3, <1>4, <1>5, <1>6, <1>7, <1>8, <1>9, <1>10, <1>11, <1>12, <1>13, <1>14,
     <1>15, <1>16, <1>17, <1>18, <1>19 DEF Effects

\* request() sends, is refused, waits for the initialization, or begins it.
LEMMA RequestIsOne ==
  ASSUME NEW t \in Turns, NEW cl, NEW kind, MayAsk(t, cl, kind), Requests(t, cl, kind)
  PROVE  \/ RequestSent(t, cl, kind) \/ RequestRefused(t, cl, kind)
         \/ RequestWaits(t, cl, kind) \/ ProcessStarts(t, cl, kind)
BY DEF Requests, RequestSent, RequestRefused, RequestWaits, ProcessStarts

\* A notification is handled: the turn is completed and the thread read again, or not.
LEMMA HandlesOne ==
  ASSUME CodexTyped, NEW t \in Turns, Handles(t)
  PROVE  \/ HandlesOther(t)
         \/ \E cl : MayAsk(t, cl, "read") /\ Requests(t, cl, "read")
<1>1. PICK x, n : x = Tail(call[t].unread) /\ n = call[t].handled + 1
  OBVIOUS
<1>2. PICK rest : rest = [call[t] EXCEPT !.unread = x, !.handled = n]
  OBVIOUS
<1>3. rest = [call[t] EXCEPT !.unread = Tail(@), !.handled = @ + 1]
  BY <1>1, <1>2
<1>4. PICK h : h = Head(call[t].unread)
  OBVIOUS
<1>5. CASE h.what = "completed" /\ Requests(t, rest, "read")
  BY <1>3, <1>5 DEF Handles, MayAsk
<1>6. CASE /\ h.what # "completed"
           /\ call' = [call EXCEPT ![t] =
                IF h.what = "error" THEN [rest EXCEPT !.step = "over"] ELSE rest]
           /\ UNCHANGED <<child, initialized, readline, process, muted, turn, invalid, forgotten>>
  <2>1. PICK s : s = IF h.what = "error" THEN "over" ELSE "following"
    OBVIOUS
  <2>2. call[t].step = "following"
    BY DEF Handles
  <2>3. (IF h.what = "error" THEN [rest EXCEPT !.step = "over"] ELSE rest)
        = [call[t] EXCEPT !.unread = x, !.handled = n, !.step = s]
    BY <1>2, <2>1, <2>2 DEF CodexTyped, CallRecords
  <2>. QED BY <1>1, <1>4, <1>6, <2>1, <2>3 DEF Handles, HandlesOther
<1>. QED BY <1>3, <1>4, <1>5, <1>6 DEF Handles

-----------------------------------------------------------------------------
(***************************************************************************)
(* The invariant.                                                          *)
(***************************************************************************)
\* request() has one of the effects, and keeps the types.
LEMMA RequestHasEffect ==
  ASSUME CodexInv, NEW t \in Turns, NEW cl, NEW kind, MayAsk(t, cl, kind), Requests(t, cl, kind)
  PROVE  CodexTyped' /\ Effects
<1>. USE DEF CodexInv
<1>0. kind \in {"thread", "turn", "read"}
  BY AskingTyped
<1>1. CASE RequestSent(t, cl, kind)
  BY <1>0, <1>1, RequestSentTyped, RequestSentChanges DEF Effects
<1>2. CASE RequestRefused(t, cl, kind)
  BY <1>0, <1>2, RequestRefusedTyped, RequestRefusedChanges DEF Effects
<1>3. CASE RequestWaits(t, cl, kind)
  BY <1>0, <1>3, RequestWaitsTyped, RequestWaitsChanges DEF Effects
<1>4. CASE ProcessStarts(t, cl, kind)
  BY <1>0, <1>4, ProcessStartsTyped, ProcessStartsChanges DEF Effects
<1>. QED BY RequestIsOne, <1>1, <1>2, <1>3, <1>4

\* Every step keeps the types and is one of the effects.
LEMMA StepHasEffect ==
  ASSUME CodexInv, [CodexNext]_codexVars
  PROVE  CodexTyped' /\ Effects
<1>. USE DEF CodexInv
<1>1. ASSUME NEW c \in Processes, SpawnFails(c) PROVE CodexTyped' /\ Effects
  BY <1>1, SpawnFailsTyped, SpawnFailsChanges DEF Effects
<1>2. ASSUME NEW c \in Processes, ExitEvent(c) PROVE CodexTyped' /\ Effects
  BY <1>2, ExitEventTyped, ExitEventChanges DEF Effects
<1>3. ASSUME NEW c \in Processes, Initialized(c) PROVE CodexTyped' /\ Effects
  BY <1>3, InitializedTyped, InitializedChanges DEF Effects
<1>4. ASSUME NEW c \in Processes, InitializeRefused(c) PROVE CodexTyped' /\ Effects
  BY <1>4, InitializeRefusedTyped, InitializeRefusedChanges DEF Effects
<1>5. ASSUME NEW c \in Processes, AnswerArrives(c) PROVE CodexTyped' /\ Effects
  BY <1>5, AnswerArrivesTyped, AnswerArrivesChanges DEF Effects
<1>6. ASSUME NEW c \in Processes, NotificationArrives(c) PROVE CodexTyped' /\ Effects
  BY <1>6, NotificationArrivesTyped, NotificationArrivesChanges DEF Effects
<1>7. ASSUME NEW c \in Processes, InvalidArrives(c) PROVE CodexTyped' /\ Effects
  BY <1>7, InvalidArrivesTyped, InvalidArrivesChanges DEF Effects
<1>8. ASSUME NEW t \in Turns, HandlesOther(t) PROVE CodexTyped' /\ Effects
  BY <1>8, HandlesOtherTyped, HandlesOtherChanges DEF Effects
<1>9. ASSUME NEW c \in Processes, AnswersInitialize(c) PROVE CodexTyped' /\ Effects
  BY <1>9, AnswersInitializeTyped, AnswersInitializeChanges DEF Effects
<1>10. ASSUME NEW c \in Processes, NEW t \in Turns, TurnBegins(c, t) PROVE CodexTyped' /\ Effects
  BY <1>10, TurnBeginsTyped, TurnBeginsChanges DEF Effects
<1>11. ASSUME NEW c \in Processes, NEW t \in Turns, Answers(c, t) PROVE CodexTyped' /\ Effects
  BY <1>11, AnswersTyped, AnswersChanges DEF Effects
<1>12. ASSUME NEW t \in Turns, TurnSays(t) PROVE CodexTyped' /\ Effects
  BY <1>12, TurnSaysTyped, TurnSaysChanges DEF Effects, TurnsBegin, TurnSays
<1>13. ASSUME NEW c \in Processes, PrintsInvalid(c) PROVE CodexTyped' /\ Effects
  BY <1>13, PrintsInvalidTyped, PrintsInvalidChanges DEF Effects
<1>14. ASSUME NEW c \in Processes, ProcessEnds(c) PROVE CodexTyped' /\ Effects
  BY <1>14, ProcessEndsTyped, ProcessEndsChanges DEF Effects
<1>15. ASSUME NEW t \in Turns, SendMessage(t) PROVE CodexTyped' /\ Effects
  <2>1. MayAsk(t, call[t], "thread") /\ Requests(t, call[t], "thread")
    BY <1>15 DEF SendMessage, MayAsk
  <2>. QED BY <2>1, RequestHasEffect
<1>16. ASSUME NEW t \in Turns, StartTurn(t) PROVE CodexTyped' /\ Effects
  <2>1. MayAsk(t, call[t], "turn") /\ Requests(t, call[t], "turn")
    BY <1>16 DEF StartTurn, MayAsk
  <2>. QED BY <2>1, RequestHasEffect
<1>17. ASSUME NEW t \in Turns, Handles(t) PROVE CodexTyped' /\ Effects
  BY <1>17, <1>8, HandlesOne, RequestHasEffect
<1>18. CASE UNCHANGED codexVars
  BY <1>18 DEF Effects, codexVars, CodexTyped
<1>. QED
  BY <1>1, <1>2, <1>3, <1>4, <1>5, <1>6, <1>7, <1>8, <1>9, <1>10, <1>11, <1>12, <1>13, <1>14,
     <1>15, <1>16, <1>17, <1>18 DEF CodexNext

\* The invariant holds at first.
LEMMA CodexStarts ==
  ASSUME CodexInit
  PROVE  CodexInv
<1>. USE CodexNumbers
<1>1. CodexTyped
  <2>1. PICK s : s = <<>>
    OBVIOUS
  <2>2. s \in LineSeqs
    BY <2>1 DEF LineSeqs
  <2>3. /\ process = [c \in Processes |-> [state |-> "none", todo |-> {}, lines |-> s]]
        /\ call = [t \in Turns |->
               [step |-> "idle", kind |-> "none", at |-> NoProcess, unread |-> s, handled |-> 0]]
        /\ turn = [t \in Turns |-> [at |-> NoProcess, state |-> "none", said |-> 0]]
    BY <2>1 DEF CodexInit
  <2>4. process \in [Processes -> ProcessRecords]
    BY <2>2, <2>3 DEF ProcessRecords
  <2>5. call \in [Turns -> CallRecords]
    BY <2>2, <2>3 DEF CallRecords
  <2>6. turn \in [Turns -> TurnRecords]
    BY <2>3 DEF TurnRecords
  <2>. QED BY <2>4, <2>5, <2>6 DEF CodexInit, CodexTyped
<1>2. Elements(<<>>) = {}
  BY DEF Elements
<1>3. /\ \A c \in Processes : OnTheWay(c) = {} /\ process[c].state = "none" /\ process[c].todo = {}
      /\ \A t \in Turns : /\ Queue(t) = {} /\ call[t].step = "idle" /\ call[t].kind = "none"
                          /\ call[t].handled = 0 /\ call[t].unread = <<>>
                          /\ turn[t].state = "none" /\ turn[t].said = 0
  BY <1>2 DEF CodexInit, OnTheWay, Queue
<1>4. ChildLives /\ NewProcessRests
  BY <1>3 DEF CodexInit, ChildLives, NewProcessRests
<1>5. WaitsAtChild /\ KindsInOrder /\ TurnsAreAsked /\ TurnsBegin
  BY <1>3 DEF WaitsAtChild, KindsInOrder, TurnsAreAsked, TurnsBegin, Awaits
<1>6. ResultsOfTurns /\ LinesOfTurns /\ UnreadOfTurns
  BY <1>3 DEF ResultsOfTurns, LinesOfTurns, UnreadOfTurns
<1>7. TurnsAreFollowed /\ AnswersAreComing /\ OthersForgotten
  BY <1>3 DEF TurnsAreFollowed, IsFollowed, AnswersAreComing, OthersForgotten, Awaits
<1>. QED BY <1>1, <1>4, <1>5, <1>6, <1>7 DEF CodexInv

\* Every step keeps the invariant.
LEMMA CodexKept ==
  ASSUME CodexInv, [CodexNext]_codexVars
  PROVE  CodexInv'
<1>1. CodexTyped' /\ Effects
  BY StepHasEffect
<1>. QED
  BY <1>1, ChildLivesKept, NewProcessRestsKept, WaitsAtChildKept, KindsInOrderKept,
     TurnsAreAskedKept, ResultsOfTurnsKept, TurnsBeginKept, LinesOfTurnsKept, UnreadOfTurnsKept,
     AnswersAreComingKept, OthersForgottenKept, TurnsAreFollowedKept DEF CodexInv

\* The invariant says what the runs check.
LEMMA CodexHears ==
  ASSUME CodexInv
  PROVE  TurnsAreHeard /\ CodexTypeOK
<1>. USE DEF CodexInv
<1>1. AnswersCanCome
  <2>. SUFFICES ASSUME NEW t \in Turns, Awaits(call[t])
                PROVE  LET c == call[t].at IN
                       \/ process[c].state = "ended"
                       \/ /\ c = child /\ c \notin muted
                          /\ \/ call[t].step = "initializing"
                             \/ <<t, call[t].kind>> \in process[c].todo
                             \/ \E i \in DOMAIN process[c].lines :
                                  LET line == process[c].lines[i] IN
                                  /\ line.type \in {"result", "error"} /\ line.call = t
                                  /\ line.what = call[t].kind
    BY DEF AnswersCanCome
  <2>1. call[t].at = child /\ child \in Processes /\ child \notin muted
    BY DEF WaitsAtChild, ChildLives, CodexTyped
  <2>2. \/ process[child].state = "ended"
        \/ call[t].step = "initializing"
        \/ <<t, call[t].kind>> \in process[child].todo
        \/ \E line \in OnTheWay(child) :
             line.type \in {"result", "error"} /\ line.call = t /\ line.what = call[t].kind
    BY DEF AnswersAreComing
  <2>3. PICK s \in Seq(Lines) : s = process[child].lines
    BY <2>1, ProcessFields DEF LineSeqs
  <2>4. ASSUME NEW line \in OnTheWay(child),
               line.type \in {"result", "error"} /\ line.call = t /\ line.what = call[t].kind
        PROVE  \E i \in DOMAIN s : /\ s[i].type \in {"result", "error"} /\ s[i].call = t
                                   /\ s[i].what = call[t].kind
    <3>1. DOMAIN s = 1 .. Len(s)
      BY LenProperties
    <3>. QED BY <2>3, <2>4, <3>1 DEF OnTheWay, Elements
  <2>. QED BY <2>1, <2>2, <2>3, <2>4
<1>2. TurnIsFollowed
  <2>. SUFFICES ASSUME NEW t \in Turns, call[t].step = "following"
                PROVE  LET own == OwnUnread(t) \o OwnLines(t)
                       IN /\ turn[t].at \notin muted
                          /\ call[t].handled + Len(own) = turn[t].said
                          /\ \/ turn[t].state \in {"running", "lost"}
                             \/ own # <<>> /\ Last(own).what \in {"completed", "error"}
    BY DEF TurnIsFollowed, OwnUnread, OwnLines
  <2>1. turn[t].state # "none" /\ turn[t].at \in Processes
    BY DEF KindsInOrder, TurnsBegin
  <2>2. /\ turn[t].at \notin muted
        /\ call[t].handled + Len(OwnUnread(t)) + Len(OwnLines(t)) = turn[t].said
        /\ \/ turn[t].state \in {"running", "lost"}
           \/ OwnLines(t) # <<>> /\ Ends(Last(OwnLines(t)))
           \/ OwnLines(t) = <<>> /\ OwnUnread(t) # <<>> /\ Ends(Last(OwnUnread(t)))
    BY <2>1 DEF TurnsAreFollowed, IsFollowed, Hears
  <2>3. PICK a \in Seq(Lines) : a = OwnUnread(t)
    <3>1. PICK x \in Seq(Lines) : x = call[t].unread
      BY CallFields DEF LineSeqs
    <3>2. Filter(x, Own(t)) \in Seq(Lines)
      BY FilterElements
    <3>. QED BY <3>1, <3>2 DEF OwnUnread
  <2>4. PICK b \in Seq(Lines) : b = OwnLines(t)
    <3>1. PICK x \in Seq(Lines) : x = process[turn[t].at].lines
      BY <2>1, ProcessFields DEF LineSeqs
    <3>2. Filter(x, Own(t)) \in Seq(Lines)
      BY FilterElements
    <3>. QED BY <3>1, <3>2 DEF OwnLines
  <2>5. PICK own \in Seq(Lines) : own = a \o b
    <3>1. a \o b \in Seq(Lines)
      BY ConcatProperties
    <3>. QED BY <3>1
  <2>6. /\ Len(own) = Len(a) + Len(b) /\ Len(a) \in Nat /\ Len(b) \in Nat
        /\ own = <<>> <=> a = <<>> /\ b = <<>>
        /\ own # <<>> => Last(own) = IF b = <<>> THEN Last(a) ELSE Last(b)
    BY <2>5, ConcatLast
  <2>7. call[t].handled \in Nat
    BY CallFields
  <2>8. call[t].handled + Len(own) = turn[t].said
    <3>1. PICK h, la, lb, l, n : /\ h = call[t].handled /\ la = Len(a) /\ lb = Len(b)
                                 /\ l = Len(own) /\ n = turn[t].said
      OBVIOUS
    <3>2. /\ h \in Nat /\ la \in Nat /\ lb \in Nat /\ l = la + lb /\ h + la + lb = n
      BY <2>2, <2>3, <2>4, <2>6, <2>7, <3>1
    <3>3. h + l = n
      BY <3>2
    <3>. QED BY <3>1, <3>3
  <2>9. \/ turn[t].state \in {"running", "lost"}
        \/ own # <<>> /\ Last(own).what \in {"completed", "error"}
    BY <2>2, <2>3, <2>4, <2>6 DEF Ends
  <2>. QED BY <2>2, <2>3, <2>4, <2>5, <2>8, <2>9
<1>3. OneProcess
  BY DEF OthersForgotten, OneProcess
<1>4. CodexTypeOK
  BY DEF CodexTyped, CodexTypeOK, ProcessRecords, CallRecords, TurnRecords
<1>. QED BY <1>1, <1>2, <1>3, <1>4 DEF TurnsAreHeard
=============================================================================
