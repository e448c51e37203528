------------------------- MODULE CapabilityOperations -------------------------
(***************************************************************************)
(* Installing, updating and connecting agent tools on a machine: the       *)
(* records of CapabilitiesOperationManager (packages/server/src/           *)
(* capabilities/operation-manager.ts), and what AgentCapabilitiesService   *)
(* (service.ts) has under way for them: an installation, or the terminal   *)
(* of an interactive connection with the work that follows its end.        *)
(*                                                                         *)
(* Callers learn an operation's id from the answer that begins it, which   *)
(* for a connection comes when its terminal runs.  Left out: input, which  *)
(* changes nothing but updatedAt of a record that is active; what the      *)
(* service writes to its state file; and the requests that make no record. *)
(***************************************************************************)
EXTENDS Integers, SequencesExt, SeqFilter

CONSTANTS
  Operations,   \* ids
  MaxRecords    \* DEFAULT_MAX_RECORDS

ASSUME OperationsAssumption == MaxRecords \in Nat

VARIABLES
  records,      \* the Map's ids, by updatedAt
  opStatus,     \* status of each record, also of one that is no longer in the Map
  opCommand,    \* whether the record has its command
  opWork,       \* what the service does: "installing", the terminal is "alive", was "killed" or
                \* is followed by "finishing"; or how it "succeeded" or "failed"
  opKnown       \* the ids that callers have

operationVars == <<records, opStatus, opCommand, opWork, opKnown>>

OperationsInit ==
  /\ records = <<>> /\ opKnown = {}
  /\ opStatus = [o \in Operations |-> "none"]
  /\ opCommand = [o \in Operations |-> FALSE]
  /\ opWork = [o \in Operations |-> "none"]

IsActive(status, o) == status[o] \in {"running", "waiting_for_input"}

Without(rs, gone) == Filter(rs, Operations \ gone)
Removable(rs, status) == Filter(rs, {o \in Operations : ~ IsActive(status, o)})
Touch(rs, o) == IF Contains(rs, o) THEN Append(Without(rs, {o}), o) ELSE rs

\* Mutant: the oldest records go, also those of operations that are active.
EnforceOnAll(rs, status) ==
  IF Len(rs) <= MaxRecords THEN rs ELSE SubSeq(rs, Len(rs) - MaxRecords + 1, Len(rs))

\* enforceMaxRecords(): the records that were not touched for the longest time, active ones
\* excepted.
Enforce(rs, status) ==
  LET removable == Removable(rs, status)
      surplus == Len(rs) - MaxRecords
      gone == {removable[i] : i \in {j \in DOMAIN removable : j <= surplus}}
  IN Without(rs, gone)

\* prune(): any number of the oldest records of what is over has expired.
Pruned(rs) ==
  LET removable == Removable(rs, opStatus) IN
  {Enforce(Without(rs, {removable[i] : i \in 1 .. n}), opStatus) : n \in 0 .. Len(removable)}

-----------------------------------------------------------------------------
\* startBackgroundOperation(): an installation, or an update.
StartInstall(o) ==
  /\ opStatus[o] = "none"
  /\ opStatus' = [opStatus EXCEPT ![o] = "running"]
  /\ opWork' = [opWork EXCEPT ![o] = "installing"]
  /\ \E rs \in Pruned(records) : records' = Enforce(Append(rs, o), opStatus')
  /\ opKnown' = opKnown \cup {o}
  /\ UNCHANGED opCommand

\* startInteractiveConnectTool(), which may install the tool first.
StartConnect(o) ==
  /\ opStatus[o] = "none"
  /\ opStatus' = [opStatus EXCEPT ![o] = "running"]
  /\ opWork' = [opWork EXCEPT ![o] = "installing"]
  /\ \E rs \in Pruned(records) : records' = Append(rs, o)
  /\ UNCHANGED <<opCommand, opKnown>>

\* The terminal is there, and the request that began it is answered, which may get lost.
ConnectWaits(o) ==
  /\ opWork[o] = "installing" /\ o \notin opKnown
  /\ opWork' = [opWork EXCEPT ![o] = "alive"]
  /\ opCommand' = [opCommand EXCEPT ![o] = TRUE]
  /\ opStatus' = [opStatus EXCEPT ![o] = "waiting_for_input"]
  /\ records' = Enforce(Touch(records, o), opStatus')
  /\ opKnown' \in {opKnown, opKnown \cup {o}}

\* setCompleted() and setFailed(), whatever the status was.
Settles(o, result) ==
  /\ opWork' = [opWork EXCEPT ![o] = result]
  /\ opCommand' = [opCommand EXCEPT ![o] = FALSE]
  /\ opStatus' = [opStatus EXCEPT ![o] = IF result = "succeeded" THEN "completed" ELSE "failed"]

\* installTool() with the look at what is installed; the start of a connection that fails.
WorkSettles(o) ==
  /\ opWork[o] \in {"installing", "finishing"}
  /\ \/ /\ o \in opKnown \/ opWork[o] = "finishing"
        /\ \E result \in {"succeeded", "failed"} : Settles(o, result)
        /\ records' = Touch(records, o)
        /\ UNCHANGED opKnown
     \/ /\ o \notin opKnown /\ opWork[o] = "installing"
        /\ Settles(o, "failed")
        /\ records' = Enforce(Touch(records, o), opStatus')
        /\ opKnown' = opKnown \cup {o}

\* The terminal's process ends.  After a success the tool's state is read and saved.
ProcessExits(o) ==
  /\ opWork[o] \in {"alive", "killed"}
  /\ \/ /\ opWork' = [opWork EXCEPT ![o] = "finishing"]
        /\ UNCHANGED <<opStatus, opCommand, records>>
     \/ Settles(o, "failed") /\ records' = Touch(records, o)
  /\ UNCHANGED opKnown

\* runInteractive()'s timer.
ProcessTimesOut(o) ==
  /\ opWork[o] = "alive"
  /\ opWork' = [opWork EXCEPT ![o] = "killed"]
  /\ UNCHANGED <<records, opStatus, opCommand, opKnown>>

\* addMessage().
ProgressArrives(o) ==
  /\ opWork[o] \in {"installing", "alive", "killed"}
  /\ records' = Touch(records, o)
  /\ UNCHANGED <<opStatus, opCommand, opWork, opKnown>>

\* getOperation(), also for input.
GetOperation(o) ==
  /\ o \in opKnown
  /\ records' \in Pruned(records)
  /\ UNCHANGED <<opStatus, opCommand, opWork, opKnown>>

\* Mutant: the command is forgotten and its terminal lives on.
CancelKeepsProcess(o) ==
  /\ o \in opKnown
  /\ \E rs \in Pruned(records) :
       IF Contains(rs, o) /\ IsActive(opStatus, o)
       THEN /\ opStatus' = [opStatus EXCEPT ![o] = "cancelled"]
            /\ opCommand' = [opCommand EXCEPT ![o] = FALSE]
            /\ records' = Touch(rs, o)
       ELSE records' = rs /\ UNCHANGED <<opStatus, opCommand>>
  /\ UNCHANGED <<opWork, opKnown>>

\* An installation goes on, and so does what follows a terminal that has ended.
CancelOperation(o) ==
  /\ o \in opKnown
  /\ \E rs \in Pruned(records) :
       IF Contains(rs, o) /\ IsActive(opStatus, o)
       THEN /\ opWork' = [opWork EXCEPT ![o] =
                           IF opCommand[o] /\ @ = "alive" THEN "killed" ELSE @]
            /\ opStatus' = [opStatus EXCEPT ![o] = "cancelled"]
            /\ records' = Touch(rs, o)
       ELSE records' = rs /\ UNCHANGED <<opStatus, opWork>>
  /\ UNCHANGED <<opCommand, opKnown>>

-----------------------------------------------------------------------------
OperationsNext ==
  \E o \in Operations :
    \/ StartInstall(o) \/ StartConnect(o) \/ ConnectWaits(o) \/ WorkSettles(o)
    \/ ProcessExits(o) \/ ProcessTimesOut(o) \/ ProgressArrives(o)
    \/ GetOperation(o) \/ CancelOperation(o)

OperationsTypeOK ==
  /\ IsInjective(records) /\ ToSet(records) \subseteq Operations
  /\ \A o \in Operations :
       /\ opStatus[o] \in
            {"none", "running", "waiting_for_input", "completed", "failed", "cancelled"}
       /\ opWork[o] \in
            {"none", "installing", "alive", "killed", "finishing", "succeeded", "failed"}
  /\ opCommand \in [Operations -> BOOLEAN] /\ opKnown \subseteq Operations

\* A terminal can be reached as long as it is to live: its record is in the Map with the
\* command, through the limit on records and their expiry, and whoever knows the id can still
\* cancel it.  An operation that is under way is never evicted, and one that is over says how
\* its work ended; only until then it may say "cancelled".
OperationsAreHeld ==
  \A o \in Operations :
    /\ opWork[o] = "alive" =>
         Contains(records, o) /\ opCommand[o] /\ opStatus[o] = "waiting_for_input"
    /\ IsActive(opStatus, o) => Contains(records, o)
    /\ opStatus[o] = "waiting_for_input" <=>
         opWork[o] \in {"alive", "killed", "finishing"} /\ opStatus[o] # "cancelled"
    /\ opWork[o] \in {"succeeded", "failed"} =>
         opStatus[o] = IF opWork[o] = "succeeded" THEN "completed" ELSE "failed"
=============================================================================
