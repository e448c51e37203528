-------------------------- MODULE AgentSessionSync --------------------------
(***************************************************************************)
(* When a machine's server starts it sends the session files of the        *)
(* agents' harnesses to the cloud: it hashes them, asks which contents the *)
(* cloud lacks and puts these one after the other                          *)
(* (packages/server/src/agent/session-sync.ts).  The cloud checks each     *)
(* body, stores the object and then writes the rows                        *)
(* (packages/cloud-server/src/agent-sessions/routes.ts and                 *)
(* upsertAgentSessionUpload in db/drizzle-store.ts).                       *)
(*                                                                         *)
(* A harness goes on writing to its files meanwhile.  A file is one        *)
(* thread; its content is a number that grows, and stands for its hash,    *)
(* its size and its mtime.                                                 *)
(***************************************************************************)
EXTENDS Naturals, FiniteSets, FiniteSetsExt

CONSTANTS
  SessionFiles,   \* the session files
  MaxAttempts,    \* maxAttempts of runAgentSessionStartupSync()
  MaxContents,    \* bound: contents of a file
  MaxSyncFaults   \* bound: lost requests, restarts of either server, failures of storage

ASSUME SyncAssumption ==
  /\ IsFiniteSet(SessionFiles)
  /\ MaxAttempts \in Nat \ {0} /\ MaxContents \in Nat \ {0} /\ MaxSyncFaults \in Nat

Contents == 1 .. MaxContents
Uploadable == SessionFiles \X Contents   \* a file with one of its contents

VARIABLES
  onDisk,      \* the content of each file at the machine
  sync,        \* the loop: "discover", "plan", "upload", "wait", "delay", "synced", "gave up"
  attempt,     \* the attempt
  syncFiles,   \* the files as they were discovered: the manifest
  toUpload,    \* what the plan asked for and was not uploaded yet
  uploading,   \* the file being uploaded, or {}
  puts,        \* the uploads that the cloud handles, each with where it is; `waits' says that
               \* the machine still waits for the answer, `seen' is thread.latestMtime
  objects,     \* the object storage: content by key, 0 for none
  versions,    \* rows of agent_session_versions
  latest,      \* latestMtime of the rows of agent_session_threads, 0 for null
  syncFaults   \* how many faults have happened

atMachine == <<sync, attempt, syncFiles, toUpload, uploading>>
atCloud == <<puts, objects, versions, latest>>
syncVars == <<onDisk, atMachine, atCloud, syncFaults>>

SyncInit ==
  /\ onDisk = [f \in SessionFiles |-> 1]
  /\ sync = "discover" /\ attempt = 1 /\ syncFiles = {} /\ toUpload = {} /\ uploading = {}
  /\ puts = {} /\ objects = [u \in Uploadable |-> 0] /\ versions = {}
  /\ latest = [f \in SessionFiles |-> 0]
  /\ syncFaults = 0

SyncFault == syncFaults < MaxSyncFaults /\ syncFaults' = syncFaults + 1

\* A harness appends to a session file.
FileChanges(f) ==
  /\ onDisk[f] < MaxContents
  /\ onDisk' = [onDisk EXCEPT ![f] = @ + 1]
  /\ UNCHANGED <<atMachine, atCloud, syncFaults>>

-----------------------------------------------------------------------------
(***************************************************************************)
(* The machine.                                                            *)
(***************************************************************************)
\* discoverAgentSessionFiles(): the files that have been left alone for a while, and were
\* not written to while they were hashed.  Without any the sync is over.
Discover ==
  /\ sync = "discover"
  /\ \E stable \in SUBSET SessionFiles :
       /\ syncFiles' = {<<f, onDisk[f]>> : f \in stable}
       /\ sync' = IF stable = {} THEN "synced" ELSE "plan"
  /\ UNCHANGED <<onDisk, attempt, toUpload, uploading, atCloud, syncFaults>>

\* An attempt fails: another one after a while, or the error is thrown.
AttemptFails ==
  /\ sync' = IF attempt < MaxAttempts THEN "delay" ELSE "gave up"
  /\ syncFiles' = {} /\ toUpload' = {} /\ uploading' = {}
  /\ UNCHANGED attempt

NextAttempt ==
  /\ sync = "delay"
  /\ sync' = "discover" /\ attempt' = attempt + 1
  /\ UNCHANGED <<onDisk, syncFiles, toUpload, uploading, atCloud, syncFaults>>

\* POST /sync-plan and its answer: the contents that have no version.
Plan ==
  /\ sync = "plan"
  /\ toUpload' = syncFiles \ versions
  /\ sync' = "upload"
  /\ UNCHANGED <<onDisk, attempt, syncFiles, uploading, atCloud, syncFaults>>

\* There is no machine token in time, or the request fails.
PlanFails ==
  /\ sync \in {"discover", "plan"} /\ SyncFault
  /\ AttemptFails
  /\ UNCHANGED <<onDisk, atCloud>>

Unused == Min((0 .. MaxSyncFaults) \ {p.id : p \in puts})   \* to tell requests apart

\* The next file of the loop: its PUT is on the way.
Put ==
  /\ sync = "upload"
  /\ \E u \in toUpload :
       /\ uploading' = {u}
       /\ puts' = puts \cup {[id |-> Unused, waits |-> TRUE, file |-> u[1],
                               sha |-> u[2], at |-> "body", body |-> 0, seen |-> 0]}
  /\ sync' = "wait"
  /\ UNCHANGED <<onDisk, attempt, syncFiles, toUpload, objects, versions, latest, syncFaults>>

AllUploaded ==
  /\ sync = "upload" /\ toUpload = {}
  /\ sync' = "synced"
  /\ UNCHANGED <<onDisk, attempt, syncFiles, toUpload, uploading, atCloud, syncFaults>>

\* What the cloud goes on with when its connection is gone: requests whose body it has.
Unheard == {[p EXCEPT !.waits = FALSE] : p \in {q \in puts : q.at # "body"}}

\* The request breaks or is not answered.
PutBreaks ==
  /\ sync = "wait" /\ SyncFault
  /\ AttemptFails
  /\ puts' = Unheard
  /\ UNCHANGED <<onDisk, objects, versions, latest>>

\* The machine's server stops and starts again, with a new sync.
SyncRestarts ==
  /\ SyncFault
  /\ sync' = "discover" /\ attempt' = 1 /\ syncFiles' = {} /\ toUpload' = {} /\ uploading' = {}
  /\ puts' = Unheard
  /\ UNCHANGED <<onDisk, objects, versions, latest>>

-----------------------------------------------------------------------------
(***************************************************************************)
(* The cloud: PUT /objects, from one await to the next.                    *)
(***************************************************************************)
Key(p) == <<p.file, p.sha>>
Moves(p, q) == puts' = (puts \ {p}) \cup {q}

\* The answer, which only the request that still waits for it takes.
AnswersOk(p) ==
  /\ puts' = puts \ {p}
  /\ IF p.waits
     THEN /\ sync' = "upload" /\ uploading' = {} /\ toUpload' = toUpload \ {Key(p)}
          /\ UNCHANGED <<attempt, syncFiles>>
     ELSE UNCHANGED atMachine

AnswersError(p) ==
  /\ puts' = puts \ {p}
  /\ IF p.waits THEN AttemptFails ELSE UNCHANGED atMachine

\* writeRequestBodyToTempFile() has all: what the file holds now, as createReadStream() read it.
BodyArrives(p) ==
  /\ p.at = "body"
  /\ Moves(p, [p EXCEPT !.at = "check", !.body = onDisk[p.file]])
  /\ UNCHANGED <<onDisk, atMachine, objects, versions, latest, syncFaults>>

\* Mutant: the body is not compared with the hash and the size of the metadata.
ChecksNothing(p) ==
  /\ p.at = "check"
  /\ IF Key(p) \in versions THEN AnswersOk(p)
     ELSE Moves(p, [p EXCEPT !.at = "object"]) /\ UNCHANGED atMachine
  /\ UNCHANGED <<onDisk, objects, versions, latest, syncFaults>>

\* Size and hash must be those of the metadata; a content that is known is not stored again.
ChecksBody(p) ==
  /\ p.at = "check"
  /\ CASE p.body # p.sha -> AnswersError(p)
       [] p.body = p.sha /\ Key(p) \in versions -> AnswersOk(p)
       [] OTHER -> Moves(p, [p EXCEPT !.at = "object"]) /\ UNCHANGED atMachine
  /\ UNCHANGED <<onDisk, objects, versions, latest, syncFaults>>

\* putObject().
PutsObject(p) ==
  /\ p.at = "object"
  /\ objects' = [objects EXCEPT ![Key(p)] = p.body]
  /\ Moves(p, [p EXCEPT !.at = "thread"])
  /\ UNCHANGED <<onDisk, atMachine, versions, latest, syncFaults>>

\* upsertAgentSessionUpload(): the thread's row, whose latestMtime is kept for later.
UpsertsThread(p) ==
  /\ p.at = "thread"
  /\ Moves(p, [p EXCEPT !.at = "version", !.seen = latest[p.file]])
  /\ UNCHANGED <<onDisk, atMachine, objects, versions, latest, syncFaults>>

\* The version's row: made, or found when another upload has made it.
InsertsVersion(p) ==
  /\ p.at = "version"
  /\ versions' = versions \cup {Key(p)}
  /\ Moves(p, [p EXCEPT !.at = "latest"])
  /\ UNCHANGED <<onDisk, atMachine, objects, latest, syncFaults>>

\* shouldUpdateLatest, by what was read before; then the answer.
UpdatesLatest(p) ==
  /\ p.at = "latest"
  /\ latest' = [latest EXCEPT ![p.file] = IF p.sha >= p.seen THEN p.sha ELSE @]
  /\ AnswersOk(p)
  /\ UNCHANGED <<onDisk, objects, versions, syncFaults>>

\* The storage or the database fails.
PutFails(p) ==
  /\ p.at # "body" /\ SyncFault
  /\ AnswersError(p)
  /\ UNCHANGED <<onDisk, objects, versions, latest>>

\* The cloud's server stops: what it was handling is lost, objects and rows stay.
SyncCloudStops ==
  /\ SyncFault
  /\ puts' = {}
  /\ IF sync = "wait" THEN AttemptFails ELSE UNCHANGED atMachine
  /\ UNCHANGED <<onDisk, objects, versions, latest>>

-----------------------------------------------------------------------------
SyncNext ==
  \/ \E f \in SessionFiles : FileChanges(f)
  \/ Discover \/ NextAttempt \/ Plan \/ PlanFails \/ Put \/ AllUploaded \/ PutBreaks
  \/ SyncRestarts \/ SyncCloudStops
  \/ \E p \in puts :
       \/ BodyArrives(p) \/ ChecksBody(p) \/ PutsObject(p) \/ UpsertsThread(p)
       \/ InsertsVersion(p) \/ UpdatesLatest(p) \/ PutFails(p)

SyncSpec == SyncInit /\ [][SyncNext]_syncVars

-----------------------------------------------------------------------------
(***************************************************************************)
(* Properties                                                              *)
(***************************************************************************)
\* The types.
SyncTypeOK ==
  /\ onDisk \in [SessionFiles -> Contents]
  /\ sync \in {"discover", "plan", "upload", "wait", "delay", "synced", "gave up"}
  /\ attempt \in 1 .. MaxAttempts
  /\ syncFiles \subseteq Uploadable /\ toUpload \subseteq syncFiles
  /\ uploading \subseteq toUpload /\ Cardinality(uploading) = IF sync = "wait" THEN 1 ELSE 0
  /\ puts \subseteq [id : 0 .. MaxSyncFaults, waits : BOOLEAN, file : SessionFiles,
                     sha : Contents, body : 0 .. MaxContents,
                     at : {"body", "check", "object", "thread", "version", "latest"},
                     seen : 0 .. MaxContents]
  /\ objects \in [Uploadable -> 0 .. MaxContents]
  /\ versions \subseteq Uploadable
  /\ latest \in [SessionFiles -> 0 .. MaxContents]
  /\ syncFaults \in 0 .. MaxSyncFaults

\* A version that the database names is in the storage with the content its key says,
\* though files are written to while they are sent, uploads break and repeat, and either
\* server stops at any point; and a sync that says it is done leaves no file of its
\* syncFiles without its version.
SyncedIsStored ==
  /\ \A u \in versions : objects[u] = u[2]
  /\ sync = "synced" => syncFiles \subseteq versions
=============================================================================
