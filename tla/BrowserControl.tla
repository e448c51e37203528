--------------------------- MODULE BrowserControl ---------------------------
(***************************************************************************)
(* Browser control on the machine (BrowserControlBroker in                 *)
(* packages/server/src/browser-control/service.ts): a command of the agent *)
(* is sent to a browser tab's client, which streams the command's output   *)
(* file back in chunks (apps/web/src/lib/browser/browser-control-*.ts) and *)
(* then answers.                                                           *)
(*                                                                         *)
(* A client acts and the broker handles its message in one step: the       *)
(* client waits for an answer to every chunk.  Each await on the file      *)
(* system is a step of its own.  The requests of one user are modelled,    *)
(* each with one output of Chunks chunks.                                  *)
(***************************************************************************)
EXTENDS Naturals, Sequences, SequencesExt, SeqFilter

CONSTANTS
  Clients,           \* connections of the user's browsers at the same time
  Requests,          \* the commands
  Chunks,            \* chunks of an output; the last one carries "done"
  Retries,           \* DEFAULT_NO_CLIENT_RETRY_DELAYS_MS.length
  MaxFileFaults      \* bound: failures of the file system

ASSUME ChunkAssumption == Chunks \in Nat \ {0} /\ Retries \in Nat /\ MaxFileFaults \in Nat

Absent == Chunks + 1   \* no file; the target as it was before the request
NoClient == "no client"

VARIABLES
  connection,   \* a client's websocket: "none", "open", "ready", "closing"
  seen,         \* the attached clients, by lastSeenAt
  request,      \* "new", "retrying", "pending", and the answer, "ok" or "error"
  owner,        \* PendingBrowserControlRequest.client
  tries,        \* the retries selectClientWithRetry() has made
  executor,     \* the client's dispatchRequest(): "none", "working", "waiting", "failed"
  acked,        \* the chunks acknowledged to the client
  handler,      \* handleOutputWrite(): "idle", or the call it awaits
  file,         \* PendingBrowserControlOutput.file is not null
  bytesWritten, outputDone,
  temp, target, \* the chunks in the temporary file and in the target
  cleanup,      \* cleanupPendingOutputs(): "none", "closing", "removing", "done"
  fileFaults    \* how many calls of the file system have failed

clientVars == <<connection, seen>>
requestVars == <<request, owner, tries>>
executorVars == <<executor, acked>>
outputVars == <<handler, file, bytesWritten, outputDone, temp, target>>
browserVars == <<clientVars, requestVars, executorVars, outputVars, cleanup, fileFaults>>

BrowserInit ==
  /\ connection = [c \in Clients |-> "none"] /\ seen = <<>>
  /\ request = [r \in Requests |-> "new"]
  /\ owner = [r \in Requests |-> NoClient]
  /\ tries = [r \in Requests |-> 0]
  /\ executor = [r \in Requests |-> "none"] /\ acked = [r \in Requests |-> 0]
  /\ handler = [r \in Requests |-> "idle"] /\ file = [r \in Requests |-> FALSE]
  /\ bytesWritten = [r \in Requests |-> 0] /\ outputDone = [r \in Requests |-> FALSE]
  /\ temp = [r \in Requests |-> Absent] /\ target = [r \in Requests |-> Absent]
  /\ cleanup = [r \in Requests |-> "none"]
  /\ fileFaults = 0

Others(c) == Filter(seen, Clients \ {c})
Touched(c) == Append(Others(c), c)

-----------------------------------------------------------------------------
(***************************************************************************)
(* Requests.                                                               *)
(***************************************************************************)
\* complete(): the answer, and the clean-up of the output, which looks at the file
\* handle now and closes and removes later.
Complete(rs, answer) ==
  /\ request' = [r \in Requests |-> IF r \in rs THEN answer ELSE request[r]]
  /\ cleanup' = [r \in Requests |->
       IF r \notin rs THEN cleanup[r] ELSE IF file[r] THEN "closing" ELSE "removing"]
  /\ executor' = [r \in Requests |-> IF r \in rs THEN "none" ELSE executor[r]]

Ready == {c \in Clients : connection[c] = "ready"}

\* selectClient(): the ready client seen last.
Selected == CHOOSE c \in Ready : \A d \in Ready :
  (CHOOSE i \in DOMAIN seen : seen[i] = d) <= (CHOOSE i \in DOMAIN seen : seen[i] = c)

\* Mutant: one delay more than there are.
DispatchRetriesMore(r) ==
  IF Ready = {}
  THEN /\ IF tries[r] > Retries
          THEN request' = [request EXCEPT ![r] = "error"] /\ UNCHANGED tries
          ELSE request' = [request EXCEPT ![r] = "retrying"]
               /\ tries' = [tries EXCEPT ![r] = @ + 1]
       /\ UNCHANGED <<owner, executor>>
  ELSE /\ request' = [request EXCEPT ![r] = "pending"]
       /\ owner' = [owner EXCEPT ![r] = Selected]
       /\ executor' = [executor EXCEPT ![r] = "working"]
       /\ UNCHANGED tries

\* execute() once selectClientWithRetry() has looked for a client.
Dispatch(r) ==
  IF Ready = {}
  THEN /\ IF tries[r] = Retries
          THEN request' = [request EXCEPT ![r] = "error"] /\ UNCHANGED tries
          ELSE request' = [request EXCEPT ![r] = "retrying"]
               /\ tries' = [tries EXCEPT ![r] = @ + 1]
       /\ UNCHANGED <<owner, executor>>
  ELSE /\ request' = [request EXCEPT ![r] = "pending"]
       /\ owner' = [owner EXCEPT ![r] = Selected]
       /\ executor' = [executor EXCEPT ![r] = "working"]
       /\ UNCHANGED tries

\* POST /browser-control/requests
Execute(r) ==
  /\ request[r] = "new"
  /\ Dispatch(r)
  /\ UNCHANGED <<clientVars, acked, outputVars, cleanup, fileFaults>>

\* The delay of selectClientWithRetry() is over.
Retry(r) ==
  /\ request[r] = "retrying"
  /\ Dispatch(r)
  /\ UNCHANGED <<clientVars, acked, outputVars, cleanup, fileFaults>>

\* The caller's connection closes before the answer: handleAbort() and delayWithAbort().
\* The cancel reaches a client whose websocket is open; the others abort by themselves.
Abort(r) ==
  /\ request[r] \in {"retrying", "pending"}
  /\ IF request[r] = "pending"
     THEN Complete({r}, "error")
     ELSE request' = [request EXCEPT ![r] = "error"] /\ UNCHANGED <<cleanup, executor>>
  /\ UNCHANGED <<clientVars, owner, tries, acked, outputVars, fileFaults>>

\* The timer of the request fires: cancel, then complete().
Timeout(r) ==
  /\ request[r] = "pending"
  /\ Complete({r}, "error")
  /\ UNCHANGED <<clientVars, owner, tries, acked, outputVars, fileFaults>>

-----------------------------------------------------------------------------
(***************************************************************************)
(* Clients.                                                                *)
(***************************************************************************)
AttachClient(c) ==
  /\ connection[c] = "none"
  /\ connection' = [connection EXCEPT ![c] = "open"]
  /\ seen' = Append(seen, c)
  /\ UNCHANGED <<requestVars, executorVars, outputVars, cleanup, fileFaults>>

\* The message "hello"; "ping" is seen as well.
Hello(c) ==
  /\ connection[c] \in {"open", "ready"}
  /\ connection' = [connection EXCEPT ![c] = "ready"]
  /\ seen' = Touched(c)
  /\ UNCHANGED <<requestVars, executorVars, outputVars, cleanup, fileFaults>>

\* The client's side has closed, which aborts all it was doing.
ClientLeaves(c) ==
  /\ connection[c] \in {"open", "ready"}
  /\ connection' = [connection EXCEPT ![c] = "closing"]
  /\ executor' = [r \in Requests |-> IF owner[r] = c THEN "none" ELSE executor[r]]
  /\ UNCHANGED <<seen, requestVars, acked, outputVars, cleanup, fileFaults>>

\* Mutant: the client is forgotten and its requests are left to their timers.
DetachForgets(c) ==
  /\ connection[c] = "closing"
  /\ connection' = [connection EXCEPT ![c] = "none"]
  /\ seen' = Others(c)
  /\ UNCHANGED <<requestVars, executorVars, outputVars, cleanup, fileFaults>>

\* The "close" or "error" event: detachClient() rejects the client's requests.
DetachClient(c) ==
  /\ connection[c] = "closing"
  /\ connection' = [connection EXCEPT ![c] = "none"]
  /\ seen' = Others(c)
  /\ Complete({r \in Requests : request[r] = "pending" /\ owner[r] = c}, "error")
  /\ UNCHANGED <<owner, tries, acked, outputVars, fileFaults>>

\* The client's answer: an error, at any time, or "ok" when all chunks are acknowledged.
ExecutorAnswers(r) ==
  /\ executor[r] \in {"working", "failed"}
  /\ seen' = Touched(owner[r])
  /\ \/ Complete({r}, "error")
     \/ /\ executor[r] = "working" /\ acked[r] = Chunks
        /\ Complete({r}, IF outputDone[r] THEN "ok" ELSE "error")   \* finalizeClientResult()
  /\ UNCHANGED <<connection, owner, tries, acked, outputVars, fileFaults>>

-----------------------------------------------------------------------------
(***************************************************************************)
(* Outputs: handleOutputWrite(), from one await to the next.               *)
(***************************************************************************)
\* The message "output.write" is accepted, or refused with an error.
OutputWrite(r) ==
  /\ executor[r] = "working" /\ acked[r] < Chunks
  /\ seen' = Touched(owner[r])
  /\ IF ~outputDone[r] /\ acked[r] = bytesWritten[r]
     THEN /\ handler' = [handler EXCEPT ![r] = IF file[r] THEN "write" ELSE "open"]
          /\ executor' = [executor EXCEPT ![r] = "waiting"]
     ELSE executor' = [executor EXCEPT ![r] = "failed"] /\ UNCHANGED handler
  /\ UNCHANGED <<connection, requestVars, acked, file, bytesWritten, outputDone, temp, target,
                 cleanup, fileFaults>>

\* open() with "wx" has created the temporary file.
HandlerOpens(r) ==
  /\ handler[r] = "open"
  /\ file' = [file EXCEPT ![r] = TRUE]
  /\ temp' = [temp EXCEPT ![r] = 0]
  /\ handler' = [handler EXCEPT ![r] = "write"]
  /\ UNCHANGED <<clientVars, requestVars, executorVars, bytesWritten, outputDone, target,
                 cleanup, fileFaults>>

\* "output.ack", sent while the request is pending.
Acknowledge(r) ==
  IF request[r] = "pending" /\ executor[r] = "waiting"
  THEN /\ acked' = [acked EXCEPT ![r] = @ + 1]
       /\ executor' = [executor EXCEPT ![r] = "working"]
  ELSE UNCHANGED executorVars

Written(r) ==
  /\ handler[r] = "write"
  /\ temp' = [temp EXCEPT ![r] = IF @ = Absent THEN Absent ELSE bytesWritten[r] + 1]
  /\ bytesWritten' = [bytesWritten EXCEPT ![r] = @ + 1]
  /\ UNCHANGED <<clientVars, requestVars, file, target, cleanup, fileFaults>>

\* Mutant: the last chunk is acknowledged before the file has its name.
HandlerWritesAndAcks(r) ==
  /\ Written(r)
  /\ LET done == bytesWritten[r] + 1 = Chunks IN
       /\ outputDone' = [outputDone EXCEPT ![r] = done]
       /\ handler' = [handler EXCEPT ![r] = IF done THEN "close" ELSE "idle"]
       /\ Acknowledge(r)

\* The chunk is written.  The last one goes on to close(), the others are acknowledged.
HandlerWrites(r) ==
  /\ Written(r)
  /\ LET done == bytesWritten[r] + 1 = Chunks IN
       /\ outputDone' = [outputDone EXCEPT ![r] = done]
       /\ handler' = [handler EXCEPT ![r] = IF done THEN "close" ELSE "idle"]
       /\ IF done THEN UNCHANGED executorVars ELSE Acknowledge(r)

HandlerCloses(r) ==
  /\ handler[r] = "close"
  /\ file' = [file EXCEPT ![r] = FALSE]
  /\ handler' = [handler EXCEPT ![r] = "rename"]
  /\ UNCHANGED <<clientVars, requestVars, executorVars, bytesWritten, outputDone, temp, target,
                 cleanup, fileFaults>>

\* The temporary file becomes the target, whether the request is still pending or not.
HandlerRenames(r) ==
  /\ handler[r] = "rename" /\ temp[r] # Absent
  /\ target' = [target EXCEPT ![r] = temp[r]]
  /\ temp' = [temp EXCEPT ![r] = Absent]
  /\ handler' = [handler EXCEPT ![r] = "idle"]
  /\ Acknowledge(r)
  /\ UNCHANGED <<clientVars, requestVars, file, bytesWritten, outputDone, cleanup, fileFaults>>

\* A call fails, as rename() does once the clean-up has removed the file: "output.error".
HandlerFails(r) ==
  /\ handler[r] # "idle"
  /\ \/ handler[r] = "rename" /\ temp[r] = Absent /\ UNCHANGED fileFaults
     \/ fileFaults < MaxFileFaults /\ fileFaults' = fileFaults + 1
  /\ handler' = [handler EXCEPT ![r] = "idle"]
  /\ executor' = [executor EXCEPT ![r] = IF @ = "waiting" THEN "failed" ELSE @]
  /\ UNCHANGED <<clientVars, requestVars, acked, file, bytesWritten, outputDone, temp, target,
                 cleanup>>

\* The clean-up's close() waits for a write() that is under way.
CleanupCloses(r) ==
  /\ cleanup[r] = "closing" /\ handler[r] # "write"
  /\ file' = [file EXCEPT ![r] = FALSE]
  /\ cleanup' = [cleanup EXCEPT ![r] = "removing"]
  /\ UNCHANGED <<clientVars, requestVars, executorVars, handler, bytesWritten, outputDone, temp,
                 target, fileFaults>>

\* rm() of the temporary file, if there is one.
CleanupRemoves(r) ==
  /\ cleanup[r] = "removing"
  /\ temp' = [temp EXCEPT ![r] = Absent]
  /\ cleanup' = [cleanup EXCEPT ![r] = "done"]
  /\ UNCHANGED <<clientVars, requestVars, executorVars, handler, file, bytesWritten, outputDone,
                 target, fileFaults>>

-----------------------------------------------------------------------------
BrowserNext ==
  \/ \E c \in Clients : AttachClient(c) \/ Hello(c) \/ ClientLeaves(c) \/ DetachClient(c)
  \/ \E r \in Requests :
       \/ Execute(r) \/ Retry(r) \/ Abort(r) \/ Timeout(r) \/ ExecutorAnswers(r)
       \/ OutputWrite(r) \/ HandlerOpens(r) \/ HandlerWrites(r) \/ HandlerCloses(r)
       \/ HandlerRenames(r) \/ HandlerFails(r) \/ CleanupCloses(r) \/ CleanupRemoves(r)

BrowserSpec == BrowserInit /\ [][BrowserNext]_browserVars

-----------------------------------------------------------------------------
(***************************************************************************)
(* Properties                                                              *)
(***************************************************************************)
\* The types.
BrowserTypeOK ==
  /\ connection \in [Clients -> {"none", "open", "ready", "closing"}]
  /\ seen \in Seq(Clients)
  /\ request \in [Requests -> {"new", "retrying", "pending", "ok", "error"}]
  /\ owner \in [Requests -> Clients \cup {NoClient}]
  /\ tries \in [Requests -> 0 .. Retries]
  /\ executor \in [Requests -> {"none", "working", "waiting", "failed"}]
  /\ acked \in [Requests -> 0 .. Chunks]
  /\ handler \in [Requests -> {"idle", "open", "write", "close", "rename"}]
  /\ file \in [Requests -> BOOLEAN] /\ outputDone \in [Requests -> BOOLEAN]
  /\ bytesWritten \in [Requests -> 0 .. Chunks]
  /\ temp \in [Requests -> 0 .. Absent] /\ target \in [Requests -> 0 .. Absent]
  /\ cleanup \in [Requests -> {"none", "closing", "removing", "done"}]
  /\ fileFaults \in 0 .. MaxFileFaults

\* An answer "ok" means that the whole output is in its place, and whatever the races of
\* the clean-up with the writing, the target never holds a part of an output.
OkMeansWritten == \A r \in Requests :
  /\ request[r] = "ok" => target[r] = Chunks
  /\ target[r] \in {Chunks, Absent}

\* A request waits for a client that is attached: when the client is gone, so is the wait.
PendingHasClient == \A r \in Requests :
  request[r] = "pending" => connection[owner[r]] # "none"

\* A request's answer can be relied on and relies on somebody who is there: both.
RequestsAreSound == OkMeansWritten /\ PendingHasClient
=============================================================================
