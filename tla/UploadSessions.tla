--------------------------- MODULE UploadSessions ---------------------------
(***************************************************************************)
(* Uploads of the web application to a machine: create a session, send the *)
(* chunks one after the other, complete the session, and delete it after   *)
(* any failure (apps/web/src/lib/filesystem/filesystem-upload.ts), against *)
(* the machine's handlers, which await the file system                     *)
(* (packages/server/src/filesystem/upload.ts).                             *)
(*                                                                         *)
(* Every upload sends the same files to the same directory.  A request     *)
(* whose answer the client has given up goes on at the machine.            *)
(***************************************************************************)
EXTENDS Naturals, Sequences, SeqFilter

CONSTANTS
  Uploads,             \* the uploads
  Parts,               \* the chunks of an upload, in order: the file each belongs to
  NumFiles,            \* files of an upload; one without a chunk is empty
  MaxUploadFaults      \* bound: failures of the file system, restarts

ASSUME UploadAssumption ==
  NumFiles \in Nat \ {0} /\ Parts \in Seq(1 .. NumFiles) /\ MaxUploadFaults \in Nat

Files == 1 .. NumFiles
None == <<<<"no file", 0>>>>   \* no content is like it

\* What the first n chunks hold of a file, as <<upload, chunk>>; its content, once all are sent.
SentOf(u, f, n) ==
  Filter([k \in 1 .. n |-> <<u, k>>], {<<u, k>> : k \in {j \in DOMAIN Parts : Parts[j] = f}})
Content(u, f) == SentOf(u, f, Len(Parts))

VARIABLES
  browser,     \* the client: "idle", "waiting", "failing", "ok", "failed"
  uploadId,    \* the client knows the session's id
  chunksSent,  \* the chunks answered to the client
  call,        \* the handler of the last request: "idle", or where it is
  filesMoved,  \* the files completeUploadSession() has renamed
  session,     \* in uploadSessions
  expired,     \* the session's time is over
  bytesReceived,  \* UploadFileState.bytesReceived, in chunks
  tempDir,     \* the session's directory exists
  tempFile,    \* its files, or None
  removing,    \* rm() of the directory is under way
  targetFile,  \* what the uploads have put in place, or None
  restarted,   \* history: the machine's server has been restarted
  uploadFaults \* how many faults have happened

browserSide == <<browser, uploadId, chunksSent>>
disk == <<tempDir, tempFile, targetFile>>
sessions == <<session, expired, bytesReceived>>
uploadVars == <<browserSide, call, filesMoved, sessions, disk, removing, restarted, uploadFaults>>

UploadInit ==
  /\ browser = [u \in Uploads |-> "idle"]
  /\ uploadId = [u \in Uploads |-> FALSE] /\ chunksSent = [u \in Uploads |-> 0]
  /\ call = [u \in Uploads |-> "idle"] /\ filesMoved = [u \in Uploads |-> 0]
  /\ session = [u \in Uploads |-> FALSE] /\ expired = [u \in Uploads |-> FALSE]
  /\ bytesReceived = [u \in Uploads |-> [f \in Files |-> 0]]
  /\ tempDir = [u \in Uploads |-> FALSE]
  /\ tempFile = [u \in Uploads |-> [f \in Files |-> None]]
  /\ removing = [u \in Uploads |-> FALSE]
  /\ targetFile = [f \in Files |-> None]
  /\ restarted = FALSE /\ uploadFaults = 0

UploadFault == uploadFaults < MaxUploadFaults /\ uploadFaults' = uploadFaults + 1

-----------------------------------------------------------------------------
(***************************************************************************)
(* The client.                                                             *)
(***************************************************************************)
NextRequest(u) ==
  CASE ~uploadId[u] -> "create"
    [] uploadId[u] /\ chunksSent[u] < Len(Parts) -> "patch"
    [] OTHER -> "complete"

\* The next request of uploadBrowserSourcesToFilesystem() is on its way.
SendRequest(u) ==
  /\ browser[u] = "idle"
  /\ browser' = [browser EXCEPT ![u] = "waiting"]
  /\ call' = [call EXCEPT ![u] = NextRequest(u)]
  /\ UNCHANGED <<uploadId, chunksSent, filesMoved, sessions, disk, removing, restarted, uploadFaults>>

\* The client gets no answer: the connection breaks or the cloud's timer fires.
GiveUp(u) ==
  /\ browser[u] = "waiting"
  /\ browser' = [browser EXCEPT ![u] = "failing"]
  /\ UNCHANGED <<uploadId, chunksSent, call, filesMoved, sessions, disk, removing, restarted, uploadFaults>>

\* deleteUploadSession(): the session is forgotten, its directory removed later.
Forget(u) ==
  /\ session' = [session EXCEPT ![u] = FALSE]
  /\ removing' = [removing EXCEPT ![u] = @ \/ session[u]]

\* The catch block: DELETE when the session's id is known, which may be lost.
DeleteRequest(u) ==
  /\ browser[u] = "failing"
  /\ browser' = [browser EXCEPT ![u] = "failed"]
  /\ \/ uploadId[u] /\ Forget(u)
     \/ UNCHANGED <<session, removing>>
  /\ UNCHANGED <<uploadId, chunksSent, call, filesMoved, expired, bytesReceived, disk, restarted,
                 uploadFaults>>

\* The answer of a handler; a client that has given up takes none.
AnswerError(u) ==
  /\ call' = [call EXCEPT ![u] = "idle"]
  /\ browser' = [browser EXCEPT ![u] = IF @ = "waiting" THEN "failing" ELSE @]
  /\ UNCHANGED <<uploadId, chunksSent>>

AnswerOk(u, what) ==
  /\ call' = [call EXCEPT ![u] = "idle"]
  /\ IF browser[u] # "waiting" THEN UNCHANGED browserSide
     ELSE /\ browser' = [browser EXCEPT ![u] = IF what = "complete" THEN "ok" ELSE "idle"]
          /\ uploadId' = [uploadId EXCEPT ![u] = TRUE]
          /\ chunksSent' = [chunksSent EXCEPT ![u] = IF what = "patch" THEN @ + 1 ELSE @]

-----------------------------------------------------------------------------
(***************************************************************************)
(* The machine: the handlers, from one await to the next.                  *)
(***************************************************************************)
\* ensurePathAvailable() of every target.
Available == \A f \in Files : targetFile[f] = None

\* Mutant: the directory is made before the targets are looked at.
CreateMakesFirst(u) ==
  /\ call[u] = "create"
  /\ tempDir' = [tempDir EXCEPT ![u] = TRUE]
  /\ IF Available
     THEN call' = [call EXCEPT ![u] = "mkdir"] /\ UNCHANGED browserSide
     ELSE AnswerError(u)
  /\ UNCHANGED <<filesMoved, sessions, tempFile, targetFile, removing, restarted, uploadFaults>>

\* createUploadSession() has looked whether the targets are free.
CreateChecks(u) ==
  /\ call[u] = "create"
  /\ IF Available
     THEN call' = [call EXCEPT ![u] = "mkdir"] /\ UNCHANGED browserSide
     ELSE AnswerError(u)
  /\ UNCHANGED <<filesMoved, sessions, disk, removing, restarted, uploadFaults>>

\* The directory is made, the session goes into uploadSessions.
CreateMakes(u) ==
  /\ call[u] = "mkdir"
  /\ tempDir' = [tempDir EXCEPT ![u] = TRUE]
  /\ session' = [session EXCEPT ![u] = TRUE]
  /\ AnswerOk(u, "create")
  /\ UNCHANGED <<filesMoved, expired, bytesReceived, tempFile, targetFile, removing, restarted,
                 uploadFaults>>

\* getUploadSession(): unknown, expired (and deleted on the way), or found.
Found(u) == session[u] /\ ~expired[u]
NotFound(u) ==
  /\ ~Found(u)
  /\ Forget(u)
  /\ AnswerError(u)
  /\ UNCHANGED <<filesMoved, expired, bytesReceived, disk, restarted, uploadFaults>>

\* The chunk on its way and its file.
Chunk(u) == chunksSent[u] + 1
FileOf(u) == Parts[Chunk(u)]
Offset(u) == Len(SentOf(u, FileOf(u), chunksSent[u]))
SizeOf(u, f) == Len(Content(u, f))   \* the file's size

\* writeUploadChunk(): the checks.
PatchArrives(u) ==
  /\ call[u] = "patch"
  /\ \/ NotFound(u)
     \/ /\ Found(u)
        /\ IF Offset(u) = bytesReceived[u][FileOf(u)]
              /\ bytesReceived[u][FileOf(u)] < SizeOf(u, FileOf(u))
           THEN call' = [call EXCEPT ![u] = "write"] /\ UNCHANGED browserSide
           ELSE AnswerError(u)
        /\ UNCHANGED <<filesMoved, sessions, disk, removing, restarted, uploadFaults>>

\* writeFile() with "wx" or appendFile() has written into the directory that is there.
PatchWrites(u) ==
  /\ call[u] = "write" /\ tempDir[u]
  /\ bytesReceived[u][FileOf(u)] = 0 => tempFile[u][FileOf(u)] = None
  /\ tempFile' = [tempFile EXCEPT ![u][FileOf(u)] =
                    Append(IF @ = None THEN <<>> ELSE @, <<u, Chunk(u)>>)]
  /\ bytesReceived' = [bytesReceived EXCEPT ![u][FileOf(u)] = @ + 1]
  /\ AnswerOk(u, "patch")
  /\ UNCHANGED <<filesMoved, session, expired, tempDir, targetFile, removing, restarted, uploadFaults>>

PatchFails(u) ==
  /\ call[u] = "write"
  /\ \/ ~tempDir[u] /\ UNCHANGED uploadFaults
     \/ UploadFault
  /\ AnswerError(u)
  /\ UNCHANGED <<filesMoved, sessions, disk, removing, restarted>>

\* completeUploadSession(): every file is there.
CompleteArrives(u) ==
  /\ call[u] = "complete"
  /\ \/ NotFound(u)
     \/ /\ Found(u)
        /\ IF \A f \in Files : bytesReceived[u][f] = SizeOf(u, f)
           THEN call' = [call EXCEPT ![u] = "check"] /\ UNCHANGED <<browserSide, session, removing>>
           ELSE Forget(u) /\ AnswerError(u)
        /\ UNCHANGED <<filesMoved, expired, bytesReceived, disk, restarted, uploadFaults>>

\* The targets are free, at this moment.
CompleteChecks(u) ==
  /\ call[u] = "check"
  /\ IF Available
     THEN call' = [call EXCEPT ![u] = "move"] /\ UNCHANGED <<browserSide, session, removing>>
     ELSE Forget(u) /\ AnswerError(u)
  /\ UNCHANGED <<filesMoved, expired, bytesReceived, disk, restarted, uploadFaults>>

\* Mutant: a file that is missing is passed over.
CompleteSkips(u) ==
  LET f == filesMoved[u] + 1 IN
  /\ call[u] = "move" /\ f \in Files
  /\ targetFile' = [targetFile EXCEPT ![f] = IF SizeOf(u, f) = 0 THEN <<>> ELSE tempFile[u][f]]
  /\ tempFile' = [tempFile EXCEPT ![u][f] = None]
  /\ filesMoved' = [filesMoved EXCEPT ![u] = f]
  /\ UNCHANGED <<browserSide, call, sessions, tempDir, removing, restarted, uploadFaults>>

\* One file: an empty one is made, then rename(), which replaces what is in its place.
CompleteMoves(u) ==
  LET f == filesMoved[u] + 1 IN
  /\ call[u] = "move" /\ f \in Files
  /\ tempDir[u] /\ (SizeOf(u, f) > 0 => tempFile[u][f] # None)
  /\ targetFile' = [targetFile EXCEPT ![f] = IF SizeOf(u, f) = 0 THEN <<>> ELSE tempFile[u][f]]
  /\ tempFile' = [tempFile EXCEPT ![u][f] = None]
  /\ filesMoved' = [filesMoved EXCEPT ![u] = f]
  /\ UNCHANGED <<browserSide, call, sessions, tempDir, removing, restarted, uploadFaults>>

\* The loop is over: the session is forgotten and its directory removed.
CompleteEnds(u) ==
  /\ call[u] = "move" /\ filesMoved[u] = NumFiles
  /\ session' = [session EXCEPT ![u] = FALSE]
  /\ removing' = [removing EXCEPT ![u] = TRUE]
  /\ call' = [call EXCEPT ![u] = "answer"]
  /\ UNCHANGED <<browserSide, filesMoved, expired, bytesReceived, disk, restarted, uploadFaults>>

CompleteAnswers(u) ==
  /\ call[u] = "answer" /\ ~removing[u]
  /\ AnswerOk(u, "complete")
  /\ UNCHANGED <<filesMoved, sessions, disk, removing, restarted, uploadFaults>>

\* A call fails, as it must when the directory was removed meanwhile; what is in place stays.
CompleteFails(u) ==
  /\ call[u] = "move" /\ filesMoved[u] < NumFiles
  /\ \/ ~tempDir[u] /\ UNCHANGED uploadFaults
     \/ UploadFault
  /\ Forget(u)
  /\ AnswerError(u)
  /\ UNCHANGED <<filesMoved, expired, bytesReceived, disk, restarted>>

\* rm() of a session's directory.
Removed(u) ==
  /\ removing[u]
  /\ removing' = [removing EXCEPT ![u] = FALSE]
  /\ tempDir' = [tempDir EXCEPT ![u] = FALSE]
  /\ tempFile' = [tempFile EXCEPT ![u] = [f \in Files |-> None]]
  /\ UNCHANGED <<browserSide, call, filesMoved, sessions, targetFile, restarted, uploadFaults>>

\* UPLOAD_SESSION_TTL_MS have passed, whatever the session is busy with.
SessionExpires(u) ==
  /\ session[u] /\ ~expired[u]
  /\ expired' = [expired EXCEPT ![u] = TRUE]
  /\ UNCHANGED <<browserSide, call, filesMoved, session, bytesReceived, disk, removing, restarted,
                 uploadFaults>>

\* cleanupExpiredUploadSessions() of some request for uploads.
CleanupExpired(u) ==
  /\ session[u] /\ expired[u]
  /\ Forget(u)
  /\ UNCHANGED <<browserSide, call, filesMoved, expired, bytesReceived, disk, restarted, uploadFaults>>

\* The machine's server starts again: uploadSessions is empty, the disk as it was.
UploadServerRestarts ==
  /\ UploadFault
  /\ restarted' = TRUE
  /\ session' = [u \in Uploads |-> FALSE]
  /\ removing' = [u \in Uploads |-> FALSE]
  /\ call' = [u \in Uploads |-> "idle"]
  /\ browser' = [u \in Uploads |->
       IF browser[u] = "waiting" /\ call[u] # "idle" THEN "failing" ELSE browser[u]]
  /\ UNCHANGED <<uploadId, chunksSent, filesMoved, expired, bytesReceived, disk>>

-----------------------------------------------------------------------------
UploadNext ==
  \/ \E u \in Uploads :
       \/ SendRequest(u) \/ GiveUp(u) \/ DeleteRequest(u)
       \/ CreateChecks(u) \/ CreateMakes(u)
       \/ PatchArrives(u) \/ PatchWrites(u) \/ PatchFails(u)
       \/ CompleteArrives(u) \/ CompleteChecks(u) \/ CompleteMoves(u) \/ CompleteEnds(u)
       \/ CompleteAnswers(u) \/ CompleteFails(u)
       \/ Removed(u) \/ SessionExpires(u) \/ CleanupExpired(u)
  \/ UploadServerRestarts

UploadSpec == UploadInit /\ [][UploadNext]_uploadVars

-----------------------------------------------------------------------------
(***************************************************************************)
(* Properties                                                              *)
(***************************************************************************)
\* The types.
UploadTypeOK ==
  /\ browser \in [Uploads -> {"idle", "waiting", "failing", "ok", "failed"}]
  /\ uploadId \in [Uploads -> BOOLEAN] /\ chunksSent \in [Uploads -> 0 .. Len(Parts)]
  /\ call \in [Uploads -> {"idle", "create", "mkdir", "patch", "write", "complete", "check",
                           "move", "answer"}]
  /\ filesMoved \in [Uploads -> 0 .. NumFiles]
  /\ session \in [Uploads -> BOOLEAN] /\ expired \in [Uploads -> BOOLEAN]
  /\ bytesReceived \in [Uploads -> [Files -> 0 .. Len(Parts)]]
  /\ tempDir \in [Uploads -> BOOLEAN] /\ removing \in [Uploads -> BOOLEAN]
  /\ DOMAIN tempFile = Uploads /\ DOMAIN targetFile = Files
  /\ restarted \in BOOLEAN /\ uploadFaults \in 0 .. MaxUploadFaults

\* A file that an upload has put in place is the whole file of one upload, in order,
\* whatever two uploads to the same directory, answers given up, expiry and restarts do;
\* and when the client is told that the upload is complete, all its files were put there.
UploadsIntact ==
  /\ \A f \in Files : targetFile[f] # None => \E u \in Uploads : targetFile[f] = Content(u, f)
  /\ \A u \in Uploads : browser[u] = "ok" =>
       filesMoved[u] = NumFiles /\ \A f \in Files : targetFile[f] # None

\* The directory of an upload is there only while its session is known or its removal is
\* under way: nothing else would ever remove it.  A restart forgets the sessions.
NoLeftovers == \A u \in Uploads : tempDir[u] => session[u] \/ removing[u] \/ restarted

\* What uploads leave on the disk, where they are put and where they were kept: both.
UploadsLeaveWhole == UploadsIntact /\ NoLeftovers
=============================================================================
