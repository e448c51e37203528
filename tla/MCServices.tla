----------------------------- MODULE MCServices -----------------------------
(***************************************************************************)
(* Eight parts of the system that share no state, checked in one run: a     *)
(* behaviour is one of one part while the others rest in their initial     *)
(* state.                                                                  *)
(***************************************************************************)
EXTENDS UploadSessions, BrowserControl, MachineRelease, AgentSessionSync, FilesystemSession,
        BrowserViewRelay, ControlPlane, CapabilityOperations, TLC

CONSTANTS a1, a2   \* uploads, clients and requests of browser control, callers

\* The two files of an upload: one of two chunks, one that is empty.
MCParts == <<1, 1>>

MCSymmetry == Permutations({a1, a2})

VARIABLE part   \* the part of the system that the behaviour is about

Init ==
  /\ part \in {"uploads", "browser control", "release", "session sync", "file browser", "relay",
               "control plane", "capabilities"}
  /\ UploadInit /\ BrowserInit /\ ReleaseInit /\ SyncInit /\ SessionInit /\ RelayInit
  /\ ControlInit /\ OperationsInit

Is(name) == part = name /\ UNCHANGED part

\* The parts, in three groups that rest together.
DisksRest == UNCHANGED <<uploadVars, browserVars, releaseVars>>
WatchersRest == UNCHANGED <<syncVars, sessionVars, relayVars>>
RecordsRest == UNCHANGED <<controlVars, operationVars>>

DisksNext ==
  \/ Is("uploads") /\ UploadNext /\ UNCHANGED <<browserVars, releaseVars>>
  \/ Is("browser control") /\ BrowserNext /\ UNCHANGED <<uploadVars, releaseVars>>
  \/ Is("release") /\ ReleaseNext /\ UNCHANGED <<uploadVars, browserVars>>

WatchersNext ==
  \/ Is("session sync") /\ SyncNext /\ UNCHANGED <<sessionVars, relayVars>>
  \/ Is("file browser") /\ SessionNext /\ UNCHANGED <<syncVars, relayVars>>
  \/ Is("relay") /\ RelayNext /\ UNCHANGED <<syncVars, sessionVars>>

RecordsNext ==
  \/ Is("control plane") /\ ControlNext /\ UNCHANGED operationVars
  \/ Is("capabilities") /\ OperationsNext /\ UNCHANGED controlVars

Next ==
  \/ DisksNext /\ WatchersRest /\ RecordsRest
  \/ WatchersNext /\ DisksRest /\ RecordsRest
  \/ RecordsNext /\ DisksRest /\ WatchersRest

Spec == Init /\ [][Next]_<<uploadVars, browserVars, releaseVars, syncVars, sessionVars,
                           relayVars, controlVars, operationVars, part>>

\* The types of the part that moves.
TypeOK ==
  CASE part = "uploads" -> UploadTypeOK
    [] part = "browser control" -> BrowserTypeOK
    [] part = "release" -> ReleaseTypeOK
    [] part = "session sync" -> SyncTypeOK
    [] part = "file browser" -> SessionTypeOK
    [] part = "relay" -> RelayTypeOK
    [] part = "control plane" -> ControlTypeOK
    [] part = "capabilities" -> OperationsTypeOK
=============================================================================
