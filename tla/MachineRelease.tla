--------------------------- MODULE MachineRelease ---------------------------
(***************************************************************************)
(* Releases of the machine's server: ank1015-machine-release of            *)
(* packages/machine-bootstrap/scripts, run as "latest" before every start  *)
(* of the server and as "update" by the loop of the heartbeat script,      *)
(* under systemd.                                                          *)
(*                                                                         *)
(* main and install_release are called as conditions, so that bash does    *)
(* not leave them at a command that fails: what follows a failed download  *)
(* or a failed check of its sum is done all the same.  The states shown to *)
(* the user (machine-update-state) are left out.                           *)
(***************************************************************************)
EXTENDS Naturals

CONSTANTS
  NumReleases,   \* the releases that are published, one after the other
  Migrations,    \* the migration scripts of a release
  MaxHostFaults  \* bound: crashes of a server that is whole, reboots

ASSUME ReleaseAssumption ==
  NumReleases \in Nat \ {0} /\ Migrations \in Nat /\ MaxHostFaults \in Nat

Releases == 1 .. NumReleases
Nothing == 0
Itself == NumReleases + 1   \* the path of the link, where the path of a release is expected

Runs == {"latest", "update"}   \* two processes of the script

VARIABLES
  published,      \* the cloud's latest release
  manifest,       \* LATEST_JSON: the latest release, and "updateAvailable"
  current,        \* the link to the current release
  releaseDir,     \* its directory: "none", "whole", "damaged", or "empty", without a server
  tempRelease,    \* .tmp-<version>, the same way
  migrated,       \* the migration scripts of a release that are marked as done
  machineVersion, \* MACHINE_SERVER_VERSION in machine.env
  server,         \* systemd's unit: "stopped", "failed", "starting" or "up"
  step,           \* where a run is
  release, previous,  \* version and previous_target of the run
  undo,           \* what the run takes back: "no", "migration", "release"
  alone,          \* history: nothing has overlapped with the run
  disturbed,      \* history: runs have overlapped, or one was cut short
  hostFaults      \* how many faults have happened

disks == <<current, releaseDir, tempRelease, migrated, machineVersion>>
runVars == <<release, previous, undo>>
history == <<alone, disturbed>>
releaseVars == <<published, manifest, disks, server, step, runVars, history, hostFaults>>

ReleaseInit ==
  /\ published = 1
  /\ manifest = [version |-> Nothing, available |-> FALSE]
  /\ current = Nothing /\ machineVersion = Nothing
  /\ releaseDir = [v \in Releases |-> "none"] /\ tempRelease = [v \in Releases |-> "none"]
  /\ migrated = [v \in Releases |-> 0]
  /\ server = "stopped"
  /\ step = [p \in Runs |-> "idle"]
  /\ release = [p \in Runs |-> Nothing] /\ previous = [p \in Runs |-> Nothing]
  /\ undo = [p \in Runs |-> "no"]
  /\ alone = [p \in Runs |-> FALSE] /\ disturbed = FALSE
  /\ hostFaults = 0

HostFault == hostFaults < MaxHostFaults /\ hostFaults' = hostFaults + 1

HasServer(c) == c \in Releases /\ releaseDir[c] \in {"whole", "damaged"}

\* readlink -f of the link: a link that is missing is its own path, a loop is nothing.
Resolved == CASE current \in Releases -> current
              [] current = Nothing -> Itself
              [] current = Itself -> Nothing

\* test -d
IsDirectory(d) ==
  \/ d \in Releases /\ releaseDir[d] # "none"
  \/ d = Itself /\ current \in Releases /\ releaseDir[current] # "none"

Goes(p, s) == step' = [step EXCEPT ![p] = s]

\* The run ends, its variables with it.  ExecStartPre lets the server start when "latest"
\* has not failed.
Ends(p, ok) ==
  /\ step' = [step EXCEPT ![p] = "idle"]
  /\ release' = [release EXCEPT ![p] = Nothing]
  /\ previous' = [previous EXCEPT ![p] = Nothing]
  /\ undo' = [undo EXCEPT ![p] = "no"]
  /\ server' = CASE p = "update" -> server
                 [] p = "latest" /\ ~ok -> "failed"
                 [] p = "latest" /\ ok -> IF HasServer(current') THEN "up" ELSE "stopped"

-----------------------------------------------------------------------------
(***************************************************************************)
(* systemd and the heartbeat script.                                       *)
(***************************************************************************)
\* History: a run of p starts beside the other one, unless that one waits for it.
Begins(p) ==
  LET other == CHOOSE q \in Runs : q # p
      busy == step[other] \notin {"idle", "restarting"}
  IN /\ alone' = [alone EXCEPT ![p] = ~busy, ![other] = @ /\ ~busy /\ step[other] # "idle"]
     /\ disturbed' = (disturbed \/ busy)

\* The unit starts, at boot or again (Restart=always): ExecStartPre.  A restart that
\* systemctl waits for tells its outcome first.
ServerStarts ==
  /\ server \in {"stopped", "failed"} /\ step["update"] # "restarting"
  /\ server' = "starting"
  /\ Goes("latest", "check")
  /\ Begins("latest")
  /\ UNCHANGED <<published, manifest, disks, runVars, hostFaults>>

\* node ends by itself.
ServerCrashes ==
  /\ server = "up"
  /\ server' = "stopped"
  /\ IF HasServer(current) /\ releaseDir[current] = "damaged" THEN UNCHANGED hostFaults ELSE HostFault
  /\ UNCHANGED <<published, manifest, disks, step, runVars, history>>

\* The loop of the heartbeat script.
HeartbeatUpdates ==
  /\ step["update"] = "idle"
  /\ Goes("update", "fetch")
  /\ Begins("update")
  /\ UNCHANGED <<published, manifest, disks, server, runVars, hostFaults>>

\* The host stops at any point and boots again.
HostReboots ==
  /\ HostFault
  /\ disturbed' = (disturbed \/ \E p \in Runs : step[p] # "idle")
  /\ step' = [p \in Runs |-> "idle"]
  /\ release' = [p \in Runs |-> Nothing] /\ previous' = [p \in Runs |-> Nothing]
  /\ undo' = [p \in Runs |-> "no"]
  /\ server' = "stopped"
  /\ alone' = [p \in Runs |-> FALSE]
  /\ UNCHANGED <<published, manifest, disks>>

\* A newer release is published.
Publish ==
  /\ published < NumReleases
  /\ published' = published + 1
  /\ UNCHANGED <<manifest, disks, server, step, runVars, history, hostFaults>>

-----------------------------------------------------------------------------
(***************************************************************************)
(* The script.                                                             *)
(***************************************************************************)
\* install_latest_if_needed(): is there a server already?
LatestChecks ==
  /\ step["latest"] = "check"
  /\ UNCHANGED <<published, manifest, disks, history, hostFaults>>
  /\ IF HasServer(current)
     THEN Ends("latest", TRUE)
     ELSE /\ Goes("latest", "fetch")
          /\ previous' = [previous EXCEPT !["latest"] = Resolved]
          /\ UNCHANGED <<server, release, undo>>

\* latest_release(): a request that fails leaves the manifest that was there.
LatestRelease ==
  \/ manifest' = [version |-> published, available |-> machineVersion \notin {Nothing, published}]
  \/ UNCHANGED manifest

\* install_release() of v: the directory is there, or it is downloaded.
InstallRelease(p, v) ==
  /\ release' = [release EXCEPT ![p] = v]
  /\ Goes(p, IF HasServer(v) THEN "unlink" ELSE "download")

LatestFetches ==
  /\ step["latest"] = "fetch"
  /\ LatestRelease
  /\ IF manifest'.version = Nothing
     THEN Ends("latest", FALSE)
     ELSE InstallRelease("latest", manifest'.version) /\ UNCHANGED <<server, previous, undo>>
  /\ UNCHANGED <<published, disks, history, hostFaults>>

\* install_update_if_idle(): nothing new, or the server is busy, or the release is installed.
UpdateFetches ==
  /\ step["update"] = "fetch"
  /\ LatestRelease
  /\ \/ Ends("update", TRUE)
     \/ /\ manifest'.available /\ manifest'.version # machineVersion
        /\ InstallRelease("update", manifest'.version)
        /\ previous' = [previous EXCEPT !["update"] = Resolved]
        /\ UNCHANGED <<server, undo>>
  /\ UNCHANGED <<published, disks, history, hostFaults>>

\* rm, mkdir, curl, sha256sum and tar, each whether the one before has failed or not.
Download(p) ==
  /\ step[p] = "download"
  /\ \E d \in {"whole", "damaged", "empty"} :
       tempRelease' = [tempRelease EXCEPT ![release[p]] = d]
  /\ Goes(p, "place")
  /\ UNCHANGED <<published, manifest, current, releaseDir, migrated, machineVersion, server,
                 runVars, history, hostFaults>>

\* rm -rf of the release's directory, then mv of the temporary one.
Place(p) ==
  /\ step[p] = "place"
  /\ releaseDir' = [releaseDir EXCEPT ![release[p]] = tempRelease[release[p]]]
  /\ tempRelease' = [tempRelease EXCEPT ![release[p]] = "none"]
  /\ Goes(p, "unlink")
  /\ UNCHANGED <<published, manifest, current, migrated, machineVersion, server, runVars,
                 history, hostFaults>>

\* point_current_link_at(): rm -f ...
Unlink(p) ==
  /\ step[p] = "unlink"
  /\ current' = Nothing
  /\ Goes(p, "link")
  /\ UNCHANGED <<published, manifest, releaseDir, tempRelease, migrated, machineVersion, server,
                 runVars, history, hostFaults>>

Target(p) == IF undo[p] = "no" THEN release[p] ELSE previous[p]

\* ... and ln -s, which leaves a link that the other run has made meanwhile.
Link(p) ==
  /\ step[p] = "link"
  /\ current' = IF current = Nothing THEN Target(p) ELSE current
  /\ CASE undo[p] = "no" -> Goes(p, "migrate") /\ UNCHANGED <<server, runVars>>
       [] undo[p] = "migration" -> Ends(p, FALSE)
       [] undo[p] = "release" -> Goes(p, "version") /\ UNCHANGED <<server, runVars>>
  /\ UNCHANGED <<published, manifest, releaseDir, tempRelease, migrated, machineVersion, history,
                 hostFaults>>

\* run_release_migrations(): the next script that is not marked, if there are any.
Migrate(p) ==
  LET v == release[p] IN
  /\ step[p] = "migrate"
  /\ releaseDir[v] \in {"whole", "damaged"} /\ migrated[v] < Migrations
  /\ migrated' = [migrated EXCEPT ![v] = @ + 1]
  /\ UNCHANGED <<published, manifest, current, releaseDir, tempRelease, machineVersion, server,
                 step, runVars, history, hostFaults>>

\* A script fails: rollback_current_link().
MigrationFails(p) ==
  LET v == release[p] IN
  /\ step[p] = "migrate"
  /\ releaseDir[v] \in {"whole", "damaged"} /\ migrated[v] < Migrations
  /\ IF IsDirectory(previous[p])
     THEN /\ Goes(p, "unlink") /\ undo' = [undo EXCEPT ![p] = "migration"]
          /\ UNCHANGED <<current, server, release, previous>>
     ELSE current' = Nothing /\ Ends(p, FALSE)
  /\ UNCHANGED <<published, manifest, releaseDir, tempRelease, migrated, machineVersion, history,
                 hostFaults>>

\* All are done, or there are none.
Migrated(p) ==
  LET v == release[p] IN
  /\ step[p] = "migrate"
  /\ releaseDir[v] = "whole" => migrated[v] = Migrations
  /\ Goes(p, "version")
  /\ UNCHANGED <<published, manifest, disks, server, runVars, history, hostFaults>>

\* update_machine_version(), of the release or, in rollback_release(), of the previous one.
UpdateMachineVersion(p) ==
  /\ step[p] = "version"
  /\ machineVersion' = Target(p)
  /\ disturbed' = (disturbed /\ ~(undo[p] = "no" /\ alone[p]))
  /\ UNCHANGED <<published, manifest, current, releaseDir, tempRelease, migrated, alone, hostFaults>>
  /\ IF p = "latest" THEN Ends(p, TRUE) ELSE Goes(p, "restart") /\ UNCHANGED <<server, runVars>>

\* systemctl restart: the unit's start, a new one if it was starting, is waited for.
RestartMachineServer ==
  /\ step["update"] = "restart"
  /\ server' = "starting"
  /\ step' = [step EXCEPT !["update"] = "restarting", !["latest"] = "check"]
  /\ release' = [release EXCEPT !["latest"] = Nothing]
  /\ previous' = [previous EXCEPT !["latest"] = Nothing]
  /\ undo' = [undo EXCEPT !["latest"] = "no"]
  /\ UNCHANGED <<published, manifest, disks, history, hostFaults>>

\* Mutant: the link goes back and MACHINE_SERVER_VERSION does not.
RollbackKeepsVersion ==
  IF IsDirectory(previous["update"])
  THEN /\ current' = IF previous["update"] \in Releases THEN previous["update"] ELSE Itself
       /\ Goes("update", "restart") /\ undo' = [undo EXCEPT !["update"] = "release"]
       /\ UNCHANGED <<server, release, previous>>
  ELSE Ends("update", FALSE) /\ UNCHANGED current

\* rollback_release() starts with the link, if there is something to go back to.
RollbackRelease ==
  IF IsDirectory(previous["update"])
  THEN /\ Goes("update", "unlink") /\ undo' = [undo EXCEPT !["update"] = "release"]
       /\ UNCHANGED <<server, current, release, previous>>
  ELSE Ends("update", FALSE) /\ UNCHANGED current

\* The restart is over: wait_for_machine_health(), unless it failed; a rollback ends here.
Restarted ==
  /\ step["update"] = "restarting" /\ server # "starting"
  /\ CASE undo["update"] = "release" -> Ends("update", FALSE) /\ UNCHANGED current
       [] undo["update"] # "release" /\ server = "failed" -> RollbackRelease
       [] OTHER -> Goes("update", "health") /\ UNCHANGED <<server, current, runVars>>
  /\ UNCHANGED <<published, manifest, releaseDir, tempRelease, migrated, machineVersion, history,
                 hostFaults>>

\* The server has answered in time, or it has not.
Health ==
  /\ step["update"] = "health"
  /\ \/ server = "up" /\ Ends("update", TRUE) /\ UNCHANGED current
     \/ RollbackRelease
  /\ UNCHANGED <<published, manifest, releaseDir, tempRelease, migrated, machineVersion, history,
                 hostFaults>>

-----------------------------------------------------------------------------
ReleaseNext ==
  \/ ServerStarts \/ ServerCrashes \/ HeartbeatUpdates \/ HostReboots \/ Publish
  \/ LatestChecks \/ LatestFetches \/ UpdateFetches
  \/ RestartMachineServer \/ Restarted \/ Health
  \/ \E p \in Runs :
       \/ Download(p) \/ Place(p) \/ Unlink(p) \/ Link(p)
       \/ Migrate(p) \/ MigrationFails(p) \/ Migrated(p) \/ UpdateMachineVersion(p)

ReleaseSpec == ReleaseInit /\ [][ReleaseNext]_releaseVars

-----------------------------------------------------------------------------
(***************************************************************************)
(* Properties                                                              *)
(***************************************************************************)
\* The types.
ReleaseTypeOK ==
  /\ published \in Releases
  /\ manifest \in [version : Releases \cup {Nothing}, available : BOOLEAN]
  /\ {current, machineVersion} \subseteq Releases \cup {Nothing, Itself}
  /\ releaseDir \in [Releases -> {"none", "whole", "damaged", "empty"}]
  /\ tempRelease \in [Releases -> {"none", "whole", "damaged", "empty"}]
  /\ migrated \in [Releases -> 0 .. Migrations]
  /\ server \in {"stopped", "failed", "starting", "up"}
  /\ step \in [Runs -> {"idle", "check", "fetch", "download", "place", "unlink", "link", "migrate",
                        "version", "restart", "restarting", "health"}]
  /\ release \in [Runs -> Releases \cup {Nothing}]
  /\ previous \in [Runs -> Releases \cup {Nothing, Itself}]
  /\ undo \in [Runs -> {"no", "migration", "release"}]
  /\ alone \in [Runs -> BOOLEAN] /\ disturbed \in BOOLEAN /\ hostFaults \in 0 .. MaxHostFaults

\* Through failed migrations, failed restarts and rollbacks MACHINE_SERVER_VERSION, by which
\* the next update is decided, names the release the link leads to, once no run is under way;
\* a run that was cut short, or overlapped, is made good by the next one that installs.
VersionIsCurrent ==
  (\A p \in Runs : step[p] = "idle") /\ ~disturbed /\ current \in Releases
    => machineVersion = current

\* "download and verify the tarball, atomically move [the link]" (docs/cloud-server-vms.md):
\* the release the link leads to is one whose archive matched its sum.
CurrentIsVerified == current \in Releases /\ ~disturbed => releaseDir[current] = "whole"
=============================================================================
