---------------------------- MODULE ControlPlane ----------------------------
(***************************************************************************)
(* A user's cloud computer: its row at the cloud, the identity of its      *)
(* machine, and its instance at the provider.  Modelled are the handlers   *)
(* of control-plane/computers.ts, machines/routes.ts and admin/routes.ts   *)
(* of cloud-server, await by await: each reads the row, calls the provider *)
(* and writes the row in three steps, and nothing keeps two of them from   *)
(* overlapping.  An administrator does to the computer what its user does, *)
(* by the same steps, and may delete the user with the computer.           *)
(*                                                                         *)
(* The provider is Amazon EC2 as aws-ec2-provisioner.ts uses it.  A status *)
(* "online" stands for each that a machine reports.  Left out: the Docker  *)
(* provider, names, versions, capabilities and health, which decide        *)
(* nothing here but whether an idle machine is put to sleep (any time);    *)
(* a second computer, which two creations at the same time can make.       *)
(***************************************************************************)
EXTENDS Integers

CONSTANTS
  Callers,      \* the requests of the user and of administrators under way
  MaxRequests,  \* bound: requests of the user and of administrators
  MaxReports,   \* bound: requests of the machine
  MaxBroken     \* bound: handlers that end halfway

ASSUME ControlAssumption == MaxRequests \in Nat /\ MaxReports \in Nat /\ MaxBroken \in Nat

\* "deleteUser" is the deletion of the user, and of the computer with the user.
Deletions == {"delete", "deleteUser"}
Halting == {"stop"} \cup Deletions
Kinds == {"start", "restart"} \cup Halting

VARIABLES
  computer,      \* the row: its status, and whether its metadata has the instance's id
  instance,      \* at the provider
  identity,      \* the machine's row: "none", "bootstrap" or "active" (which hash it has),
                 \* or "revoked"
  machineToken,  \* what the machine has on disk: "bootstrap" or "machine"
  creation,      \* the handler that creates the computer, by its next step
  control,       \* each request of the user or of an administrator: its kind, next step,
                 \* what it read, and whether the provider was told the opposite after this
  report,        \* the machine's request, in the same way
  doubt,         \* history: the row may say what is not, for a reason named below
  missed,        \* history: the row was deleted by a request that had not read the instance's
                 \* id, or by the deletion of the user after a termination that failed
  spent          \* how much of each bound is used up

controlVars ==
  <<computer, instance, identity, machineToken, creation, control, report, doubt, missed, spent>>

IdleRequest == [kind |-> "none", step |-> "idle", seen |-> [status |-> "none", known |-> FALSE],
                crossed |-> FALSE]

ControlInit ==
  /\ computer = [status |-> "none", known |-> FALSE]
  /\ instance = "none" /\ identity = "none" /\ machineToken = "bootstrap"
  /\ creation = "idle"
  /\ control = [c \in Callers |-> IdleRequest] /\ report = IdleRequest
  /\ doubt = FALSE /\ missed = FALSE
  /\ spent = [requests |-> 0, reports |-> 0, broken |-> 0]

RowExists == computer.status \notin {"none", "deleted"}

\* UPDATE ... WHERE id: nothing when the row is gone.
WriteStatus(status) ==
  computer' = IF RowExists THEN [computer EXCEPT !.status = status] ELSE computer

BreaksOff == spent.broken < MaxBroken /\ spent' = [spent EXCEPT !.broken = @ + 1]

-----------------------------------------------------------------------------
(***************************************************************************)
(* POST /computers.                                                        *)
(***************************************************************************)
PostComputer ==
  /\ creation = "idle"
  /\ creation' = "identity"
  /\ computer' = [status |-> "creating", known |-> FALSE]
  /\ UNCHANGED <<instance, identity, machineToken, control, report, doubt, missed, spent>>

\* The identity refers to the row: its insertion fails when the row is gone.
CreateIdentity ==
  /\ creation = "identity"
  /\ identity' = IF RowExists THEN "bootstrap" ELSE "none"
  /\ creation' = IF RowExists THEN "provision" ELSE "over"
  /\ UNCHANGED <<computer, instance, machineToken, control, report, doubt, missed, spent>>

\* provisionComputer(): the instance boots with the bootstrap token.  Its answer may be lost.
ProvisionComputer ==
  /\ creation = "provision"
  /\ \/ instance' = "running" /\ creation' = "save" /\ UNCHANGED spent
     \/ BreaksOff /\ creation' = "fail" /\ instance' \in {instance, "running"}
  /\ UNCHANGED <<computer, identity, machineToken, control, report, doubt, missed>>

SaveMetadata ==
  /\ creation = "save"
  /\ creation' = "over"
  /\ computer' = IF RowExists THEN [computer EXCEPT !.known = TRUE] ELSE computer
  /\ UNCHANGED <<instance, identity, machineToken, control, report, doubt, missed, spent>>

\* The catch block.
FailCreation ==
  /\ creation = "fail"
  /\ creation' = "over"
  /\ WriteStatus("failed")
  /\ UNCHANGED <<instance, identity, machineToken, control, report, doubt, missed, spent>>

\* The store or the cloud's process fails; a failed save is caught.
CreationBreaks ==
  /\ creation \in {"identity", "provision", "save", "fail"}
  /\ BreaksOff
  /\ \/ creation' = "over"
     \/ creation = "save" /\ creation' = "fail"
  /\ UNCHANGED <<computer, instance, identity, machineToken, control, report, doubt, missed>>

-----------------------------------------------------------------------------
(***************************************************************************)
(* The provider.  "stopping" becomes "stopped" in a while.                 *)
(***************************************************************************)
Accepts(kind) ==
  CASE kind = "start" -> instance \in {"running", "stopped"}
    [] kind = "stop" -> instance \in {"running", "stopping", "stopped"}
    [] kind = "restart" -> instance = "running"
    [] kind \in Deletions -> TRUE

Effect(kind) ==
  CASE kind \in {"start", "restart"} -> "running"
    [] kind = "stop" -> IF instance = "running" THEN "stopping" ELSE instance
    [] kind \in Deletions -> "terminated"

\* A request that was accepted before and is not yet written down.
Opposite(kind) ==
  IF kind \in Halting THEN {"start", "restart"}
  ELSE IF kind = "start" THEN {"stop"} ELSE {}

Crossing(kind, r) ==
  IF r.step = "write" /\ r.kind \in Opposite(kind) THEN [r EXCEPT !.crossed = TRUE] ELSE r

InstanceStops ==
  /\ instance = "stopping"
  /\ instance' = "stopped"
  /\ UNCHANGED <<computer, identity, machineToken, creation, control, report, doubt, missed,
                 spent>>

-----------------------------------------------------------------------------
(***************************************************************************)
(* DELETE /computers/:id and POST .../start, stop and restart, of the user *)
(* and under /admin; DELETE /admin/users/:id.                              *)
(***************************************************************************)
RequestArrives(c, kind) ==
  /\ control[c].step = "idle"
  /\ spent.requests < MaxRequests
  /\ spent' = [spent EXCEPT !.requests = @ + 1]
  /\ control' = [control EXCEPT ![c] =
                  [kind |-> kind, step |-> "call", seen |-> computer, crossed |-> FALSE]]
  /\ UNCHANGED <<computer, instance, identity, machineToken, creation, report, doubt, missed>>

\* readOwnedComputer(), or readComputer() for an administrator.
ReadComputer(c, kind) == RowExists /\ kind # "deleteUser" /\ RequestArrives(c, kind)

\* The rows of the user's computers: there may be none yet.
ReadUser(c) == (RowExists \/ creation = "idle") /\ RequestArrives(c, "deleteUser")

\* terminateComputer() does nothing without an id, and nothing is called without a row.
TerminatesNothing(c) ==
  /\ control[c].step = "call" /\ control[c].kind \in Deletions /\ ~ control[c].seen.known
  /\ control' = [control EXCEPT ![c].step = "write"]
  /\ UNCHANGED <<computer, instance, identity, machineToken, creation, report, doubt, missed,
                 spent>>

CallsProvider(c) ==
  LET kind == control[c].kind IN
  /\ control[c].step = "call" /\ control[c].seen.known /\ Accepts(kind)
  /\ instance' = Effect(kind)
  /\ control' = [d \in Callers |->
                  IF d = c THEN [control[c] EXCEPT !.step = "write"]
                  ELSE Crossing(kind, control[d])]
  /\ report' = Crossing(kind, report)
  /\ UNCHANGED <<computer, identity, machineToken, creation, doubt, missed, spent>>

\* Mutant: an error of the provider is not thrown.
WritesAnyway(c) ==
  /\ control[c].step = "call" /\ (control[c].seen.known => ~ Accepts(control[c].kind))
  /\ control' = [control EXCEPT ![c].step = "write"]
  /\ UNCHANGED <<computer, instance, identity, machineToken, creation, report, doubt, missed,
                 spent>>

\* No id, or an instance in another state (IncorrectInstanceState): the answer is an error.
ProviderRefuses(c) ==
  /\ control[c].step = "call"
  /\ IF control[c].seen.known THEN ~ Accepts(control[c].kind)
     ELSE control[c].kind \notin Deletions
  /\ control' = [control EXCEPT ![c] = IdleRequest]
  /\ UNCHANGED <<computer, instance, identity, machineToken, creation, report, doubt, missed,
                 spent>>

\* The deletion of the user passes over a termination that fails, and goes on.
TerminationFails(c) ==
  /\ control[c].step = "call" /\ control[c].kind = "deleteUser" /\ control[c].seen.known
  /\ BreaksOff
  /\ control' = [control EXCEPT ![c].step = "abandon"]
  /\ UNCHANGED <<computer, instance, identity, machineToken, creation, report, doubt, missed>>

\* updateComputerForUser() or updateComputerById().  A row that was in doubt says what is
\* again, unless the provider was told the opposite since.
WriteRow(c) ==
  /\ control[c].step = "write" /\ control[c].kind \notin Deletions
  /\ WriteStatus(IF control[c].kind = "stop" THEN "sleeping" ELSE "starting")
  /\ doubt' = control[c].crossed
  /\ control' = [control EXCEPT ![c] = IdleRequest]
  /\ UNCHANGED <<instance, identity, machineToken, creation, report, missed, spent>>

\* deleteComputerForUser() or deleteComputerById(); the identity goes with the row.
DeleteRow(c) ==
  /\ control[c].step = "write" /\ control[c].kind = "delete"
  /\ computer' = IF RowExists THEN [computer EXCEPT !.status = "deleted"] ELSE computer
  /\ identity' = "none"
  /\ missed' = (missed \/ (RowExists /\ ~ control[c].seen.known))
  /\ control' = [control EXCEPT ![c] = IdleRequest]
  /\ UNCHANGED <<instance, machineToken, creation, report, doubt, spent>>

\* deleteUserById(): the computer's row goes with the user's and the identity with it, and
\* there will be no other ("deleted" too).
DeleteUser(c) ==
  /\ control[c].step \in {"write", "abandon"} /\ control[c].kind = "deleteUser"
  /\ computer' = [computer EXCEPT !.status = "deleted"]
  /\ identity' = "none"
  /\ creation' = IF creation = "idle" THEN "over" ELSE creation
  /\ missed' = (missed \/ (RowExists /\ (~ control[c].seen.known \/ control[c].step = "abandon")))
  /\ control' = [control EXCEPT ![c] = IdleRequest]
  /\ UNCHANGED <<instance, machineToken, report, doubt, spent>>

\* The store fails, the provider's answer is missed, or the cloud's process ends.
ControlBreaks(c) ==
  /\ control[c].step # "idle" /\ BreaksOff
  /\ doubt' = (doubt \/ control[c].step = "write")
  /\ control' = [control EXCEPT ![c] = IdleRequest]
  /\ UNCHANGED <<computer, instance, identity, machineToken, creation, report, missed>>

\* POST .../identities/:id/revoke of an administrator.
RevokeIdentity ==
  /\ identity \in {"bootstrap", "active"}
  /\ identity' = "revoked"
  /\ UNCHANGED <<computer, instance, machineToken, creation, control, report, doubt, missed,
                 spent>>

-----------------------------------------------------------------------------
(***************************************************************************)
(* POST /machines/register and /machines/heartbeat.  The machine sends     *)
(* them one at a time, also while it is being stopped.                     *)
(***************************************************************************)
Reports(kind, step) ==
  /\ report.step = "idle" /\ instance \in {"running", "stopping"}
  /\ spent.reports < MaxReports
  /\ spent' = [spent EXCEPT !.reports = @ + 1]
  /\ report' = [kind |-> kind, step |-> step, seen |-> computer, crossed |-> FALSE]
  /\ UNCHANGED <<computer, instance, identity, machineToken, creation, control, doubt, missed>>

\* The look at the identity; one whose hash was cleared is refused.
RegistrationArrives ==
  /\ machineToken = "bootstrap" /\ identity = "bootstrap"
  /\ Reports("register", "activate")

ActivateIdentity ==
  /\ report.step = "activate"
  /\ identity' = IF identity = "bootstrap" THEN "active" ELSE identity
  /\ report' = IF identity = "none" THEN IdleRequest ELSE [report EXCEPT !.step = "write"]
  /\ UNCHANGED <<computer, instance, machineToken, creation, control, doubt, missed, spent>>

\* The row is made "online" whatever it was; the answer with the token may be lost.
Registered ==
  /\ report.kind = "register" /\ report.step = "write"
  /\ WriteStatus("online")
  /\ doubt' = (doubt \/ computer.status = "sleeping")
  /\ machineToken' \in {"bootstrap", "machine"}
  /\ report' = IdleRequest
  /\ UNCHANGED <<instance, identity, creation, control, missed, spent>>

\* The identity is looked up and touched, and the row is read.
HeartbeatArrives ==
  /\ machineToken = "machine" /\ identity = "active" /\ RowExists
  /\ Reports("heartbeat", "write")

\* Mutant: a heartbeat does not leave a sleeping row alone.
AlwaysOnline(seen) == "online"

\* What a heartbeat makes of the status it read.
StatusAfter(seen) == IF seen.status = "sleeping" THEN "sleeping" ELSE "online"

\* The row may have been written since it was read.  A machine that is idle is stopped.
HeartbeatWrites ==
  /\ report.kind = "heartbeat" /\ report.step = "write"
  /\ WriteStatus(StatusAfter(report.seen))
  /\ doubt' = (doubt \/ (report.seen.status = "sleeping") # (computer.status = "sleeping"))
  /\ \/ report' = IdleRequest
     \/ /\ RowExists /\ StatusAfter(report.seen) = "online"
        /\ report' = [kind |-> "stop", step |-> "call", seen |-> computer, crossed |-> FALSE]
  /\ UNCHANGED <<instance, identity, machineToken, creation, control, missed, spent>>

\* maybeAutoSleepIdleComputer(): an error is caught, and the status stays.
AutoSleepCalls ==
  /\ report.kind = "stop" /\ report.step = "call"
  /\ \/ /\ report.seen.known /\ Accepts("stop")
        /\ instance' = Effect("stop")
        /\ control' = [c \in Callers |-> Crossing("stop", control[c])]
        /\ report' = [report EXCEPT !.step = "write"]
     \/ /\ report.seen.known => ~ Accepts("stop")
        /\ report' = IdleRequest /\ UNCHANGED <<instance, control>>
  /\ UNCHANGED <<computer, identity, machineToken, creation, doubt, missed, spent>>

AutoSleepWrites ==
  /\ report.kind = "stop" /\ report.step = "write"
  /\ WriteStatus("sleeping")
  /\ doubt' = report.crossed
  /\ report' = IdleRequest
  /\ UNCHANGED <<instance, identity, machineToken, creation, control, missed, spent>>

ReportBreaks ==
  /\ report.step # "idle" /\ BreaksOff
  /\ doubt' = (doubt \/ (report.kind = "stop" /\ report.step = "write"))
  /\ report' = IdleRequest
  /\ UNCHANGED <<computer, instance, identity, machineToken, creation, control, missed>>

-----------------------------------------------------------------------------
ControlNext ==
  \/ PostComputer \/ CreateIdentity \/ ProvisionComputer \/ SaveMetadata \/ FailCreation
  \/ CreationBreaks \/ InstanceStops
  \/ \E c \in Callers :
       \/ \E kind \in Kinds : ReadComputer(c, kind)
       \/ ReadUser(c) \/ TerminatesNothing(c) \/ CallsProvider(c) \/ ProviderRefuses(c)
       \/ TerminationFails(c) \/ WriteRow(c) \/ DeleteRow(c) \/ DeleteUser(c)
       \/ ControlBreaks(c)
  \/ RevokeIdentity \/ RegistrationArrives \/ ActivateIdentity \/ Registered
  \/ HeartbeatArrives \/ HeartbeatWrites \/ AutoSleepCalls \/ AutoSleepWrites \/ ReportBreaks

ControlTypeOK ==
  /\ computer.status \in
       {"none", "creating", "starting", "online", "sleeping", "failed", "deleted"}
  /\ instance \in {"none", "running", "stopping", "stopped", "terminated"}
  /\ identity \in {"none", "bootstrap", "active", "revoked"}
  /\ machineToken \in {"bootstrap", "machine"}
  /\ creation \in {"idle", "identity", "provision", "save", "fail", "over"}
  /\ \A r \in {control[c] : c \in Callers} \cup {report} :
       /\ r.kind \in Kinds \cup {"none", "register", "heartbeat"}
       /\ r.step \in {"idle", "call", "activate", "write", "abandon"}
  /\ doubt \in BOOLEAN /\ missed \in BOOLEAN

\* The provider was told what the row does not say yet.
Unwritten(kinds) ==
  \E r \in {control[c] : c \in Callers} \cup {report} : r.step = "write" /\ r.kind \in kinds

\* A sleeping row means an instance that does not run.
SleepingIsStopped ==
  computer.status = "sleeping" =>
    doubt \/ Unwritten({"start"}) \/ instance \in {"stopping", "stopped", "terminated"}

\* A row that is online or starting means an instance that runs.
OnlineIsRunning ==
  computer.status \in {"starting", "online"} =>
    doubt \/ Unwritten(Halting) \/ instance = "running"

\* The instance of a deleted row is gone.
NoneIsLost ==
  computer.status = "deleted" => missed \/ instance \in {"none", "terminated"}

\* The row tells the truth about the instance through every order of the handlers' steps, and
\* after handlers that broke off, but in four cases: the provider was told the opposite between
\* a handler's call and its write; a heartbeat read the row before it became, or ceased to be,
\* "sleeping" and wrote it after; a machine registered with a row that slept; a handler broke
\* off between call and write.  The next undisturbed start, stop or restart mends the row.  An
\* instance outlives its row in two cases only: its id was not in the row that the deletion
\* read; or the row went with its user, whose deletion logs a failed termination and goes on.
RowsTellInstances == SleepingIsStopped /\ OnlineIsRunning /\ NoneIsLost
=============================================================================
