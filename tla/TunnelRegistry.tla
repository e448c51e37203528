--------------------------- MODULE TunnelRegistry ---------------------------
(***************************************************************************)
(* How one machine keeps a tunnel to the cloud server: the machine         *)
(* connects, reconnects after a delay and pings                            *)
(* (MachineTunnelClient in packages/server/src/tunnel/client.ts); the      *)
(* cloud server authenticates each connection, keeps the newest in its     *)
(* registry and pings too (MachineTunnelRegistry and MachineTunnel in      *)
(* packages/cloud-server/src/gateway/tunnel.ts).                           *)
(*                                                                         *)
(* A connection is a slot with two ends and a queue each way; it is free   *)
(* again when nothing is left of it.  An end that was terminated or failed *)
(* is "dead" until its "close" event.  A path that is lost delivers        *)
(* nothing more and tells nobody.                                          *)
(***************************************************************************)
EXTENDS Naturals, FiniteSets, Sequences

CONSTANTS
  MaxSockets,   \* bound: connections of which something is left at the same time
  MaxFaults     \* bound: lost paths, late pongs, failed reads, crashes ...

ASSUME SocketAssumption == MaxSockets \in Nat \ {0} /\ MaxFaults \in Nat

Sockets == 1 .. MaxSockets
NoSocket == 0

VARIABLES
  up,              \* the machine's server runs
  stopped,         \* MachineTunnelClient.stopped
  reconnectTimer,  \* is set
  reading,         \* connect() awaits readToken()
  cloudWebSocket,  \* MachineTunnelClient.cloudWebSocket, or NoSocket
  heartbeat,       \* MachineTunnelClient.heartbeatTimer: the socket it pings, or NoSocket
  awaitsPong,      \* MachineTunnelClient.heartbeatTimeoutTimer, the same way
  machine,         \* machine's end: "none", "connecting", "open", "closing", "dead"
  registered,      \* MachineTunnelRegistry.tunnels: the machine's tunnel, or NoSocket
  cloud,           \* cloud's end: also "auth", authenticating, and "gone", closed
  cloudAwaitsPong, \* MachineTunnel.heartbeatTimeoutTimer is set
  user,            \* the tunnel has a gateway connection
  lost,            \* the path delivers nothing any more
  toCloud, toMachine,   \* what is on its way
  faults           \* how many faults have happened

clientVars == <<up, stopped, reconnectTimer, reading>>
socketVars == <<cloudWebSocket, heartbeat, awaitsPong, machine>>
cloudVars == <<registered, cloud, cloudAwaitsPong, user>>
wires == <<lost, toCloud, toMachine>>
registryVars == <<clientVars, socketVars, cloudVars, wires, faults>>

\* The machine's server has not been started yet.
RegistryInit ==
  /\ up = FALSE /\ stopped = FALSE /\ reconnectTimer = FALSE /\ reading = FALSE
  /\ cloudWebSocket = NoSocket /\ heartbeat = NoSocket /\ awaitsPong = NoSocket
  /\ machine = [s \in Sockets |-> "none"]
  /\ registered = NoSocket
  /\ cloud = [s \in Sockets |-> "gone"]
  /\ cloudAwaitsPong = [s \in Sockets |-> FALSE]
  /\ user = [s \in Sockets |-> FALSE]
  /\ lost = [s \in Sockets |-> FALSE]
  /\ toCloud = [s \in Sockets |-> <<>>]
  /\ toMachine = [s \in Sockets |-> <<>>]
  /\ faults = 0

Fault == faults < MaxFaults /\ faults' = faults + 1

\* What an end sends; a lost path and an end that is gone take nothing.
ToCloud(s, m) == IF lost[s] \/ cloud[s] = "gone" THEN toCloud[s] ELSE Append(toCloud[s], m)
ToMachine(s, m) ==
  IF lost[s] \/ machine[s] = "none" THEN toMachine[s] ELSE Append(toMachine[s], m)

Free(s) ==
  /\ machine[s] = "none" /\ cloud[s] \in {"none", "gone"}
  /\ toCloud[s] = <<>> /\ toMachine[s] = <<>>

-----------------------------------------------------------------------------
(***************************************************************************)
(* The machine.                                                            *)
(***************************************************************************)
\* connectSoon(): nothing when it is stopped or a timer is set.
ConnectSoon == reconnectTimer' = (reconnectTimer \/ ~stopped)

\* The timer of connectSoon() fires and connect() starts to read the token.
TimerFires ==
  /\ reconnectTimer
  /\ reconnectTimer' = FALSE
  /\ reading' = TRUE
  /\ UNCHANGED <<up, stopped, socketVars, cloudVars, wires, faults>>

\* connect() goes on with a new websocket, whether it was stopped meanwhile or not.  The
\* slots are alike: it takes the first that is free.
Connect(s) ==
  /\ reading /\ Free(s) /\ \A t \in 1 .. s - 1 : ~Free(t)
  /\ reading' = FALSE
  /\ cloudWebSocket' = s
  /\ machine' = [machine EXCEPT ![s] = "connecting"]
  /\ cloud' = [cloud EXCEPT ![s] = "none"]
  /\ lost' = [lost EXCEPT ![s] = FALSE]
  /\ toCloud' = [toCloud EXCEPT ![s] = <<"upgrade">>]
  /\ UNCHANGED <<up, stopped, reconnectTimer, heartbeat, awaitsPong, registered,
                 cloudAwaitsPong, user, toMachine, faults>>

\* Mutant: without a token the client gives up.
TokenMissingGivesUp ==
  /\ reading /\ Fault
  /\ reading' = FALSE
  /\ UNCHANGED <<up, stopped, reconnectTimer, socketVars, cloudVars, wires>>

\* The token file is missing, empty or cannot be read.
TokenMissing ==
  /\ reading /\ Fault
  /\ reading' = FALSE
  /\ ConnectSoon
  /\ UNCHANGED <<up, stopped, socketVars, cloudVars, wires>>

MachineReads(s, m) ==
  /\ toMachine[s] # <<>> /\ Head(toMachine[s]) = m
  /\ toMachine' = [toMachine EXCEPT ![s] = Tail(@)]

\* The "open" event: startHeartbeat().
MachineOpens(s) ==
  /\ machine[s] = "connecting"
  /\ MachineReads(s, "accept")
  /\ machine' = [machine EXCEPT ![s] = "open"]
  /\ heartbeat' = s
  /\ awaitsPong' = NoSocket
  /\ UNCHANGED <<clientVars, cloudWebSocket, cloudVars, lost, toCloud, faults>>

\* Mutant: the websocket is taken as gone before its close event.
MachineFailsGone(s) ==
  /\ machine' = [machine EXCEPT ![s] = "gone"]
  /\ heartbeat' = NoSocket
  /\ awaitsPong' = NoSocket

\* The "error" event; webSocket.close() finds a websocket that is closing already.
MachineFails(s) ==
  /\ machine' = [machine EXCEPT ![s] = "dead"]
  /\ heartbeat' = NoSocket
  /\ awaitsPong' = NoSocket

\* Mutant: the "error" event schedules the next attempt as well.
MachineErrorsAndRetries(s) ==
  /\ lost[s] /\ machine[s] \in {"connecting", "open", "closing"}
  /\ MachineFails(s)
  /\ ConnectSoon
  /\ UNCHANGED <<up, stopped, reading, cloudWebSocket, cloudVars, wires, faults>>

\* The cloud answers the upgrade with an error.
MachineRejected(s) ==
  /\ machine[s] = "connecting"
  /\ MachineReads(s, "reject")
  /\ MachineFails(s)
  /\ UNCHANGED <<clientVars, cloudWebSocket, cloudVars, lost, toCloud, faults>>

\* The system tells the machine that the path is lost.
MachineErrors(s) ==
  /\ lost[s] /\ machine[s] \in {"connecting", "open", "closing"}
  /\ MachineFails(s)
  /\ UNCHANGED <<clientVars, cloudWebSocket, cloudVars, wires, faults>>

\* sendHeartbeat() of the machine.
MachinePings(s) ==
  /\ heartbeat = s /\ s = cloudWebSocket /\ machine[s] = "open" /\ awaitsPong = NoSocket
  /\ awaitsPong' = s
  /\ toCloud' = [toCloud EXCEPT ![s] = ToCloud(s, "ping")]
  /\ UNCHANGED <<clientVars, cloudWebSocket, heartbeat, machine, cloudVars, lost, toMachine,
                 faults>>

\* A ping is answered by the websocket itself, a pong is an event.
MachineHeartbeat(s) ==
  /\ machine[s] \in {"open", "closing"}
  /\ \/ /\ MachineReads(s, "ping")
        /\ toCloud' = IF machine[s] = "open"
                      THEN [toCloud EXCEPT ![s] = ToCloud(s, "pong")] ELSE toCloud
        /\ UNCHANGED awaitsPong
     \/ /\ MachineReads(s, "pong")
        /\ awaitsPong' = NoSocket
        /\ UNCHANGED toCloud
  /\ UNCHANGED <<clientVars, cloudWebSocket, heartbeat, machine, cloudVars, lost, faults>>

\* heartbeatTimeoutTimer fires: the path is lost, or the pong is late.
MachineTimesOut(s) ==
  /\ awaitsPong = s /\ machine[s] # "none"
  /\ \/ lost[s] /\ UNCHANGED faults
     \/ ~lost[s] /\ Fault
  /\ machine' = [machine EXCEPT ![s] = "dead"]
  /\ toCloud' = [toCloud EXCEPT ![s] = IF machine[s] = "dead" THEN @ ELSE ToCloud(s, "fin")]
  /\ UNCHANGED <<clientVars, cloudWebSocket, heartbeat, awaitsPong, cloudVars, lost, toMachine>>

\* The "close" event of the machine's websocket: it was terminated or has failed, the
\* cloud's end is gone, or a path that is lost does not answer the close.
MachineClose(s) ==
  /\ \/ machine[s] = "dead"
     \/ machine[s] = "closing" /\ lost[s]
     \/ machine[s] \in {"connecting", "open", "closing"} /\ toMachine[s] # <<>>
        /\ Head(toMachine[s]) = "fin"
  /\ machine' = [machine EXCEPT ![s] = "none"]
  /\ toCloud' = [toCloud EXCEPT ![s] =
                   IF machine[s] \in {"connecting", "open"} THEN ToCloud(s, "fin") ELSE @]
  /\ toMachine' = [toMachine EXCEPT ![s] = <<>>]
  /\ heartbeat' = NoSocket
  /\ awaitsPong' = NoSocket
  /\ cloudWebSocket' = NoSocket
  /\ ConnectSoon
  /\ UNCHANGED <<up, stopped, reading, cloudVars, lost, faults>>

\* stop(): a websocket that is connecting is aborted.
Stop ==
  /\ up /\ ~stopped
  /\ stopped' = TRUE
  /\ reconnectTimer' = FALSE
  /\ heartbeat' = NoSocket
  /\ awaitsPong' = NoSocket
  /\ cloudWebSocket' = NoSocket
  /\ machine' = [s \in Sockets |->
       IF s # cloudWebSocket THEN machine[s]
       ELSE CASE machine[s] = "open" -> "closing"
              [] machine[s] = "connecting" -> "dead"
              [] OTHER -> machine[s]]
  /\ toCloud' = [s \in Sockets |->
       IF s = cloudWebSocket /\ machine[s] \in {"open", "connecting"}
       THEN ToCloud(s, "fin") ELSE toCloud[s]]
  /\ UNCHANGED <<up, reading, cloudVars, lost, toMachine, faults>>

\* The machine's server dies; the system closes its sockets.
Crash ==
  /\ up /\ Fault
  /\ up' = FALSE /\ stopped' = FALSE /\ reconnectTimer' = FALSE /\ reading' = FALSE
  /\ cloudWebSocket' = NoSocket /\ heartbeat' = NoSocket /\ awaitsPong' = NoSocket
  /\ machine' = [s \in Sockets |-> "none"]
  /\ toCloud' = [s \in Sockets |->
       IF machine[s] \in {"connecting", "open"} THEN ToCloud(s, "fin") ELSE toCloud[s]]
  /\ toMachine' = [s \in Sockets |-> <<>>]
  /\ UNCHANGED <<cloudVars, lost>>

\* A new process of the server calls start().
Start ==
  /\ ~up
  /\ up' = TRUE
  /\ reconnectTimer' = TRUE
  /\ UNCHANGED <<stopped, reading, socketVars, cloudVars, wires, faults>>

-----------------------------------------------------------------------------
(***************************************************************************)
(* The cloud server.                                                       *)
(***************************************************************************)
CloudReads(s, m) ==
  /\ toCloud[s] # <<>> /\ Head(toCloud[s]) = m
  /\ toCloud' = [toCloud EXCEPT ![s] = Tail(@)]

\* The upgrade request; authenticateMachineTunnel() asks the store.
UpgradeArrives(s) ==
  /\ cloud[s] = "none"
  /\ CloudReads(s, "upgrade")
  /\ cloud' = [cloud EXCEPT ![s] = "auth"]
  /\ UNCHANGED <<clientVars, socketVars, registered, cloudAwaitsPong, user, lost, toMachine,
                 faults>>

\* Mutant: the registry forgets the previous tunnel and leaves it open.
SetForgets(s) ==
  /\ registered' = s
  /\ cloud' = [cloud EXCEPT ![s] = "open"]
  /\ user' = user
  /\ toMachine' = [toMachine EXCEPT ![s] = ToMachine(s, "accept")]

\* MachineTunnelRegistry.set() of a new tunnel, which closes the one it replaces.
Set(s) ==
  /\ registered' = s
  /\ cloud' = [t \in Sockets |->
       CASE t = s -> "open"
         [] t = registered /\ cloud[t] = "open" -> "closing"
         [] OTHER -> cloud[t]]
  /\ user' = [t \in Sockets |-> user[t] /\ t # registered]
  /\ toMachine' = [t \in Sockets |->
       CASE t = s -> ToMachine(t, "accept")
         [] t = registered /\ cloud[t] = "open" -> ToMachine(t, "fin")
         [] OTHER -> toMachine[t]]

\* The machine is known: handleUpgrade() and a new MachineTunnel, which starts to ping.
Authenticated(s) ==
  /\ cloud[s] = "auth"
  /\ Set(s)
  /\ UNCHANGED <<clientVars, socketVars, cloudAwaitsPong, lost, toCloud, faults>>

\* The token is refused or the store has failed.
AuthFails(s) ==
  /\ cloud[s] = "auth" /\ Fault
  /\ cloud' = [cloud EXCEPT ![s] = "gone"]
  /\ toCloud' = [toCloud EXCEPT ![s] = <<>>]
  /\ toMachine' = [toMachine EXCEPT ![s] = ToMachine(s, "reject")]
  /\ UNCHANGED <<clientVars, socketVars, registered, cloudAwaitsPong, user, lost>>

\* sendHeartbeat() of the cloud.
CloudPings(s) ==
  /\ cloud[s] = "open" /\ ~cloudAwaitsPong[s]
  /\ cloudAwaitsPong' = [cloudAwaitsPong EXCEPT ![s] = TRUE]
  /\ toMachine' = [toMachine EXCEPT ![s] = ToMachine(s, "ping")]
  /\ UNCHANGED <<clientVars, socketVars, registered, cloud, user, lost, toCloud, faults>>

CloudHeartbeat(s) ==
  /\ cloud[s] \in {"open", "closing"}
  /\ \/ /\ CloudReads(s, "ping")
        /\ toMachine' = IF cloud[s] = "open"
                        THEN [toMachine EXCEPT ![s] = ToMachine(s, "pong")] ELSE toMachine
        /\ UNCHANGED cloudAwaitsPong
     \/ /\ CloudReads(s, "pong")
        /\ cloudAwaitsPong' = [cloudAwaitsPong EXCEPT ![s] = FALSE]
        /\ UNCHANGED toMachine
  /\ UNCHANGED <<clientVars, socketVars, registered, cloud, user, lost, faults>>

CloudTimesOut(s) ==
  /\ cloudAwaitsPong[s] /\ cloud[s] \in {"open", "closing"}
  /\ \/ lost[s] /\ UNCHANGED faults
     \/ ~lost[s] /\ Fault
  /\ cloud' = [cloud EXCEPT ![s] = "dead"]
  /\ toMachine' = [toMachine EXCEPT ![s] = IF cloud[s] = "open" THEN ToMachine(s, "fin") ELSE @]
  /\ UNCHANGED <<clientVars, socketVars, registered, cloudAwaitsPong, user, lost, toCloud>>

\* MachineTunnelRegistry.delete()
Delete(s) == registered' = IF registered = s THEN NoSocket ELSE registered

\* The "error" event of the cloud's websocket.
CloudErrors(s) ==
  /\ lost[s] /\ cloud[s] \in {"open", "closing"}
  /\ cloud' = [cloud EXCEPT ![s] = "dead"]
  /\ cloudAwaitsPong' = [cloudAwaitsPong EXCEPT ![s] = FALSE]
  /\ user' = [user EXCEPT ![s] = FALSE]
  /\ Delete(s)
  /\ UNCHANGED <<clientVars, socketVars, wires, faults>>

\* The "close" event of the cloud's websocket; of a connection that is authenticating
\* only the socket is closed.
CloudClose(s) ==
  /\ \/ cloud[s] = "dead"
     \/ cloud[s] \in {"auth", "closing"} /\ lost[s]
     \/ cloud[s] \in {"auth", "open", "closing"} /\ toCloud[s] # <<>> /\ Head(toCloud[s]) = "fin"
  /\ cloud' = [cloud EXCEPT ![s] = "gone"]
  /\ cloudAwaitsPong' = [cloudAwaitsPong EXCEPT ![s] = FALSE]
  /\ user' = [user EXCEPT ![s] = FALSE]
  /\ Delete(s)
  /\ toCloud' = [toCloud EXCEPT ![s] = <<>>]
  /\ toMachine' = [toMachine EXCEPT ![s] =
                     IF cloud[s] \in {"auth", "open"} THEN ToMachine(s, "fin") ELSE @]
  /\ UNCHANGED <<clientVars, socketVars, lost, faults>>

\* openGatewayConnection() on the tunnel the registry holds.
UserJoins ==
  /\ registered # NoSocket
  /\ user' = [user EXCEPT ![registered] = TRUE]
  /\ UNCHANGED <<clientVars, socketVars, registered, cloud, cloudAwaitsPong, wires, faults>>

UserLeaves(s) ==
  /\ user' = [user EXCEPT ![s] = FALSE]
  /\ UNCHANGED <<clientVars, socketVars, registered, cloud, cloudAwaitsPong, wires, faults>>

\* The cloud server starts again with an empty registry.
CloudRestarts ==
  /\ Fault
  /\ registered' = NoSocket
  /\ cloud' = [s \in Sockets |-> IF cloud[s] = "none" THEN "none" ELSE "gone"]
  /\ cloudAwaitsPong' = [s \in Sockets |-> FALSE]
  /\ user' = [s \in Sockets |-> FALSE]
  /\ toCloud' = [s \in Sockets |-> IF cloud[s] = "none" THEN toCloud[s] ELSE <<>>]
  /\ toMachine' = [s \in Sockets |->
       IF cloud[s] \in {"auth", "open"} THEN ToMachine(s, "fin") ELSE toMachine[s]]
  /\ UNCHANGED <<clientVars, socketVars, lost>>

\* The path between the two ends breaks.
PathIsLost(s) ==
  /\ ~lost[s] /\ ~Free(s) /\ Fault
  /\ lost' = [lost EXCEPT ![s] = TRUE]
  /\ toCloud' = [toCloud EXCEPT ![s] = <<>>]
  /\ toMachine' = [toMachine EXCEPT ![s] = <<>>]
  /\ UNCHANGED <<clientVars, socketVars, cloudVars>>

-----------------------------------------------------------------------------
MachineStep(s) ==
  \/ Connect(s) \/ MachineOpens(s) \/ MachineRejected(s) \/ MachineErrors(s)
  \/ MachinePings(s) \/ MachineHeartbeat(s) \/ MachineTimesOut(s) \/ MachineClose(s)

CloudStep(s) ==
  \/ UpgradeArrives(s) \/ Authenticated(s) \/ AuthFails(s) \/ CloudPings(s)
  \/ CloudHeartbeat(s) \/ CloudTimesOut(s) \/ CloudErrors(s) \/ CloudClose(s)
  \/ UserLeaves(s)

RegistryNext ==
  \/ TimerFires \/ TokenMissing \/ Stop \/ Crash \/ Start \/ UserJoins \/ CloudRestarts
  \/ \E s \in Sockets : MachineStep(s) \/ CloudStep(s) \/ PathIsLost(s)

RegistrySpec == RegistryInit /\ [][RegistryNext]_registryVars

\* Timers fire, what is on its way arrives, the store answers, and the machine's server
\* is started again when it has died.  Nothing ends the wait for an answer to the upgrade
\* on a lost path.
RegistryFairness ==
  /\ WF_registryVars(TimerFires)
  /\ WF_registryVars(faults > 0 /\ Start)
  /\ WF_registryVars(\E s \in Sockets : Connect(s))
  /\ \A s \in Sockets :
       /\ WF_registryVars(MachineOpens(s) \/ MachineRejected(s) \/ MachineHeartbeat(s))
       /\ WF_registryVars(MachinePings(s))
       /\ WF_registryVars(lost[s] /\ MachineTimesOut(s))
       /\ WF_registryVars(MachineClose(s))
       /\ WF_registryVars(UpgradeArrives(s) \/ CloudHeartbeat(s))
       /\ WF_registryVars(Authenticated(s))
       /\ WF_registryVars(CloudPings(s))
       /\ WF_registryVars(lost[s] /\ CloudTimesOut(s))
       /\ WF_registryVars(CloudClose(s))

RegistryFairSpec == RegistrySpec /\ RegistryFairness

-----------------------------------------------------------------------------
(***************************************************************************)
(* Properties                                                              *)
(***************************************************************************)
\* The types.
RegistryTypeOK ==
  /\ up \in BOOLEAN /\ stopped \in BOOLEAN /\ reconnectTimer \in BOOLEAN /\ reading \in BOOLEAN
  /\ {cloudWebSocket, heartbeat, awaitsPong, registered} \subseteq Sockets \cup {NoSocket}
  /\ machine \in [Sockets -> {"none", "connecting", "open", "closing", "dead"}]
  /\ cloud \in [Sockets -> {"none", "auth", "open", "closing", "dead", "gone"}]
  /\ cloudAwaitsPong \in [Sockets -> BOOLEAN] /\ user \in [Sockets -> BOOLEAN]
  /\ lost \in [Sockets -> BOOLEAN]
  /\ toCloud \in [Sockets -> Seq({"upgrade", "ping", "pong", "fin"})]
  /\ toMachine \in [Sockets -> Seq({"accept", "reject", "ping", "pong", "fin"})]
  /\ faults \in 0 .. MaxFaults

\* However late an old connection authenticates, closes or fails, the registry holds the
\* one tunnel that is open, and no user is left on a tunnel the registry does not hold.
OneTunnel ==
  /\ \A s \in Sockets :
       /\ cloud[s] = "open" => registered = s
       /\ user[s] => registered = s
  /\ registered # NoSocket => cloud[registered] \in {"open", "dead"}

\* connectSoon() starts one attempt at a time: the machine never has two tunnels, nor an
\* attempt on its way beside one, and a heartbeat pings the tunnel that is in use.
OneSocket ==
  /\ Cardinality({s \in Sockets : machine[s] # "none"})
       + (IF reading THEN 1 ELSE 0) + (IF reconnectTimer THEN 1 ELSE 0) <= 1
  /\ heartbeat # NoSocket => heartbeat = cloudWebSocket /\ machine[heartbeat] \in {"open", "dead"}
  /\ awaitsPong # NoSocket => awaitsPong = heartbeat

\* Both ends are open and each is the one its side uses.
Linked ==
  /\ cloudWebSocket # NoSocket /\ cloudWebSocket = registered
  /\ machine[registered] = "open" /\ cloud[registered] = "open" /\ ~lost[registered]

\* The path was lost before the upgrade was answered.
Unanswered == \E s \in Sockets : machine[s] = "connecting" /\ lost[s]

\* Nobody has started the machine's server.
NotStarted == ~up /\ faults = 0

\* After crashes, restarts of either side, lost paths and refused upgrades the machine is
\* reachable again, unless the client was stopped or never started, or waits for an answer
\* that never comes.
TunnelIsBack == Linked \/ stopped \/ Unanswered \/ NotStarted
=============================================================================
