-------------------------- MODULE ConnectionsProofs --------------------------
(***************************************************************************)
(* The safety properties of the connections that reconnect on their own,   *)
(* for any number of websockets, requests, directories, pages and faults.  *)
(***************************************************************************)
EXTENDS MCConnections, FiniteSetTheorems, SequenceTheorems, TLAPS

-----------------------------------------------------------------------------
(***************************************************************************)
(* The machine's tunnel.                                                   *)
(***************************************************************************)
UpMessages == Seq({"upgrade", "ping", "pong", "fin"})
DownMessages == Seq({"accept", "reject", "ping", "pong", "fin"})

\* The types, each variable's by itself.
RegistryTyped ==
  /\ up \in BOOLEAN /\ stopped \in BOOLEAN /\ reconnectTimer \in BOOLEAN /\ reading \in BOOLEAN
  /\ cloudWebSocket \in Sockets \cup {NoSocket} /\ heartbeat \in Sockets \cup {NoSocket}
  /\ awaitsPong \in Sockets \cup {NoSocket} /\ registered \in Sockets \cup {NoSocket}
  /\ machine \in [Sockets -> {"none", "connecting", "open", "closing", "dead"}]
  /\ cloud \in [Sockets -> {"none", "auth", "open", "closing", "dead", "gone"}]
  /\ cloudAwaitsPong \in [Sockets -> BOOLEAN] /\ user \in [Sockets -> BOOLEAN]
  /\ lost \in [Sockets -> BOOLEAN]
  /\ toCloud \in [Sockets -> UpMessages] /\ toMachine \in [Sockets -> DownMessages]
  /\ faults \in 0 .. MaxFaults

\* The machine has one websocket of which its close event has not come, or awaits its
\* token, or has set the timer, or none of them.
Alone ==
  /\ \A s, t \in Sockets : machine[s] # "none" /\ machine[t] # "none" => s = t
  /\ reading => \A s \in Sockets : machine[s] = "none"
  /\ reconnectTimer => ~reading /\ \A s \in Sockets : machine[s] = "none"
  /\ ~up => ~reconnectTimer /\ ~reading /\ \A s \in Sockets : machine[s] = "none"

\* What the client keeps of its websocket.
InUse ==
  /\ \A s \in Sockets : machine[s] \in {"connecting", "open"} => cloudWebSocket = s
  /\ heartbeat # NoSocket => heartbeat = cloudWebSocket /\ machine[heartbeat] \in {"open", "dead"}
  /\ awaitsPong # NoSocket => awaitsPong = heartbeat

RegistryInv == RegistryTyped /\ OneTunnel /\ Alone /\ InUse

-----------------------------------------------------------------------------
\* What a read and a write do to the types of the wires.
LEMMA UpTypes ==
  ASSUME RegistryTyped, NEW s \in Sockets
  PROVE  /\ toCloud \in [Sockets -> UpMessages] /\ <<>> \in UpMessages
         /\ <<"upgrade">> \in UpMessages
         /\ toCloud[s] # <<>> => Tail(toCloud[s]) \in UpMessages
         /\ \A m \in {"ping", "pong", "fin"} : ToCloud(s, m) \in UpMessages
<1>1. toCloud \in [Sockets -> UpMessages] /\ toCloud[s] \in UpMessages
  BY DEF RegistryTyped
<1>2. <<>> \in UpMessages /\ <<"upgrade">> \in UpMessages
  BY DEF UpMessages
<1>3. toCloud[s] # <<>> => Tail(toCloud[s]) \in UpMessages
  BY <1>1, HeadTailProperties DEF UpMessages
<1>4. ASSUME NEW m \in {"ping", "pong", "fin"} PROVE ToCloud(s, m) \in UpMessages
  <2>1. Append(toCloud[s], m) \in UpMessages
    BY <1>1 DEF UpMessages
  <2>. QED BY <1>1, <2>1 DEF ToCloud
<1>. QED BY <1>1, <1>2, <1>3, <1>4

LEMMA DownTypes ==
  ASSUME RegistryTyped, NEW s \in Sockets
  PROVE  /\ toMachine \in [Sockets -> DownMessages] /\ <<>> \in DownMessages
         /\ toMachine[s] # <<>> => Tail(toMachine[s]) \in DownMessages
         /\ \A m \in {"accept", "reject", "ping", "pong", "fin"} :
              ToMachine(s, m) \in DownMessages
<1>1. toMachine \in [Sockets -> DownMessages] /\ toMachine[s] \in DownMessages
  BY DEF RegistryTyped
<1>2. <<>> \in DownMessages
  BY DEF DownMessages
<1>3. toMachine[s] # <<>> => Tail(toMachine[s]) \in DownMessages
  BY <1>1, HeadTailProperties DEF DownMessages
<1>4. ASSUME NEW m \in {"accept", "reject", "ping", "pong", "fin"}
      PROVE  ToMachine(s, m) \in DownMessages
  <2>1. Append(toMachine[s], m) \in DownMessages
    BY <1>1 DEF DownMessages
  <2>. QED BY <1>1, <2>1 DEF ToMachine
<1>. QED BY <1>1, <1>2, <1>3, <1>4

LEMMA RegistryInitially ==
  ASSUME RegistryInit
  PROVE  RegistryInv
<1>1. RegistryTyped
  <2>1. <<>> \in UpMessages /\ <<>> \in DownMessages /\ 0 \in 0 .. MaxFaults
    BY SocketAssumption DEF UpMessages, DownMessages
  <2>. QED BY <2>1 DEF RegistryInit, RegistryTyped
<1>2. \A s \in Sockets : s # NoSocket
  BY SocketAssumption DEF Sockets, NoSocket
<1>. QED BY <1>1, <1>2 DEF RegistryInit, RegistryInv, OneTunnel, Alone, InUse

LEMMA NoSocketFact ==
  /\ NoSocket \notin Sockets
  /\ faults \in 0 .. MaxFaults /\ Fault => faults' \in 0 .. MaxFaults
BY SocketAssumption DEF Sockets, NoSocket, Fault

LEMMA TimerFiresStep ==
  ASSUME RegistryInv, TimerFires
  PROVE  RegistryInv'
<1>1. RegistryTyped'
  BY NoSocketFact, UpTypes, DownTypes
     DEF RegistryInv, RegistryTyped, TimerFires, clientVars, socketVars, cloudVars, wires
<1>2. OneTunnel'
  BY NoSocketFact DEF RegistryInv, RegistryTyped, OneTunnel, TimerFires, clientVars,
     socketVars, cloudVars, wires
<1>3. Alone'
  BY NoSocketFact DEF RegistryInv, RegistryTyped, Alone, TimerFires, clientVars, socketVars,
     cloudVars, wires
<1>4. InUse'
  BY NoSocketFact DEF RegistryInv, RegistryTyped, Alone, InUse, TimerFires, clientVars,
     socketVars, cloudVars, wires
<1>. QED BY <1>1, <1>2, <1>3, <1>4 DEF RegistryInv

LEMMA TokenMissingStep ==
  ASSUME RegistryInv, TokenMissing
  PROVE  RegistryInv'
<1>1. RegistryTyped'
  BY NoSocketFact, UpTypes, DownTypes
     DEF RegistryInv, RegistryTyped, TokenMissing, ConnectSoon, Fault, clientVars, socketVars,
         cloudVars, wires
<1>2. OneTunnel'
  BY NoSocketFact DEF RegistryInv, RegistryTyped, OneTunnel, TokenMissing, ConnectSoon, Fault,
     clientVars, socketVars, cloudVars, wires
<1>3. Alone'
  BY NoSocketFact DEF RegistryInv, RegistryTyped, Alone, TokenMissing, ConnectSoon, Fault,
     clientVars, socketVars, cloudVars, wires
<1>4. InUse'
  BY NoSocketFact DEF RegistryInv, RegistryTyped, Alone, InUse, TokenMissing, ConnectSoon,
     Fault, clientVars, socketVars, cloudVars, wires
<1>. QED BY <1>1, <1>2, <1>3, <1>4 DEF RegistryInv

LEMMA ConnectStep ==
  ASSUME RegistryInv, NEW s \in Sockets, Connect(s)
  PROVE  RegistryInv'
<1>1. RegistryTyped'
  BY NoSocketFact, UpTypes, DownTypes
     DEF RegistryInv, RegistryTyped, Connect, Free, clientVars, socketVars, cloudVars, wires
<1>2. OneTunnel'
  BY NoSocketFact DEF RegistryInv, RegistryTyped, OneTunnel, Connect, Free, clientVars,
     socketVars, cloudVars, wires
<1>3. Alone'
  BY NoSocketFact DEF RegistryInv, RegistryTyped, Alone, Connect, Free, clientVars,
     socketVars, cloudVars, wires
<1>4. InUse'
  BY NoSocketFact DEF RegistryInv, RegistryTyped, Alone, InUse, Connect, Free, clientVars,
     socketVars, cloudVars, wires
<1>. QED BY <1>1, <1>2, <1>3, <1>4 DEF RegistryInv

LEMMA MachineOpensStep ==
  ASSUME RegistryInv, NEW s \in Sockets, MachineOpens(s)
  PROVE  RegistryInv'
<1>1. RegistryTyped'
  BY NoSocketFact, UpTypes, DownTypes
     DEF RegistryInv, RegistryTyped, MachineOpens, MachineReads, clientVars, socketVars,
         cloudVars, wires
<1>2. OneTunnel'
  BY NoSocketFact DEF RegistryInv, RegistryTyped, OneTunnel, MachineOpens, MachineReads,
     clientVars, socketVars, cloudVars, wires
<1>3. Alone'
  BY NoSocketFact DEF RegistryInv, RegistryTyped, Alone, MachineOpens, MachineReads,
     clientVars, socketVars, cloudVars, wires
<1>4. InUse'
  BY NoSocketFact DEF RegistryInv, RegistryTyped, Alone, InUse, MachineOpens, MachineReads,
     clientVars, socketVars, cloudVars, wires
<1>. QED BY <1>1, <1>2, <1>3, <1>4 DEF RegistryInv

LEMMA MachineRejectedStep ==
  ASSUME RegistryInv, NEW s \in Sockets, MachineRejected(s)
  PROVE  RegistryInv'
<1>1. RegistryTyped'
  BY NoSocketFact, UpTypes, DownTypes
     DEF RegistryInv, RegistryTyped, MachineRejected, MachineReads, MachineFails, clientVars,
         socketVars, cloudVars, wires
<1>2. OneTunnel'
  BY NoSocketFact DEF RegistryInv, RegistryTyped, OneTunnel, MachineRejected, MachineReads,
     MachineFails, clientVars, socketVars, cloudVars, wires
<1>3. Alone'
  BY NoSocketFact DEF RegistryInv, RegistryTyped, Alone, MachineRejected, MachineReads,
     MachineFails, clientVars, socketVars, cloudVars, wires
<1>4. InUse'
  BY NoSocketFact DEF RegistryInv, RegistryTyped, Alone, InUse, MachineRejected, MachineReads,
     MachineFails, clientVars, socketVars, cloudVars, wires
<1>. QED BY <1>1, <1>2, <1>3, <1>4 DEF RegistryInv

LEMMA MachineErrorsStep ==
  ASSUME RegistryInv, NEW s \in Sockets, MachineErrors(s)
  PROVE  RegistryInv'
<1>1. RegistryTyped'
  BY NoSocketFact, UpTypes, DownTypes
     DEF RegistryInv, RegistryTyped, MachineErrors, MachineFails, clientVars, socketVars,
         cloudVars, wires
<1>2. OneTunnel'
  BY NoSocketFact DEF RegistryInv, RegistryTyped, OneTunnel, MachineErrors, MachineFails,
     clientVars, socketVars, cloudVars, wires
<1>3. Alone'
  BY NoSocketFact DEF RegistryInv, RegistryTyped, Alone, MachineErrors, MachineFails,
     clientVars, socketVars, cloudVars, wires
<1>4. InUse'
  BY NoSocketFact DEF RegistryInv, RegistryTyped, Alone, InUse, MachineErrors, MachineFails,
     clientVars, socketVars, cloudVars, wires
<1>. QED BY <1>1, <1>2, <1>3, <1>4 DEF RegistryInv

LEMMA MachinePingsStep ==
  ASSUME RegistryInv, NEW s \in Sockets, MachinePings(s)
  PROVE  RegistryInv'
<1>1. RegistryTyped'
  BY NoSocketFact, UpTypes, DownTypes
     DEF RegistryInv, RegistryTyped, MachinePings, clientVars, socketVars, cloudVars, wires
<1>2. OneTunnel'
  BY NoSocketFact DEF RegistryInv, RegistryTyped, OneTunnel, MachinePings, clientVars,
     socketVars, cloudVars, wires
<1>3. Alone'
  BY NoSocketFact DEF RegistryInv, RegistryTyped, Alone, MachinePings, clientVars, socketVars,
     cloudVars, wires
<1>4. InUse'
  BY NoSocketFact DEF RegistryInv, RegistryTyped, Alone, InUse, MachinePings, clientVars,
     socketVars, cloudVars, wires
<1>. QED BY <1>1, <1>2, <1>3, <1>4 DEF RegistryInv

LEMMA MachineHeartbeatStep ==
  ASSUME RegistryInv, NEW s \in Sockets, MachineHeartbeat(s)
  PROVE  RegistryInv'
<1>1. RegistryTyped'
  BY ZenonT(60), NoSocketFact, UpTypes, DownTypes
     DEF RegistryInv, RegistryTyped, MachineHeartbeat, MachineReads, clientVars, socketVars,
         cloudVars, wires
<1>2. OneTunnel'
  BY NoSocketFact DEF RegistryInv, RegistryTyped, OneTunnel, MachineHeartbeat, MachineReads,
     clientVars, socketVars, cloudVars, wires
<1>3. Alone'
  BY NoSocketFact DEF RegistryInv, RegistryTyped, Alone, MachineHeartbeat, MachineReads,
     clientVars, socketVars, cloudVars, wires
<1>4. InUse'
  BY NoSocketFact DEF RegistryInv, RegistryTyped, Alone, InUse, MachineHeartbeat,
     MachineReads, clientVars, socketVars, cloudVars, wires
<1>. QED BY <1>1, <1>2, <1>3, <1>4 DEF RegistryInv

LEMMA MachineTimesOutStep ==
  ASSUME RegistryInv, NEW s \in Sockets, MachineTimesOut(s)
  PROVE  RegistryInv'
<1>1. RegistryTyped'
  BY NoSocketFact, UpTypes, DownTypes
     DEF RegistryInv, RegistryTyped, MachineTimesOut, Fault, clientVars, socketVars,
         cloudVars, wires
<1>2. OneTunnel'
  BY NoSocketFact DEF RegistryInv, RegistryTyped, OneTunnel, MachineTimesOut, Fault,
     clientVars, socketVars, cloudVars, wires
<1>3. Alone'
  BY NoSocketFact DEF RegistryInv, RegistryTyped, Alone, MachineTimesOut, Fault, clientVars,
     socketVars, cloudVars, wires
<1>4. InUse'
  BY NoSocketFact DEF RegistryInv, RegistryTyped, Alone, InUse, MachineTimesOut, Fault,
     clientVars, socketVars, cloudVars, wires
<1>. QED BY <1>1, <1>2, <1>3, <1>4 DEF RegistryInv

LEMMA MachineCloseStep ==
  ASSUME RegistryInv, NEW s \in Sockets, MachineClose(s)
  PROVE  RegistryInv'
<1>1. RegistryTyped'
  BY NoSocketFact, UpTypes, DownTypes
     DEF RegistryInv, RegistryTyped, MachineClose, ConnectSoon, clientVars, socketVars,
         cloudVars, wires
<1>2. OneTunnel'
  BY NoSocketFact DEF RegistryInv, RegistryTyped, OneTunnel, MachineClose, ConnectSoon,
     clientVars, socketVars, cloudVars, wires
<1>3. Alone'
  BY NoSocketFact DEF RegistryInv, RegistryTyped, Alone, MachineClose, ConnectSoon,
     clientVars, socketVars, cloudVars, wires
<1>4. InUse'
  BY NoSocketFact DEF RegistryInv, RegistryTyped, Alone, InUse, MachineClose, ConnectSoon,
     clientVars, socketVars, cloudVars, wires
<1>. QED BY <1>1, <1>2, <1>3, <1>4 DEF RegistryInv

LEMMA StopStep ==
  ASSUME RegistryInv, Stop
  PROVE  RegistryInv'
<1>1. RegistryTyped'
  BY NoSocketFact, UpTypes, DownTypes
     DEF RegistryInv, RegistryTyped, Stop, clientVars, socketVars, cloudVars, wires
<1>2. OneTunnel'
  BY NoSocketFact DEF RegistryInv, RegistryTyped, OneTunnel, Stop, clientVars, socketVars,
     cloudVars, wires
<1>3. Alone'
  BY NoSocketFact DEF RegistryInv, RegistryTyped, Alone, Stop, clientVars, socketVars,
     cloudVars, wires
<1>4. InUse'
  BY NoSocketFact DEF RegistryInv, RegistryTyped, Alone, InUse, Stop, clientVars, socketVars,
     cloudVars, wires
<1>. QED BY <1>1, <1>2, <1>3, <1>4 DEF RegistryInv

LEMMA CrashStep ==
  ASSUME RegistryInv, Crash
  PROVE  RegistryInv'
<1>1. RegistryTyped'
  BY NoSocketFact, UpTypes, DownTypes
     DEF RegistryInv, RegistryTyped, Crash, Fault, clientVars, socketVars, cloudVars, wires
<1>2. OneTunnel'
  BY NoSocketFact DEF RegistryInv, RegistryTyped, OneTunnel, Crash, Fault, clientVars,
     socketVars, cloudVars, wires
<1>3. Alone'
  BY NoSocketFact DEF RegistryInv, RegistryTyped, Alone, Crash, Fault, clientVars, socketVars,
     cloudVars, wires
<1>4. InUse'
  BY NoSocketFact DEF RegistryInv, RegistryTyped, Alone, InUse, Crash, Fault, clientVars,
     socketVars, cloudVars, wires
<1>. QED BY <1>1, <1>2, <1>3, <1>4 DEF RegistryInv

LEMMA StartStep ==
  ASSUME RegistryInv, Start
  PROVE  RegistryInv'
<1>1. RegistryTyped'
  BY NoSocketFact, UpTypes, DownTypes
     DEF RegistryInv, RegistryTyped, Start, clientVars, socketVars, cloudVars, wires
<1>2. OneTunnel'
  BY NoSocketFact DEF RegistryInv, RegistryTyped, OneTunnel, Start, clientVars, socketVars,
     cloudVars, wires
<1>3. Alone'
  BY NoSocketFact DEF RegistryInv, RegistryTyped, Alone, Start, clientVars, socketVars,
     cloudVars, wires
<1>4. InUse'
  BY NoSocketFact DEF RegistryInv, RegistryTyped, Alone, InUse, Start, clientVars, socketVars,
     cloudVars, wires
<1>. QED BY <1>1, <1>2, <1>3, <1>4 DEF RegistryInv

LEMMA UpgradeArrivesStep ==
  ASSUME RegistryInv, NEW s \in Sockets, UpgradeArrives(s)
  PROVE  RegistryInv'
<1>1. RegistryTyped'
  BY NoSocketFact, UpTypes, DownTypes
     DEF RegistryInv, RegistryTyped, UpgradeArrives, CloudReads, clientVars, socketVars,
         cloudVars, wires
<1>2. OneTunnel'
  BY NoSocketFact DEF RegistryInv, RegistryTyped, OneTunnel, UpgradeArrives, CloudReads,
     clientVars, socketVars, cloudVars, wires
<1>3. Alone'
  BY NoSocketFact DEF RegistryInv, RegistryTyped, Alone, UpgradeArrives, CloudReads,
     clientVars, socketVars, cloudVars, wires
<1>4. InUse'
  BY NoSocketFact DEF RegistryInv, RegistryTyped, Alone, InUse, UpgradeArrives, CloudReads,
     clientVars, socketVars, cloudVars, wires
<1>. QED BY <1>1, <1>2, <1>3, <1>4 DEF RegistryInv

LEMMA AuthenticatedStep ==
  ASSUME RegistryInv, NEW s \in Sockets, Authenticated(s)
  PROVE  RegistryInv'
<1>1. RegistryTyped'
  BY NoSocketFact, UpTypes, DownTypes
     DEF RegistryInv, RegistryTyped, Authenticated, Set, clientVars, socketVars, cloudVars,
         wires
<1>2. OneTunnel'
  BY NoSocketFact DEF RegistryInv, RegistryTyped, OneTunnel, Authenticated, Set, clientVars,
     socketVars, cloudVars, wires
<1>3. Alone'
  BY NoSocketFact DEF RegistryInv, RegistryTyped, Alone, Authenticated, Set, clientVars,
     socketVars, cloudVars, wires
<1>4. InUse'
  BY NoSocketFact DEF RegistryInv, RegistryTyped, Alone, InUse, Authenticated, Set,
     clientVars, socketVars, cloudVars, wires
<1>. QED BY <1>1, <1>2, <1>3, <1>4 DEF RegistryInv

LEMMA AuthFailsStep ==
  ASSUME RegistryInv, NEW s \in Sockets, AuthFails(s)
  PROVE  RegistryInv'
<1>1. RegistryTyped'
  BY NoSocketFact, UpTypes, DownTypes
     DEF RegistryInv, RegistryTyped, AuthFails, Fault, clientVars, socketVars, cloudVars, wires
<1>2. OneTunnel'
  BY NoSocketFact DEF RegistryInv, RegistryTyped, OneTunnel, AuthFails, Fault, clientVars,
     socketVars, cloudVars, wires
<1>3. Alone'
  BY NoSocketFact DEF RegistryInv, RegistryTyped, Alone, AuthFails, Fault, clientVars,
     socketVars, cloudVars, wires
<1>4. InUse'
  BY NoSocketFact DEF RegistryInv, RegistryTyped, Alone, InUse, AuthFails, Fault, clientVars,
     socketVars, cloudVars, wires
<1>. QED BY <1>1, <1>2, <1>3, <1>4 DEF RegistryInv

LEMMA CloudPingsStep ==
  ASSUME RegistryInv, NEW s \in Sockets, CloudPings(s)
  PROVE  RegistryInv'
<1>1. RegistryTyped'
  BY NoSocketFact, UpTypes, DownTypes
     DEF RegistryInv, RegistryTyped, CloudPings, clientVars, socketVars, cloudVars, wires
<1>2. OneTunnel'
  BY NoSocketFact DEF RegistryInv, RegistryTyped, OneTunnel, CloudPings, clientVars,
     socketVars, cloudVars, wires
<1>3. Alone'
  BY NoSocketFact DEF RegistryInv, RegistryTyped, Alone, CloudPings, clientVars, socketVars,
     cloudVars, wires
<1>4. InUse'
  BY NoSocketFact DEF RegistryInv, RegistryTyped, Alone, InUse, CloudPings, clientVars,
     socketVars, cloudVars, wires
<1>. QED BY <1>1, <1>2, <1>3, <1>4 DEF RegistryInv

LEMMA CloudHeartbeatStep ==
  ASSUME RegistryInv, NEW s \in Sockets, CloudHeartbeat(s)
  PROVE  RegistryInv'
<1>1. RegistryTyped'
  <2>0. toCloud[s] # <<>> /\ toCloud' = [toCloud EXCEPT ![s] = Tail(@)]
    BY DEF CloudHeartbeat, CloudReads
  <2>1. toCloud' \in [Sockets -> UpMessages]
    BY <2>0, UpTypes DEF RegistryInv
  <2>2. /\ toMachine' \in [Sockets -> DownMessages]
        /\ cloudAwaitsPong' \in [Sockets -> BOOLEAN]
    BY DownTypes DEF RegistryInv, RegistryTyped, CloudHeartbeat
  <2>. QED BY <2>1, <2>2 DEF RegistryInv, RegistryTyped, CloudHeartbeat, clientVars, socketVars
<1>2. OneTunnel'
  BY NoSocketFact DEF RegistryInv, RegistryTyped, OneTunnel, CloudHeartbeat, CloudReads,
     clientVars, socketVars, cloudVars, wires
<1>3. Alone'
  BY NoSocketFact DEF RegistryInv, RegistryTyped, Alone, CloudHeartbeat, CloudReads,
     clientVars, socketVars, cloudVars, wires
<1>4. InUse'
  BY NoSocketFact DEF RegistryInv, RegistryTyped, Alone, InUse, CloudHeartbeat, CloudReads,
     clientVars, socketVars, cloudVars, wires
<1>. QED BY <1>1, <1>2, <1>3, <1>4 DEF RegistryInv

LEMMA CloudTimesOutStep ==
  ASSUME RegistryInv, NEW s \in Sockets, CloudTimesOut(s)
  PROVE  RegistryInv'
<1>1. RegistryTyped'
  BY NoSocketFact, UpTypes, DownTypes
     DEF RegistryInv, RegistryTyped, CloudTimesOut, Fault, clientVars, socketVars, cloudVars,
         wires
<1>2. OneTunnel'
  BY NoSocketFact DEF RegistryInv, RegistryTyped, OneTunnel, CloudTimesOut, Fault, clientVars,
     socketVars, cloudVars, wires
<1>3. Alone'
  BY NoSocketFact DEF RegistryInv, RegistryTyped, Alone, CloudTimesOut, Fault, clientVars,
     socketVars, cloudVars, wires
<1>4. InUse'
  BY NoSocketFact DEF RegistryInv, RegistryTyped, Alone, InUse, CloudTimesOut, Fault,
     clientVars, socketVars, cloudVars, wires
<1>. QED BY <1>1, <1>2, <1>3, <1>4 DEF RegistryInv

LEMMA CloudErrorsStep ==
  ASSUME RegistryInv, NEW s \in Sockets, CloudErrors(s)
  PROVE  RegistryInv'
<1>1. RegistryTyped'
  BY NoSocketFact, UpTypes, DownTypes
     DEF RegistryInv, RegistryTyped, CloudErrors, Delete, clientVars, socketVars, cloudVars,
         wires
<1>2. OneTunnel'
  BY NoSocketFact DEF RegistryInv, RegistryTyped, OneTunnel, CloudErrors, Delete, clientVars,
     socketVars, cloudVars, wires
<1>3. Alone'
  BY NoSocketFact DEF RegistryInv, RegistryTyped, Alone, CloudErrors, Delete, clientVars,
     socketVars, cloudVars, wires
<1>4. InUse'
  BY NoSocketFact DEF RegistryInv, RegistryTyped, Alone, InUse, CloudErrors, Delete,
     clientVars, socketVars, cloudVars, wires
<1>. QED BY <1>1, <1>2, <1>3, <1>4 DEF RegistryInv

LEMMA CloudCloseStep ==
  ASSUME RegistryInv, NEW s \in Sockets, CloudClose(s)
  PROVE  RegistryInv'
<1>1. RegistryTyped'
  BY NoSocketFact, UpTypes, DownTypes
     DEF RegistryInv, RegistryTyped, CloudClose, Delete, clientVars, socketVars, cloudVars,
         wires
<1>2. OneTunnel'
  BY NoSocketFact DEF RegistryInv, RegistryTyped, OneTunnel, CloudClose, Delete, clientVars,
     socketVars, cloudVars, wires
<1>3. Alone'
  BY NoSocketFact DEF RegistryInv, RegistryTyped, Alone, CloudClose, Delete, clientVars,
     socketVars, cloudVars, wires
<1>4. InUse'
  BY NoSocketFact DEF RegistryInv, RegistryTyped, Alone, InUse, CloudClose, Delete,
     clientVars, socketVars, cloudVars, wires
<1>. QED BY <1>1, <1>2, <1>3, <1>4 DEF RegistryInv

LEMMA UserJoinsStep ==
  ASSUME RegistryInv, UserJoins
  PROVE  RegistryInv'
<1>1. RegistryTyped'
  BY NoSocketFact, UpTypes, DownTypes
     DEF RegistryInv, RegistryTyped, UserJoins, clientVars, socketVars, cloudVars, wires
<1>2. OneTunnel'
  BY NoSocketFact DEF RegistryInv, RegistryTyped, OneTunnel, UserJoins, clientVars,
     socketVars, cloudVars, wires
<1>3. Alone'
  BY NoSocketFact DEF RegistryInv, RegistryTyped, Alone, UserJoins, clientVars, socketVars,
     cloudVars, wires
<1>4. InUse'
  BY NoSocketFact DEF RegistryInv, RegistryTyped, Alone, InUse, UserJoins, clientVars,
     socketVars, cloudVars, wires
<1>. QED BY <1>1, <1>2, <1>3, <1>4 DEF RegistryInv

LEMMA UserLeavesStep ==
  ASSUME RegistryInv, NEW s \in Sockets, UserLeaves(s)
  PROVE  RegistryInv'
<1>1. RegistryTyped'
  BY NoSocketFact, UpTypes, DownTypes
     DEF RegistryInv, RegistryTyped, UserLeaves, clientVars, socketVars, cloudVars, wires
<1>2. OneTunnel'
  BY NoSocketFact DEF RegistryInv, RegistryTyped, OneTunnel, UserLeaves, clientVars,
     socketVars, cloudVars, wires
<1>3. Alone'
  BY NoSocketFact DEF RegistryInv, RegistryTyped, Alone, UserLeaves, clientVars, socketVars,
     cloudVars, wires
<1>4. InUse'
  BY NoSocketFact DEF RegistryInv, RegistryTyped, Alone, InUse, UserLeaves, clientVars,
     socketVars, cloudVars, wires
<1>. QED BY <1>1, <1>2, <1>3, <1>4 DEF RegistryInv

LEMMA CloudRestartsStep ==
  ASSUME RegistryInv, CloudRestarts
  PROVE  RegistryInv'
<1>1. RegistryTyped'
  BY NoSocketFact, UpTypes, DownTypes
     DEF RegistryInv, RegistryTyped, CloudRestarts, Fault, clientVars, socketVars, cloudVars,
         wires
<1>2. OneTunnel'
  BY NoSocketFact DEF RegistryInv, RegistryTyped, OneTunnel, CloudRestarts, Fault, clientVars,
     socketVars, cloudVars, wires
<1>3. Alone'
  BY NoSocketFact DEF RegistryInv, RegistryTyped, Alone, CloudRestarts, Fault, clientVars,
     socketVars, cloudVars, wires
<1>4. InUse'
  BY NoSocketFact DEF RegistryInv, RegistryTyped, Alone, InUse, CloudRestarts, Fault,
     clientVars, socketVars, cloudVars, wires
<1>. QED BY <1>1, <1>2, <1>3, <1>4 DEF RegistryInv

LEMMA PathIsLostStep ==
  ASSUME RegistryInv, NEW s \in Sockets, PathIsLost(s)
  PROVE  RegistryInv'
<1>1. RegistryTyped'
  BY NoSocketFact, UpTypes, DownTypes
     DEF RegistryInv, RegistryTyped, PathIsLost, Fault, clientVars, socketVars, cloudVars, wires
<1>2. OneTunnel'
  BY NoSocketFact DEF RegistryInv, RegistryTyped, OneTunnel, PathIsLost, Fault, clientVars,
     socketVars, cloudVars, wires
<1>3. Alone'
  BY NoSocketFact DEF RegistryInv, RegistryTyped, Alone, PathIsLost, Fault, clientVars,
     socketVars, cloudVars, wires
<1>4. InUse'
  BY NoSocketFact DEF RegistryInv, RegistryTyped, Alone, InUse, PathIsLost, Fault, clientVars,
     socketVars, cloudVars, wires
<1>. QED BY <1>1, <1>2, <1>3, <1>4 DEF RegistryInv

LEMMA RegistryStep ==
  ASSUME RegistryInv, [RegistryNext]_registryVars
  PROVE  RegistryInv'
<1>1. ASSUME NEW s \in Sockets, MachineStep(s) PROVE RegistryInv'
  BY <1>1, ConnectStep, MachineOpensStep, MachineRejectedStep, MachineErrorsStep,
     MachinePingsStep, MachineHeartbeatStep, MachineTimesOutStep, MachineCloseStep
     DEF MachineStep
<1>2. ASSUME NEW s \in Sockets, CloudStep(s) PROVE RegistryInv'
  BY <1>2, UpgradeArrivesStep, AuthenticatedStep, AuthFailsStep, CloudPingsStep,
     CloudHeartbeatStep, CloudTimesOutStep, CloudErrorsStep, CloudCloseStep, UserLeavesStep
     DEF CloudStep
<1>3. CASE UNCHANGED registryVars
  BY <1>3 DEF registryVars, clientVars, socketVars, cloudVars, wires, RegistryInv,
     RegistryTyped,
              OneTunnel, Alone, InUse
<1>. QED BY <1>1, <1>2, <1>3, TimerFiresStep, TokenMissingStep, StopStep, CrashStep, StartStep,
            UserJoinsStep, CloudRestartsStep, PathIsLostStep DEF RegistryNext

\* Counting what Alone says.
LEMMA AttemptsCounted ==
  ASSUME RegistryInv
  PROVE  Cardinality({s \in Sockets : machine[s] # "none"})
           + (IF reading THEN 1 ELSE 0) + (IF reconnectTimer THEN 1 ELSE 0) <= 1
<1>. DEFINE used == {s \in Sockets : machine[s] # "none"}
            n == Cardinality(used)
<1>0. reading \in BOOLEAN /\ reconnectTimer \in BOOLEAN
  BY DEF RegistryInv, RegistryTyped
<1>. HIDE DEF n
<1>1. n + (IF reading THEN 1 ELSE 0) + (IF reconnectTimer THEN 1 ELSE 0) <= 1
  <2>1. CASE used = {}
    <3>1. n = 0
      BY <2>1, FS_EmptySet DEF n
    <3>2. ~ (reading /\ reconnectTimer)
      BY DEF RegistryInv, Alone
    <3>. QED BY <1>0, <3>1, <3>2
  <2>2. CASE used # {}
    <3>1. PICK s \in Sockets : machine[s] # "none"
      BY <2>2
    <3>2. used = {s} /\ ~reading /\ ~reconnectTimer
      BY <3>1 DEF RegistryInv, Alone
    <3>3. n = 1
      BY <3>2, FS_Singleton DEF n
    <3>. QED BY <3>2, <3>3
  <2>. QED BY <2>1, <2>2
<1>. QED BY <1>1 DEF n

LEMMA OneSocketFollows ==
  ASSUME RegistryInv
  PROVE  OneSocket
<1>1. Cardinality({s \in Sockets : machine[s] # "none"})
        + (IF reading THEN 1 ELSE 0) + (IF reconnectTimer THEN 1 ELSE 0) <= 1
  BY AttemptsCounted
<1>2. /\ heartbeat # NoSocket =>
            heartbeat = cloudWebSocket /\ machine[heartbeat] \in {"open", "dead"}
      /\ awaitsPong # NoSocket => awaitsPong = heartbeat
  BY DEF RegistryInv, InUse
<1>. QED BY <1>1, <1>2, Zenon DEF OneSocket

LEMMA RegistryFollows ==
  ASSUME RegistryInv
  PROVE  RegistryTypeOK /\ OneTunnel /\ OneSocket
<1>1. RegistryTypeOK
  BY DEF RegistryInv, RegistryTyped, RegistryTypeOK, UpMessages, DownMessages
<1>. QED BY <1>1, OneSocketFollows DEF RegistryInv

\* The tunnel: however late close events come, and whichever side loses the other without being
\* told, the machine has at most one websocket, attempt or timer, and the cloud routes to no
\* tunnel but the one that it registered last (TunnelClient and TunnelRegistry).
THEOREM RegistryCorrect == RegistrySpec => [](RegistryTypeOK /\ OneTunnel /\ OneSocket)
<1>1. RegistryInit => RegistryInv
  BY RegistryInitially
<1>2. RegistryInv /\ [RegistryNext]_registryVars => RegistryInv'
  BY RegistryStep
<1>3. RegistryInv => RegistryTypeOK /\ OneTunnel /\ OneSocket
  BY RegistryFollows
<1>. QED BY <1>1, <1>2, <1>3, PTL DEF RegistrySpec

-----------------------------------------------------------------------------
(***************************************************************************)
(* The file browser's websocket.                                           *)
(***************************************************************************)
RequestSet == [kind : {"free", "resubscribe", "navigate", "orphan"},
               stage : {"none", "waiting", "asked"}, link : Links \cup {NoLink}, path : Paths]

\* The types, each variable's by itself.
LinkTyped ==
  /\ app \in {"web", "mobile"} /\ wanted \in BOOLEAN /\ timer \in BOOLEAN /\ beating \in BOOLEAN
  /\ link \in Links \cup {NoLink} /\ pinged \in Links \cup {NoLink}
  /\ status \in {"idle", "connecting", "open", "closed"} /\ subscribedPath \in Paths
  /\ request \in [Requests -> RequestSet]
  /\ readyState \in [Links -> {"none", "connecting", "open", "closing"}]
  /\ fate \in [Links -> {"fine", "cut", "ended"}]
  /\ greeting \subseteq Links /\ there \subseteq Paths /\ Root \in there
  /\ events \in 0 .. MaxEvents

\* A manager that was never connected has no websocket, so its first finds none in its way.
Held ==
  /\ OneLink
  /\ status = "idle" => ~wanted /\ \A l \in Links : readyState[l] = "none"

LinkInv == LinkTyped /\ Held

LEMMA LinkFacts ==
  /\ NoLink \notin Links
  /\ Root \in Paths
  /\ events \in 0 .. MaxEvents /\ Event => events' \in 0 .. MaxEvents
BY LinkAssumption DEF Links, NoLink, Event

LEMMA LinkInitially ==
  ASSUME LinkInit
  PROVE  LinkInv
<1>1. LinkTyped
  <2>1. 0 \in 0 .. MaxEvents
    BY LinkAssumption
  <2>. QED BY <2>1, LinkFacts DEF LinkInit, LinkTyped, NoRequest, RequestSet
<1>2. Held
  BY LinkFacts DEF LinkInit, Held, OneLink, Open, NoRequest
<1>. QED BY <1>1, <1>2 DEF LinkInv

\* What openSocket() keeps, of a connection that is wanted.
LEMMA OpenSocketKeeps ==
  ASSUME LinkInv, wanted, OpenSocket, events' \in 0 .. MaxEvents
  PROVE  LinkInv'
<1>1. CASE NewLink
  <2>1. PICK l \in Links :
          /\ readyState[l] = "none"
          /\ link' = l
          /\ readyState' = [Closing({link}) EXCEPT ![l] = "connecting"]
          /\ timer' = FALSE /\ status' = "connecting"
          /\ StopHeartbeat
          /\ UNCHANGED <<wanted, request>>
    BY <1>1 DEF NewLink
  <2>2. /\ readyState'[l] = "connecting"
        /\ \A k \in Links \ {l} : readyState'[k] \notin {"connecting", "open"}
    BY <2>1 DEF Closing, LinkInv, LinkTyped, Held, OneLink
  <2>3. LinkTyped'
    BY <2>1, LinkFacts DEF OpenSocket, LinkInv, LinkTyped, Closing, StopHeartbeat
  <2>4. Held'
    BY <2>1, <2>2, LinkFacts DEF Held, OneLink, Open, StopHeartbeat
  <2>. QED BY <2>3, <2>4 DEF LinkInv
<1>2. CASE NoNewLink
  <2>1. NoRequest \in RequestSet /\ NoRequest.stage = "none"
    BY LinkFacts DEF NoRequest, RequestSet
  <2>2. /\ request' \in [Requests -> RequestSet]
        /\ ~wanted' => \A r \in Requests : request'[r].stage # "waiting"
    <3>1. CASE wanted' /\ UNCHANGED request
      BY <3>1 DEF LinkInv, LinkTyped
    <3>2. CASE request' = [r \in Requests |->
                  IF request[r].stage = "waiting" THEN NoRequest ELSE request[r]]
      BY <2>1, <3>2 DEF LinkInv, LinkTyped
    <3>. QED BY <1>2, <3>1, <3>2 DEF NoNewLink
  <2>3. LinkTyped'
    BY <1>2, <2>2, LinkFacts
       DEF OpenSocket, NoNewLink, LinkInv, LinkTyped, Closing, StopHeartbeat, ScheduleReconnect
  <2>4. /\ \A k \in Links : readyState'[k] =
              IF k = link /\ readyState[k] # "none" THEN "closing" ELSE readyState[k]
        /\ link' = NoLink /\ beating' = FALSE /\ pinged' = NoLink
        /\ status' # "open" /\ status' # "idle"
        /\ wanted' => timer'
        /\ timer' => wanted'
    BY <1>2 DEF NoNewLink, Closing, StopHeartbeat, ScheduleReconnect
  <2>5. Held'
    BY <2>2, <2>4, LinkFacts DEF LinkInv, LinkTyped, Held, OneLink, Open
  <2>. QED BY <2>3, <2>5 DEF LinkInv
<1>. QED BY <1>1, <1>2 DEF OpenSocket

\* A request more that is asked; none that waits.
LEMMA AskKeeps ==
  ASSUME LinkTyped, NEW kind \in {"resubscribe", "navigate"}, NEW path \in Paths, Ask(kind, path)
  PROVE  /\ request' \in [Requests -> RequestSet]
         /\ \A r \in Requests : request'[r].stage = "waiting" => request[r].stage = "waiting"
<1>1. PICK r \in Requests : request' = [request EXCEPT ![r] =
                     [kind |-> kind, stage |-> "asked", link |-> link, path |-> path]]
  BY DEF Ask
<1>2. [kind |-> kind, stage |-> "asked", link |-> link, path |-> path] \in RequestSet
  BY DEF LinkTyped, RequestSet
<1>. QED BY <1>1, <1>2 DEF LinkTyped

LEMMA ReconnectTimerFiresStep ==
  ASSUME LinkInv, ReconnectTimerFires
  PROVE  LinkInv'
<1>1. OpenSocket /\ events' \in 0 .. MaxEvents
  BY LinkFacts DEF ReconnectTimerFires, LinkInv, LinkTyped
<1>2. wanted
  BY DEF ReconnectTimerFires, LinkInv, Held, OneLink, LinkTyped
<1>. QED BY <1>1, <1>2, OpenSocketKeeps

LEMMA SetUrlsStep ==
  ASSUME LinkInv, SetUrls
  PROVE  LinkInv'
BY OpenSocketKeeps, LinkFacts DEF SetUrls, LinkInv, LinkTyped

LEMMA VisibleStep ==
  ASSUME LinkInv, Visible
  PROVE  LinkInv'
<1>1. wanted /\ events' \in 0 .. MaxEvents
  BY LinkFacts DEF Visible, LinkInv, LinkTyped
<1>2. CASE link = NoLink /\ OpenSocket
  BY <1>1, <1>2, OpenSocketKeeps
<1>3. CASE ~ (link = NoLink /\ OpenSocket)
  <2>1. /\ link # NoLink /\ timer' = FALSE
        /\ UNCHANGED <<app, wanted, link, status, beating, pinged, subscribedPath, wireVars, there>>
        /\ Resubscribe \/ UNCHANGED request
    BY <1>3 DEF Visible
  <2>2. /\ request' \in [Requests -> RequestSet]
        /\ \A r \in Requests : request'[r].stage = "waiting" => request[r].stage = "waiting"
    BY <2>1, AskKeeps DEF Resubscribe, LinkInv, LinkTyped
  <2>3. LinkTyped'
    BY <1>1, <2>1, <2>2 DEF LinkInv, LinkTyped, wireVars
  <2>4. Held'
    BY <1>1, <2>1, <2>2 DEF LinkInv, LinkTyped, Held, OneLink, Open, wireVars
  <2>. QED BY <2>3, <2>4 DEF LinkInv
<1>. QED BY <1>2, <1>3

LEMMA NavigateStep ==
  ASSUME LinkInv, NEW path \in Paths, Navigate(path)
  PROVE  LinkInv'
<1>1. request' \in [Requests -> RequestSet]
  <2>1. CASE Ask("navigate", path)
    BY <2>1, AskKeeps DEF LinkInv
  <2>2. CASE \E r \in Requests :
               request' = [request EXCEPT ![r] = [kind |-> "navigate", stage |-> "waiting",
                                                  link |-> NoLink, path |-> path]]
    <3>1. [kind |-> "navigate", stage |-> "waiting", link |-> NoLink, path |-> path]
            \in RequestSet
      BY DEF RequestSet
    <3>. QED BY <2>2, <3>1 DEF LinkInv, LinkTyped
  <2>. QED BY <2>1, <2>2 DEF Navigate, LinkInv, LinkTyped
<1>2. /\ wanted /\ UNCHANGED <<app, wanted, link, beating, pinged, wireVars, there>>
      /\ events' \in 0 .. MaxEvents /\ subscribedPath' = path
      /\ \/ UNCHANGED <<timer, status>>
         \/ ~Open(link) /\ ScheduleReconnect
  BY LinkFacts DEF Navigate, LinkInv, LinkTyped
<1>3. LinkTyped'
  BY <1>1, <1>2 DEF LinkInv, LinkTyped, ScheduleReconnect, wireVars
<1>4. Held'
  <2>1. status' # "idle" /\ (status' = "open" => status = "open") /\ (timer => timer')
    <3>1. status # "idle" /\ wanted = TRUE
      BY <1>2 DEF LinkInv, LinkTyped, Held
    <3>2. CASE UNCHANGED <<timer, status>>
      BY <3>1, <3>2
    <3>3. CASE ScheduleReconnect
      BY <3>1, <3>3 DEF ScheduleReconnect
    <3>. QED BY <1>2, <3>2, <3>3
  <2>. QED BY <1>2, <2>1 DEF LinkInv, LinkTyped, Held, OneLink, Open, wireVars
<1>. QED BY <1>3, <1>4 DEF LinkInv

LEMMA ConnectManagerStep ==
  ASSUME LinkInv, ConnectManager
  PROVE  LinkInv'
<1>1. LinkTyped'
  BY LinkFacts
     DEF LinkInv, LinkTyped, RequestSet, ConnectManager, managerVars, wireVars
<1>2. Held'
  BY LinkFacts
     DEF LinkInv, LinkTyped, RequestSet, Held, OneLink, Open, ConnectManager, managerVars,
         wireVars
<1>. QED BY <1>1, <1>2 DEF LinkInv

LEMMA DisconnectStep ==
  ASSUME LinkInv, Disconnect
  PROVE  LinkInv'
<1>1. LinkTyped'
  BY LinkFacts
     DEF LinkInv, LinkTyped, RequestSet, Disconnect, Closing, StopHeartbeat, NoRequest,
         managerVars, wireVars
<1>2. Held'
  BY LinkFacts
     DEF LinkInv, LinkTyped, RequestSet, Held, OneLink, Open, Disconnect, Closing,
         StopHeartbeat, NoRequest, managerVars, wireVars
<1>. QED BY <1>1, <1>2 DEF LinkInv

LEMMA SendPingStep ==
  ASSUME LinkInv, SendPing
  PROVE  LinkInv'
<1>1. LinkTyped'
  BY LinkFacts
     DEF LinkInv, LinkTyped, RequestSet, SendPing, managerVars, wireVars
<1>2. Held'
  BY LinkFacts
     DEF LinkInv, LinkTyped, RequestSet, Held, OneLink, Open, SendPing, managerVars, wireVars
<1>. QED BY <1>1, <1>2 DEF LinkInv

LEMMA PongStep ==
  ASSUME LinkInv, Pong
  PROVE  LinkInv'
<1>1. LinkTyped'
  BY LinkFacts
     DEF LinkInv, LinkTyped, RequestSet, Pong, managerVars, wireVars
<1>2. Held'
  BY LinkFacts
     DEF LinkInv, LinkTyped, RequestSet, Held, OneLink, Open, Pong, managerVars, wireVars
<1>. QED BY <1>1, <1>2 DEF LinkInv

LEMMA PingTimesOutStep ==
  ASSUME LinkInv, PingTimesOut
  PROVE  LinkInv'
<1>1. LinkTyped'
  BY LinkFacts
     DEF LinkInv, LinkTyped, RequestSet, PingTimesOut, ForceReconnect, ScheduleReconnect,
         StopHeartbeat, Closing, managerVars, wireVars
<1>2. Held'
  BY LinkFacts
     DEF LinkInv, LinkTyped, RequestSet, Held, OneLink, Open, PingTimesOut, ForceReconnect,
         ScheduleReconnect, StopHeartbeat, Closing, managerVars, wireVars
<1>. QED BY <1>1, <1>2 DEF LinkInv

LEMMA DirectoryRemovedStep ==
  ASSUME LinkInv, NEW path \in Paths, DirectoryRemoved(path)
  PROVE  LinkInv'
<1>1. LinkTyped'
  BY LinkFacts
     DEF LinkInv, LinkTyped, RequestSet, DirectoryRemoved, managerVars, wireVars
<1>2. Held'
  BY LinkFacts
     DEF LinkInv, LinkTyped, RequestSet, Held, OneLink, Open, DirectoryRemoved, managerVars,
         wireVars
<1>. QED BY <1>1, <1>2 DEF LinkInv

LEMMA LinkOpensStep ==
  ASSUME LinkInv, NEW l \in Links, LinkOpens(l)
  PROVE  LinkInv'
<1>1. LinkTyped'
  BY ZenonT(60), LinkFacts
     DEF LinkInv, LinkTyped, RequestSet, LinkOpens, managerVars, wireVars
<1>2. Held'
  BY LinkFacts
     DEF LinkInv, LinkTyped, RequestSet, Held, OneLink, Open, LinkOpens, managerVars, wireVars
<1>. QED BY <1>1, <1>2 DEF LinkInv

LEMMA HelloStep ==
  ASSUME LinkInv, NEW l \in Links, Hello(l)
  PROVE  LinkInv'
<1>1. LinkTyped'
  BY LinkFacts
     DEF LinkInv, LinkTyped, RequestSet, Hello, Resubscribe, Ask, managerVars, wireVars
<1>2. Held'
  BY LinkFacts
     DEF LinkInv, LinkTyped, RequestSet, Held, OneLink, Open, Hello, Resubscribe, Ask,
         managerVars, wireVars
<1>. QED BY <1>1, <1>2 DEF LinkInv

LEMMA LinkClosesStep ==
  ASSUME LinkInv, NEW l \in Links, LinkCloses(l)
  PROVE  LinkInv'
<1>1. LinkTyped'
  BY ZenonT(60), LinkFacts
     DEF LinkInv, LinkTyped, RequestSet, LinkCloses, AfterClose, Rejected, StopHeartbeat,
         Closing, NoRequest, managerVars, wireVars
<1>2. Held'
  BY LinkFacts
     DEF LinkInv, LinkTyped, RequestSet, Held, OneLink, Open, LinkCloses, AfterClose,
         Rejected, StopHeartbeat, Closing, NoRequest, managerVars, wireVars
<1>. QED BY <1>1, <1>2 DEF LinkInv

LEMMA LinkFailsStep ==
  ASSUME LinkInv, NEW l \in Links, LinkFails(l)
  PROVE  LinkInv'
<1>1. LinkTyped'
  BY LinkFacts
     DEF LinkInv, LinkTyped, RequestSet, LinkFails, managerVars, wireVars
<1>2. Held'
  BY LinkFacts
     DEF LinkInv, LinkTyped, RequestSet, Held, OneLink, Open, LinkFails, managerVars, wireVars
<1>. QED BY <1>1, <1>2 DEF LinkInv

LEMMA WaitTimesOutStep ==
  ASSUME LinkInv, NEW r \in Requests, WaitTimesOut(r)
  PROVE  LinkInv'
<1>1. LinkTyped'
  BY LinkFacts
     DEF LinkInv, LinkTyped, RequestSet, WaitTimesOut, NoRequest, managerVars, wireVars
<1>2. Held'
  BY LinkFacts
     DEF LinkInv, LinkTyped, RequestSet, Held, OneLink, Open, WaitTimesOut, NoRequest,
         managerVars, wireVars
<1>. QED BY <1>1, <1>2 DEF LinkInv

LEMMA SnapshotArrivesStep ==
  ASSUME LinkInv, NEW r \in Requests, SnapshotArrives(r)
  PROVE  LinkInv'
<1>1. LinkTyped'
  BY LinkFacts
     DEF LinkInv, LinkTyped, RequestSet, SnapshotArrives, NoRequest, managerVars, wireVars
<1>2. Held'
  BY LinkFacts
     DEF LinkInv, LinkTyped, RequestSet, Held, OneLink, Open, SnapshotArrives, NoRequest,
         managerVars, wireVars
<1>. QED BY <1>1, <1>2 DEF LinkInv

LEMMA ErrorArrivesStep ==
  ASSUME LinkInv, NEW r \in Requests, ErrorArrives(r)
  PROVE  LinkInv'
<1>1. LinkTyped'
  BY LinkFacts
     DEF LinkInv, LinkTyped, RequestSet, ErrorArrives, ForceReconnect, ScheduleReconnect,
         StopHeartbeat, Closing, NoRequest, managerVars, wireVars
<1>2. Held'
  BY LinkFacts
     DEF LinkInv, LinkTyped, RequestSet, Held, OneLink, Open, ErrorArrives, ForceReconnect,
         ScheduleReconnect, StopHeartbeat, Closing, NoRequest, managerVars, wireVars
<1>. QED BY <1>1, <1>2 DEF LinkInv


LEMMA LinkNextStep ==
  ASSUME LinkInv, [LinkNext]_linkVars
  PROVE  LinkInv'
<1>1. CASE UNCHANGED linkVars
  BY <1>1 DEF linkVars, managerVars, wireVars, LinkInv, LinkTyped, RequestSet, Held, OneLink,
     Open
<1>. QED BY <1>1, ConnectManagerStep, DisconnectStep, ReconnectTimerFiresStep, SetUrlsStep,
            VisibleStep, SendPingStep, PongStep, PingTimesOutStep, NavigateStep,
            DirectoryRemovedStep, LinkOpensStep, HelloStep, LinkClosesStep, LinkFailsStep,
            WaitTimesOutStep, SnapshotArrivesStep, ErrorArrivesStep DEF LinkNext

LEMMA LinkFollows ==
  ASSUME LinkInv
  PROVE  LinkTypeOK /\ OneLink
BY DEF LinkInv, LinkTyped, LinkTypeOK, RequestSet, Held

\* The file browser: its manager has one websocket that is not given up, or a timer to make
\* the next, and what it awaits was asked on that one (FilesystemConnectionManager).
THEOREM LinkCorrect == LinkSpec => [](LinkTypeOK /\ OneLink)
<1>1. LinkInit => LinkInv
  BY LinkInitially
<1>2. LinkInv /\ [LinkNext]_linkVars => LinkInv'
  BY LinkNextStep
<1>3. LinkInv => LinkTypeOK /\ OneLink
  BY LinkFollows
<1>. QED BY <1>1, <1>2, <1>3, PTL DEF LinkSpec

-----------------------------------------------------------------------------
(***************************************************************************)
(* The browser that a page publishes.                                      *)
(***************************************************************************)
UpSeqs == Seq(Messages)

PageSet == [on : BOOLEAN, socket : Lines \cup {NoLine}, timer : BOOLEAN, tab : Tabs,
            streaming : BOOLEAN, shown : BOOLEAN, ousted : BOOLEAN]
LineSet == [owner : Pages \cup {0}, pageEnd : {"none", "connecting", "open", "closing"},
            relayEnd : {"none", "asked", "open", "closing"}, up : UpSeqs,
            cut : BOOLEAN, stale : BOOLEAN, replaced : BOOLEAN]
SessionSet == [publisher : Lines \cup {NoLine}, tab : Tabs \cup {Nothing},
               stream : {"yes", "no", Nothing}, frame : Tabs \cup {Nothing},
               image : Tabs \cup {Nothing}]
ViewerSet == [on : BOOLEAN, connected : BOOLEAN, tab : Tabs \cup {Nothing},
              stream : {"yes", "no", Nothing}, image : Tabs \cup {Nothing},
              frame : Tabs \cup {Nothing}, pending : Tabs \cup {Nothing}]

\* The types, each variable's by itself.
ViewTyped ==
  /\ page \in [Pages -> PageSet] /\ line \in [Lines -> LineSet]
  /\ session \in SessionSet /\ viewer \in ViewerSet
  /\ spoilt \subseteq {"missed", "mixed"} /\ mishaps \in 0 .. MaxMishaps

\* A page's websocket is a line of that page that has not ended at its end, and a live line
\* of a page is its websocket.
PageHasLine(p) ==
  /\ page[p].timer => page[p].on /\ page[p].socket = NoLine
  /\ ~page[p].on => page[p].socket = NoLine
  /\ page[p].socket # NoLine => /\ line[page[p].socket].owner = p
                                /\ line[page[p].socket].pageEnd # "none"
  /\ page[p].shown => page[p].streaming

LineHasPage(l) ==
  /\ line[l].pageEnd # "none" => line[l].owner \in Pages
  /\ line[l].pageEnd \in {"connecting", "open"} => page[line[l].owner].socket = l
  /\ line[l].relayEnd = "open" => session.publisher = l /\ ~line[l].stale
  /\ line[l].relayEnd = "asked" => ~line[l].stale /\ line[l].pageEnd # "open"

\* A message of a kind is on its way.
Has(ms, kind) == \E i \in 1 .. Len(ms) : ms[i][1] = kind

Status(g) == IF g.streaming THEN "yes" ELSE "no"

\* What is on its way of a page: all of it is about the page as it is, a picture is the
\* last of it and has the metadata before it.
AboutPage(ms, g) ==
  /\ \A i \in 1 .. Len(ms) :
       /\ ms[i][1] = "stream.status" => ms[i][2] = Status(g)
       /\ ms[i][1] # "stream.status" => ms[i][2] = g.tab
       /\ ms[i][1] \in {"frame", "image"} => g.streaming
       /\ ms[i][1] = "image" => i = Len(ms)
       /\ ms[i][1] = "frame" => i + 1 = Len(ms) /\ ms[Len(ms)][1] = "image"

\* What the relay has cached of the page, or is about to.
CachedOfPage(s, ms, g) ==
  /\ Has(ms, "stream.status") \/ s.stream = Status(g)
  /\ Has(ms, "activeTab") \/ s.tab = g.tab
  /\ g.streaming \/ Has(ms, "stream.status") \/ s.image = Nothing
  /\ g.shown /\ ~Has(ms, "image") => s.image = g.tab /\ s.frame \in {Nothing, g.tab}
  /\ Has(ms, "image") /\ ~Has(ms, "frame") => s.frame = g.tab
  /\ s.stream = "no" => s.image = Nothing

\* What the viewer shows of the page, or is about to.
ShownOfPage(v, ms, g) ==
  /\ Has(ms, "stream.status") \/ v.stream = Status(g)
  /\ Has(ms, "activeTab") \/ v.tab = g.tab
  /\ g.streaming \/ Has(ms, "stream.status") \/ v.image = Nothing
  /\ g.shown /\ ~Has(ms, "image") => v.image = g.tab /\ v.frame \in {Nothing, g.tab}
  /\ Has(ms, "image") /\ ~Has(ms, "frame") => v.pending \in {Nothing, g.tab}

\* Nothing has come over a line that is not open at the page's end yet.
LineIsNew(l) ==
  line[l].pageEnd = "connecting" =>
    /\ line[l].up = <<>>
    /\ line[l].relayEnd = "open" /\ "mixed" \notin spoilt =>
         session = [NoSession EXCEPT !.publisher = l]

\* The line carries what its page sends to the relay that takes it.
Carries(l) == line[l].relayEnd = "open" /\ line[l].pageEnd = "open" /\ ~line[l].cut

LineIsTrue(l) ==
  LET ms == line[l].up  g == page[line[l].owner]
  IN Carries(l) =>
       /\ AboutPage(ms, g)
       /\ "mixed" \notin spoilt => CachedOfPage(session, ms, g)
       /\ viewer.on /\ spoilt = {} => ShownOfPage(viewer, ms, g)

RelayIsTrue ==
  /\ session.publisher = NoLine /\ "mixed" \notin spoilt => session = NoSession
  /\ ~viewer.on => viewer.stream = Nothing /\ viewer.pending = Nothing
  /\ viewer.on /\ spoilt = {} =>
       /\ viewer.connected <=> session.publisher # NoLine
       /\ session.publisher = NoLine => viewer.stream = Nothing /\ viewer.image = Nothing

ViewInv ==
  /\ ViewTyped
  /\ \A p \in Pages : PageHasLine(p)
  /\ \A l \in Lines : LineHasPage(l) /\ LineIsNew(l) /\ LineIsTrue(l)
  /\ RelayIsTrue

LEMMA ViewFacts ==
  /\ NoLine \notin Lines
  /\ 0 \notin Pages
  /\ Nothing \notin Tabs /\ Nothing # "yes" /\ Nothing # "no"
  /\ mishaps \in 0 .. MaxMishaps /\ Mishap => mishaps' \in 0 .. MaxMishaps
BY ViewAssumption DEF Lines, NoLine, Pages, Mishap

\* The messages of a publisher, by their kinds.
LEMMA MessageKinds ==
  ASSUME NEW m \in Messages
  PROVE  \/ m = <<"stream.status", "yes">> \/ m = <<"stream.status", "no">>
         \/ \E t \in Tabs : m \in {<<"activeTab", t>>, <<"frame", t>>, <<"image", t>>}
BY DEF Messages

\* What each message does to the viewer.
LEMMA ToldOfPublisher ==
  ASSUME NEW v \in ViewerSet, NEW b \in BOOLEAN, NEW w,
         w = Told(v, <<"publisher.status", IF b THEN "yes" ELSE "no">>)
  PROVE  /\ w \in ViewerSet /\ w.on = v.on /\ w.tab = v.tab /\ w.pending = v.pending
         /\ w.connected = b
         /\ b => w.stream = v.stream /\ w.image = v.image /\ w.frame = v.frame
         /\ ~b => w.stream = Nothing /\ w.image = Nothing /\ w.frame = Nothing
<1>1. CASE b
  <2>1. w = [v EXCEPT !.connected = TRUE]
    BY <1>1 DEF Told
  <2>. QED BY <1>1, <2>1 DEF ViewerSet
<1>2. CASE ~b
  <2>1. w = [v EXCEPT !.connected = FALSE, !.stream = Nothing, !.image = Nothing,
                      !.frame = Nothing]
    BY <1>2 DEF Told
  <2>. QED BY <1>2, <2>1 DEF ViewerSet
<1>. QED BY <1>1, <1>2

LEMMA ToldOfStream ==
  ASSUME NEW v \in ViewerSet, NEW s \in {"yes", "no"}, NEW w,
         w = Told(v, <<"stream.status", s>>)
  PROVE  /\ w \in ViewerSet /\ w.on = v.on /\ w.connected = v.connected
         /\ w.tab = v.tab /\ w.pending = v.pending
         /\ w.stream = s
         /\ s = "yes" => w.image = v.image /\ w.frame = v.frame
         /\ s = "no" => w.image = Nothing /\ w.frame = Nothing
<1>1. CASE s = "yes"
  <2>1. w = [v EXCEPT !.stream = "yes"]
    BY <1>1 DEF Told
  <2>. QED BY <1>1, <2>1 DEF ViewerSet
<1>2. CASE s = "no"
  <2>1. w = [v EXCEPT !.stream = "no", !.image = Nothing, !.frame = Nothing]
    BY <1>2 DEF Told
  <2>. QED BY <1>2, <2>1 DEF ViewerSet
<1>. QED BY <1>1, <1>2

LEMMA ToldOfTab ==
  ASSUME NEW v \in ViewerSet, NEW t \in Tabs, NEW w, w = Told(v, <<"activeTab", t>>)
  PROVE  /\ w \in ViewerSet /\ w.on = v.on /\ w.connected = v.connected
         /\ w.stream = v.stream /\ w.pending = v.pending
         /\ w.tab = t
         /\ v.frame \in {Nothing, t} => w.image = v.image /\ w.frame = v.frame
         /\ v.frame \notin {Nothing, t} => w.image = Nothing /\ w.frame = Nothing
<1>1. w = IF v.frame \in {Nothing, t} THEN [v EXCEPT !.tab = t]
          ELSE [v EXCEPT !.tab = t, !.image = Nothing, !.frame = Nothing]
  BY DEF Told
<1>2. CASE v.frame \in {Nothing, t}
  BY <1>1, <1>2 DEF ViewerSet
<1>3. CASE v.frame \notin {Nothing, t}
  BY <1>1, <1>3 DEF ViewerSet
<1>. QED BY <1>2, <1>3

LEMMA ToldOfFrame ==
  ASSUME NEW v \in ViewerSet, NEW t \in Tabs, NEW w, w = Told(v, <<"frame", t>>)
  PROVE  /\ w \in ViewerSet /\ w.on = v.on /\ w.connected = v.connected
         /\ w.tab = v.tab /\ w.stream = v.stream /\ w.image = v.image /\ w.frame = v.frame
         /\ w.pending = t
<1>1. w = [v EXCEPT !.pending = t]
  BY DEF Told
<1>. QED BY <1>1 DEF ViewerSet

LEMMA ToldOfImage ==
  ASSUME NEW v \in ViewerSet, NEW t \in Tabs, NEW w, w = Told(v, <<"image", t>>)
  PROVE  /\ w \in ViewerSet /\ w.on = v.on /\ w.connected = v.connected
         /\ w.tab = v.tab /\ w.stream = v.stream /\ w.pending = Nothing
         /\ v.stream # "no" => w.image = t /\ w.frame = v.pending
         /\ v.stream = "no" => w.image = v.image /\ w.frame = v.frame
<1>1. w = IF v.stream = "no" THEN [v EXCEPT !.pending = Nothing]
          ELSE [v EXCEPT !.image = t, !.frame = v.pending, !.pending = Nothing]
  BY DEF Told
<1>2. CASE v.stream = "no"
  BY <1>1, <1>2 DEF ViewerSet
<1>3. CASE v.stream # "no"
  BY <1>1, <1>3 DEF ViewerSet
<1>. QED BY <1>2, <1>3

\* What the session keeps of each.
LEMMA KeptOf ==
  ASSUME session \in SessionSet, NEW t \in Tabs
  PROVE  /\ Kept(<<"activeTab", t>>) = [session EXCEPT !.tab = t]
         /\ Kept(<<"stream.status", "yes">>) = [session EXCEPT !.stream = "yes"]
         /\ Kept(<<"stream.status", "no">>) =
              [session EXCEPT !.stream = "no", !.frame = Nothing, !.image = Nothing]
         /\ Kept(<<"frame", t>>) = [session EXCEPT !.frame = t]
         /\ Kept(<<"image", t>>) = [session EXCEPT !.image = t]
<1>1. Kept(<<"activeTab", t>>) = [session EXCEPT !.tab = t]
  BY DEF Kept
<1>2. Kept(<<"stream.status", "yes">>) = [session EXCEPT !.stream = "yes"]
  BY DEF Kept
<1>3. Kept(<<"stream.status", "no">>) =
        [session EXCEPT !.stream = "no", !.frame = Nothing, !.image = Nothing]
  BY DEF Kept
<1>4. Kept(<<"frame", t>>) = [session EXCEPT !.frame = t]
  BY DEF Kept
<1>5. Kept(<<"image", t>>) = [session EXCEPT !.image = t]
  BY DEF Kept
<1>. QED BY <1>1, <1>2, <1>3, <1>4, <1>5

LEMMA KeptTypes ==
  ASSUME NEW m \in Messages, session \in SessionSet
  PROVE  Kept(m) \in SessionSet /\ Kept(m).publisher = session.publisher
<1>1. CASE \E s \in {"yes", "no"} : m = <<"stream.status", s>>
  <2>1. PICK t \in Tabs : TRUE
    BY ViewAssumption
  <2>2. \/ Kept(m) = [session EXCEPT !.stream = "yes"]
        \/ Kept(m) = [session EXCEPT !.stream = "no", !.frame = Nothing, !.image = Nothing]
    BY <1>1, KeptOf
  <2>. QED BY <2>2 DEF SessionSet
<1>2. CASE \E t \in Tabs : m \in {<<"activeTab", t>>, <<"frame", t>>, <<"image", t>>}
  <2>1. PICK t \in Tabs : m \in {<<"activeTab", t>>, <<"frame", t>>, <<"image", t>>}
    BY <1>2
  <2>2. \/ Kept(m) = [session EXCEPT !.tab = t]
        \/ Kept(m) = [session EXCEPT !.frame = t]
        \/ Kept(m) = [session EXCEPT !.image = t]
    BY <2>1, KeptOf
  <2>. QED BY <2>2 DEF SessionSet
<1>. QED BY <1>1, <1>2, MessageKinds

LEMMA ToldTypes ==
  ASSUME NEW m \in Messages, NEW v \in ViewerSet
  PROVE  /\ Told(v, m) \in ViewerSet /\ Told(v, m).on = v.on
         /\ Told(v, m).connected = v.connected
<1>1. CASE \E s \in {"yes", "no"} : m = <<"stream.status", s>>
  BY <1>1, ToldOfStream
<1>2. CASE \E t \in Tabs : m \in {<<"activeTab", t>>, <<"frame", t>>, <<"image", t>>}
  <2>1. PICK t \in Tabs : m \in {<<"activeTab", t>>, <<"frame", t>>, <<"image", t>>}
    BY <1>2
  <2>2. CASE m = <<"activeTab", t>>
    BY <2>2, ToldOfTab
  <2>3. CASE m = <<"frame", t>>
    BY <2>3, ToldOfFrame
  <2>4. CASE m = <<"image", t>>
    BY <2>4, ToldOfImage
  <2>. QED BY <2>1, <2>2, <2>3, <2>4
<1>. QED BY <1>1, <1>2, MessageKinds

-----------------------------------------------------------------------------
\* What is sent: the tab and the status of the stream, and then perhaps a picture.
LEMMA MessageOfTab ==
  ASSUME NEW t \in Tabs
  PROVE  /\ <<"activeTab", t>> \in Messages
         /\ <<"frame", t>> \in Messages /\ <<"image", t>> \in Messages
<1>. DEFINE ofTab == {<<kind, u>> : kind \in {"activeTab", "frame", "image"}, u \in Tabs}
<1>1. \A kind \in {"activeTab", "frame", "image"} : <<kind, t>> \in ofTab
  OBVIOUS
<1>. HIDE DEF ofTab
<1>2. ofTab \subseteq Messages
  BY DEF Messages, ofTab
<1>. QED BY <1>1, <1>2

LEMMA Packet ==
  ASSUME NEW g \in PageSet, NEW pre \in UpSeqs, NEW pics \in {<<>>, FrameMessages(g.tab)},
         \A i \in 1 .. Len(pre) : pre[i] \in {<<"stream.status", Status(g)>>, <<"activeTab", g.tab>>},
         pics # <<>> => g.streaming
  PROVE  /\ pre \o pics \in UpSeqs
         /\ AboutPage(pre \o pics, g)
         /\ Has(pre \o pics, "image") <=> pics # <<>>
         /\ Has(pre \o pics, "frame") <=> pics # <<>>
         /\ Has(pre, "stream.status") => Has(pre \o pics, "stream.status")
         /\ Has(pre, "activeTab") => Has(pre \o pics, "activeTab")
<1>0. g.tab \in Tabs
  BY DEF PageSet
<1>1. pics \in Seq(Messages)
  <2>1. <<"frame", g.tab>> \in Messages /\ <<"image", g.tab>> \in Messages
    BY <1>0, MessageOfTab
  <2>2. FrameMessages(g.tab) \in Seq(Messages)
    BY <2>1 DEF FrameMessages
  <2>3. <<>> \in Seq(Messages)
    BY EmptySeq
  <2>4. pics = <<>> \/ pics = FrameMessages(g.tab)
    OBVIOUS
  <2>. QED BY <2>2, <2>3, <2>4, Zenon
<1>2. pre \in Seq(Messages) /\ Len(pre) \in Nat
  BY LenProperties DEF UpSeqs
<1>3. \/ pics = <<>> /\ Len(pics) = 0
      \/ pics # <<>> /\ Len(pics) = 2 /\ pics[1] = <<"frame", g.tab>> /\ pics[2] = <<"image", g.tab>>
  BY DEF FrameMessages
<1>. DEFINE ms == pre \o pics
<1>4. /\ ms \in Seq(Messages) /\ Len(ms) = Len(pre) + Len(pics)
      /\ \A i \in 1 .. Len(ms) : ms[i] = IF i <= Len(pre) THEN pre[i] ELSE pics[i - Len(pre)]
  BY <1>1, <1>2, ConcatProperties
<1>. HIDE DEF ms
<1>5. \A i \in 1 .. Len(pre) : ms[i] = pre[i] /\ i \in 1 .. Len(ms)
  BY <1>2, <1>3, <1>4
<1>6. CASE pics = <<>>
  <2>1. Len(ms) = Len(pre)
    BY <1>2, <1>3, <1>4, <1>6
  <2>2. \A i \in 1 .. Len(ms) :
           ms[i] = <<"stream.status", Status(g)>> \/ ms[i] = <<"activeTab", g.tab>>
    BY <2>1, <1>5
  <2>3. AboutPage(ms, g) /\ ~Has(ms, "image") /\ ~Has(ms, "frame")
    BY <2>2 DEF AboutPage, Has
  <2>4. \A kind : Has(pre, kind) => Has(ms, kind)
    BY <1>5 DEF Has
  <2>. QED BY <1>4, <1>6, <2>3, <2>4 DEF UpSeqs, ms
<1>7. CASE pics # <<>>
  <2>1. Len(ms) = Len(pre) + 2
    BY <1>2, <1>3, <1>4, <1>7
  <2>2. /\ ms[Len(pre) + 1] = <<"frame", g.tab>> /\ Len(pre) + 1 \in 1 .. Len(ms)
        /\ ms[Len(pre) + 2] = <<"image", g.tab>> /\ Len(pre) + 2 \in 1 .. Len(ms)
    <3>1. pics[1] = <<"frame", g.tab>> /\ pics[2] = <<"image", g.tab>>
      BY <1>3, <1>7
    <3>2. Len(pre) + 1 \in 1 .. Len(ms) /\ Len(pre) + 2 \in 1 .. Len(ms)
      BY <1>2, <2>1
    <3>3. ms[Len(pre) + 1] = pics[(Len(pre) + 1) - Len(pre)]
      BY <1>2, <1>4, <3>2
    <3>4. ms[Len(pre) + 2] = pics[(Len(pre) + 2) - Len(pre)]
      BY <1>2, <1>4, <3>2
    <3>5. (Len(pre) + 1) - Len(pre) = 1 /\ (Len(pre) + 2) - Len(pre) = 2
      BY <1>2
    <3>. QED BY <3>1, <3>2, <3>3, <3>4, <3>5
  <2>3. \A i \in 1 .. Len(ms) :
           \/ ms[i] = <<"stream.status", Status(g)>> \/ ms[i] = <<"activeTab", g.tab>>
           \/ i + 1 = Len(ms) /\ ms[i] = <<"frame", g.tab>>
           \/ i = Len(ms) /\ ms[i] = <<"image", g.tab>>
    <3>1. SUFFICES ASSUME NEW i \in 1 .. Len(ms)
                   PROVE  i \in 1 .. Len(pre) \/ i = Len(pre) + 1 \/ i = Len(pre) + 2
      BY <1>5, <2>1, <2>2
    <3>. QED BY <1>2, <2>1
  <2>4. Len(ms) = Len(pre) + 2 /\ ms[Len(ms)] = <<"image", g.tab>>
    BY <2>1, <2>2
  <2>5. AboutPage(ms, g)
    BY <1>7, <2>3, <2>4 DEF AboutPage
  <2>6. Has(ms, "image") /\ Has(ms, "frame")
    BY <2>2 DEF Has
  <2>7. \A kind : Has(pre, kind) => Has(ms, kind)
    BY <1>5 DEF Has
  <2>. QED BY <1>4, <1>7, <2>5, <2>6, <2>7 DEF UpSeqs, ms
<1>. QED BY <1>6, <1>7

\* publishCurrentState()
LEMMA CurrentState ==
  ASSUME NEW p \in Pages, page[p] \in PageSet, NEW framed \in BOOLEAN, NEW ms,
         ms = PublishCurrentState(p, framed)
  PROVE  /\ ms \in UpSeqs /\ AboutPage(ms, page[p])
         /\ Has(ms, "stream.status") /\ Has(ms, "activeTab")
         /\ Has(ms, "image") <=> page[p].streaming /\ framed
         /\ Has(ms, "frame") <=> page[p].streaming /\ framed
<1>. DEFINE g == page[p]
            pre == << Streaming(g.streaming), <<"activeTab", g.tab>> >>
            pics == IF g.streaming /\ framed THEN FrameMessages(g.tab) ELSE <<>>
<1>1. ms = pre \o pics
  BY DEF PublishCurrentState
<1>2. Streaming(g.streaming) = <<"stream.status", Status(g)>>
  BY DEF Streaming, Status
<1>3. g.tab \in Tabs /\ g.streaming \in BOOLEAN /\ Status(g) \in {"yes", "no"}
  BY DEF PageSet, Status
<1>4. /\ pre \in UpSeqs /\ Len(pre) = 2
      /\ pre[1] = <<"stream.status", Status(g)>> /\ pre[2] = <<"activeTab", g.tab>>
  BY <1>2, <1>3 DEF UpSeqs, Messages
<1>5. /\ \A i \in 1 .. Len(pre) :
            pre[i] \in {<<"stream.status", Status(g)>>, <<"activeTab", g.tab>>}
      /\ Has(pre, "stream.status") /\ Has(pre, "activeTab")
  <2>. HIDE DEF pre
  <2>1. \A i \in 1 .. Len(pre) : i = 1 \/ i = 2
    BY <1>4
  <2>2. 1 \in 1 .. Len(pre) /\ 2 \in 1 .. Len(pre)
    BY <1>4
  <2>. QED BY <1>4, <2>1, <2>2 DEF Has
<1>6. /\ pics \in {<<>>, FrameMessages(g.tab)}
      /\ pics # <<>> <=> g.streaming /\ framed
  BY <1>3 DEF FrameMessages
<1>. HIDE DEF pre, pics
<1>7. /\ pre \o pics \in UpSeqs /\ AboutPage(pre \o pics, g)
      /\ Has(pre \o pics, "image") <=> pics # <<>>
      /\ Has(pre \o pics, "frame") <=> pics # <<>>
      /\ Has(pre \o pics, "stream.status") /\ Has(pre \o pics, "activeTab")
  BY <1>4, <1>5, <1>6, Packet
<1>. QED BY <1>1, <1>6, <1>7

\* What is left of it when a message has come.
LEMMA TailOf ==
  ASSUME NEW ms \in UpSeqs, ms # <<>>, NEW g \in PageSet, AboutPage(ms, g)
  PROVE  /\ AboutPage(Tail(ms), g)
         /\ Head(ms) \in Messages /\ Tail(ms) \in UpSeqs
         /\ \A kind : Has(Tail(ms), kind) => Has(ms, kind)
         /\ \A kind : Has(ms, kind) => Head(ms)[1] = kind \/ Has(Tail(ms), kind)
         /\ Has(ms, Head(ms)[1])
         /\ Head(ms)[1] = "stream.status" => Head(ms)[2] = Status(g)
         /\ Head(ms)[1] # "stream.status" => Head(ms)[2] = g.tab
         /\ Head(ms)[1] \in {"frame", "image"} => g.streaming
         /\ Head(ms)[1] = "image" => \A kind : ~Has(Tail(ms), kind)
         /\ Head(ms)[1] = "frame" =>
              /\ \A kind : Has(Tail(ms), kind) => kind = "image"
              /\ Has(Tail(ms), "image")
<1>1. ms \in Seq(Messages) /\ Len(ms) \in Nat
  BY LenProperties DEF UpSeqs
<1>2. Len(ms) >= 1 /\ Head(ms) = ms[1]
  BY <1>1, EmptySeq, HeadTailProperties
<1>3. /\ Tail(ms) \in Seq(Messages) /\ Len(Tail(ms)) = Len(ms) - 1
      /\ \A i \in 1 .. Len(Tail(ms)) : Tail(ms)[i] = ms[i + 1]
  BY <1>1, HeadTailProperties
<1>. DEFINE rest == Tail(ms)  n == Len(ms)
<1>4. \A i \in 1 .. Len(rest) : i + 1 \in 1 .. n /\ rest[i] = ms[i + 1]
  BY <1>1, <1>3
<1>5. Len(rest) = n - 1 /\ n \in Nat
  BY <1>1, <1>3
<1>. HIDE DEF rest, n
<1>6. \A i \in 1 .. n : i = 1 \/ (i - 1 \in 1 .. Len(rest) /\ ms[i] = rest[i - 1])
  <2>1. SUFFICES ASSUME NEW i \in 1 .. n, i # 1
                 PROVE  i - 1 \in 1 .. Len(rest) /\ ms[i] = rest[i - 1]
    OBVIOUS
  <2>2. i - 1 \in 1 .. Len(rest) /\ (i - 1) + 1 = i
    BY <1>5, <2>1
  <2>. QED BY <1>3, <2>2 DEF rest, n
<1>7. 1 \in 1 .. n /\ n \in 1 .. n
  BY <1>1, <1>2 DEF n
<1>8. AboutPage(rest, g)
  <2>1. SUFFICES ASSUME NEW i \in 1 .. Len(rest)
                 PROVE  /\ rest[i][1] = "stream.status" => rest[i][2] = Status(g)
                        /\ rest[i][1] # "stream.status" => rest[i][2] = g.tab
                        /\ rest[i][1] \in {"frame", "image"} => g.streaming
                        /\ rest[i][1] = "image" => i = Len(rest)
                        /\ rest[i][1] = "frame" => i + 1 = Len(rest) /\ rest[Len(rest)][1] = "image"
    BY DEF AboutPage
  <2>2. i + 1 \in 1 .. n /\ rest[i] = ms[i + 1]
    BY <1>4
  <2>3. /\ ms[i + 1][1] = "image" => i + 1 = n
        /\ ms[i + 1][1] = "frame" => i + 2 = n /\ ms[n][1] = "image"
    BY <2>2 DEF AboutPage, n
  <2>4. ASSUME rest[i][1] = "frame" PROVE rest[Len(rest)][1] = "image"
    <3>1. Len(rest) \in 1 .. Len(rest) /\ Len(rest) + 1 = n
      BY <1>5, <2>2, <2>3, <2>4
    <3>. QED BY <1>4, <2>2, <2>3, <2>4, <3>1
  <2>. QED BY <1>5, <2>2, <2>3, <2>4 DEF AboutPage, n
<1>9. /\ \A kind : Has(rest, kind) => Has(ms, kind)
      /\ \A kind : Has(ms, kind) => Head(ms)[1] = kind \/ Has(rest, kind)
      /\ Has(ms, Head(ms)[1])
  BY <1>2, <1>4, <1>6, <1>7 DEF Has, n
<1>10. Head(ms)[1] = "image" => \A kind : ~Has(rest, kind)
  <2>1. SUFFICES ASSUME Head(ms)[1] = "image" PROVE Len(rest) = 0
    BY DEF Has
  <2>2. n = 1
    BY <1>2, <1>7, <2>1 DEF AboutPage, n
  <2>. QED BY <1>5, <2>2
<1>11. Head(ms)[1] = "frame" => /\ \A kind : Has(rest, kind) => kind = "image"
                                /\ Has(rest, "image")
  <2>1. SUFFICES ASSUME Head(ms)[1] = "frame"
                 PROVE  /\ \A kind : Has(rest, kind) => kind = "image"
                        /\ Has(rest, "image")
    OBVIOUS
  <2>2. n = 2 /\ ms[n][1] = "image"
    <3>1. ms[1][1] = "frame" => 1 + 1 = n /\ ms[n][1] = "image"
      BY <1>7 DEF AboutPage, n
    <3>. QED BY <1>2, <2>1, <3>1
  <2>3. Len(rest) = 1 /\ 1 \in 1 .. Len(rest)
    BY <1>5, <2>2
  <2>4. \A i \in 1 .. Len(rest) : rest[i][1] = "image"
    BY <1>4, <2>2, <2>3
  <2>. QED BY <2>3, <2>4 DEF Has
<1>12. /\ Head(ms)[1] = "stream.status" => Head(ms)[2] = Status(g)
       /\ Head(ms)[1] # "stream.status" => Head(ms)[2] = g.tab
       /\ Head(ms)[1] \in {"frame", "image"} => g.streaming
  BY <1>2, <1>7 DEF AboutPage, n
<1>13. Head(ms) \in Messages
  BY <1>1, <1>2, <1>7 DEF n
<1>. QED BY <1>3, <1>8, <1>9, <1>10, <1>11, <1>12, <1>13 DEF UpSeqs, rest

-----------------------------------------------------------------------------
LEMMA ViewInitially ==
  ASSUME ViewInit
  PROVE  ViewInv
<1>1. (CHOOSE t \in Tabs : TRUE) \in Tabs
  BY ViewAssumption
<1>2. <<>> \in UpSeqs /\ 0 \in 0 .. MaxMishaps
  BY EmptySeq, ViewAssumption DEF UpSeqs
<1>3. ViewTyped
  BY <1>1, <1>2 DEF ViewInit, ViewTyped, PageSet, LineSet, SessionSet, ViewerSet, FreeLine,
     NoSession
<1>4. \A p \in Pages : PageHasLine(p)
  BY DEF ViewInit, PageHasLine
<1>5. \A l \in Lines : LineHasPage(l) /\ LineIsNew(l) /\ LineIsTrue(l)
  BY DEF ViewInit, LineHasPage, LineIsNew, LineIsTrue, Carries, FreeLine
<1>6. RelayIsTrue
  BY DEF ViewInit, RelayIsTrue, NoSession
<1>. QED BY <1>3, <1>4, <1>5, <1>6 DEF ViewInv

\* What of a line and its page the claims are about.
SameLine(l) ==
  /\ line'[l].pageEnd = "connecting" =>
       /\ line[l].pageEnd = "connecting" /\ line'[l].up = line[l].up
       /\ line'[l].relayEnd = "open" => line[l].relayEnd = "open"
  /\ Carries(l)' =>
       /\ Carries(l) /\ line'[l].up = line[l].up /\ line'[l].owner = line[l].owner
       /\ page'[line[l].owner].tab = page[line[l].owner].tab
       /\ page'[line[l].owner].streaming = page[line[l].owner].streaming
       /\ page'[line[l].owner].shown = page[line[l].owner].shown

\* While the relay and the viewer rest, the claims are about the lines that change.
LEMMA PageMoves ==
  ASSUME ViewInv, UNCHANGED <<session, viewer, spoilt>>,
         page' \in [Pages -> PageSet], line' \in [Lines -> LineSet], mishaps' \in 0 .. MaxMishaps,
         \A p \in Pages : PageHasLine(p)',
         \A l \in Lines : LineHasPage(l)' /\ (SameLine(l) \/ (LineIsNew(l)' /\ LineIsTrue(l)'))
  PROVE  ViewInv'
<1>1. ViewTyped'
  BY DEF ViewInv, ViewTyped
<1>2. RelayIsTrue'
  BY DEF ViewInv, RelayIsTrue
<1>3. ASSUME NEW l \in Lines, SameLine(l) PROVE LineIsNew(l)' /\ LineIsTrue(l)'
  <2>1. LineIsNew(l) /\ LineIsTrue(l)
    BY DEF ViewInv
  <2>2. LineIsNew(l)'
    BY <1>3, <2>1 DEF SameLine, LineIsNew
  <2>3. ASSUME Carries(l)' PROVE LineIsTrue(l)'
    <3>. DEFINE g == page[line[l].owner]  h == page'[line'[l].owner]
    <3>1. /\ Carries(l) /\ line'[l].up = line[l].up
          /\ h.tab = g.tab /\ h.streaming = g.streaming /\ h.shown = g.shown
      BY <1>3, <2>3 DEF SameLine
    <3>. HIDE DEF g, h
    <3>2. Status(h) = Status(g)
      BY <3>1 DEF Status
    <3>3. /\ AboutPage(line[l].up, g)
          /\ "mixed" \notin spoilt => CachedOfPage(session, line[l].up, g)
          /\ viewer.on /\ spoilt = {} => ShownOfPage(viewer, line[l].up, g)
      BY <2>1, <3>1 DEF LineIsTrue, g
    <3>4. AboutPage(line[l].up, h)
      BY <3>1, <3>2, <3>3 DEF AboutPage
    <3>5. CachedOfPage(session, line[l].up, g) => CachedOfPage(session, line[l].up, h)
      BY <3>1, <3>2 DEF CachedOfPage
    <3>6. ShownOfPage(viewer, line[l].up, g) => ShownOfPage(viewer, line[l].up, h)
      BY <3>1, <3>2 DEF ShownOfPage
    <3>7. /\ AboutPage(line'[l].up, h)
          /\ "mixed" \notin spoilt' => CachedOfPage(session', line'[l].up, h)
          /\ viewer'.on /\ spoilt' = {} => ShownOfPage(viewer', line'[l].up, h)
      BY <3>1, <3>3, <3>4, <3>5, <3>6
    <3>. QED BY <3>7 DEF LineIsTrue, h
  <2>4. ~Carries(l)' => LineIsTrue(l)'
    BY DEF LineIsTrue
  <2>. QED BY <2>2, <2>3, <2>4
<1>. QED BY <1>1, <1>2, <1>3 DEF ViewInv

\* The claims when a page sends on a line that was idle.
LEMMA Sends ==
  ASSUME NEW s, NEW v, NEW g \in PageSet, NEW h \in PageSet, NEW ms \in UpSeqs,
         h.tab = g.tab \/ Has(ms, "activeTab"),
         h.streaming = g.streaming \/ Has(ms, "stream.status"),
         Has(ms, "image") => Has(ms, "frame"),
         h.shown => Has(ms, "image") \/ (g.shown /\ h.tab = g.tab)
  PROVE  /\ CachedOfPage(s, <<>>, g) => CachedOfPage(s, ms, h)
         /\ ShownOfPage(v, <<>>, g) => ShownOfPage(v, ms, h)
<1>1. \A kind : ~Has(<<>>, kind)
  BY DEF Has
<1>2. h.streaming = g.streaming => Status(h) = Status(g)
  BY DEF Status
<1>3. CachedOfPage(s, <<>>, g) => CachedOfPage(s, ms, h)
  BY <1>1, <1>2 DEF CachedOfPage
<1>4. ShownOfPage(v, <<>>, g) => ShownOfPage(v, ms, h)
  BY <1>1, <1>2 DEF ShownOfPage
<1>. QED BY <1>3, <1>4

\* openSocket() of a page without a live line.
LEMMA OpenPublisherKeeps ==
  ASSUME ViewInv, NEW p \in Pages, OpenPublisher(p), mishaps' \in 0 .. MaxMishaps,
         page[p].socket # NoLine => line[page[p].socket].pageEnd = "closing"
  PROVE  ViewInv'
<1>1. PICK l \in Lines :
        /\ line[l] = FreeLine
        /\ page' = [page EXCEPT ![p] = [@ EXCEPT !.on = TRUE, !.socket = l, !.timer = FALSE,
                                                 !.shown = FALSE, !.ousted = FALSE]]
        /\ line' = [line EXCEPT ![l] = [FreeLine EXCEPT
                      !.owner = p, !.pageEnd = "connecting", !.relayEnd = "asked"]]
  BY DEF OpenPublisher
<1>2. UNCHANGED <<session, viewer, spoilt>>
  BY DEF OpenPublisher
<1>. DEFINE x == [FreeLine EXCEPT !.owner = p, !.pageEnd = "connecting", !.relayEnd = "asked"]
            y == [page[p] EXCEPT !.on = TRUE, !.socket = l, !.timer = FALSE,
                                 !.shown = FALSE, !.ousted = FALSE]
<1>3. /\ x \in LineSet
      /\ x.owner = p /\ x.pageEnd = "connecting" /\ x.relayEnd = "asked" /\ ~x.stale
      /\ x.up = <<>>
  BY EmptySeq DEF LineSet, FreeLine, UpSeqs
<1>4. /\ y \in PageSet /\ y.on /\ y.socket = l /\ ~y.timer /\ ~y.shown
  BY DEF PageSet, ViewInv, ViewTyped
<1>5. /\ page' = [page EXCEPT ![p] = y] /\ line' = [line EXCEPT ![l] = x]
      /\ line[l].pageEnd = "none" /\ l # NoLine /\ p # 0
  BY <1>1, ViewFacts DEF FreeLine
<1>. HIDE DEF x, y
<1>6. page' \in [Pages -> PageSet] /\ line' \in [Lines -> LineSet]
  BY <1>3, <1>4, <1>5 DEF ViewInv, ViewTyped
<1>7. /\ page'[p] = y /\ \A q \in Pages \ {p} : page'[q] = page[q]
      /\ line'[l] = x /\ \A k \in Lines \ {l} : line'[k] = line[k]
  BY <1>5 DEF ViewInv, ViewTyped
<1>8. \A k \in Lines \ {l} : line[k].pageEnd \in {"connecting", "open"} =>
                               line[k].owner \in Pages \ {p}
  BY ViewFacts DEF ViewInv, LineHasPage
<1>9. \A q \in Pages : PageHasLine(q)'
  <2>1. PageHasLine(p)'
    BY <1>3, <1>4, <1>7 DEF PageHasLine
  <2>2. ASSUME NEW q \in Pages \ {p} PROVE PageHasLine(q)'
    <3>1. PageHasLine(q) /\ page[q].socket \in Lines \cup {NoLine}
      BY DEF ViewInv, ViewTyped, PageSet
    <3>2. page[q].socket # l
      BY <3>1, <1>5 DEF PageHasLine
    <3>. QED BY <1>7, <3>1, <3>2 DEF PageHasLine
  <2>. QED BY <2>1, <2>2
<1>10. \A k \in Lines : LineHasPage(k)'
  <2>1. LineHasPage(l)'
    BY <1>3, <1>4, <1>7 DEF LineHasPage
  <2>2. ASSUME NEW k \in Lines \ {l} PROVE LineHasPage(k)'
    BY <1>2, <1>7, <1>8 DEF ViewInv, LineHasPage
  <2>. QED BY <2>1, <2>2
<1>11. LineIsNew(l)' /\ LineIsTrue(l)'
  BY <1>3, <1>7 DEF LineIsNew, LineIsTrue, Carries
<1>12. \A k \in Lines \ {l} : SameLine(k)
  BY <1>7, <1>8 DEF SameLine, Carries
<1>. QED BY <1>2, <1>6, <1>9, <1>10, <1>11, <1>12, PageMoves

LEMMA PublisherStartsStep ==
  ASSUME ViewInv, NEW p \in Pages, PublisherStarts(p)
  PROVE  ViewInv'
<1>1. page[p].socket = NoLine /\ mishaps' \in 0 .. MaxMishaps
  BY DEF ViewInv, ViewTyped, PageHasLine, PublisherStarts, Starts
<1>. QED BY <1>1, OpenPublisherKeeps DEF PublisherStarts

LEMMA ReconnectTimerStep ==
  ASSUME ViewInv, NEW p \in Pages, ReconnectTimer(p)
  PROVE  ViewInv'
<1>1. page[p].socket = NoLine /\ mishaps' \in 0 .. MaxMishaps
  BY DEF ViewInv, ViewTyped, PageHasLine, ReconnectTimer
<1>. QED BY <1>1, OpenPublisherKeeps DEF ReconnectTimer

\* A page's record changes, and its websocket and what is shown do not.
LEMMA NoWebSocketStep ==
  ASSUME ViewInv, NEW p \in Pages, NoWebSocket(p)
  PROVE  ViewInv'
<1>. DEFINE y == [page[p] EXCEPT !.on = TRUE, !.timer = TRUE]
<1>1. /\ page' = [page EXCEPT ![p] = y] /\ UNCHANGED <<line, session, viewer, spoilt>>
      /\ mishaps' \in 0 .. MaxMishaps
  BY ViewFacts DEF NoWebSocket, ViewInv, ViewTyped
<1>2. page[p].socket = NoLine
  BY DEF NoWebSocket, Starts, ViewInv, PageHasLine
<1>3. /\ y \in PageSet /\ y.on /\ y.socket = NoLine /\ y.tab = page[p].tab
      /\ y.streaming = page[p].streaming /\ y.shown = page[p].shown
  BY <1>2 DEF PageSet, ViewInv, ViewTyped
<1>. HIDE DEF y
<1>4. /\ page' \in [Pages -> PageSet] /\ line' \in [Lines -> LineSet]
      /\ page'[p] = y /\ \A q \in Pages \ {p} : page'[q] = page[q]
  BY <1>1, <1>3 DEF ViewInv, ViewTyped
<1>5. \A q \in Pages : PageHasLine(q)'
  BY <1>1, <1>3, <1>4 DEF ViewInv, PageHasLine
<1>6. \A q \in Pages : /\ page'[q].tab = page[q].tab /\ page'[q].streaming = page[q].streaming
                       /\ page'[q].shown = page[q].shown /\ page'[q].socket = page[q].socket
  BY <1>2, <1>3, <1>4
<1>7. \A l \in Lines : LineHasPage(l)' /\ SameLine(l)
  BY <1>1, <1>6 DEF ViewInv, LineHasPage, SameLine, Carries
<1>. QED BY <1>1, <1>4, <1>5, <1>7, PageMoves

\* The page's end of a line changes, and the line carries nothing of the page afterwards.
LEMMA EndKeeps ==
  ASSUME ViewInv, NEW l \in Lines, NEW x \in LineSet, line' = [line EXCEPT ![l] = x],
         UNCHANGED <<page, session, viewer, spoilt>>, mishaps' \in 0 .. MaxMishaps,
         \/ /\ x = FreeLine /\ line[l].pageEnd = "none"
         \/ /\ x.owner = line[l].owner
            /\ \/ x.pageEnd = line[l].pageEnd
               \/ x.pageEnd = "closing" /\ line[l].pageEnd # "none",
         x.relayEnd \in {line[l].relayEnd, "none", "closing"},
         x.relayEnd \in {"asked", "open"} => x.stale = line[l].stale,
         x.pageEnd = "connecting" => x.up = <<>>,
         ~(x.relayEnd = "open" /\ x.pageEnd = "open" /\ ~x.cut)
  PROVE  ViewInv'
<1>1. /\ page' \in [Pages -> PageSet] /\ line' \in [Lines -> LineSet]
      /\ line'[l] = x /\ \A k \in Lines \ {l} : line'[k] = line[k]
  BY DEF ViewInv, ViewTyped
<1>2. \A p \in Pages : PageHasLine(p)'
  <2>1. SUFFICES ASSUME NEW p \in Pages PROVE PageHasLine(p)'
    OBVIOUS
  <2>2. PageHasLine(p) /\ page[p].socket \in Lines \cup {NoLine}
    BY DEF ViewInv, ViewTyped, PageSet
  <2>3. page[p].socket # NoLine => /\ line'[page[p].socket].owner = p
                                   /\ line'[page[p].socket].pageEnd # "none"
    BY <1>1, <2>2 DEF PageHasLine
  <2>. QED BY <2>2, <2>3 DEF PageHasLine
<1>3. \A k \in Lines : LineHasPage(k)'
  <2>1. LineHasPage(l)'
    BY <1>1 DEF ViewInv, LineHasPage, FreeLine
  <2>2. ASSUME NEW k \in Lines \ {l} PROVE LineHasPage(k)'
    BY <1>1 DEF ViewInv, LineHasPage
  <2>. QED BY <2>1, <2>2
<1>4. LineIsNew(l)' /\ LineIsTrue(l)'
  <2>1. LineIsNew(l)
    BY DEF ViewInv
  <2>. QED BY <1>1, <2>1 DEF LineIsNew, LineIsTrue, Carries, FreeLine
<1>5. \A k \in Lines \ {l} : SameLine(k)
  BY <1>1 DEF SameLine, Carries
<1>. QED BY <1>1, <1>2, <1>3, <1>4, <1>5, PageMoves

LEMMA HeartbeatTimesOutStep ==
  ASSUME ViewInv, NEW p \in Pages, HeartbeatTimesOut(p)
  PROVE  ViewInv'
<1>. DEFINE l == page[p].socket
            x == [line[l] EXCEPT !.pageEnd = "closing"]
<1>1. /\ l \in Lines /\ line[l] \in LineSet /\ line[l].pageEnd = "open"
      /\ line' = [line EXCEPT ![l] = x] /\ UNCHANGED <<page, session, viewer, spoilt>>
      /\ mishaps' \in 0 .. MaxMishaps
  BY ViewFacts DEF HeartbeatTimesOut, IsOpen, ViewInv, ViewTyped, PageSet
<1>2. /\ x \in LineSet /\ x.owner = line[l].owner /\ x.pageEnd = "closing"
      /\ x.relayEnd = line[l].relayEnd /\ x.stale = line[l].stale
  BY <1>1 DEF LineSet
<1>. HIDE DEF x, l
<1>. QED BY <1>1, <1>2, EndKeeps

LEMMA LineCutStep ==
  ASSUME ViewInv, NEW l \in Lines, LineCut(l)
  PROVE  ViewInv'
<1>. DEFINE x == [line[l] EXCEPT !.cut = TRUE, !.up = <<>>]
<1>1. /\ line[l] \in LineSet /\ line' = [line EXCEPT ![l] = x]
      /\ UNCHANGED <<page, session, viewer, spoilt>> /\ mishaps' \in 0 .. MaxMishaps
  BY ViewFacts DEF LineCut, ViewInv, ViewTyped
<1>2. /\ x \in LineSet /\ x.owner = line[l].owner /\ x.pageEnd = line[l].pageEnd
      /\ x.relayEnd = line[l].relayEnd /\ x.stale = line[l].stale /\ x.cut /\ x.up = <<>>
  BY <1>1, EmptySeq DEF LineSet, UpSeqs
<1>. HIDE DEF x
<1>. QED BY <1>1, <1>2, EndKeeps

LEMMA RefusePublisherStep ==
  ASSUME ViewInv, NEW l \in Lines, RefusePublisher(l)
  PROVE  ViewInv'
<1>. DEFINE x == Settled([line[l] EXCEPT !.relayEnd = "none"])
<1>1. /\ line[l] \in LineSet /\ line' = [line EXCEPT ![l] = x]
      /\ UNCHANGED <<page, session, viewer, spoilt>> /\ mishaps' \in 0 .. MaxMishaps
  BY ViewFacts DEF RefusePublisher, ViewInv, ViewTyped
<1>2. FreeLine \in LineSet /\ FreeLine.relayEnd = "none" /\ FreeLine.pageEnd = "none"
  BY EmptySeq DEF FreeLine, LineSet, UpSeqs
<1>3. CASE line[l].pageEnd = "none"
  <2>1. x = FreeLine
    BY <1>1, <1>3 DEF Settled, LineSet
  <2>. HIDE DEF x
  <2>. QED BY <1>1, <1>2, <1>3, <2>1, EndKeeps
<1>4. CASE line[l].pageEnd # "none"
  <2>1. x = [line[l] EXCEPT !.relayEnd = "none"]
    BY <1>1, <1>4 DEF Settled, LineSet
  <2>2. /\ x \in LineSet /\ x.owner = line[l].owner /\ x.pageEnd = line[l].pageEnd
        /\ x.relayEnd = "none" /\ x.up = line[l].up
    BY <1>1, <2>1 DEF LineSet
  <2>3. line[l].pageEnd = "connecting" => line[l].up = <<>>
    BY DEF ViewInv, LineIsNew
  <2>. HIDE DEF x
  <2>. QED BY <1>1, <1>4, <2>2, <2>3, EndKeeps
<1>. QED BY <1>3, <1>4

\* A page that has an idle line sends on it, or changes without one.
LEMMA PageSends ==
  ASSUME ViewInv, NEW p \in Pages, NEW h \in PageSet, NEW ms \in UpSeqs,
         page' = [page EXCEPT ![p] = h], mishaps' \in 0 .. MaxMishaps,
         UNCHANGED <<session, viewer, spoilt>>,
         h.on = page[p].on, h.timer = page[p].timer, h.socket = page[p].socket,
         h.shown => h.streaming,
         \/ ~IsOpen(page[p].socket) /\ UNCHANGED line
         \/ /\ CanSend(page[p].socket) /\ line' = Sent(page[p].socket, ms)
            /\ AboutPage(ms, h)
            /\ h.tab = page[p].tab \/ Has(ms, "activeTab")
            /\ h.streaming = page[p].streaming \/ Has(ms, "stream.status")
            /\ Has(ms, "image") => Has(ms, "frame")
            /\ h.shown => Has(ms, "image") \/ (page[p].shown /\ h.tab = page[p].tab)
  PROVE  ViewInv'
<1>. DEFINE l == page[p].socket
<1>0. /\ page[p] \in PageSet /\ l \in Lines \cup {NoLine} /\ PageHasLine(p)
  BY DEF ViewInv, ViewTyped, PageSet
<1>1. /\ page' \in [Pages -> PageSet] /\ page'[p] = h
      /\ \A q \in Pages \ {p} : page'[q] = page[q]
  BY DEF ViewInv, ViewTyped
<1>2. /\ line' \in [Lines -> LineSet]
      /\ \A k \in Lines : /\ line'[k].owner = line[k].owner /\ line'[k].pageEnd = line[k].pageEnd
                          /\ line'[k].relayEnd = line[k].relayEnd
                          /\ line'[k].stale = line[k].stale /\ line'[k].cut = line[k].cut
                          /\ k # l => line'[k] = line[k]
  <2>1. CASE UNCHANGED line
    BY <2>1 DEF ViewInv, ViewTyped
  <2>2. CASE l \in Lines /\ line' = Sent(l, ms)
    <3>. DEFINE x == [line[l] EXCEPT !.up = IF line[l].cut THEN <<>> ELSE ms]
    <3>1. line[l] \in LineSet /\ <<>> \in UpSeqs /\ line' = [line EXCEPT ![l] = x]
      BY <2>2, EmptySeq DEF Sent, ViewInv, ViewTyped, UpSeqs
    <3>2. /\ x \in LineSet /\ x.owner = line[l].owner /\ x.pageEnd = line[l].pageEnd
          /\ x.relayEnd = line[l].relayEnd /\ x.stale = line[l].stale /\ x.cut = line[l].cut
      BY <3>1 DEF LineSet
    <3>. HIDE DEF x, l
    <3>. QED BY <2>2, <3>1, <3>2 DEF ViewInv, ViewTyped
  <2>. QED BY <1>0, <2>1, <2>2 DEF CanSend, IsOpen
<1>7. \/ ~IsOpen(l) /\ UNCHANGED line
      \/ /\ IsOpen(l) /\ line[l].up = <<>> /\ line' = Sent(l, ms)
         /\ AboutPage(ms, h)
         /\ h.tab = page[p].tab \/ Has(ms, "activeTab")
         /\ h.streaming = page[p].streaming \/ Has(ms, "stream.status")
         /\ Has(ms, "image") => Has(ms, "frame")
         /\ h.shown => Has(ms, "image") \/ (page[p].shown /\ h.tab = page[p].tab)
  BY DEF CanSend
<1>. HIDE DEF l
<1>3. \A q \in Pages : PageHasLine(q)'
  <2>1. SUFFICES ASSUME NEW q \in Pages PROVE PageHasLine(q)'
    OBVIOUS
  <2>2. PageHasLine(q) /\ page[q].socket \in Lines \cup {NoLine}
    BY DEF ViewInv, ViewTyped, PageSet
  <2>3. /\ page'[q].on = page[q].on /\ page'[q].timer = page[q].timer
        /\ page'[q].socket = page[q].socket
        /\ page'[q].shown => page'[q].streaming
    BY <1>1, <2>2 DEF PageHasLine
  <2>4. page[q].socket # NoLine => /\ line'[page[q].socket].owner = q
                                   /\ line'[page[q].socket].pageEnd # "none"
    BY <1>2, <2>2 DEF PageHasLine
  <2>. QED BY <2>2, <2>3, <2>4 DEF PageHasLine
<1>4. \A k \in Lines : LineHasPage(k)'
  <2>1. \A q \in Pages : page'[q].socket = page[q].socket
    BY <1>1
  <2>. QED BY <1>2, <2>1 DEF ViewInv, LineHasPage
<1>5. ASSUME NEW k \in Lines, k # l PROVE SameLine(k)
  <2>1. Carries(k) => line[k].owner \in Pages \ {p}
    BY <1>5 DEF ViewInv, LineHasPage, Carries, l
  <2>. QED BY <1>1, <1>2, <1>5, <2>1 DEF SameLine, Carries
<1>6. ASSUME NEW k \in Lines, k = l PROVE LineIsNew(k)' /\ LineIsTrue(k)'
  <2>1. LineIsNew(k) /\ LineIsTrue(k) /\ line[k].owner = p
    BY <1>0, <1>6, ViewFacts DEF ViewInv, PageHasLine, l
  <2>2. line[k].pageEnd = "open" \/ UNCHANGED line
    BY <1>6, <1>7 DEF IsOpen
  <2>3. LineIsNew(k)'
    <3>1. CASE UNCHANGED line
      BY <2>1, <3>1 DEF LineIsNew
    <3>2. CASE line[k].pageEnd = "open"
      BY <1>2, <1>6, <3>2 DEF LineIsNew
    <3>. QED BY <2>2, <3>1, <3>2
  <2>4. ASSUME Carries(k)' PROVE LineIsTrue(k)'
    <3>1. Carries(k)
      BY <1>2, <1>6, <2>4 DEF Carries
    <3>2. IsOpen(k)
      BY <1>6, <3>1, ViewFacts DEF Carries, IsOpen
    <3>3. /\ line[k].up = <<>> /\ AboutPage(ms, h) /\ line' = Sent(k, ms)
          /\ h.tab = page[p].tab \/ Has(ms, "activeTab")
          /\ h.streaming = page[p].streaming \/ Has(ms, "stream.status")
          /\ Has(ms, "image") => Has(ms, "frame")
          /\ h.shown => Has(ms, "image") \/ (page[p].shown /\ h.tab = page[p].tab)
      BY <1>6, <1>7, <3>2
    <3>4. line'[k].up = ms
      BY <1>6, <3>1, <3>3 DEF Sent, Carries, ViewInv, ViewTyped, LineSet
    <3>5. /\ "mixed" \notin spoilt => CachedOfPage(session, <<>>, page[p])
          /\ viewer.on /\ spoilt = {} => ShownOfPage(viewer, <<>>, page[p])
      BY <2>1, <3>1, <3>3 DEF LineIsTrue
    <3>6. /\ CachedOfPage(session, <<>>, page[p]) => CachedOfPage(session, ms, h)
          /\ ShownOfPage(viewer, <<>>, page[p]) => ShownOfPage(viewer, ms, h)
      BY <1>0, <3>3, Sends
    <3>7. line'[k].owner = p /\ page'[p] = h
      BY <1>1, <1>2, <1>6, <2>1
    <3>8. /\ AboutPage(line'[k].up, page'[line'[k].owner])
          /\ "mixed" \notin spoilt' =>
               CachedOfPage(session', line'[k].up, page'[line'[k].owner])
          /\ viewer'.on /\ spoilt' = {} =>
               ShownOfPage(viewer', line'[k].up, page'[line'[k].owner])
      BY <3>3, <3>4, <3>5, <3>6, <3>7
    <3>. QED BY <3>8 DEF LineIsTrue
  <2>5. ~Carries(k)' => LineIsTrue(k)'
    BY DEF LineIsTrue
  <2>. QED BY <2>3, <2>4, <2>5
<1>8. \A k \in Lines : SameLine(k) \/ (LineIsNew(k)' /\ LineIsTrue(k)')
  BY <1>5, <1>6
<1>. QED BY <1>1, <1>2, <1>3, <1>4, <1>8, PageMoves

\* reconnectOrResync()
LEMMA ReconnectOrResyncStep ==
  ASSUME ViewInv, NEW p \in Pages, ReconnectOrResync(p)
  PROVE  ViewInv'
<1>. DEFINE l == page[p].socket  g == page[p]
<1>0. mishaps' \in 0 .. MaxMishaps /\ g \in PageSet /\ l \in Lines \cup {NoLine}
  BY ViewFacts DEF ReconnectOrResync, ViewInv, ViewTyped, PageSet
<1>1. CASE (l # NoLine => line[l].pageEnd = "closing") /\ OpenPublisher(p)
  BY <1>0, <1>1, OpenPublisherKeeps
<1>2. CASE ~ ((l # NoLine => line[l].pageEnd = "closing") /\ OpenPublisher(p))
  <2>1. PICK framed \in BOOLEAN :
          /\ CanSend(l)
          /\ line' = Sent(l, PublishCurrentState(p, framed))
          /\ page' = [page EXCEPT ![p].shown = @ \/ (framed /\ page[p].streaming)]
          /\ UNCHANGED <<session, viewer, spoilt>>
    BY <1>2 DEF ReconnectOrResync
  <2>. DEFINE h == [g EXCEPT !.shown = g.shown \/ (framed /\ g.streaming)]
              ms == PublishCurrentState(p, framed)
  <2>2. /\ h \in PageSet /\ h.tab = g.tab /\ h.streaming = g.streaming
        /\ h.on = g.on /\ h.timer = g.timer /\ h.socket = g.socket
        /\ h.shown = (g.shown \/ (framed /\ g.streaming))
    BY <1>0 DEF PageSet
  <2>3. /\ ms \in UpSeqs /\ AboutPage(ms, g) /\ Has(ms, "stream.status") /\ Has(ms, "activeTab")
        /\ Has(ms, "image") <=> g.streaming /\ framed
        /\ Has(ms, "frame") <=> g.streaming /\ framed
    BY <1>0, CurrentState
  <2>4. page' = [page EXCEPT ![p] = h] /\ line' = Sent(l, ms)
    BY <2>1 DEF ViewInv, ViewTyped
  <2>. HIDE DEF g, h, ms, l
  <2>5. AboutPage(ms, h)
    BY <2>2, <2>3 DEF AboutPage, Status
  <2>6. h.shown => Has(ms, "image") \/ (g.shown /\ h.tab = g.tab)
    BY <2>2, <2>3
  <2>7. h.shown => h.streaming
    BY <2>2 DEF ViewInv, PageHasLine, g
  <2>. QED BY <1>0, <2>1, <2>2, <2>3, <2>4, <2>5, <2>6, <2>7, PageSends DEF g, l
<1>. QED BY <1>1, <1>2

LEMMA PageFrameStep ==
  ASSUME ViewInv, NEW p \in Pages, PageFrame(p)
  PROVE  ViewInv'
<1>. DEFINE g == page[p]
            h == [g EXCEPT !.shown = TRUE]
            ms == FrameMessages(g.tab)
<1>0. g \in PageSet /\ g.streaming /\ g.on
  BY DEF PageFrame, ViewInv, ViewTyped
<1>1. /\ CanSend(page[p].socket) /\ line' = Sent(page[p].socket, ms)
      /\ page' = [page EXCEPT ![p] = h] /\ UNCHANGED <<session, viewer, spoilt>>
      /\ mishaps' \in 0 .. MaxMishaps
  BY DEF PageFrame, ViewInv, ViewTyped
<1>2. /\ h \in PageSet /\ h.tab = g.tab /\ h.streaming = g.streaming
      /\ h.on = g.on /\ h.timer = g.timer /\ h.socket = g.socket
  BY <1>0 DEF PageSet
<1>3. ms \in UpSeqs /\ AboutPage(ms, g) /\ Has(ms, "image") /\ Has(ms, "frame")
  <2>1. <<>> \in UpSeqs /\ Len(<<>>) = 0
    BY EmptySeq DEF UpSeqs
  <2>2. ms # <<>> /\ ms \in Seq(Messages)
    <3>1. <<"frame", g.tab>> \in Messages /\ <<"image", g.tab>> \in Messages
      BY <1>0, MessageOfTab DEF PageSet
    <3>. QED BY <3>1 DEF FrameMessages
  <2>3. <<>> \o ms = ms
    BY <2>2, ConcatEmptySeq
  <2>. HIDE DEF ms, g
  <2>4. ms \in {<<>>, FrameMessages(g.tab)}
    BY DEF ms
  <2>5. /\ <<>> \o ms \in UpSeqs
        /\ AboutPage(<<>> \o ms, g)
        /\ Has(<<>> \o ms, "image") <=> ms # <<>>
        /\ Has(<<>> \o ms, "frame") <=> ms # <<>>
    <3>1. \A i \in 1 .. Len(<<>>) : FALSE
      BY <2>1
    <3>. QED BY <1>0, <2>1, <2>4, <3>1, Packet
  <2>. QED BY <2>2, <2>3, <2>5
<1>. HIDE DEF g, h, ms
<1>4. AboutPage(ms, h)
  BY <1>2, <1>3 DEF AboutPage, Status
<1>5. h.streaming
  BY <1>0, <1>2
<1>. QED BY <1>1, <1>2, <1>3, <1>4, <1>5, PageSends DEF g

\* The tab and the status are sent when they have changed.
LEMMA Changes ==
  ASSUME NEW h \in PageSet, NEW newTab \in BOOLEAN, NEW newStatus \in BOOLEAN, NEW pre,
         pre = (IF newTab THEN << <<"activeTab", h.tab>> >> ELSE <<>>)
                 \o (IF newStatus THEN << Streaming(h.streaming) >> ELSE <<>>)
  PROVE  /\ pre \in UpSeqs
         /\ \A i \in 1 .. Len(pre) :
              pre[i] \in {<<"stream.status", Status(h)>>, <<"activeTab", h.tab>>}
         /\ newTab => Has(pre, "activeTab")
         /\ newStatus => Has(pre, "stream.status")
<1>. DEFINE A == <<"activeTab", h.tab>>
            S == <<"stream.status", Status(h)>>
            a == IF newTab THEN << A >> ELSE <<>>
            b == IF newStatus THEN << S >> ELSE <<>>
<1>1. Streaming(h.streaming) = S
  BY DEF Streaming, Status
<1>2. A \in Messages /\ S \in Messages
  BY MessageOfTab DEF Messages, Status, PageSet
<1>3. pre = a \o b
  BY <1>1
<1>4. A[1] = "activeTab" /\ S[1] = "stream.status"
  OBVIOUS
<1>. HIDE DEF A, S
<1>5. /\ a \in Seq(Messages) /\ b \in Seq(Messages)
      /\ Len(a) = IF newTab THEN 1 ELSE 0
      /\ Len(b) = IF newStatus THEN 1 ELSE 0
      /\ newTab => a[1] = A
      /\ newStatus => b[1] = S
  BY <1>2
<1>. HIDE DEF a, b
<1>6. /\ pre \in Seq(Messages) /\ Len(pre) = Len(a) + Len(b)
      /\ \A i \in 1 .. Len(pre) : pre[i] = IF i <= Len(a) THEN a[i] ELSE b[i - Len(a)]
  <2>1. a \in Seq(Messages) /\ b \in Seq(Messages)
    BY <1>5
  <2>2. /\ a \o b \in Seq(Messages) /\ Len(a \o b) = Len(a) + Len(b)
        /\ \A i \in 1 .. Len(a) + Len(b) :
             (a \o b)[i] = IF i <= Len(a) THEN a[i] ELSE b[i - Len(a)]
    BY <2>1, ConcatProperties, Zenon
  <2>. QED BY <1>3, <2>2
<1>7. \A i \in 1 .. Len(pre) : pre[i] = A \/ pre[i] = S
  <2>1. SUFFICES ASSUME NEW i \in 1 .. Len(pre) PROVE pre[i] = A \/ pre[i] = S
    OBVIOUS
  <2>2. CASE i <= Len(a)
    <3>1. i = 1 /\ newTab
      BY <1>5, <1>6, <2>2
    <3>. QED BY <1>5, <1>6, <2>2, <3>1
  <2>3. CASE ~ (i <= Len(a))
    <3>1. i - Len(a) = 1 /\ newStatus
      BY <1>5, <1>6, <2>3
    <3>. QED BY <1>5, <1>6, <2>3, <3>1
  <2>. QED BY <2>2, <2>3
<1>8. newTab => Has(pre, "activeTab")
  <2>1. SUFFICES ASSUME newTab PROVE Has(pre, "activeTab")
    OBVIOUS
  <2>2. 1 \in 1 .. Len(pre) /\ 1 <= Len(a)
    BY <1>5, <1>6, <2>1
  <2>3. pre[1] = A
    BY <1>5, <1>6, <2>1, <2>2
  <2>. QED BY <1>4, <2>2, <2>3 DEF Has
<1>9. newStatus => Has(pre, "stream.status")
  <2>1. SUFFICES ASSUME newStatus PROVE Has(pre, "stream.status")
    OBVIOUS
  <2>2. /\ Len(a) + 1 \in 1 .. Len(pre) /\ ~ (Len(a) + 1 <= Len(a))
        /\ (Len(a) + 1) - Len(a) = 1
    BY <1>5, <1>6, <2>1
  <2>3. pre[Len(a) + 1] = S
    BY <1>5, <1>6, <2>1, <2>2
  <2>. QED BY <1>4, <2>2, <2>3 DEF Has
<1>. QED BY <1>6, <1>7, <1>8, <1>9 DEF UpSeqs, A, S

LEMMA PageChangesStep ==
  ASSUME ViewInv, NEW p \in Pages, PageChanges(p)
  PROVE  ViewInv'
<1>1. PICK t \in Tabs, s \in BOOLEAN, framed \in BOOLEAN :
    LET l == page[p].socket
        messages ==
          (IF t # page[p].tab THEN << <<"activeTab", t>> >> ELSE <<>>)
            \o (IF s # page[p].streaming THEN << Streaming(s) >> ELSE <<>>)
            \o (IF s /\ framed THEN FrameMessages(t) ELSE <<>>)
    IN
    /\ Mishap
    /\ t # page[p].tab \/ s # page[p].streaming
    /\ IF IsOpen(l) THEN CanSend(l) /\ line' = Sent(l, messages) ELSE UNCHANGED line
    /\ page' = [page EXCEPT ![p] = [@ EXCEPT !.tab = t, !.streaming = s,
                                             !.shown = s /\ framed /\ IsOpen(l)]]
    /\ UNCHANGED <<session, viewer, spoilt>>
  BY Zenon DEF PageChanges
<1>. DEFINE g == page[p]
            h == [g EXCEPT !.tab = t, !.streaming = s, !.shown = s /\ framed /\ IsOpen(g.socket)]
            pre == (IF t # g.tab THEN << <<"activeTab", t>> >> ELSE <<>>)
                     \o (IF s # g.streaming THEN << Streaming(s) >> ELSE <<>>)
            pics == IF s /\ framed THEN FrameMessages(t) ELSE <<>>
<1>3. /\ IF IsOpen(g.socket) THEN CanSend(g.socket) /\ line' = Sent(g.socket, pre \o pics)
         ELSE UNCHANGED line
      /\ page' = [page EXCEPT ![p] = h] /\ UNCHANGED <<session, viewer, spoilt>>
      /\ Mishap
  BY <1>1 DEF ViewInv, ViewTyped
<1>4. g \in PageSet /\ mishaps' \in 0 .. MaxMishaps
  BY <1>3, ViewFacts DEF ViewInv, ViewTyped
<1>5. /\ h \in PageSet /\ h.tab = t /\ h.streaming = s
      /\ h.shown = (s /\ framed /\ IsOpen(g.socket))
      /\ h.on = g.on /\ h.timer = g.timer /\ h.socket = g.socket
  BY <1>4 DEF PageSet
<1>6. pics \in {<<>>, FrameMessages(t)} /\ (pics # <<>> <=> s /\ framed)
  BY DEF FrameMessages
<1>. HIDE DEF h, pics
<1>7. /\ pre \in UpSeqs
      /\ \A i \in 1 .. Len(pre) :
           pre[i] \in {<<"stream.status", Status(h)>>, <<"activeTab", h.tab>>}
      /\ t # g.tab => Has(pre, "activeTab")
      /\ s # g.streaming => Has(pre, "stream.status")
  <2>1. pre = (IF t # g.tab THEN << <<"activeTab", h.tab>> >> ELSE <<>>)
                \o (IF s # g.streaming THEN << Streaming(h.streaming) >> ELSE <<>>)
    BY <1>5
  <2>2. (t # g.tab) \in BOOLEAN /\ (s # g.streaming) \in BOOLEAN
    OBVIOUS
  <2>. HIDE DEF pre
  <2>. QED BY <1>5, <2>1, <2>2, Changes
<1>. HIDE DEF pre, g
<1>8. /\ pre \o pics \in UpSeqs /\ AboutPage(pre \o pics, h)
      /\ Has(pre \o pics, "image") <=> pics # <<>>
      /\ Has(pre \o pics, "frame") <=> pics # <<>>
      /\ Has(pre, "stream.status") => Has(pre \o pics, "stream.status")
      /\ Has(pre, "activeTab") => Has(pre \o pics, "activeTab")
  BY <1>5, <1>6, <1>7, Packet
<1>9. h.shown => h.streaming /\ Has(pre \o pics, "image")
  BY <1>5, <1>6, <1>8
<1>10. /\ h.tab = g.tab \/ Has(pre \o pics, "activeTab")
       /\ h.streaming = g.streaming \/ Has(pre \o pics, "stream.status")
       /\ Has(pre \o pics, "image") => Has(pre \o pics, "frame")
  BY <1>5, <1>7, <1>8
<1>. DEFINE ms == pre \o pics
<1>. HIDE DEF ms
<1>11. /\ ms \in UpSeqs /\ AboutPage(ms, h)
       /\ h.tab = g.tab \/ Has(ms, "activeTab")
       /\ h.streaming = g.streaming \/ Has(ms, "stream.status")
       /\ Has(ms, "image") => Has(ms, "frame")
       /\ h.shown => h.streaming /\ Has(ms, "image")
       /\ \/ ~IsOpen(g.socket) /\ UNCHANGED line
          \/ CanSend(g.socket) /\ line' = Sent(g.socket, ms)
  BY <1>3, <1>8, <1>9, <1>10 DEF ms
<1>. QED BY <1>3, <1>4, <1>5, <1>11, PageSends DEF g

LEMMA PublisherStopsStep ==
  ASSUME ViewInv, NEW p \in Pages, PublisherStops(p)
  PROVE  ViewInv'
<1>. DEFINE y == [page[p] EXCEPT !.on = FALSE, !.socket = NoLine, !.timer = FALSE,
                                 !.shown = FALSE, !.ousted = FALSE]
<1>0. /\ page' = [page EXCEPT ![p] = y] /\ UNCHANGED <<session, viewer, spoilt>>
      /\ line' = [k \in Lines |-> IF k = page[p].socket
                                  THEN [line[k] EXCEPT !.pageEnd = "closing"] ELSE line[k]]
      /\ mishaps' \in 0 .. MaxMishaps
  BY ViewFacts DEF PublisherStops, ViewInv, ViewTyped
<1>1. y \in PageSet /\ ~y.on /\ y.socket = NoLine /\ ~y.timer /\ ~y.shown
  BY DEF PageSet, ViewInv, ViewTyped
<1>. HIDE DEF y
<1>2. /\ page' \in [Pages -> PageSet] /\ page'[p] = y
      /\ \A q \in Pages \ {p} : page'[q] = page[q]
  BY <1>0, <1>1 DEF ViewInv, ViewTyped
<1>3. /\ line' \in [Lines -> LineSet]
      /\ \A k \in Lines : /\ line'[k].owner = line[k].owner /\ line'[k].up = line[k].up
                          /\ line'[k].relayEnd = line[k].relayEnd
                          /\ line'[k].stale = line[k].stale /\ line'[k].cut = line[k].cut
                          /\ line'[k].pageEnd = IF k = page[p].socket THEN "closing"
                                                ELSE line[k].pageEnd
  <2>1. ASSUME NEW x \in LineSet
        PROVE  LET z == [x EXCEPT !.pageEnd = "closing"]
               IN z \in LineSet /\ z.owner = x.owner /\ z.up = x.up /\ z.relayEnd = x.relayEnd
                  /\ z.stale = x.stale /\ z.cut = x.cut /\ z.pageEnd = "closing"
    BY DEF LineSet
  <2>. QED BY <1>0, <2>1 DEF ViewInv, ViewTyped
<1>4. \A q \in Pages : PageHasLine(q)'
  <2>1. PageHasLine(p)'
    BY <1>1, <1>2 DEF PageHasLine
  <2>2. ASSUME NEW q \in Pages \ {p} PROVE PageHasLine(q)'
    <3>1. PageHasLine(q) /\ page[q].socket \in Lines \cup {NoLine}
      BY DEF ViewInv, ViewTyped, PageSet
    <3>2. page[q].socket # NoLine => /\ line'[page[q].socket].owner = q
                                     /\ line'[page[q].socket].pageEnd # "none"
      BY <1>3, <3>1 DEF PageHasLine
    <3>. QED BY <1>2, <3>1, <3>2 DEF PageHasLine
  <2>. QED BY <2>1, <2>2
<1>5. ASSUME NEW k \in Lines PROVE LineHasPage(k)' /\ SameLine(k)
  <2>1. LineHasPage(k) /\ (page[p].socket = k => line[k].owner = p /\ line[k].pageEnd # "none")
    BY ViewFacts DEF ViewInv, PageHasLine
  <2>2. line'[k].pageEnd \in {"connecting", "open"} =>
          line[k].pageEnd = line'[k].pageEnd /\ line[k].owner \in Pages \ {p}
    BY <1>3, <2>1 DEF LineHasPage
  <2>3. LineHasPage(k)'
    BY <1>0, <1>2, <1>3, <2>1, <2>2 DEF LineHasPage
  <2>4. SameLine(k)
    BY <1>2, <1>3, <2>2 DEF SameLine, Carries
  <2>. QED BY <2>3, <2>4
<1>. QED BY <1>0, <1>2, <1>3, <1>4, <1>5, PageMoves

\* announcePublisher()
LEMMA PageOpensStep ==
  ASSUME ViewInv, NEW l \in Lines, PageOpens(l)
  PROVE  ViewInv'
<1>. DEFINE p == line[l].owner
<1>0. /\ line[l].pageEnd = "connecting" /\ line[l].relayEnd \in {"open", "closing"} /\ ~line[l].cut
      /\ p \in Pages /\ page[p].socket = l /\ line[l] \in LineSet /\ page[p] \in PageSet
      /\ UNCHANGED <<session, viewer, spoilt>> /\ mishaps' \in 0 .. MaxMishaps
  BY DEF PageOpens, ViewInv, ViewTyped, LineHasPage
<1>1. PICK framed \in BOOLEAN :
        /\ line' = [line EXCEPT ![l].pageEnd = "open", ![l].up = PublishCurrentState(p, framed)]
        /\ page' = [page EXCEPT ![p].shown = framed /\ page[p].streaming]
  BY <1>0 DEF PageOpens
<1>2. PICK q \in Pages : q = p
  BY <1>0
<1>. DEFINE g == page[q]
            ms == PublishCurrentState(q, framed)
            x == [line[l] EXCEPT !.pageEnd = "open", !.up = ms]
            h == [g EXCEPT !.shown = framed /\ g.streaming]
<1>3. /\ ms \in UpSeqs /\ AboutPage(ms, g)
      /\ Has(ms, "stream.status") /\ Has(ms, "activeTab")
      /\ Has(ms, "image") <=> g.streaming /\ framed
      /\ Has(ms, "frame") <=> g.streaming /\ framed
  BY <1>0, <1>2, CurrentState
<1>4. line' = [line EXCEPT ![l] = x] /\ page' = [page EXCEPT ![q] = h]
  BY <1>0, <1>1, <1>2 DEF ViewInv, ViewTyped
<1>. HIDE DEF ms
<1>5. /\ x \in LineSet /\ x.owner = q /\ x.pageEnd = "open" /\ x.up = ms
      /\ x.relayEnd = line[l].relayEnd /\ x.stale = line[l].stale
  BY <1>0, <1>2, <1>3 DEF LineSet
<1>6. /\ h \in PageSet /\ h.tab = g.tab /\ h.streaming = g.streaming
      /\ h.on = g.on /\ h.timer = g.timer /\ h.socket = g.socket
      /\ h.shown <=> framed /\ g.streaming
  BY <1>0, <1>2 DEF PageSet
<1>. HIDE DEF x, h
<1>7. /\ page' \in [Pages -> PageSet] /\ line' \in [Lines -> LineSet]
      /\ page'[q] = h /\ \A r \in Pages \ {q} : page'[r] = page[r]
      /\ line'[l] = x /\ \A k \in Lines \ {l} : line'[k] = line[k]
  BY <1>4, <1>5, <1>6 DEF ViewInv, ViewTyped
<1>8. \A r \in Pages : PageHasLine(r)'
  <2>1. SUFFICES ASSUME NEW r \in Pages PROVE PageHasLine(r)'
    OBVIOUS
  <2>2. PageHasLine(r) /\ page[r].socket \in Lines \cup {NoLine}
    BY DEF ViewInv, ViewTyped, PageSet
  <2>3. /\ page'[r].on = page[r].on /\ page'[r].timer = page[r].timer
        /\ page'[r].socket = page[r].socket
        /\ page'[r].shown => page'[r].streaming
    BY <1>6, <1>7, <2>2 DEF PageHasLine
  <2>4. page[r].socket # NoLine => /\ line'[page[r].socket].owner = r
                                   /\ line'[page[r].socket].pageEnd # "none"
    BY <1>2, <1>5, <1>7, <2>2 DEF PageHasLine
  <2>. QED BY <2>2, <2>3, <2>4 DEF PageHasLine
<1>9. \A k \in Lines : LineHasPage(k)'
  <2>1. \A r \in Pages : page'[r].socket = page[r].socket
    BY <1>6, <1>7
  <2>2. LineHasPage(l)'
    <3>1. LineHasPage(l)
      BY DEF ViewInv
    <3>. QED BY <1>0, <1>2, <1>5, <1>7, <2>1, <3>1 DEF LineHasPage
  <2>3. ASSUME NEW k \in Lines \ {l} PROVE LineHasPage(k)'
    BY <1>0, <1>7, <2>1 DEF ViewInv, LineHasPage
  <2>. QED BY <2>2, <2>3
<1>10. ASSUME NEW k \in Lines \ {l} PROVE SameLine(k)
  <2>1. Carries(k) => line[k].owner \in Pages \ {q}
    BY <1>0, <1>2 DEF ViewInv, LineHasPage, Carries
  <2>. QED BY <1>7, <2>1 DEF SameLine, Carries
<1>11. LineIsNew(l)' /\ LineIsTrue(l)'
  <2>1. LineIsNew(l)'
    BY <1>5, <1>7 DEF LineIsNew
  <2>2. ASSUME Carries(l)' PROVE LineIsTrue(l)'
    <3>1. line[l].relayEnd = "open"
      BY <1>5, <1>7, <2>2 DEF Carries
    <3>2. "mixed" \notin spoilt => session = [NoSession EXCEPT !.publisher = l]
      BY <1>0, <3>1 DEF ViewInv, LineIsNew
    <3>3. "mixed" \notin spoilt => session.image = Nothing
      BY <3>2 DEF NoSession
    <3>4. AboutPage(ms, h)
      BY <1>3, <1>6 DEF AboutPage, Status
    <3>5. "mixed" \notin spoilt => CachedOfPage(session, ms, h)
      BY <1>3, <1>6, <3>3 DEF CachedOfPage
    <3>6. ShownOfPage(viewer, ms, h)
      BY <1>3, <1>6 DEF ShownOfPage
    <3>7. line'[l].up = ms /\ page'[line'[l].owner] = h
      BY <1>5, <1>7
    <3>8. /\ AboutPage(line'[l].up, page'[line'[l].owner])
          /\ "mixed" \notin spoilt' =>
               CachedOfPage(session', line'[l].up, page'[line'[l].owner])
          /\ viewer'.on /\ spoilt' = {} =>
               ShownOfPage(viewer', line'[l].up, page'[line'[l].owner])
      BY <1>0, <3>4, <3>5, <3>6, <3>7
    <3>. QED BY <3>8 DEF LineIsTrue
  <2>3. ~Carries(l)' => LineIsTrue(l)'
    BY DEF LineIsTrue
  <2>. QED BY <2>1, <2>2, <2>3
<1>. QED BY <1>0, <1>7, <1>8, <1>9, <1>10, <1>11, PageMoves

\* The "close" event at the page.
LEMMA PageCloseEventStep ==
  ASSUME ViewInv, NEW l \in Lines, PageCloseEvent(l)
  PROVE  ViewInv'
<1>. DEFINE p == line[l].owner
            x == Settled([line[l] EXCEPT !.pageEnd = "none"])
<1>0. /\ line[l].pageEnd # "none" /\ p \in Pages /\ line[l] \in LineSet
      /\ line' = [line EXCEPT ![l] = x]
      /\ UNCHANGED <<session, viewer, spoilt>> /\ mishaps' \in 0 .. MaxMishaps
  BY DEF PageCloseEvent, EndsAtPage, ViewInv, ViewTyped, LineHasPage
<1>1. /\ x \in LineSet /\ x.pageEnd = "none"
      /\ x.relayEnd = line[l].relayEnd /\ (x.relayEnd # "none" => x.stale = line[l].stale)
  <2>1. FreeLine \in LineSet /\ FreeLine.relayEnd = "none" /\ FreeLine.pageEnd = "none"
    BY EmptySeq DEF FreeLine, LineSet, UpSeqs
  <2>2. CASE line[l].relayEnd = "none"
    <3>1. x = FreeLine
      BY <1>0, <2>2 DEF Settled, LineSet
    <3>. QED BY <2>1, <2>2, <3>1
  <2>3. CASE line[l].relayEnd # "none"
    <3>1. x = [line[l] EXCEPT !.pageEnd = "none"]
      BY <1>0, <2>3 DEF Settled, LineSet
    <3>. QED BY <1>0, <3>1 DEF LineSet
  <2>. QED BY <2>2, <2>3
<1>. HIDE DEF x
<1>2. /\ line' \in [Lines -> LineSet]
      /\ line'[l] = x /\ \A k \in Lines \ {l} : line'[k] = line[k]
  BY <1>0, <1>1 DEF ViewInv, ViewTyped
<1>3. \A q \in Pages : page[q] \in PageSet /\ page[q].socket \in Lines \cup {NoLine} /\ PageHasLine(q)
  BY DEF ViewInv, ViewTyped, PageSet
<1>4. /\ page' \in [Pages -> PageSet]
      /\ \A q \in Pages :
           IF page[q].socket = l
           THEN page'[q].socket = NoLine /\ ~page'[q].shown /\ page'[q].on
           ELSE page'[q] = page[q]
  <2>1. PICK replaced \in CloseReasons(line[l]) :
          page' = IF page[p].socket # l THEN page
                  ELSE [page EXCEPT ![p] = [@ EXCEPT !.socket = NoLine, !.shown = FALSE,
                                                     !.timer = ~replaced, !.ousted = replaced]]
    BY DEF PageCloseEvent
  <2>2. replaced \in BOOLEAN
    BY DEF CloseReasons
  <2>3. \A q \in Pages : page[q].socket = l => q = p /\ page[q].on
    BY <1>3, ViewFacts DEF PageHasLine
  <2>. DEFINE y == [page[p] EXCEPT !.socket = NoLine, !.shown = FALSE,
                                   !.timer = ~replaced, !.ousted = replaced]
  <2>4. y \in PageSet /\ y.socket = NoLine /\ ~y.shown /\ y.on = page[p].on
    BY ZenonT(60), <1>0, <1>3, <2>2 DEF PageSet
  <2>5. CASE page[p].socket # l
    BY <2>1, <2>3, <2>5 DEF ViewInv, ViewTyped
  <2>6. CASE page[p].socket = l
    <3>1. page' = [page EXCEPT ![p] = y]
      BY <1>0, <2>1, <2>6 DEF ViewInv, ViewTyped
    <3>. HIDE DEF y, p
    <3>. QED BY <1>0, <2>3, <2>4, <2>6, <3>1 DEF ViewInv, ViewTyped
  <2>. QED BY <2>5, <2>6
<1>5. \A q \in Pages : PageHasLine(q)'
  <2>1. SUFFICES ASSUME NEW q \in Pages PROVE PageHasLine(q)'
    OBVIOUS
  <2>2. CASE page[q].socket = l
    BY <1>4, <2>2 DEF PageHasLine
  <2>3. CASE page[q].socket # l
    <3>1. page[q].socket # NoLine => line'[page[q].socket] = line[page[q].socket]
      BY <1>2, <1>3, <2>3
    <3>. QED BY <1>3, <1>4, <2>3, <3>1 DEF PageHasLine
  <2>. QED BY <2>2, <2>3
<1>6. LineIsNew(l)' /\ LineIsTrue(l)' /\ LineHasPage(l)'
  <2>1. LineHasPage(l)
    BY DEF ViewInv
  <2>. QED BY <1>0, <1>1, <1>2, <2>1 DEF LineIsNew, LineIsTrue, Carries, LineHasPage
<1>7. ASSUME NEW k \in Lines \ {l} PROVE LineHasPage(k)' /\ SameLine(k)
  <2>1. LineHasPage(k)
    BY DEF ViewInv
  <2>2. line[k].pageEnd \in {"connecting", "open"} =>
          line[k].owner \in Pages /\ page'[line[k].owner] = page[line[k].owner]
    BY <1>4, <2>1 DEF LineHasPage
  <2>. QED BY <1>0, <1>2, <2>1, <2>2 DEF LineHasPage, SameLine, Carries
<1>. QED BY <1>0, <1>2, <1>4, <1>5, <1>6, <1>7, PageMoves

-----------------------------------------------------------------------------
\* The relay takes the next message of the page: what is cached and what is shown stay true.
LEMMA Receive ==
  ASSUME session \in SessionSet, NEW v \in ViewerSet, NEW ms \in UpSeqs, ms # <<>>,
         NEW g \in PageSet, g.shown => g.streaming, AboutPage(ms, g)
  PROVE  /\ CachedOfPage(session, ms, g) => CachedOfPage(Kept(Head(ms)), Tail(ms), g)
         /\ ShownOfPage(v, ms, g) => ShownOfPage(Told(v, Head(ms)), Tail(ms), g)
<1>. DEFINE m == Head(ms)  rest == Tail(ms)  s == Kept(m)  w == Told(v, m)
<1>1. /\ m \in Messages
      /\ \A kind : Has(rest, kind) => Has(ms, kind)
      /\ \A kind : Has(ms, kind) => m[1] = kind \/ Has(rest, kind)
      /\ Has(ms, m[1])
      /\ m[1] = "stream.status" => m[2] = Status(g)
      /\ m[1] # "stream.status" => m[2] = g.tab
      /\ m[1] \in {"frame", "image"} => g.streaming
      /\ m[1] = "image" => \A kind : ~Has(rest, kind)
      /\ m[1] = "frame" => /\ \A kind : Has(rest, kind) => kind = "image"
                           /\ Has(rest, "image")
  BY TailOf
<1>. HIDE DEF m, rest
<1>2. g.tab \in Tabs /\ g.tab # Nothing /\ Nothing # "yes" /\ Nothing # "no"
  BY ViewFacts DEF PageSet
<1>3. CASE m[1] = "stream.status"
  <2>1. m = <<"stream.status", Status(g)>>
    BY <1>1, <1>3, MessageKinds
  <2>2. CASE g.streaming
    <3>1. Status(g) = "yes" /\ m = <<"stream.status", "yes">>
      BY <2>1, <2>2 DEF Status
    <3>2. s = [session EXCEPT !.stream = "yes"]
      BY <1>2, <3>1, KeptOf
    <3>3. /\ w.tab = v.tab /\ w.pending = v.pending /\ w.stream = "yes"
          /\ w.image = v.image /\ w.frame = v.frame
      BY <3>1, ToldOfStream
    <3>4. /\ s.stream = "yes" /\ s.tab = session.tab /\ s.image = session.image
          /\ s.frame = session.frame
      BY <3>2 DEF SessionSet
    <3>. HIDE DEF s, w
    <3>5. CachedOfPage(session, ms, g) => CachedOfPage(s, rest, g)
      BY <1>1, <1>3, <2>2, <3>1, <3>4 DEF CachedOfPage
    <3>6. ShownOfPage(v, ms, g) => ShownOfPage(w, rest, g)
      BY <1>1, <1>3, <2>2, <3>1, <3>3 DEF ShownOfPage
    <3>. QED BY <3>5, <3>6 DEF s, w, m, rest
  <2>3. CASE ~g.streaming
    <3>1. Status(g) = "no" /\ m = <<"stream.status", "no">> /\ ~g.shown
      BY <2>1, <2>3 DEF Status
    <3>2. s = [session EXCEPT !.stream = "no", !.frame = Nothing, !.image = Nothing]
      BY <1>2, <3>1, KeptOf
    <3>3. /\ w.tab = v.tab /\ w.pending = v.pending /\ w.stream = "no"
          /\ w.image = Nothing /\ w.frame = Nothing
      BY <3>1, ToldOfStream
    <3>4. s.stream = "no" /\ s.tab = session.tab /\ s.image = Nothing
      BY <3>2 DEF SessionSet
    <3>5. ~Has(rest, "image")
      <4>1. SUFFICES ASSUME Has(rest, "image") PROVE FALSE
        OBVIOUS
      <4>2. Has(ms, "image")
        BY <1>1, <4>1
      <4>. QED BY <2>3, <4>2 DEF AboutPage, Has
    <3>. HIDE DEF s, w
    <3>6. CachedOfPage(session, ms, g) => CachedOfPage(s, rest, g)
      BY <1>1, <1>3, <2>3, <3>1, <3>4, <3>5 DEF CachedOfPage
    <3>7. ShownOfPage(v, ms, g) => ShownOfPage(w, rest, g)
      BY <1>1, <1>3, <2>3, <3>1, <3>3, <3>5 DEF ShownOfPage
    <3>. QED BY <3>6, <3>7 DEF s, w, m, rest
  <2>. QED BY <2>2, <2>3
<1>4. CASE m[1] = "activeTab"
  <2>1. m = <<"activeTab", g.tab>>
    BY <1>1, <1>4, MessageKinds
  <2>2. s = [session EXCEPT !.tab = g.tab]
    BY <1>2, <2>1, KeptOf
  <2>3. /\ w.stream = v.stream /\ w.pending = v.pending /\ w.tab = g.tab
        /\ v.frame \in {Nothing, g.tab} => w.image = v.image /\ w.frame = v.frame
        /\ v.frame \notin {Nothing, g.tab} => w.image = Nothing /\ w.frame = Nothing
    BY <1>2, <2>1, ToldOfTab
  <2>4. /\ s.tab = g.tab /\ s.stream = session.stream /\ s.image = session.image
        /\ s.frame = session.frame
    BY <2>2 DEF SessionSet
  <2>. HIDE DEF s, w
  <2>5. CachedOfPage(session, ms, g) => CachedOfPage(s, rest, g)
    BY <1>1, <1>4, <2>4 DEF CachedOfPage
  <2>6. ShownOfPage(v, ms, g) => ShownOfPage(w, rest, g)
    BY <1>1, <1>4, <2>3 DEF ShownOfPage
  <2>. QED BY <2>5, <2>6 DEF s, w, m, rest
<1>5. CASE m[1] = "frame"
  <2>1. m = <<"frame", g.tab>>
    BY <1>1, <1>5, MessageKinds
  <2>2. s = [session EXCEPT !.frame = g.tab]
    BY <1>2, <2>1, KeptOf
  <2>3. /\ w.stream = v.stream /\ w.pending = g.tab /\ w.tab = v.tab
        /\ w.image = v.image /\ w.frame = v.frame
    BY <1>2, <2>1, ToldOfFrame
  <2>4. /\ s.tab = session.tab /\ s.stream = session.stream /\ s.image = session.image
        /\ s.frame = g.tab
    BY <2>2 DEF SessionSet
  <2>. HIDE DEF s, w
  <2>5. CachedOfPage(session, ms, g) => CachedOfPage(s, rest, g)
    BY <1>1, <1>5, <2>4 DEF CachedOfPage
  <2>6. ShownOfPage(v, ms, g) => ShownOfPage(w, rest, g)
    BY <1>1, <1>5, <2>3 DEF ShownOfPage
  <2>. QED BY <2>5, <2>6 DEF s, w, m, rest
<1>6. CASE m[1] = "image"
  <2>1. m = <<"image", g.tab>>
    BY <1>1, <1>6, MessageKinds
  <2>2. s = [session EXCEPT !.image = g.tab]
    BY <1>2, <2>1, KeptOf
  <2>3. /\ w.stream = v.stream /\ w.pending = Nothing /\ w.tab = v.tab
        /\ v.stream # "no" => w.image = g.tab /\ w.frame = v.pending
    BY <1>2, <2>1, ToldOfImage
  <2>4. /\ s.tab = session.tab /\ s.stream = session.stream /\ s.image = g.tab
        /\ s.frame = session.frame
    BY <2>2 DEF SessionSet
  <2>5. g.streaming /\ Status(g) = "yes"
    BY <1>1, <1>6 DEF Status
  <2>6. \A kind : Has(ms, kind) <=> kind = "image"
    BY <1>1, <1>6
  <2>. HIDE DEF s, w
  <2>7. CachedOfPage(session, ms, g) => CachedOfPage(s, rest, g)
    BY <1>1, <1>6, <2>4, <2>5, <2>6 DEF CachedOfPage
  <2>8. ShownOfPage(v, ms, g) => ShownOfPage(w, rest, g)
    BY <1>1, <1>6, <2>3, <2>5, <2>6 DEF ShownOfPage
  <2>. QED BY <2>7, <2>8 DEF s, w, m, rest
<1>7. m[1] \in {"stream.status", "activeTab", "frame", "image"}
  BY <1>1, MessageKinds
<1>. QED BY <1>3, <1>4, <1>5, <1>6, <1>7

\* What a viewer has that was sent what is cached.
LEMMA CatchUp ==
  ASSUME session \in SessionSet, NEW v \in ViewerSet, v.stream = Nothing, v.pending = Nothing,
         NEW w, w = CaughtUp(v)
  PROVE  /\ w \in ViewerSet /\ w.on = v.on
         /\ w.connected <=> session.publisher # NoLine
         /\ w.stream = session.stream
         /\ session.tab # Nothing => w.tab = session.tab
         /\ session.stream = "no" => w.image = Nothing
         /\ session.image # Nothing /\ session.stream # "no" =>
              w.image = session.image /\ w.frame = session.frame
         /\ w.pending \in {Nothing, session.frame}
         /\ session = NoSession => w.image = Nothing
<1>. DEFINE b == session.publisher # NoLine
            w1 == Told(v, <<"publisher.status", IF session.publisher = NoLine THEN "no" ELSE "yes">>)
            w2 == ToldCached(w1, "activeTab", session.tab)
            w3 == ToldCached(w2, "stream.status", session.stream)
            w4 == ToldCached(w3, "frame", session.frame)
            w5 == ToldCached(w4, "image", session.image)
<1>1. w = w5
  BY DEF CaughtUp
<1>2. /\ session.tab \in Tabs \cup {Nothing} /\ session.stream \in {"yes", "no", Nothing}
      /\ session.frame \in Tabs \cup {Nothing} /\ session.image \in Tabs \cup {Nothing}
      /\ Nothing \notin Tabs /\ Nothing # "yes" /\ Nothing # "no"
      /\ session = NoSession => /\ session.publisher = NoLine /\ session.tab = Nothing
                                /\ session.stream = Nothing /\ session.image = Nothing
  BY ViewFacts DEF SessionSet, NoSession
<1>3. /\ w1 \in ViewerSet /\ w1.on = v.on /\ w1.pending = Nothing /\ w1.connected = b
      /\ w1.stream = Nothing
      /\ session.publisher = NoLine => w1.image = Nothing
  <2>1. b \in BOOLEAN /\ w1 = Told(v, <<"publisher.status", IF b THEN "yes" ELSE "no">>)
    OBVIOUS
  <2>. HIDE DEF b, w1
  <2>2. /\ w1 \in ViewerSet /\ w1.on = v.on /\ w1.pending = v.pending /\ w1.connected = b
        /\ b => w1.stream = v.stream /\ w1.image = v.image /\ w1.frame = v.frame
        /\ ~b => w1.stream = Nothing /\ w1.image = Nothing /\ w1.frame = Nothing
    BY <2>1, ToldOfPublisher
  <2>. QED BY <2>2 DEF b
<1>. HIDE DEF w1
<1>4. /\ w2 \in ViewerSet /\ w2.on = v.on /\ w2.pending = Nothing /\ w2.connected = b
      /\ w2.stream = Nothing
      /\ session.tab # Nothing => w2.tab = session.tab
      /\ session.tab = Nothing => w2.image = w1.image
  <2>1. CASE session.tab = Nothing
    BY <1>3, <2>1 DEF ToldCached
  <2>2. CASE session.tab # Nothing
    <3>1. session.tab \in Tabs /\ w2 = Told(w1, <<"activeTab", session.tab>>)
      BY <1>2, <2>2 DEF ToldCached
    <3>. HIDE DEF w2
    <3>. QED BY <1>3, <2>2, <3>1, ToldOfTab
  <2>. QED BY <2>1, <2>2
<1>. HIDE DEF w2
<1>5. /\ w3 \in ViewerSet /\ w3.on = v.on /\ w3.pending = Nothing /\ w3.connected = b
      /\ w3.stream = session.stream /\ w3.tab = w2.tab
      /\ session.stream = "no" => w3.image = Nothing
      /\ session.stream = Nothing => w3.image = w2.image
  <2>1. CASE session.stream = Nothing
    BY <1>2, <1>4, <2>1 DEF ToldCached
  <2>2. CASE session.stream # Nothing
    <3>1. session.stream \in {"yes", "no"} /\ w3 = Told(w2, <<"stream.status", session.stream>>)
      BY <1>2, <2>2 DEF ToldCached
    <3>. HIDE DEF w3
    <3>. QED BY <1>4, <2>2, <3>1, ToldOfStream
  <2>. QED BY <2>1, <2>2
<1>. HIDE DEF w3
<1>6. /\ w4 \in ViewerSet /\ w4.on = v.on /\ w4.pending = session.frame /\ w4.connected = b
      /\ w4.stream = session.stream /\ w4.tab = w3.tab /\ w4.image = w3.image
  <2>1. CASE session.frame = Nothing
    BY <1>5, <2>1 DEF ToldCached
  <2>2. CASE session.frame # Nothing
    <3>1. session.frame \in Tabs /\ w4 = Told(w3, <<"frame", session.frame>>)
      BY <1>2, <2>2 DEF ToldCached
    <3>. HIDE DEF w4
    <3>. QED BY <1>5, <2>2, <3>1, ToldOfFrame
  <2>. QED BY <2>1, <2>2
<1>. HIDE DEF w4
<1>7. /\ w5 \in ViewerSet /\ w5.on = v.on /\ w5.connected = b
      /\ w5.stream = session.stream /\ w5.tab = w4.tab
      /\ w5.pending \in {Nothing, session.frame}
      /\ session.image = Nothing \/ session.stream = "no" => w5.image = w4.image
      /\ session.image # Nothing /\ session.stream # "no" =>
           w5.image = session.image /\ w5.frame = session.frame
  <2>1. CASE session.image = Nothing
    BY <1>6, <2>1 DEF ToldCached
  <2>2. CASE session.image # Nothing
    <3>1. session.image \in Tabs /\ w5 = Told(w4, <<"image", session.image>>)
      BY <1>2, <2>2 DEF ToldCached
    <3>. HIDE DEF w5
    <3>. QED BY <1>6, <2>2, <3>1, ToldOfImage
  <2>. QED BY <2>1, <2>2
<1>. HIDE DEF w5
<1>8. session = NoSession => w5.image = Nothing
  BY <1>2, <1>3, <1>4, <1>5, <1>6, <1>7
<1>. QED BY <1>1, <1>4, <1>5, <1>6, <1>7, <1>8

\* So what it shows is true of the page when what is cached is.
LEMMA CatchUpShows ==
  ASSUME session \in SessionSet, NEW v \in ViewerSet, v.stream = Nothing, v.pending = Nothing,
         NEW ms \in UpSeqs, NEW g \in PageSet, CachedOfPage(session, ms, g)
  PROVE  ShownOfPage(CaughtUp(v), ms, g)
<1>. DEFINE w == CaughtUp(v)
<1>1. /\ w.stream = session.stream
      /\ session.tab # Nothing => w.tab = session.tab
      /\ session.stream = "no" => w.image = Nothing
      /\ session.image # Nothing /\ session.stream # "no" =>
           w.image = session.image /\ w.frame = session.frame
      /\ w.pending \in {Nothing, session.frame}
  BY CatchUp
<1>. HIDE DEF w
<1>2. g.tab # Nothing
  BY ViewFacts DEF PageSet
<1>3. ~g.streaming => Status(g) = "no"
  BY DEF Status
<1>4. ShownOfPage(w, ms, g)
  BY <1>1, <1>2, <1>3 DEF CachedOfPage, ShownOfPage
<1>. QED BY <1>4 DEF w

\* While the page rests, its claims are about the relay's end, which has one line open.
LEMMA RelayMoves ==
  ASSUME ViewInv, UNCHANGED page, line' \in [Lines -> LineSet], session' \in SessionSet,
         viewer' \in ViewerSet, spoilt' \subseteq {"missed", "mixed"},
         mishaps' \in 0 .. MaxMishaps,
         \A k \in Lines :
           /\ line'[k].owner = line[k].owner \/ line[k].pageEnd = "none"
           /\ line'[k].pageEnd = line[k].pageEnd
           /\ line'[k].relayEnd = "open" => session'.publisher = k /\ ~line'[k].stale
           /\ line'[k].relayEnd = "asked" =>
                line[k].relayEnd = "asked" /\ line'[k].stale = line[k].stale,
         \A k \in Lines : LineIsNew(k)' /\ LineIsTrue(k)',
         RelayIsTrue'
  PROVE  ViewInv'
<1>1. ViewTyped'
  BY DEF ViewInv, ViewTyped
<1>2. \A p \in Pages : PageHasLine(p)'
  <2>1. SUFFICES ASSUME NEW p \in Pages PROVE PageHasLine(p)'
    OBVIOUS
  <2>2. PageHasLine(p) /\ page[p].socket \in Lines \cup {NoLine}
    BY DEF ViewInv, ViewTyped, PageSet
  <2>3. page[p].socket # NoLine => /\ line'[page[p].socket].owner = p
                                   /\ line'[page[p].socket].pageEnd # "none"
    BY <2>2 DEF PageHasLine
  <2>. QED BY <2>2, <2>3 DEF PageHasLine
<1>3. ASSUME NEW k \in Lines PROVE LineHasPage(k)'
  <2>1. LineHasPage(k)
    BY DEF ViewInv
  <2>. QED BY <2>1 DEF LineHasPage
<1>. QED BY <1>1, <1>2, <1>3 DEF ViewInv

\* broadcastText() and broadcastBinary(): the viewer is told, or has missed it.
LEMMA BroadcastTells ==
  ASSUME ViewTyped, NEW m, NEW history \in SUBSET {"missed", "mixed"}, Broadcast(m, history)
  PROVE  /\ mishaps' \in 0 .. MaxMishaps
         /\ spoilt' \subseteq {"missed", "mixed"} /\ history \subseteq spoilt'
         /\ \/ viewer.on /\ viewer' = Told(viewer, m) /\ spoilt' = history
            \/ UNCHANGED viewer /\ (viewer.on => "missed" \in spoilt')
<1>1. mishaps \in 0 .. MaxMishaps /\ (Mishap => mishaps' \in 0 .. MaxMishaps)
  BY ViewFacts DEF ViewTyped
<1>2. CASE /\ viewer' = IF viewer.on THEN Told(viewer, m) ELSE viewer
           /\ spoilt' = history
           /\ UNCHANGED mishaps
  BY <1>1, <1>2
<1>3. CASE viewer.on /\ Mishap /\ spoilt' = history \cup {"missed"} /\ UNCHANGED viewer
  BY SMTT(30), <1>1, <1>3
<1>. QED BY <1>2, <1>3 DEF Broadcast

\* attachPublisher(): nothing is cached of the page, which has not sent anything yet.
LEMMA AttachPublisherStep ==
  ASSUME ViewInv, NEW l \in Lines, AttachPublisher(l)
  PROVE  ViewInv'
<1>. DEFINE previous == session.publisher
            X(k) == CASE k = l -> [line[k] EXCEPT !.relayEnd = "open"]
                      [] k = previous /\ k # l ->
                           [line[k] EXCEPT !.relayEnd = "closing",
                                           !.replaced = @ \/ line[k].relayEnd = "open"]
                      [] OTHER -> line[k]
<1>1. /\ line[l].relayEnd = "asked" /\ UNCHANGED page
      /\ line' = [k \in Lines |-> X(k)]
      /\ session' = [NoSession EXCEPT !.publisher = l]
      /\ Broadcast(<<"publisher.status", "yes">>, spoilt \ {"mixed"})
  BY DEF AttachPublisher
<1>2. /\ line \in [Lines -> LineSet] /\ viewer \in ViewerSet /\ l # NoLine
      /\ spoilt \subseteq {"missed", "mixed"}
  BY ViewFacts DEF ViewInv, ViewTyped
<1>3. session' \in SessionSet /\ session'.publisher = l
  BY <1>1 DEF SessionSet, NoSession
<1>4. ASSUME NEW k \in Lines
      PROVE  /\ line'[k] \in LineSet
             /\ line'[k].owner = line[k].owner /\ line'[k].pageEnd = line[k].pageEnd
             /\ line'[k].up = line[k].up /\ line'[k].stale = line[k].stale
             /\ line'[k].relayEnd = "open" => k = l
             /\ line'[k].relayEnd = "asked" => line[k].relayEnd = "asked"
  <2>1. line[k] \in LineSet /\ LineHasPage(k) /\ line'[k] = X(k)
    BY <1>1, <1>2 DEF ViewInv
  <2>2. CASE k = l
    <3>1. line'[k] = [line[k] EXCEPT !.relayEnd = "open"]
      BY <2>1, <2>2
    <3>. QED BY <2>1, <2>2, <3>1 DEF LineSet
  <2>3. CASE k # l /\ k = previous
    <3>. DEFINE b == line[k].replaced \/ line[k].relayEnd = "open"
    <3>1. line'[k] = [line[k] EXCEPT !.relayEnd = "closing", !.replaced = b]
      BY <2>1, <2>3
    <3>2. b \in BOOLEAN
      BY <2>1 DEF LineSet
    <3>. HIDE DEF b
    <3>. QED BY <2>1, <3>1, <3>2 DEF LineSet
  <2>4. CASE k # l /\ k # previous
    <3>1. line'[k] = line[k]
      BY <2>1, <2>4
    <3>. QED BY <2>1, <2>4, <3>1 DEF LineHasPage
  <2>. QED BY <2>2, <2>3, <2>4
<1>5. line' \in [Lines -> LineSet]
  <2>. HIDE DEF X
  <2>1. \A k \in Lines : X(k) \in LineSet
    BY <1>1, <1>4
  <2>. QED BY <1>1, <2>1
<1>6. ~line[l].stale /\ line[l].pageEnd # "open"
  BY <1>1 DEF ViewInv, LineHasPage
<1>7. /\ mishaps' \in 0 .. MaxMishaps /\ spoilt' \subseteq {"missed", "mixed"}
      /\ \/ /\ viewer.on /\ viewer' = Told(viewer, <<"publisher.status", "yes">>)
            /\ spoilt' = spoilt \ {"mixed"}
         \/ UNCHANGED viewer /\ (viewer.on => "missed" \in spoilt')
  <2>1. ViewTyped /\ spoilt \ {"mixed"} \in SUBSET {"missed", "mixed"}
    BY <1>2 DEF ViewInv
  <2>. QED BY <1>1, <2>1, BroadcastTells
<1>8. /\ viewer' \in ViewerSet /\ viewer'.on = viewer.on
      /\ viewer'.stream = viewer.stream /\ viewer'.pending = viewer.pending
      /\ viewer'.on /\ spoilt' = {} => viewer'.connected
  <2>1. CASE /\ viewer.on /\ viewer' = Told(viewer, <<"publisher.status", "yes">>)
             /\ spoilt' = spoilt \ {"mixed"}
    <3>1. viewer' = Told(viewer, <<"publisher.status", IF TRUE THEN "yes" ELSE "no">>)
      BY <2>1
    <3>. QED BY <1>2, <2>1, <3>1, ToldOfPublisher
  <2>2. CASE UNCHANGED viewer /\ (viewer.on => "missed" \in spoilt')
    BY <1>2, <2>2
  <2>. QED BY <1>7, <2>1, <2>2
<1>9. ASSUME NEW k \in Lines PROVE LineIsNew(k)' /\ LineIsTrue(k)'
  <2>1. LineIsNew(k)
    BY DEF ViewInv
  <2>2. LineIsNew(k)'
    BY <1>1, <1>4, <2>1 DEF LineIsNew
  <2>3. ~Carries(k)'
    BY <1>4, <1>6 DEF Carries
  <2>. QED BY <2>2, <2>3 DEF LineIsTrue
<1>10. RelayIsTrue'
  BY <1>2, <1>3, <1>8 DEF ViewInv, RelayIsTrue
<1>. QED BY <1>1, <1>3, <1>4, <1>5, <1>6, <1>7, <1>8, <1>9, <1>10, RelayMoves

\* handlePublisherText() and handlePublisherFrame()
LEMMA RelayReceivesStep ==
  ASSUME ViewInv, NEW l \in Lines, RelayReceives(l)
  PROVE  ViewInv'
<1>. DEFINE ms == line[l].up  m == Head(ms)  rest == Tail(ms)
            x == [line[l] EXCEPT !.up = rest]
<1>1. /\ line \in [Lines -> LineSet] /\ line[l] \in LineSet /\ ms \in UpSeqs /\ ms # <<>>
      /\ viewer \in ViewerSet /\ session \in SessionSet /\ spoilt \subseteq {"missed", "mixed"}
      /\ mishaps \in 0 .. MaxMishaps /\ ViewTyped
  BY DEF RelayReceives, ViewInv, ViewTyped, LineSet
<1>2. m \in Messages /\ rest \in UpSeqs
  <2>. HIDE DEF ms
  <2>. QED BY <1>1, HeadTailProperties DEF UpSeqs
<1>3. /\ x \in LineSet /\ x.owner = line[l].owner /\ x.pageEnd = line[l].pageEnd
      /\ x.relayEnd = line[l].relayEnd /\ x.stale = line[l].stale /\ x.cut = line[l].cut
      /\ x.up = rest
  <2>1. rest \in UpSeqs
    BY <1>2
  <2>. HIDE DEF rest, ms
  <2>2. line[l] \in LineSet
    BY <1>1
  <2>. QED BY <2>1, <2>2 DEF LineSet
<1>4. line[l].pageEnd # "connecting"
  BY <1>1 DEF ViewInv, LineIsNew
<1>5. CASE /\ m[1] = "image" /\ line[l].relayEnd = "open" /\ Mishap
           /\ line' = [line EXCEPT ![l].up = Tail(@), ![l].relayEnd = "closing"]
           /\ UNCHANGED <<session, viewer, spoilt>>
  <2>. DEFINE z == [line[l] EXCEPT !.up = rest, !.relayEnd = "closing"]
  <2>1. line' = [line EXCEPT ![l] = z] /\ UNCHANGED <<page, session, viewer, spoilt>>
    BY <1>1, <1>5 DEF RelayReceives
  <2>2. /\ z \in LineSet /\ z.owner = line[l].owner /\ z.pageEnd = line[l].pageEnd
        /\ z.relayEnd = "closing"
    <3>1. rest \in UpSeqs /\ line[l] \in LineSet
      BY <1>1, <1>2
    <3>. HIDE DEF rest, ms
    <3>. QED BY <3>1 DEF LineSet
  <2>. HIDE DEF z
  <2>3. mishaps' \in 0 .. MaxMishaps
    BY <1>1, <1>5, ViewFacts
  <2>. QED BY <1>4, <2>1, <2>2, <2>3, EndKeeps
<1>6. CASE /\ line' = [line EXCEPT ![l].up = Tail(@)]
           /\ IF line[l].stale THEN UNCHANGED <<session, viewer, spoilt, mishaps>>
              ELSE /\ session' = Kept(m)
                   /\ Broadcast(m, spoilt \cup IF session.publisher = l THEN {} ELSE {"mixed"})
  <2>1. line' = [line EXCEPT ![l] = x] /\ UNCHANGED page
    BY <1>1, <1>6 DEF RelayReceives
  <2>. HIDE DEF x, ms, m, rest
  <2>2. CASE line[l].stale
    <3>1. line[l].relayEnd # "open"
      BY <2>2 DEF ViewInv, LineHasPage
    <3>2. UNCHANGED <<page, session, viewer, spoilt>> /\ mishaps' \in 0 .. MaxMishaps
      BY <1>1, <1>6, <2>1, <2>2
    <3>. QED BY <1>3, <1>4, <2>1, <3>1, <3>2, EndKeeps
  <2>3. CASE ~line[l].stale
    <3>. DEFINE history == spoilt \cup IF session.publisher = l THEN {} ELSE {"mixed"}
    <3>1. session' = Kept(m) /\ Broadcast(m, history)
      BY <1>6, <2>3
    <3>2. session' \in SessionSet /\ session'.publisher = session.publisher
      BY <1>1, <1>2, <3>1, KeptTypes
    <3>3. /\ mishaps' \in 0 .. MaxMishaps
          /\ spoilt' \subseteq {"missed", "mixed"} /\ history \subseteq spoilt'
          /\ \/ viewer.on /\ viewer' = Told(viewer, m) /\ spoilt' = history
             \/ UNCHANGED viewer /\ (viewer.on => "missed" \in spoilt')
      <4>1. history \in SUBSET {"missed", "mixed"}
        BY <1>1
      <4>. HIDE DEF history
      <4>. QED BY <1>1, <3>1, <4>1, BroadcastTells
    <3>4. spoilt \subseteq spoilt' /\ (session.publisher # l => "mixed" \in spoilt')
      BY <3>3
    <3>5. /\ viewer' \in ViewerSet /\ viewer'.on = viewer.on
          /\ viewer'.connected = viewer.connected
          /\ viewer.on /\ spoilt' = {} => viewer' = Told(viewer, m)
          /\ ~viewer.on => UNCHANGED viewer
      BY <1>1, <1>2, <3>3, ToldTypes
    <3>6. /\ line'[l] = x /\ \A k \in Lines \ {l} : line'[k] = line[k]
          /\ line' \in [Lines -> LineSet]
      BY <1>1, <1>3, <2>1
    <3>. HIDE DEF history
    <3>7. ASSUME NEW k \in Lines, k # l PROVE LineIsNew(k)' /\ LineIsTrue(k)'
      <4>1. LineIsNew(k) /\ LineIsTrue(k)
            /\ (line[k].relayEnd = "open" => session.publisher = k)
        BY DEF ViewInv, LineHasPage
      <4>2. line'[k] = line[k] /\ (line[k].relayEnd = "open" => "mixed" \in spoilt')
        BY <3>4, <3>6, <3>7, <4>1
      <4>3. LineIsNew(k)'
        BY <4>1, <4>2 DEF LineIsNew
      <4>4. LineIsTrue(k)'
        <5>1. Carries(k)' => Carries(k) /\ "mixed" \in spoilt' /\ spoilt' # {}
          BY <4>2 DEF Carries
        <5>. QED BY <2>1, <4>1, <4>2, <5>1 DEF LineIsTrue
      <4>. QED BY <4>3, <4>4
    <3>8. ASSUME NEW k \in Lines, k = l PROVE LineIsNew(k)' /\ LineIsTrue(k)'
      <4>1. LineIsNew(k)'
        BY <1>3, <1>4, <3>6, <3>8 DEF LineIsNew
      <4>2. ASSUME Carries(k)' PROVE LineIsTrue(k)'
        <5>. DEFINE g == page[line[l].owner]
        <5>1. Carries(l) /\ session.publisher = l /\ line[l].owner \in Pages
          BY <1>3, <3>6, <3>8, <4>2 DEF Carries, ViewInv, LineHasPage
        <5>2. g \in PageSet /\ (g.shown => g.streaming)
          BY <5>1 DEF ViewInv, ViewTyped, PageHasLine
        <5>3. /\ AboutPage(ms, g)
              /\ "mixed" \notin spoilt => CachedOfPage(session, ms, g)
              /\ viewer.on /\ spoilt = {} => ShownOfPage(viewer, ms, g)
          BY <5>1 DEF ViewInv, LineIsTrue, ms
        <5>4. AboutPage(rest, g)
          BY <1>1, <5>2, <5>3, TailOf DEF rest
        <5>5. /\ CachedOfPage(session, ms, g) => CachedOfPage(Kept(m), rest, g)
              /\ ShownOfPage(viewer, ms, g) => ShownOfPage(Told(viewer, m), rest, g)
          BY <1>1, <5>2, <5>3, Receive DEF m, rest
        <5>6. line'[k].up = rest /\ page'[line'[k].owner] = g
          BY <1>3, <2>1, <3>6, <3>8
        <5>. HIDE DEF g
        <5>7. /\ AboutPage(line'[k].up, page'[line'[k].owner])
              /\ "mixed" \notin spoilt' =>
                   CachedOfPage(session', line'[k].up, page'[line'[k].owner])
              /\ viewer'.on /\ spoilt' = {} =>
                   ShownOfPage(viewer', line'[k].up, page'[line'[k].owner])
          BY <3>1, <3>4, <3>5, <5>3, <5>4, <5>5, <5>6
        <5>. QED BY <5>7 DEF LineIsTrue
      <4>3. ~Carries(k)' => LineIsTrue(k)'
        BY DEF LineIsTrue
      <4>. QED BY <4>1, <4>2, <4>3
    <3>9. RelayIsTrue'
      <4>1. RelayIsTrue /\ l # NoLine
        BY ViewFacts DEF ViewInv
      <4>. QED BY <3>2, <3>4, <3>5, <4>1 DEF RelayIsTrue
    <3>10. \A k \in Lines :
           /\ line'[k].owner = line[k].owner /\ line'[k].pageEnd = line[k].pageEnd
           /\ line'[k].relayEnd = "open" => session'.publisher = k /\ ~line'[k].stale
           /\ line'[k].relayEnd = "asked" =>
                line[k].relayEnd = "asked" /\ line'[k].stale = line[k].stale
      BY <1>3, <3>2, <3>6 DEF ViewInv, LineHasPage
    <3>. QED BY <2>1, <3>2, <3>3, <3>5, <3>6, <3>7, <3>8, <3>9, <3>10, RelayMoves
  <2>. QED BY <2>2, <2>3
<1>. QED BY <1>5, <1>6 DEF RelayReceives

\* deleteIfUnused() takes nothing from the lines.
LEMMA DeletedKeeps ==
  ASSUME line \in [Lines -> LineSet]
  PROVE  /\ Deleted \in [Lines -> LineSet]
         /\ \A k \in Lines :
              /\ Deleted[k].owner = line[k].owner /\ Deleted[k].pageEnd = line[k].pageEnd
              /\ Deleted[k].relayEnd = line[k].relayEnd /\ Deleted[k].up = line[k].up
              /\ line[k].relayEnd = "asked" => Deleted[k].stale = line[k].stale
<1>1. ASSUME NEW k \in Lines
      PROVE  /\ Deleted[k] \in LineSet
             /\ Deleted[k].owner = line[k].owner /\ Deleted[k].pageEnd = line[k].pageEnd
             /\ Deleted[k].relayEnd = line[k].relayEnd /\ Deleted[k].up = line[k].up
             /\ line[k].relayEnd = "asked" => Deleted[k].stale = line[k].stale
  <2>. DEFINE x == [line[k] EXCEPT !.stale = TRUE]
  <2>1. Deleted[k] = IF line[k].relayEnd \in {"open", "closing"} THEN x ELSE line[k]
    BY DEF Deleted
  <2>2. /\ x \in LineSet /\ x.owner = line[k].owner /\ x.pageEnd = line[k].pageEnd
        /\ x.relayEnd = line[k].relayEnd /\ x.up = line[k].up
    BY DEF LineSet
  <2>. HIDE DEF x
  <2>. QED BY <2>1, <2>2
<1>2. Deleted \in [Lines -> LineSet]
  <2>. DEFINE f(k) == IF line[k].relayEnd \in {"open", "closing"}
                      THEN [line[k] EXCEPT !.stale = TRUE] ELSE line[k]
  <2>1. Deleted = [k \in Lines |-> f(k)]
    BY DEF Deleted
  <2>2. \A k \in Lines : Deleted[k] = f(k)
    BY <2>1
  <2>. HIDE DEF f
  <2>. QED BY <1>1, <2>1, <2>2
<1>. QED BY <1>1, <1>2

\* The "close" event of a publisher at the relay.
LEMMA RelayCloseEventStep ==
  ASSUME ViewInv, NEW l \in Lines, RelayCloseEvent(l)
  PROVE  ViewInv'
<1>. DEFINE ended(lines) ==
       [lines EXCEPT ![l] = Settled([@ EXCEPT !.relayEnd = "none", !.up = <<>>])]
<1>1. /\ line \in [Lines -> LineSet] /\ line[l] \in LineSet
      /\ viewer \in ViewerSet /\ session \in SessionSet /\ spoilt \subseteq {"missed", "mixed"}
      /\ mishaps \in 0 .. MaxMishaps /\ ViewTyped /\ UNCHANGED page
      /\ LineIsNew(l) /\ LineHasPage(l)
  BY DEF RelayCloseEvent, ViewInv, ViewTyped
<1>2. FreeLine \in LineSet /\ <<>> \in UpSeqs
  BY EmptySeq DEF FreeLine, LineSet, UpSeqs
\* What it is afterwards, whatever the session it was of.
<1>3. ASSUME NEW y \in LineSet, y.owner = line[l].owner, y.pageEnd = line[l].pageEnd,
             NEW x, x = Settled([y EXCEPT !.relayEnd = "none", !.up = <<>>])
      PROVE  /\ x \in LineSet /\ x.relayEnd = "none" /\ x.up = <<>>
             /\ x.pageEnd = line[l].pageEnd
             /\ x.owner = line[l].owner \/ (x = FreeLine /\ line[l].pageEnd = "none")
  <2>. DEFINE z == [y EXCEPT !.relayEnd = "none", !.up = <<>>]
  <2>1. /\ z \in LineSet /\ z.relayEnd = "none" /\ z.up = <<>> /\ z.pageEnd = line[l].pageEnd
        /\ z.owner = line[l].owner
    BY <1>2, <1>3 DEF LineSet
  <2>2. x = Settled(z)
    BY <1>3
  <2>. HIDE DEF z
  <2>3. CASE line[l].pageEnd = "none"
    <3>1. x = FreeLine
      BY <2>1, <2>2, <2>3 DEF Settled
    <3>. QED BY <1>2, <2>3, <3>1 DEF FreeLine
  <2>4. CASE line[l].pageEnd # "none"
    <3>1. x = z
      BY <2>1, <2>2, <2>4 DEF Settled
    <3>. QED BY <2>1, <3>1
  <2>. QED BY <2>3, <2>4
<1>4. CASE ~ (session.publisher = l /\ ~line[l].stale)
  <2>. DEFINE x == Settled([line[l] EXCEPT !.relayEnd = "none", !.up = <<>>])
  <2>1. line' = [line EXCEPT ![l] = x] /\ UNCHANGED <<session, viewer, spoilt, mishaps>>
    BY <1>1, <1>4 DEF RelayCloseEvent
  <2>2. /\ x \in LineSet /\ x.relayEnd = "none" /\ x.up = <<>>
        /\ x.pageEnd = line[l].pageEnd
        /\ x.owner = line[l].owner \/ (x = FreeLine /\ line[l].pageEnd = "none")
    BY <1>1, <1>3
  <2>. HIDE DEF x
  <2>. QED BY <1>1, <2>1, <2>2, EndKeeps
<1>5. CASE session.publisher = l /\ ~line[l].stale
  <2>. DEFINE lines == IF viewer.on THEN line ELSE Deleted
              x == Settled([lines[l] EXCEPT !.relayEnd = "none", !.up = <<>>])
  <2>1. /\ session' = NoSession /\ line' = ended(lines)
        /\ Broadcast(<<"publisher.status", "no">>, spoilt)
    BY <1>5 DEF RelayCloseEvent
  <2>2. /\ lines \in [Lines -> LineSet]
        /\ \A k \in Lines :
             /\ lines[k].owner = line[k].owner /\ lines[k].pageEnd = line[k].pageEnd
             /\ lines[k].relayEnd = line[k].relayEnd /\ lines[k].up = line[k].up
             /\ line[k].relayEnd = "asked" => lines[k].stale = line[k].stale
    BY <1>1, DeletedKeeps
  <2>3. line' = [lines EXCEPT ![l] = x]
    BY <2>1
  <2>. HIDE DEF lines
  <2>4. /\ x \in LineSet /\ x.relayEnd = "none" /\ x.up = <<>>
        /\ x.pageEnd = line[l].pageEnd
        /\ x.owner = line[l].owner \/ (x = FreeLine /\ line[l].pageEnd = "none")
    <3>1. lines[l] \in LineSet /\ lines[l].owner = line[l].owner /\ lines[l].pageEnd = line[l].pageEnd
      BY <2>2
    <3>. QED BY <1>3, <3>1
  <2>. HIDE DEF x
  <2>5. /\ line' \in [Lines -> LineSet] /\ line'[l] = x
        /\ \A k \in Lines \ {l} : line'[k] = lines[k]
    BY <2>2, <2>3, <2>4
  <2>6. ASSUME NEW k \in Lines
        PROVE  /\ line'[k].owner = line[k].owner \/ line[k].pageEnd = "none"
               /\ line'[k].pageEnd = line[k].pageEnd
               /\ line'[k].relayEnd # "open"
               /\ line'[k].relayEnd = "asked" =>
                    line[k].relayEnd = "asked" /\ line'[k].stale = line[k].stale
               /\ line'[k].up = line[k].up \/ line'[k].up = <<>>
    <3>1. CASE k = l
      BY <2>4, <2>5, <3>1
    <3>2. CASE k # l
      <4>1. line[k].relayEnd # "open"
        BY <1>5, <3>2 DEF ViewInv, LineHasPage
      <4>. QED BY <2>2, <2>5, <3>2, <4>1
    <3>. QED BY <3>1, <3>2
  <2>7. /\ mishaps' \in 0 .. MaxMishaps /\ spoilt' \subseteq {"missed", "mixed"}
        /\ \/ viewer.on /\ viewer' = Told(viewer, <<"publisher.status", "no">>) /\ spoilt' = spoilt
           \/ UNCHANGED viewer /\ (viewer.on => "missed" \in spoilt')
    <3>1. spoilt \in SUBSET {"missed", "mixed"}
      BY <1>1
    <3>. QED BY <1>1, <2>1, <3>1, BroadcastTells
  <2>8. /\ viewer' \in ViewerSet /\ viewer'.on = viewer.on
        /\ viewer'.on /\ spoilt' = {} =>
             ~viewer'.connected /\ viewer'.stream = Nothing /\ viewer'.image = Nothing
        /\ ~viewer.on => UNCHANGED viewer
    <3>1. CASE viewer.on /\ viewer' = Told(viewer, <<"publisher.status", "no">>)
      <4>1. viewer' = Told(viewer, <<"publisher.status", IF FALSE THEN "yes" ELSE "no">>)
        BY <3>1
      <4>. QED BY ZenonT(60), <1>1, <3>1, <4>1, ToldOfPublisher
    <3>2. CASE UNCHANGED viewer /\ (viewer.on => "missed" \in spoilt')
      BY <1>1, <3>2
    <3>. QED BY <2>7, <3>1, <3>2
  <2>9. session' \in SessionSet /\ session'.publisher = NoLine
    BY <2>1 DEF NoSession, SessionSet
  <2>10. RelayIsTrue'
    BY <2>1, <2>8, <2>9 DEF ViewInv, RelayIsTrue
  <2>11. ASSUME NEW k \in Lines PROVE LineIsNew(k)' /\ LineIsTrue(k)'
    <3>1. LineIsNew(k)
      BY DEF ViewInv
    <3>2. LineIsNew(k)'
      BY <2>6, <3>1 DEF LineIsNew
    <3>3. ~Carries(k)'
      BY <2>6 DEF Carries
    <3>. QED BY <3>2, <3>3 DEF LineIsTrue
  <2>. QED BY <1>1, <2>5, <2>6, <2>7, <2>8, <2>9, <2>10, <2>11, RelayMoves
<1>. QED BY <1>4, <1>5

\* attachSubscriber()
LEMMA AttachSubscriberStep ==
  ASSUME ViewInv, AttachSubscriber
  PROVE  ViewInv'
<1>. DEFINE v == [viewer EXCEPT !.on = TRUE]
<1>1. /\ UNCHANGED <<page, line, session, mishaps>> /\ viewer' = CaughtUp(v)
      /\ spoilt' = spoilt \ {"missed"} /\ ~viewer.on
      /\ line \in [Lines -> LineSet] /\ session \in SessionSet /\ viewer \in ViewerSet
      /\ spoilt \subseteq {"missed", "mixed"} /\ mishaps \in 0 .. MaxMishaps
      /\ viewer.stream = Nothing /\ viewer.pending = Nothing
  BY DEF AttachSubscriber, ViewInv, ViewTyped, RelayIsTrue
<1>2. v \in ViewerSet /\ v.stream = Nothing /\ v.pending = Nothing /\ v.on
  BY <1>1 DEF ViewerSet
<1>. HIDE DEF v
<1>3. /\ viewer' \in ViewerSet /\ viewer'.on
      /\ viewer'.connected <=> session.publisher # NoLine
      /\ viewer'.stream = session.stream
      /\ session = NoSession => viewer'.image = Nothing
  BY <1>1, <1>2, CatchUp
<1>4. "mixed" \in spoilt' <=> "mixed" \in spoilt
  BY <1>1
<1>5. RelayIsTrue'
  <2>1. session.publisher = NoLine /\ spoilt' = {} => session = NoSession
    BY <1>4 DEF ViewInv, RelayIsTrue
  <2>. QED BY <1>1, <1>3, <1>4, <2>1 DEF ViewInv, RelayIsTrue, NoSession
<1>6. ASSUME NEW k \in Lines PROVE LineIsNew(k)' /\ LineIsTrue(k)'
  <2>1. LineIsNew(k) /\ LineIsTrue(k) /\ line[k].up \in UpSeqs
    BY <1>1 DEF ViewInv, LineSet
  <2>2. LineIsNew(k)'
    BY <1>1, <1>4, <2>1 DEF LineIsNew
  <2>3. ASSUME Carries(k)' PROVE LineIsTrue(k)'
    <3>. DEFINE g == page[line[k].owner]
    <3>1. Carries(k) /\ line[k].owner \in Pages
      BY <1>1, <2>3 DEF Carries, ViewInv, LineHasPage
    <3>2. g \in PageSet
      BY <3>1 DEF ViewInv, ViewTyped
    <3>3. AboutPage(line[k].up, g) /\ ("mixed" \notin spoilt => CachedOfPage(session, line[k].up, g))
      BY <2>1, <3>1 DEF LineIsTrue
    <3>4. "mixed" \notin spoilt => ShownOfPage(viewer', line[k].up, g)
      BY <1>1, <1>2, <2>1, <3>2, <3>3, CatchUpShows
    <3>5. page'[line'[k].owner] = g /\ line'[k].up = line[k].up
      BY <1>1
    <3>. HIDE DEF g
    <3>6. /\ AboutPage(line'[k].up, page'[line'[k].owner])
          /\ "mixed" \notin spoilt' =>
               CachedOfPage(session', line'[k].up, page'[line'[k].owner])
          /\ viewer'.on /\ spoilt' = {} =>
               ShownOfPage(viewer', line'[k].up, page'[line'[k].owner])
      BY <1>1, <1>4, <3>3, <3>4, <3>5
    <3>. QED BY <3>6 DEF LineIsTrue
  <2>4. ~Carries(k)' => LineIsTrue(k)'
    BY DEF LineIsTrue
  <2>. QED BY <2>2, <2>3, <2>4
<1>7. \A k \in Lines : line'[k].relayEnd = "open" => session'.publisher = k /\ ~line'[k].stale
  BY <1>1 DEF ViewInv, LineHasPage
<1>8. spoilt' \subseteq {"missed", "mixed"}
  BY <1>1
<1>. QED BY <1>1, <1>3, <1>5, <1>6, <1>7, <1>8, RelayMoves

\* The viewer leaves, and the session with it if nobody publishes.
LEMMA SubscriberLeavesStep ==
  ASSUME ViewInv, SubscriberLeaves
  PROVE  ViewInv'
<1>. DEFINE w == [viewer EXCEPT !.on = FALSE, !.connected = FALSE, !.stream = Nothing,
                                !.pending = Nothing]
<1>1. /\ UNCHANGED <<page, spoilt>> /\ viewer' = w /\ viewer \in ViewerSet
      /\ line \in [Lines -> LineSet] /\ session \in SessionSet
      /\ spoilt \subseteq {"missed", "mixed"} /\ mishaps' \in 0 .. MaxMishaps
      /\ IF session.publisher = NoLine THEN session' = NoSession /\ line' = Deleted
         ELSE UNCHANGED <<session, line>>
  BY ViewFacts DEF SubscriberLeaves, ViewInv, ViewTyped
<1>2. w \in ViewerSet /\ ~w.on /\ w.stream = Nothing /\ w.pending = Nothing
  BY <1>1 DEF ViewerSet
<1>. HIDE DEF w
<1>3. /\ session' \in SessionSet /\ session'.publisher = session.publisher
      /\ session.publisher # NoLine => session' = session
      /\ session'.publisher = NoLine => session' = NoSession
  BY <1>1 DEF SessionSet, NoSession
<1>4. /\ line' \in [Lines -> LineSet]
      /\ \A k \in Lines :
           /\ line'[k].owner = line[k].owner /\ line'[k].pageEnd = line[k].pageEnd
           /\ line'[k].relayEnd = line[k].relayEnd /\ line'[k].up = line[k].up
           /\ line[k].relayEnd = "asked" => line'[k].stale = line[k].stale
           /\ session.publisher # NoLine => line'[k] = line[k]
  BY <1>1, DeletedKeeps
<1>5. RelayIsTrue'
  BY <1>1, <1>2, <1>3 DEF ViewInv, RelayIsTrue
<1>6. ASSUME NEW k \in Lines
      PROVE  /\ LineIsNew(k)' /\ LineIsTrue(k)'
             /\ line'[k].relayEnd = "open" => session'.publisher = k /\ ~line'[k].stale
  <2>1. LineIsNew(k) /\ LineIsTrue(k) /\ LineHasPage(k)
    BY DEF ViewInv
  <2>2. line[k].relayEnd = "open" => session.publisher # NoLine /\ line'[k] = line[k]
    BY <1>4, <2>1, ViewFacts DEF LineHasPage
  <2>3. LineIsNew(k)'
    BY <1>1, <1>3, <1>4, <2>1, <2>2 DEF LineIsNew
  <2>4. LineIsTrue(k)'
    BY <1>1, <1>2, <1>3, <1>4, <2>1, <2>2 DEF LineIsTrue, Carries
  <2>. QED BY <1>3, <1>4, <2>1, <2>2, <2>3, <2>4 DEF LineHasPage
<1>. QED BY <1>1, <1>2, <1>3, <1>4, <1>5, <1>6, RelayMoves

-----------------------------------------------------------------------------
LEMMA ViewNextStep ==
  ASSUME ViewInv, [ViewNext]_viewVars
  PROVE  ViewInv'
<1>1. CASE UNCHANGED viewVars
  BY <1>1 DEF viewVars, ViewInv, ViewTyped, PageHasLine, LineHasPage, LineIsNew, LineIsTrue,
              Carries, RelayIsTrue
<1>2. ASSUME NEW p \in Pages,
             \/ PublisherStarts(p) \/ NoWebSocket(p) \/ ReconnectTimer(p) \/ ReconnectOrResync(p)
             \/ PublisherStops(p) \/ PageChanges(p) \/ PageFrame(p) \/ HeartbeatTimesOut(p)
      PROVE  ViewInv'
  BY <1>2, PublisherStartsStep, NoWebSocketStep, ReconnectTimerStep, ReconnectOrResyncStep,
     PublisherStopsStep, PageChangesStep, PageFrameStep, HeartbeatTimesOutStep
<1>3. ASSUME NEW l \in Lines,
             \/ AttachPublisher(l) \/ RefusePublisher(l) \/ RelayReceives(l) \/ RelayCloseEvent(l)
             \/ PageOpens(l) \/ PageCloseEvent(l) \/ LineCut(l)
      PROVE  ViewInv'
  BY <1>3, AttachPublisherStep, RefusePublisherStep, RelayReceivesStep, RelayCloseEventStep,
     PageOpensStep, PageCloseEventStep, LineCutStep
<1>4. CASE AttachSubscriber \/ SubscriberLeaves
  BY <1>4, AttachSubscriberStep, SubscriberLeavesStep
<1>. QED BY <1>1, <1>2, <1>3, <1>4 DEF ViewNext

\* An idle line has told all that its page has.
LEMMA ViewFollows ==
  ASSUME ViewInv
  PROVE  ViewTypeOK /\ OnePublisher /\ ViewIsTrue
<1>1. ViewTypeOK
  <2>1. ASSUME NEW l \in Lines
        PROVE  /\ [line[l] EXCEPT !.up = <<>>] \in
                    [owner : Pages \cup {0}, pageEnd : {"none", "connecting", "open", "closing"},
                     relayEnd : {"none", "asked", "open", "closing"}, up : {<<>>},
                     cut : BOOLEAN, stale : BOOLEAN, replaced : BOOLEAN]
               /\ \A i \in 1 .. Len(line[l].up) : line[l].up[i] \in Messages
    <3>1. line[l] \in LineSet
      BY DEF ViewInv, ViewTyped
    <3>2. line[l].up \in Seq(Messages)
      BY <3>1 DEF LineSet, UpSeqs
    <3>3. \A i \in 1 .. Len(line[l].up) : line[l].up[i] \in Messages
      BY <3>2
    <3>. QED BY <3>1, <3>3 DEF LineSet
  <2>. QED BY <2>1 DEF ViewInv, ViewTyped, ViewTypeOK, PageSet, SessionSet, ViewerSet
<1>2. OnePublisher
  BY DEF ViewInv, OnePublisher, PageHasLine, LineHasPage
<1>3. ViewIsTrue
  <2>1. SUFFICES ASSUME viewer.on, spoilt = {}
                 PROVE  /\ \A l \in Lines :
                             CanSend(l) /\ line[l].relayEnd = "open" /\ ~line[l].cut =>
                               LET p == page[line[l].owner] IN
                               /\ viewer.connected /\ viewer.tab = p.tab
                               /\ viewer.stream = IF p.streaming THEN "yes" ELSE "no"
                               /\ ~p.streaming => viewer.image = Nothing
                               /\ p.shown => viewer.image = p.tab
                        /\ session.publisher = NoLine =>
                             ~viewer.connected /\ viewer.stream = Nothing /\ viewer.image = Nothing
    BY DEF ViewIsTrue
  <2>2. RelayIsTrue
    BY DEF ViewInv
  <2>3. ASSUME NEW l \in Lines, CanSend(l), line[l].relayEnd = "open", ~line[l].cut
        PROVE  LET p == page[line[l].owner] IN
               /\ viewer.connected /\ viewer.tab = p.tab
               /\ viewer.stream = IF p.streaming THEN "yes" ELSE "no"
               /\ ~p.streaming => viewer.image = Nothing
               /\ p.shown => viewer.image = p.tab
    <3>1. Carries(l) /\ line[l].up = <<>>
      BY <2>3 DEF CanSend, IsOpen, Carries
    <3>2. ShownOfPage(viewer, <<>>, page[line[l].owner])
      BY <2>1, <3>1 DEF ViewInv, LineIsTrue
    <3>3. \A kind : ~Has(<<>>, kind)
      BY DEF Has
    <3>4. viewer.connected
      BY <2>1, <2>2, <2>3, ViewFacts DEF RelayIsTrue, ViewInv, LineHasPage
    <3>. QED BY <3>2, <3>3, <3>4 DEF ShownOfPage, Status
  <2>. QED BY <2>1, <2>2, <2>3 DEF RelayIsTrue
<1>. QED BY <1>1, <1>2, <1>3

\* The browser that is shown: the relay has one publisher, each page one websocket, and when
\* all has come that the publishing page has sent, the viewer shows what the page is about
\* (useBrowserViewPublisher, BrowserViewRelayRegistry, useBrowserViewSubscription).
THEOREM ViewCorrect == ViewSpec => [](ViewTypeOK /\ OnePublisher /\ ViewIsTrue)
<1>1. ViewInit => ViewInv
  BY ViewInitially
<1>2. ViewInv /\ [ViewNext]_viewVars => ViewInv'
  BY ViewNextStep
<1>3. ViewInv => ViewTypeOK /\ OnePublisher /\ ViewIsTrue
  BY ViewFollows
<1>. QED BY <1>1, <1>2, <1>3, PTL DEF ViewSpec

-----------------------------------------------------------------------------
(***************************************************************************)
(* The three of them in one run: while one moves, the others rest.         *)
(***************************************************************************)
ConnectionsInv ==
  /\ part \in {"tunnel", "file browser", "browser view"}
  /\ RegistryInv /\ LinkInv /\ ViewInv

LEMMA RegistryRests ==
  ASSUME RegistryInv, UNCHANGED registryVars
  PROVE  RegistryInv'
BY RegistryStep

LEMMA LinkRests ==
  ASSUME LinkInv, UNCHANGED linkVars
  PROVE  LinkInv'
BY LinkNextStep

LEMMA ViewRests ==
  ASSUME ViewInv, UNCHANGED viewVars
  PROVE  ViewInv'
BY ViewNextStep

LEMMA ConnectionsStep ==
  ASSUME ConnectionsInv, [Next]_<<registryVars, linkVars, viewVars, part>>
  PROVE  ConnectionsInv'
<1>0. RegistryInv /\ LinkInv /\ ViewInv
  BY DEF ConnectionsInv
<1>1. CASE UNCHANGED <<registryVars, linkVars, viewVars, part>>
  <2>1. UNCHANGED registryVars /\ UNCHANGED linkVars /\ UNCHANGED viewVars /\ part' = part
    BY <1>1
  <2>. QED BY <1>0, <2>1, RegistryRests, LinkRests, ViewRests DEF ConnectionsInv
<1>2. CASE RegistryNext /\ UNCHANGED <<part, linkVars, viewVars>>
  <2>1. RegistryNext /\ UNCHANGED linkVars /\ UNCHANGED viewVars /\ part' = part
    BY <1>2
  <2>. QED BY <1>0, <2>1, RegistryStep, LinkRests, ViewRests DEF ConnectionsInv
<1>3. CASE LinkNext /\ UNCHANGED <<part, registryVars, viewVars>>
  <2>1. LinkNext /\ UNCHANGED registryVars /\ UNCHANGED viewVars /\ part' = part
    BY <1>3
  <2>. QED BY <1>0, <2>1, RegistryRests, LinkNextStep, ViewRests DEF ConnectionsInv
<1>4. CASE ViewNext /\ UNCHANGED <<part, registryVars, linkVars>>
  <2>1. ViewNext /\ UNCHANGED registryVars /\ UNCHANGED linkVars /\ part' = part
    BY <1>4
  <2>. QED BY <1>0, <2>1, RegistryRests, LinkRests, ViewNextStep DEF ConnectionsInv
<1>. QED BY <1>1, <1>2, <1>3, <1>4 DEF Next

LEMMA ConnectionsHold == Spec => []ConnectionsInv
<1>1. Init => ConnectionsInv
  BY RegistryInitially, LinkInitially, ViewInitially DEF Init, ConnectionsInv
<1>2. ConnectionsInv /\ [Next]_<<registryVars, linkVars, viewVars, part>> => ConnectionsInv'
  BY ConnectionsStep
<1>. QED BY <1>1, <1>2, PTL DEF Spec

\* What the run checks of types, for all constants.
THEOREM TypesCorrect == Spec => []TypeOK
<1>1. ConnectionsInv => TypeOK
  BY RegistryFollows, LinkFollows, ViewFollows DEF ConnectionsInv, TypeOK
<1>. QED BY <1>1, ConnectionsHold, PTL

\* Each end of each connection has one live connection, or one attempt at it, whatever close
\* events, timers, lost websockets and reloads come in between (the three above).
THEOREM OneConnectionCorrect == Spec => []OneConnection
<1>1. ConnectionsInv => OneConnection
  BY RegistryFollows, LinkFollows, ViewFollows DEF ConnectionsInv, OneConnection
<1>. QED BY <1>1, ConnectionsHold, PTL

\* What a phone shows is what the publishing page is about once all has come that it has sent,
\* through the relay's cache, replaced publishers and viewers that come back (tunnel.ts).
THEOREM ViewIsTrueCorrect == Spec => []ViewIsTrue
<1>1. ConnectionsInv => ViewIsTrue
  BY ViewFollows DEF ConnectionsInv
<1>. QED BY <1>1, ConnectionsHold, PTL
=============================================================================
