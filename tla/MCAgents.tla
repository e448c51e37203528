------------------------------ MODULE MCAgents ------------------------------
(***************************************************************************)
(* What becomes of an agent's turn, in three parts that share no state: a  *)
(* behaviour is about one of them while the others rest in their initial   *)
(* state.  They are the app-server's process with the turns that use it,   *)
(* the runs with the clients that follow them, and a client that joins a   *)
(* run from the thread's snapshot.                                         *)
(***************************************************************************)
EXTENDS MCAgentRuns, AgentResume, CodexTurns

CONSTANTS t1, t2   \* turns

VARIABLE part   \* the part that the behaviour is about

AgentsInit ==
  /\ part \in {"codex", "runs", "resume"}
  /\ Init /\ ResumeInit /\ CodexInit
  /\ part # "resume" => agentThread.users = {} /\ agentThread.done = {}   \* it rests

AgentsNext ==
  \/ part = "codex" /\ CodexNext /\ UNCHANGED <<vars, resumeVars, part>>
  \/ part = "runs" /\ Next /\ UNCHANGED <<resumeVars, codexVars, part>>
  \/ part = "resume" /\ ResumeNext /\ UNCHANGED <<vars, codexVars, part>>

AgentsSpec ==
  AgentsInit /\ [][AgentsNext]_<<vars, resumeVars, codexVars, part>> /\ Fairness

\* The types of the three.
AgentsTypeOK == TypeOK /\ ResumeTypeOK /\ CodexTypeOK
=============================================================================
