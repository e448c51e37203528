---------------------------- MODULE MCAgentRuns ----------------------------
(***************************************************************************)
(* Two users of a thread.  One sends a message or joins the run that is    *)
(* going on, reconnects once, and may cancel or turn away; the other edits *)
(* a message of the thread and gives up when its stream breaks.            *)
(***************************************************************************)
EXTENDS AgentRuns

CONSTANTS sender, editor

MCClients == {sender, editor}
MCOperations == sender :> {"message", "resume", "cancel", "close"} @@ editor :> {"edit"}
MCReconnects == sender :> 1 @@ editor :> 0

\* An editor that tries again.
MCEditReconnects == sender :> 0 @@ editor :> 1

=============================================================================
