------------------------- MODULE MCTunnelScheduler -------------------------
(***************************************************************************)
(* A small tunnel: one interactive and one bulk connection, frames of one  *)
(* or three bytes, limits reached after two or three frames.               *)
(***************************************************************************)
EXTENDS TunnelScheduler

CONSTANTS ctl, blk

MCConns == {ctl, blk}
MCPriority == ctl :> 2 @@ blk :> 1
MCWeight == ctl :> 2 @@ blk :> 1
MCMaxQueuedBytes == ctl :> 3 @@ blk :> 2
MCBulk == {blk}

=============================================================================
