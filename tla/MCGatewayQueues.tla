-------------------------- MODULE MCGatewayQueues --------------------------
(***************************************************************************)
(* GatewayQueues for TLC: queues of two places and three pushes to each,   *)
(* so that a queue is full, drained and filled again.                      *)
(***************************************************************************)
EXTENDS GatewayQueues, TLC

============================================================================
