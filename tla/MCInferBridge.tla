--------------------------- MODULE MCInferBridge ---------------------------
(***************************************************************************)
(* InferBridge for TLC: three lives of the bridge, so that it meets an     *)
(* engine that has served before, and three requests.                      *)
(***************************************************************************)
EXTENDS InferBridge, TLC

============================================================================
