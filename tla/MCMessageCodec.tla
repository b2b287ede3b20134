--------------------------- MODULE MCMessageCodec ---------------------------
(***************************************************************************)
(* MessageCodec for TLC: one content, which differs from every default     *)
(* value, so that a field that was read can be told from one that was not. *)
(***************************************************************************)
EXTENDS MessageCodec, TLC

OneContent == {"x"}
============================================================================
