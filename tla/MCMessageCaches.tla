-------------------------- MODULE MCMessageCaches --------------------------
(***************************************************************************)
(* MessageCaches for TLC: three places, so that head and tail wrap around  *)
(* at every fill level, and two addresses more than places, for one that   *)
(* is turned away while a caller holds another.                            *)
(***************************************************************************)
EXTENDS MessageCaches, TLC

CONSTANTS a1, a2, a3, a4, a5

FiveAddresses == {a1, a2, a3, a4, a5}
============================================================================
