----------------------------- MODULE MCNodeLink -----------------------------
(***************************************************************************)
(* NodeLink for TLC: two places in the list and a descriptor more.         *)
(***************************************************************************)
EXTENDS NodeLink, TLC

ThreeFds == {5, 6, 7}
============================================================================
