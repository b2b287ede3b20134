--------------------------- MODULE MCTokenStream ---------------------------
(***************************************************************************)
(* TokenStream for TLC: two ids, so that deleting one list leaves another, *)
(* of which r1 is used the careful way and r2 in any way; and two clients, *)
(* so that both can ask for the same id.                                   *)
(***************************************************************************)
EXTENDS TokenStream, TLC

CONSTANTS r1, r2, c1, c2

TwoIds == {r1, r2}
OneId == {r1}
NoId == {}
TwoClients == {c1, c2}
============================================================================
