-------------------------- MODULE MCClientManager --------------------------
(***************************************************************************)
(* ClientManager for TLC: three connections for two places in the list, so *)
(* that one is turned away or waits for a place, and an entry is erased in *)
(* front of another; and a descriptor to spare for the one turned away.    *)
(***************************************************************************)
EXTENDS ClientManager, TLC

CONSTANTS k1, k2, k3, r1

TwoConns == {k1, k2}
ThreeConns == {k1, k2, k3}
TwoFds == {4, 5}
ThreeFds == {4, 5, 6}
NoIds == {}
OneId == {r1}

Symmetric == Permutations(Conns)
============================================================================
