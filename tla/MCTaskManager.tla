--------------------------- MODULE MCTaskManager ---------------------------
(***************************************************************************)
(* TaskManager for TLC: two threads, so that any call can be overtaken by  *)
(* another between any two of its steps, and three tasks at three          *)
(* addresses.                                                              *)
(***************************************************************************)
EXTENDS TaskManager

CONSTANTS t1, t2, r1, r2, r3, a1, a2, a3

TwoThreads == {t1, t2}

ThreeIds == {r1, r2, r3}

ThreeAddrs == {a1, a2, a3}

Symmetric == Permutations(Addrs) \cup Permutations(Ids) \cup Permutations(Threads)
============================================================================
