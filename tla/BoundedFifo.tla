---------------------------- MODULE BoundedFifo ----------------------------
(***************************************************************************)
(* What SimpleQueue promises: a first-in first-out queue of bounded        *)
(* capacity.  Its content is all there is to see of it.                    *)
(***************************************************************************)
EXTENDS Naturals, Sequences

CONSTANTS T, MAX_SIZE

VARIABLE queue

Init == queue = <<>>

Push(item) == Len(queue) < MAX_SIZE /\ queue' = Append(queue, item)

Pop == queue # <<>> /\ queue' = Tail(queue)

Next == (\E item \in T : Push(item)) \/ Pop

Spec == Init /\ [][Next]_queue

============================================================================
