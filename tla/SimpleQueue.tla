---------------------------- MODULE SimpleQueue ----------------------------
(***************************************************************************)
(* template SimpleQueue<T, MAX_SIZE> (src/common/data_structures.h): a     *)
(* ring buffer with a head, a tail and a size.  Each call is one step, as  *)
(* for a queue that one thread uses (ResponseMessage, ClientMessageCache). *)
(***************************************************************************)
EXTENDS Naturals, Sequences

CONSTANTS T, MAX_SIZE

ASSUME SizeAssumption == MAX_SIZE \in Nat \ {0}

VARIABLES data, head, tail, size

vars == <<data, head, tail, size>>

Slots == 0 .. MAX_SIZE - 1

\* The constructor leaves data uninitialised.
Init == /\ data \in [Slots -> T]
        /\ head = 0
        /\ tail = 0
        /\ size = 0

----------------------------------------------------------------------------
\* Mutants of the operators below, each a plausible slip in the template.
pushAtSizeLimit(item, result) ==
    /\ result = (size <= MAX_SIZE)
    /\ IF result
       THEN /\ data' = [data EXCEPT ![tail] = item]
            /\ tail' = (tail + 1) % MAX_SIZE
            /\ size' = size + 1
            /\ UNCHANGED head
       ELSE UNCHANGED vars

popWithoutWrap(result) ==
    /\ result = (size # 0)
    /\ IF result
       THEN /\ head' = IF head = MAX_SIZE - 1 THEN head ELSE head + 1
            /\ size' = size - 1
            /\ UNCHANGED <<data, tail>>
       ELSE UNCHANGED vars

----------------------------------------------------------------------------
\* The last parameter is the value the call returns.
push(item, result) ==
    /\ result = ~(size >= MAX_SIZE)
    /\ IF result
       THEN /\ data' = [data EXCEPT ![tail] = item]
            /\ tail' = (tail + 1) % MAX_SIZE
            /\ size' = size + 1
            /\ UNCHANGED head
       ELSE UNCHANGED vars

pop(result) ==
    /\ result = (size # 0)
    /\ IF result
       THEN /\ head' = (head + 1) % MAX_SIZE
            /\ size' = size - 1
            /\ UNCHANGED <<data, tail>>
       ELSE UNCHANGED vars

Next == \E result \in BOOLEAN : \/ \E item \in T : push(item, result)
                                \/ pop(result)

Spec == Init /\ [][Next]_vars

----------------------------------------------------------------------------
\* The indices stay inside the array and tell apart a full queue, an empty one
\* and the ones between, although head = tail in both of the first two.
TypeOK == /\ data \in [Slots -> T]
          /\ head \in Slots
          /\ tail \in Slots
          /\ size \in 0 .. MAX_SIZE
          /\ tail = (head + size) % MAX_SIZE

\* The k-th element in the order of arrival lies k - 1 places after head.
At(k) == data[(head + k - 1) % MAX_SIZE]

content == [k \in 1 .. size |-> At(k)]

F == INSTANCE BoundedFifo WITH queue <- content

\* Across any number of wrap-arounds the ring buffer is a bounded FIFO queue:
\* a push appends or is refused because the queue is full, a pop takes the
\* oldest element or is refused because the queue is empty.
ImplementsFifo == F!Spec

============================================================================
