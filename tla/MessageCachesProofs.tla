------------------------ MODULE MessageCachesProofs ------------------------
(***************************************************************************)
(* SimpleQueue implements BoundedFifo, for every element type and every    *)
(* capacity; and, built on that, the ownership of the messages in the      *)
(* caches, for every set of addresses and every capacity of the queue.     *)
(***************************************************************************)
EXTENDS MessageCaches, SequenceTheorems, TLAPS

(***************************************************************************)
(* The ring (SimpleQueue).                                                 *)
(***************************************************************************)

\* Stands for n % MAX_SIZE, for the numbers below twice the capacity.
Folded(n) == IF n < MAX_SIZE THEN n ELSE n - MAX_SIZE

\* The only arithmetic there is: below twice the capacity, the remainder is
\* what is left after at most one subtraction.
LEMMA Wrap ==
    ASSUME NEW n \in Nat, n < 2 * MAX_SIZE
    PROVE  n % MAX_SIZE = Folded(n)
<1>1. CASE n < MAX_SIZE
  BY <1>1, SizeAssumption DEF Folded
<1>2. CASE n >= MAX_SIZE
  <2> DEFINE m == n - MAX_SIZE
  <2>1. m \in 0 .. MAX_SIZE - 1 /\ n = 1 * MAX_SIZE + m
    BY <1>2, SizeAssumption
  <2>2. n % MAX_SIZE = m
    BY <2>1, SizeAssumption, Z3
  <2> QED BY <2>2, <1>2, SizeAssumption DEF Folded
<1> QED BY <1>1, <1>2, SizeAssumption

(***************************************************************************)
(* Where the places of the ring lie: no sum below reaches twice the        *)
(* capacity, so each remainder can be replaced by a case distinction.      *)
(***************************************************************************)
LEMMA Places ==
    ASSUME TypeOK
    PROVE  /\ tail = Folded(head + size)
           /\ (tail + 1) % MAX_SIZE = Folded(tail + 1)
           /\ (head + 1) % MAX_SIZE = Folded(head + 1)
           /\ \A k \in 1 .. size : (head + k - 1) % MAX_SIZE = Folded(head + k - 1)
<1> USE SizeAssumption DEF TypeOK, Slots
<1>1. /\ head + size \in Nat /\ head + size < 2 * MAX_SIZE
      /\ tail + 1 \in Nat /\ tail + 1 < 2 * MAX_SIZE
      /\ head + 1 \in Nat /\ head + 1 < 2 * MAX_SIZE
  OBVIOUS
<1>2. (head + size) % MAX_SIZE = Folded(head + size)
  BY <1>1, Wrap
<1>3. (tail + 1) % MAX_SIZE = Folded(tail + 1)
  BY <1>1, Wrap
<1>4. (head + 1) % MAX_SIZE = Folded(head + 1)
  BY <1>1, Wrap
<1>5. ASSUME NEW k \in 1 .. size
      PROVE  (head + k - 1) % MAX_SIZE = Folded(head + k - 1)
  <2>1. head + k - 1 \in Nat /\ head + k - 1 < 2 * MAX_SIZE
    BY <1>5
  <2> QED BY <2>1, Wrap
<1> QED BY <1>2, <1>3, <1>4, <1>5

\* The content is a sequence as long as size says; it is read off the ring.
ContentFacts ==
    /\ content \in Seq(T)
    /\ Len(content) = size
    /\ \A k \in 1 .. size : content[k] = data[Folded(head + k - 1)]

\* The facts about the content follow from the type invariant.
LEMMA ContentIsSeq == TypeOK => ContentFacts
<1> SUFFICES ASSUME TypeOK PROVE ContentFacts
  OBVIOUS
<1>1. ASSUME NEW k \in 1 .. size
      PROVE  At(k) \in T /\ At(k) = data[Folded(head + k - 1)]
  <2>1. (head + k - 1) % MAX_SIZE = Folded(head + k - 1)
    BY Places
  <2>2. Folded(head + k - 1) \in Slots
    BY SizeAssumption DEF TypeOK, Slots, Folded
  <2> QED BY <2>1, <2>2 DEF TypeOK, At
<1>2. size \in Nat
  BY SizeAssumption DEF TypeOK
<1>3. content \in [1 .. size -> T]
  BY <1>1 DEF content
<1>4. content \in Seq(T) /\ Len(content) = size
  BY <1>2, <1>3, SeqDef
<1> QED BY <1>1, <1>4 DEF content, ContentFacts

\* The same facts in the next state.
LEMMA ContentIsSeqAfter == TypeOK' => ContentFacts'
BY ContentIsSeq, PTL

\* A push keeps the invariant, happens below the capacity only, and appends.
LEMMA PushStep ==
    ASSUME TypeOK, NEW item \in T, push(item, TRUE)
    PROVE  /\ TypeOK'
           /\ size < MAX_SIZE
           /\ content' = Append(content, item)
<1> USE SizeAssumption
<1>1. /\ size < MAX_SIZE
      /\ data' = [data EXCEPT ![tail] = item]
      /\ tail' = Folded(tail + 1) /\ size' = size + 1 /\ head' = head
  BY Places DEF push, TypeOK
<1>2. tail = Folded(head + size) /\ head \in Slots /\ size \in 0 .. MAX_SIZE
  BY Places DEF TypeOK
<1>3. TypeOK'
  <2>1. data' \in [Slots -> T]
    BY <1>1 DEF TypeOK
  <2>2. (head + size + 1) % MAX_SIZE = Folded(head + size + 1)
    <3>1. head + size + 1 \in Nat /\ head + size + 1 < 2 * MAX_SIZE
      BY <1>1, <1>2 DEF Slots
    <3> QED BY <3>1, Wrap
  <2>3. Folded(tail + 1) = Folded(head + size + 1) /\ Folded(tail + 1) \in Slots
    BY <1>1, <1>2 DEF Folded, Slots
  <2>4. head' + size' = head + size + 1
    BY <1>1, <1>2 DEF Slots
  <2> QED BY <2>1, <2>2, <2>3, <2>4, <1>1, <1>2 DEF TypeOK
<1>4. content' = Append(content, item)
  <2>1. /\ content' \in Seq(T) /\ Len(content') = size + 1
        /\ \A k \in 1 .. size + 1 : content'[k] = data'[Folded(head + k - 1)]
    BY <1>1, <1>3, ContentIsSeqAfter DEF ContentFacts
  <2>2. /\ Append(content, item) \in Seq(T)
        /\ Len(Append(content, item)) = size + 1
        /\ \A k \in 1 .. size : Append(content, item)[k] = content[k]
        /\ Append(content, item)[size + 1] = item
    BY ContentIsSeq DEF ContentFacts
  <2>3. ASSUME NEW k \in 1 .. size + 1
        PROVE  content'[k] = Append(content, item)[k]
    <3>1. CASE k = size + 1
      <4>1. Folded(head + k - 1) = tail /\ tail \in Slots
        BY <3>1, <1>2 DEF Slots, Folded
      <4>2. data'[tail] = item
        BY <1>1, <4>1 DEF TypeOK
      <4> QED BY <2>1, <2>2, <3>1, <4>1, <4>2
    <3>2. CASE k \in 1 .. size
      <4>1. Folded(head + k - 1) # tail /\ Folded(head + k - 1) \in Slots
        BY <3>2, <1>1, <1>2 DEF Slots, Folded
      <4>2. data'[Folded(head + k - 1)] = data[Folded(head + k - 1)]
        BY <1>1, <4>1 DEF TypeOK
      <4>3. content[k] = data[Folded(head + k - 1)]
        BY <3>2, ContentIsSeq DEF ContentFacts
      <4> QED BY <2>1, <2>2, <3>2, <4>2, <4>3
    <3>3. k = size + 1 \/ k \in 1 .. size
      BY <1>2, <2>3
    <3> QED BY <3>1, <3>2, <3>3
  <2> QED BY <2>1, <2>2, <2>3, SeqEqual
<1> QED BY <1>1, <1>3, <1>4

\* A pop keeps the invariant and takes the oldest element.
LEMMA PopStep ==
    ASSUME TypeOK, pop(TRUE)
    PROVE  /\ TypeOK'
           /\ content # <<>>
           /\ content' = Tail(content)
<1> USE SizeAssumption
<1>1. /\ size \in 1 .. MAX_SIZE
      /\ head' = Folded(head + 1) /\ size' = size - 1 /\ data' = data /\ tail' = tail
  BY Places DEF pop, TypeOK
<1>2. tail = Folded(head + size) /\ head \in Slots /\ tail \in Slots
  BY Places DEF TypeOK
<1>3. TypeOK'
  <2>1. head' \in Slots /\ size' \in 0 .. MAX_SIZE
    BY <1>1, <1>2 DEF Slots, Folded
  <2>2. (head' + size') % MAX_SIZE = Folded(head' + size')
    <3>1. head' + size' \in Nat /\ head' + size' < 2 * MAX_SIZE
      BY <1>1, <1>2 DEF Slots, Folded
    <3> QED BY <3>1, Wrap
  <2>3. Folded(head' + size') = Folded(head + size)
    BY <1>1, <1>2 DEF Folded, Slots
  <2> QED BY <2>1, <2>2, <2>3, <1>1, <1>2 DEF TypeOK
<1>4. content \in Seq(T) /\ Len(content) = size /\ content # <<>>
  BY <1>1, ContentIsSeq, EmptySeq DEF ContentFacts
<1>5. content' = Tail(content)
  <2>1. /\ content' \in Seq(T) /\ Len(content') = size - 1
        /\ \A k \in 1 .. size - 1 : content'[k] = data[Folded(head' + k - 1)]
    BY <1>1, <1>3, ContentIsSeqAfter DEF ContentFacts
  <2>2. /\ Tail(content) \in Seq(T) /\ Len(Tail(content)) = size - 1
        /\ \A k \in 1 .. size - 1 : Tail(content)[k] = content[k + 1]
    BY <1>4, HeadTailProperties
  <2>3. ASSUME NEW k \in 1 .. size - 1
        PROVE  content'[k] = Tail(content)[k]
    <3>1. content[k + 1] = data[Folded(head + (k + 1) - 1)]
      BY <1>1, ContentIsSeq DEF ContentFacts
    <3>2. Folded(head' + k - 1) = Folded(head + (k + 1) - 1)
      BY <1>1, <1>2 DEF Folded, Slots
    <3> QED BY <2>1, <2>2, <3>1, <3>2
  <2> QED BY <2>1, <2>2, <2>3, SeqEqual
<1> QED BY <1>3, <1>4, <1>5

----------------------------------------------------------------------------
\* A step of the ring buffer keeps the type invariant and is a step of the
\* bounded queue or leaves the content alone.
LEMMA NextStep ==
    ASSUME TypeOK, [Next]_vars
    PROVE  TypeOK' /\ [F!Next]_content
<1>1. ASSUME NEW item \in T, push(item, TRUE)
      PROVE  TypeOK' /\ [F!Next]_content
  <2>1. Len(content) < MAX_SIZE
    BY <1>1, PushStep, ContentIsSeq DEF ContentFacts
  <2> QED BY <1>1, <2>1, PushStep DEF F!Next, F!Push
<1>2. ASSUME pop(TRUE)
      PROVE  TypeOK' /\ [F!Next]_content
  BY <1>2, PopStep DEF F!Next, F!Pop
<1>3. ASSUME UNCHANGED vars
      PROVE  TypeOK' /\ [F!Next]_content
  BY <1>3 DEF vars, TypeOK, Slots, content, At
<1>4. (\E item \in T : push(item, TRUE)) \/ pop(TRUE) \/ UNCHANGED vars
  BY DEF Next, push, pop
<1> QED BY <1>1, <1>2, <1>3, <1>4

\* At first the ring buffer is empty, and so is its content.
LEMMA InitStep ==
    ASSUME Init
    PROVE  TypeOK /\ F!Init
<1>1. TypeOK
  BY SizeAssumption, Wrap DEF Init, TypeOK, Slots, Folded
<1>2. content \in Seq(T) /\ Len(content) = 0
  BY <1>1, ContentIsSeq DEF ContentFacts, Init
<1> QED BY <1>1, <1>2, EmptySeq DEF F!Init

\* The indices of the ring buffer never leave the array, and tail is always
\* size places after head, after any number of wrap-arounds.
THEOREM TypeCorrect == Spec => []TypeOK
<1>1. Init => TypeOK
  BY InitStep
<1>2. TypeOK /\ [Next]_vars => TypeOK'
  BY NextStep
<1> QED BY <1>1, <1>2, PTL DEF Spec

\* SimpleQueue is a bounded FIFO queue, for every element type and capacity:
\* push appends or refuses because it is full, pop takes the oldest element or
\* refuses because it is empty.
THEOREM FifoImplemented == Spec => ImplementsFifo
<1>1. Init => F!Init
  BY InitStep
<1>2. TypeOK /\ [Next]_vars => [F!Next]_content
  BY NextStep
<1> QED BY <1>1, <1>2, TypeCorrect, PTL DEF Spec, ImplementsFifo, F!Spec

(***************************************************************************)
(* The caches (MessageCaches).                                             *)
(***************************************************************************)

CacheInv == /\ TypeOK
            /\ CacheTypeOK
            /\ OneOwner
            /\ NothingElseLeaks

\* What the queue holds, one address and the rest: a push adds an address to
\* the range, and a pop takes the first out of it.
QueuedFacts ==
    /\ content \in Seq(T)
    /\ Queued \subseteq T

\* The type invariant of the ring gives these facts about what it holds.
LEMMA QueuedTyped == TypeOK => QueuedFacts
<1> SUFFICES ASSUME TypeOK PROVE QueuedFacts
  OBVIOUS
<1>1. content \in Seq(T)
  BY ContentIsSeq DEF ContentFacts
<1> QED BY <1>1 DEF QueuedFacts, Queued, Range

\* A push that succeeds, of an address that is not queued yet.
LEMMA PushOwned ==
    ASSUME TypeOK, NEW a \in T, push(a, TRUE), IsInjective(content), a \notin Queued
    PROVE  /\ TypeOK'
           /\ Queued' = Queued \cup {a}
           /\ IsInjective(content)'
<1> DEFINE n == Len(content)
<1>1. TypeOK' /\ content' = Append(content, a)
  BY PushStep
<1>2. content \in Seq(T) /\ n \in Nat
  BY ContentIsSeq DEF ContentFacts
<1>3. /\ DOMAIN content = 1 .. n
      /\ DOMAIN content' = 1 .. n + 1
      /\ \A k \in 1 .. n : content'[k] = content[k]
      /\ content'[n + 1] = a
  BY <1>1, <1>2
<1>4. Queued' = Queued \cup {a}
  BY <1>2, <1>3 DEF Queued, Range
<1>5. IsInjective(content)'
  <2> SUFFICES ASSUME NEW j \in 1 .. n + 1, NEW k \in 1 .. n + 1,
                      content'[j] = content'[k]
               PROVE  j = k
    BY <1>3 DEF IsInjective
  <2>1. \A m \in 1 .. n : content[m] # a
    BY <1>3 DEF Queued, Range
  <2>2. CASE j \in 1 .. n /\ k \in 1 .. n
    BY <2>2, <1>3 DEF IsInjective
  <2> QED BY <2>1, <2>2, <1>2, <1>3
<1> QED BY <1>1, <1>4, <1>5

\* A pop that succeeds.
LEMMA PopOwned ==
    ASSUME TypeOK, pop(TRUE), IsInjective(content)
    PROVE  /\ TypeOK'
           /\ data[head] \in Queued
           /\ Queued' = Queued \ {data[head]}
           /\ IsInjective(content)'
<1> DEFINE n == Len(content)
<1>1. TypeOK' /\ content # <<>> /\ content' = Tail(content)
  BY PopStep
<1>2. content \in Seq(T) /\ n \in Nat \ {0} /\ n = size
  BY <1>1, ContentIsSeq, EmptySeq DEF ContentFacts
<1>3. content[1] = data[head]
  <2>1. content[1] = data[Folded(head + 1 - 1)]
    BY <1>2, ContentIsSeq DEF ContentFacts
  <2> QED BY <2>1, SizeAssumption DEF TypeOK, Slots, Folded
<1>4. /\ DOMAIN content = 1 .. n
      /\ DOMAIN content' = 1 .. n - 1
      /\ \A k \in 1 .. n - 1 : content'[k] = content[k + 1]
  BY <1>1, <1>2, HeadTailProperties
<1>5. data[head] \in Queued
  BY <1>2, <1>3, <1>4 DEF Queued, Range
<1>6. Queued' = Queued \ {data[head]}
  <2>1. ASSUME NEW x \in Queued' PROVE x \in Queued \ {data[head]}
    <3>1. PICK k \in 1 .. n - 1 : x = content'[k]
      BY <2>1, <1>4 DEF Queued, Range
    <3>2. x = content[k + 1] /\ k + 1 \in 1 .. n /\ k + 1 # 1
      BY <3>1, <1>2, <1>4
    <3> QED BY <3>2, <1>2, <1>3, <1>4 DEF Queued, Range, IsInjective
  <2>2. ASSUME NEW x \in Queued, x # data[head] PROVE x \in Queued'
    <3>1. PICK k \in 1 .. n : x = content[k]
      BY <2>2, <1>4 DEF Queued, Range
    <3>2. k - 1 \in 1 .. n - 1 /\ content'[k - 1] = content[k]
      BY <3>1, <2>2, <1>2, <1>3, <1>4
    <3> QED BY <3>1, <3>2, <1>4 DEF Queued, Range
  <2> QED BY <2>1, <2>2
<1>7. IsInjective(content)'
  <2> SUFFICES ASSUME NEW j \in 1 .. n - 1, NEW k \in 1 .. n - 1,
                      content'[j] = content'[k]
               PROVE  j = k
    BY <1>4 DEF IsInjective
  <2>1. j + 1 \in 1 .. n /\ k + 1 \in 1 .. n /\ content[j + 1] = content[k + 1]
    BY <1>2, <1>4
  <2>2. j + 1 = k + 1
    BY <2>1, <1>4 DEF IsInjective
  <2> QED BY <2>2, <1>2
<1> QED BY <1>1, <1>5, <1>6, <1>7

\* A call that is refused, or one that leaves the queue alone.
LEMMA Unmoved ==
    ASSUME TypeOK, UNCHANGED vars
    PROVE  TypeOK' /\ Queued' = Queued /\ content' = content
BY DEF vars, TypeOK, Slots, Queued, content, At

\* Handing an address that nobody else has to the queue: it is queued, or
\* turned away.
LEMMA EnqueueOwned ==
    ASSUME CacheInv, NEW a \in T, a \notin Queued, enqueue(a)
    PROVE  /\ TypeOK'
           /\ IsInjective(content)'
           /\ \/ Queued' = Queued \cup {a} /\ turned_away' = turned_away
              \/ Queued' = Queued /\ turned_away' = turned_away \cup {a}
<1>1. CASE push(a, TRUE) /\ turned_away' = turned_away
  BY <1>1, PushOwned DEF CacheInv, OneOwner
<1>2. CASE push(a, FALSE) /\ turned_away' = turned_away \cup {a}
  BY <1>2, Unmoved DEF push, CacheInv, OneOwner
<1> QED BY <1>1, <1>2 DEF enqueue

\* Every step hands each address from one owner to at most one other.
LEMMA CacheStep ==
    ASSUME CacheInv, [CacheNext]_cacheVars
    PROVE  CacheInv'
<1> USE DEF CacheInv, CacheTypeOK, OneOwner, NothingElseLeaks
<1>0. Queued \subseteq T /\ Free \subseteq T
  BY QueuedTyped DEF QueuedFacts, Free
<1>1. CASE addResponseData
  <2>1. PICK a \in Free : live' = live \cup {a} /\ enqueue(a)
    BY <1>1 DEF addResponseData
  <2>2. a \in T /\ a \notin Queued /\ a \notin held /\ a \notin turned_away
    BY <1>0 DEF Free
  <2>3. pc' = "idle" /\ held' = held /\ owner_class' = owner_class
    BY <1>1 DEF addResponseData, Idle
  <2> QED BY <2>1, <2>2, <2>3, EnqueueOwned
<1>2. CASE getNextResponse
  <2>1. /\ pc' = "idle" /\ owner_class' = owner_class
        /\ live' = live /\ turned_away' = turned_away
    BY <1>2 DEF getNextResponse, Idle
  <2>2. CASE pop(TRUE) /\ held' = held \cup {data[head]}
    BY <2>1, <2>2, <1>0, PopOwned
  <2>3. CASE pop(FALSE) /\ held' = held
    BY <2>1, <2>3, Unmoved DEF pop
  <2> QED BY <1>2, <2>2, <2>3 DEF getNextResponse
<1>3. CASE addMessage
  <2>1. PICK msg \in held : held' = held \ {msg} /\ enqueue(msg)
    BY <1>3 DEF addMessage
  <2>2. msg \in T /\ msg \notin Queued /\ msg \notin turned_away
    OBVIOUS
  <2>3. pc' = "idle" /\ live' = live /\ owner_class' = owner_class
    BY <1>3 DEF addMessage, Idle
  <2> QED BY <2>1, <2>2, <2>3, EnqueueOwned
<1>4. CASE getNextMessage
  <2>1. pc' = "idle" /\ owner_class' = owner_class /\ turned_away' = turned_away
    BY <1>4 DEF getNextMessage, Idle
  <2>2. ASSUME pop(TRUE), NEW copy \in Free,
               held' = held \cup {copy}, live' = (live \cup {copy}) \ {data[head]}
        PROVE  CacheInv'
    <3>1. copy \in T /\ copy \notin Queued /\ copy \notin held /\ copy \notin turned_away
      BY <1>0 DEF Free
    <3>2. /\ data[head] \in Queued /\ Queued' = Queued \ {data[head]}
          /\ TypeOK' /\ IsInjective(content)'
      BY <2>2, PopOwned
    <3> QED BY <2>1, <2>2, <3>1, <3>2, <1>0
  <2>3. CASE pop(FALSE) /\ held' = held /\ live' = live
    BY <2>1, <2>3, Unmoved DEF pop
  <2> QED BY <1>4, <2>2, <2>3 DEF getNextMessage
<1>5. CASE clearNext
  <2>1. /\ owner_class' = owner_class /\ held' = held
        /\ turned_away' = turned_away /\ pc \in {"clearing", "destroying"}
    BY <1>5 DEF clearNext
  <2>2. CASE pop(TRUE) /\ live' = live \ {data[head]} /\ pc' = pc
    BY <2>1, <2>2, <1>0, PopOwned
  <2>3. CASE /\ pop(FALSE) /\ live' = live
             /\ pc' = IF pc = "clearing" THEN "idle" ELSE "gone"
    <3>1. Queued' = Queued /\ content' = content /\ TypeOK'
      BY <2>3, Unmoved DEF pop
    <3>2. size = 0
      BY <2>3 DEF pop
    <3>3. Queued = {}
      BY <3>2, SizeAssumption DEF Queued, Range, content
    <3> QED BY <2>1, <2>3, <3>1, <3>3
  <2> QED BY <1>5, <2>2, <2>3 DEF clearNext
<1>6. CASE clearMessages \/ destroy
  <2>1. TypeOK' /\ Queued' = Queued /\ content' = content
    BY <1>6, Unmoved DEF clearMessages, destroy
  <2> QED BY <2>1, <1>6 DEF clearMessages, destroy, Idle
<1>7. CASE newRequestMessage
  <2>1. TypeOK' /\ Queued' = Queued /\ content' = content
    BY <1>7, Unmoved DEF newRequestMessage
  <2> QED BY <2>1, <1>7 DEF newRequestMessage, Free
<1>8. CASE release
  <2>1. TypeOK' /\ Queued' = Queued /\ content' = content
    BY <1>8, Unmoved DEF release
  <2> QED BY <2>1, <1>8 DEF release
<1>9. CASE UNCHANGED cacheVars
  <2>1. TypeOK' /\ Queued' = Queued /\ content' = content
    BY <1>9, Unmoved DEF cacheVars
  <2> QED BY <2>1, <1>9 DEF cacheVars
<1> QED BY <1>1, <1>2, <1>3, <1>4, <1>5, <1>6, <1>7, <1>8, <1>9 DEF CacheNext

\* At first nothing is allocated.
LEMMA CacheStart == CacheInit => CacheInv
<1> SUFFICES ASSUME CacheInit PROVE CacheInv
  OBVIOUS
<1>1. TypeOK /\ size = 0
  BY InitStep DEF CacheInit, Init
<1>2. DOMAIN content = {}
  BY <1>1, SizeAssumption DEF content
<1> QED BY <1>1, <1>2 DEF CacheInit, CacheInv, CacheTypeOK, OneOwner,
                          NothingElseLeaks, Queued, Range, IsInjective

\* The strengthened invariant: the types, and both ownership properties.
LEMMA CacheInvHolds == CacheSpec => []CacheInv
<1> QED BY CacheStart, CacheStep, PTL DEF CacheSpec

\* No queued message is freed while it is queued, handed out twice, or freed
\* by two parties, at any capacity and over any number of wrap-arounds.
THEOREM NothingFreedTwice == CacheSpec => []OneOwner
<1> QED BY CacheInvHolds, PTL DEF CacheInv

\* Only what a full queue turned away is lost.
THEOREM NothingLeaksUnlessFull == CacheSpec => []NothingElseLeaks
<1> QED BY CacheInvHolds, PTL DEF CacheInv

\* The queue sees nothing but pushes of addresses, pops and idle steps.
LEMMA CacheStepIsQueueStep ==
    ASSUME CacheTypeOK, [CacheNext]_cacheVars
    PROVE  [Next]_vars
<1>1. ASSUME NEW a \in T, enqueue(a)
      PROVE  [Next]_vars
  BY <1>1 DEF enqueue, Next
<1>2. CASE addResponseData
  BY <1>1, <1>2 DEF addResponseData, Free
<1>3. CASE addMessage
  BY <1>1, <1>3 DEF addMessage, CacheTypeOK
<1>4. CASE getNextResponse \/ getNextMessage \/ clearNext
  BY <1>4 DEF getNextResponse, getNextMessage, clearNext, Next
<1>5. CASE clearMessages \/ destroy \/ newRequestMessage \/ release \/ UNCHANGED cacheVars
  BY <1>5 DEF clearMessages, destroy, newRequestMessage, release, cacheVars
<1> QED BY <1>2, <1>3, <1>4, <1>5 DEF CacheNext

\* Inside the two classes the queue is still first in, first out: what the
\* caller is given next is the oldest that was accepted and not yet given.
THEOREM CachesKeepOrder == CacheSpec => ImplementsFifo
<1>1. CacheInit => F!Init
  BY InitStep DEF CacheInit
<1>2. CacheInv /\ [CacheNext]_cacheVars => [F!Next]_content
  BY CacheStepIsQueueStep, NextStep DEF CacheInv
<1> QED BY <1>1, <1>2, CacheInvHolds, PTL DEF CacheSpec, ImplementsFifo, F!Spec

============================================================================
