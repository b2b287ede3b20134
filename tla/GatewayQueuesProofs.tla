------------------------ MODULE GatewayQueuesProofs ------------------------
(***************************************************************************)
(* Proofs about GatewayQueues, for queues of any capacity and any number   *)
(* of pushes.                                                              *)
(*                                                                         *)
(*   TypeCorrect     types, and no queue above its capacity unless popping *)
(*                   an empty one has corrupted it                         *)
(*   ThreadsFollow   the life of the two threads, from JoinInv             *)
(*   OrderKept       what is pushed comes out once and in order, from      *)
(*                   TakeInv                                               *)
(***************************************************************************)
EXTENDS GatewayQueues, SequenceTheorems, TLAPS

----------------------------------------------------------------------------
\* Where the caller's thread stands decides which of the two loops exist: while
\* it joins them the flag is down, and they are joined one after the other.
JoinInv ==
    /\ pc["main"] \in {"idle", "test", "front", "pop", "joinTask", "joinResponse"}
    /\ \A t \in Loops : pc[t] \in {"none", "loop", "test", "front", "pop", "exited"}
    /\ pc["main"] \in {"joinTask", "joinResponse"} => ~running
    /\ pc["main"] = "joinTask" => pc["task"] # "none" /\ pc["response"] # "none"
    /\ pc["main"] = "joinResponse" => pc["task"] = "none" /\ pc["response"] # "none"
    /\ ThreadsFollowRunning

\* A queue that only one thread takes from.
Quiet(q) == q = "input" \/ ~shared

\* A thread that takes from such a queue holds the front of it: what it has
\* tested and copied is still there when it pops.  popFinishedResponse leaves
\* the output queue to itself as long as it is called while the loops are down.
TakeInv ==
    /\ ~shared => ~corrupt
    /\ ~shared /\ pc["main"] \in {"test", "front", "pop"} => ~running
    /\ \A t \in Threads : Quiet(Source(t)) =>
         /\ pc[t] \in {"front", "pop"} => queue[Source(t)] # <<>>
         /\ pc[t] = "pop" => copy[t] = Head(queue[Source(t)])
    /\ TakenInOrder

----------------------------------------------------------------------------
\* The steps of GatewayQueues in a form that names each action once.
LEMMA NextSplit ==
    ASSUME [Next]_vars
    PROVE  \/ UNCHANGED vars
           \/ start \/ stop \/ join \/ popFinishedResponse
           \/ \E q \in Queues : push(q)
           \/ \E t \in Loops : loop(t)
           \/ \E t \in Threads : test(t) \/ front(t) \/ pop(t)
BY DEF Next, Take

\* A push adds the item at the end of a queue that has room for it, and to the
\* record of what was accepted.
LEMMA PushAppends ==
    ASSUME TypeOK, NEW q \in Queues, push(q)
    PROVE  \E item \in Items :
              /\ queue' = [queue EXCEPT ![q] = Append(queue[q], item)]
              /\ accepted' = [accepted EXCEPT ![q] = Append(accepted[q], item)]
<1>1. Len(accepted[q]) \in Nat /\ Len(accepted[q]) < MaxPushed
  BY QueuesAssumption DEF TypeOK, push
<1>2. Len(accepted[q]) + 1 \in Items
  BY <1>1, QueuesAssumption DEF Items
<1>3. /\ queue' = [queue EXCEPT ![q] = Append(queue[q], Len(accepted[q]) + 1)]
      /\ accepted' = [accepted EXCEPT ![q] = Append(accepted[q], Len(accepted[q]) + 1)]
  BY DEF push
<1> QED
  BY <1>2, <1>3

\* A thread pops from one of the two queues.
LEMMA SourceIsQueue == \A t \in Threads : Source(t) \in Queues
BY DEF Threads, Loops, Source, Queues

----------------------------------------------------------------------------
\* The variables keep their types, and a queue its bound, however the three
\* threads interleave; only the output queue can be corrupted past it.
THEOREM TypeCorrect == Spec => []TypeOK
<1>1. Init => TypeOK
  <2> SUFFICES ASSUME Init
               PROVE  TypeOK
    OBVIOUS
  <2>1. /\ queue \in [Queues -> Seq(Items)] /\ accepted \in [Queues -> Seq(Items)]
        /\ taken \in [Queues -> Seq(Items \cup {nullptr})]
        /\ \A q \in Queues : Len(queue[q]) <= MAX_TASKS
    BY QueuesAssumption DEF Init
  <2>2. {running, shared, corrupt} \subseteq BOOLEAN
    BY DEF Init
  <2> QED
    BY <2>1, <2>2 DEF Init, TypeOK
<1>2. TypeOK /\ [Next]_vars => TypeOK'
  <2> SUFFICES ASSUME TypeOK, [Next]_vars
               PROVE  TypeOK'
    OBVIOUS
  <2> USE QueuesAssumption, SourceIsQueue
  <2>1. CASE UNCHANGED vars
    BY <2>1 DEF TypeOK, vars
  <2>2. CASE start \/ stop \/ join \/ popFinishedResponse
    <3>1. /\ UNCHANGED <<queue, copy, accepted, taken, corrupt>>
          /\ running' \in BOOLEAN /\ shared' \in BOOLEAN
      BY <2>2 DEF TypeOK, start, stop, join, Join, popFinishedResponse, ghostVars
    <3>2. pc' \in [Threads -> {"none", "loop", "exited", "idle", "test", "front", "pop",
                               "joinTask", "joinResponse"}]
      BY <2>2 DEF TypeOK, start, stop, join, Join, popFinishedResponse, Goto
    <3> QED
      BY <3>1, <3>2 DEF TypeOK
  <2>3. ASSUME NEW q \in Queues, push(q)
        PROVE  TypeOK'
    <3>1. PICK item \in Items :
             /\ queue' = [queue EXCEPT ![q] = Append(queue[q], item)]
             /\ accepted' = [accepted EXCEPT ![q] = Append(accepted[q], item)]
      BY <2>3, PushAppends
    <3>2. /\ queue[q] \in Seq(Items) /\ accepted[q] \in Seq(Items)
          /\ Len(Append(queue[q], item)) = Len(queue[q]) + 1
          /\ Append(queue[q], item) \in Seq(Items)
          /\ Append(accepted[q], item) \in Seq(Items)
      BY <3>1, AppendProperties DEF TypeOK
    <3>3. Len(queue[q]) < MAX_TASKS \/ (q = "output" /\ corrupt)
      BY <2>3, <3>2 DEF push, Full
    <3>4. UNCHANGED <<running, pc, copy, taken, shared, corrupt>>
      BY <2>3 DEF push
    <3>5. queue' \in [Queues -> Seq(Items)] /\ accepted' \in [Queues -> Seq(Items)]
      BY <3>1, <3>2 DEF TypeOK
    <3>6. \A r \in Queues : Len(queue'[r]) <= MAX_TASKS \/ (r = "output" /\ corrupt')
      BY <3>1, <3>2, <3>3, <3>4 DEF TypeOK
    <3> QED
      BY <3>4, <3>5, <3>6 DEF TypeOK
  <2>4. ASSUME NEW t \in Loops, loop(t)
        PROVE  TypeOK'
    BY <2>4 DEF TypeOK, loop, Goto, ghostVars
  <2>5. ASSUME NEW t \in Threads, test(t)
        PROVE  TypeOK'
    BY <2>5 DEF TypeOK, test, Again, Goto, ghostVars
  <2>6. ASSUME NEW t \in Threads, front(t)
        PROVE  TypeOK'
    <3>1. queue[Source(t)] # <<>> => Head(queue[Source(t)]) \in Items
      BY HeadTailProperties DEF TypeOK
    <3> QED
      BY <2>6, <3>1 DEF TypeOK, front, Goto, ghostVars
  <2>7. ASSUME NEW t \in Threads, pop(t)
        PROVE  TypeOK'
    <3> DEFINE q == Source(t)
    <3>1. /\ q \in Queues /\ queue[q] \in Seq(Items) /\ copy[t] \in Items \cup {nullptr}
          /\ taken[q] \in Seq(Items \cup {nullptr})
      BY DEF TypeOK
    <3>2. Append(taken[q], copy[t]) \in Seq(Items \cup {nullptr})
      BY <3>1, AppendProperties
    <3>3. taken' \in [Queues -> Seq(Items \cup {nullptr})]
      BY <2>7, <3>1, <3>2 DEF TypeOK, pop
    <3>4. /\ corrupt' \in BOOLEAN
          /\ corrupt => corrupt'
          /\ queue' \in [Queues -> Seq(Items)]
          /\ \A r \in Queues : Len(queue'[r]) <= Len(queue[r])
      <4>1. CASE queue[q] = <<>>
        BY <2>7, <4>1 DEF TypeOK, pop
      <4>2. CASE queue[q] # <<>>
        <5>1. /\ queue' = [queue EXCEPT ![q] = Tail(queue[q])] /\ corrupt' = corrupt
          BY <2>7, <4>2 DEF pop
        <5>2. Tail(queue[q]) \in Seq(Items) /\ Len(Tail(queue[q])) <= Len(queue[q])
          BY <3>1, <4>2, HeadTailProperties
        <5> QED
          BY <5>1, <5>2 DEF TypeOK
      <4> QED
        BY <4>1, <4>2
    <3>5. \A r \in Queues : Len(queue'[r]) <= MAX_TASKS \/ (r = "output" /\ corrupt')
      <4> SUFFICES ASSUME NEW r \in Queues, ~(r = "output" /\ corrupt')
                   PROVE  Len(queue'[r]) <= MAX_TASKS
        OBVIOUS
      <4>1. Len(queue[r]) \in Nat /\ Len(queue'[r]) \in Nat
        BY <3>4 DEF TypeOK
      <4>2. Len(queue[r]) <= MAX_TASKS
        BY <3>4, Zenon DEF TypeOK
      <4> QED
        BY <3>4, <4>1, <4>2
    <3> QED
      BY <2>7, <3>1, <3>3, <3>4, <3>5 DEF TypeOK, pop, Goto, Again
  <2> QED
    BY NextSplit, <2>1, <2>2, <2>3, <2>4, <2>5, <2>6, <2>7
<1> QED
  BY <1>1, <1>2, PTL DEF Spec

----------------------------------------------------------------------------
\* JoinInv is inductive: start and stop act only while main is between calls,
\* and a loop ends only once the flag is down.
THEOREM JoinInvHolds == Spec => []JoinInv
<1> USE DEF JoinInv, ThreadsFollowRunning, Threads, Loops
<1>1. Init => JoinInv
  BY DEF Init
<1>2. TypeOK /\ JoinInv /\ [Next]_vars => JoinInv'
  <2> SUFFICES ASSUME TypeOK, JoinInv, [Next]_vars
               PROVE  JoinInv'
    OBVIOUS
  <2>0. pc \in [Threads -> {"none", "loop", "exited", "idle", "test", "front", "pop",
                            "joinTask", "joinResponse"}]
    BY DEF TypeOK
  <2>1. CASE UNCHANGED vars
    BY <2>1 DEF vars
  <2>2. CASE start
    BY <2>0, <2>2 DEF start
  <2>3. CASE stop
    BY <2>0, <2>3 DEF stop, Goto
  <2>4. CASE join
    BY <2>0, <2>4 DEF join, Join
  <2>5. CASE popFinishedResponse
    BY <2>0, <2>5 DEF popFinishedResponse, Goto
  <2>6. ASSUME NEW q \in Queues, push(q)
        PROVE  JoinInv'
    BY <2>6 DEF push
  <2>7. ASSUME NEW t \in Loops, loop(t)
        PROVE  JoinInv'
    BY <2>0, <2>7 DEF loop, Goto
  <2>8. ASSUME NEW t \in Threads, test(t)
        PROVE  JoinInv'
    BY <2>0, <2>8 DEF test, Again, Goto
  <2>9. ASSUME NEW t \in Threads, front(t)
        PROVE  JoinInv'
    BY <2>0, <2>9 DEF front, Goto
  <2>10. ASSUME NEW t \in Threads, pop(t)
         PROVE  JoinInv'
    BY <2>0, <2>10 DEF pop, Again, Goto
  <2> QED
    BY NextSplit, <2>1, <2>2, <2>3, <2>4, <2>5, <2>6, <2>7, <2>8, <2>9, <2>10
<1> QED
  BY <1>1, <1>2, TypeCorrect, PTL DEF Spec

\* The two threads exist exactly when running says so, whenever main is not in
\* the middle of stop.
THEOREM ThreadsFollow == Spec => []ThreadsFollowRunning
<1>1. JoinInv => ThreadsFollowRunning
  BY DEF JoinInv
<1> QED
  BY <1>1, JoinInvHolds, PTL

----------------------------------------------------------------------------
\* Appending to the second part of a sequence appends to the whole.
LEMMA AppendBehind ==
    ASSUME NEW S, NEW s \in Seq(S), NEW u \in Seq(S), NEW e \in S
    PROVE  s \o Append(u, e) = Append(s \o u, e)
OBVIOUS

\* Moving the head of the second part to the end of the first changes nothing.
LEMMA HeadMoves ==
    ASSUME NEW S, NEW s \in Seq(S), NEW u \in Seq(S), u # <<>>
    PROVE  Append(s, Head(u)) \o Tail(u) = s \o u
OBVIOUS

\* A push leaves the front of a queue alone.
LEMMA HeadStays ==
    ASSUME NEW S, NEW u \in Seq(S), NEW e \in S
    PROVE  /\ Append(u, e) # <<>>
           /\ u # <<>> => Head(Append(u, e)) = Head(u)
<1>1. Len(Append(u, e)) = Len(u) + 1 /\ Len(u) \in Nat /\ Append(u, e) \in Seq(S)
  BY AppendProperties
<1>2. Append(u, e) # <<>>
  BY <1>1
<1>3. ASSUME u # <<>>
      PROVE  Head(Append(u, e)) = Head(u)
  <2>1. Len(u) >= 1
    BY <1>1, <1>3, EmptySeq
  <2>2. Append(u, e)[1] = u[1]
    BY <2>1, AppendProperties
  <2> QED
    BY <1>1, <1>2, <1>3, <2>2, HeadTailProperties
<1> QED
  BY <1>2, <1>3

----------------------------------------------------------------------------
\* The steps that take nothing from a queue and put nothing in keep TakeInv, if
\* no thread gets to front or pop by them, the record shared only grows, and
\* main begins to pop only where TakeInv lets it.
LEMMA QuietSteps ==
    ASSUME TypeOK, TakeInv,
           UNCHANGED <<queue, copy, accepted, taken, corrupt>>,
           shared => shared',
           \A t \in Threads : pc'[t] \in {"front", "pop"} => pc'[t] = pc[t],
           ~shared' /\ pc'["main"] \in {"test", "front", "pop"} => ~running'
    PROVE  TakeInv'
BY DEF TakeInv, TakenInOrder, Quiet, Source

\* Two threads take from one queue only if shared says so: the one at work then
\* is the only one between its test and its pop.
LEMMA SoleTaker ==
    ASSUME TypeOK, JoinInv, TakeInv,
           NEW t \in Threads, NEW u \in Threads, t # u,
           pc[t] \in {"test", "front", "pop"}, pc[u] \in {"front", "pop"},
           Quiet(Source(t))
    PROVE  Source(t) # Source(u)
<1> USE DEF JoinInv, TakeInv, ThreadsFollowRunning, Threads, Loops, Source, Quiet
<1>1. CASE shared
  BY <1>1
<1>2. CASE ~shared /\ "main" \in {t, u}
  <2>1. ~running /\ pc["main"] \in {"test", "front", "pop"}
    BY <1>2
  <2>2. pc["task"] = "none" /\ pc["response"] = "none"
    BY <2>1
  <2> QED
    BY <1>2, <2>2
<1>3. CASE ~shared /\ "main" \notin {t, u}
  BY <1>3
<1> QED
  BY <1>1, <1>2, <1>3

\* TakeInv is inductive.
LEMMA TakeInvStep ==
    ASSUME TypeOK, JoinInv, TakeInv, [Next]_vars
    PROVE  TakeInv'
<1> USE SourceIsQueue
<1>0. pc \in [Threads -> {"none", "loop", "exited", "idle", "test", "front", "pop",
                          "joinTask", "joinResponse"}]
  BY DEF TypeOK
<1>1. CASE UNCHANGED vars
  BY <1>1 DEF vars, TakeInv, TakenInOrder, Quiet
<1>2. CASE start
  BY <1>0, <1>2, QuietSteps DEF start, ghostVars, Threads, Loops
<1>3. CASE stop
  BY <1>0, <1>3, QuietSteps DEF stop, Goto, ghostVars, Threads, Loops
<1>4. CASE join
  BY <1>0, <1>4, QuietSteps DEF join, Join, ghostVars, Threads, Loops
<1>5. CASE popFinishedResponse
  BY <1>0, <1>5, QuietSteps DEF popFinishedResponse, Goto, Threads, Loops
<1>6. ASSUME NEW t \in Loops, loop(t)
      PROVE  TakeInv'
  BY <1>0, <1>6, QuietSteps DEF loop, Goto, ghostVars, Threads, Loops, TakeInv
<1>7. ASSUME NEW q \in Queues, push(q)
      PROVE  TakeInv'
  <2>1. PICK item \in Items :
           /\ queue' = [queue EXCEPT ![q] = Append(queue[q], item)]
           /\ accepted' = [accepted EXCEPT ![q] = Append(accepted[q], item)]
    BY <1>7, PushAppends
  <2>2. UNCHANGED <<running, pc, copy, taken, shared, corrupt>>
    BY <1>7 DEF push
  <2>3. /\ queue[q] \in Seq(Items) /\ queue[q] \in Seq(Items \cup {nullptr})
        /\ taken[q] \in Seq(Items \cup {nullptr})
        /\ queue \in [Queues -> Seq(Items)] /\ accepted \in [Queues -> Seq(Items)]
    BY DEF TypeOK
  <2>4. /\ Append(queue[q], item) # <<>>
        /\ queue[q] # <<>> => Head(Append(queue[q], item)) = Head(queue[q])
        /\ taken[q] \o Append(queue[q], item) = Append(taken[q] \o queue[q], item)
    <3> DEFINE s == taken[q]
               u == queue[q]
               S == Items \cup {nullptr}
    <3>1. s \in Seq(S) /\ u \in Seq(S) /\ item \in S
      BY <2>3
    <3> HIDE DEF s, u, S
    <3>4. s \o Append(u, item) = Append(s \o u, item)
      BY <3>1, AppendBehind
    <3>2. taken[q] \o Append(queue[q], item) = Append(taken[q] \o queue[q], item)
      BY <3>4 DEF s, u
    <3> QED
      BY <2>3, <3>2, HeadStays
  <2>5. \A t \in Threads : Quiet(Source(t))' =>
          /\ pc'[t] \in {"front", "pop"} => queue'[Source(t)] # <<>>
          /\ pc'[t] = "pop" => copy'[t] = Head(queue'[Source(t)])
    BY <2>1, <2>2, <2>3, <2>4 DEF TakeInv, Quiet
  <2>6. TakenInOrder'
    BY <2>1, <2>2, <2>3, <2>4 DEF TakeInv, TakenInOrder
  <2> QED
    BY <2>2, <2>5, <2>6 DEF TakeInv
<1>8. ASSUME NEW t \in Threads, test(t)
      PROVE  TakeInv'
  <2>1. UNCHANGED <<running, queue, copy, accepted, taken, shared, corrupt>>
    BY <1>8 DEF test, ghostVars
  <2>2. /\ pc[t] = "test" /\ \A u \in Threads \ {t} : pc'[u] = pc[u]
        /\ pc'[t] \in {"idle", "loop", "front"}
        /\ pc'[t] = "front" => ~Empty(Source(t))
    BY <1>0, <1>8 DEF test, Goto, Again
  <2>3. Quiet(Source(t)) /\ pc'[t] = "front" => queue[Source(t)] # <<>>
    BY <2>2 DEF Empty, Quiet, TakeInv
  <2>4. ~shared /\ pc'["main"] \in {"test", "front", "pop"} => ~running
    BY <2>2 DEF TakeInv, Threads
  <2> QED
    BY <2>1, <2>2, <2>3, <2>4 DEF TakeInv, TakenInOrder, Quiet
<1>9. ASSUME NEW t \in Threads, front(t)
      PROVE  TakeInv'
  <2>1. UNCHANGED <<running, queue, accepted, taken, shared, corrupt>>
    BY <1>9 DEF front, ghostVars
  <2>2. /\ pc[t] = "front" /\ pc'[t] = "pop"
        /\ \A u \in Threads \ {t} : pc'[u] = pc[u] /\ copy'[u] = copy[u]
        /\ queue[Source(t)] # <<>> => copy'[t] = Head(queue[Source(t)])
    BY <1>0, <1>9 DEF front, Goto, TypeOK
  <2>4. ~shared /\ pc'["main"] \in {"test", "front", "pop"} => ~running
    BY <2>2 DEF TakeInv, Threads
  <2> QED
    BY <2>1, <2>2, <2>4 DEF TakeInv, TakenInOrder, Quiet
<1>10. ASSUME NEW t \in Threads, pop(t)
       PROVE  TakeInv'
  <2> DEFINE q == Source(t)
  <2>1. UNCHANGED <<running, accepted, shared>>
    BY <1>10 DEF pop
  <2>2. /\ pc[t] = "pop" /\ pc'[t] \in {"idle", "loop"}
        /\ \A u \in Threads \ {t} : pc'[u] = pc[u] /\ copy'[u] = copy[u]
    BY <1>0, <1>10 DEF pop, Goto, Again, TypeOK
  <2>3. ~shared /\ pc'["main"] \in {"test", "front", "pop"} => ~running
    BY <2>2 DEF TakeInv, Threads
  <2>4. q \in Queues /\ queue[q] \in Seq(Items) /\ queue \in [Queues -> Seq(Items)]
    BY DEF TypeOK
  <2>5. /\ \A r \in Queues \ {q} : queue'[r] = queue[r] /\ taken'[r] = taken[r]
    BY <1>10, <2>4 DEF pop, TypeOK
  <2>6. ASSUME Quiet(q)
        PROVE  /\ queue[q] # <<>> /\ copy[t] = Head(queue[q])
               /\ corrupt' = corrupt
               /\ queue'[q] = Tail(queue[q])
               /\ taken'[q] = Append(taken[q], Head(queue[q]))
    <3>1. queue[q] # <<>> /\ copy[t] = Head(queue[q])
      BY <2>2, <2>6 DEF TakeInv
    <3>2. /\ corrupt' = corrupt
          /\ queue' = [queue EXCEPT ![q] = Tail(queue[q])]
      BY <1>10, <3>1 DEF pop
    <3>3. ~(corrupt' /\ q = "output")
      BY <2>6, <3>2 DEF TakeInv, Quiet
    <3>4. taken' = [taken EXCEPT ![q] = Append(taken[q], copy[t])]
      BY <1>10, <3>3 DEF pop
    <3> QED
      BY <2>4, <3>1, <3>2, <3>4 DEF TypeOK
  <2>7. ~shared' => ~corrupt'
    BY <2>1, <2>6 DEF Quiet, TakeInv
  <2>8. ASSUME NEW u \in Threads, Quiet(Source(u))', pc'[u] \in {"front", "pop"}
        PROVE  /\ queue'[Source(u)] # <<>>
               /\ pc'[u] = "pop" => copy'[u] = Head(queue'[Source(u)])
    <3>1. u # t /\ pc[u] = pc'[u] /\ copy'[u] = copy[u] /\ Quiet(Source(u))
      BY <2>1, <2>2, <2>8 DEF Quiet
    <3>2. Source(u) # q
      BY <2>2, <2>8, <3>1, SoleTaker
    <3>3. queue'[Source(u)] = queue[Source(u)]
      BY <2>5, <3>2
    <3> QED
      BY <2>8, <3>1, <3>3 DEF TakeInv
  <2>9. TakenInOrder'
    <3> SUFFICES ASSUME NEW r \in Queues, Quiet(r)
                 PROVE  accepted[r] = taken'[r] \o queue'[r]
      BY <2>1 DEF TakenInOrder, Quiet
    <3>1. accepted[r] = taken[r] \o queue[r]
      BY DEF TakeInv, TakenInOrder, Quiet
    <3>2. CASE r # q
      BY <2>5, <3>1, <3>2
    <3>3. CASE r = q
      <4>1. queue[q] \in Seq(Items \cup {nullptr}) /\ taken[q] \in Seq(Items \cup {nullptr})
        BY <2>4 DEF TypeOK
      <4>2. /\ queue[q] # <<>> /\ queue'[q] = Tail(queue[q])
            /\ taken'[q] = Append(taken[q], Head(queue[q]))
        BY <2>6, <3>3
      <4>3. Append(taken[q], Head(queue[q])) \o Tail(queue[q]) = taken[q] \o queue[q]
        BY <4>1, <4>2, HeadMoves
      <4> QED
        BY <3>1, <3>3, <4>2, <4>3
    <3> QED
      BY <3>2, <3>3
  <2> QED
    BY <2>1, <2>3, <2>7, <2>8, <2>9 DEF TakeInv
<1> QED
  BY NextSplit, <1>1, <1>2, <1>3, <1>4, <1>5, <1>6, <1>7, <1>8, <1>9, <1>10

\* What was accepted is what was taken followed by what is queued, for a queue
\* that one thread empties: no item is lost, doubled or overtaken, wherever stop
\* comes between the test, the copy and the removal of a pop.
THEOREM OrderKept == Spec => []TakenInOrder
<1>1. Init => TakeInv
  <2> SUFFICES ASSUME Init
               PROVE  TakeInv
    OBVIOUS
  <2>1. TakenInOrder
    BY DEF Init, TakenInOrder
  <2> QED
    BY <2>1 DEF Init, TakeInv
<1>2. TypeOK /\ JoinInv /\ TakeInv /\ [Next]_vars => TakeInv'
  BY TakeInvStep
<1>3. TakeInv => TakenInOrder
  BY DEF TakeInv
<1> QED
  BY <1>1, <1>2, <1>3, TypeCorrect, JoinInvHolds, PTL DEF Spec

============================================================================
