------------------------- MODULE TaskManagerProofs -------------------------
(***************************************************************************)
(* Proofs about TaskManager, for any number of threads, ids and addresses  *)
(* and any capacities.                                                     *)
(*                                                                         *)
(* For the two classes that it is built from, whatever their callers do:   *)
(*   CacheSound         TaskCache: types, EntriesLive and WithinCapacity   *)
(*   RemovalKeepsOthers TaskQueue: what the drain-and-refill loop of       *)
(*                      removeFromQueue returns, by induction over it      *)
(*   QueuesTyped        TaskQueue: types and capacities                    *)
(*   OrderOfQueues      TaskQueue: no call lets a task overtake another    *)
(*                                                                         *)
(* Whatever the callers of TaskManager do:                                 *)
(*   CallsTypeCorrect   types of all but the processing queue              *)
(*   EntriesStayLive    the pool never dangles                             *)
(*   UsesTaskQueue      the queues see a behaviour of TaskQueue, so        *)
(*   TypeCorrect        both queues are bounded, and                       *)
(*   NoTaskOvertakes    both keep their order                              *)
(*                                                                         *)
(* For callers who promise UniqueIds and FinishDispatchedOnly:             *)
(*   OwnershipHolds     the inductive invariant, and what follows from it: *)
(*                      NoWriteDangles, ErasesWhatItFound,                 *)
(*                      PendingQueueIsPending, NoTaskLeaks                 *)
(*   PlacesHold         a second one on top of it, from which follow       *)
(*                      ProcessingQueueIsProcessing, OnePlaceEach          *)
(*   LifecycleImplemented   TaskManager implements TaskLifecycle           *)
(***************************************************************************)
EXTENDS TaskManager, SequenceTheorems, FiniteSetTheorems, WellFoundedInduction, TLAPS

----------------------------------------------------------------------------
\* The steps of TaskManager in a form that names each action once.
LEMMA NextSplit ==
    ASSUME [Next]_vars
    PROVE  \/ UNCHANGED vars
           \/ \E t \in Threads :
                 \/ enqueue(t) \/ assign(t) \/ track(t)
                 \/ write(t) \/ untrack(t) \/ release(t)
                 \/ getNextPendingTask(t)
                 \/ \E id \in Ids : createTask(t, id) \/ lookup(t, id)
BY DEF Next, Step, Call

\* A live record is a TaskContext, and so is what a status write makes of it.
LEMMA WriteKeepsTasks ==
    ASSUME C!TypeOK, NEW a, NEW status \in C!TaskStatus, C!WriteStatus(a, status)
    PROVE  /\ heap' \in [Addrs -> C!TaskContext \cup {C!Freed}]
           /\ \A b \in Addrs : heap'[b].request_id = heap[b].request_id
           /\ \A b \in Addrs : (heap'[b] = C!Freed) <=> (heap[b] = C!Freed)
           /\ \A b \in Addrs : b # a => heap'[b] = heap[b]
           /\ a \in Addrs /\ C!Live(a) => heap'[a].status = status
BY ManagerAssumption DEF C!TypeOK, C!WriteStatus, C!Live, C!Freed, C!TaskContext, C!TaskStatus

----------------------------------------------------------------------------
\* The locals of a thread follow its program counter, pointers are addresses,
\* and the pending queue is bounded, whatever the callers do.
THEOREM CallsTypeCorrect == Spec => []CallsTypeOK
<1>1. Init => CallsTypeOK
  BY ManagerAssumption
  DEF Init, C!Init, Q!Init, CallsTypeOK, C!TypeOK, Steps, Busy, Passing, Finishing
<1>2. CallsTypeOK /\ [Next]_vars => CallsTypeOK'
  <2> SUFFICES ASSUME CallsTypeOK, [Next]_vars
               PROVE  CallsTypeOK'
    OBVIOUS
  <2> USE ManagerAssumption
  <2>1. CASE UNCHANGED vars
    BY <2>1 DEF CallsTypeOK, vars, cacheVars, queueVars, threadVars, ghostVars,
                C!TypeOK, Busy, Passing, Finishing
  <2>2. ASSUME NEW t \in Threads, NEW id \in Ids, createTask(t, id)
        PROVE  CallsTypeOK'
    <3>1. PICK ptr \in Addrs \cup {nullptr} :
             /\ C!createTask(id, ptr)
             /\ IF ptr = nullptr THEN Return(t) ELSE Goto(t, "enqueue", ptr, nullptr)
      BY <2>2 DEF createTask
    <3>2. UNCHANGED <<pending_queue, processing_queue, dispatched, stranded>>
      BY <2>2 DEF createTask, queueVars, ghostVars
    <3>3. C!TypeOK'
      BY <3>1 DEF CallsTypeOK, C!createTask, C!cacheVars, C!TypeOK, C!TaskContext, C!TaskStatus
    <3>4. CASE ptr = nullptr
      BY <3>1, <3>2, <3>3, <3>4
      DEF CallsTypeOK, Return, Goto, Steps, Busy, Passing, Finishing
    <3>5. CASE ptr # nullptr
      BY <3>1, <3>2, <3>3, <3>5 DEF CallsTypeOK, Goto, Steps, Busy, Passing, Finishing
    <3> QED
      BY <3>4, <3>5
  <2>3. ASSUME NEW t \in Threads, enqueue(t)
        PROVE  CallsTypeOK'
    <3>1. t \in Busy /\ task[t] \in Addrs
      BY <2>3 DEF CallsTypeOK, enqueue, Busy, Passing
    <3>2. pending_queue' \in Seq(Addrs) /\ Len(pending_queue') <= MAX_PENDING_QUEUE
      BY <2>3, <3>1 DEF CallsTypeOK, enqueue, Q!addToPendingQueue, Q!Push
    <3> QED
      BY <2>3, <3>1, <3>2
      DEF CallsTypeOK, enqueue, Return, Goto, Steps, cacheVars, C!TypeOK,
          Busy, Passing, Finishing
  <2>4. ASSUME NEW t \in Threads, getNextPendingTask(t)
        PROVE  CallsTypeOK'
    <3>1. PICK ptr \in Addrs \cup {nullptr} :
             /\ Q!getNextPendingTask(ptr)
             /\ IF ptr = nullptr THEN Return(t) ELSE Goto(t, "assign", ptr, nullptr)
      BY <2>4 DEF getNextPendingTask
    <3>2. pending_queue' \in Seq(Addrs) /\ Len(pending_queue') <= MAX_PENDING_QUEUE
      <4>1. pending_queue \in Seq(Addrs) /\ Len(pending_queue) <= MAX_PENDING_QUEUE
        BY DEF CallsTypeOK
      <4>2. CASE pending_queue' = pending_queue
        BY <4>1, <4>2
      <4>3. CASE pending_queue # <<>> /\ pending_queue' = Tail(pending_queue)
        BY <4>1, <4>3, HeadTailProperties
      <4> QED
        BY <3>1, <4>2, <4>3 DEF Q!getNextPendingTask
    <3>3. CASE ptr = nullptr
      BY <2>4, <3>1, <3>2, <3>3
      DEF CallsTypeOK, getNextPendingTask, Return, Goto, Steps, cacheVars, ghostVars,
          C!TypeOK, Busy, Passing, Finishing
    <3>4. CASE ptr # nullptr
      BY <2>4, <3>1, <3>2, <3>4
      DEF CallsTypeOK, getNextPendingTask, Goto, Steps, cacheVars, ghostVars,
          C!TypeOK, Busy, Passing, Finishing
    <3> QED
      BY <3>3, <3>4
  <2>5. ASSUME NEW t \in Threads, assign(t)
        PROVE  CallsTypeOK'
    <3>1. heap' \in [Addrs -> C!TaskContext \cup {C!Freed}]
      BY <2>5, WriteKeepsTasks DEF CallsTypeOK, assign, C!TaskStatus
    <3> QED
      BY <2>5, <3>1
      DEF CallsTypeOK, assign, Goto, Steps, queueVars, ghostVars, C!TypeOK,
          Busy, Passing, Finishing
  <2>6. ASSUME NEW t \in Threads, track(t)
        PROVE  CallsTypeOK'
    <3>1. dispatched' \subseteq Ids
      BY <2>6 DEF CallsTypeOK, track, C!TypeOK, C!Live, C!TaskContext,
                  Busy, Passing, Finishing
    <3> QED
      BY <2>6, <3>1
      DEF CallsTypeOK, track, Q!addToProcessingQueue, Return, Goto, Steps, cacheVars,
          C!TypeOK, Busy, Passing, Finishing
  <2>7. ASSUME NEW t \in Threads, NEW id \in Ids, lookup(t, id)
        PROVE  CallsTypeOK'
    BY <2>7 DEF CallsTypeOK, lookup, C!getTask, Return, Goto, Steps, cacheVars, queueVars,
                C!TypeOK, Busy, Passing, Finishing
  <2>8. ASSUME NEW t \in Threads, write(t)
        PROVE  CallsTypeOK'
    <3>1. heap' \in [Addrs -> C!TaskContext \cup {C!Freed}]
      BY <2>8, WriteKeepsTasks DEF CallsTypeOK, write, C!TaskStatus
    <3> QED
      BY <2>8, <3>1
      DEF CallsTypeOK, write, Goto, Steps, queueVars, ghostVars, C!TypeOK,
          Busy, Passing, Finishing
  <2>9. ASSUME NEW t \in Threads, untrack(t)
        PROVE  CallsTypeOK'
    BY <2>9 DEF CallsTypeOK, untrack, Q!removeFromProcessingQueue, Goto, Steps, cacheVars,
                ghostVars, C!TypeOK, Busy, Passing, Finishing
  <2>10. ASSUME NEW t \in Threads, release(t)
         PROVE  CallsTypeOK'
    BY <2>10 DEF CallsTypeOK, release, C!completeTask, C!getTask, C!Cached, C!cacheVars,
                 Return, Goto, Steps, queueVars, C!TypeOK, Busy, Passing, Finishing
  <2> QED
    BY NextSplit, <2>1, <2>2, <2>3, <2>4, <2>5, <2>6, <2>7, <2>8, <2>9, <2>10
<1> QED
  BY <1>1, <1>2, PTL DEF Spec

----------------------------------------------------------------------------
\* An entry of the pool never dangles: the key always leads to a live task that
\* was created under it, whatever threads call and in whatever order.
THEOREM EntriesStayLive == Spec => []EntriesLive
<1>1. Init => EntriesLive
  BY DEF Init, C!Init, EntriesLive, C!EntriesLive, C!Cached
<1>2. CallsTypeOK /\ EntriesLive /\ [Next]_vars => EntriesLive'
  <2> SUFFICES ASSUME CallsTypeOK, EntriesLive, [Next]_vars
               PROVE  EntriesLive'
    OBVIOUS
  <2> USE ManagerAssumption DEF EntriesLive, C!EntriesLive, C!Cached, C!Live
  <2>1. CASE UNCHANGED cacheVars
    BY <2>1 DEF cacheVars
  <2>2. ASSUME NEW t \in Threads, NEW id \in Ids, createTask(t, id)
        PROVE  EntriesLive'
    BY <2>2 DEF CallsTypeOK, createTask, C!createTask, C!cacheVars, C!TypeOK, C!Freed
  <2>3. ASSUME NEW a, NEW status \in C!TaskStatus, C!WriteStatus(a, status),
               UNCHANGED task_cache
        PROVE  EntriesLive'
    BY <2>3, WriteKeepsTasks DEF CallsTypeOK, C!TypeOK
  <2>4. ASSUME NEW t \in Threads, release(t)
        PROVE  EntriesLive'
    BY <2>4 DEF CallsTypeOK, release, C!completeTask, C!cacheVars, C!TypeOK
  <2>5. ASSUME NEW t \in Threads, assign(t) \/ write(t)
        PROVE  EntriesLive'
    BY <2>3, <2>5 DEF assign, write, C!TaskStatus
  <2>6. ASSUME NEW t \in Threads,
               \/ enqueue(t) \/ track(t) \/ untrack(t) \/ getNextPendingTask(t)
               \/ \E id \in Ids : lookup(t, id)
        PROVE  UNCHANGED cacheVars
    BY <2>6 DEF enqueue, track, untrack, getNextPendingTask, lookup, cacheVars
  <2>7. UNCHANGED vars => UNCHANGED cacheVars
    BY DEF vars
  <2> QED
    BY NextSplit, <2>1, <2>2, <2>4, <2>5, <2>6, <2>7
<1> QED
  BY <1>1, <1>2, CallsTypeCorrect, PTL DEF Spec

----------------------------------------------------------------------------
\* Thread t is now at step, with ptr and id as its locals; the others have not
\* moved, and are inside a call, or finishing a task, exactly if they were.
Moved(t, step, ptr, id) ==
    /\ \A u \in Threads \ {t} : /\ pc'[u] = pc[u]
                                /\ task'[u] = task[u]
                                /\ request_id'[u] = request_id[u]
                                /\ (u \in Busy') <=> (u \in Busy)
                                /\ (u \in Finishing') <=> (u \in Finishing)
    /\ pc'[t] = step /\ task'[t] = ptr /\ request_id'[t] = id
    /\ (t \in Busy') <=> step # "idle"
    /\ (t \in Finishing') <=> step \in {"write", "untrack", "release"}
    /\ Busy' \subseteq Threads

\* Goto, the way every action moves its thread, touches nothing of the others.
LEMMA GotoMoves ==
    ASSUME CallsTypeOK, NEW t \in Threads, NEW step \in Steps, NEW ptr, NEW id,
           Goto(t, step, ptr, id)
    PROVE  Moved(t, step, ptr, id)
BY DEF CallsTypeOK, Goto, Moved, Steps, Busy, Passing, Finishing

\* The derived sets of threads, as the actions' proofs use them.
LEMMA BusyThreads == Busy \subseteq Threads /\ Finishing \subseteq Busy
BY DEF Busy, Passing, Finishing

\* Ownership is inductive when ids are unique and only dispatched tasks are
\* finished: each step passes a task on from one owner to the next.
LEMMA OwnershipStep ==
    ASSUME UniqueIds, FinishDispatchedOnly,
           CallsTypeOK, CallsTypeOK', Ownership, EntriesLive', [Next]_vars
    PROVE  Ownership'
<1> USE ManagerAssumption, BusyThreads
<1>1. CASE UNCHANGED vars
  BY <1>1 DEF Ownership, PoolOwnsHeap, QueueOwns, ThreadOwns, CallerOwns, vars, cacheVars,
              queueVars, threadVars, ghostVars, C!Live, C!Cached, Busy, Passing, Finishing
<1>2. ASSUME NEW t \in Threads, NEW id \in Ids, createTask(t, id)
      PROVE  Ownership'
  <2>1. PICK ptr \in Addrs \cup {nullptr} :
           /\ C!createTask(id, ptr)
           /\ IF ptr = nullptr THEN Return(t) ELSE Goto(t, "enqueue", ptr, nullptr)
    BY <1>2 DEF createTask
  <2>2. /\ pc[t] = "idle" /\ t \notin Busy
        /\ C!isFull \/ id \notin C!Cached
        /\ UNCHANGED <<pending_queue, dispatched>>
    BY <1>2 DEF createTask, queueVars, ghostVars, Busy, Passing, Finishing
  <2>3. CASE ptr = nullptr
    <3>1. Moved(t, "idle", nullptr, nullptr)
      BY <2>1, <2>3, GotoMoves DEF Return, Steps
    <3>2. UNCHANGED <<task_cache, heap>>
      BY <2>1, <2>3 DEF C!createTask, C!cacheVars
    <3> QED
      BY <2>2, <3>1, <3>2
      DEF Moved, Ownership, PoolOwnsHeap, QueueOwns, ThreadOwns, CallerOwns, C!Live, C!Cached
  <2>4. CASE ptr # nullptr
    <3>0. id \notin C!Cached
      BY <2>1, <2>2, <2>4 DEF C!createTask
    <3>1. /\ ptr \in Addrs
          /\ ~C!Live(ptr)
          /\ heap' = [heap EXCEPT ![ptr] = [request_id |-> id, status |-> "PENDING"]]
          /\ task_cache' = [task_cache EXCEPT ![id] = ptr]
          /\ Moved(t, "enqueue", ptr, nullptr)
      BY <2>1, <2>2, <2>4, <3>0, GotoMoves
      DEF C!createTask, C!Cached, C!cacheVars, CallsTypeOK, C!TypeOK, Steps
    <3>2. /\ \A i \in DOMAIN pending_queue : pending_queue[i] \in Addrs \ {ptr}
          /\ \A u \in Busy : task[u] \in Addrs \ {ptr}
          /\ \A d \in dispatched : d \in Ids \ {id} /\ task_cache[d] \in Addrs \ {ptr}
      BY <2>2, <3>0, <3>1 DEF Ownership, QueueOwns, ThreadOwns, CallerOwns, CallsTypeOK, EntriesLive,
                  C!EntriesLive, C!TypeOK, C!Cached, C!Live
    <3>3. /\ \A a \in Addrs \ {ptr} : heap'[a] = heap[a]
          /\ heap'[ptr].status = "PENDING" /\ heap'[ptr].request_id = id
          /\ heap'[ptr] # C!Freed
          /\ \A d \in Ids \ {id} : task_cache'[d] = task_cache[d]
          /\ task_cache'[id] = ptr
      BY <3>1 DEF CallsTypeOK, C!TypeOK, C!Freed
    <3>4. PoolOwnsHeap'
      BY <3>0, <3>3 DEF Ownership, PoolOwnsHeap, C!Live, C!Cached, CallsTypeOK, C!TypeOK, C!TaskContext
    <3>5. QueueOwns'
      BY <2>2, <3>2, <3>3 DEF Ownership, QueueOwns, C!Live
    <3>6. ThreadOwns'
      BY <2>2, <3>1, <3>2, <3>3 DEF Moved, Ownership, ThreadOwns, C!Live
    <3>7. CallerOwns'
      BY <2>2, <3>1, <3>2, <3>3 DEF Moved, Ownership, CallerOwns, C!Cached
    <3> QED
      BY <3>4, <3>5, <3>6, <3>7 DEF Ownership
  <2> QED
    BY <2>3, <2>4
<1>3. ASSUME NEW t \in Threads, enqueue(t)
      PROVE  Ownership'
  <2>1. /\ t \in Busy /\ pc[t] = "enqueue" /\ Moved(t, "idle", nullptr, nullptr)
        /\ UNCHANGED <<task_cache, heap, dispatched>>
    BY <1>3, GotoMoves DEF enqueue, Return, Busy, Passing, cacheVars, Steps
  <2>2. task[t] \in Addrs /\ pending_queue \in Seq(Addrs)
    BY <2>1 DEF CallsTypeOK
  <2>3. CASE pending_queue' = pending_queue
    BY <2>1, <2>3
    DEF Moved, Ownership, PoolOwnsHeap, QueueOwns, ThreadOwns, CallerOwns, C!Live, C!Cached
  <2>4. CASE pending_queue' = Append(pending_queue, task[t])
    <3>1. /\ DOMAIN pending_queue = 1 .. Len(pending_queue)
          /\ DOMAIN pending_queue' = 1 .. Len(pending_queue) + 1
          /\ \A i \in DOMAIN pending_queue : pending_queue'[i] = pending_queue[i]
          /\ pending_queue'[Len(pending_queue) + 1] = task[t]
      BY <2>2, <2>4, AppendProperties
    <3>2. PoolOwnsHeap'
      BY <2>1 DEF Ownership, PoolOwnsHeap, C!Live
    <3>3. QueueOwns'
      BY <2>1, <2>2, <3>1 DEF Ownership, QueueOwns, ThreadOwns, C!Live
    <3>4. ThreadOwns'
      BY <2>1, <2>2, <3>1 DEF Moved, Ownership, ThreadOwns, C!Live
    <3>5. CallerOwns'
      BY <2>1, <2>2, <3>1 DEF Moved, Ownership, CallerOwns, C!Cached
    <3> QED
      BY <3>2, <3>3, <3>4, <3>5 DEF Ownership
  <2> QED
    BY <1>3, <2>3, <2>4 DEF enqueue, Q!addToPendingQueue, Q!Push
<1>4. ASSUME NEW t \in Threads, getNextPendingTask(t)
      PROVE  Ownership'
  <2>1. PICK ptr \in Addrs \cup {nullptr} :
           /\ Q!getNextPendingTask(ptr)
           /\ IF ptr = nullptr THEN Return(t) ELSE Goto(t, "assign", ptr, nullptr)
    BY <1>4 DEF getNextPendingTask
  <2>2. /\ pc[t] = "idle" /\ t \notin Busy
        /\ UNCHANGED <<task_cache, heap, dispatched>>
    BY <1>4 DEF getNextPendingTask, cacheVars, ghostVars, Busy, Passing, Finishing
  <2>3. pending_queue \in Seq(Addrs)
    BY DEF CallsTypeOK
  <2>4. CASE ptr = nullptr
    <3>1. pending_queue' = pending_queue
      BY <2>1, <2>3, <2>4, HeadTailProperties DEF Q!getNextPendingTask
    <3>2. Moved(t, "idle", nullptr, nullptr)
      BY <2>1, <2>4, GotoMoves DEF Return, Steps
    <3> QED
      BY <2>2, <3>1, <3>2
      DEF Moved, Ownership, PoolOwnsHeap, QueueOwns, ThreadOwns, CallerOwns, C!Live, C!Cached
  <2>5. CASE ptr # nullptr
    <3>1. /\ pending_queue # <<>> /\ ptr = Head(pending_queue)
          /\ pending_queue' = Tail(pending_queue)
          /\ Moved(t, "assign", ptr, nullptr)
      BY <2>1, <2>5, GotoMoves DEF Q!getNextPendingTask, Steps
    <3>2. /\ ptr = pending_queue[1] /\ 1 \in DOMAIN pending_queue
          /\ \A i \in DOMAIN pending_queue' : /\ i + 1 \in DOMAIN pending_queue \ {1}
                                              /\ pending_queue'[i] = pending_queue[i + 1]
          /\ DOMAIN pending_queue' \subseteq Nat
      BY <2>3, <3>1, HeadTailProperties
    <3>3. PoolOwnsHeap'
      BY <2>2 DEF Ownership, PoolOwnsHeap, C!Live
    <3>4. QueueOwns'
      BY <2>2, <3>2 DEF Ownership, QueueOwns, C!Live
    <3>5. /\ C!Live(ptr) /\ heap[ptr].status = "PENDING"
          /\ \A i \in DOMAIN pending_queue' : pending_queue'[i] # ptr
          /\ \A u \in Busy : task[u] # ptr
          /\ \A d \in dispatched : task_cache[d] # ptr
      BY <3>2 DEF Ownership, QueueOwns, ThreadOwns, CallerOwns
    <3>6. ThreadOwns'
      BY <2>2, <3>1, <3>2, <3>5 DEF Moved, Ownership, ThreadOwns, C!Live
    <3>7. CallerOwns'
      BY <2>2, <3>1, <3>2, <3>5 DEF Moved, Ownership, CallerOwns, C!Cached
    <3> QED
      BY <3>3, <3>4, <3>6, <3>7 DEF Ownership
  <2> QED
    BY <2>4, <2>5
<1>5. ASSUME NEW t \in Threads, assign(t)
      PROVE  Ownership'
  <2>1. /\ t \in Busy /\ t \notin Finishing /\ pc[t] = "assign"
        /\ Moved(t, "track", task[t], nullptr)
        /\ C!WriteStatus(task[t], "PROCESSING")
        /\ UNCHANGED <<task_cache, pending_queue, dispatched>>
    BY <1>5, GotoMoves DEF Steps, assign, Busy, Passing, Finishing, queueVars, ghostVars
  <2>2. /\ \A a \in Addrs : heap'[a].request_id = heap[a].request_id
        /\ \A a \in Addrs : (heap'[a] = C!Freed) <=> (heap[a] = C!Freed)
        /\ \A a \in Addrs \ {task[t]} : heap'[a] = heap[a]
    BY <2>1, WriteKeepsTasks DEF CallsTypeOK, C!TaskStatus
  <2>3. /\ \A i \in DOMAIN pending_queue : pending_queue[i] \in Addrs \ {task[t]}
        /\ \A u \in Busy \ {t} : task[u] \in Addrs \ {task[t]}
    BY <2>1 DEF CallsTypeOK, Ownership, ThreadOwns
  <2> QED
    BY <2>1, <2>2, <2>3
    DEF Moved, Ownership, PoolOwnsHeap, QueueOwns, ThreadOwns, CallerOwns, C!Live, C!Cached,
        CallsTypeOK
<1>6. ASSUME NEW t \in Threads, track(t)
      PROVE  Ownership'
  <2>1. /\ t \in Busy /\ pc[t] = "track" /\ Moved(t, "idle", nullptr, nullptr)
        /\ UNCHANGED <<task_cache, heap, pending_queue>>
    BY <1>6, GotoMoves DEF Steps, track, Q!addToProcessingQueue, Return, Busy, Passing, cacheVars
  <2>2. /\ task[t] \in Addrs /\ C!Live(task[t])
        /\ heap[task[t]].request_id \in Ids
        /\ task_cache[heap[task[t]].request_id] = task[t]
        /\ dispatched' = dispatched \cup {heap[task[t]].request_id}
    BY <1>6, <2>1 DEF track, CallsTypeOK, C!TypeOK, C!TaskContext, Ownership, PoolOwnsHeap,
                      ThreadOwns, C!Live
  <2>3. CallerOwns'
    BY <2>1, <2>2 DEF Moved, Ownership, ThreadOwns, CallerOwns, C!Cached
  <2> QED
    BY <2>1, <2>3
    DEF Moved, Ownership, PoolOwnsHeap, QueueOwns, ThreadOwns, C!Live
<1>7. ASSUME NEW t \in Threads, NEW id \in Ids, lookup(t, id)
      PROVE  Ownership'
  <2>1. /\ t \notin Busy
        /\ id \in dispatched /\ dispatched' = dispatched \ {id}
        /\ UNCHANGED <<task_cache, heap, pending_queue>>
    BY <1>7 DEF lookup, Busy, Passing, Finishing, cacheVars, queueVars
  <2>2. /\ task_cache[id] # nullptr /\ task_cache[id] \in Addrs
        /\ C!Live(task_cache[id]) /\ heap[task_cache[id]].request_id = id
        /\ \A i \in DOMAIN pending_queue : pending_queue[i] # task_cache[id]
        /\ \A u \in Busy : task[u] # task_cache[id]
    BY <2>1 DEF CallsTypeOK, C!TypeOK, Ownership, CallerOwns, C!Cached, EntriesLive,
                C!EntriesLive
  <2>3. Moved(t, "write", task_cache[id], id)
    BY <1>7, <2>2, GotoMoves DEF lookup, C!getTask, Steps
  <2>4. \A d \in dispatched' : d \in Ids /\ task_cache[d] # task_cache[id]
    BY <2>1, <2>2 DEF CallsTypeOK, Ownership, CallerOwns, EntriesLive, C!EntriesLive, C!Cached
  <2>5. ThreadOwns'
    BY <2>1, <2>2, <2>3 DEF Moved, Ownership, ThreadOwns, C!Live
  <2>6. CallerOwns'
    BY <2>1, <2>3, <2>4 DEF Moved, Ownership, CallerOwns, C!Cached
  <2> QED
    BY <2>1, <2>5, <2>6 DEF Ownership, PoolOwnsHeap, QueueOwns, C!Live
<1>8. ASSUME NEW t \in Threads, write(t)
      PROVE  Ownership'
  <2>1. PICK status \in {"COMPLETED", "FAILED"} : C!WriteStatus(task[t], status)
    BY <1>8 DEF write
  <2>2. /\ t \in Busy /\ t \in Finishing
        /\ Goto(t, "untrack", task[t], request_id[t])
        /\ UNCHANGED <<task_cache, pending_queue, dispatched>>
    BY <1>8 DEF write, Busy, Finishing, queueVars, ghostVars
  <2>5. Moved(t, "untrack", task[t], request_id[t])
    BY <2>2, GotoMoves DEF Steps
  <2>3. /\ \A a \in Addrs : heap'[a].request_id = heap[a].request_id
        /\ \A a \in Addrs : (heap'[a] = C!Freed) <=> (heap[a] = C!Freed)
        /\ \A a \in Addrs \ {task[t]} : heap'[a] = heap[a]
    BY <2>1, WriteKeepsTasks DEF CallsTypeOK, C!TaskStatus
  <2>4. /\ \A i \in DOMAIN pending_queue : pending_queue[i] \in Addrs \ {task[t]}
        /\ \A u \in Busy \ {t} : task[u] \in Addrs \ {task[t]}
    BY <2>2 DEF CallsTypeOK, Ownership, ThreadOwns
  <2> QED
    BY <2>2, <2>3, <2>4, <2>5
    DEF Moved, Ownership, PoolOwnsHeap, QueueOwns, ThreadOwns, CallerOwns, C!Live, C!Cached,
        CallsTypeOK
<1>9. ASSUME NEW t \in Threads, untrack(t)
      PROVE  Ownership'
  <2>1. /\ t \in Busy /\ t \in Finishing
        /\ Goto(t, "release", task[t], request_id[t])
        /\ UNCHANGED <<task_cache, heap, pending_queue, dispatched>>
    BY <1>9 DEF untrack, Q!removeFromProcessingQueue, Busy, Finishing, cacheVars, ghostVars
  <2>2. Moved(t, "release", task[t], request_id[t])
    BY <2>1, GotoMoves DEF Steps
  <2> QED
    BY <2>1, <2>2
    DEF Moved, Ownership, PoolOwnsHeap, QueueOwns, ThreadOwns, CallerOwns, C!Live, C!Cached
<1>10. ASSUME NEW t \in Threads, release(t)
       PROVE  Ownership'
  <2> DEFINE id == request_id[t]
             a  == task[t]
  <2>1. /\ t \in Busy /\ t \in Finishing
        /\ Moved(t, "idle", nullptr, nullptr)
        /\ UNCHANGED <<pending_queue, dispatched>>
    BY <1>10, GotoMoves DEF Steps, release, Return, Busy, Finishing, queueVars
  <2>2. /\ id \in Ids /\ a \in Addrs
        /\ C!Live(a) /\ heap[a].request_id = id
        /\ task_cache[id] = a
    BY <2>1 DEF CallsTypeOK, Ownership, ThreadOwns, PoolOwnsHeap
  <2>3. /\ heap' = [heap EXCEPT ![a] = C!Freed]
        /\ task_cache' = [task_cache EXCEPT ![id] = nullptr]
    BY <1>10, <2>2 DEF release, C!completeTask, C!Cached
  <2>4. /\ \A b \in Addrs \ {a} : heap'[b] = heap[b]
        /\ heap'[a] = C!Freed
        /\ \A d \in Ids \ {id} : task_cache'[d] = task_cache[d]
    BY <2>2, <2>3 DEF CallsTypeOK, C!TypeOK
  <2>5. /\ \A i \in DOMAIN pending_queue : pending_queue[i] \in Addrs \ {a}
        /\ \A u \in Busy \ {t} : task[u] \in Addrs \ {a}
        /\ \A d \in dispatched : d \in Ids \ {id}
    BY <2>1, <2>2 DEF CallsTypeOK, Ownership, ThreadOwns, CallerOwns
  <2>6. PoolOwnsHeap'
    BY <2>2, <2>4 DEF Ownership, PoolOwnsHeap, C!Live, CallsTypeOK, C!TypeOK, C!TaskContext
  <2>7. QueueOwns'
    BY <2>1, <2>4, <2>5 DEF Ownership, QueueOwns, C!Live
  <2>8. ThreadOwns'
    BY <2>1, <2>4, <2>5 DEF Moved, Ownership, ThreadOwns, C!Live
  <2>9. CallerOwns'
    BY <2>1, <2>4, <2>5 DEF Moved, Ownership, CallerOwns, C!Cached
  <2> QED
    BY <2>6, <2>7, <2>8, <2>9 DEF Ownership
<1> QED
  BY NextSplit, <1>1, <1>2, <1>3, <1>4, <1>5, <1>6, <1>7, <1>8, <1>9, <1>10

\* Every task has one owner at a time, for callers who keep their promises.
THEOREM OwnershipHolds ==
    ASSUME UniqueIds, FinishDispatchedOnly
    PROVE  Spec => []Ownership
<1>1. Init => Ownership
  BY DEF Init, C!Init, Q!Init, Ownership, EntriesLive, C!EntriesLive, PoolOwnsHeap, QueueOwns,
         ThreadOwns, CallerOwns, C!Cached, C!Live, Busy, Passing, Finishing
<1>2. CallsTypeOK /\ CallsTypeOK' /\ EntriesLive' /\ Ownership /\ [Next]_vars => Ownership'
  BY OwnershipStep
<1> QED
  BY <1>1, <1>2, CallsTypeCorrect, EntriesStayLive, PTL DEF Spec

----------------------------------------------------------------------------
\* The status writes that hold no lock never reach a deleted task.
THEOREM NoWriteDangles ==
    ASSUME UniqueIds, FinishDispatchedOnly
    PROVE  Spec => []NoDanglingWrite
<1>1. Ownership => NoDanglingWrite
  BY DEF Ownership, ThreadOwns, NoDanglingWrite, Busy, Passing, Finishing
<1> QED
  BY <1>1, OwnershipHolds, PTL

\* What completeTask and failTask erase at the end is what they found first.
THEOREM ErasesWhatItFound ==
    ASSUME UniqueIds, FinishDispatchedOnly
    PROVE  Spec => []FinishesWhatItFound
<1>1. CallsTypeOK /\ Ownership => FinishesWhatItFound
  BY DEF CallsTypeOK, Ownership, PoolOwnsHeap, ThreadOwns, FinishesWhatItFound, Busy, Passing,
         Finishing
<1> QED
  BY <1>1, CallsTypeCorrect, OwnershipHolds, PTL

\* The pending queue holds tasks of the pool that are PENDING, and no others.
THEOREM PendingQueueIsPending ==
    ASSUME UniqueIds, FinishDispatchedOnly
    PROVE  Spec => []PendingQueueMeansPending
<1>1. CallsTypeOK /\ Ownership => PendingQueueMeansPending
  BY DEF CallsTypeOK, Ownership, PoolOwnsHeap, QueueOwns, PendingQueueMeansPending, InPool
<1> QED
  BY <1>1, CallsTypeCorrect, OwnershipHolds, PTL

\* No task leaks: what has been allocated and not deleted is in the pool.
THEOREM NoTaskLeaks ==
    ASSUME UniqueIds, FinishDispatchedOnly
    PROVE  Spec => []StoresAllTasks
<1>1. CallsTypeOK /\ Ownership => StoresAllTasks
  <2> SUFFICES ASSUME CallsTypeOK, Ownership, NEW a \in Addrs, C!Live(a)
               PROVE  \E id \in C!Cached : task_cache[id] = a
    BY DEF StoresAllTasks, C!StoresAllTasks
  <2>1. heap[a].request_id \in Ids /\ task_cache[heap[a].request_id] = a
    BY DEF CallsTypeOK, C!TypeOK, C!Live, C!TaskContext, Ownership, PoolOwnsHeap
  <2> QED
    BY <2>1, ManagerAssumption DEF C!Cached
<1> QED
  BY <1>1, CallsTypeCorrect, OwnershipHolds, PTL

----------------------------------------------------------------------------
(***************************************************************************)
(* The queues on their own: class TaskQueue under any sequence of calls of *)
(* its member functions, not only under those TaskManager makes.           *)
(***************************************************************************)

\* The natural numbers are well-founded, in the first-order form that the
\* provers can use.
LEMMA NatWellFounded == IsWellFoundedOn({ss \in Nat \X Nat : ss[1] < ss[2]}, Nat)
BY NatLessThanWellFounded DEF OpToRel

\* Every set of natural numbers that is not empty has a least element.
LEMMA LeastElement ==
    ASSUME NEW S \in SUBSET Nat, S # {}
    PROVE  \E n \in S : \A m \in S : ~(m < n)
<1> DEFINE R == {ss \in Nat \X Nat : ss[1] < ss[2]}
<1>1. IsWellFoundedOn(R, Nat)
  BY NatWellFounded
<1>2. \A m, n \in Nat : m < n => <<m, n>> \in R
  OBVIOUS
<1> HIDE DEF R
<1>3. PICK n \in S : \A m \in S : ~(<<m, n>> \in R)
  BY <1>1, WFMin
<1>4. \A m \in S : ~(m < n)
  BY <1>2, <1>3
<1> QED
  BY <1>4

\* Induction over the natural numbers, for a set instead of a predicate.
LEMMA SetInduction ==
    ASSUME NEW S, 0 \in S, \A n \in Nat : n \in S => n + 1 \in S
    PROVE  Nat \subseteq S
<1> SUFFICES ASSUME Nat \ S # {}
             PROVE  FALSE
  OBVIOUS
<1>1. PICK n \in Nat \ S : \A m \in Nat \ S : ~(m < n)
  BY LeastElement
<1>2. n # 0
  OBVIOUS
<1>3. n - 1 \in Nat /\ n - 1 < n /\ n = (n - 1) + 1
  BY <1>2
<1>4. n - 1 \in S
  BY <1>1, <1>3
<1> QED
  BY <1>3, <1>4

\* temp_queue is the record of a drain of the first m tasks of queue.
Drains(temp_queue, queue, target, m) ==
    temp_queue = [n \in 0 .. m |-> IF n = 0 THEN <<>>
                                   ELSE IF queue[n] = target THEN temp_queue[n - 1]
                                   ELSE Append(temp_queue[n - 1], queue[n])]

\* There is such a record: the recursion of removeFromQueue defines a function.
LEMMA TempQueueExists ==
    ASSUME NEW queue, NEW target, NEW m \in Nat
    PROVE  \E temp_queue : Drains(temp_queue, queue, target, m)
<1> DEFINE P == {k \in Nat : \E g : Drains(g, queue, target, k)}
<1>1. 0 \in P
  <2>1. Drains([n \in 0 .. 0 |-> <<>>], queue, target, 0)
    BY DEF Drains
  <2> QED
    BY <2>1
<1>2. ASSUME NEW k \in Nat, k \in P
      PROVE  k + 1 \in P
  <2>1. PICK g : Drains(g, queue, target, k)
    BY <1>2
  <2> DEFINE last == IF queue[k + 1] = target THEN g[k] ELSE Append(g[k], queue[k + 1])
             h == [n \in 0 .. k + 1 |-> IF n = k + 1 THEN last ELSE g[n]]
  <2>2. /\ \A n \in 0 .. k : h[n] = g[n]
        /\ h[k + 1] = last
    OBVIOUS
  <2>3. \A n \in 0 .. k : g[n] = IF n = 0 THEN <<>>
                                 ELSE IF queue[n] = target THEN g[n - 1]
                                 ELSE Append(g[n - 1], queue[n])
    BY <2>1 DEF Drains
  <2>4. ASSUME NEW n \in 0 .. k + 1
        PROVE  h[n] = IF n = 0 THEN <<>>
                      ELSE IF queue[n] = target THEN h[n - 1]
                      ELSE Append(h[n - 1], queue[n])
    <3> HIDE DEF h
    <3>1. CASE n = k + 1
      BY <2>2, <3>1
    <3>2. CASE n \in 0 .. k
      <4>1. n # 0 => n - 1 \in 0 .. k
        BY <3>2
      <4> QED
        BY <2>2, <2>3, <3>2, <4>1
    <3> QED
      BY <3>1, <3>2
  <2>5. Drains(h, queue, target, k + 1)
    BY <2>4 DEF Drains
  <2> HIDE DEF h
  <2> QED
    BY <2>5
<1> HIDE DEF P
<1>3. m \in P
  BY <1>1, <1>2, SetInduction
<1> QED
  BY <1>3 DEF P

\* What removeFromQueue returns is the end of a record that starts empty and
\* grows by each task that is not the target.
LEMMA RemovalRecurrence ==
    ASSUME NEW S, NEW queue \in Seq(S), NEW target
    PROVE  \E temp_queue :
              /\ temp_queue[0] = <<>>
              /\ \A n \in 1 .. Len(queue) :
                    temp_queue[n] = IF queue[n] = target THEN temp_queue[n - 1]
                                    ELSE Append(temp_queue[n - 1], queue[n])
              /\ Q!removeFromQueue(queue, target) = temp_queue[Len(queue)]
<1> DEFINE tq == CHOOSE g : Drains(g, queue, target, Len(queue))
<1>1. Len(queue) \in Nat
  OBVIOUS
<1>2. Q!removeFromQueue(queue, target) = tq[Len(queue)]
  BY DEF Q!removeFromQueue, Drains
<1>3. Drains(tq, queue, target, Len(queue))
  BY <1>1, TempQueueExists
<1> HIDE DEF tq
<1>4. tq[0] = <<>>
  BY <1>1, <1>3 DEF Drains
<1>5. ASSUME NEW n \in 1 .. Len(queue)
      PROVE  tq[n] = IF queue[n] = target THEN tq[n - 1] ELSE Append(tq[n - 1], queue[n])
  <2>1. n \in 0 .. Len(queue) /\ n # 0
    BY <1>1
  <2> QED
    BY <1>3, <2>1 DEF Drains
<1> QED
  BY <1>2, <1>4, <1>5

\* out is what is left of the first m tasks of queue: f says where each element
\* of out comes from, and every element but the target comes through.
Survives(out, f, queue, target, m) ==
    /\ DOMAIN f = 1 .. Len(out)
    /\ \A i \in 1 .. Len(out) : /\ f[i] \in 1 .. m
                                /\ out[i] = queue[f[i]]
                                /\ out[i] # target
    /\ \A i, j \in 1 .. Len(out) : i < j => f[i] < f[j]
    /\ \A n \in 1 .. m : queue[n] # target => \E i \in 1 .. Len(out) : f[i] = n

\* The loop returns the other tasks, all of them, in the order they had, and
\* nothing else: task_queue.cpp:66-78 for every queue and every target.
LEMMA RemovalKeepsOthers ==
    ASSUME NEW S, NEW queue \in Seq(S), NEW target
    PROVE  /\ Q!removeFromQueue(queue, target) \in Seq(S)
           /\ Len(Q!removeFromQueue(queue, target)) <= Len(queue)
           /\ \E f : Survives(Q!removeFromQueue(queue, target), f, queue, target, Len(queue))
<1>0. Len(queue) \in Nat
  OBVIOUS
<1>1. PICK tq :
         /\ tq[0] = <<>>
         /\ \A n \in 1 .. Len(queue) :
               tq[n] = IF queue[n] = target THEN tq[n - 1] ELSE Append(tq[n - 1], queue[n])
         /\ Q!removeFromQueue(queue, target) = tq[Len(queue)]
  BY RemovalRecurrence
<1> DEFINE Good(n) == /\ tq[n] \in Seq(S)
                      /\ Len(tq[n]) <= n
                      /\ \E f : Survives(tq[n], f, queue, target, n)
           P == {n \in Nat : n <= Len(queue) => Good(n)}
<1>2. 0 \in P
  <2>1. Survives(<<>>, <<>>, queue, target, 0)
    BY DEF Survives
  <2>2. <<>> \in Seq(S) /\ Len(<<>>) <= 0
    OBVIOUS
  <2>3. Good(0)
    BY <1>1, <2>1, <2>2
  <2> HIDE DEF Good
  <2> QED
    BY <2>3
<1>3. ASSUME NEW n \in Nat, n \in P, n + 1 <= Len(queue)
      PROVE  Good(n + 1)
  <2>1. Good(n) /\ n + 1 \in 1 .. Len(queue) /\ (n + 1) - 1 = n /\ queue[n + 1] \in S
    BY <1>0, <1>3
  <2> DEFINE out == tq[n]
  <2>2. PICK f : Survives(out, f, queue, target, n)
    BY <2>1
  <2>3. out \in Seq(S) /\ Len(out) \in Nat /\ Len(out) <= n
    BY <2>1
  <2>4. CASE queue[n + 1] = target
    <3>1. tq[n + 1] = out
      BY <1>1, <2>1, <2>4
    <3> HIDE DEF out
    <3>2. Survives(out, f, queue, target, n + 1)
      BY <2>2, <2>3, <2>4 DEF Survives
    <3> QED
      BY <2>3, <3>1, <3>2
  <2>5. CASE queue[n + 1] # target
    <3> DEFINE g == [i \in 1 .. Len(out) + 1 |-> IF i = Len(out) + 1 THEN n + 1 ELSE f[i]]
               e == queue[n + 1]
    <3>1. tq[n + 1] = Append(out, e)
      BY <1>1, <2>1, <2>5
    <3> HIDE DEF out
    <3>2. /\ Append(out, e) \in Seq(S) /\ Len(Append(out, e)) = Len(out) + 1
          /\ \A i \in 1 .. Len(out) : Append(out, e)[i] = out[i]
          /\ Append(out, e)[Len(out) + 1] = e
      BY <2>1, <2>3, AppendProperties
    <3>3. /\ DOMAIN g = 1 .. Len(out) + 1
          /\ \A i \in 1 .. Len(out) : g[i] = f[i]
          /\ g[Len(out) + 1] = n + 1
      BY <2>3
    <3> HIDE DEF g
    <3>4. Survives(Append(out, e), g, queue, target, n + 1)
      <4>1. \A i \in 1 .. Len(out) + 1 : i \in 1 .. Len(out) \/ i = Len(out) + 1
        BY <2>3
      <4>2. \A i \in 1 .. Len(out) + 1 : /\ g[i] \in 1 .. n + 1
                                         /\ Append(out, e)[i] = queue[g[i]]
                                         /\ Append(out, e)[i] # target
        BY <2>2, <2>3, <2>5, <3>2, <3>3, <4>1 DEF Survives
      <4>3. \A i, j \in 1 .. Len(out) + 1 : i < j => g[i] < g[j]
        BY <2>2, <2>3, <3>3, <4>1 DEF Survives
      <4>4. \A k \in 1 .. n + 1 : queue[k] # target => \E i \in 1 .. Len(out) + 1 : g[i] = k
        <5> SUFFICES ASSUME NEW k \in 1 .. n + 1, queue[k] # target
                     PROVE  \E i \in 1 .. Len(out) + 1 : g[i] = k
          OBVIOUS
        <5>1. CASE k \in 1 .. n
          <6>1. PICK i \in 1 .. Len(out) : f[i] = k
            BY <2>2, <5>1 DEF Survives
          <6> QED
            BY <2>3, <3>3, <6>1
        <5>2. CASE k = n + 1
          <6>1. Len(out) + 1 \in 1 .. Len(out) + 1
            BY <2>3
          <6> QED
            BY <3>3, <5>2, <6>1
        <5> QED
          BY <5>1, <5>2
      <4> QED
        BY <3>2, <3>3, <4>2, <4>3, <4>4 DEF Survives
    <3>5. Len(Append(out, e)) <= n + 1
      BY <2>3, <3>2
    <3> QED
      BY <3>1, <3>2, <3>4, <3>5
  <2> QED
    BY <2>4, <2>5
<1> HIDE DEF Good
<1>4. \A n \in Nat : n \in P => n + 1 \in P
  BY <1>0, <1>3
<1> HIDE DEF P
<1>5. Len(queue) \in P
  BY <1>0, <1>2, <1>4, SetInduction
<1> QED
  BY <1>0, <1>1, <1>5 DEF P, Good
----------------------------------------------------------------------------
\* Each element of next was in queue, and they come in the order they had.
Embedded(next, f, queue) ==
    /\ DOMAIN f = 1 .. Len(next)
    /\ \A i \in 1 .. Len(next) : f[i] \in 1 .. Len(queue) /\ next[i] = queue[f[i]]
    /\ \A i, j \in 1 .. Len(next) : i < j => f[i] < f[j]

\* A call that only takes tasks out lets none overtake another.
LEMMA EmbeddedInOrder ==
    ASSUME NEW S, NEW queue \in Seq(S), NEW next \in Seq(S), NEW f,
           Embedded(next, f, queue)
    PROVE  ~Q!Overtaking(queue, next)
<1> SUFFICES ASSUME NEW a, NEW b, Q!Ahead(queue, a, b), Q!Present(next, a),
                    NEW j \in DOMAIN next, next[j] = b,
                    \A i \in 1 .. j : next[i] # a
             PROVE  FALSE
  BY DEF Q!Overtaking
<1>0. Len(queue) \in Nat /\ Len(next) \in Nat /\ DOMAIN queue = 1 .. Len(queue)
      /\ DOMAIN next = 1 .. Len(next)
  OBVIOUS
<1>1. PICK i \in 1 .. Len(next) : next[i] = a
  BY <1>0 DEF Q!Present, Q!Range
<1>2. j \in 1 .. Len(next) /\ ~(i <= j)
  BY <1>0, <1>1
<1>3. f[j] < f[i] /\ f[i] \in 1 .. Len(queue) /\ f[j] \in 1 .. Len(queue)
  <2>1. j < i
    BY <1>0, <1>1, <1>2
  <2> QED
    BY <1>1, <1>2, <2>1 DEF Embedded
<1>4. queue[f[i]] = a /\ queue[f[j]] = b
  BY <1>1, <1>2 DEF Embedded
<1>5. f[i] < f[j]
  BY <1>0, <1>3, <1>4 DEF Q!Ahead
<1> QED
  BY <1>3, <1>5

\* A push lets none overtake another: the new task comes last, even one that is
\* in the queue already.
LEMMA PushInOrder ==
    ASSUME NEW S, NEW queue \in Seq(S), NEW item \in S, NEW bound
    PROVE  ~Q!Overtaking(queue, Q!Push(queue, item, bound))
<1> SUFFICES ASSUME NEW a, NEW b, Q!Ahead(queue, a, b),
                    NEW j \in DOMAIN Q!Push(queue, item, bound),
                    Q!Push(queue, item, bound)[j] = b,
                    \A i \in 1 .. j : Q!Push(queue, item, bound)[i] # a
             PROVE  FALSE
  BY DEF Q!Overtaking
<1>1. Len(queue) \in Nat /\ DOMAIN queue = 1 .. Len(queue)
  OBVIOUS
<1>2. /\ \A i \in 1 .. Len(queue) : Q!Push(queue, item, bound)[i] = queue[i]
      /\ j \in 1 .. Len(queue) + 1
  BY AppendProperties DEF Q!Push
<1>3. PICK i \in 1 .. Len(queue) : queue[i] = a
  BY <1>1 DEF Q!Ahead, Q!Range
<1>4. ~(i <= j)
  BY <1>1, <1>2, <1>3
<1>5. j \in 1 .. Len(queue) /\ queue[j] = b
  BY <1>1, <1>2, <1>4
<1>6. i < j
  BY <1>1, <1>3, <1>5 DEF Q!Ahead
<1> QED
  BY <1>1, <1>2, <1>4, <1>6

\* What a pop leaves is the queue without its head.
LEMMA TailEmbedded ==
    ASSUME NEW S, NEW queue \in Seq(S), queue # <<>>
    PROVE  \E f : Embedded(Tail(queue), f, queue)
<1> DEFINE f == [i \in 1 .. Len(Tail(queue)) |-> i + 1]
<1>1. /\ Len(queue) \in Nat \ {0} /\ Len(Tail(queue)) = Len(queue) - 1
      /\ \A i \in 1 .. Len(Tail(queue)) : Tail(queue)[i] = queue[i + 1]
  BY HeadTailProperties, EmptySeq
<1>2. Embedded(Tail(queue), f, queue)
  BY <1>1 DEF Embedded
<1> QED
  BY <1>2

\* And a removal leaves the queue without its target.
LEMMA RemovalEmbedded ==
    ASSUME NEW S, NEW queue \in Seq(S), NEW target
    PROVE  \E f : Embedded(Q!removeFromQueue(queue, target), f, queue)
BY RemovalKeepsOthers DEF Survives, Embedded

----------------------------------------------------------------------------
\* The queues of the class hold task pointers, within their capacities, under
\* every sequence of its calls.
THEOREM QueuesTyped == Q!Spec => []Q!TypeOK
<1>1. Q!Init => Q!TypeOK
  BY ManagerAssumption DEF Q!Init, Q!TypeOK
<1>2. Q!TypeOK /\ [Q!Next]_(Q!queueVars) => Q!TypeOK'
  <2> SUFFICES ASSUME Q!TypeOK, [Q!Next]_(Q!queueVars)
               PROVE  Q!TypeOK'
    OBVIOUS
  <2>1. CASE UNCHANGED Q!queueVars
    BY <2>1 DEF Q!queueVars, Q!TypeOK
  <2>2. ASSUME NEW item \in Addrs, NEW added \in BOOLEAN,
               Q!addToPendingQueue(item, added) \/ Q!addToProcessingQueue(item, added)
        PROVE  Q!TypeOK'
    <3>1. \A queue \in Seq(Addrs), bound \in Nat :
             Len(queue) <= bound => /\ Q!Push(queue, item, bound) \in Seq(Addrs)
                                    /\ Len(Q!Push(queue, item, bound)) <= bound
      BY AppendProperties DEF Q!Push
    <3> QED
      BY <2>2, <3>1, ManagerAssumption
      DEF Q!addToPendingQueue, Q!addToProcessingQueue, Q!TypeOK
  <2>3. ASSUME NEW item, Q!getNextPendingTask(item) \/ Q!getNextProcessingTask(item)
        PROVE  Q!TypeOK'
    <3>1. \A queue \in Seq(Addrs), bound \in Nat :
             queue # <<>> /\ Len(queue) <= bound => /\ Tail(queue) \in Seq(Addrs)
                                                   /\ Len(Tail(queue)) <= bound
      BY HeadTailProperties
    <3>2. CASE Q!getNextPendingTask(item)
      <4>1. CASE UNCHANGED pending_queue
        BY <3>2, <4>1 DEF Q!getNextPendingTask, Q!TypeOK
      <4>2. CASE pending_queue # <<>> /\ pending_queue' = Tail(pending_queue)
        BY <3>1, <3>2, <4>2, ManagerAssumption DEF Q!getNextPendingTask, Q!TypeOK
      <4> QED
        BY <3>2, <4>1, <4>2 DEF Q!getNextPendingTask
    <3>3. CASE Q!getNextProcessingTask(item)
      <4>1. CASE UNCHANGED processing_queue
        BY <3>3, <4>1 DEF Q!getNextProcessingTask, Q!TypeOK
      <4>2. CASE processing_queue # <<>> /\ processing_queue' = Tail(processing_queue)
        BY <3>1, <3>3, <4>2, ManagerAssumption DEF Q!getNextProcessingTask, Q!TypeOK
      <4> QED
        BY <3>3, <4>1, <4>2 DEF Q!getNextProcessingTask
    <3> QED
      BY <2>3, <3>2, <3>3
  <2>4. ASSUME NEW item, Q!removeFromPendingQueue(item) \/ Q!removeFromProcessingQueue(item)
        PROVE  Q!TypeOK'
    <3>1. \A queue \in Seq(Addrs) : /\ Q!removeFromQueue(queue, item) \in Seq(Addrs)
                                    /\ Len(Q!removeFromQueue(queue, item)) \in Nat
                                    /\ Len(Q!removeFromQueue(queue, item)) <= Len(queue)
      BY RemovalKeepsOthers
    <3> QED
      BY <2>4, <3>1, ManagerAssumption
      DEF Q!removeFromPendingQueue, Q!removeFromProcessingQueue, Q!TypeOK
  <2> QED
    BY <2>1, <2>2, <2>3, <2>4 DEF Q!Next
<1> QED
  BY <1>1, <1>2, PTL DEF Q!Spec

\* No call of the class lets a task overtake another, under every sequence of
\* calls: also not the two that drain and refill a queue.
THEOREM OrderOfQueues == Q!Spec => Q!NoOvertaking
<1>1. ASSUME Q!TypeOK, Q!Next
      PROVE  /\ ~Q!Overtaking(pending_queue, pending_queue')
             /\ ~Q!Overtaking(processing_queue, processing_queue')
  <2>0. pending_queue \in Seq(Addrs) /\ processing_queue \in Seq(Addrs)
    BY <1>1 DEF Q!TypeOK
  <2>1. \A queue \in Seq(Addrs) : ~Q!Overtaking(queue, queue)
    <3> SUFFICES ASSUME NEW queue \in Seq(Addrs)
                 PROVE  ~Q!Overtaking(queue, queue)
      OBVIOUS
    <3>1. Embedded(queue, [i \in 1 .. Len(queue) |-> i], queue)
      BY DEF Embedded
    <3> QED
      BY <3>1, EmbeddedInOrder
  <2>2. ASSUME NEW item \in Addrs, NEW added \in BOOLEAN,
               Q!addToPendingQueue(item, added) \/ Q!addToProcessingQueue(item, added)
        PROVE  /\ ~Q!Overtaking(pending_queue, pending_queue')
               /\ ~Q!Overtaking(processing_queue, processing_queue')
    BY <2>0, <2>1, <2>2, PushInOrder DEF Q!addToPendingQueue, Q!addToProcessingQueue
  <2>3. ASSUME NEW item, Q!getNextPendingTask(item) \/ Q!getNextProcessingTask(item)
        PROVE  /\ ~Q!Overtaking(pending_queue, pending_queue')
               /\ ~Q!Overtaking(processing_queue, processing_queue')
    <3>1. \A queue \in Seq(Addrs) : queue # <<>> => ~Q!Overtaking(queue, Tail(queue))
      BY TailEmbedded, EmbeddedInOrder, HeadTailProperties
    <3> QED
      BY <2>0, <2>1, <2>3, <3>1 DEF Q!getNextPendingTask, Q!getNextProcessingTask
  <2>4. ASSUME NEW item, Q!removeFromPendingQueue(item) \/ Q!removeFromProcessingQueue(item)
        PROVE  /\ ~Q!Overtaking(pending_queue, pending_queue')
               /\ ~Q!Overtaking(processing_queue, processing_queue')
    <3>1. \A queue \in Seq(Addrs) : ~Q!Overtaking(queue, Q!removeFromQueue(queue, item))
      BY RemovalEmbedded, RemovalKeepsOthers, EmbeddedInOrder
    <3> QED
      BY <2>0, <2>1, <2>4, <3>1 DEF Q!removeFromPendingQueue, Q!removeFromProcessingQueue
  <2> QED
    BY <1>1, <2>2, <2>3, <2>4 DEF Q!Next
<1>2. Q!TypeOK /\ [Q!Next]_(Q!queueVars) =>
        [/\ ~Q!Overtaking(pending_queue, pending_queue')
         /\ ~Q!Overtaking(processing_queue, processing_queue')]_(Q!queueVars)
  BY <1>1
<1> QED
  BY <1>2, QueuesTyped, PTL DEF Q!Spec, Q!NoOvertaking

----------------------------------------------------------------------------
\* What the calls do to the two queues are calls of class TaskQueue, and the
\* pointers they pass are addresses.
THEOREM UsesTaskQueue == Spec => Q!Spec
<1>1. Init => Q!Init
  BY DEF Init
<1>2. CallsTypeOK /\ [Next]_vars => [Q!Next]_(Q!queueVars)
  <2> SUFFICES ASSUME CallsTypeOK, [Next]_vars
               PROVE  Q!Next \/ UNCHANGED queueVars
    BY DEF queueVars, Q!queueVars
  <2>1. CASE UNCHANGED vars
    BY <2>1 DEF vars
  <2>2. ASSUME NEW t \in Threads,
               \/ assign(t) \/ write(t) \/ release(t)
               \/ \E id \in Ids : createTask(t, id) \/ lookup(t, id)
        PROVE  UNCHANGED queueVars
    BY <2>2 DEF assign, write, release, createTask, lookup
  <2>3. ASSUME NEW t \in Threads, enqueue(t)
        PROVE  Q!Next
    <3>1. task[t] \in Addrs
      BY <2>3 DEF CallsTypeOK, enqueue, Busy, Passing
    <3>2. PICK added \in BOOLEAN : Q!addToPendingQueue(task[t], added)
      BY <2>3 DEF enqueue
    <3> QED
      BY <3>1, <3>2 DEF Q!Next
  <2>4. ASSUME NEW t \in Threads, track(t)
        PROVE  Q!Next
    <3>1. task[t] \in Addrs
      BY <2>4 DEF CallsTypeOK, track, Busy, Passing
    <3>2. PICK added \in BOOLEAN : Q!addToProcessingQueue(task[t], added)
      BY <2>4 DEF track
    <3> QED
      BY <3>1, <3>2 DEF Q!Next
  <2>5. ASSUME NEW t \in Threads, getNextPendingTask(t)
        PROVE  Q!Next
    BY <2>5 DEF getNextPendingTask, Q!Next
  <2>6. ASSUME NEW t \in Threads, untrack(t)
        PROVE  Q!Next
    <3>1. task[t] \in Addrs
      BY <2>6 DEF CallsTypeOK, untrack, Busy, Finishing
    <3> QED
      BY <2>6, <3>1 DEF untrack, Q!Next
  <2> QED
    BY NextSplit, <2>1, <2>2, <2>3, <2>4, <2>5, <2>6
<1> QED
  BY <1>1, <1>2, CallsTypeCorrect, PTL DEF Spec, Q!Spec

\* All variables keep their types and both queues their capacities, whatever
\* the callers do.
THEOREM TypeCorrect == Spec => []TypeOK
<1>1. CallsTypeOK /\ Q!TypeOK => TypeOK
  BY DEF TypeOK
<1> QED
  BY <1>1, CallsTypeCorrect, UsesTaskQueue, QueuesTyped, PTL

\* No step of any call lets a task overtake another in either queue, whatever
\* the callers do.
THEOREM NoTaskOvertakes == Spec => NoOvertaking
BY UsesTaskQueue, OrderOfQueues, PTL DEF NoOvertaking

----------------------------------------------------------------------------
(***************************************************************************)
(* Where each task is and how far it has come, for callers who keep their  *)
(* promises.  TrackedOwned and StageFollows say it for the processing      *)
(* queue and for the status, as QueueOwns and ThreadOwns do for the rest.  *)
(***************************************************************************)

\* What the processing queue holds once each is a live task that its caller has
\* yet to finish, or that a thread is finishing but has not taken out yet.
TrackedOwned ==
    /\ \A i \in DOMAIN processing_queue :
         /\ C!Live(processing_queue[i])
         /\ \/ heap[processing_queue[i]].request_id \in dispatched
            \/ \E t \in Threads : /\ pc[t] \in {"write", "untrack"}
                                  /\ task[t] = processing_queue[i]
    /\ \A i, j \in DOMAIN processing_queue : processing_queue[i] = processing_queue[j] => i = j

\* The owner of a task knows its status.
StageFollows ==
    /\ \A id \in dispatched : heap[task_cache[id]].status = "PROCESSING"
    /\ \A t \in Threads :
         /\ pc[t] \in {"track", "write"} => heap[task[t]].status = "PROCESSING"
         /\ pc[t] \in {"untrack", "release"} => heap[task[t]].status \in {"COMPLETED", "FAILED"}

PlaceInv == TrackedOwned /\ StageFollows /\ NothingLost

\* What every owner of a task can rely on, in one place for the proofs below.
LEMMA Owned ==
    ASSUME CallsTypeOK, Ownership
    PROVE  /\ \A id \in dispatched : /\ id \in Ids /\ task_cache[id] \in Addrs
                                     /\ C!Live(task_cache[id])
                                     /\ heap[task_cache[id]].request_id = id
                                     /\ \A t \in Busy : task[t] # task_cache[id]
           /\ \A t \in Busy : /\ t \in Threads /\ task[t] \in Addrs /\ C!Live(task[t])
                              /\ \A u \in Busy : task[u] = task[t] => u = t
           /\ \A a \in Addrs : C!Live(a) => /\ heap[a].request_id \in Ids
                                            /\ task_cache[heap[a].request_id] = a
BY ManagerAssumption, BusyThreads
DEF CallsTypeOK, C!TypeOK, C!TaskContext, C!Live, C!Cached, Ownership, EntriesLive, C!EntriesLive,
    PoolOwnsHeap, ThreadOwns, CallerOwns

----------------------------------------------------------------------------
\* What each action does to the structures that the invariants speak of.
LEMMA CreateEffect ==
    ASSUME UniqueIds, CallsTypeOK, NEW t \in Threads, NEW id \in Ids, createTask(t, id)
    PROVE  /\ UNCHANGED <<pending_queue, processing_queue, dispatched, stranded>>
           /\ pc[t] = "idle"
           /\ \/ UNCHANGED <<task_cache, heap>> /\ Moved(t, "idle", nullptr, nullptr)
              \/ \E ptr \in Addrs :
                    /\ ~C!Live(ptr) /\ ~C!isFull /\ id \notin C!Cached
                    /\ heap'[ptr] = [request_id |-> id, status |-> "PENDING"]
                    /\ C!Live(ptr)'
                    /\ \A a \in Addrs \ {ptr} : heap'[a] = heap[a]
                    /\ task_cache'[id] = ptr
                    /\ \A d \in Ids \ {id} : task_cache'[d] = task_cache[d]
                    /\ Moved(t, "enqueue", ptr, nullptr)
<1> USE ManagerAssumption
<1>1. PICK ptr \in Addrs \cup {nullptr} :
         /\ C!createTask(id, ptr)
         /\ IF ptr = nullptr THEN Return(t) ELSE Goto(t, "enqueue", ptr, nullptr)
  BY DEF createTask
<1>2. /\ UNCHANGED <<pending_queue, processing_queue, dispatched, stranded>>
      /\ pc[t] = "idle" /\ (C!isFull \/ id \notin C!Cached)
  BY DEF createTask, queueVars, ghostVars
<1>3. CASE ptr = nullptr
  BY <1>1, <1>2, <1>3, GotoMoves DEF Return, Steps, C!createTask, C!cacheVars
<1>4. CASE ptr # nullptr
  <2>1. /\ ptr \in Addrs /\ ~C!Live(ptr) /\ ~C!isFull /\ id \notin C!Cached
        /\ heap' = [heap EXCEPT ![ptr] = [request_id |-> id, status |-> "PENDING"]]
        /\ task_cache' = [task_cache EXCEPT ![id] = ptr]
        /\ Moved(t, "enqueue", ptr, nullptr)
    BY <1>1, <1>2, <1>4, GotoMoves DEF C!createTask, C!Cached, C!cacheVars, Steps
  <2>2. /\ heap'[ptr] = [request_id |-> id, status |-> "PENDING"]
        /\ C!Live(ptr)'
        /\ \A a \in Addrs \ {ptr} : heap'[a] = heap[a]
        /\ task_cache'[id] = ptr
        /\ \A d \in Ids \ {id} : task_cache'[d] = task_cache[d]
    BY <2>1 DEF CallsTypeOK, C!TypeOK, C!Live, C!Freed
  <2> QED
    BY <1>2, <2>1, <2>2
<1> QED
  BY <1>3, <1>4

\* enqueue moves the task from its thread to the pending queue, or nowhere.
LEMMA EnqueueEffect ==
    ASSUME CallsTypeOK, NEW t \in Threads, enqueue(t)
    PROVE  /\ UNCHANGED <<task_cache, heap, processing_queue, dispatched>>
           /\ pc[t] = "enqueue" /\ t \in Busy /\ task[t] \in Addrs
           /\ Moved(t, "idle", nullptr, nullptr)
           /\ \/ pending_queue' = Append(pending_queue, task[t]) /\ stranded' = stranded
              \/ pending_queue' = pending_queue /\ stranded' = stranded \cup {task[t]}
BY ManagerAssumption, GotoMoves
DEF enqueue, Q!addToPendingQueue, Q!Push, Return, Steps, cacheVars, CallsTypeOK, Busy, Passing

\* getNextPendingTask finds nothing, or takes the task at the head.
LEMMA FetchEffect ==
    ASSUME CallsTypeOK, NEW t \in Threads, getNextPendingTask(t)
    PROVE  /\ UNCHANGED <<task_cache, heap, processing_queue, dispatched, stranded>>
           /\ pc[t] = "idle"
           /\ \/ pending_queue' = pending_queue /\ Moved(t, "idle", nullptr, nullptr)
              \/ /\ pending_queue # <<>> /\ pending_queue' = Tail(pending_queue)
                 /\ Moved(t, "assign", Head(pending_queue), nullptr)
<1>1. PICK ptr \in Addrs \cup {nullptr} :
         /\ Q!getNextPendingTask(ptr)
         /\ IF ptr = nullptr THEN Return(t) ELSE Goto(t, "assign", ptr, nullptr)
  BY DEF getNextPendingTask
<1>2. /\ UNCHANGED <<task_cache, heap, processing_queue, dispatched, stranded>>
      /\ pc[t] = "idle"
  BY <1>1 DEF getNextPendingTask, Q!getNextPendingTask, cacheVars, ghostVars
<1>3. CASE pending_queue = <<>>
  BY <1>1, <1>2, <1>3, GotoMoves DEF Q!getNextPendingTask, Return, Steps
<1>4. CASE pending_queue # <<>>
  <2>1. Head(pending_queue) # nullptr
    BY <1>4, ManagerAssumption, HeadTailProperties DEF CallsTypeOK
  <2> QED
    BY <1>1, <1>2, <1>4, <2>1, GotoMoves DEF Q!getNextPendingTask, Steps
<1> QED
  BY <1>3, <1>4

\* assign and write change the status of the task in hand and nothing else.
LEMMA StatusEffect ==
    ASSUME CallsTypeOK, Ownership, NEW t \in Threads, assign(t) \/ write(t)
    PROVE  /\ UNCHANGED <<task_cache, pending_queue, processing_queue, dispatched, stranded>>
           /\ t \in Busy
           /\ \A a \in Addrs \ {task[t]} : heap'[a] = heap[a]
           /\ \A a \in Addrs : heap'[a].request_id = heap[a].request_id
           /\ \A a \in Addrs : C!Live(a)' <=> C!Live(a)
           /\ \/ /\ pc[t] = "assign" /\ Moved(t, "track", task[t], nullptr)
                 /\ heap'[task[t]].status = "PROCESSING"
              \/ /\ pc[t] = "write" /\ Moved(t, "untrack", task[t], request_id[t])
                 /\ heap'[task[t]].status \in {"COMPLETED", "FAILED"}
<1>1. t \in Busy /\ task[t] \in Addrs /\ C!Live(task[t])
  BY Owned DEF assign, write, Busy, Passing, Finishing
<1>2. PICK status \in C!TaskStatus :
         /\ C!WriteStatus(task[t], status)
         /\ assign(t) => status = "PROCESSING"
         /\ write(t) => status \in {"COMPLETED", "FAILED"}
  BY DEF assign, write, C!TaskStatus
<1>3. /\ \A a \in Addrs : heap'[a].request_id = heap[a].request_id
      /\ \A a \in Addrs : (heap'[a] = C!Freed) <=> (heap[a] = C!Freed)
      /\ \A a \in Addrs \ {task[t]} : heap'[a] = heap[a]
      /\ heap'[task[t]].status = status
  BY <1>1, <1>2, WriteKeepsTasks DEF CallsTypeOK
<1>4. /\ UNCHANGED <<task_cache, pending_queue, processing_queue, dispatched, stranded>>
      /\ \A a \in Addrs : C!Live(a)' <=> C!Live(a)
  BY <1>3 DEF assign, write, queueVars, ghostVars, C!Live, C!Freed
<1>5. CASE assign(t)
  BY <1>1, <1>2, <1>3, <1>4, <1>5, GotoMoves DEF assign, Steps
<1>6. CASE write(t)
  BY <1>1, <1>2, <1>3, <1>4, <1>6, GotoMoves DEF write, Steps
<1> QED
  BY <1>5, <1>6

\* track hands the task over to the caller, whether the queue had room or not.
LEMMA TrackEffect ==
    ASSUME CallsTypeOK, Ownership, NEW t \in Threads, track(t)
    PROVE  /\ UNCHANGED <<task_cache, heap, pending_queue, stranded>>
           /\ pc[t] = "track" /\ t \in Busy /\ Moved(t, "idle", nullptr, nullptr)
           /\ \/ processing_queue' = processing_queue
              \/ processing_queue' = Append(processing_queue, task[t])
           /\ dispatched' = dispatched \cup {heap[task[t]].request_id}
<1>1. t \in Busy /\ C!Live(task[t])
  BY Owned DEF track, Busy, Passing
<1> QED
  BY <1>1, GotoMoves DEF track, Q!addToProcessingQueue, Q!Push, Return, Steps, cacheVars

\* lookup takes the task over from its caller.
LEMMA LookupEffect ==
    ASSUME FinishDispatchedOnly, CallsTypeOK, Ownership,
           NEW t \in Threads, NEW id \in Ids, lookup(t, id)
    PROVE  /\ UNCHANGED <<task_cache, heap, pending_queue, processing_queue, stranded>>
           /\ pc[t] = "idle" /\ Moved(t, "write", task_cache[id], id)
           /\ id \in dispatched /\ dispatched' = dispatched \ {id}
<1>1. id \in dispatched /\ task_cache[id] # nullptr
  BY Owned, ManagerAssumption DEF lookup
<1> QED
  BY <1>1, GotoMoves DEF lookup, C!getTask, Steps, cacheVars, queueVars

\* untrack takes the task out of the processing queue.
LEMMA UntrackEffect ==
    ASSUME CallsTypeOK, NEW t \in Threads, untrack(t)
    PROVE  /\ UNCHANGED <<task_cache, heap, pending_queue, dispatched, stranded>>
           /\ pc[t] = "untrack" /\ t \in Busy
           /\ Moved(t, "release", task[t], request_id[t])
           /\ processing_queue' = Q!removeFromQueue(processing_queue, task[t])
<1>1. processing_queue' = Q!removeFromQueue(processing_queue, task[t])
  BY DEF untrack, Q!removeFromProcessingQueue
<1>2. Moved(t, "release", task[t], request_id[t])
  BY GotoMoves DEF untrack, Steps
<1>3. /\ UNCHANGED <<task_cache, heap, pending_queue, dispatched, stranded>>
      /\ pc[t] = "untrack" /\ t \in Busy
  BY DEF untrack, Q!removeFromProcessingQueue, cacheVars, ghostVars, Busy, Finishing
<1> QED
  BY <1>1, <1>2, <1>3

\* release deletes the task and erases its entry.
LEMMA ReleaseEffect ==
    ASSUME CallsTypeOK, Ownership, NEW t \in Threads, release(t)
    PROVE  /\ UNCHANGED <<pending_queue, processing_queue, dispatched>>
           /\ pc[t] = "release" /\ t \in Busy /\ Moved(t, "idle", nullptr, nullptr)
           /\ request_id[t] \in Ids /\ task_cache[request_id[t]] = task[t]
           /\ heap[task[t]].request_id = request_id[t]
           /\ heap'[task[t]] = C!Freed
           /\ \A a \in Addrs \ {task[t]} : heap'[a] = heap[a]
           /\ task_cache'[request_id[t]] = nullptr
           /\ \A d \in Ids \ {request_id[t]} : task_cache'[d] = task_cache[d]
           /\ stranded' = stranded \ {task[t]}
<1>1. pc[t] = "release" /\ t \in Busy /\ t \in Finishing
  BY DEF release, Busy, Finishing
<1>2. /\ request_id[t] \in Ids /\ task[t] \in Addrs /\ task_cache[request_id[t]] = task[t]
      /\ heap[task[t]].request_id = request_id[t]
  BY <1>1, Owned DEF CallsTypeOK, Ownership, ThreadOwns
<1>3. /\ heap' = [heap EXCEPT ![task[t]] = C!Freed]
      /\ task_cache' = [task_cache EXCEPT ![request_id[t]] = nullptr]
      /\ stranded' = stranded \ {task[t]}
  BY <1>2, ManagerAssumption DEF release, C!completeTask, C!Cached, C!getTask
<1>4. /\ heap'[task[t]] = C!Freed
      /\ \A a \in Addrs \ {task[t]} : heap'[a] = heap[a]
      /\ task_cache'[request_id[t]] = nullptr
      /\ \A d \in Ids \ {request_id[t]} : task_cache'[d] = task_cache[d]
  BY <1>2, <1>3 DEF CallsTypeOK, C!TypeOK
<1>5. /\ UNCHANGED <<pending_queue, processing_queue, dispatched>>
      /\ Moved(t, "idle", nullptr, nullptr)
  BY GotoMoves DEF release, Return, Steps, queueVars
<1> QED
  BY <1>1, <1>2, <1>3, <1>4, <1>5

----------------------------------------------------------------------------
\* What is in a queue after a push, and after a pop.
LEMMA RangeOfQueue ==
    ASSUME NEW S, NEW queue \in Seq(S), NEW e \in S
    PROVE  /\ Range(Append(queue, e)) = Range(queue) \cup {e}
           /\ queue # <<>> => Range(queue) = Range(Tail(queue)) \cup {Head(queue)}
<1>1. Range(Append(queue, e)) = Range(queue) \cup {e}
  <2>1. /\ DOMAIN Append(queue, e) = DOMAIN queue \cup {Len(queue) + 1}
        /\ \A i \in DOMAIN queue : Append(queue, e)[i] = queue[i]
        /\ Append(queue, e)[Len(queue) + 1] = e
    BY AppendProperties
  <2> QED
    BY <2>1 DEF Range
<1>2. ASSUME queue # <<>>
      PROVE  Range(queue) = Range(Tail(queue)) \cup {Head(queue)}
  <2>1. /\ Len(queue) \in Nat \ {0}
        /\ DOMAIN queue = 1 .. Len(queue) /\ DOMAIN Tail(queue) = 1 .. Len(queue) - 1
        /\ Head(queue) = queue[1]
        /\ \A i \in 1 .. Len(queue) - 1 : Tail(queue)[i] = queue[i + 1]
    BY <1>2, HeadTailProperties, EmptySeq
  <2>2. \A i \in 1 .. Len(queue) : i = 1 \/ (i - 1 \in 1 .. Len(queue) - 1 /\ (i - 1) + 1 = i)
    BY <2>1
  <2>3. \A i \in 1 .. Len(queue) - 1 : i + 1 \in 1 .. Len(queue)
    BY <2>1
  <2>4. ASSUME NEW x \in Range(queue)
        PROVE  x \in Range(Tail(queue)) \cup {Head(queue)}
    <3>1. PICK i \in 1 .. Len(queue) : queue[i] = x
      BY <2>1 DEF Range
    <3>2. CASE i = 1
      BY <2>1, <3>1, <3>2
    <3>3. CASE i # 1
      <4>1. i - 1 \in DOMAIN Tail(queue) /\ Tail(queue)[i - 1] = x
        BY <2>1, <2>2, <3>1, <3>3
      <4> QED
        BY <4>1 DEF Range
    <3> QED
      BY <3>2, <3>3
  <2>5. ASSUME NEW x \in Range(Tail(queue)) \cup {Head(queue)}
        PROVE  x \in Range(queue)
    BY <2>1, <2>3 DEF Range
  <2> QED
    BY <2>4, <2>5
<1> QED
  BY <1>1, <1>2

\* No task of the pool loses its place in a step, because each step that takes
\* a task from one place puts it into the next.
LEMMA NothingLostStep ==
    ASSUME UniqueIds, FinishDispatchedOnly,
           CallsTypeOK, Ownership, NothingLost, [Next]_vars
    PROVE  NothingLost'
<1> USE BusyThreads, ManagerAssumption
<1>0. /\ pending_queue \in Seq(Addrs)
      /\ \A id \in C!Cached : /\ id \in Ids /\ task_cache[id] \in Addrs
                              /\ heap[task_cache[id]].request_id = id
  BY DEF CallsTypeOK, C!TypeOK, C!Cached, Ownership, EntriesLive, C!EntriesLive
<1>1. CASE UNCHANGED vars
  BY <1>1 DEF NothingLost, vars, cacheVars, queueVars, threadVars, ghostVars, C!Cached, Busy,
              Passing, Finishing
<1>2. ASSUME NEW t \in Threads, NEW id \in Ids, createTask(t, id)
      PROVE  NothingLost'
  <2>1. /\ UNCHANGED <<pending_queue, dispatched, stranded>>
        /\ t \notin Busy
    BY <1>2, CreateEffect DEF Busy, Passing, Finishing
  <2>2. CASE UNCHANGED <<task_cache, heap>> /\ Moved(t, "idle", nullptr, nullptr)
    BY <2>1, <2>2 DEF NothingLost, Moved, C!Cached
  <2>3. ASSUME NEW ptr \in Addrs, task_cache'[id] = ptr, Moved(t, "enqueue", ptr, nullptr),
               \A d \in Ids \ {id} : task_cache'[d] = task_cache[d]
        PROVE  NothingLost'
    BY <2>1, <2>3 DEF NothingLost, Moved, C!Cached
  <2> QED
    BY <1>2, <2>2, <2>3, CreateEffect
<1>3. ASSUME NEW t \in Threads, enqueue(t)
      PROVE  NothingLost'
  <2>0. /\ task[t] \in Addrs
        /\ \/ pending_queue' = Append(pending_queue, task[t]) /\ stranded' = stranded
           \/ pending_queue' = pending_queue /\ stranded' = stranded \cup {task[t]}
    BY <1>3, EnqueueEffect
  <2>1. Range(Append(pending_queue, task[t])) = Range(pending_queue) \cup {task[t]}
    BY <1>0, <2>0, RangeOfQueue
  <2>2. Range(pending_queue') \cup stranded' = Range(pending_queue) \cup stranded \cup {task[t]}
    BY <2>0, <2>1
  <2> QED
    BY <1>3, <2>2, EnqueueEffect DEF NothingLost, Moved, C!Cached
<1>4. ASSUME NEW t \in Threads, getNextPendingTask(t)
      PROVE  NothingLost'
  <2>1. CASE pending_queue' = pending_queue /\ Moved(t, "idle", nullptr, nullptr)
    BY <1>4, <2>1, FetchEffect DEF NothingLost, Moved, C!Cached, Busy, Passing, Finishing
  <2>2. CASE /\ pending_queue # <<>> /\ pending_queue' = Tail(pending_queue)
             /\ Moved(t, "assign", Head(pending_queue), nullptr)
    <3>1. Range(pending_queue) = Range(pending_queue') \cup {task'[t]}
      BY <1>0, <2>2, RangeOfQueue, HeadTailProperties DEF Moved
    <3> QED
      BY <1>4, <2>2, <3>1, FetchEffect DEF NothingLost, Moved, C!Cached, Busy, Passing, Finishing
  <2> QED
    BY <1>4, <2>1, <2>2, FetchEffect
<1>5. ASSUME NEW t \in Threads, assign(t) \/ write(t)
      PROVE  NothingLost'
  BY <1>5, StatusEffect DEF NothingLost, Moved, C!Cached
<1>6. ASSUME NEW t \in Threads, track(t)
      PROVE  NothingLost'
  BY <1>0, <1>6, TrackEffect DEF NothingLost, Moved, C!Cached
<1>7. ASSUME NEW t \in Threads, NEW id \in Ids, lookup(t, id)
      PROVE  NothingLost'
  BY <1>7, LookupEffect DEF NothingLost, Moved, C!Cached, Busy, Passing, Finishing
<1>8. ASSUME NEW t \in Threads, untrack(t)
      PROVE  NothingLost'
  BY <1>8, UntrackEffect DEF NothingLost, Moved, C!Cached
<1>9. ASSUME NEW t \in Threads, release(t)
      PROVE  NothingLost'
  <2>1. \A id \in C!Cached' : id \in C!Cached /\ task_cache'[id] = task_cache[id]
                              /\ task_cache[id] # task[t]
    BY <1>0, <1>9, ReleaseEffect DEF C!Cached
  <2> QED
    BY <1>9, <2>1, ReleaseEffect DEF NothingLost, Moved
<1> QED
  BY NextSplit, <1>1, <1>2, <1>3, <1>4, <1>5, <1>6, <1>7, <1>8, <1>9

\* The status of a task follows its owner from step to step.
LEMMA StageFollowsStep ==
    ASSUME UniqueIds, FinishDispatchedOnly,
           CallsTypeOK, Ownership, StageFollows, [Next]_vars
    PROVE  StageFollows'
<1> USE Owned
<1>0. \A t \in Threads : pc[t] \in {"assign", "track", "write", "untrack", "release"} => t \in Busy
  BY DEF Busy, Passing, Finishing
<1>1. CASE UNCHANGED vars
  BY <1>1 DEF StageFollows, vars, cacheVars, threadVars, ghostVars
<1>2. ASSUME NEW t \in Threads, NEW id \in Ids, createTask(t, id)
      PROVE  StageFollows'
  <2>1. UNCHANGED dispatched
    BY <1>2, CreateEffect
  <2>2. CASE UNCHANGED <<task_cache, heap>> /\ Moved(t, "idle", nullptr, nullptr)
    BY <2>1, <2>2 DEF StageFollows, Moved
  <2>3. ASSUME NEW ptr \in Addrs, ~C!Live(ptr), id \notin C!Cached,
               \A a \in Addrs \ {ptr} : heap'[a] = heap[a],
               \A d \in Ids \ {id} : task_cache'[d] = task_cache[d],
               Moved(t, "enqueue", ptr, nullptr)
        PROVE  StageFollows'
    <3>1. \A d \in dispatched : d # id /\ task_cache[d] # ptr /\ task_cache'[d] = task_cache[d]
      BY <2>3, ManagerAssumption DEF C!Cached
    <3>2. \A d \in dispatched : heap'[task_cache'[d]] = heap[task_cache[d]]
      BY <2>3, <3>1
    <3>3. \A u \in Busy : heap'[task[u]] = heap[task[u]]
      BY <2>3
    <3> QED
      BY <1>0, <2>1, <2>3, <3>2, <3>3 DEF StageFollows, Moved
  <2>4. \/ UNCHANGED <<task_cache, heap>> /\ Moved(t, "idle", nullptr, nullptr)
        \/ \E ptr \in Addrs :
              /\ ~C!Live(ptr) /\ id \notin C!Cached
              /\ \A a \in Addrs \ {ptr} : heap'[a] = heap[a]
              /\ \A d \in Ids \ {id} : task_cache'[d] = task_cache[d]
              /\ Moved(t, "enqueue", ptr, nullptr)
    BY <1>2, CreateEffect
  <2> QED
    BY <2>2, <2>3, <2>4
<1>3. ASSUME NEW t \in Threads, enqueue(t)
      PROVE  StageFollows'
  BY <1>3, EnqueueEffect DEF StageFollows, Moved
<1>4. ASSUME NEW t \in Threads, getNextPendingTask(t)
      PROVE  StageFollows'
  BY <1>4, FetchEffect DEF StageFollows, Moved
<1>5. ASSUME NEW t \in Threads, assign(t) \/ write(t)
      PROVE  StageFollows'
  <2>1. /\ \A d \in dispatched : heap'[task_cache[d]] = heap[task_cache[d]]
        /\ \A u \in Busy \ {t} : heap'[task[u]] = heap[task[u]]
        /\ UNCHANGED <<task_cache, dispatched>>
    BY <1>5, StatusEffect
  <2>2. ASSUME NEW u \in Threads \ {t}
        PROVE  /\ pc'[u] = pc[u] /\ task'[u] = task[u]
               /\ u \in Busy => heap'[task[u]] = heap[task[u]]
    BY <1>5, <2>1, StatusEffect DEF Moved
  <2>3. /\ task'[t] = task[t]
        /\ \/ pc'[t] = "track" /\ heap'[task[t]].status = "PROCESSING"
           \/ pc'[t] = "untrack" /\ heap'[task[t]].status \in {"COMPLETED", "FAILED"}
    BY <1>5, StatusEffect DEF Moved
  <2> QED
    BY <1>0, <2>1, <2>2, <2>3 DEF StageFollows
<1>6. ASSUME NEW t \in Threads, track(t)
      PROVE  StageFollows'
  BY <1>6, TrackEffect DEF StageFollows, Moved
<1>7. ASSUME NEW t \in Threads, NEW id \in Ids, lookup(t, id)
      PROVE  StageFollows'
  BY <1>7, LookupEffect DEF StageFollows, Moved
<1>8. ASSUME NEW t \in Threads, untrack(t)
      PROVE  StageFollows'
  BY <1>8, UntrackEffect DEF StageFollows, Moved
<1>9. ASSUME NEW t \in Threads, release(t)
      PROVE  StageFollows'
  <2>1. \A d \in dispatched : /\ d # request_id[t] /\ task_cache'[d] = task_cache[d]
                              /\ heap'[task_cache[d]] = heap[task_cache[d]]
    BY <1>9, ReleaseEffect
  <2>2. \A u \in Busy \ {t} : heap'[task[u]] = heap[task[u]]
    BY <1>9, ReleaseEffect
  <2> QED
    BY <1>0, <1>9, <2>1, <2>2, ReleaseEffect DEF StageFollows, Moved
<1> QED
  BY NextSplit, <1>1, <1>2, <1>3, <1>4, <1>5, <1>6, <1>7, <1>8, <1>9

\* A task enters the processing queue as it is handed to its caller, and leaves
\* it before it is deleted.
LEMMA TrackedOwnedStep ==
    ASSUME UniqueIds, FinishDispatchedOnly,
           CallsTypeOK, processing_queue \in Seq(Addrs), Ownership, TrackedOwned, [Next]_vars
    PROVE  TrackedOwned'
<1> USE Owned
<1> DEFINE Queue == processing_queue
           Held(a) == \E t \in Threads : pc[t] \in {"write", "untrack"} /\ task[t] = a
<1>0. /\ \A i \in DOMAIN Queue : Queue[i] \in Addrs /\ C!Live(Queue[i])
      /\ \A i \in DOMAIN Queue : heap[Queue[i]].request_id \in dispatched \/ Held(Queue[i])
      /\ \A i, j \in DOMAIN Queue : Queue[i] = Queue[j] => i = j
      /\ \A t \in Threads : pc[t] \in {"write", "untrack"} => t \in Busy
  BY DEF TrackedOwned, Busy, Finishing
<1>1. CASE UNCHANGED vars
  BY <1>1 DEF TrackedOwned, vars, cacheVars, queueVars, threadVars, ghostVars, C!Live
<1>2. ASSUME NEW t \in Threads, NEW id \in Ids, createTask(t, id)
      PROVE  TrackedOwned'
  <2>1. UNCHANGED <<processing_queue, dispatched>> /\ pc[t] = "idle"
    BY <1>2, CreateEffect
  <2>2. \/ UNCHANGED heap /\ Moved(t, "idle", nullptr, nullptr)
        \/ \E ptr \in Addrs : /\ ~C!Live(ptr)
                              /\ \A a \in Addrs \ {ptr} : heap'[a] = heap[a]
                              /\ Moved(t, "enqueue", ptr, nullptr)
    BY <1>2, CreateEffect
  <2>3. /\ \A i \in DOMAIN Queue : heap'[Queue[i]] = heap[Queue[i]]
        /\ \A u \in Threads \ {t} : pc'[u] = pc[u] /\ task'[u] = task[u]
    BY <1>0, <2>2 DEF Moved
  <2> QED
    BY <1>0, <2>1, <2>3 DEF TrackedOwned, C!Live
<1>3. ASSUME NEW t \in Threads, enqueue(t)
      PROVE  TrackedOwned'
  BY <1>0, <1>3, EnqueueEffect DEF TrackedOwned, Moved, C!Live
<1>4. ASSUME NEW t \in Threads, getNextPendingTask(t)
      PROVE  TrackedOwned'
  BY <1>0, <1>4, FetchEffect DEF TrackedOwned, Moved, C!Live
<1>5. ASSUME NEW t \in Threads, assign(t) \/ write(t)
      PROVE  TrackedOwned'
  <2>1. /\ UNCHANGED <<processing_queue, dispatched>>
        /\ \A a \in Addrs : heap'[a].request_id = heap[a].request_id
        /\ \A a \in Addrs : C!Live(a)' <=> C!Live(a)
    BY <1>5, StatusEffect
  <2>2. \A u \in Threads : pc[u] \in {"write", "untrack"} =>
                              pc'[u] \in {"write", "untrack"} /\ task'[u] = task[u]
    BY <1>5, StatusEffect DEF Moved
  <2> QED
    BY <1>0, <2>1, <2>2 DEF TrackedOwned, C!Live
<1>6. ASSUME NEW t \in Threads, track(t)
      PROVE  TrackedOwned'
  <2>1. /\ UNCHANGED heap
        /\ pc[t] = "track" /\ t \in Busy
        /\ dispatched' = dispatched \cup {heap[task[t]].request_id}
        /\ \A u \in Threads \ {t} : pc'[u] = pc[u] /\ task'[u] = task[u]
    BY <1>6, TrackEffect DEF Moved
  <2>2. task[t] \in Addrs /\ C!Live(task[t])
    BY <2>1
  <2>3. \A i \in DOMAIN Queue : Queue[i] # task[t]
    <3> SUFFICES ASSUME NEW i \in DOMAIN Queue, Queue[i] = task[t]
                 PROVE  FALSE
      OBVIOUS
    <3>1. heap[task[t]].request_id \notin dispatched
      BY <2>1, <2>2
    <3>2. ~Held(task[t])
      BY <1>0, <2>1
    <3> QED
      BY <1>0, <3>1, <3>2
  <2>4. CASE processing_queue' = processing_queue
    BY <1>0, <2>1, <2>4 DEF TrackedOwned, C!Live
  <2>5. CASE processing_queue' = Append(processing_queue, task[t])
    <3>1. /\ DOMAIN Queue = 1 .. Len(Queue) /\ Len(Queue) \in Nat
          /\ DOMAIN Queue' = 1 .. Len(Queue) + 1
          /\ \A i \in DOMAIN Queue : Queue'[i] = Queue[i]
          /\ Queue'[Len(Queue) + 1] = task[t]
      BY <2>2, <2>5, AppendProperties
    <3>2. \A i \in DOMAIN Queue' : i \in DOMAIN Queue \/ i = Len(Queue) + 1
      BY <3>1
    <3>3. \A i, j \in DOMAIN Queue' : Queue'[i] = Queue'[j] => i = j
      BY <1>0, <2>3, <3>1, <3>2
    <3>4. ASSUME NEW i \in DOMAIN Queue'
          PROVE  /\ C!Live(Queue[i])'
                 /\ \/ heap'[Queue'[i]].request_id \in dispatched'
                    \/ \E u \in Threads : pc'[u] \in {"write", "untrack"} /\ task'[u] = Queue'[i]
      <4>1. CASE i \in DOMAIN Queue
        BY <1>0, <2>1, <3>1, <4>1 DEF C!Live
      <4>2. CASE i = Len(Queue) + 1
        BY <2>1, <2>2, <3>1, <4>2 DEF C!Live
      <4> QED
        BY <3>2, <4>1, <4>2
    <3> QED
      BY <3>3, <3>4 DEF TrackedOwned
  <2> QED
    BY <1>6, <2>4, <2>5, TrackEffect
<1>7. ASSUME NEW t \in Threads, NEW id \in Ids, lookup(t, id)
      PROVE  TrackedOwned'
  <2>1. /\ UNCHANGED <<heap, processing_queue>> /\ pc[t] = "idle"
        /\ dispatched' = dispatched \ {id}
        /\ pc'[t] = "write" /\ task'[t] = task_cache[id]
        /\ \A u \in Threads \ {t} : pc'[u] = pc[u] /\ task'[u] = task[u]
    BY <1>7, LookupEffect DEF Moved
  <2>2. \A i \in DOMAIN Queue : heap[Queue[i]].request_id = id => Queue[i] = task_cache[id]
    BY <1>0
  <2> QED
    BY <1>0, <2>1, <2>2 DEF TrackedOwned, C!Live
<1>8. ASSUME NEW t \in Threads, untrack(t)
      PROVE  TrackedOwned'
  <2>1. /\ UNCHANGED <<heap, dispatched>> /\ t \in Busy
        /\ processing_queue' = Q!removeFromQueue(processing_queue, task[t])
        /\ \A u \in Threads \ {t} : pc'[u] = pc[u] /\ task'[u] = task[u]
    BY <1>8, UntrackEffect DEF Moved
  <2>2. PICK f : Survives(Queue', f, Queue, task[t], Len(Queue))
    BY <2>1, RemovalKeepsOthers
  <2>3. DOMAIN Queue' = 1 .. Len(Queue') /\ Len(Queue') \in Nat
    BY <2>1, RemovalKeepsOthers
  <2>4. /\ \A i \in DOMAIN Queue' : /\ f[i] \in DOMAIN Queue
                                    /\ Queue'[i] = Queue[f[i]] /\ Queue'[i] # task[t]
        /\ \A i, j \in DOMAIN Queue' : f[i] = f[j] => i = j
    <3>1. \A i, j \in DOMAIN Queue' : i < j \/ j < i \/ i = j
      BY <2>3
    <3>2. \A i \in DOMAIN Queue' : f[i] \in 1 .. Len(Queue) /\ f[i] \in Nat
      BY <2>2, <2>3 DEF Survives
    <3> QED
      BY <2>2, <2>3, <3>1, <3>2 DEF Survives
  <2>5. \A i \in DOMAIN Queue' : heap[Queue'[i]].request_id \in dispatched
          \/ \E u \in Threads \ {t} : pc[u] \in {"write", "untrack"} /\ task[u] = Queue'[i]
    BY <1>0, <2>4
  <2> QED
    BY <1>0, <2>1, <2>4, <2>5 DEF TrackedOwned, C!Live
<1>9. ASSUME NEW t \in Threads, release(t)
      PROVE  TrackedOwned'
  <2>1. /\ UNCHANGED <<processing_queue, dispatched>>
        /\ pc[t] = "release" /\ t \in Busy
        /\ heap[task[t]].request_id = request_id[t] /\ task_cache[request_id[t]] = task[t]
        /\ \A a \in Addrs \ {task[t]} : heap'[a] = heap[a]
        /\ \A u \in Threads \ {t} : pc'[u] = pc[u] /\ task'[u] = task[u]
    BY <1>9, ReleaseEffect DEF Moved
  <2>2. \A i \in DOMAIN Queue : Queue[i] # task[t]
    <3> SUFFICES ASSUME NEW i \in DOMAIN Queue, Queue[i] = task[t]
                 PROVE  FALSE
      OBVIOUS
    <3>1. heap[task[t]].request_id \notin dispatched
      BY <2>1
    <3>2. ~Held(task[t])
      BY <1>0, <2>1
    <3> QED
      BY <1>0, <3>1, <3>2
  <2>3. \A i \in DOMAIN Queue : heap'[Queue[i]] = heap[Queue[i]]
    BY <1>0, <2>1, <2>2
  <2> QED
    BY <1>0, <2>1, <2>3 DEF TrackedOwned, C!Live
<1> QED
  BY NextSplit, <1>1, <1>2, <1>3, <1>4, <1>5, <1>6, <1>7, <1>8, <1>9

----------------------------------------------------------------------------
\* Each task is where its owner says, at the stage its owner knows, and in some
\* place: Ownership and PlaceInv together are inductive.
THEOREM PlacesHold ==
    ASSUME UniqueIds, FinishDispatchedOnly
    PROVE  Spec => []PlaceInv
<1>1. Init => PlaceInv
  BY ManagerAssumption
  DEF Init, C!Init, Q!Init, PlaceInv, TrackedOwned, StageFollows, NothingLost, C!Cached
<1>2. TypeOK /\ Ownership /\ PlaceInv /\ [Next]_vars => PlaceInv'
  BY TrackedOwnedStep, StageFollowsStep, NothingLostStep DEF PlaceInv, TypeOK, Q!TypeOK
<1> QED
  BY <1>1, <1>2, TypeCorrect, OwnershipHolds, PTL DEF Spec

\* What the processing queue holds is in the pool and PROCESSING, up to the
\* moment at which the thread that finishes it takes it out.
THEOREM ProcessingQueueIsProcessing ==
    ASSUME UniqueIds, FinishDispatchedOnly
    PROVE  Spec => []ProcessingQueueMeansProcessing
<1>1. TypeOK /\ Ownership /\ PlaceInv => ProcessingQueueMeansProcessing
  <2> SUFFICES ASSUME TypeOK, Ownership, PlaceInv,
                      NEW i \in DOMAIN processing_queue
               PROVE  LET a == processing_queue[i] IN
                        /\ InPool(a)
                        /\ \/ heap[a].status = "PROCESSING"
                           \/ \E t \in Threads : pc[t] = "untrack" /\ task[t] = a
    BY DEF ProcessingQueueMeansProcessing
  <2> DEFINE a == processing_queue[i]
  <2>1. CallsTypeOK /\ a \in Addrs /\ C!Live(a)
    BY DEF TypeOK, Q!TypeOK, PlaceInv, TrackedOwned
  <2>2. InPool(a)
    BY <2>1, Owned DEF InPool
  <2>3. \/ heap[a].request_id \in dispatched
        \/ \E t \in Threads : pc[t] \in {"write", "untrack"} /\ task[t] = a
    BY DEF PlaceInv, TrackedOwned
  <2>4. CASE heap[a].request_id \in dispatched
    BY <2>2, <2>4 DEF PlaceInv, StageFollows, InPool
  <2>5. CASE \E t \in Threads : pc[t] \in {"write", "untrack"} /\ task[t] = a
    BY <2>2, <2>5 DEF PlaceInv, StageFollows
  <2> QED
    BY <2>2, <2>3, <2>4, <2>5
<1> QED
  BY <1>1, TypeCorrect, OwnershipHolds, PlacesHold, PTL

\* A task is in one place at a time: in one queue and once, in one thread's
\* hands, or with its caller; and in the pool no task is without a place.
THEOREM OnePlaceEach ==
    ASSUME UniqueIds, FinishDispatchedOnly
    PROVE  Spec => []ExactlyOnePlace
<1>1. TypeOK /\ Ownership /\ PlaceInv => ExactlyOnePlace
  <2> SUFFICES ASSUME TypeOK, Ownership, PlaceInv
               PROVE  AtMostOnePlace
    BY DEF ExactlyOnePlace, PlaceInv
  <2> DEFINE P == pending_queue
             R == processing_queue
             both == P \o R
  <2>1. CallsTypeOK /\ P \in Seq(Addrs) /\ R \in Seq(Addrs)
    BY DEF TypeOK, CallsTypeOK, Q!TypeOK
  <2>2. /\ \A i, j \in DOMAIN P : P[i] = P[j] => i = j
        /\ \A i, j \in DOMAIN R : R[i] = R[j] => i = j
    BY DEF Ownership, QueueOwns, PlaceInv, TrackedOwned
  <2>3. ASSUME NEW j \in DOMAIN R
        PROVE  /\ \A i \in DOMAIN P : P[i] # R[j]
               /\ \A t \in Passing : task[t] # R[j]
    <3>1. R[j] \in Addrs /\ C!Live(R[j]) /\ task_cache[heap[R[j]].request_id] = R[j]
      BY <2>1, Owned DEF PlaceInv, TrackedOwned
    <3>2. CASE heap[R[j]].request_id \in dispatched
      BY <3>1, <3>2 DEF Ownership, CallerOwns, Busy
    <3>3. ASSUME NEW t \in Threads, pc[t] \in {"write", "untrack"}, task[t] = R[j]
          PROVE  /\ \A i \in DOMAIN P : P[i] # R[j]
                 /\ \A u \in Passing : task[u] # R[j]
      <4>1. t \in Busy /\ t \notin Passing
        BY <3>3 DEF Busy, Passing, Finishing
      <4> QED
        BY <3>3, <4>1 DEF Ownership, ThreadOwns, Busy
    <3> QED
      BY <3>2, <3>3 DEF PlaceInv, TrackedOwned
  <2>4. /\ Len(P) \in Nat /\ DOMAIN P = 1 .. Len(P) /\ DOMAIN R = 1 .. Len(R)
        /\ Len(R) \in Nat
        /\ DOMAIN both = 1 .. Len(P) + Len(R)
        /\ \A i \in DOMAIN both : both[i] = IF i <= Len(P) THEN P[i] ELSE R[i - Len(P)]
        /\ \A i \in DOMAIN both : i \in DOMAIN P \/ (i > Len(P) /\ i - Len(P) \in DOMAIN R)
    BY <2>1, ConcatProperties
  <2> HIDE DEF both, P, R
  <2>5. \A i, j \in DOMAIN both : both[i] = both[j] => i = j
    <3> SUFFICES ASSUME NEW i \in DOMAIN both, NEW j \in DOMAIN both, both[i] = both[j]
                 PROVE  i = j
      OBVIOUS
    <3>1. CASE i \in DOMAIN P /\ j \in DOMAIN P
      BY <2>2, <2>4, <3>1
    <3>2. CASE i \in DOMAIN P /\ j > Len(P) /\ j - Len(P) \in DOMAIN R
      BY <2>3, <2>4, <3>2
    <3>3. CASE j \in DOMAIN P /\ i > Len(P) /\ i - Len(P) \in DOMAIN R
      BY <2>3, <2>4, <3>3
    <3>4. CASE /\ i > Len(P) /\ i - Len(P) \in DOMAIN R
               /\ j > Len(P) /\ j - Len(P) \in DOMAIN R
      <4>1. i - Len(P) = j - Len(P)
        BY <2>2, <2>4, <3>4
      <4> QED
        BY <2>4, <4>1
    <3> QED
      BY <2>4, <3>1, <3>2, <3>3, <3>4
  <2>6. \A t \in Passing : \A i \in DOMAIN both : both[i] # task[t]
    <3>1. \A t \in Passing : \A i \in DOMAIN P : P[i] # task[t]
      BY DEF Ownership, ThreadOwns, Busy, P
    <3> QED
      BY <2>3, <2>4, <3>1
  <2>7. \A t, u \in Busy : task[t] = task[u] => t = u
    BY <2>1, Owned
  <2> QED
    BY <2>5, <2>6, <2>7 DEF AtMostOnePlace, IsInjective, Range, both, P, R
<1> QED
  BY <1>1, TypeCorrect, OwnershipHolds, PlacesHold, PTL

----------------------------------------------------------------------------
\* A lookup by id shows a task whose status is not the word for an absent one.
LEMMA StageIsStatus ==
    ASSUME CallsTypeOK, Ownership
    PROVE  /\ \A id \in Ids : stage[id] = IF id \in C!Cached THEN heap[task_cache[id]].status
                                                             ELSE "ABSENT"
           /\ L!Present = C!Cached
<1>1. \A id \in Ids : stage[id] = IF id \in C!Cached THEN heap[task_cache[id]].status
                                                     ELSE "ABSENT"
  BY DEF stage
<1>2. \A id \in C!Cached : heap[task_cache[id]].status \in C!TaskStatus
  BY DEF CallsTypeOK, C!TypeOK, C!TaskContext, C!Cached, C!Live, Ownership, EntriesLive,
         C!EntriesLive
<1>3. "ABSENT" \notin C!TaskStatus
  BY DEF C!TaskStatus
<1> QED
  BY <1>1, <1>2, <1>3 DEF L!Present, C!Cached

\* A step that changes neither the entries nor the status of any task they lead
\* to shows nothing to those who look up an id.
LEMMA StageSame ==
    ASSUME UNCHANGED task_cache,
           \A id \in C!Cached : heap'[task_cache[id]].status = heap[task_cache[id]].status
    PROVE  UNCHANGED stage
BY DEF stage, C!Cached

\* A step that changes what is shown of one id only is a step of that task.
LEMMA StageMoves ==
    ASSUME NEW id \in Ids, NEW from, NEW to,
           stage[id] = from, stage'[id] = to,
           \A d \in Ids \ {id} : stage'[d] = stage[d]
    PROVE  L!Advance(id, from, to)
<1>1. stage' = [stage EXCEPT ![id] = to]
  BY DEF stage
<1> QED
  BY <1>1 DEF L!Advance

\* Each step of a call is a step of the life cycle of one task, or shows
\* nothing: only its owner moves a task on, from the stage the owner knows.
LEMMA LifecycleStep ==
    ASSUME UniqueIds, FinishDispatchedOnly,
           CallsTypeOK, CallsTypeOK', Ownership, Ownership', PlaceInv, [Next]_vars
    PROVE  [L!Next]_stage
<1> USE ManagerAssumption
<1>0. /\ \A d \in Ids : stage[d] = IF d \in C!Cached THEN heap[task_cache[d]].status
                                                     ELSE "ABSENT"
      /\ \A d \in Ids : stage'[d] = IF d \in C!Cached' THEN heap'[task_cache'[d]].status
                                                       ELSE "ABSENT"
      /\ \A d \in C!Cached : /\ d \in Ids /\ task_cache[d] \in Addrs /\ C!Live(task_cache[d])
                             /\ heap[task_cache[d]].request_id = d
      /\ L!Present = C!Cached
  BY StageIsStatus
  DEF stage, CallsTypeOK, C!TypeOK, C!Cached, Ownership, EntriesLive, C!EntriesLive
<1>1. CASE UNCHANGED vars
  BY <1>1, StageSame DEF vars, cacheVars
<1>2. ASSUME NEW t \in Threads, NEW id \in Ids, createTask(t, id)
      PROVE  [L!Next]_stage
  <2>1. CASE UNCHANGED <<task_cache, heap>>
    BY <2>1, StageSame
  <2>2. ASSUME NEW ptr \in Addrs, ~C!Live(ptr), ~C!isFull, id \notin C!Cached,
               heap'[ptr] = [request_id |-> id, status |-> "PENDING"],
               \A a \in Addrs \ {ptr} : heap'[a] = heap[a],
               task_cache'[id] = ptr,
               \A d \in Ids \ {id} : task_cache'[d] = task_cache[d]
        PROVE  L!Create(id)
    <3>1. stage[id] = "ABSENT" /\ stage'[id] = "PENDING"
      BY <1>0, <2>2 DEF C!Cached
    <3>2. \A d \in Ids \ {id} : stage'[d] = stage[d]
      BY <1>0, <2>2 DEF C!Cached
    <3>3. L!Cardinality(L!Present) < MAX_TASKS
      <4>1. Cardinality(C!Cached) \in Nat
        BY FS_Subset, FS_CardinalityType DEF C!Cached
      <4>2. C!Cardinality(C!Cached) = Cardinality(C!Cached)
        BY ONLY Zenon DEF C!Cardinality, Cardinality
      <4>3. L!Cardinality(C!Cached) = Cardinality(C!Cached)
        BY ONLY Zenon DEF L!Cardinality, Cardinality
      <4>4. ~(Cardinality(C!Cached) >= MAX_TASKS)
        BY <2>2, <4>2 DEF C!isFull, C!getSize
      <4> QED
        BY <1>0, <4>1, <4>3, <4>4
    <3> QED
      BY <3>1, <3>2, <3>3, StageMoves DEF L!Create
  <2>3. \/ UNCHANGED <<task_cache, heap>>
        \/ \E ptr \in Addrs :
              /\ ~C!Live(ptr) /\ ~C!isFull /\ id \notin C!Cached
              /\ heap'[ptr] = [request_id |-> id, status |-> "PENDING"]
              /\ \A a \in Addrs \ {ptr} : heap'[a] = heap[a]
              /\ task_cache'[id] = ptr
              /\ \A d \in Ids \ {id} : task_cache'[d] = task_cache[d]
    BY <1>2, CreateEffect
  <2> QED
    BY <2>1, <2>2, <2>3 DEF L!Next
<1>3. ASSUME NEW t \in Threads,
             \/ enqueue(t) \/ getNextPendingTask(t) \/ track(t) \/ untrack(t)
             \/ \E id \in Ids : lookup(t, id)
      PROVE  [L!Next]_stage
  <2>1. UNCHANGED <<task_cache, heap>>
    BY <1>3 DEF enqueue, getNextPendingTask, track, untrack, lookup, cacheVars
  <2> QED
    BY <2>1, StageSame
<1>4. ASSUME NEW t \in Threads, assign(t) \/ write(t)
      PROVE  [L!Next]_stage
  <2> DEFINE id == heap[task[t]].request_id
  <2>1. /\ t \in Busy /\ task[t] \in Addrs
        /\ id \in Ids /\ task_cache[id] = task[t] /\ id \in C!Cached
    <3>1. t \in Busy
      BY <1>4, StatusEffect
    <3> QED
      BY <3>1, Owned DEF C!Cached
  <2>2. /\ UNCHANGED task_cache
        /\ \A a \in Addrs \ {task[t]} : heap'[a] = heap[a]
        /\ \/ pc[t] = "assign" /\ heap'[task[t]].status = "PROCESSING"
           \/ pc[t] = "write" /\ heap'[task[t]].status \in {"COMPLETED", "FAILED"}
    BY <1>4, StatusEffect
  <2> HIDE DEF id
  <2>3. \A d \in Ids \ {id} : stage'[d] = stage[d]
    BY <1>0, <2>1, <2>2 DEF C!Cached, id
  <2>4. stage[id] = heap[task[t]].status /\ stage'[id] = heap'[task[t]].status
    BY <1>0, <2>1, <2>2 DEF C!Cached
  <2>5. CASE pc[t] = "assign" /\ heap'[task[t]].status = "PROCESSING"
    <3>1. stage[id] = "PENDING" /\ stage'[id] = "PROCESSING"
      BY <2>1, <2>4, <2>5 DEF Ownership, ThreadOwns
    <3> QED
      BY <2>1, <2>3, <3>1, StageMoves DEF L!Next, L!Dispatch
  <2>6. CASE pc[t] = "write" /\ heap'[task[t]].status \in {"COMPLETED", "FAILED"}
    <3>1. stage[id] = "PROCESSING" /\ stage'[id] \in {"COMPLETED", "FAILED"}
      BY <2>1, <2>4, <2>6 DEF PlaceInv, StageFollows
    <3> QED
      BY <2>1, <2>3, <3>1, StageMoves DEF L!Next, L!Complete, L!Fail
  <2> QED
    BY <2>2, <2>5, <2>6
<1>5. ASSUME NEW t \in Threads, release(t)
      PROVE  [L!Next]_stage
  <2> DEFINE id == request_id[t]
  <2>1. /\ t \in Busy /\ pc[t] = "release"
        /\ id \in Ids /\ task_cache[id] = task[t] /\ heap[task[t]].request_id = id
        /\ \A a \in Addrs \ {task[t]} : heap'[a] = heap[a]
        /\ task_cache'[id] = nullptr
        /\ \A d \in Ids \ {id} : task_cache'[d] = task_cache[d]
    BY <1>5, ReleaseEffect
  <2>2. task[t] \in Addrs /\ id \in C!Cached
    BY <2>1, Owned DEF C!Cached
  <2> HIDE DEF id
  <2>3. stage[id] \in {"COMPLETED", "FAILED"} /\ stage'[id] = "ABSENT"
    BY <1>0, <2>1, <2>2 DEF C!Cached, PlaceInv, StageFollows
  <2>4. \A d \in Ids \ {id} : stage'[d] = stage[d]
    BY <1>0, <2>1 DEF C!Cached
  <2> QED
    BY <2>1, <2>3, <2>4, StageMoves DEF L!Next, L!Release
<1> QED
  BY NextSplit, <1>1, <1>2, <1>3, <1>4, <1>5

\* TaskManager implements TaskLifecycle, with the status a lookup shows as its
\* stage: for any number of threads and tasks, a task goes through its stages in
\* order, and the pool never shows more tasks than it may hold.
THEOREM LifecycleImplemented ==
    ASSUME UniqueIds, FinishDispatchedOnly
    PROVE  Spec => ImplementsLifecycle
<1>1. Init => L!Init
  BY DEF Init, C!Init, L!Init, stage, C!Cached
<1>2. /\ CallsTypeOK /\ CallsTypeOK' /\ Ownership /\ Ownership' /\ PlaceInv
      /\ [Next]_vars
      => [L!Next]_stage
  BY LifecycleStep
<1> QED
  BY <1>1, <1>2, CallsTypeCorrect, OwnershipHolds, PlacesHold, PTL
  DEF Spec, ImplementsLifecycle, L!Spec

----------------------------------------------------------------------------
\* The pool on its own: class TaskCache under any sequence of calls of its
\* member functions, not only under those TaskManager makes.

\* A map never holds more entries than the capacity it is tested against, nor
\* a pointer to a deleted task, nor one task under two keys.
CacheInv == C!TypeOK /\ C!EntriesLive /\ C!WithinCapacity

\* The instance has the same cardinalities.
LEMMA SameCardinality == \A ss : C!Cardinality(ss) = Cardinality(ss)
BY ONLY Zenon DEF C!Cardinality, Cardinality

\* Adding a key to the map makes it larger by one at most.
LEMMA CachedGrows ==
    ASSUME IsFiniteSet(Ids), NEW id \in Ids, C!Cached' \subseteq C!Cached \cup {id}
    PROVE  /\ IsFiniteSet(C!Cached)
           /\ Cardinality(C!Cached) \in Nat
           /\ Cardinality(C!Cached') <= Cardinality(C!Cached) + 1
           /\ C!Cached' \subseteq C!Cached => Cardinality(C!Cached') <= Cardinality(C!Cached)
           /\ Cardinality(C!Cached') \in Nat
<1>1. IsFiniteSet(C!Cached) /\ IsFiniteSet(C!Cached')
  <2>1. C!Cached \subseteq Ids /\ C!Cached' \subseteq Ids
    BY DEF C!Cached
  <2> QED BY <2>1, FS_Subset
<1>2. Cardinality(C!Cached) \in Nat /\ Cardinality(C!Cached') \in Nat
  BY <1>1, FS_CardinalityType
<1>3. /\ IsFiniteSet(C!Cached \cup {id})
      /\ Cardinality(C!Cached \cup {id}) \in Nat
      /\ Cardinality(C!Cached \cup {id}) <= Cardinality(C!Cached) + 1
  <2>1. /\ IsFiniteSet(C!Cached \cup {id})
        /\ Cardinality(C!Cached \cup {id}) =
             IF id \in C!Cached THEN Cardinality(C!Cached) ELSE Cardinality(C!Cached) + 1
    BY <1>1, FS_AddElement
  <2> QED BY <1>2, <2>1
<1>4. Cardinality(C!Cached') <= Cardinality(C!Cached \cup {id})
  BY <1>3, FS_Subset
<1>5. C!Cached' \subseteq C!Cached => Cardinality(C!Cached') <= Cardinality(C!Cached)
  BY <1>1, FS_Subset
<1> QED BY <1>1, <1>2, <1>3, <1>4, <1>5

\* Class TaskCache keeps its promises under every sequence of calls: its keys
\* lead to live tasks of their own, and isFull keeps the map within MAX_TASKS.
THEOREM CacheSound ==
    ASSUME IsFiniteSet(Ids), nullptr \notin Addrs \cup Ids, MAX_TASKS \in Nat
    PROVE  C!Spec => []CacheInv
<1>1. C!Init => CacheInv
  <2> SUFFICES ASSUME C!Init PROVE CacheInv
    OBVIOUS
  <2>1. C!Cached = {}
    BY DEF C!Init, C!Cached
  <2>2. C!WithinCapacity
    BY <2>1, FS_EmptySet, SameCardinality DEF C!WithinCapacity, C!getSize
  <2> QED BY <2>1, <2>2 DEF C!Init, CacheInv, C!TypeOK, C!EntriesLive
<1>2. CacheInv /\ [C!Next]_(C!cacheVars) => CacheInv'
  <2> SUFFICES ASSUME CacheInv, [C!Next]_(C!cacheVars) PROVE CacheInv'
    OBVIOUS
  <2>1. CASE UNCHANGED C!cacheVars
    <3>1. C!Cached' = C!Cached
      BY <2>1 DEF C!cacheVars, C!Cached
    <3> QED
      BY <2>1, <3>1 DEF C!cacheVars, CacheInv, C!TypeOK, C!EntriesLive, C!Live, C!WithinCapacity, C!getSize
  <2>2. ASSUME NEW id \in Ids, NEW a \in Addrs \cup {nullptr},
               C!createTask(id, a)
        PROVE  CacheInv'
    <3>1. C!TypeOK' /\ C!EntriesLive'
      BY <2>2
      DEF CacheInv, C!TypeOK, C!EntriesLive, C!Live, C!Cached, C!createTask, C!cacheVars, C!TaskContext,
          C!TaskStatus, C!Freed
    <3>2. C!Cached' \subseteq C!Cached \cup {id}
      BY <2>2 DEF CacheInv, C!TypeOK, C!createTask, C!cacheVars, C!Cached
    <3>3. ~C!isFull \/ C!Cached' = C!Cached
      BY <2>2 DEF C!createTask, C!cacheVars, C!Cached
    <3>4. C!WithinCapacity'
      BY <3>2, <3>3, CachedGrows, SameCardinality DEF CacheInv, C!WithinCapacity, C!isFull, C!getSize
    <3> QED BY <3>1, <3>4 DEF CacheInv
  <2>3. ASSUME NEW id \in Ids, NEW status \in C!TaskStatus,
               C!updateTaskStatus(id, status)
        PROVE  CacheInv'
    <3>1. C!Cached' = C!Cached
      BY <2>3 DEF C!updateTaskStatus, C!Cached
    <3>2. C!TypeOK' /\ C!EntriesLive'
      BY <2>3, <3>1
      DEF CacheInv, C!TypeOK, C!EntriesLive, C!Live, C!Cached, C!updateTaskStatus, C!WriteStatus,
          C!TaskContext, C!Freed
    <3> QED BY <3>1, <3>2 DEF CacheInv, C!WithinCapacity, C!getSize
  <2>4. ASSUME NEW id \in Ids, C!completeTask(id)
        PROVE  CacheInv'
    <3>1. C!Cached' \subseteq C!Cached
      BY <2>4 DEF CacheInv, C!TypeOK, C!completeTask, C!cacheVars, C!Cached
    <3>2. C!TypeOK' /\ C!EntriesLive'
      BY <2>4
      DEF CacheInv, C!TypeOK, C!EntriesLive, C!Live, C!Cached, C!completeTask, C!cacheVars,
          C!TaskContext, C!Freed
    <3>3. C!WithinCapacity'
      BY <3>1, CachedGrows, SameCardinality DEF CacheInv, C!WithinCapacity, C!getSize
    <3> QED BY <3>2, <3>3 DEF CacheInv
  <2> QED BY <2>1, <2>2, <2>3, <2>4 DEF C!Next
<1> QED BY <1>1, <1>2, PTL DEF C!Spec

============================================================================
