---------------------------- MODULE TaskManager ----------------------------
(***************************************************************************)
(* The task interface of class TaskManager (src/core/task_manager.cpp,     *)
(* createTask, getNextPendingTask, completeTask, failTask): what it does   *)
(* with a TaskCache and a TaskQueue that are each locked on their own.     *)
(*                                                                         *)
(* No lock spans two of the critical sections, so a call is a sequence of  *)
(* steps between which the other threads run:                              *)
(*                                                                         *)
(*   createTask          cache insert ; push to pending                    *)
(*   getNextPendingTask  pop pending  ; write status ; push to processing  *)
(*   completeTask        find in cache; write status ;                     *)
(*   (and failTask)        remove from processing ; erase and delete       *)
(*                                                                         *)
(* The status writes go through a bare pointer and hold no lock at all.    *)
(* The callers are external to the class.  Two constants say what they     *)
(* promise: UniqueIds, that no second task is made for an id while its     *)
(* task is in the pool; FinishDispatchedOnly, that a task is completed or  *)
(* failed only after getNextPendingTask has returned it, and only once.    *)
(***************************************************************************)
EXTENDS Naturals, Sequences, FiniteSets, SequencesExt

CONSTANTS Threads,
          Ids, Addrs, nullptr,
          MAX_TASKS, MAX_PENDING_QUEUE, MAX_PROCESSING_QUEUE,
          UniqueIds, FinishDispatchedOnly

ASSUME ManagerAssumption ==
    /\ IsFiniteSet(Ids)
    /\ nullptr \notin Addrs \cup Ids
    /\ MAX_TASKS \in Nat \ {0}
    /\ MAX_PENDING_QUEUE \in Nat \ {0}
    /\ MAX_PROCESSING_QUEUE \in Nat \ {0}
    /\ UniqueIds \in BOOLEAN
    /\ FinishDispatchedOnly \in BOOLEAN

VARIABLES task_cache, heap,                  \* the TaskCache
          pending_queue, processing_queue,   \* the TaskQueue
          pc,          \* thread -> the step of its call that comes next
          task,        \* thread -> its local variable TaskContext* task
          request_id,  \* thread -> the argument of completeTask or failTask
          dispatched,  \* ghost: ids handed to a caller who has yet to finish them
          stranded     \* ghost: tasks the full pending queue has turned away

cacheVars  == <<task_cache, heap>>
queueVars  == <<pending_queue, processing_queue>>
threadVars == <<pc, task, request_id>>
ghostVars  == <<dispatched, stranded>>
vars       == <<cacheVars, queueVars, threadVars, ghostVars>>

C == INSTANCE TaskCache
Q == INSTANCE TaskQueue WITH Tasks <- Addrs

Steps == {"idle", "enqueue", "assign", "track", "write", "untrack", "release"}

Init == /\ C!Init
        /\ Q!Init
        /\ pc = [t \in Threads |-> "idle"]
        /\ task = [t \in Threads |-> nullptr]
        /\ request_id = [t \in Threads |-> nullptr]
        /\ dispatched = {}
        /\ stranded = {}

----------------------------------------------------------------------------
\* Thread t moves on; a call that returns drops the thread's locals.
Goto(t, step, ptr, id) ==
    /\ pc' = [pc EXCEPT ![t] = step]
    /\ task' = [task EXCEPT ![t] = ptr]
    /\ request_id' = [request_id EXCEPT ![t] = id]

Return(t) == Goto(t, "idle", nullptr, nullptr)

\* Mutants of the actions below, each a plausible slip in task_manager.cpp.
assignWithoutStatus(t) ==
    /\ pc[t] = "assign"
    /\ Goto(t, "track", task[t], nullptr)
    /\ UNCHANGED <<cacheVars, queueVars, ghostVars>>

trackOrForget(t) ==
    /\ pc[t] = "track"
    /\ \E added \in BOOLEAN :
         /\ Q!addToProcessingQueue(task[t], added)
         /\ dispatched' = IF added THEN dispatched \cup {heap[task[t]].request_id}
                                   ELSE dispatched
    /\ Return(t)
    /\ UNCHANGED <<cacheVars, stranded>>

lookupAndRelease(t, id) ==
    /\ pc[t] = "idle"
    /\ FinishDispatchedOnly => id \in dispatched
    /\ IF C!getTask(id) = nullptr
       THEN Return(t)
       ELSE Goto(t, "write", C!getTask(id), id)
    /\ C!completeTask(id)
    /\ dispatched' = dispatched \ {id}
    /\ UNCHANGED <<queueVars, stranded>>

untrackNothing(t) ==
    /\ pc[t] = "untrack"
    /\ Goto(t, "release", task[t], request_id[t])
    /\ UNCHANGED <<cacheVars, queueVars, ghostVars>>

----------------------------------------------------------------------------
\* createTask -----------------------------------------------------------------
createTask(t, id) ==
    /\ pc[t] = "idle"
    /\ UniqueIds => C!isFull \/ id \notin C!Cached
    /\ \E ptr \in Addrs \cup {nullptr} :
         /\ C!createTask(id, ptr)
         /\ IF ptr = nullptr
            THEN Return(t)
            ELSE Goto(t, "enqueue", ptr, nullptr)
    /\ UNCHANGED <<queueVars, ghostVars>>

\* The result of addToPendingQueue is ignored.
enqueue(t) ==
    /\ pc[t] = "enqueue"
    /\ \E added \in BOOLEAN :
         /\ Q!addToPendingQueue(task[t], added)
         /\ stranded' = IF added THEN stranded ELSE stranded \cup {task[t]}
    /\ Return(t)
    /\ UNCHANGED <<cacheVars, dispatched>>

\* getNextPendingTask ---------------------------------------------------------
getNextPendingTask(t) ==
    /\ pc[t] = "idle"
    /\ \E ptr \in Addrs \cup {nullptr} :
         /\ Q!getNextPendingTask(ptr)
         /\ IF ptr = nullptr
            THEN Return(t)
            ELSE Goto(t, "assign", ptr, nullptr)
    /\ UNCHANGED <<cacheVars, ghostVars>>

assign(t) ==
    /\ pc[t] = "assign"
    /\ C!WriteStatus(task[t], "PROCESSING")
    /\ Goto(t, "track", task[t], nullptr)
    /\ UNCHANGED <<task_cache, queueVars, ghostVars>>

\* The result of addToProcessingQueue is ignored; the caller gets the task.
track(t) ==
    /\ pc[t] = "track"
    /\ \E added \in BOOLEAN : Q!addToProcessingQueue(task[t], added)
    /\ dispatched' = IF C!Live(task[t])
                     THEN dispatched \cup {heap[task[t]].request_id}
                     ELSE dispatched
    /\ Return(t)
    /\ UNCHANGED <<cacheVars, stranded>>

\* completeTask and failTask --------------------------------------------------
lookup(t, id) ==
    /\ pc[t] = "idle"
    /\ FinishDispatchedOnly => id \in dispatched
    /\ IF C!getTask(id) = nullptr
       THEN Return(t)
       ELSE Goto(t, "write", C!getTask(id), id)
    /\ dispatched' = dispatched \ {id}
    /\ UNCHANGED <<cacheVars, queueVars, stranded>>

\* completeTask writes COMPLETED, failTask writes FAILED.
write(t) ==
    /\ pc[t] = "write"
    /\ \E status \in {"COMPLETED", "FAILED"} : C!WriteStatus(task[t], status)
    /\ Goto(t, "untrack", task[t], request_id[t])
    /\ UNCHANGED <<task_cache, queueVars, ghostVars>>

untrack(t) ==
    /\ pc[t] = "untrack"
    /\ Q!removeFromProcessingQueue(task[t])
    /\ Goto(t, "release", task[t], request_id[t])
    /\ UNCHANGED <<cacheVars, ghostVars>>

release(t) ==
    /\ pc[t] = "release"
    /\ C!completeTask(request_id[t])
    /\ Return(t)
    /\ stranded' = stranded \ {C!getTask(request_id[t])}
    /\ UNCHANGED <<queueVars, dispatched>>

----------------------------------------------------------------------------
Step(t) == enqueue(t) \/ assign(t) \/ track(t) \/ write(t) \/ untrack(t) \/ release(t)

Call(t) == \/ getNextPendingTask(t)
           \/ \E id \in Ids : createTask(t, id) \/ lookup(t, id)

Next == \E t \in Threads : Step(t) \/ Call(t)

Spec == Init /\ [][Next]_vars

----------------------------------------------------------------------------
(***************************************************************************)
(* Fairness for the liveness run.  A step of a call in progress waits for  *)
(* nothing but a mutex that every holder gives back, so the thread takes   *)
(* it eventually.  That tasks are fetched and finished at all is up to the *)
(* callers: some thread keeps calling getNextPendingTask, and a task it    *)
(* was given is completed or failed sooner or later.                       *)
(***************************************************************************)
Fetch == \E t \in Threads : getNextPendingTask(t) /\ pending_queue # <<>>

Finish(id) == \E t \in Threads : lookup(t, id) /\ id \in dispatched

Fairness == /\ \A t \in Threads : WF_vars(Step(t))
            /\ SF_vars(Fetch)
            /\ \A id \in Ids : SF_vars(Finish(id))

LiveSpec == Spec /\ Fairness

----------------------------------------------------------------------------
Passing == {t \in Threads : pc[t] \in {"enqueue", "assign", "track"}}

Finishing == {t \in Threads : pc[t] \in {"write", "untrack", "release"}}

Busy == Passing \cup Finishing

\* The part of the type invariant that does not depend on what is in the
\* processing queue: a thread inside a call holds a task, and the id with it
\* when it finishes that task.
CallsTypeOK ==
    /\ C!TypeOK
    /\ pending_queue \in Seq(Addrs)
    /\ Len(pending_queue) <= MAX_PENDING_QUEUE
    /\ pc \in [Threads -> Steps]
    /\ task \in [Threads -> Addrs \cup {nullptr}]
    /\ request_id \in [Threads -> Ids \cup {nullptr}]
    /\ dispatched \subseteq Ids
    /\ stranded \subseteq Addrs
    /\ \A t \in Busy : task[t] \in Addrs
    /\ \A t \in Finishing : request_id[t] \in Ids

TypeOK == CallsTypeOK /\ Q!TypeOK

\* A key of the pool leads to a live task created under that key, whatever the
\* callers do: also when threads finish one id together, or reuse an id.
EntriesLive == C!EntriesLive

\* No status is written through a pointer whose task has been deleted.  The
\* writes of getNextPendingTask (task_manager.cpp:117) and completeTask
\* (task_manager.cpp:131-133) hold no lock that would keep the task alive.
NoDanglingWrite ==
    \A t \in Threads : pc[t] \in {"assign", "write"} => C!Live(task[t])

\* The entry that completeTask erases in its last critical section is the one
\* it found in its first: the id has not been given to a new task in between,
\* and no other thread has erased it (task_manager.cpp:129 and :136).
FinishesWhatItFound ==
    \A t \in Threads : pc[t] \in {"write", "untrack", "release"} =>
        task_cache[request_id[t]] = task[t]

InPool(a) == C!Live(a) /\ task_cache[heap[a].request_id] = a

\* "Manages the queues of tasks in a specific state" (task_queue.h:7): what
\* waits in the pending queue is in the pool and PENDING.
PendingQueueMeansPending ==
    \A i \in DOMAIN pending_queue : /\ InPool(pending_queue[i])
                                    /\ heap[pending_queue[i]].status = "PENDING"

\* What is in the processing queue is in the pool and PROCESSING, except for
\* the moment in which the thread that finishes it has already written the
\* final status but not yet taken it out of the queue.
ProcessingQueueMeansProcessing ==
    \A i \in DOMAIN processing_queue :
        LET a == processing_queue[i] IN
        /\ InPool(a)
        /\ \/ heap[a].status = "PROCESSING"
           \/ \E t \in Threads : pc[t] = "untrack" /\ task[t] = a

\* A task has at most one place: it is queued once, and while a thread carries
\* it from one structure to the next it is in no queue and in no other thread's
\* hands.  Otherwise two callers would run the same task.  The statistics
\* (task_manager.cpp:153-163) are another matter: they lock nothing and are left
\* out here.
AtMostOnePlace ==
    /\ IsInjective(pending_queue \o processing_queue)
    /\ \A t \in Passing : task[t] \notin Range(pending_queue \o processing_queue)
    /\ \A t, u \in Busy : task[t] = task[u] => t = u

\* And no task of the pool is without one: it waits in the pending queue, a
\* thread is carrying or finishing it, a caller has been given it, or the full
\* pending queue turned it away (createTask ignores that, task_manager.cpp:109).
NothingLost ==
    \A id \in C!Cached :
        \/ task_cache[id] \in Range(pending_queue) \cup stranded
        \/ id \in dispatched
        \/ \E t \in Busy : task[t] = task_cache[id]

\* However the steps of getNextPendingTask and the other calls interleave, no
\* task is ever in two places, and none is in no place at all.
ExactlyOnePlace == AtMostOnePlace /\ NothingLost

\* Each queue stays first in, first out for the tasks in it: also when
\* removeFromQueue drains and refills it (task_queue.cpp:66-78), for a task in
\* the middle or for one that the full queue has turned away before.
NoOvertaking == Q!NoOvertaking

\* "Stores all tasks" (task_cache.h:13), for the manager as a whole: part of
\* Ownership, and proved from it.
StoresAllTasks == C!StoresAllTasks

\* Who owns a task, as callers who keep their promises can rely on.  Every
\* task of the heap is the pool's entry for its id.  Exactly one party may act
\* on it next: the pending queue, one thread inside a call, or the caller to
\* whom getNextPendingTask has returned it.  Only its owner writes or deletes
\* it, which is why the writes that hold no lock are harmless.
PoolOwnsHeap ==
    \A a \in Addrs : C!Live(a) => task_cache[heap[a].request_id] = a

QueueOwns ==
    /\ \A i \in DOMAIN pending_queue : /\ C!Live(pending_queue[i])
                                       /\ heap[pending_queue[i]].status = "PENDING"
    /\ \A i, j \in DOMAIN pending_queue : pending_queue[i] = pending_queue[j] => i = j

ThreadOwns ==
    \A t \in Busy :
        /\ C!Live(task[t])
        /\ pc[t] \in {"enqueue", "assign"} => heap[task[t]].status = "PENDING"
        /\ t \in Finishing => heap[task[t]].request_id = request_id[t]
        /\ \A i \in DOMAIN pending_queue : pending_queue[i] # task[t]
        /\ \A u \in Busy : task[u] = task[t] => u = t

CallerOwns ==
    \A id \in dispatched :
        /\ id \in C!Cached
        /\ \A i \in DOMAIN pending_queue : pending_queue[i] # task_cache[id]
        /\ \A t \in Busy : task[t] # task_cache[id]

Ownership == /\ EntriesLive
             /\ PoolOwnsHeap
             /\ QueueOwns
             /\ ThreadOwns
             /\ CallerOwns

\* A task that reached the pending queue is eventually finished and leaves the
\* pool, so that its slot is free again.
QueuedIsFinished ==
    \A id \in Ids :
        id \in C!Cached /\ task_cache[id] \in Range(pending_queue)
            ~> id \notin C!Cached

----------------------------------------------------------------------------
\* What a caller can see of an id, to be compared with TaskLifecycle.
stage == [id \in Ids |-> IF id \in C!Cached THEN heap[task_cache[id]].status
                                            ELSE "ABSENT"]

L == INSTANCE TaskLifecycle

\* Seen through the pool, each task goes through the stages of its life in
\* order, one at a time, and never back, however the steps interleave.
ImplementsLifecycle == L!Spec

============================================================================
