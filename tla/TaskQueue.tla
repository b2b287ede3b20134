----------------------------- MODULE TaskQueue -----------------------------
(***************************************************************************)
(* class TaskQueue (src/core/task_queue.h, task_queue.cpp): two bounded    *)
(* FIFO queues of TaskContext pointers, each behind a mutex of its own.    *)
(* A member function that changes a queue, or gives a task out of one,     *)
(* takes its mutex for the whole body, so each is one atomic action.  The  *)
(* value a function returns is the action's last parameter.                *)
(*                                                                         *)
(* Left out: getPendingQueueSize, getProcessingQueueSize and the two       *)
(* tests for empty, which take no mutex.  What they return while another   *)
(* thread is inside removeFromQueue or a push is undefined (a data race),  *)
(* as a rule a count from the middle of the drain; the queues themselves   *)
(* do not depend on it.                                                    *)
(***************************************************************************)
EXTENDS Naturals, Sequences, SequencesExt

CONSTANTS Tasks,                  \* the pointers callers may pass
          nullptr,
          MAX_PENDING_QUEUE,
          MAX_PROCESSING_QUEUE

VARIABLES pending_queue, processing_queue

queueVars == <<pending_queue, processing_queue>>

Init == /\ pending_queue = <<>>
        /\ processing_queue = <<>>

----------------------------------------------------------------------------
\* Mutants of the operators below, each a plausible slip in task_queue.cpp.
PushOneTooMany(queue, task, bound) ==
    IF Len(queue) <= bound THEN Append(queue, task) ELSE queue

PushOverwritingOldest(queue, task, bound) ==
    IF Len(queue) < bound THEN Append(queue, task) ELSE Append(Tail(queue), task)

removeFromQueueViaStack(queue, target_task) == Reverse(Remove(queue, target_task))

getNextPendingTaskWithoutPop(task) ==
    /\ task = IF pending_queue = <<>> THEN nullptr ELSE Head(pending_queue)
    /\ UNCHANGED queueVars

----------------------------------------------------------------------------
\* The effect of the bounded push both queues share.
Push(queue, task, bound) ==
    IF Len(queue) < bound THEN Append(queue, task) ELSE queue

\* The private template that drains a queue into a second one, all but the
\* target, and pours that back: temp_queue[n] is the second one after n tasks.
removeFromQueue(queue, target_task) ==
    LET temp_queue[n \in 0 .. Len(queue)] ==
            IF n = 0 THEN <<>>
            ELSE IF queue[n] = target_task THEN temp_queue[n - 1]
            ELSE Append(temp_queue[n - 1], queue[n])
    IN  temp_queue[Len(queue)]

addToPendingQueue(task, added) ==
    /\ added = (Len(pending_queue) < MAX_PENDING_QUEUE)
    /\ pending_queue' = Push(pending_queue, task, MAX_PENDING_QUEUE)
    /\ UNCHANGED processing_queue

addToProcessingQueue(task, added) ==
    /\ added = (Len(processing_queue) < MAX_PROCESSING_QUEUE)
    /\ processing_queue' = Push(processing_queue, task, MAX_PROCESSING_QUEUE)
    /\ UNCHANGED pending_queue

getNextPendingTask(task) ==
    /\ \/ /\ pending_queue = <<>>
          /\ task = nullptr
          /\ UNCHANGED pending_queue
       \/ /\ pending_queue # <<>>
          /\ task = Head(pending_queue)
          /\ pending_queue' = Tail(pending_queue)
    /\ UNCHANGED processing_queue

getNextProcessingTask(task) ==
    /\ \/ /\ processing_queue = <<>>
          /\ task = nullptr
          /\ UNCHANGED processing_queue
       \/ /\ processing_queue # <<>>
          /\ task = Head(processing_queue)
          /\ processing_queue' = Tail(processing_queue)
    /\ UNCHANGED pending_queue

removeFromPendingQueue(task) ==
    /\ pending_queue' = removeFromQueue(pending_queue, task)
    /\ UNCHANGED processing_queue

removeFromProcessingQueue(task) ==
    /\ processing_queue' = removeFromQueue(processing_queue, task)
    /\ UNCHANGED pending_queue

----------------------------------------------------------------------------
Next == \/ \E task \in Tasks, added \in BOOLEAN :
             \/ addToPendingQueue(task, added)
             \/ addToProcessingQueue(task, added)
        \/ \E task \in Tasks \cup {nullptr} :
             \/ getNextPendingTask(task)
             \/ getNextProcessingTask(task)
        \/ \E task \in Tasks :
             \/ removeFromPendingQueue(task)
             \/ removeFromProcessingQueue(task)

Spec == Init /\ [][Next]_queueVars

----------------------------------------------------------------------------
\* The queues hold task pointers, never more than the two capacities allow.
TypeOK == /\ pending_queue \in Seq(Tasks)
          /\ processing_queue \in Seq(Tasks)
          /\ Len(pending_queue) <= MAX_PENDING_QUEUE
          /\ Len(processing_queue) <= MAX_PROCESSING_QUEUE

\* a waits strictly ahead of every occurrence of b.
Ahead(queue, a, b) ==
    /\ {a, b} \subseteq Range(queue)
    /\ \A i, j \in DOMAIN queue : queue[i] = a /\ queue[j] = b => i < j

Present(queue, a) == a \in Range(queue)

\* No call lets a task overtake another: if a is ahead of b in a queue before
\* a call and both are still queued after it, then of the two it is not b that
\* comes out first.  This is what the drain-and-refill loop of
\* removeFromQueue (task_queue.cpp:66-79) has to preserve although it rebuilds
\* the queue.
Overtaking(queue, next) ==
    \E a, b \in Tasks : /\ a # b
                        /\ Ahead(queue, a, b)
                        /\ Present(next, a)
                        /\ Present(next, b)
                        /\ \E j \in DOMAIN next : /\ next[j] = b
                                                 /\ \A i \in 1 .. j : next[i] # a

NoOvertaking == [][/\ ~Overtaking(pending_queue, pending_queue')
                   /\ ~Overtaking(processing_queue, processing_queue')]_queueVars

============================================================================
