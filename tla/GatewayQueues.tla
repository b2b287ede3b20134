--------------------------- MODULE GatewayQueues ---------------------------
(***************************************************************************)
(* The two queues of class TaskManager and the threads that empty them     *)
(* (src/core/task_manager.cpp): taskLoop hands requests to the node        *)
(* manager, responseLoop takes responses out, and the caller's thread      *)
(* pushes, pops finished responses, starts and stops the two loops.        *)
(*                                                                         *)
(* Neither queue is locked.  A pop is a test, a copy of the front and a    *)
(* removal, and the other threads run in between; the single operations of *)
(* etl::queue are taken as atomic.  A push needs no such care: one thread  *)
(* calls it, so that the room it has seen is still there.                  *)
(*                                                                         *)
(* What the loops do with an item they have taken changes nothing here:    *)
(* taskLoop passes it to a node manager, which is an empty file in this    *)
(* commit, and responseLoop drops it.                                      *)
(***************************************************************************)
EXTENDS Naturals, Sequences, SequencesExt

CONSTANTS MAX_TASKS,
          nullptr,
          MaxPushed            \* bound on the pushes to each queue

ASSUME QueuesAssumption == /\ MAX_TASKS \in Nat \ {0}
                           /\ MaxPushed \in Nat

VARIABLES running,
          queue,          \* input_queue and output_queue
          pc,             \* thread -> its next step, "none" when not started
          copy,           \* thread -> its local variable Task task
          accepted,       \* ghost: queue -> what was pushed to it, in order
          taken,          \* ghost: queue -> what was taken out of it, in order
          shared,         \* ghost: popFinishedResponse was called with running set
          corrupt         \* output_queue was popped when it was empty

vars == <<running, queue, pc, copy, accepted, taken, shared, corrupt>>

Queues == {"input", "output"}

Loops == {"task", "response"}

Threads == Loops \cup {"main"}

\* The queue a thread pops from; main does so in popFinishedResponse.
Source(t) == IF t = "task" THEN "input" ELSE "output"

Init == /\ running = FALSE
        /\ queue = [q \in Queues |-> <<>>]
        /\ pc = [t \in Threads |-> IF t = "main" THEN "idle" ELSE "none"]
        /\ copy = [t \in Threads |-> nullptr]
        /\ accepted = [q \in Queues |-> <<>>]
        /\ taken = [q \in Queues |-> <<>>]
        /\ shared = FALSE
        /\ corrupt = FALSE

Goto(t, step) == pc' = [pc EXCEPT ![t] = step]

\* The size of a corrupt queue has wrapped around below zero.
Empty(q) == queue[q] = <<>> /\ ~(q = "output" /\ corrupt)

Full(q) == Len(queue[q]) >= MAX_TASKS /\ ~(q = "output" /\ corrupt)

ghostVars == <<accepted, taken, shared, corrupt>>

----------------------------------------------------------------------------
\* Mutants of the actions below, each a plausible slip in task_manager.cpp.
stopWithoutJoin ==
    /\ pc["main"] = "idle" /\ running
    /\ running' = FALSE
    /\ Goto("main", "joinResponse")
    /\ UNCHANGED <<queue, copy, ghostVars>>

pushWithoutTest(q) ==
    /\ pc["main"] = "idle"
    /\ Len(accepted[q]) < MaxPushed
    /\ LET item == Len(accepted[q]) + 1 IN
         /\ queue' = [queue EXCEPT ![q] = Append(@, item)]
         /\ accepted' = [accepted EXCEPT ![q] = Append(@, item)]
    /\ UNCHANGED <<running, pc, copy, taken, shared, corrupt>>

loopForever(t) ==
    /\ pc[t] = "loop"
    /\ Goto(t, "test")
    /\ UNCHANGED <<running, queue, copy, ghostVars>>

testWithoutElse(t) ==
    /\ pc[t] = "test"
    /\ Goto(t, "front")
    /\ UNCHANGED <<running, queue, copy, ghostVars>>

----------------------------------------------------------------------------
\* The caller's thread ---------------------------------------------------------
\* start returns at once when the loops run already.
start ==
    /\ pc["main"] = "idle" /\ ~running
    /\ running' = TRUE
    /\ pc' = [pc EXCEPT !["task"] = "loop", !["response"] = "loop"]
    /\ UNCHANGED <<queue, copy, ghostVars>>

\* stop returns at once when they do not, and joins them one after the other.
stop ==
    /\ pc["main"] = "idle" /\ running
    /\ running' = FALSE
    /\ Goto("main", "joinTask")
    /\ UNCHANGED <<queue, copy, ghostVars>>

Join(t, next) ==
    /\ pc[t] = "exited"
    /\ pc' = [pc EXCEPT ![t] = "none", !["main"] = next]
    /\ UNCHANGED <<running, queue, copy, ghostVars>>

join == \/ pc["main"] = "joinTask" /\ Join("task", "joinResponse")
        \/ pc["main"] = "joinResponse" /\ Join("response", "idle")

\* pushRequest and pushResponse: a full queue drops the item without a word.
push(q) ==
    /\ pc["main"] = "idle"
    /\ ~Full(q)
    /\ Len(accepted[q]) < MaxPushed
    /\ LET item == Len(accepted[q]) + 1 IN
         /\ queue' = [queue EXCEPT ![q] = Append(@, item)]
         /\ accepted' = [accepted EXCEPT ![q] = Append(@, item)]
    /\ UNCHANGED <<running, pc, copy, taken, shared, corrupt>>

popFinishedResponse ==
    /\ pc["main"] = "idle"
    /\ Goto("main", "test")
    /\ shared' = (shared \/ running)
    /\ UNCHANGED <<running, queue, copy, accepted, taken, corrupt>>

----------------------------------------------------------------------------
\* taskLoop and responseLoop ---------------------------------------------------
loop(t) ==
    /\ pc[t] = "loop"
    /\ Goto(t, IF running THEN "test" ELSE "exited")
    /\ UNCHANGED <<running, queue, copy, ghostVars>>

\* Where a thread goes when it has finished with one item, or found none; a
\* loop that found none has slept for 10 ms on the way.
Again(t) == IF t = "main" THEN "idle" ELSE "loop"

test(t) ==
    /\ pc[t] = "test"
    /\ Goto(t, IF Empty(Source(t)) THEN Again(t) ELSE "front")
    /\ UNCHANGED <<running, queue, copy, ghostVars>>

\* The front of an empty queue is whatever the buffer holds there.
front(t) ==
    /\ pc[t] = "front"
    /\ copy' = [copy EXCEPT ![t] = IF queue[Source(t)] = <<>>
                                   THEN nullptr
                                   ELSE Head(queue[Source(t)])]
    /\ Goto(t, "pop")
    /\ UNCHANGED <<running, queue, ghostVars>>

pop(t) ==
    /\ pc[t] = "pop"
    /\ LET q == Source(t) IN
         /\ IF queue[q] = <<>>
            THEN corrupt' = TRUE /\ UNCHANGED queue
            ELSE queue' = [queue EXCEPT ![q] = Tail(@)] /\ UNCHANGED corrupt
         /\ taken' = IF corrupt' /\ q = "output"
                     THEN taken
                     ELSE [taken EXCEPT ![q] = Append(@, copy[t])]
    /\ copy' = [copy EXCEPT ![t] = nullptr]
    /\ Goto(t, Again(t))
    /\ UNCHANGED <<running, accepted, shared>>

----------------------------------------------------------------------------
Take(t) == test(t) \/ front(t) \/ pop(t)

Next == \/ start
        \/ stop
        \/ join
        \/ \E q \in Queues : push(q)
        \/ popFinishedResponse
        \/ \E t \in Loops : loop(t)
        \/ \E t \in Threads : Take(t)

Spec == Init /\ [][Next]_vars

\* Every thread gets to run: the loops sleep but never block, and the caller
\* comes back from the calls it has begun.
Fairness == /\ \A t \in Loops : WF_vars(loop(t) \/ Take(t))
            /\ WF_vars(join \/ Take("main"))

LiveSpec == Spec /\ Fairness

----------------------------------------------------------------------------
Items == 1 .. MaxPushed

TypeOK ==
    /\ {running, shared, corrupt} \subseteq BOOLEAN
    /\ queue \in [Queues -> Seq(Items)]
    /\ \A q \in Queues : Len(queue[q]) <= MAX_TASKS \/ (q = "output" /\ corrupt)
    /\ pc \in [Threads -> {"none", "loop", "exited", "idle", "test", "front", "pop",
                           "joinTask", "joinResponse"}]
    /\ copy \in [Threads -> Items \cup {nullptr}]
    /\ accepted \in [Queues -> Seq(Items)]
    /\ taken \in [Queues -> Seq(Items \cup {nullptr})]

\* Between calls of start and stop the two threads exist exactly when running
\* says so: stop leaves none behind, and start never overwrites a thread that
\* has not been joined, which would terminate the program.
ThreadsFollowRunning ==
    pc["main"] \notin {"joinTask", "joinResponse"} =>
        \A t \in Loops : IF running THEN pc[t] \in {"loop", "test", "front", "pop"}
                                    ELSE pc[t] = "none"

\* Each accepted item is still queued or has been taken out, once and in the
\* order of its arrival, even though a pop is three operations and stop may
\* come between any two of them.  For the output queue this is so as long as
\* the caller does not pop from it while responseLoop does.
TakenInOrder ==
    \A q \in Queues :
        q = "input" \/ ~shared => accepted[q] = taken[q] \o queue[q]

\* stop comes back: the loops see the flag and end, whatever is still queued.
StopReturns == pc["main"] = "joinTask" ~> pc["main"] = "idle"

============================================================================
