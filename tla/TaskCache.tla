----------------------------- MODULE TaskCache -----------------------------
(***************************************************************************)
(* class TaskCache (src/core/task_cache.h, task_cache.cpp): the map from   *)
(* request_id to a heap-allocated TaskContext, behind cache_mutex_.  Each  *)
(* member function that locks it is one critical section, hence one atomic *)
(* action.  getSize and isFull lock nothing: they are modelled as they are *)
(* read inside createTask, which holds the mutex; nothing else in the      *)
(* repository reads them but a statistic that nobody asks for.             *)
(* TaskContext is abstracted to the two fields control depends on.  The    *)
(* heap is explicit, so that a pointer can outlive its task and an address *)
(* freed by delete can be handed out again by new.                         *)
(***************************************************************************)
EXTENDS Naturals, FiniteSets

CONSTANTS Ids,         \* request ids
          Addrs,       \* addresses new TaskContext() may return (bounds the heap)
          nullptr,
          MAX_TASKS

VARIABLES task_cache,  \* request_id -> pointer, nullptr when the key is absent
          heap         \* address -> TaskContext, or Freed

cacheVars == <<task_cache, heap>>

TaskStatus == {"PENDING", "ASSIGNING", "PROCESSING", "COMPLETED", "FAILED",
               "TIMEOUT", "CANCELLED"}

TaskContext == [request_id : Ids, status : TaskStatus]

Freed == [request_id |-> nullptr, status |-> "freed"]

Live(task) == heap[task] # Freed

Cached == {id \in Ids : task_cache[id] # nullptr}

Init == /\ task_cache = [id \in Ids |-> nullptr]
        /\ heap = [a \in Addrs |-> Freed]

----------------------------------------------------------------------------
\* A mutant of an operator below, a plausible slip in task_cache.cpp.
completeTaskWithoutDelete(request_id) ==
    /\ task_cache' = [task_cache EXCEPT ![request_id] = nullptr]
    /\ UNCHANGED heap

----------------------------------------------------------------------------
getSize == Cardinality(Cached)

isFull == getSize >= MAX_TASKS

getTask(request_id) == task_cache[request_id]

\* The function's result: the pointers of the cached tasks in that status.
getTasksByStatus(status) ==
    {task_cache[id] : id \in {i \in Cached : heap[task_cache[i]].status = status}}

\* unordered_map::insert leaves an existing key alone, yet the task that was
\* allocated for it is returned all the same.
createTask(request_id, task) ==
    \/ /\ isFull
       /\ task = nullptr
       /\ UNCHANGED cacheVars
    \/ /\ ~isFull
       /\ task \in Addrs
       /\ ~Live(task)
       /\ heap' = [heap EXCEPT ![task] = [request_id |-> request_id, status |-> "PENDING"]]
       /\ task_cache' = [task_cache EXCEPT ![request_id] = IF @ = nullptr THEN task ELSE @]

\* What writing a status through a pointer does: a write through a stale
\* pointer reaches whatever task lives at that address now, if any does.
WriteStatus(task, status) ==
    heap' = IF Live(task) THEN [heap EXCEPT ![task].status = status] ELSE heap

updateTaskStatus(request_id, status) ==
    /\ IF request_id \in Cached
       THEN WriteStatus(task_cache[request_id], status)
       ELSE UNCHANGED heap
    /\ UNCHANGED task_cache

completeTask(request_id) ==
    IF request_id \in Cached
    THEN /\ heap' = [heap EXCEPT ![task_cache[request_id]] = Freed]
         /\ task_cache' = [task_cache EXCEPT ![request_id] = nullptr]
    ELSE UNCHANGED cacheVars

----------------------------------------------------------------------------
Next == \E request_id \in Ids :
          \/ \E task \in Addrs \cup {nullptr} : createTask(request_id, task)
          \/ \E status \in TaskStatus : updateTaskStatus(request_id, status)
          \/ completeTask(request_id)

Spec == Init /\ [][Next]_cacheVars

----------------------------------------------------------------------------
TypeOK == /\ task_cache \in [Ids -> Addrs \cup {nullptr}]
          /\ heap \in [Addrs -> TaskContext \cup {Freed}]

\* A key of the cache always leads to a live task created under that very key:
\* no entry dangles and no two keys share a task, whatever is created, updated
\* or completed in whatever order (task_cache.cpp:40-48 erases and deletes in
\* one critical section).
EntriesLive == \A id \in Cached : /\ Live(task_cache[id])
                                  /\ heap[task_cache[id]].request_id = id

\* The pool never holds more than MAX_TASKS entries (task_cache.cpp:8).
WithinCapacity == getSize <= MAX_TASKS

\* "Main pool: stores all tasks" (task_cache.h:13): every task that has been
\* allocated and not yet deleted can be found in the cache.
StoresAllTasks == \A a \in Addrs : Live(a) => \E id \in Cached : task_cache[id] = a

============================================================================
