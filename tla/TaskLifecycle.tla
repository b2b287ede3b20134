--------------------------- MODULE TaskLifecycle ---------------------------
(***************************************************************************)
(* What the task pool promises to those who look a task up by its id: a    *)
(* bounded number of tasks, each PENDING, then PROCESSING, then COMPLETED  *)
(* or FAILED, then gone.  TaskManager, with its two queues, its heap and   *)
(* its unlocked writes, implements this when the callers keep their side.  *)
(***************************************************************************)
EXTENDS Naturals, FiniteSets

CONSTANTS Ids, MAX_TASKS

VARIABLE stage     \* id -> the status a lookup by id would show, or "ABSENT"

Stages == {"ABSENT", "PENDING", "PROCESSING", "COMPLETED", "FAILED"}

Present == {id \in Ids : stage[id] # "ABSENT"}

Init == stage = [id \in Ids |-> "ABSENT"]

Advance(id, from, to) == /\ stage[id] = from
                         /\ stage' = [stage EXCEPT ![id] = to]

Create(id) == /\ Cardinality(Present) < MAX_TASKS
              /\ Advance(id, "ABSENT", "PENDING")

Dispatch(id) == Advance(id, "PENDING", "PROCESSING")

Complete(id) == Advance(id, "PROCESSING", "COMPLETED")

Fail(id) == Advance(id, "PROCESSING", "FAILED")

Release(id) == Advance(id, "COMPLETED", "ABSENT") \/ Advance(id, "FAILED", "ABSENT")

Next == \E id \in Ids : \/ Create(id)
                        \/ Dispatch(id)
                        \/ Complete(id)
                        \/ Fail(id)
                        \/ Release(id)

Spec == Init /\ [][Next]_stage

============================================================================
