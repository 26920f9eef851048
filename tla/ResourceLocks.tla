--------------------------- MODULE ResourceLocks ----------------------------
(***************************************************************************)
(* What the resource locker of the task pool promises: a set of held       *)
(* locks, one per task, in which no two tasks use one template and whose   *)
(* size respects the server-wide limit.  The goroutines, channels and      *)
(* database of the implementation do not appear here.                      *)
(***************************************************************************)
EXTENDS Integers, FiniteSets

CONSTANTS
    Task,              \* task ids
    TemplateOf,        \* the template a task runs
    MaxParallelTasks   \* server-wide limit, 0 for none

VARIABLE held          \* the tasks that hold the lock of their template

Init == held = {}

Compatible(t) ==
    /\ \A r \in held : TemplateOf[r] # TemplateOf[t]
    /\ MaxParallelTasks > 0 => Cardinality(held) < MaxParallelTasks

Acquire(t) == Compatible(t) /\ held' = held \cup {t}

Release(t) == held' = held \ {t}

\* The locks live in memory: a restart of the server forgets them.
Forget == held' = {}

Next == Forget \/ \E t \in Task : Acquire(t) \/ Release(t)

Spec == Init /\ [][Next]_held

=============================================================================
