------------------------------ MODULE TaskPool ------------------------------
(***************************************************************************)
(* What the job queue needs of its pool of threads, as the comments of     *)
(* Workers.h promise it: each call of addtask leads to exactly one call of *)
(* processtask, no more of them run at once than there are threads, and    *)
(* the pool is closed only when it owes nothing.                           *)
(***************************************************************************)
EXTENDS Integers

CONSTANT Threads    \* threads of the pool

VARIABLES
    owed,      \* calls of processtask that addtask asked for and that have not begun
    busy,      \* calls of processtask under way
    closed     \* the pool is being destroyed

vars == <<owed, busy, closed>>

AddTask == ~closed /\ owed' = owed + 1 /\ UNCHANGED <<busy, closed>>

BeginTask == owed > 0 /\ busy < Threads /\ owed' = owed - 1 /\ busy' = busy + 1 /\ UNCHANGED closed

EndTask == busy > 0 /\ busy' = busy - 1 /\ UNCHANGED <<owed, closed>>

\* A task that ends may ask for another one in the same step.
EndAndAddTask == ~closed /\ busy > 0 /\ busy' = busy - 1 /\ owed' = owed + 1 /\ UNCHANGED closed

Close == ~closed /\ owed = 0 /\ busy = 0 /\ closed' = TRUE /\ UNCHANGED <<owed, busy>>

Init == owed = 0 /\ busy = 0 /\ closed = FALSE

Next == AddTask \/ BeginTask \/ EndTask \/ EndAndAddTask \/ Close

Spec == Init /\ [][Next]_vars

\* A task that is owed begins as long as a thread is free, and tasks end.
FairSpec == Spec /\ WF_vars(BeginTask) /\ WF_vars(EndTask \/ EndAndAddTask)
=============================================================================
