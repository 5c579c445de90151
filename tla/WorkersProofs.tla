---------------------------- MODULE WorkersProofs ----------------------------
(***************************************************************************)
(* The workers implement the pool of tasks, for any number of threads and  *)
(* of tasks.                                                               *)
(*                                                                         *)
(* The semaphore does not tell a task from a request to pause.  What keeps *)
(* them apart is that there are never both: before the destructor no pause *)
(* is counted (Open), and from then on every count that the semaphore or a *)
(* worker holds is a pause, counted in m_pausecount before the semaphore is*)
(* signalled (Closing).  A worker that took a count therefore finds        *)
(* m_pausecount as the kind of its count requires.                         *)
(***************************************************************************)
EXTENDS Workers, FiniteSetTheorems, TLAPS

In(place, places) == IF place \in places THEN 1 ELSE 0

Count(f, places) == Cardinality({w \in Worker : f[w] \in places})

Holding == {"load", "decrement", "start", "process"}

Active == {"reset", "idle", "load", "decrement", "undo", "start", "process", "task", "done",
           "leave"}

Closed == owner \notin {"create", "open"}

Open == ~Closed => pausecount = 0 /\ \A w \in Worker : pc[w] # "decrement"

Closing ==
    Closed => /\ semaphore + Count(pc, Holding) = pausecount - (IF owner = "signal" THEN 1 ELSE 0)
              /\ \A w \in Worker : pc[w] \notin {"start", "process", "task"}

Threading ==
    /\ owner = "create" => everyone < Threads /\ \A w \in Worker : w > everyone => pc[w] = "none"
    /\ owner = "join" => everyone > 0
    /\ owner = "signal" => pausing > 0

IInv ==
    /\ TypeOK /\ Open /\ Closing /\ Threading
    /\ activecount = Count(pc, Active)
    /\ \A w \in Worker : pc[w] # "undo"

-----------------------------------------------------------------------------
\* There are finitely many workers anywhere, and at most Threads.
LEMMA CountType ==
    ASSUME NEW f, NEW S
    PROVE  /\ IsFiniteSet({w \in Worker : f[w] \in S})
           /\ Count(f, S) \in 0..Threads
<1>1. IsFiniteSet(Worker) /\ Cardinality(Worker) = Threads
  BY WorkersAssumption, FS_Interval, SMT DEF Worker
<1>2. {w \in Worker : f[w] \in S} \subseteq Worker
  OBVIOUS
<1>3. IsFiniteSet({w \in Worker : f[w] \in S}) /\ Count(f, S) <= Threads
  BY <1>1, <1>2, FS_Subset DEF Count
<1>4. Count(f, S) \in Nat
  BY <1>3, FS_CardinalityType DEF Count
<1> QED BY <1>3, <1>4, WorkersAssumption

\* A worker that goes from one place to another leaves the count of the one and
\* enters the count of the other.
LEMMA CountMove ==
    ASSUME NEW f \in [Worker -> WorkerAt], NEW v \in Worker, NEW p \in WorkerAt, NEW S,
           NEW g, g = [f EXCEPT ![v] = p]
    PROVE  Count(g, S)
             = Count(f, S) + In(p, S) - In(f[v], S)
<1> DEFINE A == {w \in Worker : f[w] \in S}
           B == {w \in Worker : g[w] \in S}
           C == A \ {v}
<1>1. IsFiniteSet(A)
  BY CountType, Zenon
<1>4. \A w \in Worker : g[w] = IF w = v THEN p ELSE f[w]
  OBVIOUS
<1>5. A = IF f[v] \in S THEN C \cup {v} ELSE C
  OBVIOUS
<1>6. B = IF p \in S THEN C \cup {v} ELSE C
  BY <1>4
<1>9. Count(f, S) = Cardinality(A) /\ Count(g, S) = Cardinality(B)
  BY DEF Count
<1>c. C \subseteq A /\ v \notin C
  OBVIOUS
<1> HIDE DEF A, B, C
<1>2. IsFiniteSet(C) /\ Cardinality(C) \in Nat
  BY <1>1, <1>c, FS_Subset, FS_CardinalityType, Zenon
<1>3. Cardinality(C \cup {v}) = Cardinality(C) + 1
  BY <1>2, <1>c, FS_AddElement, Zenon
<1>7. Cardinality(A) = Cardinality(C) + In(f[v], S)
  <2>1. CASE f[v] \in S  BY <2>1, <1>3, <1>5 DEF In
  <2>2. CASE f[v] \notin S  BY <2>2, <1>2, <1>5 DEF In
  <2> QED BY <2>1, <2>2
<1>8. Cardinality(B) = Cardinality(C) + In(p, S)
  <2>1. CASE p \in S  BY <2>1, <1>3, <1>6 DEF In
  <2>2. CASE p \notin S  BY <2>2, <1>2, <1>6 DEF In
  <2> QED BY <2>1, <2>2
<1>i. In(p, S) \in Int /\ In(f[v], S) \in Int
  BY DEF In
<1> QED BY <1>2, <1>7, <1>8, <1>9, <1>i

\* A place that a worker is at is counted.
LEMMA CountPositive ==
    ASSUME NEW f, NEW v \in Worker, NEW S, f[v] \in S
    PROVE  Count(f, S) > 0
<1> DEFINE A == {w \in Worker : f[w] \in S}
<1>1. IsFiniteSet(A) /\ v \in A
  BY CountType
<1>2. Cardinality(A) \in Nat /\ Cardinality(A) # 0
  BY <1>1, FS_CardinalityType, FS_EmptySet
<1> QED BY <1>2 DEF Count

\* If nobody is counted, nobody is there.
LEMMA CountZero ==
    ASSUME NEW f, NEW S
    PROVE  Count(f, S) = 0 <=> \A w \in Worker : f[w] \notin S
<1>1. ASSUME Count(f, S) = 0, NEW w \in Worker PROVE f[w] \notin S
  BY <1>1, CountPositive
<1>2. ASSUME \A w \in Worker : f[w] \notin S PROVE Count(f, S) = 0
  <2>1. {w \in Worker : f[w] \in S} = {}
    BY <1>2
  <2> QED BY <2>1, FS_EmptySet DEF Count
<1> QED BY <1>1, <1>2

\* The names of the refinement mapping in terms of Count.
LEMMA Mapping ==
    /\ Undecided = Count(pc, Holding) /\ Busy = Count(pc, {"task"})
    /\ Undecided' = Count(pc', Holding) /\ Busy' = Count(pc', {"task"})
BY DEF Undecided, Busy, Count, Holding, At

\* Nothing that the invariant speaks of changes.
LEMMA StutterInv == IInv /\ UNCHANGED vars => IInv'
BY DEF IInv, vars, TypeOK, Open, Closing, Closed, Threading

\* What a step of one worker does to the places and to their counts.
LEMMA Move ==
    ASSUME TypeOK, NEW w \in Worker, NEW p \in WorkerAt, GoTo(w, p)
    PROVE  /\ pc' \in [Worker -> WorkerAt] /\ pc'[w] = p
           /\ \A v \in Worker : v # w => pc'[v] = pc[v]
           /\ \A S : Count(pc', S)
                       = Count(pc, S) + In(p, S) - In(pc[w], S)
           /\ \A S : Count(pc, S) \in 0..Threads /\ Count(pc', S) \in 0..Threads
<1>1. pc \in [Worker -> WorkerAt] /\ pc' = [pc EXCEPT ![w] = p]
  BY DEF TypeOK, GoTo
<1>2. \A S : Count(pc', S)
               = Count(pc, S) + In(p, S) - In(pc[w], S)
  <2> SUFFICES ASSUME NEW S
               PROVE  Count(pc', S) = Count(pc, S) + In(p, S)
                                        - In(pc[w], S)
    OBVIOUS
  <2> DEFINE f == pc
             g == pc'
  <2>1. f \in [Worker -> WorkerAt] /\ g = [f EXCEPT ![w] = p]
    BY <1>1
  <2> HIDE DEF f, g
  <2>2. Count(g, S) = Count(f, S) + In(p, S) - In(f[w], S)
    BY <2>1, CountMove, ZenonT(30)
  <2> QED BY <2>2 DEF f, g
<1>3. \A S : Count(pc, S) \in 0..Threads /\ Count(pc', S) \in 0..Threads
  BY CountType, Zenon
<1> QED BY <1>1, <1>2, <1>3, Zenon

\* The pool starts in the invariant, without workers.
LEMMA InitInv == Init => IInv
<1> SUFFICES ASSUME Init PROVE IInv
  OBVIOUS
<1>1. TypeOK
  BY WorkersAssumption DEF Init, TypeOK, OwnerAt, WorkerAt, Worker
<1>2. Count(pc, Active) = 0
  BY CountZero DEF Init, Active
<1> QED BY <1>1, <1>2, WorkersAssumption DEF Init, IInv, Open, Closing, Closed, Threading

\* The steps of the owner keep the invariant.
LEMMA OwnerInv == IInv /\ (OwnerStep \/ AddTask \/ Destroy) => IInv'
<1> SUFFICES ASSUME IInv, OwnerStep \/ AddTask \/ Destroy PROVE IInv'
  OBVIOUS
<1>t. TypeOK /\ Threads \in Nat \ {0} /\ MaxTasks \in Nat
  BY WorkersAssumption DEF IInv
<1>h. Count(pc, Holding) \in 0..Threads
  BY CountType, Zenon
<1>1. CASE Create
  <2>1. everyone + 1 \in Worker /\ pc[everyone + 1] = "none" /\ everyone \in Nat
    BY <1>1, <1>t DEF Create, IInv, Threading, TypeOK, Worker
  <2>2. GoTo(everyone + 1, "top") /\ "top" \in WorkerAt
    BY <1>1 DEF Create, WorkerAt
  <2>3. /\ pc' \in [Worker -> WorkerAt] /\ pc'[everyone + 1] = "top"
        /\ \A v \in Worker : v # everyone + 1 => pc'[v] = pc[v]
        /\ Count(pc', Active) = Count(pc, Active)
    BY <1>t, <2>1, <2>2, Move DEF Active, In
  <2>4. TypeOK'
    BY <1>1, <1>t, <2>1, <2>3 DEF Create, TypeOK, OwnerAt, Worker
  <2>5. ~Closed' /\ ~Closed /\ Open' /\ Closing'
    BY <1>1, <2>1, <2>3 DEF Create, Closed, Open, Closing, IInv
  <2>6. Threading'
    BY <1>1, <1>t, <2>1, <2>3 DEF Create, Threading, IInv, TypeOK, Worker
  <2>7. activecount' = Count(pc', Active) /\ \A w \in Worker : pc'[w] # "undo"
    BY <1>1, <2>1, <2>3 DEF Create, IInv
  <2> QED BY <2>4, <2>5, <2>6, <2>7 DEF IInv
<1>2. CASE AddTask
  BY <1>2, <1>t DEF AddTask, IInv, TypeOK, Open, Closing, Closed, Threading
<1>3. CASE Destroy
  <2>1. semaphore + Count(pc, Holding) = 0 /\ pausecount = 0
    BY <1>3, <1>t, Mapping DEF Destroy, Owed, IInv, Open, Closed, TypeOK
  <2>2. semaphore = 0 /\ Count(pc, Holding) = 0 /\ Count(pc, {"task"}) = 0
    BY <1>3, <1>t, <1>h, <2>1, Mapping DEF Destroy, TypeOK
  <2>3. \A w \in Worker : pc[w] \notin {"start", "process", "task"}
    BY <2>2, CountZero DEF Holding
  <2>4. TypeOK'
    BY <1>3, <1>t DEF Destroy, TypeOK, OwnerAt
  <2>5. Open' /\ Closing' /\ Threading'
    BY <1>3, <2>1, <2>2, <2>3 DEF Destroy, Open, Closing, Closed, Threading
  <2> QED BY <1>3, <2>4, <2>5 DEF Destroy, IInv
<1>4. CASE Pause
  BY <1>4, <1>t, <1>h DEF Pause, IInv, TypeOK, OwnerAt, Open, Closing, Closed, Threading
<1>5. CASE PauseSignal
  BY <1>5, <1>t, <1>h DEF PauseSignal, IInv, TypeOK, OwnerAt, Open, Closing, Closed, Threading
<1>6. CASE AllPaused
  BY <1>6, <1>t DEF AllPaused, IInv, TypeOK, OwnerAt, Open, Closing, Closed, Threading
<1>7. CASE StopThread
  <2>1. everyone \in Nat /\ (everyone > 0 => everyone \in Worker)
    BY <1>t DEF TypeOK, Worker
  <2>2. TypeOK'
    BY <1>7, <1>t, <2>1, Zenon DEF StopThread, TypeOK, OwnerAt
  <2>3. Open' /\ Closing' /\ Threading'
    BY <1>7, <2>1 DEF StopThread, IInv, Open, Closing, Closed, Threading
  <2> QED BY <1>7, <2>2, <2>3 DEF StopThread, IInv
<1>8. CASE Join
  BY <1>8, <1>t DEF Join, IInv, TypeOK, OwnerAt, Open, Closing, Closed, Threading
<1> QED BY <1>1, <1>2, <1>3, <1>4, <1>5, <1>6, <1>7, <1>8 DEF OwnerStep


\* A step of a worker keeps the invariant if it keeps the books: a count taken
\* from the semaphore or from m_pausecount is one that the worker holds, and
\* m_activecount is changed with the worker's place.
LEMMA MoveInv ==
    ASSUME IInv, NEW w \in Worker, NEW p \in WorkerAt, GoTo(w, p), UnchangedOwner,
           event' \in [Worker -> BOOLEAN], allpaused' \in BOOLEAN,
           pc[w] # "none", p # "undo",
           p = "decrement" => pausecount > 0 /\ Closed,
           p \in {"start", "process", "task"} => ~Closed,
           semaphore' \in Nat, pausecount' \in Nat,
           ~Closed => pausecount' = pausecount,
           Closed => semaphore' - pausecount' + In(p, Holding)
                       = semaphore - pausecount + In(pc[w], Holding),
           activecount' + In(pc[w], Active) = activecount + In(p, Active),
           activecount' \in Int
    PROVE  IInv'
<1>t. TypeOK /\ Threads \in Nat \ {0} /\ semaphore \in Nat /\ pausecount \in Nat /\ activecount \in Nat
  BY WorkersAssumption DEF IInv, TypeOK
<1>1. /\ pc' \in [Worker -> WorkerAt] /\ pc'[w] = p
      /\ \A v \in Worker : v # w => pc'[v] = pc[v]
  BY <1>t, Move
<1>2. /\ Count(pc', Holding) = Count(pc, Holding) + In(p, Holding) - In(pc[w], Holding)
      /\ Count(pc', Active) = Count(pc, Active) + In(p, Active) - In(pc[w], Active)
      /\ Count(pc, Holding) \in Int /\ Count(pc', Holding) \in Int
      /\ Count(pc, Active) \in Int /\ Count(pc', Active) \in 0..Threads
  BY <1>t, Move
<1>i. /\ In(p, Holding) \in Int /\ In(pc[w], Holding) \in Int
      /\ In(p, Active) \in Int /\ In(pc[w], Active) \in Int
  BY DEF In
<1>3. activecount' = Count(pc', Active)
  BY <1>t, <1>2, <1>i DEF IInv
<1>4. TypeOK'
  BY <1>t, <1>1, <1>2, <1>3 DEF TypeOK, UnchangedOwner
<1>5. (Closed' <=> Closed) /\ owner' = owner
  BY DEF Closed, UnchangedOwner
<1>6. Open'
  BY <1>t, <1>1, <1>5 DEF IInv, Open
<1>7. Closing'
  <2>1. CASE ~Closed
    BY <2>1, <1>5 DEF Closing
  <2>2. CASE Closed
    <3>0. semaphore + Count(pc, Holding) = pausecount - (IF owner = "signal" THEN 1 ELSE 0)
      BY <2>2 DEF IInv, Closing
    <3>1. semaphore' + Count(pc', Holding) = pausecount' - (IF owner = "signal" THEN 1 ELSE 0)
      BY <1>t, <1>2, <1>i, <2>2, <3>0, SMTT(30)
    <3>2. \A v \in Worker : pc'[v] \notin {"start", "process", "task"}
      BY <1>1, <2>2 DEF IInv, Closing
    <3> QED BY <1>5, <3>1, <3>2 DEF Closing
  <2> QED BY <2>1, <2>2
<1>8. Threading'
  BY <1>1 DEF IInv, Threading, UnchangedOwner
<1>9. \A v \in Worker : pc'[v] # "undo"
  BY <1>1 DEF IInv
<1> QED BY <1>3, <1>4, <1>6, <1>7, <1>8, <1>9 DEF IInv

\* The steps of a worker keep the invariant.
LEMMA WorkerInv ==
    ASSUME IInv, NEW w \in Worker, WorkerStep(w) \/ Wait(w)
    PROVE  IInv'
<1>t. /\ TypeOK /\ pc[w] # "undo" /\ Threads \in Nat \ {0}
      /\ semaphore \in Nat /\ pausecount \in Nat /\ activecount \in Nat
      /\ event \in [Worker -> BOOLEAN] /\ allpaused \in BOOLEAN
  BY WorkersAssumption DEF IInv, TypeOK
<1>h. Count(pc, Holding) \in 0..Threads /\ (pc[w] \in Holding => Count(pc, Holding) > 0)
  BY CountType, CountPositive, Zenon
<1>c. pc[w] \in Holding /\ Closed => pausecount > 0
  BY <1>h, <1>t DEF IInv, Closing
<1>o. ~Closed => pausecount = 0
  BY DEF IInv, Open
<1>d. pc[w] = "decrement" => Closed
  BY DEF IInv, Open
<1>p. pc[w] \in {"start", "process", "task"} => ~Closed
  BY DEF IInv, Closing
<1>1. CASE Top(w)
  <2>1. CASE shouldexit[w]
    <3>1. GoTo(w, "exited") /\ "exited" \in WorkerAt
      BY <1>1, <2>1 DEF Top, WorkerAt
    <3> QED BY <1>1, <2>1, <3>1, <1>t, MoveInv DEF Top, In, Holding, Active
  <2>2. CASE ~shouldexit[w]
    <3>1. GoTo(w, "enter") /\ "enter" \in WorkerAt
      BY <1>1, <2>2 DEF Top, WorkerAt
    <3> QED BY <1>1, <2>2, <3>1, <1>t, MoveInv DEF Top, In, Holding, Active
  <2> QED BY <2>1, <2>2
<1>2. CASE Enter(w)
  <2>1. CASE activecount = 0
    <3>1. GoTo(w, "reset") /\ "reset" \in WorkerAt
      BY <1>2, <2>1 DEF Enter, WorkerAt
    <3> QED BY <1>2, <2>1, <3>1, <1>t, MoveInv DEF Enter, In, Holding, Active
  <2>2. CASE activecount # 0
    <3>1. GoTo(w, "idle") /\ "idle" \in WorkerAt
      BY <1>2, <2>2 DEF Enter, WorkerAt
    <3> QED BY <1>2, <2>2, <3>1, <1>t, MoveInv DEF Enter, In, Holding, Active
  <2> QED BY <2>1, <2>2
<1>3. CASE Reset(w)
  <2>1. GoTo(w, "idle") /\ "idle" \in WorkerAt
    BY <1>3 DEF Reset, WorkerAt
  <2>2. /\ allpaused' \in BOOLEAN /\ UnchangedOwner
        /\ UNCHANGED <<semaphore, activecount, pausecount, event>>
    BY <1>3, Zenon DEF Reset
  <2>3. In("idle", Holding) = 0 /\ In(pc[w], Holding) = 0
        /\ In("idle", Active) = 1 /\ In(pc[w], Active) = 1 /\ pc[w] = "reset"
    BY <1>3 DEF Reset, In, Holding, Active
  <2> QED BY <2>1, <2>2, <2>3, <1>t, MoveInv
<1>4. CASE Wait(w)
  <2>1. GoTo(w, "load") /\ "load" \in WorkerAt
    BY <1>4 DEF Wait, WorkerAt
  <2> QED BY <1>4, <2>1, <1>t, MoveInv DEF Wait, In, Holding, Active
<1>5. CASE Load(w)
  <2>1. CASE Closed
    <3>1. GoTo(w, "decrement") /\ "decrement" \in WorkerAt
      BY <1>5, <2>1, <1>c DEF Holding, Load, WorkerAt
    <3> QED BY <1>5, <2>1, <3>1, <1>t, <1>c, <1>o, MoveInv DEF Load, In, Holding, Active
  <2>2. CASE ~Closed
    <3>1. GoTo(w, "start") /\ "start" \in WorkerAt
      BY <1>5, <2>2, <1>o DEF Load, WorkerAt
    <3> QED BY <1>5, <2>2, <3>1, <1>t, <1>c, <1>o, MoveInv DEF Load, In, Holding, Active
  <2> QED BY <2>1, <2>2
<1>6. CASE Decrement(w)
  <2>1. GoTo(w, "leave") /\ "leave" \in WorkerAt
    BY <1>6, <1>c, <1>d DEF Decrement, WorkerAt, Holding
  <2> QED BY <1>6, <2>1, <1>t, <1>c, <1>d, MoveInv DEF Decrement, In, Holding, Active
<1>7. CASE Start(w)
  <2>1. GoTo(w, "process") /\ "process" \in WorkerAt
    BY <1>7 DEF Start, WorkerAt
  <2> QED BY <1>7, <2>1, <1>t, <1>p, MoveInv DEF Start, In, Holding, Active
<1>8. CASE BeginTask(w)
  <2>1. GoTo(w, "task") /\ "task" \in WorkerAt
    BY <1>8 DEF BeginTask, WorkerAt
  <2>2. ~Closed /\ UnchangedOwner
        /\ UNCHANGED <<semaphore, activecount, pausecount, allpaused, event>>
    BY <1>8, <1>p DEF BeginTask
  <2> QED BY <1>8, <2>1, <2>2, <1>t, MoveInv DEF BeginTask, In, Holding, Active
<1>9. CASE EndTask(w)
  <2>1. GoTo(w, "done") /\ "done" \in WorkerAt
    BY <1>9 DEF EndTask, WorkerAt
  <2> QED BY <1>9, <2>1, <1>t, MoveInv DEF EndTask, In, Holding, Active
<1>10. CASE Done(w)
  <2>1. GoTo(w, "idle") /\ "idle" \in WorkerAt
    BY <1>10 DEF Done, WorkerAt
  <2> QED BY <1>10, <2>1, <1>t, MoveInv DEF Done, In, Holding, Active
<1>11. CASE Leave(w)
  <2>1. CASE activecount = 1
    <3>1. GoTo(w, "signal") /\ "signal" \in WorkerAt
      BY <1>11, <2>1 DEF Leave, WorkerAt
    <3> QED BY <1>11, <2>1, <3>1, <1>t, MoveInv DEF Leave, In, Holding, Active
  <2>2. CASE activecount # 1
    <3>1. GoTo(w, "paused") /\ "paused" \in WorkerAt
      BY <1>11, <2>2 DEF Leave, WorkerAt
    <3> QED BY <1>11, <2>2, <3>1, <1>t, MoveInv DEF Leave, In, Holding, Active
  <2> QED BY <2>1, <2>2
<1>12. CASE SignalAllPaused(w)
  <2>1. GoTo(w, "paused") /\ "paused" \in WorkerAt
    BY <1>12 DEF SignalAllPaused, WorkerAt
  <2> QED BY <1>12, <2>1, <1>t, MoveInv DEF SignalAllPaused, In, Holding, Active
<1>13. CASE Wake(w)
  <2>1. GoTo(w, "top") /\ "top" \in WorkerAt
    BY <1>13 DEF Wake, WorkerAt
  <2> QED BY <1>13, <2>1, <1>t, MoveInv DEF Wake, In, Holding, Active
<1> QED BY <1>1, <1>2, <1>3, <1>4, <1>5, <1>6, <1>7, <1>8, <1>9, <1>10, <1>11, <1>12, <1>13, SMTT(30)
           DEF WorkerStep

\* Spec implies the inductive invariant.
THEOREM Invariance == Spec => []IInv
<1>1. IInv /\ [Next]_vars => IInv'
  BY OwnerInv, WorkerInv, StutterInv DEF Next
<1> QED BY InitInv, <1>1, PTL DEF Spec

\* The counters of the pool keep their types: m_pausecount is never negative, so
\* no worker ever has to undo its decrement.
THEOREM TypeCorrect == Spec => []TypeOK
BY Invariance, PTL DEF IInv


-----------------------------------------------------------------------------
\* A step of the owner is a step of the pool of tasks, or none.
LEMMA OwnerImplements ==
    IInv /\ (OwnerStep \/ AddTask \/ Destroy) => [Pool!Next]_Pool!vars
<1> SUFFICES ASSUME IInv, OwnerStep \/ AddTask \/ Destroy PROVE [Pool!Next]_Pool!vars
  OBVIOUS
<1>t. TypeOK /\ Threads \in Nat \ {0} /\ semaphore \in Nat /\ pausecount \in Nat
  BY WorkersAssumption DEF IInv, TypeOK
<1>h. /\ Count(pc, Holding) \in 0..Threads
      /\ Undecided = Count(pc, Holding) /\ Busy = Count(pc, {"task"})
      /\ Undecided' = Count(pc', Holding) /\ Busy' = Count(pc', {"task"})
  BY CountType, Mapping, Zenon
<1>1. CASE Create
  <2>1. everyone + 1 \in Worker /\ pc[everyone + 1] = "none"
    BY <1>1, <1>t DEF Create, IInv, Threading, TypeOK, Worker
  <2>2. GoTo(everyone + 1, "top") /\ "top" \in WorkerAt
    BY <1>1 DEF Create, WorkerAt
  <2>3. Undecided' = Undecided /\ Busy' = Busy
    <3>1. /\ In("top", Holding) = 0 /\ In(pc[everyone + 1], Holding) = 0
          /\ In("top", {"task"}) = 0 /\ In(pc[everyone + 1], {"task"}) = 0
      BY <2>1 DEF In, Holding
    <3>2. /\ Count(pc', Holding) = Count(pc, Holding) + 0 - 0
          /\ Count(pc', {"task"}) = Count(pc, {"task"}) + 0 - 0
          /\ Count(pc, {"task"}) \in 0..Threads
      BY <1>t, <2>1, <2>2, <3>1, Move
    <3> QED BY <1>h, <3>2
  <2> QED BY <1>1, <2>3 DEF Create, Owed, Pool!vars
<1>2. CASE AddTask
  <2>1. Undecided' = Undecided /\ Busy' = Busy
    BY <1>2, <1>h DEF AddTask
  <2>2. Owed' = Owed + 1
    BY <1>2, <1>h, <1>t, <2>1 DEF AddTask, Owed
  <2> QED BY <1>2, <2>1, <2>2 DEF AddTask, Pool!Next, Pool!AddTask
<1>3. CASE Destroy
  <2>1. Undecided' = Undecided /\ Busy' = Busy /\ Owed' = Owed
    BY <1>3, <1>h DEF Destroy, Owed
  <2> QED BY <1>3, <2>1 DEF Destroy, Pool!Next, Pool!Close
<1>4. ASSUME Pause \/ PauseSignal \/ AllPaused \/ StopThread \/ Join PROVE UNCHANGED Pool!vars
  <2>1. Undecided' = Undecided /\ Busy' = Busy
    BY <1>4, <1>h DEF Pause, PauseSignal, AllPaused, StopThread, Join
  <2>2. Owed' = Owed
    BY <1>4, <1>h, <1>t, <2>1 DEF Pause, PauseSignal, AllPaused, StopThread, Join, Owed
  <2>3. (owner \notin {"create", "open"}) = TRUE /\ (owner' \notin {"create", "open"}) = TRUE
    BY <1>4 DEF Pause, PauseSignal, AllPaused, StopThread, Join
  <2> QED BY <2>1, <2>2, <2>3 DEF Pool!vars
<1> QED BY <1>1, <1>2, <1>3, <1>4 DEF OwnerStep

\* So is a step of a worker.
LEMMA WorkerImplements ==
    ASSUME IInv, NEW w \in Worker, WorkerStep(w) \/ Wait(w)
    PROVE  [Pool!Next]_Pool!vars
<1>t. /\ TypeOK /\ pc[w] # "undo" /\ Threads \in Nat \ {0}
      /\ semaphore \in Nat /\ pausecount \in Nat
  BY WorkersAssumption DEF IInv, TypeOK
<1>m. /\ Undecided = Count(pc, Holding) /\ Busy = Count(pc, {"task"})
      /\ Undecided' = Count(pc', Holding) /\ Busy' = Count(pc', {"task"})
  BY Mapping
<1>u. UnchangedOwner
  BY DEF WorkerStep, Top, Enter, Reset, Wait, Load, Decrement, Start, BeginTask, EndTask, Done,
         Leave, SignalAllPaused, Wake
<1>p. PICK p \in WorkerAt : GoTo(w, p)
  BY DEF WorkerStep, Top, Enter, Reset, Wait, Load, Decrement, Start, BeginTask, EndTask, Done,
         Leave, SignalAllPaused, Wake, WorkerAt
<1>v. /\ Undecided' = Undecided + In(p, Holding) - In(pc[w], Holding)
      /\ Busy' = Busy + In(p, {"task"}) - In(pc[w], {"task"})
      /\ Undecided \in 0..Threads /\ Busy \in 0..Threads
      /\ Undecided' \in 0..Threads /\ Busy' \in 0..Threads
      /\ pc'[w] = p
  BY <1>t, <1>m, <1>p, Move
<1>d. pc[w] = "decrement" => pausecount > 0
  <2>1. pc[w] = "decrement" => Closed /\ Count(pc, Holding) > 0
    BY CountPositive DEF IInv, Open, Holding
  <2> QED BY <2>1, <1>t, <1>m, <1>v DEF IInv, Closing
<1>1. CASE BeginTask(w)
  <2>1. pc[w] = "process" /\ p = "task" /\ UNCHANGED <<semaphore, pausecount>>
    BY <1>1, <1>p, <1>t, <1>v DEF BeginTask, GoTo, TypeOK
  <2>2. Undecided' = Undecided - 1 /\ Busy' = Busy + 1
    BY <1>v, <2>1 DEF In, Holding
  <2>3. owner \in {"create", "open"} /\ pausecount = 0
    BY <2>1 DEF IInv, Open, Closing, Closed
  <2>4. Owed > 0 /\ Owed' = Owed - 1
    BY <1>t, <1>u, <1>v, <2>1, <2>2, <2>3 DEF Owed, UnchangedOwner
  <2>5. Busy < Threads
    BY <1>v, <2>2, <1>t
  <2> QED BY <1>u, <2>2, <2>4, <2>5 DEF Pool!Next, Pool!BeginTask, UnchangedOwner
<1>2. CASE EndTask(w)
  <2>1. pc[w] = "task" /\ p = "done" /\ UNCHANGED <<semaphore, pausecount>>
    BY <1>2, <1>p, <1>t, <1>v DEF EndTask, GoTo, TypeOK
  <2>2. Undecided' = Undecided /\ Busy' = Busy - 1
    BY <1>v, <2>1 DEF In, Holding
  <2>3. Owed' = Owed
    BY <1>u, <2>1, <2>2 DEF Owed, UnchangedOwner
  <2>4. Busy > 0
    BY <1>v, <2>2, <1>t
  <2> QED BY <1>u, <2>2, <2>3, <2>4 DEF Pool!Next, Pool!EndTask, UnchangedOwner
<1>3. ASSUME ~BeginTask(w), ~EndTask(w) PROVE UNCHANGED Pool!vars
  <2>1. /\ In(p, {"task"}) = 0 /\ In(pc[w], {"task"}) = 0
        /\ semaphore' - pausecount' + In(p, Holding) = semaphore - pausecount + In(pc[w], Holding)
        /\ semaphore' \in Nat /\ pausecount' \in Nat
    <3> USE <1>t, <1>v, <1>d DEF TypeOK, GoTo, In, Holding, WorkerAt
    <3>1. CASE Top(w) \/ Enter(w) \/ Reset(w) \/ Load(w)
      BY <3>1 DEF Top, Enter, Reset, Load
    <3>2. CASE Wait(w)
      BY <3>2 DEF Wait
    <3>3. CASE Decrement(w)
      BY <3>3 DEF Decrement
    <3>4. CASE Start(w)
      BY <3>4 DEF Start
    <3>5. CASE Done(w) \/ Leave(w) \/ SignalAllPaused(w) \/ Wake(w)
      BY <3>5 DEF Done, Leave, SignalAllPaused, Wake
    <3> QED BY <1>3, <3>1, <3>2, <3>3, <3>4, <3>5, SMTT(30) DEF WorkerStep
  <2>2. Busy' = Busy
    BY <1>v, <2>1
  <2>3. In(p, Holding) \in Int /\ In(pc[w], Holding) \in Int
    BY SMTT(30) DEF In
  <2>4. Owed' = Owed
    BY <1>u, <1>t, <1>v, <2>1, <2>3 DEF Owed, UnchangedOwner
  <2> QED BY <1>u, <2>2, <2>4, SMTT(30) DEF Pool!vars, UnchangedOwner
<1> QED BY <1>1, <1>2, <1>3

\* The workers implement the pool of tasks (its safety part; that tasks begin and
\* end is checked by TLC): whatever the interleaving of the threads, each call of
\* addtask leads to at most one call of processtask, never more than Threads of
\* them at once, and none once the destructor has begun.
THEOREM Refinement == Spec => Pool!Spec
<1>1. Init => Pool!Init
  <2>1. ASSUME Init PROVE Owed = 0 /\ Busy = 0
    <3>1. Undecided = 0 /\ Busy = 0
      BY <2>1, CountZero, Mapping DEF Init, Holding
    <3> QED BY <2>1, <3>1 DEF Init, Owed
  <2> QED BY <2>1 DEF Init, Pool!Init
<1>2. IInv /\ [Next]_vars => [Pool!Next]_Pool!vars
  <2>1. IInv /\ UNCHANGED vars => UNCHANGED Pool!vars
    BY Mapping DEF vars, Pool!vars, Owed
  <2> QED BY <2>1, OwnerImplements, WorkerImplements DEF Next
<1> QED BY <1>1, <1>2, Invariance, PTL DEF Spec, Pool!Spec

-----------------------------------------------------------------------------
(***************************************************************************)
(* No wake-up is lost.  The pool asks for as many pauses as it has threads,*)
(* and a pause that is still to be asked for, on the semaphore or held by a*)
(* worker is there for every worker that has not left (Asked): so no worker*)
(* waits for the semaphore in vain.  A worker that the destructor told to  *)
(* exit after it passed the test of its loop finds its event set when it   *)
(* pauses (Exits).                                                         *)
(***************************************************************************)

\* A worker that is not blocked: it has a count of the semaphore to take, or its event.
CanMove(w) ==
    /\ pc[w] \notin {"none", "exited"}
    /\ pc[w] = "idle" => semaphore > 0
    /\ pc[w] = "paused" => event[w]

\* No wake-up is lost: while a task is owed some worker can move; while the destructor
\* waits for m_allpaused it is signalled, or some worker can move; and a thread that
\* the destructor joins has exited or can move.
NeverStuck ==
    /\ owner = "open" /\ Owed > 0 => \E w \in Worker : CanMove(w)
    /\ owner = "wait" => allpaused \/ \E w \in Worker : CanMove(w)
    /\ owner = "join" => pc[everyone] = "exited" \/ CanMove(everyone)

Unpaused == {"top", "enter", "reset", "idle", "load", "decrement", "undo", "start", "process",
             "task", "done"}

\* A worker at the test of its loop that was told to exit is as good as gone.
Place == [w \in Worker |-> IF pc[w] = "top" /\ shouldexit[w] THEN "exited" ELSE pc[w]]

Started == \A w \in Worker : pc[w] = "none" => owner = "create" /\ w > everyone

Unasked ==
    ~Closed => \A w \in Worker :
                 /\ pc[w] \notin {"decrement", "leave", "signal", "paused", "exited"}
                 /\ ~shouldexit[w]

Asked ==
    Closed => /\ Count(Place, Unpaused)
                   <= pausecount + pausing - (IF owner = "signal" THEN 1 ELSE 0)
              /\ owner \notin {"pause", "signal"} => pausing = 0

Signalled == activecount = 0 => allpaused \/ \E w \in Worker : pc[w] = "signal"

Exits ==
    /\ \A w \in Worker : /\ event[w] => shouldexit[w]
                         /\ shouldexit[w] => event[w] \/ pc[w] \in {"top", "exited"}
    /\ owner = "join" => shouldexit[everyone]

PInv == Started /\ Unasked /\ Asked /\ Signalled /\ Exits

\* The place of every worker is a place.
LEMMA PlaceType ==
    ASSUME TypeOK
    PROVE  /\ Place \in [Worker -> WorkerAt]
           /\ \A w \in Worker : Place[w] = IF pc[w] = "top" /\ shouldexit[w] THEN "exited" ELSE pc[w]
BY DEF TypeOK, Place, WorkerAt

\* The place of one worker changes, and with it the count of those that have not left.
LEMMA PlaceMove ==
    ASSUME TypeOK, NEW w \in Worker, NEW q \in WorkerAt, Place' = [Place EXCEPT ![w] = q]
    PROVE  /\ Count(Place', Unpaused)
                = Count(Place, Unpaused) + In(q, Unpaused) - In(Place[w], Unpaused)
           /\ Count(Place, Unpaused) \in 0..Threads /\ Count(Place', Unpaused) \in 0..Threads
<1> DEFINE f == Place
           g == Place'
<1>1. f \in [Worker -> WorkerAt] /\ g = [f EXCEPT ![w] = q]
  BY PlaceType
<1> HIDE DEF f, g
<1>2. Count(g, Unpaused) = Count(f, Unpaused) + In(q, Unpaused) - In(f[w], Unpaused)
  BY <1>1, CountMove, ZenonT(30)
<1>3. Count(f, Unpaused) \in 0..Threads /\ Count(g, Unpaused) \in 0..Threads
  BY CountType, Zenon
<1> QED BY <1>2, <1>3, Zenon DEF f, g

\* The pool starts with no worker and nobody to pause.
LEMMA InitPInv == Init => PInv
BY WorkersAssumption DEF Init, PInv, Started, Unasked, Asked, Closed, Signalled, Exits, Worker

\* While no worker takes a step and none is told to exit, only the owner's counts change.
LEMMA OwnerFrame ==
    ASSUME PInv, UNCHANGED <<pc, shouldexit, event, activecount, allpaused, everyone>>,
           owner' # "create" /\ owner' # "join", (~Closed)' => ~Closed,
           Closed' => /\ Count(Place, Unpaused)
                           <= pausecount' + pausing' - (IF owner' = "signal" THEN 1 ELSE 0)
                      /\ owner' \notin {"pause", "signal"} => pausing' = 0,
           owner # "create"
    PROVE  PInv'
<1>1. Started' /\ Unasked' /\ Exits'
  BY Zenon DEF PInv, Started, Unasked, Exits
<1>2. Place' = Place
  BY Zenon DEF Place
<1>3. Asked'
  BY <1>2 DEF Asked, Count
<1>4. Signalled'
  BY Zenon DEF PInv, Signalled
<1> QED BY <1>1, <1>3, <1>4 DEF PInv

\* The steps of the owner keep the wake-ups.
LEMMA OwnerPInv == IInv /\ PInv /\ (OwnerStep \/ AddTask \/ Destroy) => PInv'
<1> SUFFICES ASSUME IInv, PInv, OwnerStep \/ AddTask \/ Destroy PROVE PInv'
  OBVIOUS
<1>t. TypeOK /\ Threads \in Nat \ {0} /\ Count(Place, Unpaused) \in 0..Threads
  BY WorkersAssumption, CountType, Zenon DEF IInv
<1>n. pausecount \in Nat /\ pausing \in Nat /\ everyone \in Nat
  BY <1>t DEF TypeOK
<1>1. CASE Create
  <2>1. /\ owner = "create" /\ everyone + 1 \in Worker /\ everyone < Threads
        /\ \A w \in Worker : w > everyone => pc[w] = "none"
    BY <1>1, <1>t, <1>n DEF Create, IInv, Threading, Worker
  <2>2. /\ ~Closed /\ ~Closed'
        /\ owner' = IF everyone + 1 = Threads THEN "open" ELSE "create"
    BY <1>1 DEF Create, Closed
  <2>3. \A w \in Worker : pc'[w] = IF w = everyone + 1 THEN "top" ELSE pc[w]
    BY <1>1, <1>t, <2>1 DEF Create, GoTo, TypeOK
  <2>4. UNCHANGED <<shouldexit, event, activecount, allpaused>> /\ everyone' = everyone + 1
    BY <1>1 DEF Create
  <2>5. Started'
    BY <2>1, <2>2, <2>3, <2>4, <1>t, <1>n DEF PInv, Started, Worker
  <2>6. Unasked'
    BY <2>2, <2>3, <2>4, Zenon DEF PInv, Unasked
  <2>7. Asked'
    BY <2>2 DEF Asked
  <2>8. Signalled'
    <3>1. \A w \in Worker : pc[w] # "signal"
      BY <2>2 DEF PInv, Unasked
    <3> QED BY <2>4, <3>1, Zenon DEF PInv, Signalled
  <2>9. Exits'
    <3>1. \A w \in Worker : ~shouldexit[w]
      BY <2>2 DEF PInv, Unasked
    <3>2. owner' # "join"
      BY <2>2
    <3> QED BY <2>4, <3>1, <3>2, Zenon DEF PInv, Exits
  <2> QED BY <2>5, <2>6, <2>7, <2>8, <2>9 DEF PInv
<1>2. CASE AddTask
  <2>1. UNCHANGED <<owner, everyone, pausing, pc, activecount, pausecount, allpaused, shouldexit,
                    event>>
    BY <1>2 DEF AddTask
  <2>2. Place' = Place
    BY <2>1, Zenon DEF Place
  <2> QED BY <2>1, <2>2, Zenon DEF PInv, Started, Unasked, Asked, Signalled, Exits, Closed, Count
<1>3. CASE Destroy
  <2>1. /\ owner = "open" /\ owner' = "pause" /\ pausing' = Threads /\ pausecount' = pausecount
        /\ UNCHANGED <<pc, shouldexit, event, activecount, allpaused, everyone>>
    BY <1>3 DEF Destroy
  <2>2. Count(Place, Unpaused) <= pausecount' + pausing' - (IF owner' = "signal" THEN 1 ELSE 0)
    BY <2>1, <1>t, <1>n
  <2> QED BY <2>1, <2>2, OwnerFrame DEF Closed
<1>4. CASE Pause
  <2>1. /\ owner = "pause" /\ owner' = "signal" /\ pausing' = pausing
        /\ pausecount' = pausecount + 1
        /\ UNCHANGED <<pc, shouldexit, event, activecount, allpaused, everyone>>
    BY <1>4 DEF Pause
  <2>2. Count(Place, Unpaused) <= pausecount' + pausing' - (IF owner' = "signal" THEN 1 ELSE 0)
    BY <2>1, <1>t, <1>n DEF PInv, Asked, Closed
  <2> QED BY <2>1, <2>2, OwnerFrame DEF Closed
<1>5. CASE PauseSignal
  <2>1. /\ owner = "signal" /\ owner' = IF pausing = 1 THEN "wait" ELSE "pause"
        /\ pausing' = pausing - 1 /\ pausecount' = pausecount
        /\ UNCHANGED <<pc, shouldexit, event, activecount, allpaused, everyone>>
    BY <1>5 DEF PauseSignal
  <2>2. Count(Place, Unpaused) <= pausecount' + pausing' - (IF owner' = "signal" THEN 1 ELSE 0)
    BY <2>1, <1>t, <1>n DEF PInv, Asked, Closed
  <2>3. owner' \notin {"pause", "signal"} => pausing' = 0
    BY <2>1
  <2> QED BY <2>1, <2>2, <2>3, OwnerFrame DEF Closed
<1>6. CASE AllPaused
  <2>1. /\ owner = "wait" /\ owner' = "stop" /\ UNCHANGED <<pausing, pausecount>>
        /\ UNCHANGED <<pc, shouldexit, event, activecount, allpaused, everyone>>
    BY <1>6 DEF AllPaused
  <2>2. /\ Count(Place, Unpaused) <= pausecount' + pausing' - (IF owner' = "signal" THEN 1 ELSE 0)
        /\ pausing' = 0
    BY <2>1, <1>t, <1>n DEF PInv, Asked, Closed
  <2> QED BY <2>1, <2>2, OwnerFrame DEF Closed
<1>7. CASE StopThread /\ everyone = 0
  <2>1. /\ owner = "stop" /\ owner' = "gone" /\ UNCHANGED <<pausing, pausecount>>
        /\ UNCHANGED <<pc, shouldexit, event, activecount, allpaused, everyone>>
    BY <1>7 DEF StopThread
  <2>2. /\ Count(Place, Unpaused) <= pausecount' + pausing' - (IF owner' = "signal" THEN 1 ELSE 0)
        /\ pausing' = 0
    BY <2>1, <1>t, <1>n DEF PInv, Asked, Closed
  <2> QED BY <2>1, <2>2, OwnerFrame DEF Closed
<1>8. CASE StopThread /\ everyone # 0
  <2> DEFINE q == IF pc[everyone] = "top" THEN "exited" ELSE pc[everyone]
  <2>1. /\ owner = "stop" /\ owner' = "join" /\ UNCHANGED <<pausing, pausecount>>
        /\ UNCHANGED <<pc, activecount, allpaused, everyone>>
        /\ shouldexit' = [shouldexit EXCEPT ![everyone] = TRUE]
        /\ event' = [event EXCEPT ![everyone] = TRUE]
    BY <1>8 DEF StopThread
  <2>2. everyone \in Worker /\ pc \in [Worker -> WorkerAt]
    BY <1>8, <1>t DEF TypeOK, Worker
  <2>3. /\ \A w \in Worker : w # everyone => shouldexit'[w] = shouldexit[w] /\ event'[w] = event[w]
        /\ shouldexit'[everyone] /\ event'[everyone]
    BY <2>1, <2>2, <1>t, Zenon DEF TypeOK
  <2>4. q \in WorkerAt
    BY <2>2 DEF WorkerAt
  <2>5. Place' = [Place EXCEPT ![everyone] = q]
    BY <2>1, <2>2, <2>3, Zenon DEF Place
  <2>6. Place[everyone] = IF pc[everyone] = "top" /\ shouldexit[everyone] THEN "exited"
                                                                          ELSE pc[everyone]
    BY <2>2, <1>t, PlaceType
  <2>7. /\ Count(Place', Unpaused)
             = Count(Place, Unpaused) + In(q, Unpaused) - In(Place[everyone], Unpaused)
        /\ Count(Place', Unpaused) \in 0..Threads
    BY <2>2, <2>4, <2>5, <1>t, PlaceMove, Zenon
  <2>8. /\ In(q, Unpaused) <= In(Place[everyone], Unpaused)
        /\ In(q, Unpaused) \in Int /\ In(Place[everyone], Unpaused) \in Int
    BY <2>6 DEF In, Unpaused
  <2>9. Count(Place', Unpaused) <= Count(Place, Unpaused)
    BY <2>7, <2>8, <1>t
  <2>10. Asked'
    BY <2>1, <2>7, <2>9, <1>t, <1>n DEF PInv, Asked, Closed
  <2>11. Started' /\ Unasked' /\ Signalled'
    BY <2>1, Zenon DEF PInv, Started, Unasked, Signalled, Closed
  <2>12. Exits'
    BY <2>1, <2>3, Zenon DEF PInv, Exits
  <2> QED BY <2>10, <2>11, <2>12 DEF PInv
<1>9. CASE Join
  <2>1. /\ owner = "join" /\ owner' = "stop" /\ UNCHANGED <<pausing, pausecount>>
        /\ UNCHANGED <<pc, shouldexit, event, activecount, allpaused>>
    BY <1>9 DEF Join
  <2>2. Place' = Place
    BY <2>1, Zenon DEF Place
  <2>3. Started' /\ Unasked' /\ Signalled' /\ Exits'
    BY <2>1, Zenon DEF PInv, Started, Unasked, Signalled, Closed, Exits
  <2>4. Asked'
    BY <2>1, <2>2 DEF PInv, Asked, Closed, Count
  <2> QED BY <2>3, <2>4 DEF PInv
<1> QED BY <1>1, <1>2, <1>3, <1>4, <1>5, <1>6, <1>7, <1>8, <1>9, Zenon DEF OwnerStep

\* What a step of a worker may do to the counts: it leaves the pool only with a pause.
LEMMA WorkerLeaves ==
    ASSUME IInv, IInv', PInv, NEW w \in Worker, WorkerStep(w) \/ Wait(w), NEW q,
           q = IF pc'[w] = "top" /\ shouldexit[w] THEN "exited" ELSE pc'[w]
    PROVE  /\ In(q, Unpaused) - In(Place[w], Unpaused) <= pausecount' - pausecount
           /\ In(q, Unpaused) \in Int /\ In(Place[w], Unpaused) \in Int
           /\ pausecount \in Nat /\ pausecount' \in Int
<1>t. /\ TypeOK /\ pc \in [Worker -> WorkerAt] /\ pausecount \in Nat
      /\ pc[w] # "undo" /\ pc'[w] # "undo"
      /\ Place[w] = IF pc[w] = "top" /\ shouldexit[w] THEN "exited" ELSE pc[w]
  BY PlaceType DEF IInv, TypeOK
<1>e. pc[w] = "paused" /\ event[w] => shouldexit[w]
  BY Zenon DEF PInv, Exits
<1>1. CASE Top(w) \/ Enter(w) \/ Reset(w) \/ Load(w) \/ Wait(w)
  BY <1>1, <1>t DEF Top, Enter, Reset, Load, Wait, GoTo, In, Unpaused
<1>2. CASE Decrement(w) \/ Start(w)
  BY <1>2, <1>t DEF Decrement, Start, GoTo, In, Unpaused
<1>3. CASE BeginTask(w) \/ EndTask(w) \/ Done(w) \/ Leave(w) \/ SignalAllPaused(w)
  BY <1>3, <1>t DEF BeginTask, EndTask, Done, Leave, SignalAllPaused, GoTo, In, Unpaused
<1>4. CASE Wake(w)
  <2>1. pc[w] = "paused" /\ shouldexit[w] /\ pausecount' = pausecount
    BY <1>4, <1>e, Zenon DEF Wake
  <2>2. pc'[w] = "top"
    BY <1>4, <1>t DEF Wake, GoTo
  <2>3. q = "exited" /\ Place[w] = "paused"
    BY <2>1, <2>2, <1>t, Zenon
  <2> QED BY <2>1, <2>3, <1>t DEF In, Unpaused
<1> QED BY <1>1, <1>2, <1>3, <1>4, Zenon DEF WorkerStep

\* The steps of a worker keep the wake-ups.
LEMMA WorkerPInv ==
    ASSUME IInv, IInv', PInv, NEW w \in Worker, WorkerStep(w) \/ Wait(w)
    PROVE  PInv'
<1> DEFINE p == pc'[w]
           q == IF p = "top" /\ shouldexit[w] THEN "exited" ELSE p
<1>t. TypeOK /\ pc \in [Worker -> WorkerAt] /\ pc' \in [Worker -> WorkerAt] /\ p \in WorkerAt
  BY DEF IInv, TypeOK
<1>u. UNCHANGED <<owner, everyone, pausing, shouldexit>>
  BY DEF WorkerStep, Top, Enter, Reset, Load, Decrement, Start, BeginTask, EndTask, Done, Leave,
         SignalAllPaused, Wake, Wait, UnchangedOwner
<1>v. \A v \in Worker : v # w => pc'[v] = pc[v]
  BY <1>t, ZenonT(30) DEF WorkerStep, Top, Enter, Reset, Load, Decrement, Start, BeginTask, EndTask,
         Done, Leave, SignalAllPaused, Wake, Wait, GoTo
<1>m. /\ pc[w] \notin {"none", "exited"} /\ p # "none"
      /\ p = "exited" => shouldexit[w]
      /\ p = "leave" => pc[w] = "decrement"
      /\ p \in {"signal", "paused"} => pc[w] \in {"leave", "signal"}
  BY <1>t DEF WorkerStep, Top, Enter, Reset, Load, Decrement, Start, BeginTask, EndTask, Done, Leave,
         SignalAllPaused, Wake, Wait, GoTo
<1>1. Started'
  BY <1>u, <1>v, <1>m DEF PInv, Started
<1>2. Unasked'
  <2> SUFFICES ASSUME ~Closed
               PROVE  /\ ~shouldexit[w]
                      /\ p \notin {"decrement", "leave", "signal", "paused", "exited"}
    BY <1>u, <1>v, Zenon DEF PInv, Unasked, Closed
  <2>1. ~shouldexit[w] /\ pc[w] \notin {"decrement", "leave", "signal"}
    BY DEF PInv, Unasked
  <2>2. p # "decrement"
    BY <1>u DEF IInv, Open, Closed
  <2> QED BY <1>m, <2>1, <2>2
<1>3. Asked'
  <2>1. q \in WorkerAt
    BY <1>t DEF WorkerAt
  <2>2. Place' = [Place EXCEPT ![w] = q]
    BY <1>u, <1>v, Zenon DEF Place
  <2>3. /\ Count(Place', Unpaused)
             = Count(Place, Unpaused) + In(q, Unpaused) - In(Place[w], Unpaused)
        /\ Count(Place, Unpaused) \in 0..Threads /\ Count(Place', Unpaused) \in 0..Threads
    BY <1>t, <2>1, <2>2, PlaceMove, Zenon
  <2>4. /\ In(q, Unpaused) - In(Place[w], Unpaused) <= pausecount' - pausecount
        /\ In(q, Unpaused) \in Int /\ In(Place[w], Unpaused) \in Int
        /\ pausecount \in Nat /\ pausecount' \in Int
    BY WorkerLeaves
  <2>5. pausing \in Nat
    BY <1>t DEF TypeOK
  <2> HIDE DEF q
  <2> QED BY <1>u, <2>3, <2>4, <2>5, WorkersAssumption DEF PInv, Asked, Closed
<1>4. Signalled'
  <2> SUFFICES ASSUME activecount' = 0, ~allpaused' PROVE \E v \in Worker : pc'[v] = "signal"
    BY DEF Signalled
  <2>1. p \notin Active
    <3>1. Count(pc', Active) = 0
      BY DEF IInv
    <3> QED BY <3>1, CountZero, Zenon
  <2>2. CASE Leave(w)
    <3>1. activecount - 1 = 0 /\ activecount \in Nat
      BY <2>2, <1>t DEF Leave, TypeOK
    <3>2. p = "signal"
      BY <2>2, <1>t, <3>1 DEF Leave, GoTo
    <3> QED BY <3>2
  <2>3. CASE SignalAllPaused(w)
    BY <2>3, Zenon DEF SignalAllPaused
  <2>4. CASE Enter(w) \/ Reset(w)
    BY <2>4, <2>1, <1>t DEF Enter, Reset, GoTo, Active
  <2>5. ASSUME ~Leave(w), ~SignalAllPaused(w), ~(Enter(w) \/ Reset(w))
        PROVE  UNCHANGED <<activecount, allpaused>> /\ pc[w] # "signal"
    BY <2>5, Zenon DEF WorkerStep, Top, Load, Decrement, Start, BeginTask, EndTask, Done, Wake, Wait
  <2>6. ASSUME UNCHANGED <<activecount, allpaused>>, pc[w] # "signal"
        PROVE  \E v \in Worker : pc'[v] = "signal"
    BY <2>6, <1>v, Zenon DEF PInv, Signalled
  <2> QED BY <2>2, <2>3, <2>4, <2>5, <2>6
<1>5. Exits'
  <2>1. CASE Wake(w)
    <3>1. event \in [Worker -> BOOLEAN] /\ event' = [event EXCEPT ![w] = FALSE] /\ p = "top"
      BY <2>1, <1>t, Zenon DEF Wake, GoTo, TypeOK
    <3>2. ~event'[w] /\ \A v \in Worker : v # w => event'[v] = event[v]
      BY <3>1, Zenon
    <3> QED BY <1>u, <1>v, <3>1, <3>2, Zenon DEF PInv, Exits
  <2>2. ASSUME ~Wake(w) PROVE event' = event
    BY <2>2, Zenon DEF WorkerStep, Top, Enter, Reset, Load, Decrement, Start, BeginTask, EndTask,
                       Done, Leave, SignalAllPaused, Wait
  <2>3. ASSUME event' = event, pc[w] # "top" PROVE Exits'
    BY <1>u, <1>v, <1>m, <2>3, Zenon DEF PInv, Exits
  <2>4. ASSUME event' = event, pc[w] = "top" PROVE Exits'
    <3>1. p = IF shouldexit[w] THEN "exited" ELSE "enter"
      BY <2>4, <1>t DEF WorkerStep, Top, Enter, Reset, Load, Decrement, Start, BeginTask, EndTask,
                        Done, Leave, SignalAllPaused, Wake, Wait, GoTo
    <3> QED BY <1>u, <1>v, <2>4, <3>1, Zenon DEF PInv, Exits
  <2> QED BY <2>1, <2>2, <2>3, <2>4
<1> QED BY <1>1, <1>2, <1>3, <1>4, <1>5 DEF PInv

\* Once every pause has been asked for, a worker that waits finds a count: there is one
\* for each worker that has not left, and those that hold one do not wait.
LEMMA IdleFindsCount ==
    ASSUME IInv, PInv, owner \in {"wait", "stop", "join"}, NEW w \in Worker, pc[w] = "idle"
    PROVE  semaphore > 0
<1> DEFINE g == [Place EXCEPT ![w] = "paused"]
<1>t. /\ TypeOK /\ semaphore \in Nat /\ pausecount \in Nat /\ Place \in [Worker -> WorkerAt]
      /\ \A v \in Worker : Place[v] = IF pc[v] = "top" /\ shouldexit[v] THEN "exited" ELSE pc[v]
  BY PlaceType DEF IInv, TypeOK
<1>1. Count(g, Unpaused) = Count(Place, Unpaused) + In("paused", Unpaused) - In(Place[w], Unpaused)
  <2>1. "paused" \in WorkerAt
    BY DEF WorkerAt
  <2> QED BY <2>1, <1>t, CountMove, ZenonT(30)
<1>2. In("paused", Unpaused) = 0 /\ In(Place[w], Unpaused) = 1
  BY <1>t DEF In, Unpaused
<1>3. Count(pc, Holding) <= Count(g, Unpaused)
  <2>1. {v \in Worker : pc[v] \in Holding} \subseteq {v \in Worker : g[v] \in Unpaused}
    BY <1>t DEF Holding, Unpaused
  <2>2. IsFiniteSet({v \in Worker : g[v] \in Unpaused})
    BY CountType, Zenon
  <2> QED BY <2>1, <2>2, FS_Subset DEF Count
<1>4. Count(Place, Unpaused) <= pausecount
  BY <1>t DEF PInv, Asked, Closed
<1>5. semaphore + Count(pc, Holding) = pausecount
  BY <1>t DEF IInv, Closing, Closed
<1>6. Count(pc, Holding) \in Nat /\ Count(g, Unpaused) \in Nat /\ Count(Place, Unpaused) \in Nat
  <2>1. \A f, S : Count(f, S) \in 0..Threads
    BY CountType, Zenon
  <2> QED BY <2>1, WorkersAssumption
<1> HIDE DEF g
<1> QED BY <1>t, <1>1, <1>2, <1>3, <1>4, <1>5, <1>6

\* The wake-ups are kept by every step.
THEOREM Waking == Spec => []PInv
<1>1. IInv /\ IInv' /\ PInv /\ [Next]_vars => PInv'
  <2>1. PInv /\ UNCHANGED vars => PInv'
    <3> SUFFICES ASSUME PInv, UNCHANGED vars PROVE PInv'
      OBVIOUS
    <3>1. Place' = Place
      BY Zenon DEF Place, vars
    <3> QED BY <3>1, Zenon DEF vars, PInv, Started, Unasked, Asked, Signalled, Exits, Closed, Count
  <2> QED BY <2>1, OwnerPInv, WorkerPInv DEF Next
<1> QED BY <1>1, InitPInv, Invariance, PTL DEF Spec

\* No wake-up of the pool is lost, whatever the interleaving: a task that is owed, the
\* destructor that waits for m_allpaused and the destructor that joins a thread all
\* have somebody who can still move.  With the fairness of the threads this is what
\* the pool's liveness rests on, here for any number of threads and of tasks.
THEOREM NoWakeUpLost == Spec => []NeverStuck
<1>1. IInv /\ PInv => NeverStuck
  <2> SUFFICES ASSUME IInv, PInv PROVE NeverStuck
    OBVIOUS
  <2>t. TypeOK /\ Threads \in Nat \ {0} /\ semaphore \in Nat
    BY WorkersAssumption DEF IInv, TypeOK
  <2>1. ASSUME owner = "open", Owed > 0 PROVE \E w \in Worker : CanMove(w)
    <3>1. CASE semaphore = 0
      <4>1. Count(pc, Holding) # 0
        <5>1. Owed = semaphore + Count(pc, Holding) - pausecount
          <6>1. Undecided = Count(pc, Holding) /\ owner # "signal"
            BY <2>1, Mapping, Zenon
          <6>2. pausecount \in Nat
            BY <2>t DEF TypeOK
          <6> QED BY <6>1, <6>2 DEF Owed
        <5>2. Count(pc, Holding) \in 0..Threads
          BY CountType, Zenon
        <5>3. pausecount = 0
          BY <2>1 DEF IInv, Open, Closed
        <5> QED BY <2>1, <2>t, <3>1, <5>1, <5>2, <5>3
      <4>2. PICK w \in Worker : pc[w] \in Holding
        BY <4>1, CountZero
      <4> QED BY <4>2 DEF CanMove, Holding
    <3>2. CASE semaphore > 0
      <4>1. 1 \in Worker
        BY <2>t DEF Worker
      <4>2. pc[1] \notin {"none", "exited", "paused"}
        BY <2>1, <4>1 DEF PInv, Started, Unasked, Closed
      <4> QED BY <3>2, <4>1, <4>2 DEF CanMove
    <3> QED BY <2>t, <3>1, <3>2
  <2>2. ASSUME owner = "wait", ~allpaused PROVE \E w \in Worker : CanMove(w)
    <3>1. CASE \E w \in Worker : pc[w] = "signal"
      BY <3>1 DEF CanMove
    <3>2. CASE \A w \in Worker : pc[w] # "signal"
      <4>1. Count(pc, Active) # 0
        BY <2>2, <3>2, Zenon DEF PInv, Signalled, IInv
      <4>2. PICK w \in Worker : pc[w] \in Active
        BY <4>1, CountZero
      <4>3. pc[w] = "idle" => semaphore > 0
        BY <2>2, IdleFindsCount
      <4> QED BY <4>2, <4>3 DEF CanMove, Active
    <3> QED BY <3>1, <3>2
  <2>3. ASSUME owner = "join" PROVE pc[everyone] = "exited" \/ CanMove(everyone)
    <3>1. everyone \in Worker
      BY <2>3, <2>t DEF IInv, Threading, TypeOK, Worker
    <3>2. pc[everyone] # "none"
      BY <2>3, <3>1 DEF PInv, Started
    <3>3. pc[everyone] = "idle" => semaphore > 0
      BY <2>3, <3>1, IdleFindsCount
    <3>4. pc[everyone] = "paused" => event[everyone]
      BY <2>3, <3>1, Zenon DEF PInv, Exits
    <3> QED BY <3>2, <3>3, <3>4, Zenon DEF CanMove
  <2> QED BY <2>1, <2>2, <2>3, Zenon DEF NeverStuck
<1> QED BY <1>1, Waking, Invariance, PTL

(***************************************************************************)
(* The assertion of the destructor after its wait for m_allpaused.  Until  *)
(* the destructor starts, m_allpaused is set only while nobody is active or*)
(* the first active worker is about to reset it; afterwards no worker takes*)
(* a task any more (Closing), and the last to leave signals only when all  *)
(* have finished theirs (Paused).                                          *)
(***************************************************************************)

Running == {"process", "task", "done"}

NoneRuns == \A w \in Worker : pc[w] \notin Running

Resetting == \E w \in Worker : pc[w] = "reset"

Paused ==
    /\ allpaused => Resetting \/ (IF Closed THEN NoneRuns ELSE activecount = 0)
    /\ (\E w \in Worker : pc[w] = "signal") => NoneRuns

\* Nobody runs a task while nobody is active.
LEMMA InactiveRunsNone == ASSUME IInv, activecount = 0 PROVE NoneRuns
<1>1. Count(pc, Active) = 0
  BY DEF IInv
<1> QED BY <1>1, CountZero DEF NoneRuns, Running, Active

\* The steps of the owner keep the meaning of m_allpaused.
LEMMA OwnerPaused == IInv /\ PInv /\ Paused /\ (OwnerStep \/ AddTask \/ Destroy) => Paused'
<1> SUFFICES ASSUME IInv, PInv, Paused, OwnerStep \/ AddTask \/ Destroy PROVE Paused'
  OBVIOUS
<1>1. CASE Create
  <2>1. everyone + 1 \in Worker /\ pc[everyone + 1] = "none" /\ pc \in [Worker -> WorkerAt]
    BY <1>1, WorkersAssumption DEF Create, IInv, Threading, TypeOK, Worker
  <2>2. \A w \in Worker : pc'[w] = IF w = everyone + 1 THEN "top" ELSE pc[w]
    BY <1>1, <2>1 DEF Create, GoTo
  <2>3. ~Closed /\ ~Closed' /\ UNCHANGED <<allpaused, activecount>>
    BY <1>1 DEF Create, Closed
  <2>4. \A w \in Worker : pc'[w] # "signal"
    BY <2>2, <2>3 DEF PInv, Unasked
  <2>5. Resetting => Resetting'
    BY <2>1, <2>2 DEF Resetting
  <2> QED BY <2>3, <2>4, <2>5, Zenon DEF Paused
<1>2. CASE Destroy
  <2>1. ~Closed /\ Closed' /\ UNCHANGED <<allpaused, pc>>
    BY <1>2 DEF Destroy, Closed
  <2> QED BY <2>1, InactiveRunsNone, Zenon DEF Paused, Resetting, NoneRuns
<1>3. ASSUME ~Create, ~Destroy
      PROVE  UNCHANGED <<allpaused, pc, activecount>> /\ Closed' = Closed
  BY <1>3 DEF OwnerStep, AddTask, Pause, PauseSignal, AllPaused, StopThread, Join, Closed
<1>4. ASSUME ~Create, ~Destroy PROVE Paused'
  <2>1. NoneRuns' = NoneRuns /\ Resetting' = Resetting
    BY <1>3, <1>4, Zenon DEF Resetting, NoneRuns
  <2>2. (\E w \in Worker : pc'[w] = "signal") => NoneRuns
    BY <1>3, <1>4, Zenon DEF Paused
  <2>3. Closed' = Closed /\ allpaused' = allpaused /\ activecount' = activecount
    BY <1>3, <1>4, Zenon
  <2> QED BY <2>1, <2>2, <2>3, Zenon DEF Paused
<1> QED BY <1>1, <1>2, <1>4

\* The steps of a worker keep the meaning of m_allpaused.
LEMMA WorkerPaused ==
    ASSUME IInv, IInv', PInv, Paused, NEW w \in Worker, WorkerStep(w) \/ Wait(w)
    PROVE  Paused'
<1>t. pc \in [Worker -> WorkerAt] /\ activecount \in Nat
  BY DEF IInv, TypeOK
<1>u. Closed' = Closed
  BY DEF WorkerStep, Top, Enter, Reset, Load, Decrement, Start, BeginTask, EndTask, Done, Leave,
         SignalAllPaused, Wake, Wait, UnchangedOwner, Closed
<1>v. \A v \in Worker : v # w => pc'[v] = pc[v]
  BY <1>t, ZenonT(30) DEF WorkerStep, Top, Enter, Reset, Load, Decrement, Start, BeginTask, EndTask,
         Done, Leave, SignalAllPaused, Wake, Wait, GoTo
<1>m. /\ pc'[w] \in Running => pc[w] \in {"start", "undo", "process", "task"}
      /\ pc'[w] = "signal" => Leave(w) /\ activecount' = 0
      /\ pc[w] = "reset" => Reset(w)
  BY <1>t DEF WorkerStep, Top, Enter, Reset, Load, Decrement, Start, BeginTask, EndTask, Done, Leave,
         SignalAllPaused, Wake, Wait, GoTo, Running
<1>n. Closed /\ NoneRuns => NoneRuns'
  BY <1>m, <1>v DEF NoneRuns, IInv, Closing
<1>r. Resetting => Resetting' \/ Reset(w)
  BY <1>m, <1>v DEF Resetting
<1>1. (\E v \in Worker : pc'[v] = "signal") => NoneRuns'
  <2> SUFFICES ASSUME NEW v \in Worker, pc'[v] = "signal" PROVE NoneRuns'
    OBVIOUS
  <2>1. CASE v = w
    <3>1. activecount' = 0
      BY <2>1, <1>m
    <3>2. Count(pc', Active) = 0
      BY <3>1 DEF IInv
    <3> QED BY <3>2, CountZero DEF NoneRuns, Running, Active
  <2>2. CASE v # w
    <3>1. pc[v] = "signal"
      BY <2>2, <1>v
    <3>2. Closed
      BY <3>1 DEF PInv, Unasked
    <3> QED BY <3>1, <3>2, <1>n DEF Paused
  <2> QED BY <2>1, <2>2
<1>2. allpaused' => Resetting' \/ (IF Closed THEN NoneRuns' ELSE activecount' = 0)
  <2>1. CASE Reset(w)
    BY <2>1, Zenon DEF Reset
  <2>2. CASE SignalAllPaused(w)
    <3>1. pc[w] = "signal"
      BY <2>2, Zenon DEF SignalAllPaused
    <3>2. Closed /\ NoneRuns
      BY <3>1 DEF PInv, Unasked, Paused
    <3> QED BY <3>2, <1>n
  <2>3. CASE Enter(w)
    <3>1. activecount = 0 => pc'[w] = "reset"
      BY <2>3, <1>t DEF Enter, GoTo
    <3>2. allpaused' = allpaused
      BY <2>3, Zenon DEF Enter
    <3>3. pc[w] # "reset"
      BY <2>3 DEF Enter
    <3> QED BY <3>1, <3>2, <3>3, <1>n, <1>r, <1>v, Zenon DEF Paused, Resetting
  <2>4. CASE Leave(w)
    <3>1. pc[w] = "leave" /\ allpaused' = allpaused
      BY <2>4, Zenon DEF Leave
    <3>2. Closed
      BY <3>1 DEF PInv, Unasked
    <3>3. ~Reset(w)
      BY <3>1 DEF Reset
    <3> QED BY <3>1, <3>2, <3>3, <1>n, <1>r, Zenon DEF Paused
  <2>5. ASSUME ~Reset(w), ~SignalAllPaused(w), ~Enter(w), ~Leave(w)
        PROVE  UNCHANGED <<activecount, allpaused>>
    BY <2>5, Zenon DEF WorkerStep, Top, Load, Decrement, Start, BeginTask, EndTask, Done, Wake, Wait
  <2> QED BY <2>1, <2>2, <2>3, <2>4, <2>5, <1>n, <1>r, Zenon DEF Paused
<1> QED BY <1>1, <1>2, <1>u, Zenon DEF Paused

\* What the destructor asserts after its wait for m_allpaused, for any number of threads
\* and of tasks: when m_allpaused is set, no task is running, unless a thread that has
\* just become active has not yet reset it.
THEOREM PausedAssertion == Spec => []PausedIsIdle
<1>1. Init => Paused
  BY DEF Init, Paused, Closed
<1>2. IInv /\ IInv' /\ PInv /\ Paused /\ [Next]_vars => Paused'
  <2>1. Paused /\ UNCHANGED vars => Paused'
    <3> SUFFICES ASSUME Paused, UNCHANGED vars PROVE Paused'
      OBVIOUS
    <3>1. NoneRuns' = NoneRuns /\ Resetting' = Resetting /\ Closed' = Closed
      BY Zenon DEF vars, Resetting, NoneRuns, Closed
    <3>2. (\E w \in Worker : pc'[w] = "signal") => NoneRuns
      BY Zenon DEF vars, Paused
    <3> QED BY <3>1, <3>2, Zenon DEF vars, Paused
  <2> QED BY <2>1, OwnerPaused, WorkerPaused DEF Next
<1>3. Paused => PausedIsIdle
  <2> SUFFICES ASSUME Paused, owner = "wait", allpaused, ~Resetting PROVE RunningTasks = 0
    BY DEF PausedIsIdle, Resetting, At
  <2>1. At({"process", "task", "done"}) = {}
    BY DEF Paused, Closed, NoneRuns, Running, At
  <2> QED BY <2>1, FS_EmptySet DEF RunningTasks
<1> QED BY <1>1, <1>2, <1>3, Waking, Invariance, PTL DEF Spec

=============================================================================
