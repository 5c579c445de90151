------------------------------- MODULE Workers -------------------------------
(***************************************************************************)
(* The threads of the job queue (beast/module/core/thread/Workers.cpp):    *)
(* addtask signals a semaphore on which the workers wait; a worker is      *)
(* paused by counting it in m_pausecount and signalling the same semaphore.*)
(*                                                                         *)
(* One process is the owner of the pool, which creates the threads         *)
(* (setnumberofthreads, once, from the application's set-up) and destroys  *)
(* the pool; the others are the workers.  Every atomic operation on        *)
(* m_activecount, m_pausecount, the semaphore and the events is a step of  *)
(* its own.                                                                *)
(*                                                                         *)
(* The owner destroys the pool when the job queue has stopped: no task is  *)
(* owed, and no call of processtask is past getnextjob and short of the end*)
(* of finishjob (StoppedIsQuiet of JobQueue).  The branch that reuses a    *)
(* paused worker is left out: the program raises the number of threads only*)
(* once, when none has paused, so m_paused is never popped.                *)
(***************************************************************************)
EXTENDS Integers, FiniteSets

CONSTANTS
    Threads,    \* the number given to setnumberofthreads
    MaxTasks    \* bound: calls of addtask

ASSUME WorkersAssumption == Threads \in Nat \ {0} /\ MaxTasks \in Nat

Worker == 1..Threads

VARIABLES
    owner,        \* where the owner is
    everyone,     \* m_everyone: the workers 1..everyone, the last one in front
    pausing,      \* pauses that setnumberofthreads(0) still has to ask for
    pc,           \* where each worker is
    semaphore,    \* m_semaphore
    activecount,  \* m_activecount
    pausecount,   \* m_pausecount
    allpaused,    \* m_allpaused
    shouldexit,   \* thread::shouldexit of each worker
    event,        \* thread::defaultevent of each worker
    added         \* calls of addtask so far, for its bound

vars == <<owner, everyone, pausing, pc, semaphore, activecount, pausecount, allpaused,
          shouldexit, event, added>>

OwnerAt == {"create", "open", "pause", "signal", "wait", "stop", "join", "gone"}

WorkerAt == {"none", "top", "enter", "reset", "idle", "load", "decrement", "undo", "start",
             "process", "task", "done", "leave", "signal", "paused", "exited"}

At(places) == {w \in Worker : pc[w] \in places}

GoTo(w, place) == pc' = [pc EXCEPT ![w] = place]

\* Calls of processtask that hold a job.
Busy == Cardinality(At({"task"}))

\* Workers that took a count of the semaphore and have not used it.
Undecided == Cardinality(At({"load", "decrement", "start", "process"}))

\* Tasks owed: what the semaphore and the workers hold, less the pauses.
Owed == semaphore + Undecided - (pausecount - (IF owner = "signal" THEN 1 ELSE 0))

-----------------------------------------------------------------------------
(***************************************************************************)
(* The owner                                                               *)
(***************************************************************************)

\* setnumberofthreads(Threads), one turn of its loop: a new worker is started.
Create ==
    /\ owner = "create"
    /\ everyone' = everyone + 1
    /\ GoTo(everyone + 1, "top")
    /\ owner' = IF everyone + 1 = Threads THEN "open" ELSE "create"
    /\ UNCHANGED <<pausing, semaphore, activecount, pausecount, allpaused, shouldexit, event,
                   added>>

\* addtask.
AddTask ==
    /\ owner \in {"create", "open"} /\ added < MaxTasks
    /\ added' = added + 1
    /\ semaphore' = semaphore + 1
    /\ UNCHANGED <<owner, everyone, pausing, pc, activecount, pausecount, allpaused, shouldexit,
                   event>>

\* ~workers: pauseallthreadsandwait and its setnumberofthreads(0) begin.
Destroy ==
    /\ owner = "open" /\ Owed = 0 /\ Busy = 0
    /\ owner' = "pause" /\ pausing' = Threads
    /\ UNCHANGED <<everyone, pc, semaphore, activecount, pausecount, allpaused, shouldexit,
                   event, added>>

\* Mutant: the semaphore is signalled before the pause is counted.
PauseAfterSignal ==
    /\ owner = "pause" /\ pausing > 0
    /\ semaphore' = semaphore + 1
    /\ owner' = "signal"
    /\ UNCHANGED <<everyone, pausing, pc, activecount, pausecount, allpaused, shouldexit, event,
                   added>>

\* setnumberofthreads(0): a pause is counted.
Pause ==
    /\ owner = "pause" /\ pausing > 0
    /\ pausecount' = pausecount + 1
    /\ owner' = "signal"
    /\ UNCHANGED <<everyone, pausing, pc, semaphore, activecount, allpaused, shouldexit, event,
                   added>>

\* setnumberofthreads(0): and the semaphore is signalled for it.
PauseSignal ==
    /\ owner = "signal"
    /\ semaphore' = semaphore + 1
    /\ pausing' = pausing - 1
    /\ owner' = IF pausing = 1 THEN "wait" ELSE "pause"
    /\ UNCHANGED <<everyone, pc, activecount, pausecount, allpaused, shouldexit, event, added>>

\* pauseallthreadsandwait: the wait for m_allpaused ends.
AllPaused ==
    /\ owner = "wait" /\ allpaused
    /\ owner' = "stop"
    /\ UNCHANGED <<everyone, pausing, pc, semaphore, activecount, pausecount, allpaused,
                   shouldexit, event, added>>

\* deleteworkers: stopthread of the first worker of m_everyone, if there is one.
StopThread ==
    /\ owner = "stop"
    /\ IF everyone = 0
       THEN owner' = "gone" /\ UNCHANGED <<shouldexit, event>>
       ELSE /\ shouldexit' = [shouldexit EXCEPT ![everyone] = TRUE]
            /\ event' = [event EXCEPT ![everyone] = TRUE]
            /\ owner' = "join"
    /\ UNCHANGED <<everyone, pausing, pc, semaphore, activecount, pausecount, allpaused, added>>

\* waitforthreadtoexit: the thread has returned from run.
Join ==
    /\ owner = "join" /\ pc[everyone] = "exited"
    /\ everyone' = everyone - 1
    /\ owner' = "stop"
    /\ UNCHANGED <<pausing, pc, semaphore, activecount, pausecount, allpaused, shouldexit, event,
                   added>>

-----------------------------------------------------------------------------
(***************************************************************************)
(* worker::run                                                             *)
(***************************************************************************)

UnchangedOwner == UNCHANGED <<owner, everyone, pausing, shouldexit, added>>

\* The test of the outer loop.
Top(w) ==
    /\ pc[w] = "top"
    /\ GoTo(w, IF shouldexit[w] THEN "exited" ELSE "enter")
    /\ UnchangedOwner /\ UNCHANGED <<semaphore, activecount, pausecount, allpaused, event>>

\* Mutant: m_allpaused is not reset.
EnterNoReset(w) ==
    /\ pc[w] = "enter"
    /\ activecount' = activecount + 1
    /\ GoTo(w, "idle")
    /\ UnchangedOwner /\ UNCHANGED <<semaphore, pausecount, allpaused, event>>

\* ++m_activecount.
Enter(w) ==
    /\ pc[w] = "enter"
    /\ activecount' = activecount + 1
    /\ GoTo(w, IF activecount = 0 THEN "reset" ELSE "idle")
    /\ UnchangedOwner /\ UNCHANGED <<semaphore, pausecount, allpaused, event>>

\* The first active worker resets m_allpaused.
Reset(w) ==
    /\ pc[w] = "reset"
    /\ allpaused' = FALSE
    /\ GoTo(w, "idle")
    /\ UnchangedOwner /\ UNCHANGED <<semaphore, activecount, pausecount, event>>

\* m_semaphore.wait().
Wait(w) ==
    /\ pc[w] = "idle" /\ semaphore > 0
    /\ semaphore' = semaphore - 1
    /\ GoTo(w, "load")
    /\ UnchangedOwner /\ UNCHANGED <<activecount, pausecount, allpaused, event>>

\* m_pausecount.load().
Load(w) ==
    /\ pc[w] = "load"
    /\ GoTo(w, IF pausecount > 0 THEN "decrement" ELSE "start")
    /\ UnchangedOwner /\ UNCHANGED <<semaphore, activecount, pausecount, allpaused, event>>

\* --m_pausecount: the worker is paused, or was too late.
Decrement(w) ==
    /\ pc[w] = "decrement"
    /\ pausecount' = pausecount - 1
    /\ GoTo(w, IF pausecount > 0 THEN "leave" ELSE "undo")
    /\ UnchangedOwner /\ UNCHANGED <<semaphore, activecount, allpaused, event>>

\* The decrement is undone if it was too late, and ++m_runningtaskcount.
Start(w) ==
    /\ pc[w] \in {"start", "undo"}
    /\ pausecount' = IF pc[w] = "undo" THEN pausecount + 1 ELSE pausecount
    /\ GoTo(w, "process")
    /\ UnchangedOwner /\ UNCHANGED <<semaphore, activecount, allpaused, event>>

\* processtask: the callback takes its task.
BeginTask(w) ==
    /\ pc[w] = "process"
    /\ GoTo(w, "task")
    /\ UnchangedOwner /\ UNCHANGED <<semaphore, activecount, pausecount, allpaused, event>>

\* processtask: the callback has finished its task.
EndTask(w) ==
    /\ pc[w] = "task"
    /\ GoTo(w, "done")
    /\ UnchangedOwner /\ UNCHANGED <<semaphore, activecount, pausecount, allpaused, event>>

\* --m_runningtaskcount.
Done(w) ==
    /\ pc[w] = "done"
    /\ GoTo(w, "idle")
    /\ UnchangedOwner /\ UNCHANGED <<semaphore, activecount, pausecount, allpaused, event>>

\* Mutant: the value before the decrement is compared with zero.
LeaveOldValue(w) ==
    /\ pc[w] = "leave"
    /\ activecount' = activecount - 1
    /\ GoTo(w, IF activecount = 0 THEN "signal" ELSE "paused")
    /\ UnchangedOwner /\ UNCHANGED <<semaphore, pausecount, allpaused, event>>

\* The worker is put on m_paused, and --m_activecount.
Leave(w) ==
    /\ pc[w] = "leave"
    /\ activecount' = activecount - 1
    /\ GoTo(w, IF activecount = 1 THEN "signal" ELSE "paused")
    /\ UnchangedOwner /\ UNCHANGED <<semaphore, pausecount, allpaused, event>>

\* The last active worker signals m_allpaused.
SignalAllPaused(w) ==
    /\ pc[w] = "signal"
    /\ allpaused' = TRUE
    /\ GoTo(w, "paused")
    /\ UnchangedOwner /\ UNCHANGED <<semaphore, activecount, pausecount, event>>

\* wait() on the worker's own event, which resets itself.
Wake(w) ==
    /\ pc[w] = "paused" /\ event[w]
    /\ event' = [event EXCEPT ![w] = FALSE]
    /\ GoTo(w, "top")
    /\ UnchangedOwner /\ UNCHANGED <<semaphore, activecount, pausecount, allpaused>>

-----------------------------------------------------------------------------
Init ==
    /\ owner = "create" /\ everyone = 0 /\ pausing = 0 /\ added = 0
    /\ pc = [w \in Worker |-> "none"]
    /\ semaphore = 0 /\ activecount = 0 /\ pausecount = 0 /\ allpaused = TRUE
    /\ shouldexit = [w \in Worker |-> FALSE]
    /\ event = [w \in Worker |-> FALSE]

OwnerStep == Create \/ Pause \/ PauseSignal \/ AllPaused \/ StopThread \/ Join

\* The steps of a worker other than its wait for the semaphore.
WorkerStep(w) ==
    \/ Top(w) \/ Enter(w) \/ Reset(w) \/ Load(w) \/ Decrement(w) \/ Start(w)
    \/ BeginTask(w) \/ EndTask(w) \/ Done(w) \/ Leave(w) \/ SignalAllPaused(w) \/ Wake(w)

Next == OwnerStep \/ AddTask \/ Destroy \/ \E w \in Worker : WorkerStep(w) \/ Wait(w)

Spec == Init /\ [][Next]_vars

\* Every thread that can run does, and processtask returns; of the workers that
\* wait for the semaphore some one gets it, not every one.
FairSpec ==
    /\ Spec /\ WF_vars(OwnerStep) /\ WF_vars(\E w \in Worker : Wait(w))
    /\ \A w \in Worker : WF_vars(WorkerStep(w))

-----------------------------------------------------------------------------
(***************************************************************************)
(* Properties                                                              *)
(***************************************************************************)

\* The type of the state; m_pausecount never falls below zero.
TypeOK ==
    /\ owner \in OwnerAt /\ everyone \in 0..Threads /\ pausing \in 0..Threads
    /\ pc \in [Worker -> WorkerAt]
    /\ semaphore \in Nat /\ activecount \in 0..Threads /\ pausecount \in Nat
    /\ allpaused \in BOOLEAN
    /\ shouldexit \in [Worker -> BOOLEAN] /\ event \in [Worker -> BOOLEAN]
    /\ added \in 0..MaxTasks

Pool ==
    INSTANCE TaskPool WITH
        owed <- Owed, busy <- Busy,
        closed <- owner \notin {"create", "open"}

\* The workers are the pool of tasks that the job queue relies on: each call of
\* addtask leads to exactly one call of processtask (the comment on
\* callback::processtask) and pausing the workers, which goes through the same
\* semaphore, makes none of them call it once more.
ImplementsTaskPool == Pool!FairSpec

\* m_runningtaskcount: a worker counts itself after its last look at m_pausecount
\* and until processtask has returned.
RunningTasks == Cardinality(At({"process", "task", "done"}))

\* When the wait for m_allpaused ends no task is running, as pauseallthreadsandwait
\* asserts, although the last processtask may still be on its way out when the
\* destructor begins.  There is one exception: m_allpaused is signalled from the
\* start, and the first worker, which resets it, may not have come to that yet.
PausedIsIdle == owner = "wait" /\ allpaused => RunningTasks = 0 \/ At({"reset"}) # {}

\* The destructor of the pool comes to its end, whatever the workers are doing
\* when it begins, and no thread is left.
WorkersStop == (owner = "pause") ~> (owner = "gone" /\ \A w \in Worker : pc[w] = "exited")
=============================================================================
