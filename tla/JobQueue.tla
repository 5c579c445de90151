------------------------------ MODULE JobQueue ------------------------------
(***************************************************************************)
(* The job queue (core/impl/JobQueue.cpp): jobs of prioritised types, each *)
(* type with a limit on the jobs that run at once, served by a pool of     *)
(* worker threads.  The pool is the counter "tasks" of calls to processtask*)
(* that it still owes, as TaskPool has it; Workers shows that the threads  *)
(* keep that promise.  Every action but the test in addjob holds m_mutex.  *)
(*                                                                         *)
(* Jobs are added by the stoppable children of the queue, which stop before*)
(* it does, and by jobs that run.                                          *)
(***************************************************************************)
EXTENDS Integers, FiniteSets

CONSTANTS
    Types,      \* job types, numbered by priority
    Limit,      \* how many jobs of each type may run at once
    Skip,       \* the types that are skipped once the queue is stopping
    Children,   \* stoppable children that add jobs
    Threads,    \* worker threads
    MaxJobs     \* bound: jobs added

ASSUME JobQueueAssumption ==
    /\ Types \subseteq Int /\ Limit \in [Types -> Nat \ {0}] /\ Skip \subseteq Types
    /\ IsFiniteSet(Children) /\ Threads \in Nat \ {0} /\ MaxJobs \in Nat

VARIABLES
    jobset,            \* m_jobset
    lastjob,           \* m_lastjob
    waiting, running, deferred,  \* the jobtypedata of each type
    tasks,             \* tasks signalled to the workers and not yet begun
    processing,        \* jobs inside processtask
    processcount,      \* m_processcount
    adding,            \* calls of addjob past the test for a stopping queue
    stopping, childrenstopped, stopped

vars == <<jobset, lastjob, waiting, running, deferred, tasks, processing,
          processcount, adding, stopping, childrenstopped, stopped>>

Job == [type : Types, index : 1..MaxJobs]

OfType(jobs, t) == {j \in jobs : j.type = t}

\* job::operator<: higher types first, then the order of arrival.
Before(j, k) == j.type > k.type \/ (j.type = k.type /\ j.index < k.index)

-----------------------------------------------------------------------------
\* checkstopped, given the values at the end of the caller.
CheckStopped(jobs, count, kids) ==
    stopped' = (stopped \/ (stopping /\ kids /\ count = 0 /\ jobs = {}))

\* Mutant: the limit is tested against the running jobs alone.
QueueJobCountsRunning(t) ==
    /\ IF running[t] < Limit[t]
       THEN tasks' = tasks + 1 /\ UNCHANGED deferred
       ELSE deferred' = [deferred EXCEPT ![t] = @ + 1] /\ UNCHANGED tasks
    /\ waiting' = [waiting EXCEPT ![t] = @ + 1]

\* queuejob: a task for the new job, or one deferred until a job of its type
\* finishes.
QueueJob(t) ==
    /\ IF waiting[t] + running[t] < Limit[t]
       THEN tasks' = tasks + 1 /\ UNCHANGED deferred
       ELSE deferred' = [deferred EXCEPT ![t] = @ + 1] /\ UNCHANGED tasks
    /\ waiting' = [waiting EXCEPT ![t] = @ + 1]

\* Those who may call addjob: children that have not stopped, and running jobs.
Callers == (IF childrenstopped THEN {} ELSE Children) \cup processing

\* addjob up to the test for a stopping queue; a type to skip is not added.
AddJobTest ==
    /\ \E x \in Callers, t \in Types :
        /\ \A a \in adding : a.caller # x
        /\ ~(stopping /\ t \in Skip)
        /\ lastjob + Cardinality(adding) < MaxJobs
        /\ adding' = adding \cup {[caller |-> x, type |-> t]}
    /\ UNCHANGED <<jobset, lastjob, waiting, running, deferred, tasks, processing,
                   processcount, stopping, childrenstopped, stopped>>

\* addjob, the insertion: the queue may have begun to stop since the test.
AddJob ==
    /\ \E a \in adding :
        /\ adding' = adding \ {a}
        /\ lastjob' = lastjob + 1
        /\ jobset' = jobset \cup {[type |-> a.type, index |-> lastjob + 1]}
        /\ QueueJob(a.type)
    /\ UNCHANGED <<running, processing, processcount, stopping, childrenstopped, stopped>>

\* Mutant: a type at its limit does not stop a job from running.
RunnableAny == jobset

\* The jobs that getnextjob may run.
Runnable == {j \in jobset : running[j.type] < Limit[j.type]}

\* processtask and getnextjob: a worker takes the first job it may run.
GetNextJob ==
    /\ tasks > 0 /\ processcount < Threads
    /\ \E j \in Runnable :
        /\ \A k \in Runnable \ {j} : Before(j, k)
        /\ jobset' = jobset \ {j}
        /\ waiting' = [waiting EXCEPT ![j.type] = @ - 1]
        /\ running' = [running EXCEPT ![j.type] = @ + 1]
        /\ processing' = processing \cup {j}
    /\ tasks' = tasks - 1
    /\ processcount' = processcount + 1
    /\ UNCHANGED <<lastjob, deferred, adding, stopping, childrenstopped, stopped>>

\* Mutant: a deferred task is not signalled.
FinishJobForgets(j) ==
    /\ UNCHANGED <<tasks, deferred>>
    /\ running' = [running EXCEPT ![j.type] = @ - 1]

\* finishjob: the place of the job goes to a deferred task of its type.
FinishJob(j) ==
    /\ IF deferred[j.type] > 0
       THEN tasks' = tasks + 1 /\ deferred' = [deferred EXCEPT ![j.type] = @ - 1]
       ELSE UNCHANGED <<tasks, deferred>>
    /\ running' = [running EXCEPT ![j.type] = @ - 1]

\* Mutant: the test for the end comes before the job is counted out.
ProcessTaskDoneEarly ==
    /\ \E j \in processing :
        /\ \A a \in adding : a.caller # j
        /\ FinishJob(j)
        /\ processing' = processing \ {j}
    /\ processcount' = processcount - 1
    /\ CheckStopped({}, processcount - 1, childrenstopped)
    /\ UNCHANGED <<jobset, lastjob, waiting, adding, stopping, childrenstopped>>

\* The end of processtask, whether the job ran or was skipped.
ProcessTaskDone ==
    /\ \E j \in processing :
        /\ \A a \in adding : a.caller # j
        /\ FinishJob(j)
        /\ processing' = processing \ {j}
    /\ processcount' = processcount - 1
    /\ CheckStopped(jobset, processcount - 1, childrenstopped)
    /\ UNCHANGED <<jobset, lastjob, waiting, adding, stopping, childrenstopped>>

\* The application begins to stop.
StopAsync ==
    /\ ~stopping /\ stopping' = TRUE
    /\ UNCHANGED <<jobset, lastjob, waiting, running, deferred, tasks, processing,
                   processcount, adding, childrenstopped, stopped>>

\* onchildrenstopped: a child that has stopped adds no more jobs.
OnChildrenStopped ==
    /\ stopping /\ ~childrenstopped
    /\ \A a \in adding : a.caller \notin Children
    /\ childrenstopped' = TRUE
    /\ CheckStopped(jobset, processcount, TRUE)
    /\ UNCHANGED <<jobset, lastjob, waiting, running, deferred, tasks, processing,
                   processcount, adding, stopping>>

Init ==
    /\ jobset = {} /\ lastjob = 0 /\ tasks = 0 /\ processing = {} /\ processcount = 0
    /\ waiting = [t \in Types |-> 0]
    /\ running = [t \in Types |-> 0]
    /\ deferred = [t \in Types |-> 0]
    /\ adding = {}
    /\ stopping = FALSE /\ childrenstopped = FALSE /\ stopped = FALSE

Next ==
    \/ AddJobTest \/ AddJob \/ GetNextJob \/ ProcessTaskDone
    \/ StopAsync \/ OnChildrenStopped

Spec == Init /\ [][Next]_vars

\* Worker threads serve the tasks they are signalled, jobs return, and children
\* finish their calls and stop when the application does.
FairSpec ==
    Spec /\ WF_vars(AddJob) /\ WF_vars(GetNextJob) /\ WF_vars(ProcessTaskDone)
         /\ WF_vars(OnChildrenStopped)

-----------------------------------------------------------------------------
(***************************************************************************)
(* Properties                                                              *)
(***************************************************************************)

\* The type of the state.
TypeOK ==
    /\ jobset \subseteq Job /\ processing \subseteq Job /\ IsFiniteSet(jobset)
    /\ lastjob \in 0..MaxJobs /\ tasks \in Nat /\ processcount \in Nat
    /\ waiting \in [Types -> Nat] /\ running \in [Types -> Nat] /\ deferred \in [Types -> Nat]
    /\ adding \subseteq [caller : Children \cup Job, type : Types]
    /\ stopping \in BOOLEAN /\ childrenstopped \in BOOLEAN /\ stopped \in BOOLEAN

\* The number of running jobs of a type never exceeds its limit (the assertion
\* in getnextjob), and jobs are deferred only while the type is at its limit
\* (the assertion in finishjob).
WithinLimit ==
    \A t \in Types :
        /\ running[t] <= Limit[t]
        /\ deferred[t] > 0 => running[t] + waiting[t] >= Limit[t]

\* Whenever a worker owes a call to processtask, getnextjob finds a job that it
\* may run (its assertions): no worker comes for nothing.
TaskFindsJob == tasks > 0 => Runnable # {}

\* No queued job is stranded: a task is owed, or its type runs as many jobs as it
\* may, and the first of them to finish signals the task that was deferred.
NoJobStranded == \A j \in jobset : tasks > 0 \/ running[j.type] = Limit[j.type]

\* A queue that has reported that it stopped has no job, runs none, and no call
\* of addjob is under way.
StoppedIsQuiet == stopped => jobset = {} /\ processing = {} /\ adding = {} /\ tasks = 0

\* A job that is queued eventually leaves the queue to be run (the
\* post-condition of queuejob), also if jobs of its type were at their limit.
JobsRun == \A j \in Job : j \in jobset ~> j \notin jobset

\* A queue that is told to stop stops.
QueueStops == stopping ~> stopped

\* The pool of threads as the queue uses it; the pool is closed later.
Pool == INSTANCE TaskPool WITH owed <- tasks, busy <- processcount, closed <- FALSE
=============================================================================
