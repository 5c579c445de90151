--------------------------- MODULE JobQueueProofs ---------------------------
(***************************************************************************)
(* The safety of the job queue, for any job types, limits and number of    *)
(* threads.                                                                *)
(*                                                                         *)
(* The heart of the matter is that tasks are anonymous: a worker that is   *)
(* signalled for one job may take another one, of another type.  The       *)
(* invariant Tokens therefore says that there is a set D of queued jobs,   *)
(* deferred[t] of each type t, such that the tasks signalled are as many   *)
(* as the queued jobs outside of D; which jobs those are may change at     *)
(* every step.  Slots says that a type's jobs outside of D and its running *)
(* jobs never exceed its limit, and reach it while any job is deferred.    *)
(***************************************************************************)
EXTENDS JobQueue, FiniteSetTheorems, TLAPS

TokenSet(D) ==
    /\ D \subseteq jobset
    /\ tasks = Cardinality(jobset \ D)
    /\ \A t \in Types : Cardinality(OfType(D, t)) = deferred[t]

Tokens == \E D : TokenSet(D)

Slots ==
    \A t \in Types :
        /\ deferred[t] <= waiting[t]
        /\ waiting[t] - deferred[t] + running[t] <= Limit[t]
        /\ deferred[t] > 0 => waiting[t] - deferred[t] + running[t] = Limit[t]

Counts ==
    /\ IsFiniteSet(processing) /\ IsFiniteSet(adding)
    /\ \A t \in Types : /\ waiting[t] = Cardinality(OfType(jobset, t))
                        /\ running[t] = Cardinality(OfType(processing, t))
    /\ processcount = Cardinality(processing)
    /\ lastjob + Cardinality(adding) <= MaxJobs

Fresh ==
    /\ jobset \cap processing = {}
    /\ \A j \in jobset \cup processing : j.index <= lastjob

Quiet ==
    /\ \A a \in adding : a.caller \in Callers
    /\ stopped => childrenstopped /\ StoppedIsQuiet

IInv == TypeOK /\ Counts /\ Fresh /\ Slots /\ Tokens /\ Quiet

-----------------------------------------------------------------------------
\* A job more is one more of its type, and none of the others.
LEMMA AddOfType ==
    ASSUME NEW S, IsFiniteSet(S), NEW j, j \notin S, NEW t
    PROVE  /\ IsFiniteSet(S \cup {j})
           /\ Cardinality(OfType(S \cup {j}, t))
                = Cardinality(OfType(S, t)) + (IF j.type = t THEN 1 ELSE 0)
<1>1. OfType(S, t) \subseteq S /\ IsFiniteSet(OfType(S, t)) /\ j \notin OfType(S, t)
  BY FS_Subset DEF OfType
<1>2. Cardinality(OfType(S, t)) \in Nat
  BY <1>1, FS_CardinalityType
<1>3. IsFiniteSet(S \cup {j})
  BY FS_AddElement
<1>4. CASE j.type = t
  <2>1. OfType(S \cup {j}, t) = OfType(S, t) \cup {j}
    BY <1>4 DEF OfType
  <2> QED BY <2>1, <1>1, <1>2, <1>3, <1>4, FS_AddElement, ZenonT(30)
<1>5. CASE j.type # t
  <2>1. OfType(S \cup {j}, t) = OfType(S, t)
    BY <1>5 DEF OfType
  <2> QED BY <2>1, <1>2, <1>3, <1>5
<1> QED BY <1>4, <1>5

\* A job less is one less of its type, and of no other.
LEMMA RemoveOfType ==
    ASSUME NEW S, IsFiniteSet(S), NEW j \in S, NEW t
    PROVE  /\ IsFiniteSet(S \ {j})
           /\ Cardinality(OfType(S \ {j}, t))
                = Cardinality(OfType(S, t)) - (IF j.type = t THEN 1 ELSE 0)
<1>1. IsFiniteSet(S \ {j}) /\ j \notin S \ {j} /\ (S \ {j}) \cup {j} = S
  BY FS_RemoveElement
<1>2. Cardinality(OfType(S, t)) = Cardinality(OfType(S \ {j}, t)) + (IF j.type = t THEN 1 ELSE 0)
  BY <1>1, AddOfType
<1>3. Cardinality(OfType(S \ {j}, t)) \in Nat
  BY <1>1, FS_Subset, FS_CardinalityType DEF OfType
<1> QED BY <1>1, <1>2, <1>3

\* Of one type there are as many jobs in a subset at most, and fewer if a job of
\* that type is missing.
LEMMA SubsetOfType ==
    ASSUME NEW S, IsFiniteSet(S), NEW D, D \subseteq S, NEW t
    PROVE  /\ Cardinality(OfType(D, t)) \in Nat /\ Cardinality(OfType(S, t)) \in Nat
           /\ Cardinality(OfType(D, t)) <= Cardinality(OfType(S, t))
           /\ (Cardinality(OfType(D, t)) < Cardinality(OfType(S, t)))
                <=> (\E j \in S \ D : j.type = t)
<1>1. OfType(D, t) \subseteq OfType(S, t) /\ OfType(S, t) \subseteq S
  BY DEF OfType
<1>2. IsFiniteSet(OfType(S, t)) /\ IsFiniteSet(OfType(D, t))
  BY <1>1, FS_Subset
<1>3. /\ Cardinality(OfType(D, t)) \in Nat /\ Cardinality(OfType(S, t)) \in Nat
      /\ Cardinality(OfType(D, t)) <= Cardinality(OfType(S, t))
      /\ Cardinality(OfType(D, t)) = Cardinality(OfType(S, t)) => OfType(D, t) = OfType(S, t)
  BY <1>1, <1>2, FS_Subset, FS_CardinalityType
<1>4. (Cardinality(OfType(D, t)) < Cardinality(OfType(S, t))) <=> OfType(D, t) # OfType(S, t)
  BY <1>3
<1>5. OfType(D, t) # OfType(S, t) <=> (\E j \in S \ D : j.type = t)
  BY <1>1 DEF OfType
<1> QED BY <1>3, <1>4, <1>5

-----------------------------------------------------------------------------
\* The queue starts in the invariant, with no job and no task.
LEMMA InitInv == Init => IInv
<1> SUFFICES ASSUME Init PROVE IInv
  OBVIOUS
<1>0. /\ IsFiniteSet({}) /\ Cardinality({}) = 0
      /\ \A t : OfType({}, t) = {}
  BY FS_EmptySet DEF OfType
<1>n. MaxJobs \in Nat
  BY JobQueueAssumption
<1>1. TypeOK
  <2>1. lastjob \in 0..MaxJobs /\ tasks \in Nat /\ processcount \in Nat
    BY <1>n DEF Init
  <2>2. jobset \subseteq Job /\ processing \subseteq Job /\ IsFiniteSet(jobset)
    BY <1>0 DEF Init
  <2>3. adding \subseteq [caller : Children \cup Job, type : Types]
    BY DEF Init
  <2>4. waiting \in [Types -> Nat] /\ running \in [Types -> Nat] /\ deferred \in [Types -> Nat]
    BY DEF Init
  <2> QED BY <2>1, <2>2, <2>3, <2>4, Zenon DEF Init, TypeOK
<1>2. Counts
  <2>1. lastjob + Cardinality(adding) <= MaxJobs
    BY <1>0, <1>n DEF Init
  <2> QED BY <2>1, <1>0 DEF Init, Counts
<1>3. Fresh
  BY DEF Init, Fresh
<1>4. Slots
  BY JobQueueAssumption DEF Init, Slots
<1>5. TokenSet({})
  BY <1>0 DEF Init, TokenSet
<1>6. Quiet
  BY DEF Init, Quiet
<1> QED BY <1>1, <1>2, <1>3, <1>4, <1>5, <1>6 DEF IInv, Tokens

\* A call of addjob past its test comes from a child that has not stopped or
\* from a running job, so a stopped queue has none.
LEMMA AddJobTestInv == IInv /\ AddJobTest => IInv'
<1> SUFFICES ASSUME IInv, AddJobTest PROVE IInv'
  OBVIOUS
<1> USE DEF IInv
<1>1. PICK x \in Callers, t \in Types :
        /\ \A a \in adding : a.caller # x
        /\ lastjob + Cardinality(adding) < MaxJobs
        /\ adding' = adding \cup {[caller |-> x, type |-> t]}
  BY DEF AddJobTest
<1>2. Callers \subseteq Children \cup Job /\ Callers' = Callers
  BY DEF AddJobTest, TypeOK, Callers
<1>3. IsFiniteSet(adding') /\ Cardinality(adding') = Cardinality(adding) + 1
  BY <1>1, FS_AddElement, Zenon DEF Counts
<1>4. TypeOK'
  BY <1>1, <1>2 DEF AddJobTest, TypeOK
<1>5. Counts'
  <2>1. Cardinality(adding) \in Nat /\ lastjob \in Int /\ MaxJobs \in Nat
    BY FS_CardinalityType, JobQueueAssumption DEF Counts, TypeOK
  <2>2. lastjob' + Cardinality(adding') <= MaxJobs
    BY <1>1, <1>3, <2>1 DEF AddJobTest
  <2> QED BY <1>3, <2>2 DEF AddJobTest, Counts
<1>6. Fresh' /\ Slots' /\ Tokens'
  BY Zenon DEF AddJobTest, Fresh, Slots, Tokens, TokenSet
<1>7. ~stopped
  BY <1>1 DEF Quiet, StoppedIsQuiet, Callers
<1>8. Quiet'
  BY <1>1, <1>2, <1>7 DEF AddJobTest, Quiet, StoppedIsQuiet
<1> QED BY <1>4, <1>5, <1>6, <1>8

\* The new job either gets a task, and then its type stays within its limit, or
\* joins the deferred ones, and then its type is at its limit.
LEMMA AddJobInv == IInv /\ AddJob => IInv'
<1> SUFFICES ASSUME IInv, AddJob PROVE IInv'
  OBVIOUS
<1> USE DEF IInv
<1>1. PICK a \in adding :
        /\ adding' = adding \ {a}
        /\ lastjob' = lastjob + 1
        /\ jobset' = jobset \cup {[type |-> a.type, index |-> lastjob + 1]}
        /\ QueueJob(a.type)
  BY DEF AddJob
<1> DEFINE j == [type |-> a.type, index |-> lastjob + 1]
<1>2. /\ a.type \in Types
      /\ UNCHANGED <<running, processing, processcount, stopping, childrenstopped, stopped>>
  BY DEF AddJob, TypeOK
<1>3. /\ IsFiniteSet(adding') /\ Cardinality(adding') = Cardinality(adding) - 1
      /\ Cardinality(adding) \in Nat /\ Cardinality(adding') \in Nat
  BY <1>1, FS_RemoveElement, FS_CardinalityType DEF Counts
<1>4. lastjob + 1 \in 1..MaxJobs
  BY <1>3, JobQueueAssumption DEF Counts, TypeOK
<1>5. j \in Job /\ j \notin jobset /\ j \notin processing /\ j.type = a.type /\ j.index = lastjob + 1
  BY <1>2, <1>4 DEF Job, Fresh, TypeOK
<1> HIDE DEF j
<1>6. /\ IsFiniteSet(jobset) /\ IsFiniteSet(jobset')
      /\ \A t \in Types : Cardinality(OfType(jobset', t))
                            = Cardinality(OfType(jobset, t)) + (IF a.type = t THEN 1 ELSE 0)
  <2>1. jobset' = jobset \cup {j} /\ IsFiniteSet(jobset)
    BY <1>1 DEF TypeOK, j
  <2>2. \A t : /\ IsFiniteSet(jobset \cup {j})
               /\ Cardinality(OfType(jobset \cup {j}, t))
                    = Cardinality(OfType(jobset, t)) + (IF j.type = t THEN 1 ELSE 0)
    BY <2>1, <1>5, AddOfType
  <2> QED BY <2>1, <2>2, <1>5
<1>7. TypeOK'
  <2>1. jobset' \subseteq Job
    BY <1>1, <1>5 DEF TypeOK, j
  <2>2. /\ waiting' \in [Types -> Nat] /\ deferred' \in [Types -> Nat] /\ tasks' \in Nat
    BY <1>1, <1>2 DEF QueueJob, TypeOK
  <2> QED BY <2>1, <2>2, <1>1, <1>2, <1>4, <1>6 DEF TypeOK
<1>8. Counts'
  <2>1. \A t \in Types : waiting'[t] = Cardinality(OfType(jobset', t))
    <3> SUFFICES ASSUME NEW t \in Types PROVE waiting'[t] = Cardinality(OfType(jobset', t))
      OBVIOUS
    <3>1. waiting'[t] = waiting[t] + (IF a.type = t THEN 1 ELSE 0)
      BY <1>1, <1>2 DEF QueueJob, TypeOK
    <3> QED BY <3>1, <1>6 DEF Counts
  <2>2. lastjob' + Cardinality(adding') <= MaxJobs
    BY <1>1, <1>3, JobQueueAssumption DEF Counts, TypeOK
  <2> QED BY <2>1, <2>2, <1>2, <1>3 DEF Counts
<1>9. Fresh'
  BY <1>1, <1>2, <1>5, <1>4 DEF Fresh, TypeOK, Job, j
<1>10. Slots'
  <2> SUFFICES ASSUME NEW t \in Types
               PROVE  /\ deferred'[t] <= waiting'[t]
                      /\ waiting'[t] - deferred'[t] + running'[t] <= Limit[t]
                      /\ deferred'[t] > 0 => waiting'[t] - deferred'[t] + running'[t] = Limit[t]
    BY DEF Slots
  <2>1. /\ waiting[t] \in Nat /\ running[t] \in Nat /\ deferred[t] \in Nat /\ Limit[t] \in Nat
        /\ deferred[t] <= waiting[t] /\ waiting[t] - deferred[t] + running[t] <= Limit[t]
        /\ deferred[t] > 0 => waiting[t] - deferred[t] + running[t] = Limit[t]
    BY JobQueueAssumption DEF TypeOK, Slots
  <2>2. CASE t = a.type
    <3>1. waiting'[t] = waiting[t] + 1 /\ running'[t] = running[t]
      BY <1>1, <1>2, <2>2 DEF QueueJob, TypeOK
    <3>2. IF waiting[t] + running[t] < Limit[t] THEN deferred'[t] = deferred[t]
                                                ELSE deferred'[t] = deferred[t] + 1
      BY <1>1, <1>2, <2>2 DEF QueueJob, TypeOK
    <3> QED BY <2>1, <3>1, <3>2
  <2>3. CASE t # a.type
    <3>1. waiting'[t] = waiting[t] /\ running'[t] = running[t] /\ deferred'[t] = deferred[t]
      BY <1>1, <1>2, <2>3 DEF QueueJob, TypeOK
    <3> QED BY <2>1, <3>1
  <2> QED BY <2>2, <2>3
<1>11. Tokens'
  <2>1. PICK D : TokenSet(D)
    BY DEF Tokens
  <2>2. D \subseteq jobset /\ IsFiniteSet(D) /\ IsFiniteSet(jobset \ D)
    BY <2>1, <1>6, FS_Subset DEF TokenSet
  <2>3. CASE waiting[a.type] + running[a.type] < Limit[a.type]
    <3>1. jobset' \ D = (jobset \ D) \cup {j} /\ j \notin jobset \ D
      BY <1>1, <1>5, <2>2 DEF j
    <3>2. Cardinality(jobset' \ D) = Cardinality(jobset \ D) + 1
      BY <3>1, <2>2, FS_AddElement, Zenon
    <3>3. TokenSet(D)'
      BY <2>1, <2>3, <3>2, <1>1 DEF TokenSet, QueueJob
    <3> QED BY <3>3 DEF Tokens
  <2>4. CASE ~(waiting[a.type] + running[a.type] < Limit[a.type])
    <3>1. jobset' \ (D \cup {j}) = jobset \ D /\ D \cup {j} \subseteq jobset' /\ j \notin D
      BY <1>1, <1>5, <2>2 DEF j
    <3>2. \A t \in Types : Cardinality(OfType(D \cup {j}, t))
                              = Cardinality(OfType(D, t)) + (IF a.type = t THEN 1 ELSE 0)
      <4>1. \A t : Cardinality(OfType(D \cup {j}, t))
                              = Cardinality(OfType(D, t)) + (IF j.type = t THEN 1 ELSE 0)
        BY <3>1, <2>2, AddOfType, Zenon
      <4> QED BY <4>1, <1>5, SMTT(30)
    <3>3. \A t \in Types : Cardinality(OfType(D \cup {j}, t)) = deferred'[t]
      <4> SUFFICES ASSUME NEW t \in Types PROVE Cardinality(OfType(D \cup {j}, t)) = deferred'[t]
        OBVIOUS
      <4>1. deferred'[t] = deferred[t] + (IF a.type = t THEN 1 ELSE 0)
        BY <2>4, <1>1, <1>2 DEF QueueJob, TypeOK
      <4> QED BY <4>1, <3>2, <2>1 DEF TokenSet
    <3>4. tasks' = tasks
      BY <2>4, <1>1 DEF QueueJob
    <3>e. PICK E : E = D \cup {j}
      BY Zenon
    <3>5. E \subseteq jobset' /\ tasks' = Cardinality(jobset' \ E)
          /\ \A t \in Types : Cardinality(OfType(E, t)) = deferred'[t]
      BY <3>1, <3>3, <3>4, <3>e, <2>1, Zenon DEF TokenSet
    <3>6. TokenSet(E)'
      BY <3>5 DEF TokenSet
    <3> QED BY <3>6 DEF Tokens
  <2> QED BY <2>3, <2>4
<1>12. Quiet'
  BY <1>1, <1>2 DEF Quiet, StoppedIsQuiet, Callers
<1> QED BY <1>7, <1>8, <1>9, <1>10, <1>11, <1>12

\* The worker may take a deferred job; a job of the same type that had a task
\* is then deferred in its stead.
LEMMA GetNextJobInv == IInv /\ GetNextJob => IInv'
<1> SUFFICES ASSUME IInv, GetNextJob PROVE IInv'
  OBVIOUS
<1> USE DEF IInv
<1>1. PICK j \in Runnable :
        /\ jobset' = jobset \ {j}
        /\ waiting' = [waiting EXCEPT ![j.type] = @ - 1]
        /\ running' = [running EXCEPT ![j.type] = @ + 1]
        /\ processing' = processing \cup {j}
  BY Zenon DEF GetNextJob
<1>2. /\ tasks > 0 /\ tasks' = tasks - 1 /\ processcount' = processcount + 1
      /\ UNCHANGED <<lastjob, deferred, adding, stopping, childrenstopped, stopped>>
  BY DEF GetNextJob
<1>3. /\ j \in jobset /\ j \in Job /\ j.type \in Types /\ j \notin processing
      /\ running[j.type] < Limit[j.type]
  BY <1>1 DEF Runnable, TypeOK, Job, Fresh
<1>4. /\ IsFiniteSet(jobset) /\ IsFiniteSet(jobset')
      /\ \A t \in Types : Cardinality(OfType(jobset', t))
                            = Cardinality(OfType(jobset, t)) - (IF j.type = t THEN 1 ELSE 0)
  BY <1>1, <1>3, RemoveOfType, Zenon DEF TypeOK
<1>5. /\ IsFiniteSet(processing')
      /\ \A t \in Types : Cardinality(OfType(processing', t))
                            = Cardinality(OfType(processing, t)) + (IF j.type = t THEN 1 ELSE 0)
      /\ Cardinality(processing') = Cardinality(processing) + 1
  <2>1. IsFiniteSet(processing) /\ processing' = processing \cup {j}
    BY <1>1 DEF Counts
  <2>2. \A t : /\ IsFiniteSet(processing \cup {j})
               /\ Cardinality(OfType(processing \cup {j}, t))
                    = Cardinality(OfType(processing, t)) + (IF j.type = t THEN 1 ELSE 0)
    BY <2>1, <1>3, AddOfType
  <2>3. Cardinality(processing \cup {j}) = Cardinality(processing) + 1
    BY <2>1, <1>3, FS_AddElement, ZenonT(30)
  <2> QED BY <2>1, <2>2, <2>3, Zenon
<1>6. \A t \in Types : Cardinality(OfType(jobset', t)) \in Nat
  BY <1>4, SubsetOfType
<1>7. \A t \in Types : /\ waiting'[t] = Cardinality(OfType(jobset', t))
                       /\ running'[t] = Cardinality(OfType(processing', t))
  <2> SUFFICES ASSUME NEW t \in Types
               PROVE  /\ waiting'[t] = Cardinality(OfType(jobset', t))
                      /\ running'[t] = Cardinality(OfType(processing', t))
    OBVIOUS
  <2>1. /\ waiting'[t] = waiting[t] - (IF j.type = t THEN 1 ELSE 0)
        /\ running'[t] = running[t] + (IF j.type = t THEN 1 ELSE 0)
    BY <1>1, <1>3 DEF TypeOK
  <2> QED BY <2>1, <1>4, <1>5 DEF Counts
<1>8. TypeOK'
  <2>1. waiting' \in [Types -> Nat]
    <3>1. \A t \in Types : waiting'[t] \in Nat
      BY <1>6, <1>7
    <3>2. DOMAIN waiting' = Types /\ waiting' = [t \in Types |-> waiting'[t]]
      BY <1>1, <1>3, ZenonT(30) DEF TypeOK
    <3> QED BY <3>1, <3>2
  <2>2. running' \in [Types -> Nat] /\ tasks' \in Nat /\ processcount' \in Nat
    BY <1>1, <1>2, <1>3 DEF TypeOK
  <2> QED BY <2>1, <2>2, <1>1, <1>2, <1>3, <1>4 DEF TypeOK
<1>9. Counts'
  BY <1>2, <1>5, <1>7 DEF Counts
<1>10. Fresh'
  BY <1>1, <1>2, <1>3 DEF Fresh
<1>11. deferred[j.type] > 0 => deferred[j.type] < waiting[j.type]
  <2>1. /\ waiting[j.type] \in Nat /\ running[j.type] \in Nat /\ deferred[j.type] \in Nat
        /\ Limit[j.type] \in Nat
    BY <1>3, JobQueueAssumption, Zenon DEF TypeOK
  <2>2. deferred[j.type] > 0 => waiting[j.type] - deferred[j.type] + running[j.type] = Limit[j.type]
    BY <1>3 DEF Slots
  <2> QED BY <2>1, <2>2, <1>3
<1>12. Slots'
  <2>1. waiting[j.type] > 0
    BY <1>3, <1>6, <1>4 DEF Counts, TypeOK
  <2> QED BY <2>1, <1>1, <1>2, <1>3, <1>11, JobQueueAssumption DEF Slots, TypeOK
<1>13. Tokens'
  <2>1. PICK D : TokenSet(D)
    BY DEF Tokens
  <2>2. D \subseteq jobset /\ IsFiniteSet(D) /\ IsFiniteSet(jobset \ D)
    BY <2>1, <1>4, FS_Subset DEF TokenSet
  <2>3. CASE j \notin D
    <3>1. jobset' \ D = (jobset \ D) \ {j} /\ j \in jobset \ D /\ D \subseteq jobset'
      BY <1>1, <1>3, <2>2, <2>3
    <3>2. Cardinality(jobset' \ D) = Cardinality(jobset \ D) - 1
      BY <3>1, <2>2, FS_RemoveElement, ZenonT(30)
    <3>3. TokenSet(D)'
      BY <2>1, <3>1, <3>2, <1>2 DEF TokenSet
    <3> QED BY <3>3 DEF Tokens
  <2>4. CASE j \in D
    <3>1. deferred[j.type] > 0
      <4>1. \A t \in Types : Cardinality(OfType(D \ {j}, t))
                              = Cardinality(OfType(D, t)) - (IF j.type = t THEN 1 ELSE 0)
        BY <2>2, <2>4, RemoveOfType, Zenon
      <4>2. Cardinality(OfType(D \ {j}, j.type)) \in Nat
        BY <2>2, FS_RemoveElement, SubsetOfType
      <4> QED BY <4>1, <4>2, <1>3, <2>1 DEF TokenSet, TypeOK
    <3>2. Cardinality(OfType(D, j.type)) < Cardinality(OfType(jobset, j.type))
      BY <3>1, <1>11, <1>3, <2>1 DEF TokenSet, Counts
    <3>3. PICK k \in jobset \ D : k.type = j.type
      BY <3>2, <2>2, <1>4, SubsetOfType
    <3>e. PICK E : E = (D \ {j}) \cup {k}
      BY Zenon
    <3>4. /\ E \subseteq jobset'
          /\ jobset' \ E = (jobset \ D) \ {k}
      BY <1>1, <2>2, <2>4, <3>3, <3>e
    <3>5. Cardinality(jobset' \ E) = Cardinality(jobset \ D) - 1
      BY <3>4, <3>3, <2>2, FS_RemoveElement, ZenonT(30)
    <3>6. \A t \in Types : Cardinality(OfType(E, t)) = Cardinality(OfType(D, t))
      <4>1. /\ IsFiniteSet(D \ {j}) /\ k \notin D \ {j}
            /\ \A t \in Types : Cardinality(OfType(D \ {j}, t))
                              = Cardinality(OfType(D, t)) - (IF j.type = t THEN 1 ELSE 0)
        BY <2>2, <2>4, <3>3, RemoveOfType, Zenon
      <4>2. \A t \in Types : Cardinality(OfType(E, t))
                              = Cardinality(OfType(D \ {j}, t)) + (IF k.type = t THEN 1 ELSE 0)
        BY <4>1, <3>e, AddOfType, ZenonT(60)
      <4>3. \A t \in Types : Cardinality(OfType(D, t)) \in Nat
        BY <2>2, SubsetOfType
      <4> SUFFICES ASSUME NEW t \in Types PROVE Cardinality(OfType(E, t)) = Cardinality(OfType(D, t))
        OBVIOUS
      <4>4. Cardinality(OfType(D \ {j}, t)) = Cardinality(OfType(D, t)) - (IF j.type = t THEN 1 ELSE 0)
        BY <4>1
      <4>5. Cardinality(OfType(E, t)) = Cardinality(OfType(D \ {j}, t)) + (IF j.type = t THEN 1 ELSE 0)
        BY <4>2, <3>3
      <4>6. Cardinality(OfType(D, t)) \in Nat
        BY <4>3
      <4> QED BY <4>4, <4>5, <4>6
    <3>7. TokenSet(E)'
      BY <2>1, <3>4, <3>5, <3>6, <1>2 DEF TokenSet
    <3> QED BY <3>7 DEF Tokens
  <2> QED BY <2>3, <2>4
<1>14. Quiet'
  BY <1>1, <1>2, <1>3 DEF Quiet, StoppedIsQuiet, Callers
<1> QED BY <1>8, <1>9, <1>10, <1>12, <1>13, <1>14

\* A job that finishes leaves its place to a deferred job of its type, if any.
LEMMA ProcessTaskDoneInv == IInv /\ ProcessTaskDone => IInv'
<1> SUFFICES ASSUME IInv, ProcessTaskDone PROVE IInv'
  OBVIOUS
<1> USE DEF IInv
<1>1. PICK j \in processing :
        /\ \A a \in adding : a.caller # j
        /\ FinishJob(j)
        /\ processing' = processing \ {j}
  BY DEF ProcessTaskDone
<1>2. /\ processcount' = processcount - 1
      /\ UNCHANGED <<jobset, lastjob, waiting, adding, stopping, childrenstopped>>
      /\ stopped' = (stopped \/ (stopping /\ childrenstopped /\ processcount - 1 = 0 /\ jobset = {}))
  BY DEF ProcessTaskDone, CheckStopped
<1>3. j \in Job /\ j.type \in Types
  BY <1>1 DEF TypeOK, Job
<1>4. /\ IsFiniteSet(processing')
      /\ \A t \in Types : Cardinality(OfType(processing', t))
                            = Cardinality(OfType(processing, t)) - (IF j.type = t THEN 1 ELSE 0)
      /\ Cardinality(processing') = Cardinality(processing) - 1
      /\ Cardinality(processing') \in Nat
  <2>1. IsFiniteSet(processing) /\ processing' = processing \ {j}
    BY <1>1 DEF Counts
  <2>2. \A t : /\ IsFiniteSet(processing \ {j})
               /\ Cardinality(OfType(processing \ {j}, t))
                    = Cardinality(OfType(processing, t)) - (IF j.type = t THEN 1 ELSE 0)
    BY <2>1, <1>1, RemoveOfType
  <2>3. Cardinality(processing \ {j}) = Cardinality(processing) - 1
    BY <2>1, <1>1, FS_RemoveElement
  <2> QED BY <2>1, <2>2, <2>3, FS_CardinalityType, Zenon
<1>5. \A t \in Types : /\ running'[t] = Cardinality(OfType(processing', t))
                       /\ running'[t] \in Nat
                       /\ running'[t] = running[t] - (IF j.type = t THEN 1 ELSE 0)
  <2> SUFFICES ASSUME NEW t \in Types
               PROVE  /\ running'[t] = Cardinality(OfType(processing', t))
                      /\ running'[t] \in Nat
                      /\ running'[t] = running[t] - (IF j.type = t THEN 1 ELSE 0)
    OBVIOUS
  <2>1. running'[t] = running[t] - (IF j.type = t THEN 1 ELSE 0)
    BY <1>1, <1>3 DEF FinishJob, TypeOK
  <2>2. Cardinality(OfType(processing', t)) \in Nat
    BY <1>4, SubsetOfType
  <2> QED BY <2>1, <2>2, <1>4 DEF Counts
<1>6. \A t \in Types : deferred'[t]
        = deferred[t] - (IF t = j.type /\ deferred[t] > 0 THEN 1 ELSE 0)
  BY <1>1, <1>3 DEF FinishJob, TypeOK
<1>7. /\ deferred[j.type] > 0 => tasks' = tasks + 1
      /\ ~(deferred[j.type] > 0) => tasks' = tasks
  BY <1>1 DEF FinishJob
<1>8. TypeOK'
  <2>1. running' \in [Types -> Nat]
    <3>1. running' = [t \in Types |-> running'[t]]
      BY <1>1, <1>3, ZenonT(30) DEF FinishJob, TypeOK
    <3> QED BY <3>1, <1>5
  <2>2. deferred' \in [Types -> Nat] /\ tasks' \in Nat
    BY <1>1, <1>3, SMTT(30) DEF FinishJob, TypeOK
  <2>3. processcount' \in Nat
    BY <1>2, <1>4 DEF Counts
  <2>4. processing' \subseteq Job
    BY <1>1 DEF TypeOK
  <2>5. stopped' \in BOOLEAN
    BY <1>2 DEF TypeOK
  <2> QED BY <2>1, <2>2, <2>3, <2>4, <2>5, <1>2 DEF TypeOK
<1>9. Counts'
  BY <1>2, <1>4, <1>5, Zenon DEF Counts
<1>10. Fresh'
  BY <1>1, <1>2 DEF Fresh
<1>11. Slots'
  <2> SUFFICES ASSUME NEW t \in Types
               PROVE  /\ deferred'[t] <= waiting'[t]
                      /\ waiting'[t] - deferred'[t] + running'[t] <= Limit[t]
                      /\ deferred'[t] > 0 => waiting'[t] - deferred'[t] + running'[t] = Limit[t]
    BY DEF Slots
  <2>1. /\ waiting[t] \in Nat /\ running[t] \in Nat /\ deferred[t] \in Nat /\ Limit[t] \in Nat
        /\ deferred[t] <= waiting[t] /\ waiting[t] - deferred[t] + running[t] <= Limit[t]
        /\ deferred[t] > 0 => waiting[t] - deferred[t] + running[t] = Limit[t]
    BY JobQueueAssumption DEF TypeOK, Slots
  <2>2. /\ waiting'[t] = waiting[t]
        /\ running'[t] = running[t] - (IF j.type = t THEN 1 ELSE 0)
        /\ deferred'[t] = deferred[t] - (IF t = j.type /\ deferred[t] > 0 THEN 1 ELSE 0)
    BY <1>2, <1>5, <1>6
  <2> QED BY <2>1, <2>2
<1>12. Tokens'
  <2>1. PICK D : TokenSet(D)
    BY DEF Tokens
  <2>2. D \subseteq jobset /\ IsFiniteSet(jobset) /\ IsFiniteSet(D) /\ IsFiniteSet(jobset \ D)
    BY <2>1, FS_Subset DEF TokenSet, TypeOK
  <2>3. CASE deferred[j.type] > 0
    <3>1. PICK k \in D : k.type = j.type
      <4>1. Cardinality(OfType(D, j.type)) > 0
        BY <2>1, <2>3, <1>3 DEF TokenSet
      <4>2. OfType(D, j.type) # {}
        BY <4>1, FS_EmptySet
      <4> QED BY <4>2 DEF OfType
    <3>2. /\ D \ {k} \subseteq jobset
          /\ jobset \ (D \ {k}) = (jobset \ D) \cup {k}
      BY <2>2, <3>1, SMTT(30)
    <3>3. Cardinality(jobset \ (D \ {k})) = Cardinality(jobset \ D) + 1
      BY <3>2, <3>1, <2>2, FS_AddElement, Zenon
    <3>4. \A t \in Types : Cardinality(OfType(D \ {k}, t)) = deferred'[t]
      <4> SUFFICES ASSUME NEW t \in Types PROVE Cardinality(OfType(D \ {k}, t)) = deferred'[t]
        OBVIOUS
      <4>1. Cardinality(OfType(D \ {k}, t))
              = Cardinality(OfType(D, t)) - (IF k.type = t THEN 1 ELSE 0)
        BY <2>2, RemoveOfType
      <4>2. Cardinality(OfType(D, t)) = deferred[t]
        BY <2>1 DEF TokenSet
      <4> QED BY <4>1, <4>2, <3>1, <1>6, <2>3
    <3>5. TokenSet(D \ {k})'
      BY <3>2, <3>3, <3>4, <2>1, <2>3, <1>2, <1>7, ZenonT(30) DEF TokenSet
    <3> QED BY <3>5 DEF Tokens
  <2>4. CASE ~(deferred[j.type] > 0)
    <3>1. \A t \in Types : deferred'[t] = deferred[t]
      BY <2>4, <1>6, SMTT(30) DEF TypeOK
    <3>2. TokenSet(D)'
      BY <3>1, <2>1, <2>4, <1>2, <1>7, SMTT(30) DEF TokenSet
    <3> QED BY <3>2 DEF Tokens
  <2> QED BY <2>3, <2>4
<1>13. Quiet'
  <2>1. \A a \in adding' : a.caller \in Callers'
    BY <1>1, <1>2 DEF Quiet, Callers
  <2>2. ~stopped
    BY <1>1 DEF Quiet, StoppedIsQuiet
  <2>3. ASSUME stopped' PROVE childrenstopped' /\ StoppedIsQuiet'
    <3>1. childrenstopped /\ jobset = {} /\ processcount - 1 = 0
      BY <1>2, <2>2, <2>3, ZenonT(30)
    <3>2. processing' = {}
      BY <3>1, <1>4, FS_EmptySet DEF Counts
    <3>3. adding' = {}
      BY <2>1, <3>1, <3>2, <1>2 DEF Callers
    <3>4. tasks' = 0
      <4>1. PICK D : TokenSet(D)'
        BY <1>12 DEF Tokens
      <4>2. jobset' \ D = {}
        BY <3>1, <1>2
      <4> QED BY <4>1, <4>2, FS_EmptySet DEF TokenSet
    <3> QED BY <3>1, <3>2, <3>3, <3>4, <1>2 DEF StoppedIsQuiet
  <2> QED BY <2>1, <2>3, SMTT(30) DEF Quiet
<1> QED BY <1>8, <1>9, <1>10, <1>11, <1>12, <1>13

\* Stopping changes no counter; the queue has stopped only if it is empty.
LEMMA StopInv == IInv /\ (StopAsync \/ OnChildrenStopped) => IInv'
<1> SUFFICES ASSUME IInv, StopAsync \/ OnChildrenStopped PROVE IInv'
  OBVIOUS
<1> USE DEF IInv
<1>1. UNCHANGED <<jobset, lastjob, waiting, running, deferred, tasks, processing,
                  processcount, adding>>
  BY Zenon DEF StopAsync, OnChildrenStopped
<1>2. Counts' /\ Fresh' /\ Slots' /\ Tokens'
  BY <1>1, Zenon DEF Counts, Fresh, Slots, Tokens, TokenSet
<1>3. CASE StopAsync
  <2>1. TypeOK'
    BY <1>3 DEF StopAsync, TypeOK
  <2>2. Quiet'
    BY <1>3 DEF StopAsync, Quiet, Callers, StoppedIsQuiet
  <2> QED BY <1>2, <2>1, <2>2
<1>4. CASE OnChildrenStopped
  <2>1. /\ childrenstopped' = TRUE /\ stopping' = stopping /\ ~childrenstopped
        /\ stopped' = (stopped \/ (stopping /\ processcount = 0 /\ jobset = {}))
        /\ \A a \in adding : a.caller \notin Children
    BY <1>4 DEF OnChildrenStopped, CheckStopped
  <2>2. TypeOK'
    BY <1>1, <2>1 DEF TypeOK
  <2>3. \A a \in adding' : a.caller \in Callers'
    BY <1>1, <2>1 DEF Quiet, Callers
  <2>4. ASSUME stopped' PROVE StoppedIsQuiet'
    <3>1. processcount = 0 /\ jobset = {}
      BY <2>1, <2>4, Zenon DEF Quiet
    <3>2. processing = {}
      BY <3>1, FS_EmptySet, Zenon DEF Counts
    <3>3. adding = {}
      BY <2>1, <3>2, <2>3, <1>1, Zenon DEF Callers
    <3>4. tasks = 0
      <4>1. PICK D : TokenSet(D)
        BY DEF Tokens
      <4>2. jobset \ D = {}
        BY <3>1
      <4> QED BY <4>1, <4>2, FS_EmptySet DEF TokenSet
    <3> QED BY <3>1, <3>2, <3>3, <3>4, <1>1 DEF StoppedIsQuiet
  <2>5. Quiet'
    BY <2>1, <2>3, <2>4 DEF Quiet
  <2> QED BY <1>2, <2>2, <2>5
<1> QED BY <1>3, <1>4

-----------------------------------------------------------------------------
\* The invariant holds in every reachable state of the job queue.
THEOREM Invariance == Spec => []IInv
<1>1. IInv /\ UNCHANGED vars => IInv'
  <2> SUFFICES ASSUME IInv, UNCHANGED vars PROVE IInv'
    OBVIOUS
  <2>1. TypeOK' /\ Counts' /\ Fresh' /\ Slots'
    BY DEF IInv, vars, TypeOK, Counts, Fresh, Slots
  <2>2. Tokens'
    BY Zenon DEF IInv, vars, Tokens, TokenSet
  <2>3. Quiet'
    BY DEF IInv, vars, Quiet, Callers, StoppedIsQuiet
  <2> QED BY <2>1, <2>2, <2>3 DEF IInv
<1>2. IInv /\ [Next]_vars => IInv'
  BY <1>1, AddJobTestInv, AddJobInv, GetNextJobInv, ProcessTaskDoneInv, StopInv DEF Next
<1> QED BY InitInv, <1>2, PTL DEF Spec

\* The state of the job queue keeps its type: no counter of a job type ever
\* goes below zero.
THEOREM TypeCorrect == Spec => []TypeOK
BY Invariance, PTL DEF IInv

\* No more jobs of a type run than its limit allows, and jobs are deferred only
\* at the limit: the assertions of getnextjob and finishjob hold.
THEOREM LimitsHold == Spec => []WithinLimit
<1>1. IInv => WithinLimit
  <2> SUFFICES ASSUME IInv, NEW t \in Types
               PROVE  /\ running[t] <= Limit[t]
                      /\ deferred[t] > 0 => running[t] + waiting[t] >= Limit[t]
    BY DEF WithinLimit
  <2>1. /\ waiting[t] \in Nat /\ running[t] \in Nat /\ deferred[t] \in Nat /\ Limit[t] \in Nat
        /\ deferred[t] <= waiting[t] /\ waiting[t] - deferred[t] + running[t] <= Limit[t]
        /\ deferred[t] > 0 => waiting[t] - deferred[t] + running[t] = Limit[t]
    BY JobQueueAssumption DEF IInv, TypeOK, Slots
  <2> QED BY <2>1
<1> QED BY <1>1, Invariance, PTL

\* A worker that is signalled a task finds a job that it may run, whatever
\* jobs the other workers have taken: the assertions of getnextjob hold.
THEOREM TasksFindJobs == Spec => []TaskFindsJob
<1>1. IInv => TaskFindsJob
  <2> SUFFICES ASSUME IInv, tasks > 0 PROVE Runnable # {}
    BY DEF TaskFindsJob
  <2>1. PICK D : TokenSet(D)
    BY DEF IInv, Tokens
  <2>2. IsFiniteSet(jobset) /\ D \subseteq jobset /\ IsFiniteSet(jobset \ D)
    BY <2>1, FS_Subset DEF IInv, TypeOK, TokenSet
  <2>3. jobset \ D # {}
    BY <2>1, <2>2, FS_EmptySet DEF TokenSet
  <2>4. PICK j \in jobset \ D : TRUE
    BY <2>3
  <2>5. j.type \in Types
    BY <2>4 DEF IInv, TypeOK, Job
  <2>6. Cardinality(OfType(D, j.type)) < Cardinality(OfType(jobset, j.type))
    BY <2>2, <2>4, SubsetOfType
  <2>7. deferred[j.type] < waiting[j.type]
    BY <2>1, <2>5, <2>6 DEF IInv, TokenSet, Counts
  <2>8. /\ waiting[j.type] \in Nat /\ running[j.type] \in Nat /\ deferred[j.type] \in Nat
        /\ Limit[j.type] \in Nat
        /\ waiting[j.type] - deferred[j.type] + running[j.type] <= Limit[j.type]
    BY <2>5, JobQueueAssumption, Zenon DEF IInv, TypeOK, Slots
  <2>9. running[j.type] < Limit[j.type]
    BY <2>7, <2>8
  <2> QED BY <2>4, <2>9 DEF Runnable
<1> QED BY <1>1, Invariance, PTL

\* No job is left in the queue with nobody to come for it: if no task is owed, every
\* queued job was deferred, and the jobs of its type that run are at their limit, so
\* that finishjob of any of them signals a task.
THEOREM JobsNotStranded == Spec => []NoJobStranded
<1>1. IInv => NoJobStranded
  <2> SUFFICES ASSUME IInv, NEW j \in jobset, ~(tasks > 0)
               PROVE  running[j.type] = Limit[j.type]
    BY DEF NoJobStranded
  <2>1. PICK D : TokenSet(D)
    BY DEF IInv, Tokens
  <2>2. IsFiniteSet(jobset) /\ D \subseteq jobset /\ IsFiniteSet(jobset \ D) /\ tasks \in Nat
    BY <2>1, FS_Subset DEF IInv, TypeOK, TokenSet
  <2>3. jobset \ D = {}
    BY <2>1, <2>2, FS_EmptySet DEF TokenSet
  <2>4. j.type \in Types
    BY DEF IInv, TypeOK, Job
  <2>5. Cardinality(OfType(D, j.type)) = Cardinality(OfType(jobset, j.type))
    BY <2>2, <2>3, SubsetOfType
  <2>6. deferred[j.type] = waiting[j.type]
    BY <2>1, <2>4, <2>5 DEF IInv, TokenSet, Counts
  <2>7. waiting[j.type] > 0
    <3>1. Cardinality(OfType({}, j.type)) < Cardinality(OfType(jobset, j.type))
      BY <2>2, SubsetOfType
    <3>2. Cardinality(OfType({}, j.type)) \in Nat /\ Cardinality(OfType(jobset, j.type)) \in Nat
      BY <2>2, SubsetOfType
    <3>3. waiting[j.type] = Cardinality(OfType(jobset, j.type))
      BY <2>4 DEF IInv, Counts
    <3> QED BY <3>1, <3>2, <3>3
  <2>8. /\ waiting[j.type] \in Nat /\ running[j.type] \in Nat /\ deferred[j.type] \in Nat
        /\ Limit[j.type] \in Nat
        /\ deferred[j.type] > 0 =>
             waiting[j.type] - deferred[j.type] + running[j.type] = Limit[j.type]
    BY <2>4, JobQueueAssumption, Zenon DEF IInv, TypeOK, Slots
  <2> QED BY <2>6, <2>7, <2>8
<1> QED BY <1>1, Invariance, PTL

\* The end of the queue is not missed: once it is told to stop, its children have
\* stopped and it neither holds nor runs a job, checkstopped has reported it stopped.
\* Each of the three can come last, and none is followed by another call of
\* checkstopped.
THEOREM StopNotMissed ==
    Spec => [](stopping /\ childrenstopped /\ jobset = {} /\ processing = {} => stopped)
<1> DEFINE Goal == stopping /\ childrenstopped /\ jobset = {} /\ processing = {} => stopped
           Inv == (childrenstopped => stopping) /\ Goal
<1>1. Init => Inv
  BY DEF Init
<1>2. Inv /\ IInv' /\ [Next]_vars => Inv'
  <2> SUFFICES ASSUME Inv, IInv', [Next]_vars PROVE Inv'
    OBVIOUS
  <2>1. childrenstopped' => stopping'
    BY Zenon DEF Next, AddJobTest, AddJob, GetNextJob, ProcessTaskDone, StopAsync,
                 OnChildrenStopped, vars
  <2>2. ASSUME stopping', childrenstopped', jobset' = {}, processing' = {} PROVE stopped'
    <3>1. processcount' = 0
      BY <2>2, FS_EmptySet DEF IInv, Counts
    <3>2. CASE AddJobTest \/ UNCHANGED vars
      BY <2>2, <3>2, Zenon DEF AddJobTest, vars
    <3>3. CASE AddJob
      BY <2>2, <3>3, Zenon DEF AddJob
    <3>4. CASE GetNextJob
      BY <2>2, <3>4, Zenon DEF GetNextJob
    <3>5. CASE ProcessTaskDone
      <4>1. /\ processcount - 1 = 0 /\ jobset = {} /\ stopping /\ childrenstopped
            /\ CheckStopped(jobset, processcount - 1, childrenstopped)
        BY <2>2, <3>1, <3>5, Zenon DEF ProcessTaskDone
      <4> QED BY <4>1, Zenon DEF CheckStopped
    <3>6. CASE StopAsync
      BY <2>2, <3>6, Zenon DEF StopAsync
    <3>7. CASE OnChildrenStopped
      <4>1. processcount = 0 /\ jobset = {} /\ stopping /\ CheckStopped(jobset, processcount, TRUE)
        BY <2>2, <3>1, <3>7, Zenon DEF OnChildrenStopped
      <4> QED BY <4>1, Zenon DEF CheckStopped
    <3> QED BY <3>2, <3>3, <3>4, <3>5, <3>6, <3>7, Zenon DEF Next
  <2> QED BY <2>1, <2>2
<1>3. Inv => Goal
  OBVIOUS
<1> HIDE DEF Inv
<1>4. Spec => []Goal
  BY <1>1, <1>2, <1>3, Invariance, PTL DEF Spec
<1> QED BY <1>4 DEF Goal

\* When the queue reports that it has stopped, nothing is queued, running or
\* about to be added.
THEOREM StopsQuietly == Spec => []StoppedIsQuiet
<1>1. IInv => StoppedIsQuiet
  BY DEF IInv, Quiet, StoppedIsQuiet
<1> QED BY <1>1, Invariance, PTL

\* The queue uses its threads as a pool of tasks and no otherwise: it counts as
\* tasks what it asked for with addtask, and as m_processcount what the pool runs.
\* With Refinement of WorkersProofs, which has the workers implement the same pool,
\* the queue's properties hold of the queue with its threads.
THEOREM UsesTaskPool == Spec => Pool!Spec
<1>1. Init => Pool!Init
  BY DEF Init, Pool!Init
<1>2. IInv /\ [Next]_vars => [Pool!Next]_Pool!vars
  <2> SUFFICES ASSUME IInv, [Next]_vars PROVE [Pool!Next]_Pool!vars
    OBVIOUS
  <2>1. CASE AddJob
    <3>1. processcount' = processcount /\ (tasks' = tasks \/ tasks' = tasks + 1)
      BY <2>1 DEF AddJob, QueueJob
    <3> QED BY <3>1 DEF Pool!Next, Pool!AddTask, Pool!vars
  <2>2. CASE GetNextJob
    BY <2>2 DEF GetNextJob, Pool!Next, Pool!BeginTask
  <2>3. CASE ProcessTaskDone
    <3>1. PICK j \in processing : FinishJob(j)
      BY <2>3 DEF ProcessTaskDone
    <3>2. processcount > 0
      <4>1. IsFiniteSet(processing) /\ processcount = Cardinality(processing)
        BY DEF IInv, Counts
      <4>2. Cardinality(processing) \in Nat /\ Cardinality(processing) # 0
        BY <3>1, <4>1, FS_EmptySet, FS_CardinalityType
      <4> QED BY <4>1, <4>2
    <3>3. tasks' = tasks \/ tasks' = tasks + 1
      BY <3>1 DEF FinishJob
    <3>4. processcount' = processcount - 1
      BY <2>3 DEF ProcessTaskDone
    <3> QED BY <3>2, <3>3, <3>4 DEF Pool!Next, Pool!EndTask, Pool!EndAndAddTask
  <2>4. CASE AddJobTest \/ StopAsync \/ OnChildrenStopped \/ UNCHANGED vars
    BY <2>4, Zenon DEF AddJobTest, StopAsync, OnChildrenStopped, vars, Pool!vars
  <2> QED BY <2>1, <2>2, <2>3, <2>4 DEF Next
<1> QED BY <1>1, <1>2, Invariance, PTL DEF Spec, Pool!Spec
=============================================================================
