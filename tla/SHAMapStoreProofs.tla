-------------------------- MODULE SHAMapStoreProofs --------------------------
(***************************************************************************)
(* Online deletion, for every delete interval and every number of ledgers, *)
(* directories and starts.  First, state.db names databases that are there *)
(* at every point at which the server may end.  Then what is kept: the     *)
(* invariant, and the steps of the server and of the thread up to the      *)
(* copying of a ledger's state.                                            *)
(***************************************************************************)
EXTENDS SHAMapStore, TLAPS

\* Where the thread is when it is not about to change a database.
Calm == {"top", "wait", "woken", "decide", "clear", "cleared", "copy", "copied", "freshen", "make",
         "stopped"}

\* state.db names what the process has open, and names the databases of after the
\* rotation from the moment at which the rotation can no longer be given up.
Agree ==
    IF thread = "rotate" THEN saved.writable = newdir /\ saved.archive = writable
    ELSE saved.writable = writable /\ saved.archive = archive

\* What the process has open.
Running ==
    /\ thread \in Calm \cup {"load", "swap", "rotate", "drop"}
    /\ writable \in dirs /\ archive \in dirs /\ writable # archive
    /\ Agree
    /\ thread \in {"swap", "rotate"} => newdir \in dirs \ {writable, archive}
    /\ thread = "drop" => olddir \notin {writable, archive}

\* The inductive invariant.
IInv ==
    /\ saved \in [writable : Dir \cup {None}, archive : Dir \cup {None}, lastrotated : 0..MaxLedger]
    /\ saved.writable = None <=> saved.archive = None
    /\ saved.writable # None => saved.writable # saved.archive
    /\ Named \subseteq dirs /\ dirs \subseteq Dir
    /\ process \in {"down", "open", "save", "up"}
    /\ process = "open" => dirs = Named
    /\ process = "save" => /\ thread = "load" /\ saved.writable = None
                           /\ writable \in dirs /\ archive \in dirs /\ writable # archive
    /\ process = "up" => Running
    /\ process \in {"down", "open"} => thread = "none"
    /\ newledger \in 0..MaxLedger /\ validated \in 0..MaxLedger /\ closed \in 0..MaxLedger

-----------------------------------------------------------------------------
\* Nothing that the invariant speaks of changes but, among its calm places, the
\* place of the thread.
Still ==
    /\ UNCHANGED <<saved, dirs, process, writable, archive>>
    /\ \/ UNCHANGED <<thread, newdir, olddir>>
       \/ thread \in Calm \cup {"drop"} /\ thread' \in Calm
    /\ newledger' \in 0..MaxLedger /\ validated' \in 0..MaxLedger /\ closed' \in 0..MaxLedger

\* Such a step keeps the invariant.
LEMMA StillInv == IInv /\ Still => IInv'
<1> SUFFICES ASSUME IInv, Still PROVE IInv'
    OBVIOUS
<1>1. Named' = Named
    BY DEF Still, Named
<1>2. process = "up" => Running'
    <2> SUFFICES ASSUME process = "up" PROVE Running'
        OBVIOUS
    <2>1. CASE UNCHANGED <<thread, newdir, olddir>>
        BY <2>1 DEF IInv, Still, Running, Agree
    <2>2. CASE thread \in Calm \cup {"drop"} /\ thread' \in Calm
        BY <2>2 DEF IInv, Still, Running, Agree, Calm
    <2> QED
        BY <2>1, <2>2 DEF Still
<1>3. process # "up" => UNCHANGED thread
    BY DEF IInv, Still, Calm
<1> QED
    BY <1>1, <1>2, <1>3 DEF IInv, Still

\* The thread goes on or gives up.
LEMMA HealthMoves == ASSUME NEW ok, NEW leave, Health(ok, leave) PROVE thread' \in {ok, leave}
BY DEF Health

\* A notification moves the thread, if at all, from one calm place to another.
LEMMA NotifyMoves == Notify => thread' = thread \/ (thread \in Calm /\ thread' \in Calm)
BY DEF Notify, Calm

\* There is a name that is not in use while there is room.
LEMMA UnusedIsNew == ASSUME dirs \subseteq Dir, dirs # Dir PROVE Unused \in Dir \ dirs
BY DEF Unused

-----------------------------------------------------------------------------
\* The invariant holds at the first start.
LEMMA InitInv == Init => IInv
BY SHAMapStoreAssumption DEF Init, IInv, Named, None, Dir

\* The start, and the end, of the server.
LEMMA DbPathsInv == IInv /\ DbPaths => IInv'
<1> SUFFICES ASSUME IInv, DbPaths PROVE IInv'
    OBVIOUS
<1>1. Named' = Named
    BY DEF DbPaths, Named
<1>2. dirs' = Named
    BY DEF DbPaths, IInv
<1>3. process' = "open"
    BY DEF DbPaths, NamesGood, IInv
<1>4. UNCHANGED <<saved, thread, newledger, validated, closed>> /\ process = "down"
    BY DEF DbPaths, run, chain
<1> QED
    BY <1>1, <1>2, <1>3, <1>4 DEF IInv

\* makedatabase(): opens what state.db names, or makes two databases.
LEMMA MakeDatabaseInv == IInv /\ MakeDatabase => IInv'
<1> SUFFICES ASSUME IInv, MakeDatabase PROVE IInv'
    OBVIOUS
<1>1. Named' = Named /\ UNCHANGED <<saved, newledger, validated, closed>> /\ thread' = "load"
    BY DEF MakeDatabase, Named, chain
<1>2. CASE saved.writable = None
    <2>1. Named = {}
        BY <1>2 DEF IInv, Named
    <2>2. 1 \in Dir /\ 2 \in Dir
        BY SHAMapStoreAssumption DEF Dir
    <2>3. writable' = 1 /\ archive' = 2 /\ dirs' = {1, 2} /\ process' = "save"
        BY <1>2 DEF MakeDatabase
    <2> QED
        BY <1>1, <1>2, <2>1, <2>2, <2>3 DEF IInv
<1>3. CASE saved.writable # None
    <2>1. saved.archive # None /\ process = "open" /\ dirs = Named
        BY <1>3 DEF IInv, MakeDatabase
    <2>2. writable' = saved.writable /\ archive' = saved.archive /\ process' = "up" /\ dirs' = dirs
        BY <1>3 DEF MakeDatabase
    <2>3. writable' \in dirs' /\ archive' \in dirs'
        BY <1>3, <2>1, <2>2 DEF Named
    <2>4. saved.writable # saved.archive
        BY <1>3 DEF IInv
    <2>5. Running'
        BY <1>1, <2>2, <2>3, <2>4 DEF Running, Agree
    <2> QED
        BY <1>1, <2>1, <2>2, <2>5 DEF IInv
<1> QED
    BY <1>2, <1>3

\* The names of two new databases are saved.
LEMMA MakeDatabaseSaveInv == IInv /\ MakeDatabaseSave => IInv'
<1> SUFFICES ASSUME IInv, MakeDatabaseSave PROVE IInv'
    OBVIOUS
<1>1. /\ process = "save" /\ process' = "up" /\ thread = "load"
      /\ writable \in dirs /\ archive \in dirs /\ writable # archive
      /\ UNCHANGED <<dirs, writable, archive, thread, newledger, validated, closed>>
    BY DEF IInv, MakeDatabaseSave, db, run, chain
<1>2. /\ saved' = [saved EXCEPT !.writable = writable, !.archive = archive]
      /\ saved'.writable = writable /\ saved'.archive = archive
    BY DEF IInv, MakeDatabaseSave
<1>3. writable # None /\ archive # None
    BY <1>1 DEF IInv, Dir, None
<1>4. Named' \subseteq dirs
    BY <1>1, <1>2 DEF Named
<1>5. Running'
    BY <1>1, <1>2 DEF Running, Agree
<1> QED
    BY <1>1, <1>2, <1>3, <1>4, <1>5, Zenon DEF IInv

\* The server ends, at any point.
LEMMA EndInv == IInv /\ (Crash \/ Exit) => IInv'
<1> SUFFICES ASSUME IInv, Crash \/ Exit PROVE IInv'
    OBVIOUS
<1>1. /\ process' = "down" /\ thread' = "none" /\ newledger' = None /\ validated' = None
      /\ UNCHANGED <<saved, dirs, closed>>
    BY DEF Crash, Exit, Forget, disk, chain
<1>2. Named' = Named
    BY <1>1 DEF Named
<1> QED
    BY <1>1, <1>2, SHAMapStoreAssumption DEF IInv, None

-----------------------------------------------------------------------------
\* The server around the thread, and the readers.
LEMMA ServerInv ==
    ASSUME IInv,
           \/ CloseLedger \/ OnLedgerClosed \/ SetCanDelete \/ OnStop
           \/ \E d \in Dir : WriteBatch(d)
           \/ FetchFirst \/ FetchSecond \/ FetchDone
    PROVE  IInv'
<1>1. CASE CloseLedger
    <2>1. closed' \in 0..MaxLedger
        BY <1>1, SHAMapStoreAssumption DEF CloseLedger, IInv
    <2> QED
        BY <1>1, <2>1, StillInv DEF CloseLedger, Still, disk, run, IInv
<1>2. CASE OnLedgerClosed
    BY <1>2, NotifyMoves, StillInv DEF OnLedgerClosed, Still, db, IInv
<1>3. CASE SetCanDelete
    BY <1>3, StillInv DEF SetCanDelete, Still, db, run, chain, IInv
<1>4. CASE OnStop
    BY <1>4, NotifyMoves, StillInv DEF OnStop, Still, disk, db, chain, IInv
<1>5. CASE \E d \in Dir : WriteBatch(d)
    BY <1>5, StillInv, SMTT(30) DEF WriteBatch, Still, run, chain, IInv
<1>6. CASE FetchFirst
    BY <1>6, StillInv DEF FetchFirst, UnchangedByReader, Still, disk, run, chain, IInv
<1>7. CASE FetchSecond
    BY <1>7, StillInv DEF FetchSecond, UnchangedByReader, Still, disk, run, chain, IInv
<1>8. CASE FetchDone
    BY <1>8, StillInv DEF FetchDone, UnchangedByReader, Still, disk, run, chain, IInv
<1> QED
    BY <1>1, <1>2, <1>3, <1>4, <1>5, <1>6, <1>7, <1>8

-----------------------------------------------------------------------------
\* The steps of the thread that change no database.
LEMMA CalmInv ==
    ASSUME IInv,
           \/ RunTop \/ RunTake \/ RunClearPrior \/ RunCleared \/ RunCopyNode \/ RunCopied
           \/ RunFreshen \/ RunSpuriousWake
    PROVE  IInv'
<1>1. CASE RunTop
    BY <1>1, StillInv, SHAMapStoreAssumption
    DEF RunTop, UnchangedByRun, Still, disk, db, chain, IInv, Calm, None
<1>2. CASE RunTake
    BY <1>2, StillInv, SHAMapStoreAssumption DEF RunTake, Still, disk, db, chain, IInv, Calm, None
<1>3. CASE RunClearPrior
    <2>1. thread' \in {"clear", "cleared"}
        BY <1>3, HealthMoves DEF RunClearPrior
    <2> QED
        BY <1>3, <2>1, StillInv DEF RunClearPrior, UnchangedByRun, Still, db, chain, IInv, Calm
<1>4. CASE RunCleared
    <2>1. thread' \in {"copy", "top"}
        BY <1>4, HealthMoves, SMTT(30) DEF RunCleared, HealthSwitch
    <2> QED
        BY <1>4, <2>1, StillInv DEF RunCleared, UnchangedByRun, Still, disk, db, chain, IInv, Calm
<1>5. CASE RunCopyNode
    <2>1. thread' \in {"copy", "copied"}
        BY <1>5, HealthMoves DEF RunCopyNode
    <2> QED
        BY <1>5, <2>1, StillInv DEF RunCopyNode, UnchangedByRun, Still, disk, chain, IInv, Calm
<1>6. CASE RunCopied
    <2>1. thread' \in {"freshen", "top"}
        BY <1>6, HealthMoves, SMTT(30) DEF RunCopied, HealthSwitch
    <2> QED
        BY <1>6, <2>1, StillInv DEF RunCopied, UnchangedByRun, Still, disk, db, chain, IInv, Calm
<1>7. CASE RunFreshen
    <2>1. thread' \in {"freshen", "make", "top"}
        BY <1>7, HealthMoves, SMTT(30) DEF RunFreshen, HealthSwitch
    <2> QED
        BY <1>7, <2>1, StillInv DEF RunFreshen, UnchangedByRun, Still, disk, chain, IInv, Calm
<1>8. CASE RunSpuriousWake
    BY <1>8, StillInv DEF RunSpuriousWake, UnchangedByRun, Still, disk, db, chain, IInv, Calm
<1> QED
    BY <1>1, <1>2, <1>3, <1>4, <1>5, <1>6, <1>7, <1>8

\* The thread moves only while the server is up.
LEMMA UpWhileRunning ==
    ASSUME IInv, thread \notin {"none", "load"} PROVE process = "up" /\ Running
BY DEF IInv

\* The thread begins.
LEMMA RunBeginInv == IInv /\ RunBegin => IInv'
<1> SUFFICES ASSUME IInv, RunBegin PROVE IInv'
    OBVIOUS
<1>1. /\ process = "up" /\ thread = "load" /\ thread' = "top"
      /\ UNCHANGED <<saved, dirs, process, writable, archive, newledger, validated, closed>>
    BY DEF RunBegin, UnchangedByRun, disk, db, chain
<1>2. Named' = Named
    BY <1>1 DEF Named
<1>3. Running'
    BY <1>1 DEF IInv, Running, Agree, Calm
<1> QED
    BY <1>1, <1>2, <1>3 DEF IInv

\* The first ledger is recorded, or a rotation begins.
LEMMA RunDecideInv == IInv /\ RunDecide => IInv'
<1> SUFFICES ASSUME IInv, RunDecide PROVE IInv'
    OBVIOUS
<1>1. /\ thread = "decide" /\ thread' \in {"clear", "top"}
      /\ UNCHANGED <<dirs, process, writable, archive, newledger, validated, closed>>
    BY HealthMoves DEF RunDecide, HealthSwitch, UnchangedByRun, db, chain
<1>2. process = "up" /\ Running
    BY <1>1, UpWhileRunning
<1>3. /\ saved' \in [writable : Dir \cup {None}, archive : Dir \cup {None}, lastrotated : 0..MaxLedger]
      /\ saved'.writable = saved.writable /\ saved'.archive = saved.archive
    BY DEF RunDecide, IInv
<1>4. Named' = Named
    BY <1>3 DEF Named
<1>5. Running'
    BY <1>1, <1>2, <1>3 DEF Running, Agree, Calm
<1> QED
    BY <1>1, <1>2, <1>3, <1>4, <1>5 DEF IInv

\* The rotation.
LEMMA RunMakeBackendInv == IInv /\ RunMakeBackend => IInv'
<1> SUFFICES ASSUME IInv, RunMakeBackend PROVE IInv'
    OBVIOUS
<1>1. /\ thread = "make" /\ thread' \in {"swap", "top"}
      /\ newdir' = Unused /\ dirs' = dirs \cup {Unused}
      /\ UNCHANGED <<saved, process, writable, archive, newledger, validated, closed>>
    BY HealthMoves DEF RunMakeBackend, HealthSwitch, UnchangedByRun, db, chain
<1>2. Unused \in Dir \ dirs
    BY UnusedIsNew DEF RunMakeBackend, IInv
<1>3. process = "up" /\ Running
    BY <1>1, UpWhileRunning
<1>4. Named' = Named
    BY <1>1 DEF Named
<1>5. Running'
    BY <1>1, <1>2, <1>3 DEF Running, Agree, Calm
<1> QED
    BY <1>1, <1>2, <1>3, <1>4, <1>5 DEF IInv

\* state.db names the databases of after the rotation.
LEMMA RunSetStateInv == IInv /\ RunSetState => IInv'
<1> SUFFICES ASSUME IInv, RunSetState PROVE IInv'
    OBVIOUS
<1>1. /\ thread = "swap" /\ thread' = "rotate"
      /\ saved' = [writable |-> newdir, archive |-> writable, lastrotated |-> validated]
      /\ UNCHANGED <<dirs, process, writable, archive, newdir, newledger, validated, closed>>
    BY DEF RunSetState, UnchangedByRun, db, chain
<1>2. process = "up" /\ Running
    BY <1>1, UpWhileRunning
<1>3. newdir \in dirs \ {writable, archive} /\ writable \in dirs /\ newdir # None /\ writable # None
    BY <1>1, <1>2 DEF Running, IInv, Dir, None
<1>4. Named' \subseteq dirs
    BY <1>1, <1>3 DEF Named
<1>5. Running'
    BY <1>1, <1>2, <1>3 DEF Running, Agree, Calm
<1> QED
    BY <1>1, <1>2, <1>3, <1>4, <1>5 DEF IInv

\* The process exchanges its databases.
LEMMA RunRotateBackendsInv == IInv /\ RunRotateBackends => IInv'
<1> SUFFICES ASSUME IInv, RunRotateBackends PROVE IInv'
    OBVIOUS
<1>1. /\ thread = "rotate" /\ thread' = "drop"
      /\ olddir' = archive /\ archive' = writable /\ writable' = newdir
      /\ UNCHANGED <<saved, dirs, process, newledger, validated, closed>>
    BY DEF RunRotateBackends, UnchangedByRun, disk, chain
<1>2. process = "up" /\ Running
    BY <1>1, UpWhileRunning
<1>3. Named' = Named
    BY <1>1 DEF Named
<1>4. Running'
    BY <1>1, <1>2 DEF Running, Agree, Calm
<1> QED
    BY <1>1, <1>2, <1>3, <1>4 DEF IInv

\* The old archive is deleted.
LEMMA RunDropInv == IInv /\ RunDrop => IInv'
<1> SUFFICES ASSUME IInv, RunDrop PROVE IInv'
    OBVIOUS
<1>1. /\ thread = "drop" /\ thread' = "top" /\ dirs' = dirs \ {olddir}
      /\ UNCHANGED <<saved, process, writable, archive, newledger, validated, closed>>
    BY DEF RunDrop, UnchangedByRun, chain
<1>2. process = "up" /\ Running
    BY <1>1, UpWhileRunning
<1>3. saved.writable = writable /\ saved.archive = archive /\ olddir \notin {writable, archive}
    BY <1>1, <1>2 DEF Running, Agree
<1>4. Named' = Named
    BY <1>1 DEF Named
<1>5. Named \subseteq dirs'
    BY <1>1, <1>3 DEF Named, IInv
<1>6. Running'
    BY <1>1, <1>2, <1>3 DEF Running, Agree, Calm
<1> QED
    BY <1>1, <1>2, <1>4, <1>5, <1>6 DEF IInv

-----------------------------------------------------------------------------
\* Every step of the server, of its readers and of the thread, and a crash at any
\* point, keeps the names in state.db those of databases that are there.
THEOREM Invariance == Spec => []IInv
<1>1. IInv /\ [Next]_vars => IInv'
    <2> SUFFICES ASSUME IInv, [Next]_vars PROVE IInv'
        BY SMTT(30)
    <2>1. CASE UNCHANGED vars
        BY <2>1, StillInv DEF vars, disk, db, run, chain, Still, IInv
    <2>2. CASE DbPaths \/ MakeDatabase \/ MakeDatabaseSave \/ Crash \/ Exit
        BY <2>2, DbPathsInv, MakeDatabaseInv, MakeDatabaseSaveInv, EndInv
    <2>3. CASE \/ CloseLedger \/ OnLedgerClosed \/ SetCanDelete \/ OnStop
               \/ \E d \in Dir : WriteBatch(d)
               \/ FetchFirst \/ FetchSecond \/ FetchDone
        BY <2>3, ServerInv
    <2>4. CASE \/ RunTop \/ RunTake \/ RunClearPrior \/ RunCleared \/ RunCopyNode \/ RunCopied
               \/ RunFreshen \/ RunSpuriousWake
        BY <2>4, CalmInv
    <2>5. CASE RunBegin \/ RunDecide \/ RunMakeBackend \/ RunSetState \/ RunRotateBackends \/ RunDrop
        BY <2>5, RunBeginInv, RunDecideInv, RunMakeBackendInv, RunSetStateInv, RunRotateBackendsInv,
           RunDropInv
    <2> QED
        BY <2>1, <2>2, <2>3, <2>4, <2>5 DEF Next, RunStep
<1> QED
    BY InitInv, <1>1, PTL DEF Spec

\* dbpaths never refuses a start, wherever in a rotation the server crashed, and
\* leaves no directory but the two that are used.
THEOREM AlwaysStarts == Spec => []StartsClean
<1>1. IInv => StartsClean
    BY DEF IInv, StartsClean
<1> QED
    BY Invariance, <1>1, PTL

-----------------------------------------------------------------------------
(***************************************************************************)
(* What is kept.  The argument: all that was made DeleteInterval ledgers   *)
(* after the last rotated one, or later, is in the writable database,      *)
(* because the last rotation was over by then.  So when a rotation has     *)
(* copied the state of a ledger that is an interval later, the writable    *)
(* database has that state and all that was made after it.                 *)
(***************************************************************************)

\* What a database holds, written or about to be.
Has(d) == stored[d] \cup batch[d]

\* The nodes that were ever made.
Made == UNION {State(n) : n \in 1..closed}

\* The data: what the databases that state.db names hold.
Kept ==
    /\ stored \in [Dir -> SUBSET Made] /\ batch \in [Dir -> SUBSET Made]
    /\ saved.lastrotated <= closed
    /\ saved.writable = None => closed = 0
    /\ saved.writable # None =>
        /\ Wanted \subseteq Has(saved.writable) \cup Has(saved.archive) \cup lost
        /\ \A x \in Made : x[2] >= saved.lastrotated + DeleteInterval
                              => x \in Has(saved.writable) \cup lost
        /\ \A x \in Has(saved.archive) : x[2] < saved.lastrotated + DeleteInterval

\* The rows of the ledgers.
RowsKept == valid \in 0..closed /\ \A n \in 1..valid : n >= saved.lastrotated => n \in rows

\* The places of a rotation that may still be given up.
Rotating == {"clear", "cleared", "copy", "copied", "freshen", "make", "swap"}

\* Ledgers that the thread has been given are recent.
Recent == \A n \in Pending : n \in 1..closed /\ closed < n + DeleteInterval

\* What the thread knows.
Thread ==
    /\ process = "up" /\ thread # "load" => lastrotated = saved.lastrotated
    /\ thread = "rotate" => validated = saved.lastrotated /\ validated # None
    /\ thread \in Rotating \cup {"decide"} => validated # None
    /\ thread \in Rotating => /\ validated >= saved.lastrotated + DeleteInterval
                              /\ batch[archive] = {}

\* What has been copied.
Copied ==
    /\ thread = "copy" => /\ tocopy \subseteq State(validated)
                          /\ State(validated) \ tocopy \subseteq Has(writable) \cup lost
    /\ thread = "copied" /\ ~stop /\ healthy => State(validated) \subseteq Has(writable) \cup lost
    /\ thread \in {"freshen", "make", "swap"} => State(validated) \subseteq Has(writable) \cup lost

\* What the reader looks for.
Reading ==
    /\ reader \in [at : {"idle", "second", "found", "missed"}, node : Made \cup {None}]
    /\ reader.at # "idle" => process = "up" /\ reader.node \in Made

\* The inductive invariant.
KInv == Kept /\ RowsKept /\ Recent /\ Thread /\ Copied /\ Reading

-----------------------------------------------------------------------------
\* A node has the number of the ledger that made it.
LEMMA NodeNumber ==
    ASSUME closed \in 0..MaxLedger, NEW x \in Made
    PROVE  x[2] \in 1..closed
<1>1. PICK n \in 1..closed : x \in State(n)
    BY DEF Made
<1>2. n \in Ledger /\ Rest[n] \in 1..n
    BY RestAssumption, SHAMapStoreAssumption DEF Ledger
<1>3. x[2] \in {n, Rest[n]}
    BY <1>1 DEF State
<1> QED
    BY <1>2, <1>3, SHAMapStoreAssumption

\* A node of a later ledger belongs to this one too, or was made after it.
LEMMA LaterNodes ==
    ASSUME closed \in 0..MaxLedger, NEW v \in 1..closed, NEW n \in v..closed, NEW x \in State(n)
    PROVE  x \in State(v) \/ x[2] > v
<1>1. n \in Ledger /\ v \in Ledger /\ v <= n
    BY SHAMapStoreAssumption DEF Ledger
<1>2. CASE x = <<"root", n>>
    <2>1. x[2] = n
        BY <1>2
    <2>2. n = v \/ n > v
        BY <1>1, SHAMapStoreAssumption DEF Ledger
    <2> QED
        BY <1>2, <2>1, <2>2 DEF State
<1>3. CASE x = <<"rest", Rest[n]>>
    <2>1. Rest[n] = Rest[v] \/ Rest[n] > v
        BY <1>1, RestAssumption
    <2> QED
        BY <1>3, <2>1 DEF State
<1> QED
    BY <1>2, <1>3 DEF State

\* What a new ledger has and did not make is of the ledger before it.
LEMMA NewNodes ==
    ASSUME closed \in 0..MaxLedger, closed < MaxLedger, NEW x \in State(closed + 1),
           x[2] # closed + 1
    PROVE  closed \in 1..closed /\ x \in State(closed)
<1>1. x = <<"rest", Rest[closed + 1]>>
    BY DEF State
<1>2. /\ closed + 1 \in Ledger /\ Rest[closed + 1] \in Ledger
      /\ Rest[closed + 1] <= closed + 1 /\ Rest[closed + 1] # closed + 1
    BY <1>1, RestAssumption, SHAMapStoreAssumption DEF Ledger
<1>3. closed \in Ledger /\ closed \in 1..closed
    BY <1>2, SHAMapStoreAssumption DEF Ledger
<1>4. Rest[closed + 1] = Rest[closed] \/ Rest[closed + 1] > closed
    BY <1>2, <1>3, RestAssumption, SHAMapStoreAssumption DEF Ledger
<1>5. Rest[closed + 1] = Rest[closed]
    BY <1>2, <1>3, <1>4, SHAMapStoreAssumption DEF Ledger
<1> QED
    BY <1>1, <1>3, <1>5 DEF State

\* Of the wanted nodes, those that were not made after a ledger are its own.
LEMMA WantedNodes ==
    ASSUME closed \in 0..MaxLedger, NEW v \in 1..closed, NEW n \in 1..closed, n >= v,
           NEW x \in State(n)
    PROVE  x \in Made /\ (x \in State(v) \/ x[2] > v)
<1>1. n \in v..closed
    BY SHAMapStoreAssumption
<1> QED
    BY <1>1, LaterNodes DEF Made

-----------------------------------------------------------------------------
\* While the server runs, a step adds nodes to the writable database, or writes
\* what a batch holds, or changes nothing in the databases.
Growth ==
    /\ process = "up"
    /\ UNCHANGED <<saved, closed, lost, process, writable, archive>>
    /\ stored' \in [Dir -> SUBSET Made] /\ batch' \in [Dir -> SUBSET Made]
    /\ \A d \in Dir : Has(d) \subseteq Has(d)'
    /\ \A d \in Dir : d # writable => Has(d)' = Has(d)
    /\ batch[archive] = {} => batch'[archive] = {}

\* The two databases are among the directories.
LEMMA OpenDirs ==
    ASSUME IInv, process = "up"
    PROVE  /\ writable \in Dir /\ archive \in Dir /\ writable # archive
           /\ saved.writable \in Dir /\ saved.archive \in Dir
           /\ saved.writable # None /\ saved.archive # None
<1>1. Running
    BY DEF IInv
<1>2. writable \in Dir /\ archive \in Dir /\ writable # archive
    BY <1>1 DEF IInv, Running
<1>3. saved.writable \in Dir /\ saved.archive \in Dir
    BY <1>1, <1>2 DEF Running, Agree, IInv
<1> QED
    BY <1>2, <1>3 DEF Dir, None

\* Where state.db names the writable database as the archive, all is recent.
LEMMA ArchiveAhead ==
    ASSUME IInv, KInv, process = "up", saved.archive = writable
    PROVE  closed < saved.lastrotated + DeleteInterval
<1>1. Running /\ archive # writable
    BY DEF IInv, Running
<1>2. thread = "rotate"
    BY <1>1 DEF Running, Agree
<1>3. validated = saved.lastrotated /\ validated \in Pending
    BY <1>2, SMTT(30) DEF KInv, Thread, Pending
<1> QED
    BY <1>3 DEF KInv, Recent

\* Growth keeps what is kept.
LEMMA GrowthKeeps == ASSUME IInv, KInv, Growth PROVE Kept'
<1>1. Made' = Made /\ Wanted' = Wanted
    BY DEF Growth, Made, Wanted, State
<1>2. saved.writable \in Dir /\ saved.archive \in Dir /\ saved.writable # None
    BY OpenDirs DEF Growth
<1>3. Has(saved.writable) \subseteq Has(saved.writable)' /\ Has(saved.archive) \subseteq Has(saved.archive)'
    BY <1>2 DEF Growth
<1>4. saved' = saved /\ closed' = closed /\ lost' = lost
    BY DEF Growth
<1>5. ASSUME NEW x \in Has(saved.archive)' PROVE x[2] < saved.lastrotated + DeleteInterval
    <2>1. CASE saved.archive # writable
        <3>1. x \in Has(saved.archive)
            BY <1>2, <1>5, <2>1 DEF Growth
        <3> QED
            BY <3>1, <1>2 DEF KInv, Kept
    <2>2. CASE saved.archive = writable
        <3>1. x \in Made
            BY <1>2, <1>4, <1>5 DEF Growth, Has
        <3>2. x[2] \in 1..closed
            BY <3>1, NodeNumber DEF IInv
        <3>3. closed < saved.lastrotated + DeleteInterval
            BY <2>2, ArchiveAhead DEF Growth
        <3> QED
            BY <3>2, <3>3, SHAMapStoreAssumption DEF IInv
    <2> QED
        BY <2>1, <2>2
<1>6. Wanted \subseteq Has(saved.writable)' \cup Has(saved.archive)' \cup lost
    BY <1>2, <1>3, SMTT(30) DEF KInv, Kept
<1>7. \A x \in Made : x[2] >= saved.lastrotated + DeleteInterval => x \in Has(saved.writable)' \cup lost
    BY <1>2, <1>3 DEF KInv, Kept
<1>8. stored' \in [Dir -> SUBSET Made] /\ batch' \in [Dir -> SUBSET Made]
    BY DEF Growth
<1> QED
    BY <1>1, <1>2, <1>4, <1>5, <1>6, <1>7, <1>8, SMTT(30) DEF KInv, Kept

\* Storing nodes in the writable database is growth.
LEMMA StoreGrows ==
    ASSUME IInv, KInv, process = "up", NEW nodes \in SUBSET Made, Store(writable, nodes),
           UNCHANGED <<stored, saved, closed, lost, process, writable, archive>>
    PROVE  Growth
<1>1. writable \in Dir /\ archive \in Dir /\ writable # archive
    BY OpenDirs, SMTT(30)
<1>2. stored \in [Dir -> SUBSET Made] /\ batch \in [Dir -> SUBSET Made]
    BY DEF KInv, Kept
<1>3. batch' \in [Dir -> SUBSET Made]
    BY <1>1, <1>2 DEF Store
<1>4. \A d \in Dir : Has(d) \subseteq Has(d)'
    BY <1>1, <1>2 DEF Store, Has
<1>5. \A d \in Dir : d # writable => Has(d)' = Has(d)
    BY <1>1, <1>2 DEF Store, Has
<1>6. batch'[archive] = batch[archive]
    BY <1>1, <1>2 DEF Store
<1> QED
    BY <1>2, <1>3, <1>4, <1>5, <1>6 DEF Growth

\* And so is a step that changes nothing in them.
LEMMA NothingGrows ==
    ASSUME IInv, KInv, process = "up",
           UNCHANGED <<stored, batch, saved, closed, lost, process, writable, archive>>
    PROVE  Growth
BY DEF KInv, Kept, Growth, Has

\* And the writing of a batch.
LEMMA WriteBatchGrows == ASSUME IInv, KInv, NEW d \in Dir, WriteBatch(d) PROVE Growth
<1>1. writable \in Dir /\ archive \in Dir
    BY OpenDirs DEF WriteBatch
<1>2. stored \in [Dir -> SUBSET Made] /\ batch \in [Dir -> SUBSET Made]
    BY DEF KInv, Kept
<1>3. stored' \in [Dir -> SUBSET Made] /\ batch' \in [Dir -> SUBSET Made]
    BY <1>2 DEF WriteBatch
<1>4. \A e \in Dir : Has(e)' = Has(e)
    BY <1>2 DEF WriteBatch, Has
<1>5. batch[archive] = {} => batch'[archive] = {}
    BY <1>1, <1>2 DEF WriteBatch
<1> QED
    BY <1>3, <1>4, <1>5 DEF Growth, WriteBatch, chain

-----------------------------------------------------------------------------
\* A step beside the thread keeps what the thread knows.
LEMMA BesideInv ==
    ASSUME IInv, KInv, Growth,
           UNCHANGED <<lastrotated, validated, tocopy, healthy>>,
           thread' = thread \/ (thread = "wait" /\ thread' = "woken"),
           stop => stop'
    PROVE  Thread' /\ Copied'
<1>1. Thread'
    BY DEF Growth, KInv, Thread, Rotating, None
<1>2. State(validated)' = State(validated)
    BY DEF State
<1>3. writable \in Dir /\ Has(writable) \subseteq Has(writable)' /\ lost' = lost
    BY OpenDirs DEF Growth
<1>4. thread' = "copy" => (/\ tocopy \subseteq State(validated)
                          /\ State(validated) \ tocopy \subseteq Has(writable) \cup lost)'
    BY <1>2, <1>3 DEF KInv, Copied
<1>5. thread' = "copied" /\ ~stop' /\ healthy' => (State(validated) \subseteq Has(writable) \cup lost)'
    BY <1>2, <1>3 DEF KInv, Copied
<1>6. thread' \in {"freshen", "make", "swap"} => (State(validated) \subseteq Has(writable) \cup lost)'
    BY <1>2, <1>3 DEF KInv, Copied
<1> QED
    BY <1>1, <1>4, <1>5, <1>6, SMTT(30) DEF Copied

\* The reader, the batch writers and the operator.
LEMMA ReadersKeep ==
    ASSUME IInv, KInv,
           \/ SetCanDelete \/ OnStop \/ \E d \in Dir : WriteBatch(d)
           \/ FetchFirst \/ FetchSecond \/ FetchDone
    PROVE  KInv'
<1>1. process = "up"
    <2>1. CASE FetchSecond \/ FetchDone
        BY <2>1 DEF FetchSecond, FetchDone, KInv, Reading
    <2> QED
        BY <2>1 DEF SetCanDelete, OnStop, WriteBatch, FetchFirst
<1>2. Growth
    <2>1. CASE SetCanDelete
        BY <1>1, <2>1, NothingGrows DEF SetCanDelete, db, chain
    <2>2. CASE OnStop
        BY <1>1, <2>2, NothingGrows DEF OnStop, disk, db, chain
    <2>3. CASE \E d \in Dir : WriteBatch(d)
        BY <2>3, WriteBatchGrows
    <2>4. CASE FetchFirst \/ FetchSecond
        BY <1>1, <2>4, NothingGrows DEF FetchFirst, FetchSecond, UnchangedByReader, disk, chain
    <2>5. CASE FetchDone
        <3>1. UNCHANGED <<stored, saved, closed, lost, process, writable, archive>>
            BY <2>5 DEF FetchDone, UnchangedByReader, disk, chain
        <3>2. CASE reader.at = "found"
            <4>1. {reader.node} \in SUBSET Made
                BY <3>2 DEF KInv, Reading
            <4>2. Store(writable, {reader.node})
                BY <2>5, <3>2 DEF FetchDone
            <4> QED
                BY <1>1, <3>1, <4>1, <4>2, StoreGrows
        <3>3. CASE reader.at # "found"
            BY <1>1, <2>5, <3>1, <3>3, NothingGrows DEF FetchDone
        <3> QED
            BY <3>2, <3>3
    <2> QED
        BY <2>1, <2>2, <2>3, <2>4, <2>5
<1>3. Kept'
    BY <1>2, GrowthKeeps
<1>4. /\ UNCHANGED <<rows, valid, newledger, lastrotated, validated, tocopy, healthy>>
      /\ thread' = thread \/ (thread = "wait" /\ thread' = "woken")
    BY DEF SetCanDelete, OnStop, Notify, WriteBatch, FetchFirst, FetchSecond, FetchDone,
           UnchangedByReader, disk, run, chain
<1>5. stop => stop'
    BY Zenon DEF SetCanDelete, OnStop, WriteBatch, FetchFirst, FetchSecond, FetchDone, UnchangedByReader
<1>6. Thread' /\ Copied'
    BY <1>2, <1>4, <1>5, BesideInv, SMTT(30)
<1>7. RowsKept' /\ Recent'
    BY <1>2, <1>4, SMTT(30) DEF Growth, KInv, RowsKept, Recent, Pending
<1>8. Made' = Made
    BY <1>2 DEF Growth, Made, State
<1>9. Reading'
    <2>1. CASE FetchFirst
        <3>1. PICK x \in stored[writable] \cup stored[archive] : reader' = [at |-> "second", node |-> x]
            BY <2>1, SMTT(30) DEF FetchFirst
        <3>2. x \in Made
            BY <1>1, <3>1, OpenDirs DEF KInv, Kept
        <3> QED
            BY <1>1, <1>2, <1>8, <3>1, <3>2, SMTT(30) DEF Reading, Growth
    <2>2. CASE FetchSecond
        <3>1. reader.at = "second"
            BY <2>2 DEF FetchSecond
        <3>3. reader'.node = reader.node /\ reader'.at \in {"found", "missed"}
            BY <2>2 DEF FetchSecond, KInv, Reading
        <3> QED
            BY <1>1, <1>2, <1>8, <2>2, <3>1, <3>3 DEF FetchSecond, KInv, Reading, Growth
    <2>3. CASE FetchDone
        BY <2>3, SMTT(30) DEF FetchDone, Idle, Reading
    <2>4. CASE SetCanDelete \/ OnStop \/ \E d \in Dir : WriteBatch(d)
        <3>1. reader' = reader
            BY <2>4 DEF SetCanDelete, OnStop, WriteBatch
        <3> QED
            BY <1>2, <1>8, <3>1, SMTT(30) DEF KInv, Reading, Growth
    <2> QED
        BY <2>1, <2>2, <2>3, <2>4, SMTT(30)
<1> QED
    BY <1>3, <1>6, <1>7, <1>9, SMTT(30) DEF KInv

\* Ledgers are validated.
LEMMA OnLedgerClosedKeeps == ASSUME IInv, KInv, OnLedgerClosed PROVE KInv'
<1>1. process = "up" /\ valid < closed
    BY DEF OnLedgerClosed
<1>2. Growth
    BY <1>1, NothingGrows DEF OnLedgerClosed, db
<1>3. Kept'
    BY <1>2, GrowthKeeps
<1>4. /\ UNCHANGED <<lastrotated, validated, tocopy, healthy, stop, saved, closed, reader>>
      /\ thread' = thread \/ (thread = "wait" /\ thread' = "woken")
    BY DEF OnLedgerClosed, Notify
<1>5. Thread' /\ Copied'
    BY <1>2, <1>4, BesideInv
<1>6. RowsKept'
    <2>1. valid' = closed /\ rows' = rows \cup (valid + 1)..closed
        BY DEF OnLedgerClosed
    <2>2. valid \in 0..closed /\ closed \in Nat
        BY SHAMapStoreAssumption DEF KInv, RowsKept, IInv
    <2>3. ASSUME NEW n \in 1..closed, n >= saved.lastrotated PROVE n \in rows'
        <3>1. n \in 1..valid \/ n \in (valid + 1)..closed
            BY <2>2
        <3> QED
            BY <2>1, <2>3, <3>1 DEF KInv, RowsKept
    <2> QED
        BY <1>4, <2>1, <2>2, <2>3 DEF RowsKept
<1>7. Recent'
    <2>1. newledger' = closed /\ closed' = closed /\ validated' = validated
        BY <1>4 DEF OnLedgerClosed
    <2>2. closed \in 1..closed /\ closed < closed + DeleteInterval
        BY <1>1, SHAMapStoreAssumption, SMTT(30) DEF KInv, RowsKept, IInv
    <2> QED
        BY <2>1, <2>2 DEF KInv, Recent, Pending
<1>8. Reading'
    BY <1>2, <1>4 DEF KInv, Reading, Made, State, Growth
<1> QED
    BY <1>3, <1>5, <1>6, <1>7, <1>8 DEF KInv

\* A ledger is closed.
LEMMA CloseLedgerKeeps == ASSUME IInv, KInv, CloseLedger, ThreadKeepsUp PROVE KInv'
<1> DEFINE new == State(closed + 1)
           nodes == {x \in new : x[2] = closed + 1 \/ x \in lost}
<1>1. /\ process = "up" /\ closed < MaxLedger /\ closed' = closed + 1
      /\ \A n \in Pending : closed + 1 < n + DeleteInterval
      /\ Store(writable, nodes) /\ lost' = lost \ new
      /\ UNCHANGED <<saved, rows, stored, process, writable, archive, newledger, stop, thread,
                     healthy, lastrotated, validated, tocopy, reader, valid>>
    BY SMTT(30) DEF CloseLedger, ThreadKeepsUp, disk, run
<1>2. /\ writable \in Dir /\ archive \in Dir /\ writable # archive
      /\ saved.writable \in Dir /\ saved.archive \in Dir /\ saved.writable # None
    BY <1>1, OpenDirs
<1>3. closed \in 0..MaxLedger /\ closed \in Nat /\ saved.lastrotated \in 0..MaxLedger
    BY SHAMapStoreAssumption DEF IInv
<1>4. Made' = Made \cup new
    <2>1. 1..closed' = 1..closed \cup {closed + 1}
        BY <1>1, <1>3
    <2>2. Made' = UNION {State(n) : n \in 1..closed'}
        BY DEF Made, State
    <2> QED
        BY <2>1, <2>2 DEF Made
<1> HIDE DEF new
<1>5. ASSUME NEW x \in new, x[2] # closed + 1 PROVE closed \in 1..closed /\ x \in State(closed)
    BY <1>1, <1>3, <1>5, NewNodes, SMTT(30) DEF new
<1>6. stored \in [Dir -> SUBSET Made] /\ batch \in [Dir -> SUBSET Made]
    BY SMTT(30) DEF KInv, Kept
<1>7. /\ stored' \in [Dir -> SUBSET Made'] /\ batch' \in [Dir -> SUBSET Made']
      /\ batch' = [batch EXCEPT ![writable] = @ \cup nodes]
    BY <1>1, <1>2, <1>4, <1>6, SMTT(30) DEF Store
<1>8. /\ \A d \in Dir : d # writable => stored'[d] \cup batch'[d] = Has(d)
      /\ stored'[writable] \cup batch'[writable] = Has(writable) \cup nodes
      /\ batch'[archive] = batch[archive]
    BY <1>1, <1>2, <1>6, <1>7 DEF Has
<1> HIDE DEF nodes
<1>9. \A x \in new : x \in lost \/ x[2] = closed + 1 => x \in nodes
    BY DEF nodes
<1>10. nodes \subseteq new
    BY SMTT(30) DEF nodes
<1>11. Has(writable)' = Has(writable) \cup nodes /\ \A d \in Dir : d # writable => Has(d)' = Has(d)
    BY <1>1, <1>8 DEF Has
<1>12. \A x : x \in lost => x \in lost' \cup nodes
    BY <1>1, <1>9, SMTT(30)
<1>13. writable \in {saved.writable, saved.archive}
    BY <1>1, SMTT(30) DEF IInv, Running, Agree
<1>14. /\ Has(saved.writable) \subseteq Has(saved.writable)'
       /\ Has(saved.archive) \subseteq Has(saved.archive)'
       /\ nodes \subseteq Has(saved.writable)' \cup Has(saved.archive)'
       /\ saved' = saved
    BY <1>1, <1>2, <1>11, <1>13
<1>15. saved.archive = writable => closed + 1 < saved.lastrotated + DeleteInterval
    <2> SUFFICES ASSUME saved.archive = writable
                 PROVE  closed + 1 < saved.lastrotated + DeleteInterval
        BY SMTT(30)
    <2>1. thread = "rotate"
        BY <1>1, <1>2 DEF IInv, Running, Agree
    <2>2. saved.lastrotated \in Pending
        BY <2>1, SMTT(30) DEF KInv, Thread, Pending
    <2> QED
        BY <1>1, <2>2
<1>16. Kept'
    <2>1. saved'.lastrotated <= closed'
        BY <1>1, <1>3, SMTT(30) DEF KInv, Kept
    <2>2. Wanted' \subseteq Has(saved.writable)' \cup Has(saved.archive)' \cup lost'
        <3> SUFFICES ASSUME NEW n \in 1..(closed + 1), n >= saved.lastrotated, NEW x \in State(n)
                     PROVE  x \in Has(saved.writable)' \cup Has(saved.archive)' \cup lost'
            <4>1. Wanted' = UNION {State(n) : n \in {k \in 1..(closed + 1) : k >= saved.lastrotated}}
                BY <1>1, SMTT(30) DEF Wanted, State
            <4> QED
                BY <4>1, SMTT(30)
        <3>1. CASE n \in 1..closed
            <4>1. x \in Wanted
                BY <3>1, SMTT(30) DEF Wanted
            <4> QED
                BY <1>2, <1>12, <1>14, <4>1 DEF KInv, Kept
        <3>2. CASE n = closed + 1
            <4>1. x \in new
                BY <3>2, SMTT(30) DEF new
            <4>2. CASE x[2] = closed + 1 \/ x \in lost
                BY <1>9, <1>14, <4>1, <4>2, SMTT(30)
            <4>3. CASE x[2] # closed + 1 /\ x \notin lost
                <5>1. x \in Wanted
                    BY <1>5, <4>1, <4>3 DEF Wanted, KInv, Kept
                <5> QED
                    BY <1>2, <1>14, <4>3, <5>1, SMTT(30) DEF KInv, Kept
            <4> QED
                BY <4>2, <4>3
        <3> QED
            BY <1>3, <3>1, <3>2
    <2>3. ASSUME NEW x \in Made', x[2] >= saved.lastrotated + DeleteInterval
          PROVE  x \in Has(saved.writable)' \cup lost'
        <3>1. x \in Made \/ (x \in new /\ x[2] = closed + 1)
            BY <1>4, <1>5, <2>3 DEF Made
        <3>2. x[2] \in 1..(closed + 1)
            BY <1>3, <3>1, NodeNumber
        <3>3. writable = saved.writable
            BY <1>3, <1>13, <1>15, <2>3, <3>2, SHAMapStoreAssumption, SMTT(30)
        <3>4. nodes \subseteq Has(saved.writable)'
            BY <1>1, <1>11, <3>3, SMTT(30) DEF Has
        <3>5. CASE x \in Made
            BY <1>2, <1>12, <1>14, <2>3, <3>4, <3>5 DEF KInv, Kept
        <3>6. CASE x \in new /\ x[2] = closed + 1
            BY <1>9, <3>4, <3>6
        <3> QED
            BY <3>1, <3>5, <3>6
    <2>4. ASSUME NEW x \in Has(saved.archive)' PROVE x[2] < saved.lastrotated + DeleteInterval
        <3>1. CASE saved.archive # writable
            BY <1>2, <1>11, <1>14, <2>4, <3>1 DEF KInv, Kept
        <3>2. CASE saved.archive = writable
            <4>1. x \in Made \/ x \in new
                BY <1>1, <1>2, <1>6, <1>10, <1>11, <2>4, <3>2, Zenon DEF Has
            <4>2. x \in Made \/ x[2] = closed + 1
                BY <1>5, <4>1 DEF Made
            <4>3. x[2] \in 1..(closed + 1)
                BY <1>3, <4>2, NodeNumber
            <4> QED
                BY <1>3, <1>15, <3>2, <4>3, SHAMapStoreAssumption
        <3> QED
            BY <3>1, <3>2, SMTT(30)
    <2> QED
        BY <1>2, <1>7, <1>14, <2>1, <2>2, <2>3, <2>4, SMTT(30) DEF Kept
<1>17. RowsKept'
    BY <1>1, <1>3, SMTT(30) DEF KInv, RowsKept
<1>18. Recent'
    BY <1>1, <1>3, SMTT(30) DEF KInv, Recent, Pending
<1>19. Thread'
    BY <1>1, <1>8, SMTT(30) DEF KInv, Thread
<1>20. Copied'
    <2>1. Has(writable) \cup lost \subseteq Has(writable)' \cup lost'
        BY <1>11, <1>12
    <2>2. State(validated)' = State(validated)
        BY <1>1, SMTT(30) DEF State
    <2>3. thread = "copied" /\ ~stop' /\ healthy' => State(validated) \subseteq Has(writable) \cup lost
        BY <1>1 DEF KInv, Copied
    <2> QED
        BY <1>1, <2>1, <2>2, <2>3 DEF KInv, Copied
<1>21. Reading'
    BY <1>1, <1>4 DEF KInv, Reading
<1> QED
    BY <1>16, <1>17, <1>18, <1>19, <1>20, <1>21, SMTT(30) DEF KInv

-----------------------------------------------------------------------------
\* Nothing is kept in a database that has no name, before the first ledger.
LEMMA NothingMade == ASSUME closed = 0 PROVE Made = {} /\ Wanted = {}
BY DEF Made, Wanted

\* The start of the server.
LEMMA StartKeeps ==
    ASSUME IInv, KInv, DbPaths \/ MakeDatabase \/ MakeDatabaseSave PROVE KInv'
<1>1. /\ UNCHANGED <<rows, valid, closed, lost, batch, newledger, validated, reader>>
      /\ saved'.lastrotated = saved.lastrotated
      /\ thread' \in {"none", "load"} /\ process # "up" /\ (process' = "up" => thread' = "load")
    BY Zenon DEF IInv, DbPaths, MakeDatabase, MakeDatabaseSave, db, run, chain
<1>2. Made' = Made /\ Wanted' = Wanted
    BY <1>1 DEF Made, Wanted, State
<1>3. Kept'
    <2>1. CASE DbPaths
        <3>1. saved' = saved /\ stored' = [d \in Dir |-> IF d \in Named THEN stored[d] ELSE {}]
            BY <2>1, Zenon DEF DbPaths
        <3>2. stored' \in [Dir -> SUBSET Made]
            BY <3>1, Zenon DEF KInv, Kept
        <3>3. saved.writable # None => /\ stored'[saved.writable] = stored[saved.writable]
                                       /\ stored'[saved.archive] = stored[saved.archive]
            BY <3>1 DEF Named, IInv
        <3> QED
            BY <1>1, <1>2, <3>1, <3>2, <3>3, ZenonT(30) DEF KInv, Kept, Has
    <2>2. CASE MakeDatabase
        BY <1>1, <1>2, <2>2, Zenon DEF MakeDatabase, KInv, Kept, Has
    <2>3. CASE MakeDatabaseSave
        <3>1. saved.writable = None /\ stored' = stored
            BY <2>3 DEF MakeDatabaseSave, IInv
        <3>2. closed = 0
            BY <3>1, Zenon DEF KInv, Kept
        <3>3. Made = {} /\ Wanted = {}
            BY <3>2, NothingMade
        <3>4. archive \in Dir /\ saved'.archive = archive /\ saved'.writable = writable
            BY <2>3, SMTT(30) DEF MakeDatabaseSave, IInv
        <3>5. stored[archive] = {} /\ batch[archive] = {}
            BY <3>3, <3>4 DEF KInv, Kept
        <3> QED
            BY <1>1, <1>2, <3>1, <3>2, <3>3, <3>4, <3>5, Zenon DEF KInv, Kept, Has
    <2> QED
        BY <2>1, <2>2, <2>3
<1>4. RowsKept' /\ Recent'
    BY <1>1, SMTT(30) DEF KInv, RowsKept, Recent, Pending
<1>5. Thread' /\ Copied'
    BY <1>1, SMTT(30) DEF Thread, Copied, Rotating
<1>6. Reading'
    BY <1>1, <1>2 DEF KInv, Reading
<1> QED
    BY <1>3, <1>4, <1>5, <1>6 DEF KInv

\* The end of the server.
LEMMA EndKeeps == ASSUME IInv, KInv, Crash \/ Exit PROVE KInv'
<1>1. /\ UNCHANGED <<saved, rows, valid, closed>>
      /\ thread' = "none" /\ process' = "down" /\ reader' = Idle
      /\ newledger' = None /\ validated' = None
      /\ batch' = [d \in Dir |-> {}]
    BY DEF Crash, Exit, Forget, disk, chain
<1>2. Made' = Made /\ Wanted' = Wanted
    BY <1>1, SMTT(30) DEF Made, Wanted, State
<1>3. stored \in [Dir -> SUBSET Made] /\ batch \in [Dir -> SUBSET Made]
    BY DEF KInv, Kept
<1>4. batch' \in [Dir -> SUBSET Made]
    BY <1>1, SMTT(30)
<1>5. ASSUME saved.writable # None
      PROVE  saved.writable \in Dir \cap dirs \cap Named /\ saved.archive \in Dir \cap dirs \cap Named
    BY <1>5 DEF IInv, Named
<1>6. Kept'
    <2>1. CASE Exit
        <3>1. stored' = [d \in Dir |-> stored[d] \cup batch[d]] /\ lost' = lost
            BY <2>1, Zenon DEF Exit, chain
        <3>2. stored' \in [Dir -> SUBSET Made]
            BY <1>3, <3>1, SMTT(30)
        <3>3. \A d \in Dir : stored'[d] \cup batch'[d] = Has(d)
            BY <1>1, <3>1, SMTT(30) DEF Has
        <3>4. saved.writable # None => /\ Has(saved.writable)' = Has(saved.writable)
                                       /\ Has(saved.archive)' = Has(saved.archive)
            BY <1>1, <1>5, <3>3 DEF Has
        <3> QED
            BY <1>1, <1>2, <1>4, <3>1, <3>2, <3>4, Zenon DEF KInv, Kept
    <2>2. CASE Crash
        <3> DEFINE written == UNION {stored[d] : d \in Named}
                   waiting == UNION {batch[d] : d \in dirs}
        <3>1. stored' = stored /\ lost' = (lost \cup waiting) \ written
            BY <2>2, Zenon DEF Crash, disk
        <3>2. ASSUME saved.writable # None
              PROVE  /\ written = stored[saved.writable] \cup stored[saved.archive]
                     /\ batch[saved.writable] \cup batch[saved.archive] \subseteq waiting
                     /\ Has(saved.writable)' = stored[saved.writable]
                     /\ Has(saved.archive)' = stored[saved.archive]
            <4>1. Named = {saved.writable, saved.archive}
                BY <3>2, SMTT(30) DEF Named, IInv
            <4>2. batch'[saved.writable] = {} /\ batch'[saved.archive] = {}
                BY <1>1, <1>5, <3>2
            <4>3. written = stored[saved.writable] \cup stored[saved.archive]
                BY <4>1
            <4>4. batch[saved.writable] \cup batch[saved.archive] \subseteq waiting
                BY <1>5, <3>2, SMTT(30)
            <4> QED
                BY <1>1, <3>1, <4>2, <4>3, <4>4, ZenonT(30) DEF Has
        <3> HIDE DEF written, waiting
        <3>3. ASSUME saved.writable # None, NEW x \in Wanted
              PROVE  x \in stored[saved.writable] \cup stored[saved.archive] \cup lost'
            <4>1. x \in Has(saved.writable) \cup Has(saved.archive) \cup lost
                BY <3>3, SMTT(30) DEF KInv, Kept
            <4> QED
                BY <3>1, <3>2, <3>3, <4>1, SMTT(30) DEF Has
        <3>4. ASSUME saved.writable # None, NEW x \in Made,
                     x[2] >= saved.lastrotated + DeleteInterval
              PROVE  x \in stored[saved.writable] \cup lost'
            <4>1. x \in Has(saved.writable) \cup lost
                BY <3>4 DEF KInv, Kept
            <4>2. x \notin stored[saved.archive]
                <5>1. SUFFICES ASSUME x \in stored[saved.archive] PROVE FALSE
                    BY SMTT(30)
                <5>2. x[2] < saved.lastrotated + DeleteInterval
                    BY <3>4, <5>1, SMTT(30) DEF KInv, Kept, Has
                <5>3. x[2] \in 1..closed /\ saved.lastrotated \in 0..MaxLedger
                    BY NodeNumber, SMTT(30) DEF IInv
                <5> QED
                    BY <3>4, <5>2, <5>3, SHAMapStoreAssumption
            <4> QED
                BY <3>1, <3>2, <3>4, <4>1, <4>2, SMTT(30) DEF Has
        <3>5. ASSUME saved.writable # None, NEW x \in stored[saved.archive]
              PROVE  x[2] < saved.lastrotated + DeleteInterval
            BY <3>5 DEF KInv, Kept, Has
        <3> QED
            BY <1>1, <1>2, <1>3, <1>4, <3>1, <3>2, <3>3, <3>4, <3>5, Zenon DEF KInv, Kept
    <2> QED
        BY <2>1, <2>2
<1>7. RowsKept' /\ Recent'
    BY <1>1, SMTT(30) DEF KInv, RowsKept, Recent, Pending
<1>8. Thread' /\ Copied'
    BY <1>1 DEF Thread, Copied, Rotating
<1>9. Reading'
    BY <1>1 DEF Reading, Idle
<1> QED
    BY <1>6, <1>7, <1>8, <1>9, SMTT(30) DEF KInv

-----------------------------------------------------------------------------
\* A step of the thread leaves the reader and the ledgers alone.
LEMMA OthersKeep ==
    ASSUME KInv, UNCHANGED <<saved, rows, valid, closed, newledger, validated, reader, process>>
    PROVE  RowsKept' /\ Recent' /\ Reading'
<1>1. Made' = Made
    BY DEF Made, State
<1> QED
    BY <1>1 DEF KInv, RowsKept, Recent, Pending, Reading

\* The head of the loop.
LEMMA LoopKeeps ==
    ASSUME IInv, KInv, RunBegin \/ RunTop \/ RunSpuriousWake \/ RunTake PROVE KInv'
<1>1. process = "up"
    <2>1. CASE RunBegin
        BY <2>1, SMTT(30) DEF RunBegin
    <2>2. CASE RunTop \/ RunSpuriousWake \/ RunTake
        BY <2>2, UpWhileRunning, SMTT(30) DEF RunTop, RunSpuriousWake, RunTake
    <2> QED
        BY <2>1, <2>2
<1>2. UNCHANGED <<stored, batch, saved, closed, lost, process, writable, archive, rows, valid, reader>>
    BY DEF RunBegin, RunTop, RunSpuriousWake, RunTake, UnchangedByRun, disk, db, chain
<1>3. Kept'
    BY <1>1, <1>2, NothingGrows, GrowthKeeps, SMTT(30)
<1>4. thread' \in {"top", "stopped", "wait", "woken", "decide"}
    BY SMTT(30) DEF RunBegin, RunTop, RunSpuriousWake, RunTake
<1>5. lastrotated' = saved.lastrotated
    BY <1>1, SMTT(30) DEF RunBegin, RunTop, RunSpuriousWake, RunTake, KInv, Thread
<1>6. thread' = "decide" => validated' # None
    BY SMTT(30) DEF RunBegin, RunTop, RunSpuriousWake, RunTake
<1>7. Thread' /\ Copied'
    BY <1>2, <1>4, <1>5, <1>6, SMTT(30) DEF Thread, Copied, Rotating
<1>8. Pending' \subseteq Pending
    BY DEF RunBegin, RunTop, RunSpuriousWake, RunTake, UnchangedByRun, Pending
<1>9. Recent'
    BY <1>2, <1>8 DEF KInv, Recent
<1>10. RowsKept' /\ Reading'
    BY <1>2, Zenon DEF KInv, RowsKept, Reading, Made, State
<1> QED
    BY <1>3, <1>7, <1>9, <1>10 DEF KInv

\* Is it time to rotate?
LEMMA RunDecideKeeps == ASSUME IInv, KInv, RunDecide, WriterKeepsUp PROVE KInv'
<1>1. thread = "decide" /\ process = "up"
    BY UpWhileRunning DEF RunDecide
<1>2. /\ UNCHANGED <<stored, batch, closed, lost, process, writable, archive, rows, valid, reader,
                     newledger, validated>>
      /\ thread' \in {"clear", "top"}
    BY HealthMoves DEF RunDecide, HealthSwitch, UnchangedByRun, db, chain
<1>3. lastrotated = saved.lastrotated /\ validated # None
    BY <1>1 DEF KInv, Thread
<1>4. validated \in 1..closed
    BY <1>3, SMTT(30) DEF KInv, Recent, Pending
<1>5. closed \in 0..MaxLedger /\ saved.lastrotated \in 0..MaxLedger
    BY DEF IInv
<1>6. CASE lastrotated = 0
    <2>1. /\ thread' = "top" /\ lastrotated' = validated
          /\ saved' = [saved EXCEPT !.lastrotated = validated]
        BY <1>6 DEF RunDecide
    <2>2. /\ saved'.writable = saved.writable /\ saved'.archive = saved.archive
          /\ saved'.lastrotated = validated
        BY <2>1 DEF IInv
    <2>3. saved.lastrotated = 0 /\ saved.writable # None
        BY <1>1, <1>3, <1>6, OpenDirs, SMTT(30)
    <2>4. Made' = Made /\ Wanted' \subseteq Wanted
        BY <1>2, <1>4, <1>5, <2>2, <2>3, SMTT(30) DEF Made, Wanted, State
    <2>5. Has(saved.writable)' = Has(saved.writable) /\ Has(saved.archive)' = Has(saved.archive)
        BY <1>2, <2>2 DEF Has
    <2>6. ASSUME NEW x \in Made PROVE x[2] \in Nat
        BY <1>5, NodeNumber, SMTT(30)
    <2>7. ASSUME NEW x \in Made, x[2] >= validated + DeleteInterval
          PROVE  x \in Has(saved.writable) \cup lost
        BY <1>4, <2>3, <2>6, <2>7, SHAMapStoreAssumption DEF KInv, Kept
    <2>8. ASSUME NEW x \in Has(saved.archive) PROVE x[2] < validated + DeleteInterval
        <3>1. x \in Made
            BY <1>1, OpenDirs DEF KInv, Kept, Has
        <3>2. x[2] < saved.lastrotated + DeleteInterval
            BY <2>3, ZenonT(30) DEF KInv, Kept
        <3> QED
            BY <1>4, <2>3, <2>6, <3>1, <3>2, SHAMapStoreAssumption, SMTT(30)
    <2>9. Kept'
        <3>1. /\ stored \in [Dir -> SUBSET Made] /\ batch \in [Dir -> SUBSET Made]
              /\ Wanted \subseteq Has(saved.writable) \cup Has(saved.archive) \cup lost
            BY <2>3, SMTT(30) DEF KInv, Kept
        <3>2. Wanted' \subseteq Has(saved.writable) \cup Has(saved.archive) \cup lost
            BY <2>4, <3>1, SMTT(30)
        <3>3. (stored \in [Dir -> SUBSET Made] /\ batch \in [Dir -> SUBSET Made])'
            BY <1>2, <2>4, <3>1, SMTT(30)
        <3>4. (Wanted \subseteq Has(saved.writable) \cup Has(saved.archive) \cup lost)'
            BY <1>2, <2>5, <3>2, SMTT(30)
        <3>5. (\A x \in Made : x[2] >= saved.lastrotated + DeleteInterval
                                 => x \in Has(saved.writable) \cup lost)'
            BY <1>2, <2>2, <2>4, <2>5, <2>7, SMTT(30)
        <3>6. (\A x \in Has(saved.archive) : x[2] < saved.lastrotated + DeleteInterval)'
            BY <2>2, <2>5, <2>8
        <3>7. (saved.writable # None /\ saved.lastrotated <= closed)'
            BY <1>2, <1>4, <1>5, <2>2, <2>3
        <3> QED
            BY <3>3, <3>4, <3>5, <3>6, <3>7, SMTT(30) DEF Kept
    <2>10. RowsKept'
        BY <1>2, <1>4, <2>2, <2>3, SMTT(30) DEF KInv, RowsKept
    <2>11. Recent' /\ Reading'
        BY <1>2, <2>4 DEF KInv, Recent, Pending, Reading
    <2>12. Thread' /\ Copied'
        BY <1>2, <2>1, <2>2, SMTT(30) DEF Thread, Copied, Rotating
    <2> QED
        BY <2>9, <2>10, <2>11, <2>12 DEF KInv
<1>7. CASE lastrotated # 0
    <2>1. UNCHANGED <<lastrotated, saved>>
        BY <1>7 DEF RunDecide
    <2>2. Kept'
        BY <1>1, <1>2, <2>1, NothingGrows, GrowthKeeps
    <2>3. thread' = "clear" => validated >= lastrotated + DeleteInterval /\ batch[archive] = {}
        BY <1>7, SMTT(30) DEF RunDecide, WriterKeepsUp
    <2>4. Thread' /\ Copied'
        BY <1>2, <1>3, <2>1, <2>3 DEF Thread, Copied, Rotating
    <2> QED
        BY <1>2, <2>1, <2>2, <2>4, OthersKeep DEF KInv
<1> QED
    BY <1>6, <1>7

-----------------------------------------------------------------------------
\* A step of the thread within a rotation that may still be given up: the
\* databases grow at most.
LEMMA RotatingInv ==
    ASSUME IInv, KInv, Growth, thread \in Rotating,
           UNCHANGED <<rows, valid, newledger, validated, reader, lastrotated>>,
           thread' \in Rotating \cup {"top"}
    PROVE  /\ Kept' /\ RowsKept' /\ Recent' /\ Reading' /\ Thread'
           /\ Has(writable) \cup lost \subseteq (Has(writable) \cup lost)'
           /\ State(validated)' = State(validated)
<1>1. Kept'
    BY GrowthKeeps
<1>2. RowsKept' /\ Recent' /\ Reading'
    BY OthersKeep, Zenon DEF Growth
<1>3. Thread'
    BY Zenon DEF Growth, KInv, Thread, Rotating
<1>4. Has(writable) \subseteq Has(writable)' /\ lost' = lost
    BY OpenDirs, Zenon DEF Growth
<1>5. State(validated)' = State(validated)
    BY DEF State
<1> QED
    BY <1>1, <1>2, <1>3, <1>4, <1>5

\* The rows of old ledgers are deleted.
LEMMA RunClearPriorKeeps == ASSUME IInv, KInv, RunClearPrior PROVE KInv'
<1> DEFINE old == {n \in rows : n < lastrotated}
<1>1. thread = "clear" /\ process = "up"
    BY UpWhileRunning, SMTT(30) DEF RunClearPrior
<1>2. /\ UNCHANGED <<stored, batch, saved, closed, lost, process, writable, archive, valid, reader,
                     newledger, validated, lastrotated>>
      /\ thread' \in {"clear", "cleared"}
    BY HealthMoves DEF RunClearPrior, UnchangedByRun, db, chain
<1>3. rows \ old \subseteq rows'
    BY SMTT(30) DEF RunClearPrior, ClearSqlBatch
<1>4. lastrotated = saved.lastrotated /\ saved.lastrotated \in 0..MaxLedger
    BY <1>1 DEF KInv, Thread, IInv
<1>5. RowsKept'
    <2> SUFFICES ASSUME NEW n \in 1..valid, n >= saved.lastrotated PROVE n \in rows'
        BY <1>2, SMTT(30) DEF KInv, RowsKept
    <2>1. n \in rows /\ valid \in 0..closed /\ closed \in 0..MaxLedger
        BY DEF KInv, RowsKept, IInv
    <2>2. n \notin old
        BY <1>4, <2>1, SHAMapStoreAssumption
    <2> QED
        BY <1>3, <2>1, <2>2
<1>6. Kept'
    BY <1>1, <1>2, NothingGrows, GrowthKeeps, SMTT(30)
<1>7. Recent' /\ Reading'
    BY <1>2 DEF KInv, Recent, Pending, Reading, Made, State
<1>8. Thread' /\ Copied'
    BY <1>1, <1>2, Zenon DEF KInv, Thread, Copied, Rotating
<1> QED
    BY <1>5, <1>6, <1>7, <1>8 DEF KInv

\* The copy begins, and ends.
LEMMA RunClearedKeeps == ASSUME IInv, KInv, RunCleared PROVE KInv'
<1>1. thread = "cleared" /\ process = "up"
    BY UpWhileRunning DEF RunCleared
<1>2. /\ UNCHANGED <<stored, batch, saved, closed, lost, process, writable, archive, rows, valid,
                     newledger, validated, reader, lastrotated>>
      /\ thread' \in {"copy", "top"} /\ tocopy' = State(validated)
    BY HealthMoves DEF RunCleared, HealthSwitch, UnchangedByRun, disk, db, chain
<1>3. Growth
    BY <1>1, <1>2, NothingGrows
<1>4. Kept' /\ RowsKept' /\ Recent' /\ Reading' /\ Thread' /\ State(validated)' = State(validated)
    BY <1>1, <1>2, <1>3, RotatingInv, SMTT(30) DEF Rotating
<1>5. Copied'
    BY <1>2, <1>4 DEF Copied
<1> QED
    BY <1>4, <1>5 DEF KInv

\* The copy is complete, or is given up.
LEMMA RunCopiedKeeps == ASSUME IInv, KInv, RunCopied PROVE KInv'
<1>1. thread = "copied" /\ process = "up"
    BY UpWhileRunning DEF RunCopied
<1>2. /\ UNCHANGED <<stored, batch, saved, closed, lost, process, writable, archive, rows, valid,
                     newledger, validated, reader, lastrotated>>
      /\ thread' \in {"freshen", "top"}
    BY HealthMoves DEF RunCopied, HealthSwitch, UnchangedByRun, disk, db, chain
<1>3. Growth
    BY <1>1, <1>2, NothingGrows
<1>4. /\ Kept' /\ RowsKept' /\ Recent' /\ Reading' /\ Thread' /\ State(validated)' = State(validated)
      /\ Has(writable) \cup lost \subseteq (Has(writable) \cup lost)'
    BY <1>1, <1>2, <1>3, RotatingInv DEF Rotating
<1>5. thread' = "freshen" => ~stop /\ healthy
    BY Zenon DEF RunCopied, HealthSwitch, Health
<1>6. thread' = "freshen" => State(validated) \subseteq Has(writable) \cup lost
    BY <1>1, <1>5 DEF KInv, Copied
<1>7. Copied'
    BY <1>2, <1>4, <1>6 DEF Copied
<1> QED
    BY <1>4, <1>7 DEF KInv

=============================================================================
