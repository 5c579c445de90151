------------------------ MODULE SHAMapStoreKeptProofs ------------------------
(***************************************************************************)
(* Online deletion: the steps of the thread that copy a ledger's state and *)
(* exchange the databases, with which the invariant of what is kept is     *)
(* done; then what a reader finds.                                         *)
(***************************************************************************)
EXTENDS SHAMapStoreProofs

\* A node that the ledger has is in the writable database when it was fetched.
LEMMA RefetchGrows ==
    ASSUME IInv, KInv, process = "up", NEW x \in Made, Refetch(x),
           UNCHANGED <<stored, saved, closed, lost, process, writable, archive>>
    PROVE  Growth
<1>1. CASE x \notin stored[writable] /\ x \in stored[archive]
    BY <1>1, StoreGrows, {x} \in SUBSET Made DEF Refetch
<1>2. CASE ~(x \notin stored[writable] /\ x \in stored[archive])
    BY <1>2, NothingGrows DEF Refetch
<1> QED
    BY <1>1, <1>2

\* A node that the copy fetches is in the writable database then, unless it is lost.
LEMMA RefetchCopies ==
    ASSUME IInv, KInv, process = "up", thread = "copy", NEW x \in State(validated), Refetch(x),
           UNCHANGED <<stored, saved, closed, lost, process, writable, archive>>
    PROVE  x \in (Has(writable) \cup lost)'
<1>1. /\ writable \in Dir /\ archive \in Dir /\ writable # archive /\ saved.writable # None
      /\ saved.writable = writable /\ saved.archive = archive
    BY OpenDirs DEF IInv, Running, Agree
<1>2. validated \in 1..closed /\ validated >= saved.lastrotated + DeleteInterval /\ batch[archive] = {}
    BY DEF KInv, Thread, Rotating, Recent, Pending
<1>3. validated >= saved.lastrotated
    BY <1>2, SHAMapStoreAssumption DEF IInv
<1>4. x \in Wanted
    BY <1>2, <1>3 DEF Wanted
<1>5. x \in stored[writable] \cup batch[writable] \cup stored[archive] \cup lost
    BY <1>1, <1>2, <1>4 DEF KInv, Kept, Has
<1>6. stored \in [Dir -> SUBSET Made] /\ batch \in [Dir -> SUBSET Made]
    BY DEF KInv, Kept
<1>7. CASE x \notin stored[writable] /\ x \in stored[archive]
    BY <1>1, <1>6, <1>7 DEF Refetch, Store, Has
<1>8. CASE ~(x \notin stored[writable] /\ x \in stored[archive])
    BY <1>5, <1>8 DEF Refetch, Has
<1> QED
    BY <1>7, <1>8

\* A node of the ledger is copied.
LEMMA RunCopyNodeKeeps == ASSUME IInv, KInv, RunCopyNode PROVE KInv'
<1>1. thread = "copy" /\ process = "up"
    BY UpWhileRunning DEF RunCopyNode
<1>2. /\ UNCHANGED <<stored, saved, closed, lost, process, writable, archive, rows, valid,
                     newledger, validated, reader, lastrotated, stop>>
      /\ thread' \in {"copy", "copied"}
    BY HealthMoves DEF RunCopyNode, UnchangedByRun, disk, chain
<1>3. validated \in 1..closed
    BY <1>1 DEF KInv, Thread, Rotating, Recent, Pending
<1>4. CASE tocopy = {}
    <2>1. UNCHANGED batch /\ thread' = "copied"
        BY <1>4 DEF RunCopyNode
    <2>2. Growth
        BY <1>1, <1>2, <2>1, NothingGrows
    <2>3. /\ Kept' /\ RowsKept' /\ Recent' /\ Reading' /\ Thread' /\ State(validated)' = State(validated)
          /\ Has(writable) \cup lost \subseteq (Has(writable) \cup lost)'
        BY <1>1, <1>2, <2>2, RotatingInv DEF Rotating
    <2>4. State(validated) \subseteq Has(writable) \cup lost
        BY <1>1, <1>4 DEF KInv, Copied
    <2>5. Copied'
        BY <2>1, <2>3, <2>4 DEF Copied
    <2> QED
        BY <2>3, <2>5 DEF KInv
<1>5. CASE tocopy # {}
    <2>1. PICK x \in tocopy : /\ Refetch(x) /\ tocopy' = tocopy \ {x}
                              /\ UNCHANGED <<thread, healthy>> \/ Health("copy", "copied")
        BY <1>5 DEF RunCopyNode
    <2>2. x \in State(validated)
        BY <1>1 DEF KInv, Copied
    <2>3. x \in Made
        BY <1>3, <2>2 DEF Made
    <2>4. Growth
        BY <1>1, <1>2, <2>1, <2>3, RefetchGrows
    <2>5. /\ Kept' /\ RowsKept' /\ Recent' /\ Reading' /\ Thread' /\ State(validated)' = State(validated)
          /\ Has(writable) \cup lost \subseteq (Has(writable) \cup lost)'
        BY <1>1, <1>2, <2>4, RotatingInv DEF Rotating
    <2>6. x \in (Has(writable) \cup lost)'
        BY <1>1, <1>2, <2>1, <2>2, RefetchCopies
    <2>7. State(validated) \ tocopy' \subseteq (Has(writable) \cup lost)'
        BY <1>1, <2>1, <2>5, <2>6 DEF KInv, Copied
    <2>8. thread' = "copied" => stop' \/ ~healthy'
        <3>1. CASE UNCHANGED <<thread, healthy>>
            BY <1>1, <3>1
        <3>2. CASE Health("copy", "copied")
            BY <1>2, <3>2, Zenon DEF Health
        <3> QED
            BY <2>1, <3>1, <3>2
    <2>9. tocopy' \subseteq State(validated)'
        BY <1>1, <2>1, <2>5 DEF KInv, Copied
    <2>10. Copied'
        BY <1>2, <2>5, <2>7, <2>8, <2>9 DEF Copied
    <2> QED
        BY <2>5, <2>10 DEF KInv
<1> QED
    BY <1>4, <1>5

\* The nodes of the caches are fetched, and a new database is made.
LEMMA RunFreshenKeeps == ASSUME IInv, KInv, RunFreshen \/ RunMakeBackend PROVE KInv'
<1>1. thread \in {"freshen", "make"} /\ process = "up"
    BY UpWhileRunning DEF RunFreshen, RunMakeBackend
<1>2. /\ UNCHANGED <<stored, saved, closed, lost, process, writable, archive, rows, valid,
                     newledger, validated, reader, lastrotated>>
      /\ thread' \in {"freshen", "make", "swap", "top"}
    BY HealthMoves DEF RunFreshen, RunMakeBackend, HealthSwitch, UnchangedByRun, disk, db, chain
<1>3. Growth
    <2>1. CASE UNCHANGED batch
        BY <1>1, <1>2, <2>1, NothingGrows
    <2>2. CASE batch' # batch
        <3>1. PICK x \in stored[archive] : Refetch(x)
            BY <2>2 DEF RunFreshen, RunMakeBackend, db
        <3>2. x \in Made
            BY <1>1, <3>1, OpenDirs DEF KInv, Kept
        <3> QED
            BY <1>1, <1>2, <3>1, <3>2, RefetchGrows
    <2> QED
        BY <2>1, <2>2
<1>4. /\ Kept' /\ RowsKept' /\ Recent' /\ Reading' /\ Thread' /\ State(validated)' = State(validated)
      /\ Has(writable) \cup lost \subseteq (Has(writable) \cup lost)'
    BY <1>1, <1>2, <1>3, RotatingInv DEF Rotating
<1>5. State(validated) \subseteq Has(writable) \cup lost
    BY <1>1 DEF KInv, Copied
<1>6. Copied'
    BY <1>2, <1>4, <1>5 DEF Copied
<1> QED
    BY <1>4, <1>6 DEF KInv

\* The new names are saved: from now on the copied ledger is the last rotated one.
LEMMA RunSetStateKeeps == ASSUME IInv, KInv, RunSetState PROVE KInv'
<1>1. /\ thread = "swap" /\ thread' = "rotate" /\ lastrotated' = validated
      /\ saved' = [writable |-> newdir, archive |-> writable, lastrotated |-> validated]
      /\ UNCHANGED <<stored, batch, closed, lost, process, writable, archive, rows, valid,
                     newledger, validated, reader>>
    BY DEF RunSetState, UnchangedByRun, db, chain
<1>2. process = "up" /\ Running
    BY <1>1, UpWhileRunning
<1>3. /\ writable \in Dir /\ saved.writable = writable /\ saved.writable # None
      /\ newdir \in Dir /\ newdir # None
    <2>1. writable \in Dir /\ saved.writable # None
        BY <1>2, OpenDirs
    <2>2. saved.writable = writable
        BY <1>1, <1>2 DEF Running, Agree
    <2>3. newdir \in Dir
        BY <1>1, <1>2 DEF Running, IInv
    <2> QED
        BY <2>1, <2>2, <2>3 DEF Dir, None
<1>4. /\ validated \in 1..closed /\ closed < validated + DeleteInterval /\ validated # None
      /\ validated >= saved.lastrotated + DeleteInterval
    BY <1>1 DEF KInv, Thread, Rotating, Recent, Pending
<1>5. closed \in 0..MaxLedger /\ saved.lastrotated \in 0..MaxLedger
    BY DEF IInv
<1>6. State(validated) \subseteq Has(writable) \cup lost
    BY <1>1 DEF KInv, Copied
<1>7. Made' = Made
    BY <1>1 DEF Made, State
<1>8. Has(writable)' = Has(writable) /\ Has(saved.archive)' = Has(writable)
    BY <1>1 DEF Has
<1>9. ASSUME NEW n \in 1..closed, n >= validated, NEW x \in State(n)
      PROVE  x \in Has(writable) \cup lost
    <2>1. x \in Made /\ (x \in State(validated) \/ x[2] > validated)
        BY <1>4, <1>5, <1>9, WantedNodes
    <2>2. CASE x \in State(validated)
        BY <1>6, <2>2
    <2>3. CASE x[2] > validated
        <3>1. x[2] \in 1..closed
            BY <1>5, <2>1, NodeNumber
        <3>2. x[2] >= saved.lastrotated + DeleteInterval
            BY <1>4, <1>5, <2>3, <3>1, SHAMapStoreAssumption
        <3> QED
            BY <1>3, <2>1, <3>2 DEF KInv, Kept
    <2> QED
        BY <2>1, <2>2, <2>3
<1>10. Wanted' \subseteq Has(writable) \cup lost
    <2>1. Wanted' = UNION {State(n) : n \in {k \in 1..closed : k >= validated}}
        BY <1>1 DEF Wanted, State
    <2> QED
        BY <1>9, <2>1
<1>11. \A x \in Made : x[2] < validated + DeleteInterval /\ ~(x[2] >= validated + DeleteInterval)
    <2> TAKE x \in Made
    <2>1. x[2] \in 1..closed
        BY <1>5, NodeNumber
    <2> QED
        BY <1>4, <1>5, <2>1, SHAMapStoreAssumption
<1>12. Has(writable) \subseteq Made
    BY <1>3 DEF KInv, Kept, Has
<1>13. Kept'
    <2>1. (saved.writable # None /\ saved.lastrotated <= closed)'
        BY <1>1, <1>3, <1>4, <1>5
    <2>2. (stored \in [Dir -> SUBSET Made] /\ batch \in [Dir -> SUBSET Made])'
        BY <1>1, <1>7 DEF KInv, Kept
    <2>3. (Wanted \subseteq Has(saved.writable) \cup Has(saved.archive) \cup lost)'
        BY <1>1, <1>8, <1>10
    <2>4. saved'.lastrotated = validated
        BY <1>1
    <2>5. (\A x \in Made : x[2] >= saved.lastrotated + DeleteInterval
                             => x \in Has(saved.writable) \cup lost)'
        BY <1>7, <1>11, <2>4
    <2>6. (\A x \in Has(saved.archive) : x[2] < saved.lastrotated + DeleteInterval)'
        BY <1>8, <1>11, <1>12, <2>4
    <2> QED
        BY <2>1, <2>2, <2>3, <2>5, <2>6 DEF Kept
<1>14. RowsKept'
    <2>1. saved'.lastrotated = validated /\ valid' = valid /\ rows' = rows /\ closed' = closed
        BY <1>1
    <2>2. \A n \in 1..valid : n >= validated => n >= saved.lastrotated
        BY <1>4, <1>5, SHAMapStoreAssumption
    <2> QED
        BY <2>1, <2>2 DEF KInv, RowsKept
<1>15. Recent' /\ Reading'
    BY <1>1, <1>7 DEF KInv, Recent, Pending, Reading
<1>16. Thread' /\ Copied'
    BY <1>1, <1>4 DEF Thread, Copied, Rotating
<1> QED
    BY <1>13, <1>14, <1>15, <1>16, SMTT(30) DEF KInv

\* The databases are rotated, and the old one is removed.
LEMMA RunRotateBackendsKeeps == ASSUME IInv, KInv, RunRotateBackends PROVE KInv'
<1>1. /\ thread = "rotate" /\ thread' = "drop"
      /\ UNCHANGED <<stored, batch, saved, closed, lost, process, rows, valid, newledger,
                     validated, reader, lastrotated>>
    BY DEF RunRotateBackends, UnchangedByRun, disk, chain
<1>2. Made' = Made /\ Wanted' = Wanted
    BY <1>1 DEF Made, Wanted, State
<1>3. Kept'
    BY <1>1, <1>2 DEF KInv, Kept, Has
<1>4. Thread' /\ Copied'
    BY <1>1 DEF KInv, Thread, Copied, Rotating
<1> QED
    BY <1>1, <1>3, <1>4, OthersKeep DEF KInv

\* The old archive is deleted: no name in state.db is touched.
LEMMA RunDropKeeps == ASSUME IInv, KInv, RunDrop PROVE KInv'
<1>1. /\ thread = "drop" /\ thread' = "top"
      /\ stored' = [stored EXCEPT ![olddir] = {}] /\ batch' = [batch EXCEPT ![olddir] = {}]
      /\ UNCHANGED <<saved, closed, lost, process, rows, valid, newledger, validated, reader,
                     lastrotated>>
    BY DEF RunDrop, UnchangedByRun, chain
<1>2. process = "up" /\ Running
    BY <1>1, UpWhileRunning
<1>3. /\ saved.writable \in Dir /\ saved.archive \in Dir /\ saved.writable # None
      /\ olddir \notin {saved.writable, saved.archive}
    BY <1>1, <1>2, OpenDirs DEF Running, Agree
<1>4. stored \in [Dir -> SUBSET Made] /\ batch \in [Dir -> SUBSET Made]
    BY DEF KInv, Kept
<1>5. stored' \in [Dir -> SUBSET Made] /\ batch' \in [Dir -> SUBSET Made]
    BY <1>1, <1>4, Zenon
<1>6. Has(saved.writable)' = Has(saved.writable) /\ Has(saved.archive)' = Has(saved.archive)
    BY <1>1, <1>3, <1>4 DEF Has
<1>7. Made' = Made /\ Wanted' = Wanted
    BY <1>1, SMTT(30) DEF Made, Wanted, State
<1>8. Kept'
    BY <1>1, <1>3, <1>5, <1>6, <1>7 DEF KInv, Kept
<1>9. Thread' /\ Copied'
    BY <1>1 DEF KInv, Thread, Copied, Rotating
<1> QED
    BY <1>1, <1>8, <1>9, OthersKeep DEF KInv

-----------------------------------------------------------------------------
\* The invariant holds at the first start.
LEMMA InitKeeps == Init => KInv
<1> SUFFICES ASSUME Init PROVE KInv
    OBVIOUS
<1>1. closed = 0 /\ Made = {} /\ Wanted = {}
    BY NothingMade DEF Init
<1>2. Kept /\ RowsKept
    BY <1>1 DEF Init, Kept, RowsKept
<1>3. Recent /\ Thread /\ Copied
    BY DEF Init, Recent, Pending, Thread, Copied, Rotating, None
<1>4. Reading
    BY DEF Init, Reading, Idle
<1> QED
    BY <1>2, <1>3, <1>4 DEF KInv

\* It is kept by every step.
THEOREM KeepsInvariance == Spec => []KInv
<1>1. IInv /\ KInv /\ [Next]_vars => KInv'
    <2> SUFFICES ASSUME IInv, KInv, [Next]_vars PROVE KInv'
        OBVIOUS
    <2>1. CASE UNCHANGED vars
        <3>1. UNCHANGED <<saved, rows, stored, process, batch, writable, archive, newledger, stop,
                          thread, healthy, lastrotated, validated, tocopy, reader, closed, valid,
                          lost>>
            BY <2>1 DEF vars, disk, db, run, chain
        <3>2. Made' = Made /\ Wanted' = Wanted /\ State(validated)' = State(validated)
            BY <3>1, SMTT(30) DEF Made, Wanted, State
        <3>3. Kept' /\ Thread'
            BY <3>1, <3>2, SMTT(30) DEF KInv, Kept, Has, Thread
        <3>4. Copied'
            BY <3>1, <3>2 DEF KInv, Copied, Has
        <3> QED
            BY <3>1, <3>3, <3>4, OthersKeep DEF KInv
    <2>2. CASE DbPaths \/ MakeDatabase \/ MakeDatabaseSave \/ Crash \/ Exit
        BY <2>2, StartKeeps, EndKeeps
    <2>3. CASE (CloseLedger /\ ThreadKeepsUp) \/ OnLedgerClosed
        BY <2>3, CloseLedgerKeeps, OnLedgerClosedKeeps
    <2>4. CASE \/ SetCanDelete \/ OnStop \/ \E d \in Dir : WriteBatch(d)
               \/ FetchFirst \/ FetchSecond \/ FetchDone
        BY <2>4, ReadersKeep
    <2>5. CASE RunBegin \/ RunTop \/ RunSpuriousWake \/ RunTake
        BY <2>5, LoopKeeps
    <2>6. CASE \/ (RunDecide /\ WriterKeepsUp) \/ RunClearPrior \/ RunCleared \/ RunCopyNode
               \/ RunCopied
        BY <2>6, RunDecideKeeps, RunClearPriorKeeps, RunClearedKeeps, RunCopyNodeKeeps, RunCopiedKeeps
    <2>7. CASE RunFreshen \/ RunMakeBackend \/ RunSetState \/ RunRotateBackends \/ RunDrop
        BY <2>7, RunFreshenKeeps, RunSetStateKeeps, RunRotateBackendsKeeps, RunDropKeeps
    <2> QED
        BY <2>1, <2>2, <2>3, <2>4, <2>5, <2>6, <2>7 DEF Next, RunStep
<1> QED
    BY InitKeeps, Invariance, <1>1, PTL DEF Spec

\* For every delete interval and any number of ledgers, and although the rotation
\* may be given up and the server may crash between any two steps: every ledger
\* from the last rotated one on has its rows and its whole account state in the two
\* databases that state.db names, but for what a batch held at a crash.
THEOREM LedgersAreKept == Spec => []RotatedKept
<1>1. IInv /\ KInv => RotatedKept
    <2> SUFFICES ASSUME IInv, KInv PROVE RotatedKept
        OBVIOUS
    <2>1. Wanted \subseteq Held \cup lost
        <3>1. CASE saved.writable = None
            BY <3>1, NothingMade DEF KInv, Kept
        <3>2. CASE saved.writable # None
            <4>1. saved.writable \in Named \cap dirs /\ saved.archive \in Named \cap dirs
                BY <3>2 DEF IInv, Named
            <4>2. Has(saved.writable) \subseteq Held /\ Has(saved.archive) \subseteq Held
                BY <4>1 DEF Has, Held
            <4> QED
                BY <3>2, <4>2 DEF KInv, Kept
        <3> QED
            BY <3>1, <3>2
    <2> QED
        BY <2>1 DEF RotatedKept, KInv, RowsKept
<1> QED
    BY Invariance, KeepsInvariance, <1>1, PTL

-----------------------------------------------------------------------------
(***************************************************************************)
(* What is found.  The argument: a reader that has not found its node in   *)
(* the writable database finds it in the archive, because a rotation makes *)
(* an archive of a database that has, by then, all that is kept.           *)
(***************************************************************************)

\* The databases that are named or open.
Open == Dir \cap (Named \cup {writable, archive})

\* Where nothing is.
Empty ==
    /\ \A d \in Dir \ dirs : Has(d) = {}
    /\ thread \in {"swap", "rotate"} => Has(newdir) = {}
    /\ process # "up" => \A d \in Dir : batch[d] = {}

\* What a crash took is in none of the databases.
NotLost == lost \subseteq Made /\ \A d \in Open : Has(d) \cap lost = {}

\* A reader before its second lookup.
Second ==
    /\ reader.at \in {"second", "found"} => reader.node \notin lost
    /\ reader.at = "second" /\ reader.node \in Wanted => reader.node \in Has(archive)

\* The inductive invariant.
RInv == Empty /\ NotLost /\ Second

\* The databases that are open exist.
LEMMA OpenDatabases ==
    ASSUME IInv, process = "up"
    PROVE  /\ writable \in Open /\ archive \in Open /\ Named \subseteq Open
           /\ writable \in dirs /\ archive \in dirs /\ Open \subseteq dirs /\ dirs \subseteq Dir
<1>1. writable \in dirs /\ archive \in dirs /\ Named \subseteq dirs /\ dirs \subseteq Dir
    BY DEF IInv, Running
<1> QED
    BY <1>1 DEF Open

\* A step that moves no data.
LEMMA StayReads ==
    ASSUME RInv, UNCHANGED <<stored, batch, saved, closed, lost, process, writable, archive, dirs, reader>>,
           thread' \in {"swap", "rotate"} => thread \in {"swap", "rotate"} /\ newdir' = newdir
    PROVE  RInv'
<1>1. Made' = Made /\ Wanted' = Wanted
    BY DEF Made, Wanted, State
<1>2. Open' = Open
    BY DEF Open, Named
<1>3. \A d : Has(d)' = Has(d)
    BY DEF Has
<1>4. Empty'
    <2>1. thread' \in {"swap", "rotate"} => Has(newdir)' = {}
        BY <1>3 DEF RInv, Empty, Has
    <2> QED
        BY <1>3, <2>1, SMTT(30) DEF RInv, Empty
<1>5. NotLost'
    BY <1>1, <1>2, <1>3 DEF RInv, NotLost
<1>6. Second'
    BY <1>1 DEF RInv, Second, Has
<1> QED
    BY <1>4, <1>5, <1>6 DEF RInv

\* A step that stores nodes that no crash took.
LEMMA StoreReads ==
    ASSUME IInv, KInv, RInv, process = "up",
           NEW nodes \in SUBSET Made, nodes \cap lost = {}, Store(writable, nodes),
           UNCHANGED <<stored, saved, closed, lost, process, writable, archive, dirs>>,
           reader' = reader \/ reader' = Idle,
           thread' \in {"swap", "rotate"} => thread \in {"swap", "rotate"} /\ newdir' = newdir
    PROVE  RInv'
<1>1. Made' = Made /\ Wanted' = Wanted
    BY DEF Made, Wanted, State
<1>2. Open' = Open
    BY DEF Open, Named
<1>3. /\ writable \in Open /\ archive \in Open /\ writable \in dirs /\ archive \in dirs
      /\ Open \subseteq Dir /\ dirs \subseteq Dir
    BY OpenDatabases, SMTT(30)
<1>4. stored \in [Dir -> SUBSET Made] /\ batch \in [Dir -> SUBSET Made]
    BY DEF KInv, Kept
<1>5. \A d \in Dir : Has(d)' = IF d = writable THEN Has(d) \cup nodes ELSE Has(d)
    BY <1>3, <1>4, SMTT(30) DEF Store, Has
<1>6. thread' \in {"swap", "rotate"} => newdir' = newdir /\ newdir \in Dir /\ newdir # writable /\ Has(newdir) = {}
    BY <1>3, SMTT(30) DEF IInv, Running, RInv, Empty
<1>7. Empty'
    <2>1. (thread \in {"swap", "rotate"} => Has(newdir) = {})'
        BY <1>5, <1>6, ZenonT(30) DEF Has
    <2>2. \A d \in Dir \ dirs : Has(d)' = {}
        BY <1>3, <1>5 DEF RInv, Empty
    <2> QED
        BY <2>1, <2>2 DEF Empty
<1>8. NotLost'
    BY <1>1, <1>2, <1>3, <1>5 DEF RInv, NotLost
<1>9. Second'
    <2>1. CASE reader' = Idle
        BY <2>1, SMTT(30) DEF Second, Idle
    <2>2. CASE reader' = reader
        <3>1. Has(archive) \subseteq Has(archive)'
            BY <1>3, <1>5
        <3> QED
            BY <1>1, <2>2, <3>1 DEF RInv, Second
    <2> QED
        BY <2>1, <2>2
<1> QED
    BY <1>7, <1>8, <1>9 DEF RInv

-----------------------------------------------------------------------------
\* The start of the server.
LEMMA StartReads ==
    ASSUME IInv, KInv, RInv, DbPaths \/ MakeDatabase \/ MakeDatabaseSave PROVE RInv'
<1>1. /\ UNCHANGED <<batch, closed, lost, reader>> /\ process # "up" /\ thread' \in {"none", "load"}
    BY DEF IInv, DbPaths, MakeDatabase, MakeDatabaseSave, db, run, chain
<1>2. Made' = Made
    BY <1>1 DEF Made, State
<1>3. \A d \in Dir : batch[d] = {} /\ Has(d) = stored[d]
    BY <1>1 DEF RInv, Empty, Has
<1>4. Second'
    <2>1. reader.at = "idle"
        BY <1>1 DEF KInv, Reading
    <2> QED
        BY <1>1, <2>1 DEF Second
<1>5. CASE DbPaths
    <2>1. /\ dirs' = dirs \cap Named /\ Named' = Named /\ UNCHANGED <<writable, archive>>
          /\ stored' = [d \in Dir |-> IF d \in Named THEN stored[d] ELSE {}]
        BY <1>5 DEF DbPaths, Named, db
    <2>2. Named \subseteq dirs /\ dirs \subseteq Dir
        BY DEF IInv
    <2>3. \A d \in Dir : Has(d)' = IF d \in Named THEN Has(d) ELSE {}
        BY <1>1, <1>3, <2>1, ZenonT(30) DEF Has
    <2>4. Empty'
        BY <1>1, <1>3, <2>1, <2>2, <2>3 DEF Empty
    <2>5. Open' = Open
        BY <2>1 DEF Open
    <2>6. NotLost'
        BY <1>1, <1>2, <2>3, <2>5 DEF RInv, NotLost, Open
    <2> QED
        BY <1>4, <2>4, <2>6, SMTT(30) DEF RInv
<1>6. CASE MakeDatabase
    <2>1. /\ UNCHANGED <<saved, stored>> /\ process' # "down" /\ dirs \subseteq dirs' /\ Named' = Named
          /\ dirs' \ dirs \subseteq Dir
        BY <1>6, SHAMapStoreAssumption DEF MakeDatabase, IInv, Named, Dir
    <2>2. \A d : Has(d)' = Has(d)
        BY <1>1, <2>1, SMTT(30) DEF Has
    <2>3. Empty'
        BY <1>1, <1>3, <2>1, <2>2 DEF RInv, Empty
    <2>4. \A d \in Open' : d \in Open \/ Has(d) = {}
        <3>1. CASE saved.writable = None
            <4>1. Named = {} /\ dirs = {} /\ Named' = {}
                BY <1>6, <2>1, <3>1, SMTT(30) DEF MakeDatabase, IInv, Named
            <4> QED
                BY <4>1, SMTT(30) DEF RInv, Empty, Open
        <3>2. CASE saved.writable # None
            <4>1. /\ writable' = saved.writable /\ archive' = saved.archive
                  /\ saved.writable # None /\ saved.archive # None
                BY <1>6, <3>2 DEF MakeDatabase, IInv
            <4> QED
                BY <2>1, <4>1, SMTT(30) DEF Open, Named
        <3> QED
            BY <3>1, <3>2
    <2>5. NotLost'
        BY <1>1, <1>2, <2>2, <2>4 DEF RInv, NotLost
    <2> QED
        BY <1>4, <2>3, <2>5, SMTT(30) DEF RInv
<1>7. CASE MakeDatabaseSave
    <2>1. /\ saved' = [saved EXCEPT !.writable = writable, !.archive = archive]
          /\ UNCHANGED <<stored, dirs, writable, archive>>
        BY <1>7 DEF MakeDatabaseSave, db
    <2>2. saved'.writable = writable /\ saved'.archive = archive
        BY <2>1 DEF IInv
    <2>3. \A d : Has(d)' = Has(d)
        BY <1>1, <2>1 DEF Has
    <2>4. Open' \subseteq Open
        BY <2>1, <2>2 DEF Open, Named
    <2>5. Empty'
        BY <1>1, <1>3, <2>1, <2>3 DEF RInv, Empty
    <2>6. NotLost'
        BY <1>1, <1>2, <2>3, <2>4 DEF RInv, NotLost
    <2> QED
        BY <1>4, <2>5, <2>6 DEF RInv
<1> QED
    BY <1>5, <1>6, <1>7

\* The end of the server.
LEMMA EndReads == ASSUME IInv, KInv, RInv, Crash \/ Exit PROVE RInv'
<1>1. /\ UNCHANGED <<saved, dirs, closed>> /\ thread' = "none" /\ process' = "down" /\ reader' = Idle
      /\ writable' = None /\ archive' = None /\ batch' = [d \in Dir |-> {}]
    BY SMTT(30) DEF Crash, Exit, Forget, disk, chain
<1>2. Made' = Made /\ Named' = Named
    BY <1>1 DEF Made, State, Named
<1>3. Named \subseteq dirs /\ dirs \subseteq Dir
    BY DEF IInv
<1>4. Open' = Named /\ Named \subseteq Open
    <2>1. None \notin Dir
        BY DEF Dir, None
    <2> QED
        BY <1>1, <1>2, <1>3, <2>1 DEF Open
<1>5. Second'
    BY <1>1, SMTT(30) DEF Second, Idle
<1>6. stored \in [Dir -> SUBSET Made] /\ batch \in [Dir -> SUBSET Made]
    BY DEF KInv, Kept
<1>7. CASE Exit
    <2>1. stored' = [d \in Dir |-> stored[d] \cup batch[d]] /\ lost' = lost
        BY <1>7 DEF Exit, chain
    <2>2. \A d \in Dir : Has(d)' = Has(d)
        BY <1>1, <2>1, SMTT(30) DEF Has
    <2>3. Empty'
        BY <1>1, <2>2, SMTT(30) DEF RInv, Empty
    <2>4. NotLost'
        BY <1>2, <1>3, <1>4, <2>1, <2>2 DEF RInv, NotLost
    <2> QED
        BY <1>5, <2>3, <2>4 DEF RInv
<1>8. CASE Crash
    <2>1. /\ lost' = (lost \cup UNION {batch[d] : d \in dirs}) \ UNION {stored[d] : d \in Named}
          /\ stored' = stored
        BY <1>8 DEF Crash, disk
    <2>2. \A d \in Dir : Has(d)' = stored[d]
        BY <1>1, <2>1, SMTT(30) DEF Has
    <2>3. Empty'
        BY <1>1, <2>2 DEF RInv, Empty, Has
    <2>4. lost' \subseteq Made
        BY <1>3, <1>6, <2>1, SMTT(30) DEF RInv, NotLost
    <2>5. \A d \in Named : stored[d] \cap lost' = {}
        BY <2>1
    <2>6. NotLost'
        BY <1>2, <1>3, <1>4, <2>2, <2>4, <2>5 DEF NotLost
    <2> QED
        BY <1>5, <2>3, <2>6, SMTT(30) DEF RInv
<1> QED
    BY <1>7, <1>8, SMTT(30)

-----------------------------------------------------------------------------
\* A ledger is closed: of its nodes, those made before were wanted before.
LEMMA CloseLedgerReads == ASSUME IInv, KInv, RInv, CloseLedger PROVE RInv'
<1> DEFINE new == State(closed + 1)
           nodes == {x \in new : x[2] = closed + 1 \/ x \in lost}
<1>1. /\ process = "up" /\ closed' = closed + 1 /\ lost' = lost \ new /\ Store(writable, nodes)
      /\ UNCHANGED <<stored, saved, dirs, process, writable, archive, thread, newdir, reader>>
    BY SMTT(30) DEF CloseLedger, disk, run
<1>2. closed \in Nat /\ closed + 1 \in Ledger /\ saved.lastrotated \in 0..MaxLedger /\ saved.lastrotated <= closed
    BY SHAMapStoreAssumption DEF CloseLedger, IInv, KInv, Kept, Ledger
<1>3. Made' = Made \cup new
    <2>1. 1..closed' = 1..closed \cup {closed + 1}
        BY <1>1, <1>2, SMTT(30)
    <2> QED
        BY <2>1 DEF Made, State
<1>4. Open' = Open
    BY <1>1 DEF Open, Named
<1>5. /\ writable \in Open /\ archive \in Open /\ writable \in dirs /\ archive \in dirs
      /\ Open \subseteq Dir /\ dirs \subseteq Dir
    BY <1>1, OpenDatabases, SMTT(30)
<1>6. stored \in [Dir -> SUBSET Made] /\ batch \in [Dir -> SUBSET Made]
    BY DEF KInv, Kept
<1> HIDE DEF new, nodes
<1>7. \A d \in Dir : Has(d)' = IF d = writable THEN Has(d) \cup nodes ELSE Has(d)
    BY <1>1, <1>5, <1>6, SMTT(30) DEF Store, Has
<1>8. Empty'
    <2>1. thread' \in {"swap", "rotate"} => newdir' = newdir /\ newdir \in Dir /\ newdir # writable /\ Has(newdir) = {}
        BY <1>1, <1>5, ZenonT(30) DEF IInv, Running, RInv, Empty
    <2>2. (thread \in {"swap", "rotate"} => Has(newdir) = {})'
        BY <1>7, <2>1, SMTT(30) DEF Has
    <2>3. \A d \in Dir \ dirs : Has(d)' = {}
        BY <1>5, <1>7, SMTT(30) DEF RInv, Empty
    <2> QED
        BY <1>1, <2>2, <2>3 DEF Empty
<1>9. NotLost'
    <2>1. nodes \subseteq new
        BY DEF nodes
    <2> QED
        BY <1>1, <1>3, <1>4, <1>5, <1>7, <2>1 DEF RInv, NotLost
<1>10. Second'
    <2>1. Has(archive) \subseteq Has(archive)'
        BY <1>1, <1>5, <1>7 DEF Has
    <2>2. ASSUME reader.at = "second", reader.node \in Wanted' PROVE reader.node \in Wanted
        <3>1. reader.node \in Made
            BY <2>2 DEF KInv, Reading
        <3>2. PICK n \in 1..(closed + 1) : n >= saved.lastrotated /\ reader.node \in State(n)
            BY <1>1, <2>2, ZenonT(30) DEF Wanted, State
        <3>3. CASE n \in 1..closed
            BY <3>2, <3>3 DEF Wanted
        <3>4. CASE n = closed + 1
            <4>1. closed \in 1..closed /\ reader.node \in State(closed)
                <5>1. closed \in 0..MaxLedger /\ closed < MaxLedger
                    BY DEF IInv, CloseLedger
                <5>2. reader.node[2] \in 1..closed
                    BY <3>1, <5>1, NodeNumber
                <5>3. reader.node[2] # closed + 1
                    BY <1>2, <5>2
                <5> QED
                    BY <3>2, <3>4, <5>1, <5>3, NewNodes, SMTT(30)
            <4> QED
                BY <1>2, <4>1 DEF Wanted
        <3> QED
            BY <1>2, <3>3, <3>4
    <2> QED
        BY <1>1, <2>1, <2>2, SMTT(30) DEF RInv, Second
<1> QED
    BY <1>8, <1>9, <1>10, SMTT(30) DEF RInv

\* A batch is written.
LEMMA WriteBatchReads == ASSUME IInv, KInv, RInv, NEW b \in Dir, WriteBatch(b) PROVE RInv'
<1>1. /\ process = "up" /\ batch[b] # {}
      /\ stored' = [stored EXCEPT ![b] = @ \cup batch[b]] /\ batch' = [batch EXCEPT ![b] = {}]
      /\ UNCHANGED <<saved, dirs, process, writable, archive, thread, newdir, reader, closed, lost>>
    BY SMTT(30) DEF WriteBatch, run, chain
<1>2. stored \in [Dir -> SUBSET Made] /\ batch \in [Dir -> SUBSET Made]
    BY DEF KInv, Kept
<1>3. \A d \in Dir : Has(d)' = Has(d)
    BY <1>1, <1>2 DEF Has
<1>4. Made' = Made /\ Wanted' = Wanted
    BY <1>1, SMTT(30) DEF Made, Wanted, State
<1>5. Open' = Open /\ Open \subseteq Dir
    BY <1>1, SMTT(30) DEF Open, Named
<1>6. archive \in Dir
    BY <1>1, OpenDirs, SMTT(30)
<1>7. thread \in {"swap", "rotate"} => newdir \in Dir
    BY <1>1, SMTT(30) DEF IInv, Running
<1>8. Empty'
    <2>1. (thread \in {"swap", "rotate"} => Has(newdir) = {})'
        BY <1>1, <1>3, <1>7 DEF RInv, Empty, Has
    <2> QED
        BY <1>1, <1>3, <2>1, SMTT(30) DEF RInv, Empty
<1>9. NotLost'
    BY <1>1, <1>3, <1>4, <1>5, SMTT(30) DEF RInv, NotLost
<1>10. Second'
    <2>1. Has(archive)' = Has(archive)
        BY <1>1, <1>3, <1>6 DEF Has
    <2> QED
        BY <1>1, <1>4, <2>1 DEF RInv, Second
<1> QED
    BY <1>8, <1>9, <1>10, SMTT(30) DEF RInv

\* The reader.
LEMMA FetchReads ==
    ASSUME IInv, KInv, RInv, FetchFirst \/ FetchSecond \/ FetchDone PROVE RInv'
<1>1. UNCHANGED <<stored, saved, closed, lost, process, writable, archive, dirs, thread, newdir>>
    BY DEF FetchFirst, FetchSecond, FetchDone, UnchangedByReader, disk, run, chain
<1>2. reader \in [at : {"idle", "second", "found", "missed"}, node : Made \cup {None}]
    BY DEF KInv, Reading
<1>3. reader.at # "idle" => process = "up" /\ reader.node \in Made
    BY DEF KInv, Reading
<1>4. ASSUME UNCHANGED batch, Second' PROVE RInv'
    <2>1. Made' = Made /\ Open' = Open
        BY <1>1 DEF Made, State, Open, Named
    <2>2. \A d : Has(d)' = Has(d)
        BY <1>1, <1>4, SMTT(30) DEF Has
    <2>3. Empty'
        <3>1. (thread \in {"swap", "rotate"} => Has(newdir) = {})'
            BY <1>1, <1>4, Zenon DEF RInv, Empty, Has
        <3> QED
            BY <1>1, <1>4, <2>2, <3>1 DEF RInv, Empty
    <2>4. NotLost'
        BY <1>1, <2>1, <2>2 DEF RInv, NotLost
    <2> QED
        BY <1>4, <2>3, <2>4, SMTT(30) DEF RInv
<1>5. CASE FetchFirst
    <2>1. PICK x \in Wanted \cap ((stored[writable] \cup stored[archive]) \ stored[GetBackends[1]]) :
              reader' = [at |-> "second", node |-> x]
        BY <1>5, SMTT(30) DEF FetchFirst
    <2>2. x \in stored[archive]
        BY <2>1, SMTT(30) DEF GetBackends
    <2>3. archive \in Open
        BY <1>5, OpenDatabases DEF FetchFirst
    <2>4. x \notin lost /\ x \in Has(archive)
        BY <2>2, <2>3 DEF RInv, NotLost, Has
    <2>5. UNCHANGED batch
        BY <1>5, ZenonT(30) DEF FetchFirst
    <2>6. Has(archive)' = Has(archive)
        BY <1>1, <2>5, SMTT(30) DEF Has
    <2>7. reader'.at = "second" /\ reader'.node = x
        BY <2>1, SMTT(30)
    <2>8. Second'
        BY <1>1, <2>4, <2>6, <2>7 DEF Second
    <2> QED
        BY <1>4, <2>5, <2>8, SMTT(30)
<1>6. CASE FetchSecond
    <2>1. reader.at = "second" /\ UNCHANGED batch
        BY <1>6 DEF FetchSecond
    <2>2. reader'.at \in {"found", "missed"} /\ reader'.node = reader.node
        BY <1>2, <1>6, SMTT(30) DEF FetchSecond
    <2>3. Second'
        BY <1>1, <2>1, <2>2 DEF RInv, Second
    <2> QED
        BY <1>4, <2>1, <2>3
<1>7. CASE FetchDone
    <2>1. reader.at \in {"found", "missed"} /\ reader' = Idle
        BY <1>7, SMTT(30) DEF FetchDone
    <2>2. CASE reader.at = "found"
        <3>1. Store(writable, {reader.node}) /\ process = "up" /\ {reader.node} \in SUBSET Made
            BY <1>3, <1>7, <2>2 DEF FetchDone
        <3>2. {reader.node} \cap lost = {}
            BY <2>2 DEF RInv, Second
        <3> QED
            BY <1>1, <2>1, <3>1, <3>2, StoreReads
    <2>3. CASE reader.at # "found"
        <3>1. UNCHANGED batch
            BY <1>7, <2>3 DEF FetchDone
        <3>2. Second'
            BY <2>1 DEF Second, Idle
        <3> QED
            BY <1>4, <3>1, <3>2
    <2> QED
        BY <2>2, <2>3
<1> QED
    BY <1>5, <1>6, <1>7

-----------------------------------------------------------------------------
\* The steps of the server and of the thread that move no data.
LEMMA CalmReads ==
    ASSUME IInv, KInv, RInv,
           \/ OnLedgerClosed \/ SetCanDelete \/ OnStop \/ RunBegin \/ RunTop \/ RunSpuriousWake
           \/ RunTake \/ RunClearPrior \/ RunCleared \/ RunCopied
    PROVE  RInv'
<1>1. UNCHANGED <<stored, batch, saved, closed, lost, process, writable, archive, dirs, reader>>
    BY Zenon DEF OnLedgerClosed, SetCanDelete, OnStop, RunBegin, RunTop, RunSpuriousWake, RunTake,
           RunClearPrior, RunCleared, RunCopied, UnchangedByRun, disk, db, run, chain
<1>2. thread' \in {"swap", "rotate"} => thread \in {"swap", "rotate"} /\ newdir' = newdir
    <2>1. CASE OnLedgerClosed \/ SetCanDelete \/ OnStop
        BY <2>1, ZenonT(30) DEF OnLedgerClosed, SetCanDelete, OnStop, Notify, run
    <2>2. CASE RunBegin \/ RunTop \/ RunSpuriousWake \/ RunTake
        BY <2>2, SMTT(30) DEF RunBegin, RunTop, RunSpuriousWake, RunTake
    <2>3. CASE RunClearPrior \/ RunCleared \/ RunCopied
        BY <2>3, HealthMoves DEF RunClearPrior, RunCleared, RunCopied, HealthSwitch
    <2> QED
        BY <2>1, <2>2, <2>3
<1> QED
    BY <1>1, <1>2, StayReads

\* A node is fetched by the thread.
LEMMA RefetchReads ==
    ASSUME IInv, KInv, RInv, process = "up", NEW x \in Made, Refetch(x),
           UNCHANGED <<stored, saved, closed, lost, process, writable, archive, dirs, reader>>,
           thread' \in {"swap", "rotate"} => thread \in {"swap", "rotate"} /\ newdir' = newdir
    PROVE  RInv'
<1>1. CASE x \notin stored[writable] /\ x \in stored[archive]
    <2>1. x \notin lost
        BY <1>1, OpenDatabases, ZenonT(30) DEF RInv, NotLost, Has
    <2>2. Store(writable, {x}) /\ {x} \in SUBSET Made /\ {x} \cap lost = {}
        BY <1>1, <2>1 DEF Refetch
    <2> QED
        BY <2>2, StoreReads
<1>2. CASE ~(x \notin stored[writable] /\ x \in stored[archive])
    <2>1. UNCHANGED batch
        BY <1>2 DEF Refetch
    <2> QED
        BY <2>1, StayReads, SMTT(30)
<1> QED
    BY <1>1, <1>2, ZenonT(30)

\* Nodes are copied into the writable database.
LEMMA CopyReads == ASSUME IInv, KInv, RInv, RunCopyNode \/ RunFreshen PROVE RInv'
<1>1. /\ thread \in {"copy", "freshen"} /\ process = "up"
      /\ UNCHANGED <<stored, saved, closed, lost, process, writable, archive, dirs, reader>>
    BY UpWhileRunning, Zenon DEF RunCopyNode, RunFreshen, UnchangedByRun, disk, chain
<1>2. thread' \notin {"swap", "rotate"}
    <2>1. CASE RunCopyNode
        BY <2>1, HealthMoves DEF RunCopyNode
    <2>2. CASE RunFreshen
        <3>1. thread = "freshen" /\ (thread' = thread \/ Health("make", "top"))
            BY <2>2, Zenon DEF RunFreshen, HealthSwitch
        <3>2. thread' \in {"freshen", "make", "top"}
            BY <3>1, HealthMoves
        <3> QED
            BY <3>2
    <2> QED
        BY <2>1, <2>2, SMTT(30)
<1>3. CASE UNCHANGED batch
    BY <1>1, <1>2, <1>3, StayReads, SMTT(30)
<1>4. CASE batch' # batch
    <2>1. PICK x \in tocopy \cup stored[archive] : Refetch(x) /\ (thread = "copy" => x \in tocopy)
                                                   /\ (thread = "freshen" => x \in stored[archive])
        BY <1>4 DEF RunCopyNode, RunFreshen
    <2>2. x \in Made
        <3>1. CASE thread = "copy"
            <4>1. x \in State(validated)
                BY <2>1, <3>1, SMTT(30) DEF KInv, Copied
            <4>2. validated \in 1..closed
                BY <3>1 DEF KInv, Thread, Rotating, Recent, Pending
            <4> QED
                BY <4>1, <4>2, SMTT(30) DEF Made
        <3>2. CASE thread = "freshen"
            BY <1>1, <2>1, <3>2, OpenDirs, Zenon DEF KInv, Kept
        <3> QED
            BY <1>1, <3>1, <3>2
    <2> QED
        BY <1>1, <1>2, <2>1, <2>2, RefetchReads, SMTT(30)
<1> QED
    BY <1>3, <1>4

\* A new database is made.
LEMMA RunMakeBackendReads == ASSUME IInv, KInv, RInv, RunMakeBackend PROVE RInv'
<1>1. /\ thread = "make" /\ thread' \in {"swap", "top"} /\ dirs # Dir
      /\ newdir' = Unused /\ dirs' = dirs \cup {Unused}
      /\ UNCHANGED <<stored, batch, saved, closed, lost, process, writable, archive, reader>>
    BY HealthMoves DEF RunMakeBackend, HealthSwitch, UnchangedByRun, db, chain
<1>2. Unused \in Dir \ dirs
    BY <1>1, UnusedIsNew DEF IInv
<1>3. \A d : Has(d)' = Has(d)
    BY <1>1 DEF Has
<1>4. Made' = Made /\ Wanted' = Wanted /\ Open' = Open
    BY <1>1 DEF Made, Wanted, State, Open, Named
<1>5. Empty'
    <2>1. Has(Unused) = {}
        BY <1>2 DEF RInv, Empty
    <2>2. (Has(newdir) = {})'
        BY <1>1, <2>1 DEF Has
    <2> QED
        BY <1>1, <1>3, <2>2 DEF RInv, Empty
<1>6. NotLost'
    BY <1>1, <1>3, <1>4 DEF RInv, NotLost
<1>7. Second'
    BY <1>1, <1>4 DEF RInv, Second, Has
<1> QED
    BY <1>5, <1>6, <1>7 DEF RInv

\* The last rotated ledger is set, and with it, in a rotation, the names.
LEMMA RunSetStateReads == ASSUME IInv, KInv, RInv, RunDecide \/ RunSetState PROVE RInv'
<1>1. /\ UNCHANGED <<stored, batch, closed, lost, process, writable, archive, dirs, reader, newdir>>
      /\ thread \in {"decide", "swap"} /\ thread' \in {"top", "clear", "rotate"}
    BY HealthMoves DEF RunDecide, RunSetState, HealthSwitch, UnchangedByRun, db, chain
<1>2. thread' = "rotate" => thread = "swap"
    BY HealthMoves DEF RunDecide, RunSetState, HealthSwitch
<1>3. saved'.lastrotated >= saved.lastrotated /\ saved'.lastrotated \in Nat /\ saved.lastrotated \in Nat
    <2>1. saved.lastrotated \in 0..MaxLedger /\ validated \in 0..MaxLedger
        BY DEF IInv
    <2>2. CASE RunDecide
        <3>1. CASE lastrotated = 0
            <4>1. saved.lastrotated = 0
                BY <1>1, <3>1, UpWhileRunning, <2>2 DEF KInv, Thread
            <4>2. saved'.lastrotated = validated
                BY <2>2, <3>1 DEF RunDecide, IInv
            <4> QED
                BY <2>1, <4>1, <4>2, SMTT(30)
        <3>2. CASE lastrotated # 0
            BY <2>1, <2>2, <3>2 DEF RunDecide
        <3> QED
            BY <3>1, <3>2
    <2>3. CASE RunSetState
        <3>1. validated >= saved.lastrotated + DeleteInterval
            BY <2>3, ZenonT(30) DEF RunSetState, KInv, Thread, Rotating
        <3>2. saved'.lastrotated = validated
            BY <2>3, SMTT(30) DEF RunSetState
        <3> QED
            BY <2>1, <3>1, <3>2, SHAMapStoreAssumption
    <2> QED
        BY <2>2, <2>3
<1>4. \A d : Has(d)' = Has(d)
    BY <1>1 DEF Has
<1>5. Made' = Made /\ Wanted' \subseteq Wanted
    <2>1. Wanted' = UNION {State(n) : n \in {k \in 1..closed : k >= saved'.lastrotated}}
        BY <1>1 DEF Wanted, State
    <2>2. closed \in Nat
        BY DEF IInv
    <2>3. \A k \in 1..closed : k >= saved'.lastrotated => k >= saved.lastrotated
        BY <1>3, <2>2
    <2> QED
        BY <1>1, <2>1, <2>3, Zenon DEF Wanted, Made, State
<1>6. Empty'
    <2>1. (thread \in {"swap", "rotate"} => Has(newdir) = {})'
        BY <1>1, <1>2, Zenon DEF RInv, Empty, Has
    <2> QED
        BY <1>1, <1>4, <2>1, Zenon DEF RInv, Empty
<1>7. NotLost'
    <2>1. \A d \in Open' : d \in Open \/ Has(d) = {}
        <3>1. CASE RunDecide
            <4>1. saved'.writable = saved.writable /\ saved'.archive = saved.archive
                BY <3>1, SMTT(30) DEF RunDecide, IInv
            <4> QED
                BY <1>1, <4>1 DEF Open, Named
        <3>2. CASE RunSetState
            <4>1. saved'.writable = newdir /\ saved'.archive = writable /\ thread = "swap"
                BY <3>2, SMTT(30) DEF RunSetState
            <4>2. Has(newdir) = {}
                BY <4>1 DEF RInv, Empty
            <4> QED
                BY <1>1, <4>1, <4>2, SMTT(30) DEF Open, Named
        <3> QED
            BY <3>1, <3>2, SMTT(30)
    <2> QED
        BY <1>1, <1>4, <1>5, <2>1 DEF RInv, NotLost
<1>8. Second'
    BY <1>1, <1>5, Zenon DEF RInv, Second, Has
<1> QED
    BY <1>6, <1>7, <1>8 DEF RInv

\* The databases are rotated: the archive is now what was the writable database.
LEMMA RunRotateBackendsReads == ASSUME IInv, KInv, RInv, RunRotateBackends PROVE RInv'
<1>1. /\ thread = "rotate" /\ thread' = "drop" /\ archive' = writable /\ writable' = newdir
      /\ UNCHANGED <<stored, batch, saved, closed, lost, process, dirs, reader>>
    BY DEF RunRotateBackends, UnchangedByRun, disk, chain
<1>2. process = "up" /\ Running
    BY <1>1, UpWhileRunning, SMTT(30)
<1>3. saved.writable = newdir /\ saved.archive = writable /\ saved.writable # None
    BY <1>1, <1>2, OpenDirs, SMTT(30) DEF Running, Agree
<1>4. Has(newdir) = {}
    BY <1>1 DEF RInv, Empty
<1>5. \A d : Has(d)' = Has(d)
    BY <1>1 DEF Has
<1>6. Made' = Made /\ Wanted' = Wanted
    BY <1>1, SMTT(30) DEF Made, Wanted, State
<1>7. Open' \subseteq Open
    BY <1>1, <1>3, SMTT(30) DEF Open, Named
<1>8. Empty'
    BY <1>1, <1>5 DEF RInv, Empty
<1>9. NotLost'
    BY <1>1, <1>5, <1>6, <1>7, SMTT(30) DEF RInv, NotLost
<1>10. Wanted \subseteq Has(writable) \cup lost
    <2>1. Wanted \subseteq Has(saved.writable) \cup Has(saved.archive) \cup lost
        BY <1>3, Zenon DEF KInv, Kept
    <2> QED
        BY <1>3, <1>4, <2>1
<1>11. Has(archive)' = Has(writable)
    BY <1>1, Zenon DEF Has
<1>12. Second'
    BY <1>1, <1>6, <1>10, <1>11 DEF RInv, Second
<1> QED
    BY <1>8, <1>9, <1>12 DEF RInv

\* The old database is removed.
LEMMA RunDropReads == ASSUME IInv, KInv, RInv, RunDrop PROVE RInv'
<1>1. /\ thread = "drop" /\ thread' = "top" /\ dirs' = dirs \ {olddir}
      /\ stored' = [stored EXCEPT ![olddir] = {}] /\ batch' = [batch EXCEPT ![olddir] = {}]
      /\ UNCHANGED <<saved, closed, lost, process, writable, archive, reader>>
    BY DEF RunDrop, UnchangedByRun, chain
<1>2. process = "up" /\ Running
    BY <1>1, UpWhileRunning, SMTT(30)
<1>3. /\ writable \in Dir /\ archive \in Dir
      /\ olddir \notin {writable, archive, saved.writable, saved.archive}
    BY <1>1, <1>2, OpenDirs, SMTT(30) DEF Running, Agree
<1>4. stored \in [Dir -> SUBSET Made] /\ batch \in [Dir -> SUBSET Made]
    BY DEF KInv, Kept
<1>5. \A d \in Dir : Has(d)' = IF d = olddir THEN {} ELSE Has(d)
    BY <1>1, <1>4 DEF Has
<1>6. Made' = Made /\ Wanted' = Wanted /\ Open' = Open
    BY <1>1, Zenon DEF Made, Wanted, State, Open, Named
<1>7. Empty'
    BY <1>1, <1>2, <1>5 DEF RInv, Empty
<1>8. NotLost'
    BY <1>1, <1>5, <1>6 DEF RInv, NotLost, Open
<1>9. Second'
    <2>1. Has(archive)' = Has(archive)
        BY <1>1, <1>3, <1>5, Zenon DEF Has
    <2> QED
        BY <1>1, <1>6, <2>1 DEF RInv, Second
<1> QED
    BY <1>7, <1>8, <1>9, SMTT(30) DEF RInv

-----------------------------------------------------------------------------
\* It holds at first.
LEMMA InitReads == Init => RInv
<1> SUFFICES ASSUME Init PROVE RInv
    OBVIOUS
<1>1. \A d \in Dir : stored[d] = {} /\ batch[d] = {} /\ Has(d) = {}
    BY SMTT(30) DEF Init, Has
<1>2. Empty
    BY <1>1, SMTT(30) DEF Init, Empty
<1>3. NotLost
    BY <1>1, SMTT(30) DEF Init, NotLost, Open
<1>4. Second
    BY DEF Init, Second, Idle
<1> QED
    BY <1>2, <1>3, <1>4 DEF RInv

\* Every step keeps the invariant.
LEMMA NextReads == ASSUME IInv, KInv, RInv, [Next]_vars PROVE RInv'
<1>1. CASE UNCHANGED vars
    BY <1>1, StayReads DEF vars, disk, db, run, chain
<1>2. CASE DbPaths \/ MakeDatabase \/ MakeDatabaseSave \/ Crash \/ Exit
    BY <1>2, StartReads, EndReads
<1>3. CASE CloseLedger \/ \E d \in Dir : WriteBatch(d)
    BY <1>3, CloseLedgerReads, WriteBatchReads
<1>4. CASE FetchFirst \/ FetchSecond \/ FetchDone
    BY <1>4, FetchReads
<1>5. CASE \/ OnLedgerClosed \/ SetCanDelete \/ OnStop \/ RunBegin \/ RunTop \/ RunSpuriousWake
           \/ RunTake \/ RunClearPrior \/ RunCleared \/ RunCopied
    BY <1>5, CalmReads
<1>6. CASE RunCopyNode \/ RunFreshen \/ RunMakeBackend
    BY <1>6, CopyReads, RunMakeBackendReads
<1>7. CASE RunDecide \/ RunSetState \/ RunRotateBackends \/ RunDrop
    BY <1>7, RunSetStateReads, RunRotateBackendsReads, RunDropReads
<1> QED
    BY <1>1, <1>2, <1>3, <1>4, <1>5, <1>6, <1>7, SMTT(30) DEF Next, RunStep

\* It holds throughout.
THEOREM FindsInvariance == Spec => []RInv
<1>1. IInv /\ KInv /\ RInv /\ [Next]_vars => RInv'
    BY NextReads
<1> QED
    BY Invariance, KeepsInvariance, InitReads, <1>1, PTL DEF Spec

\* Only its second lookup makes a reader miss.
LEMMA MissesAtSecond ==
    ASSUME IInv, KInv, [Next]_vars, reader'.at = "missed", reader.at # "missed" PROVE FetchSecond
<1>1. reader' # reader /\ reader' # Idle
    BY DEF Idle
<1>2. CASE DbPaths \/ MakeDatabase \/ MakeDatabaseSave \/ Crash \/ Exit
    BY <1>1, <1>2 DEF DbPaths, MakeDatabase, MakeDatabaseSave, Crash, Exit, Forget
<1>3. CASE CloseLedger \/ OnLedgerClosed \/ SetCanDelete \/ OnStop \/ \E d \in Dir : WriteBatch(d)
    BY <1>1, <1>3, Zenon DEF CloseLedger, OnLedgerClosed, SetCanDelete, OnStop, WriteBatch
<1>4. CASE FetchFirst
    <2>1. PICK x : reader' = [at |-> "second", node |-> x]
        BY <1>4 DEF FetchFirst
    <2> QED
        BY <2>1, SMTT(30)
<1>5. CASE FetchDone
    BY <1>1, <1>5, SMTT(30) DEF FetchDone
<1>6. CASE RunStep \/ RunSpuriousWake
    BY <1>1, <1>6 DEF RunStep, RunBegin, RunTop, RunSpuriousWake, RunTake, RunDecide, RunClearPrior,
                      RunCleared, RunCopyNode, RunCopied, RunFreshen, RunMakeBackend, RunSetState,
                      RunRotateBackends, RunDrop, UnchangedByRun
<1>7. CASE UNCHANGED vars
    BY <1>1, <1>7 DEF vars
<1> QED
    BY <1>2, <1>3, <1>4, <1>5, <1>6, <1>7, SMTT(30) DEF Next

\* For every interval and any sharing of nodes between ledgers: a fetch between
\* whose two lookups the databases are rotated, once or several times, does not
\* miss a node of the ledgers that are kept, unless the node waits to be written.
THEOREM FetchesFind == Spec => FetchFinds
<1>1. IInv /\ KInv /\ RInv /\ [Next]_vars
        => [reader'.at = "missed" /\ reader.at # "missed" =>
              \/ \E d \in dirs : reader.node \in batch[d]
              \/ reader.node \notin Wanted]_vars
    <2> SUFFICES ASSUME IInv, KInv, RInv, [Next]_vars, reader'.at = "missed", reader.at # "missed",
                        reader.node \in Wanted
                 PROVE  \E d \in dirs : reader.node \in batch[d]
        OBVIOUS
    <2>1. FetchSecond
        BY MissesAtSecond
    <2>2. reader.at = "second" /\ reader.node \notin stored[archive]
        <3>1. reader \in [at : {"idle", "second", "found", "missed"}, node : Made \cup {None}]
            BY DEF KInv, Reading
        <3> QED
            BY <2>1, <3>1 DEF FetchSecond, GetBackends
    <2>3. reader.node \in batch[archive]
        BY <2>2 DEF RInv, Second, Has
    <2>4. archive \in dirs
        BY <2>2, OpenDatabases DEF KInv, Reading
    <2> QED
        BY <2>3, <2>4
<1> QED
    BY Invariance, KeepsInvariance, FindsInvariance, <1>1, PTL DEF Spec, FetchFinds

-----------------------------------------------------------------------------
(***************************************************************************)
(* The types of what the other invariants do not speak of.                 *)
(***************************************************************************)

Types ==
    /\ candelete \in CanDelete \cup {0} /\ rows \subseteq Ledger /\ starts \in 0..MaxStarts
    /\ tocopy \subseteq Node /\ stop \in BOOLEAN /\ healthy \in BOOLEAN

\* The nodes of a ledger.
LEMMA StateIsNodes == ASSUME NEW n \in Ledger PROVE State(n) \subseteq Node
BY RestAssumption, SMTT(30) DEF State, Node

\* All that was made are nodes.
LEMMA MadeIsNodes == ASSUME IInv PROVE Made \subseteq Node
<1>1. 1..closed \subseteq Ledger
    BY SHAMapStoreAssumption DEF IInv, Ledger
<1> QED
    BY <1>1, StateIsNodes, SMTT(30) DEF Made

\* health() leaves a Boolean.
LEMMA HealthIsBoolean ==
    ASSUME NEW ok, NEW leave, Health(ok, leave), healthy \in BOOLEAN PROVE healthy' \in BOOLEAN
BY Zenon DEF Health

\* The server.
LEMMA ServerTypes ==
    ASSUME IInv, KInv, Types,
           \/ DbPaths \/ MakeDatabase \/ MakeDatabaseSave \/ Crash \/ Exit
           \/ CloseLedger \/ OnLedgerClosed \/ SetCanDelete \/ OnStop
           \/ \E d \in Dir : WriteBatch(d)
           \/ FetchFirst \/ FetchSecond \/ FetchDone
    PROVE  Types'
<1>1. CASE DbPaths \/ MakeDatabase \/ MakeDatabaseSave
    <2>1. UNCHANGED <<candelete, rows, tocopy, stop, healthy>>
        BY <1>1 DEF DbPaths, MakeDatabase, MakeDatabaseSave, run
    <2>2. starts' = starts \/ (starts < MaxStarts /\ starts' = starts + 1)
        BY <1>1 DEF DbPaths, MakeDatabase, MakeDatabaseSave
    <2>3. starts' \in 0..MaxStarts
        BY <2>2, SHAMapStoreAssumption DEF Types
    <2> QED
        BY <2>1, <2>3 DEF Types
<1>2. CASE Crash \/ Exit
    <2>1. UNCHANGED <<candelete, rows, starts>> /\ tocopy' = {} /\ stop' = FALSE /\ healthy' = TRUE
        BY <1>2, Zenon DEF Crash, Exit, Forget, disk
    <2> QED
        BY <2>1, Zenon DEF Types
<1>3. CASE OnLedgerClosed
    <2>1. UNCHANGED <<candelete, starts, tocopy, stop, healthy>> /\ rows' = rows \cup (valid + 1)..closed
        BY <1>3, SMTT(30) DEF OnLedgerClosed
    <2>2. valid \in 0..closed /\ closed \in 0..MaxLedger
        BY DEF KInv, RowsKept, IInv
    <2>3. (valid + 1)..closed \subseteq Ledger
        BY <2>2, SHAMapStoreAssumption DEF Ledger
    <2> QED
        BY <2>1, <2>3, SMTT(30) DEF Types
<1>4. CASE SetCanDelete
    <2>1. UNCHANGED <<rows, starts, tocopy, stop, healthy>> /\ candelete' \in CanDelete
        BY <1>4 DEF SetCanDelete, run
    <2> QED
        BY <2>1, SMTT(30) DEF Types
<1>5. CASE OnStop
    <2>1. UNCHANGED <<candelete, rows, starts, tocopy, healthy>> /\ stop' = TRUE
        BY <1>5 DEF OnStop, disk
    <2> QED
        BY <2>1, SMTT(30) DEF Types
<1>6. CASE CloseLedger \/ (\E d \in Dir : WriteBatch(d)) \/ FetchFirst \/ FetchSecond \/ FetchDone
    <2>1. UNCHANGED <<candelete, rows, starts, tocopy, stop, healthy>>
        BY <1>6, Zenon
           DEF CloseLedger, WriteBatch, FetchFirst, FetchSecond, FetchDone, UnchangedByReader,
                    disk, run
    <2> QED
        BY <2>1 DEF Types
<1> QED
    BY <1>1, <1>2, <1>3, <1>4, <1>5, <1>6

\* The thread.
LEMMA RunTypes == ASSUME IInv, KInv, Types, RunStep \/ RunSpuriousWake PROVE Types'
<1>1. UNCHANGED <<candelete, starts, stop>>
    BY ZenonT(30) DEF RunStep, RunBegin, RunTop, RunSpuriousWake, RunTake, RunDecide, RunClearPrior,
           RunCleared, RunCopyNode, RunCopied, RunFreshen, RunMakeBackend, RunSetState,
           RunRotateBackends, RunDrop, UnchangedByRun, disk
<1>2. rows' \subseteq rows
    BY DEF RunStep, RunBegin, RunTop, RunSpuriousWake, RunTake, RunDecide, RunClearPrior, ClearSqlBatch,
           RunCleared, RunCopyNode, RunCopied, RunFreshen, RunMakeBackend, RunSetState,
           RunRotateBackends, RunDrop, disk
<1>3. tocopy' \subseteq Node
    <2>1. CASE RunCleared
        <3>1. tocopy' = State(validated) /\ thread = "cleared"
            BY <2>1, SMTT(30) DEF RunCleared
        <3>2. validated \in 1..closed /\ closed \in 0..MaxLedger
            BY <3>1 DEF KInv, Thread, Rotating, Recent, Pending, IInv
        <3>3. validated \in Ledger
            BY <3>2, SHAMapStoreAssumption DEF Ledger
        <3> QED
            BY <3>1, <3>3, StateIsNodes
    <2>2. CASE ~RunCleared
        <3>1. tocopy' \subseteq tocopy
            BY <2>2 DEF RunStep, RunBegin, RunTop, RunSpuriousWake, RunTake, RunDecide, RunClearPrior,
                   RunCopyNode, RunCopied, RunFreshen, RunMakeBackend, RunSetState,
                   RunRotateBackends, RunDrop
        <3> QED
            BY <3>1, SMTT(30) DEF Types
    <2> QED
        BY <2>1, <2>2
<1>4. healthy' \in BOOLEAN
    <2>1. CASE RunBegin \/ RunTop \/ RunSpuriousWake \/ RunTake \/ RunSetState \/ RunRotateBackends \/ RunDrop
        <3>1. healthy' = healthy \/ healthy' = TRUE
            BY <2>1, Zenon
               DEF RunBegin, RunTop, RunSpuriousWake, RunTake, RunSetState, RunRotateBackends, RunDrop
        <3> QED
            BY <3>1, Zenon DEF Types
    <2>2. CASE \/ RunDecide \/ RunClearPrior \/ RunCleared \/ RunCopyNode \/ RunCopied \/ RunFreshen
               \/ RunMakeBackend
        <3>1. UNCHANGED healthy \/ \E ok, leave : Health(ok, leave)
            BY <2>2 DEF RunDecide, RunClearPrior, RunCleared, RunCopyNode, RunCopied, RunFreshen,
                        RunMakeBackend, HealthSwitch
        <3> QED
            BY <3>1, HealthIsBoolean DEF Types
    <2> QED
        BY <2>1, <2>2 DEF RunStep
<1> QED
    BY <1>1, <1>2, <1>3, <1>4 DEF Types

\* Everything has its type, in each step of a start, a rotation and a stop; in
\* particular a rotation never has the same directory in two roles.
THEOREM TypeCorrect == Spec => []TypeOK
<1>1. Init => Types
    <2> SUFFICES ASSUME Init PROVE Types
        BY SMTT(30)
    <2>1. candelete = 0 /\ rows = {} /\ tocopy = {} /\ starts = 0 /\ 0 \in 0..MaxStarts
        BY SHAMapStoreAssumption DEF Init
    <2>2. stop = FALSE /\ healthy = TRUE
        BY Zenon DEF Init
    <2> QED
        BY <2>1, <2>2, Zenon DEF Types
<1>2. IInv /\ KInv /\ Types /\ [Next]_vars => Types'
    <2> SUFFICES ASSUME IInv, KInv, Types, [Next]_vars PROVE Types'
        BY SMTT(30)
    <2>1. CASE UNCHANGED vars
        BY <2>1, SMTT(30) DEF vars, disk, run, Types
    <2> QED
        BY <2>1, ServerTypes, RunTypes DEF Next
<1>3. IInv /\ KInv /\ RInv /\ Types => TypeOK
    <2> SUFFICES ASSUME IInv, KInv, RInv, Types PROVE TypeOK
        OBVIOUS
    <2>1. Made \subseteq Node
        BY MadeIsNodes
    <2>2. stored \in [Dir -> SUBSET Node] /\ batch \in [Dir -> SUBSET Node] /\ lost \subseteq Node
        BY <2>1, ZenonT(30) DEF KInv, Kept, RInv, NotLost
    <2>3. process = "up" => {writable, archive} \subseteq dirs /\ writable # archive
        BY SMTT(30) DEF IInv, Running
    <2>4. /\ saved \in [writable : Dir \cup {None}, archive : Dir \cup {None}, lastrotated : 0..MaxLedger]
          /\ dirs \subseteq Dir /\ process \in {"down", "open", "save", "up", "refused"}
          /\ newledger \in 0..MaxLedger
        BY DEF IInv
    <2> QED
        BY <2>2, <2>3, <2>4 DEF Types, TypeOK
<1> QED
    BY Invariance, KeepsInvariance, FindsInvariance, <1>1, <1>2, <1>3, PTL DEF Spec

-----------------------------------------------------------------------------
(***************************************************************************)
(* Stopping                                                                *)
(***************************************************************************)

\* The wake-up of onstop is not lost: run() never waits once stop_ is set,
\* whether onstop comes before the test of stop_, during the wait or while the
\* thread rotates.  (A new ledger has no such guarantee: the wait has no
\* predicate, and one that comes during a rotation stays in newledger_ until the
\* next notification.)
THEOREM StopHeard == Spec => [](stop => thread # "wait")
<1> DEFINE Heard == stop => thread # "wait"
<1>1. Init => Heard
    BY Zenon DEF Init
<1>2. Heard /\ [Next]_vars => Heard'
    <2> SUFFICES ASSUME Heard, [Next]_vars PROVE Heard'
        OBVIOUS
    <2>1. CASE UNCHANGED vars
        BY <2>1, Zenon DEF vars, run
    <2>2. CASE Crash \/ Exit
        BY <2>2, Zenon DEF Crash, Exit, Forget
    <2>3. CASE DbPaths \/ MakeDatabaseSave \/ CloseLedger \/ SetCanDelete \/ (\E d \in Dir : WriteBatch(d))
        BY <2>3, ZenonT(30) DEF DbPaths, MakeDatabaseSave, CloseLedger, SetCanDelete, WriteBatch, run
    <2>4. CASE MakeDatabase
        BY <2>4, Zenon DEF MakeDatabase
    <2>5. CASE OnLedgerClosed \/ OnStop
        <3>1. thread' = IF thread = "wait" THEN "woken" ELSE thread
            BY <2>5, Zenon DEF OnLedgerClosed, OnStop, Notify
        <3>2. thread' # "wait"
            BY <3>1
        <3> QED
            BY <3>2
    <2>6. CASE FetchFirst \/ FetchSecond \/ FetchDone
        BY <2>6, Zenon DEF FetchFirst, FetchSecond, FetchDone, UnchangedByReader, run
    <2>7. CASE RunTop
        BY <2>7, Zenon DEF RunTop, UnchangedByRun
    <2>8. CASE (RunStep /\ ~RunTop) \/ RunSpuriousWake
        <3>1. thread' # "wait"
            BY <2>8, HealthMoves
               DEF RunStep, RunSpuriousWake, RunBegin, RunTake, RunDecide, RunClearPrior, RunCleared,
                   RunCopyNode, RunCopied, RunFreshen, RunMakeBackend, RunSetState,
                   RunRotateBackends, RunDrop, HealthSwitch
        <3> QED
            BY <3>1
    <2> QED
        BY <2>1, <2>2, <2>3, <2>4, <2>5, <2>6, <2>7, <2>8, Zenon DEF Next
<1> QED
    BY <1>1, <1>2, PTL DEF Spec
=============================================================================
