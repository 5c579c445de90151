----------------------------- MODULE SHAMapStore -----------------------------
(***************************************************************************)
(* Online deletion (app/misc/SHAMapStoreImp.cpp) and the rotating node     *)
(* store (nodestore/impl/DatabaseRotatingImp.cpp).  Two databases are open:*)
(* the writable one takes all writes, the archive is only read.  A thread  *)
(* rotates them: it copies the state of a validated ledger into the        *)
(* writable database, makes that the archive, opens a new writable one and *)
(* deletes the old archive.  Their names are kept in state.db, so that the *)
(* server finds them when it starts again.                                 *)
(*                                                                         *)
(* The processes are the thread, the ledgers that are closed and validated,*)
(* one reader of the node store, the writer of the batches, the operator   *)
(* (stop, can_delete) and the crash of the process.                        *)
(*                                                                         *)
(* A ledger's account state is two nodes: a root that every ledger changes,*)
(* and a rest that a ledger may share with the one before.                 *)
(***************************************************************************)
EXTENDS Integers, FiniteSets

CONSTANTS
    DeleteInterval,   \* setup_.deleteinterval
    CanDelete,        \* arguments of can_delete
    Rest,             \* for each ledger, the ledger that its rest comes from
    Cached,           \* the kinds of nodes that readers ask for and caches hold
    MaxLedger,        \* bound: ledgers closed
    MaxDirs,          \* bound: directories at a time
    MaxStarts         \* bound: starts of the server

ASSUME SHAMapStoreAssumption ==
    /\ DeleteInterval \in Nat \ {0} /\ CanDelete \subseteq Nat /\ Cached \subseteq {"root", "rest"}
    /\ MaxLedger \in Nat /\ MaxDirs \in Nat \ {0, 1} /\ MaxStarts \in Nat

Ledger == 1..MaxLedger

\* A ledger's rest is its own, or that of the ledgers before it back to the one
\* that made it.
ASSUME RestAssumption ==
    /\ Rest \in [Ledger -> Ledger]
    /\ \A n \in Ledger : Rest[n] <= n
    /\ \A n \in Ledger, k \in Ledger : k <= n => Rest[n] = Rest[k] \/ Rest[n] > k

Dir == 1..MaxDirs

None == 0    \* an empty path, and no ledger

Node == {"root", "rest"} \X Ledger

VARIABLES
    \* on disk
    saved,         \* the row of dbstate: writabledb, archivedb, lastrotatedledger
    candelete,     \* the row of candelete
    rows,          \* ledgers with rows in the SQL databases
    dirs,          \* directories of node databases
    stored,        \* the nodes in each of them
    \* in memory
    process,       \* the server: "down", "open", "save", "up" or "refused"
    batch,         \* nodes that each database has taken and not yet written
    writable, archive,      \* writablebackend_, archivebackend_
    newledger, stop,        \* newledger_, stop_
    thread,                 \* where run() is
    healthy,                \* healthy_
    lastrotated, validated, \* locals of run(), and validatedledger_
    tocopy, newdir, olddir, \* nodes not yet visited, newbackend, oldbackend
    reader,                 \* a call of fetchfrom
    \* the ledgers, and what crashes took
    closed, valid, \* the last closed and the last validated ledger
    lost, starts

disk == <<saved, candelete, rows, dirs, stored>>
db == <<batch, writable, archive>>
run == <<thread, healthy, lastrotated, validated, tocopy, newdir, olddir>>
chain == <<closed, valid, lost>>
vars == <<disk, process, db, newledger, stop, run, reader, chain, starts>>

State(n) == {<<"root", n>>, <<"rest", Rest[n]>>}

Idle == [at |-> "idle", node |-> None]

\* A new directory; unique_path gives a name that is not in use.
Unused == CHOOSE d \in Dir : d \notin dirs

\* store() of a database: the nodes are queued for its batch writer.
Store(d, nodes) == batch' = [batch EXCEPT ![d] = @ \cup nodes]

\* fetchfrom() by the thread: what only the archive has is stored again.
Refetch(x) ==
    IF x \notin stored[writable] /\ x \in stored[archive] THEN Store(writable, {x})
    ELSE UNCHANGED batch

-----------------------------------------------------------------------------
(***************************************************************************)
(* Start and end of the server                                             *)
(***************************************************************************)

Named == {saved.writable, saved.archive} \ {None}

\* The test of dbpaths: what state.db names is there, and it names both or none.
NamesGood == Named \subseteq dirs /\ (saved.writable = None <=> saved.archive = None)

\* Mutant: other directories stay.
DbPathsKeepsOthers ==
    /\ process = "down" /\ starts < MaxStarts
    /\ starts' = starts + 1
    /\ process' = IF NamesGood THEN "open" ELSE "refused"
    /\ UNCHANGED <<disk, db, newledger, stop, run, reader, chain>>

\* The constructor and dbpaths: directories that state.db does not name are
\* removed; if the test fails the server refuses to start.
DbPaths ==
    /\ process = "down" /\ starts < MaxStarts
    /\ starts' = starts + 1
    /\ dirs' = dirs \cap Named
    /\ stored' = [d \in Dir |-> IF d \in Named THEN stored[d] ELSE {}]
    /\ process' = IF NamesGood THEN "open" ELSE "refused"
    /\ UNCHANGED <<saved, candelete, rows, db, newledger, stop, run, reader, chain>>

\* makedatabase: the two databases are opened, at first in new directories.
MakeDatabase ==
    /\ process = "open"
    /\ IF saved.writable = None
       THEN /\ writable' = 1 /\ archive' = 2 /\ dirs' = {1, 2} /\ process' = "save"
       ELSE /\ writable' = saved.writable /\ archive' = saved.archive /\ process' = "up"
            /\ UNCHANGED dirs
    /\ thread' = "load"
    /\ UNCHANGED <<saved, candelete, rows, stored, batch, newledger, stop, healthy, lastrotated,
                   validated, tocopy, newdir, olddir, reader, chain, starts>>

\* makedatabase, at the first start: their names are saved.
MakeDatabaseSave ==
    /\ process = "save"
    /\ saved' = [saved EXCEPT !.writable = writable, !.archive = archive]
    /\ process' = "up"
    /\ UNCHANGED <<candelete, rows, dirs, stored, db, newledger, stop, run, reader, chain,
                   starts>>

\* What is in memory is gone.
Forget ==
    /\ process' = "down" /\ writable' = None /\ archive' = None
    /\ newledger' = None /\ stop' = FALSE /\ thread' = "none" /\ healthy' = TRUE
    /\ lastrotated' = 0 /\ validated' = None /\ tocopy' = {} /\ newdir' = None /\ olddir' = None
    /\ reader' = Idle
    /\ batch' = [d \in Dir |-> {}]

\* The process ends without warning: what is not written is lost.
Crash ==
    /\ process \in {"open", "save", "up"} /\ starts < MaxStarts
    /\ Forget
    /\ lost' = (lost \cup UNION {batch[d] : d \in dirs}) \ UNION {stored[d] : d \in Named}
    /\ UNCHANGED <<disk, closed, valid, starts>>

\* The server has stopped: the databases are closed, and write what they have.
Exit ==
    /\ process = "up" /\ thread = "stopped"
    /\ Forget
    /\ stored' = [d \in Dir |-> stored[d] \cup batch[d]]
    /\ UNCHANGED <<saved, candelete, rows, dirs, chain, starts>>

-----------------------------------------------------------------------------
(***************************************************************************)
(* The server around the thread                                            *)
(***************************************************************************)

\* notify_one on cond_, which only a waiting thread hears.
Notify == thread' = IF thread = "wait" THEN "woken" ELSE thread

\* A ledger is closed and its new nodes are stored; nodes of its state that a
\* crash took have been acquired again.
CloseLedger ==
    /\ process = "up" /\ closed < MaxLedger
    /\ closed' = closed + 1
    /\ LET new == State(closed + 1)
       IN  /\ Store(writable, {x \in new : x[2] = closed + 1 \/ x \in lost})
           /\ lost' = lost \ new
    /\ UNCHANGED <<disk, process, writable, archive, newledger, stop, run, reader, valid, starts>>

\* The ledgers closed so far are validated: onledgerclosed.  Their rows are saved,
\* which the code does a little later.
OnLedgerClosed ==
    /\ process = "up" /\ valid < closed
    /\ valid' = closed
    /\ rows' = rows \cup (valid + 1)..closed
    /\ newledger' = closed
    /\ Notify
    /\ UNCHANGED <<saved, candelete, dirs, stored, process, db, stop, healthy, lastrotated,
                   validated, tocopy, newdir, olddir, reader, closed, lost, starts>>

\* The batch writer of a database writes what the database has taken.
WriteBatch(d) ==
    /\ process = "up" /\ batch[d] # {}
    /\ stored' = [stored EXCEPT ![d] = @ \cup batch[d]]
    /\ batch' = [batch EXCEPT ![d] = {}]
    /\ UNCHANGED <<saved, candelete, rows, dirs, process, writable, archive, newledger, stop, run,
                   reader, chain, starts>>

\* The RPC command can_delete.
SetCanDelete ==
    /\ process = "up"
    /\ \E n \in CanDelete : n # candelete /\ candelete' = n
    /\ UNCHANGED <<saved, rows, dirs, stored, process, db, newledger, stop, run, reader, chain,
                   starts>>

\* onstop and onchildrenstopped.
OnStop ==
    /\ process = "up" /\ ~stop
    /\ stop' = TRUE
    /\ Notify
    /\ UNCHANGED <<disk, process, db, newledger, healthy, lastrotated, validated, tocopy, newdir,
                   olddir, reader, chain, starts>>

-----------------------------------------------------------------------------
(***************************************************************************)
(* fetchfrom.  getbackends returns references, so that each of the two     *)
(* lookups goes to the database that has its role at that moment.          *)
(***************************************************************************)

UnchangedByReader ==
    UNCHANGED <<disk, process, writable, archive, newledger, stop, run, chain, starts>>

\* Mutant: the archive is looked at first.
GetBackendsSwapped == <<archive, writable>>

\* getbackends: in the order of the lookups.
GetBackends == <<writable, archive>>

\* The nodes of the ledgers from the last rotated one on.
Wanted == UNION {State(n) : n \in {k \in 1..closed : k >= saved.lastrotated}}

\* A call for a node that is wanted and that one of the databases has.  The first
\* lookup ends the call if it finds the node, and changes nothing.
FetchFirst ==
    /\ process = "up" /\ reader.at = "idle"
    /\ \E x \in Wanted \cap ((stored[writable] \cup stored[archive]) \ stored[GetBackends[1]]) :
        x[1] \in Cached /\ reader' = [at |-> "second", node |-> x]
    /\ UnchangedByReader /\ UNCHANGED batch

FetchSecond ==
    /\ reader.at = "second"
    /\ reader' = [reader EXCEPT
                     !.at = IF reader.node \in stored[GetBackends[2]] THEN "found" ELSE "missed"]
    /\ UnchangedByReader /\ UNCHANGED batch

\* The end of the call: a node from the archive is stored again.
FetchDone ==
    /\ reader.at \in {"found", "missed"}
    /\ IF reader.at = "found" THEN Store(writable, {reader.node}) ELSE UNCHANGED batch
    /\ reader' = Idle
    /\ UnchangedByReader

-----------------------------------------------------------------------------
(***************************************************************************)
(* run()                                                                   *)
(***************************************************************************)

\* Mutant: a server that is healthy again goes on with what it had given up.
HealthNotSticky(ok, leave) ==
    \/ stop /\ thread' = leave /\ UNCHANGED healthy
    \/ ~stop /\ \E h \in BOOLEAN : healthy' = h /\ thread' = IF h THEN ok ELSE leave

\* health(): it is "stopping", or unhealthy from the first bad test on until the
\* loop begins anew.  The operating mode and the age of the validated ledger may
\* be anything at each test.
Health(ok, leave) ==
    \/ stop /\ thread' = leave /\ UNCHANGED healthy
    \/ ~stop /\ \E h \in BOOLEAN : /\ healthy' = (healthy /\ h)
                                   /\ thread' = IF healthy' THEN ok ELSE leave

\* The switch on health() after each part: on, or back to the loop, which ends
\* when the server is stopping.
HealthSwitch(ok) == Health(ok, "top")

UnchangedByRun == UNCHANGED <<process, newledger, stop, reader, chain, starts>>

\* The thread starts.
RunBegin ==
    /\ process = "up" /\ thread = "load"
    /\ lastrotated' = saved.lastrotated
    /\ thread' = "top"
    /\ UnchangedByRun /\ UNCHANGED <<disk, db, healthy, validated, tocopy, newdir, olddir>>

\* Mutant: the thread waits without a look at stop_.
RunTopNoTest ==
    /\ thread = "top"
    /\ healthy' = TRUE /\ validated' = None /\ newdir' = None /\ olddir' = None
    /\ thread' = "wait"
    /\ UnchangedByRun /\ UNCHANGED <<disk, db, lastrotated, tocopy>>

\* The head of the loop: the test of stop_ and the wait are under one lock.
RunTop ==
    /\ thread = "top"
    /\ healthy' = TRUE /\ validated' = None /\ newdir' = None /\ olddir' = None
    /\ thread' = IF stop THEN "stopped" ELSE "wait"
    /\ UnchangedByRun /\ UNCHANGED <<disk, db, lastrotated, tocopy>>

\* A wait may also end without a notification.
RunSpuriousWake ==
    /\ thread = "wait"
    /\ thread' = "woken"
    /\ UnchangedByRun
    /\ UNCHANGED <<disk, db, healthy, lastrotated, validated, tocopy, newdir, olddir>>

\* The wait has ended: the new ledger is taken, if there is one.
RunTake ==
    /\ thread = "woken"
    /\ validated' = newledger /\ newledger' = None
    /\ thread' = IF newledger = None THEN "top" ELSE "decide"
    /\ UNCHANGED <<disk, process, db, stop, healthy, lastrotated, tocopy, newdir, olddir, reader,
                   chain, starts>>

\* Is it time to rotate?
RunDecide ==
    /\ thread = "decide"
    /\ IF lastrotated = 0
       THEN /\ lastrotated' = validated
            /\ saved' = [saved EXCEPT !.lastrotated = validated]
            /\ thread' = "top" /\ UNCHANGED healthy
       ELSE /\ IF validated >= lastrotated + DeleteInterval /\ candelete >= lastrotated - 1
               THEN HealthSwitch("clear")
               ELSE thread' = "top" /\ UNCHANGED healthy
            /\ UNCHANGED <<lastrotated, saved>>
    /\ UnchangedByRun
    /\ UNCHANGED <<candelete, rows, dirs, stored, db, validated, tocopy, newdir, olddir>>

\* clearsql deletes the rows of old ledgers in batches, the oldest ones first.
ClearSqlBatch(old) == rows' = rows \ {n \in old : \A k \in old : n <= k}

\* clearprior: the rows of ledgers before lastrotated.
RunClearPrior ==
    /\ thread = "clear"
    /\ LET old == {n \in rows : n < lastrotated}
       IN  IF old = {} THEN thread' = "cleared" /\ UNCHANGED <<rows, healthy>>
           ELSE /\ ClearSqlBatch(old)
                /\ Health("clear", "cleared")
    /\ UnchangedByRun
    /\ UNCHANGED <<saved, candelete, dirs, stored, db, lastrotated, validated, tocopy, newdir,
                   olddir>>

RunCleared ==
    /\ thread = "cleared"
    /\ HealthSwitch("copy")
    /\ tocopy' = State(validated)
    /\ UnchangedByRun /\ UNCHANGED <<disk, db, lastrotated, validated, newdir, olddir>>

\* visitnodes with copynode, which tests the health now and then.
RunCopyNode ==
    /\ thread = "copy"
    /\ IF tocopy = {} THEN thread' = "copied" /\ UNCHANGED <<batch, healthy, tocopy>>
       ELSE \E x \in tocopy :
                /\ Refetch(x)
                /\ tocopy' = tocopy \ {x}
                /\ UNCHANGED <<thread, healthy>> \/ Health("copy", "copied")
    /\ UnchangedByRun
    /\ UNCHANGED <<disk, writable, archive, lastrotated, validated, newdir, olddir>>

RunCopied ==
    /\ thread = "copied"
    /\ HealthSwitch("freshen")
    /\ tocopy' = {}
    /\ UnchangedByRun /\ UNCHANGED <<disk, db, lastrotated, validated, newdir, olddir>>

\* freshencaches: nodes that some cache holds are fetched.
RunFreshen ==
    /\ thread = "freshen"
    /\ \/ /\ \E x \in stored[archive] \ (stored[writable] \cup batch[writable]) :
                  x[1] \in Cached /\ Refetch(x)
          /\ UNCHANGED <<thread, healthy>>
       \/ HealthSwitch("make") /\ UNCHANGED batch
    /\ UnchangedByRun
    /\ UNCHANGED <<disk, writable, archive, lastrotated, validated, tocopy, newdir, olddir>>

\* makebackendrotating and clearcaches.  The directory of a rotation that is given
\* up now stays until the next start; MaxDirs bounds how many.
RunMakeBackend ==
    /\ thread = "make" /\ dirs # Dir
    /\ newdir' = Unused
    /\ dirs' = dirs \cup {Unused}
    /\ HealthSwitch("swap")
    /\ healthy' \/ Cardinality(dirs) + 1 < MaxDirs
    /\ UnchangedByRun
    /\ UNCHANGED <<saved, candelete, rows, stored, db, lastrotated, validated, tocopy, olddir>>

\* The new names are saved.
RunSetState ==
    /\ thread = "swap"
    /\ saved' = [writable |-> newdir, archive |-> writable, lastrotated |-> validated]
    /\ lastrotated' = validated
    /\ thread' = "rotate"
    /\ UnchangedByRun
    /\ UNCHANGED <<candelete, rows, dirs, stored, db, healthy, validated, tocopy, newdir, olddir>>

\* rotatebackends.
RunRotateBackends ==
    /\ thread = "rotate"
    /\ olddir' = archive /\ archive' = writable /\ writable' = newdir
    /\ thread' = "drop"
    /\ UnchangedByRun
    /\ UNCHANGED <<disk, batch, healthy, lastrotated, validated, tocopy, newdir>>

\* setdeletepath, and the old database is closed.
RunDrop ==
    /\ thread = "drop"
    /\ dirs' = dirs \ {olddir}
    /\ stored' = [stored EXCEPT ![olddir] = {}]
    /\ batch' = [batch EXCEPT ![olddir] = {}]
    /\ thread' = "top"
    /\ UnchangedByRun
    /\ UNCHANGED <<saved, candelete, rows, writable, archive, healthy, lastrotated, validated,
                   tocopy, newdir, olddir>>

-----------------------------------------------------------------------------
Init ==
    /\ saved = [writable |-> None, archive |-> None, lastrotated |-> 0]
    /\ candelete = 0 /\ rows = {} /\ dirs = {} /\ stored = [d \in Dir |-> {}]
    /\ process = "down" /\ writable = None /\ archive = None /\ batch = [d \in Dir |-> {}]
    /\ newledger = None /\ stop = FALSE /\ thread = "none" /\ healthy = TRUE
    /\ lastrotated = 0 /\ validated = None /\ tocopy = {} /\ newdir = None /\ olddir = None
    /\ reader = Idle
    /\ closed = 0 /\ valid = 0 /\ lost = {} /\ starts = 0

\* The ledgers that the thread has been given and has not done with.
Pending == {newledger, validated} \ {None}

(***************************************************************************)
(* Two things are assumed of the pace of the server, which no test in the  *)
(* code enforces: the thread is done with a ledger before DeleteInterval   *)
(* more are closed, and what the archive took while it was the writable    *)
(* database is written by the time that the next rotation begins.  (An     *)
(* interval is 256 ledgers at least, a batch is one job.)                  *)
(***************************************************************************)
ThreadKeepsUp == \A n \in Pending : closed + 1 < n + DeleteInterval
WriterKeepsUp == thread' = "clear" => batch[archive] = {}

RunStep ==
    \/ RunBegin \/ RunTop \/ RunTake \/ (RunDecide /\ WriterKeepsUp) \/ RunClearPrior
    \/ RunCleared \/ RunCopyNode \/ RunCopied \/ RunFreshen \/ RunMakeBackend \/ RunSetState
    \/ RunRotateBackends \/ RunDrop

Next ==
    \/ DbPaths \/ MakeDatabase \/ MakeDatabaseSave \/ Crash \/ Exit
    \/ (CloseLedger /\ ThreadKeepsUp) \/ OnLedgerClosed \/ SetCanDelete \/ OnStop
    \/ \E d \in Dir : WriteBatch(d)
    \/ FetchFirst \/ FetchSecond \/ FetchDone
    \/ RunStep \/ RunSpuriousWake

Spec == Init /\ [][Next]_vars

\* The thread runs, and the batches are written.
FairSpec == Spec /\ WF_vars(RunStep) /\ \A d \in Dir : WF_vars(WriteBatch(d))

-----------------------------------------------------------------------------
(***************************************************************************)
(* Properties                                                              *)
(***************************************************************************)

\* The type of the state; while the server runs its two databases are different
\* ones and are there.
TypeOK ==
    /\ saved \in [writable : Dir \cup {None}, archive : Dir \cup {None},
                  lastrotated : 0..MaxLedger]
    /\ candelete \in CanDelete \cup {0} /\ rows \subseteq Ledger /\ dirs \subseteq Dir
    /\ stored \in [Dir -> SUBSET Node] /\ batch \in [Dir -> SUBSET Node]
    /\ process \in {"down", "open", "save", "up", "refused"}
    /\ process = "up" => {writable, archive} \subseteq dirs /\ writable # archive
    /\ newledger \in 0..MaxLedger /\ stop \in BOOLEAN /\ healthy \in BOOLEAN
    /\ tocopy \subseteq Node /\ lost \subseteq Node
    /\ starts \in 0..MaxStarts

\* The server is never refused its start by dbpaths, wherever it was when it
\* ended, and it starts with no other directories than the two that it uses.
StartsClean == process # "refused" /\ (process = "open" => dirs = Named)

\* What the databases named in state.db hold, written or about to be.
Held == UNION {stored[d] \cup batch[d] : d \in Named \cap dirs}

\* Every ledger from the last rotated one on has its rows and its whole account
\* state, although the rotation may be given up, or the server may crash, between
\* any two of its steps ("to ensure that no necessary data for transaction
\* processing is lost", misc/README.md).  The exception is what a batch held when
\* the server crashed: a copy too, whose original goes with the old archive.
RotatedKept ==
    /\ Wanted \subseteq Held \cup lost
    /\ \A n \in 1..valid : n >= saved.lastrotated => n \in rows

\* A fetch that overlaps a rotation, and so may see the writable database of
\* before and the archive of after it, does not miss a node of the ledgers that
\* are kept, unless the node is still waiting to be written.
FetchFinds ==
    [][reader'.at = "missed" /\ reader.at # "missed" =>
        \/ \E d \in dirs : reader.node \in batch[d]
        \/ reader.node \notin Wanted]_vars

\* When the server stops, the thread ends, whether it waits or rotates.
StoreStops == (process = "up" /\ stop) ~> (thread = "stopped" \/ process = "down")
=============================================================================
