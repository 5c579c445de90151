# Verification of the MooreCoin server

TLA+ models of the server under `src/src/ripple` and of the thread pool under
`src/src/beast` that it uses, the TLC instances that check
them, and TLAPS proofs about them. Every definition that models code is mapped to
its source lines in `PROJECT.json`; this file says how to read the whole.

## 1. The system

The server is one node of a network that agrees, round by round, on the next
ledger. Clients and peers hand it transactions; it applies them to an *open*
ledger; every few seconds it closes that ledger, proposes the set of transactions
it held, negotiates with the peers it trusts until enough of them propose the same
set and the same close time, applies the agreed set to the last closed ledger, and
broadcasts a validation of the result. A ledger that enough validators signed is
*validated*, then *published* to clients.

| Part | State | Operations | What is hard |
|---|---|---|---|
| Consensus rounds (`app/consensus`) | our position, peers' positions, sets acquired and being acquired, disputes and their votes, view of the last closed ledger | timer call, peer proposal, set complete or failed, close, accept, end of round | sets, positions and disputes in any order; view changes in mid-round; an accept job that runs later; outcomes of acquisitions of an earlier round |
| Ledger timing (`app/ledger/LedgerTiming`) | close time and its resolution along the chain, clock offset | next resolution, rounding, offset correction | rounding several times must give one hash; division of negative numbers |
| Set acquisition (`app/tx/TransactionAcquire`, `app/peers/PeerSet`) | timeouts, outcome | timer, nodes received, completion job | a lock dropped for another one; late completions |
| Job queue (`core/impl/JobQueue`) | jobs waiting, running, deferred per type; stop flags | addjob, processtask, stop | limits per type kept by counting; stop racing with addjob; deferred jobs must run |
| Worker threads (`beast/module/core/thread/Workers`) | active, pausing, paused threads; tasks | addtask, setnumberofthreads, thread loop | lock-free counters |
| NetworkOPs (`app/misc`) | operating mode, current round, stored proposals | heartbeat, trystartconsensus, checklastclosedledger, transaction submission | stale votes for the network's ledger; mode against round |
| Validations, LedgerMaster (`app/misc`, `app/ledger`) | current validations, validated and published ledger, history | addvalidation, checkaccept, doadvance | validations out of order; locks dropped while ledgers are fetched |
| Inbound ledgers (`app/ledger`) | acquisitions, timeouts | acquire, timer, done | late answers, retries, failure |
| Overlay and peer finder (`overlay`, `peerfinder`) | connections, slots, counts, caches of addresses | connect, handshake, activate, close | slot counts over every path of a connection's life |
| Resource manager (`resource`) | entries, reference counts, balances | charge, expiry | expiry against new use |
| Online deletion (`app/misc/SHAMapStoreImp`, `nodestore/impl/DatabaseRotatingImp`) | two databases and their names in `state.db`, the rows of the ledgers, batches not yet written | start, rotate, fetch, stop | crash between any two steps of a rotation; a fetch whose two lookups lie on both sides of one |
| SHAMap, node store (`shamap`, `nodestore`) | trees of nodes, caches | fetch, synchronise | copy on write |
| Votes on fees, amendments, dividends (`app/misc`) | votes, majorities, dividend state | voting at flag ledgers | thresholds; dividend phases |
| Transaction engine (`app/tx`, `app/transactors`, `app/paths`) | ledger entries | apply | sequential |
| RPC, web sockets, HTTP, SNTP | sessions | requests | I/O |

What makes the parts that are modelled correct, and what the modules state:

* *Votes.* The counters of each disputed transaction are what the peers' sets say,
  in whatever order things arrive; silent, departed and dead peers have no weight.
* *One position.* Our votes, the set we propose and the set that is accepted are
  the same thing, although three pieces of code change them.
* *In sync.* We propose only on the network's ledger.
* *Acquisition.* Every set asked for gets exactly one outcome; the set of our own
  position is never lost.
* *Agreement.* A round that does not fail ends with more than 80 % behind our
  position; a close time that is not "no agreement" has backing; no transaction
  that was disputed is lost; a round ends when peers fall silent.
* *Close times.* Whoever builds or acquires a ledger computes the same close time.
* *Jobs.* No type runs more than its limit, every job runs, a stop is reported once
  and only when nothing is left.
* *Threads.* Each task is processed exactly once, whatever the order of the atomic
  operations of the workers, and the destructor of the pool ends.
* *Validated ledgers.* The last validated ledger has a quorum and never moves back;
  one that reaches its quorum is not missed.
* *Published ledgers.* Only validated ledgers are published, each once and in
  order, and publication catches up with validation.
* *Online deletion.* Whatever happens during a rotation, the next start succeeds
  and what the last rotated ledger and later ones need is kept and found.

## 2. Modules

| Module | Models | State and actions |
|---|---|---|
| `LedgerTiming` | `LedgerTiming.cpp/.h` | constants and pure operators: `ShouldClose`, `HaveConsensus`, `NextResolution` |
| `DisputedTx` | `DisputedTx.cpp` | a dispute as a record with votes *and* counters; `SetVotes`, `UnVotes`, `UpdateVote` |
| `LedgerConsensus` | `LedgerConsensus.cpp`, the calls NetworkOPs makes, `TransactionAcquire.cpp` | the consensus object is the record `c`, one field per member; each method is an operator on that record, each handler an action that applies the methods it calls |
| `ConsensusHeartbeat` | the heartbeat of NetworkOPs | the rounds with fairness |
| `LedgerCloseTime` | the close time of a chain of ledgers (`Ledger.cpp`, `LedgerTiming.cpp`, `accept`) | positions, the ledger built, the same ledger acquired elsewhere |
| `CloseTimeOffset` | `closetimeoffset`, the caller in `accept`, `mclosetimes` | the number of reported close times and their sum, the offset; a report, reports forgotten, one adjustment per round |
| `JobQueue` | `JobQueue.cpp`, the stop calls of `Stoppable.cpp` | jobs by type, tasks given to the workers, threads inside `processtask`, stop flags |
| `TaskPool` | what the comments of `Workers.h` promise | abstract: tasks owed, calls of `processtask` under way, closed |
| `Workers` | `Workers.cpp`, the events and semaphore it uses | the owner and each worker, one step per atomic operation; `TaskPool` under a refinement mapping |
| `LedgerMaster` | `LedgerMaster.cpp`, `Validations.cpp`, `InboundLedger(s).cpp` | validations, the ledgers held and being fetched, `mvalidledgerseq`, `mpubledgerseq`, the calls of `checkaccept` under way, the advance thread and the local variables of `findnewledgerstopublish` |
| `SHAMapStore` | `SHAMapStoreImp.cpp`, `DatabaseRotatingImp.cpp`, the batch writer | what is on disk, what is in memory, where the thread is in `run`, one reader |
| `MC*` | | model values, symmetry and small input sets for TLC |
| `*Proofs` | | lemmas and theorems, in eight modules |

### The consensus object

`c.state` is `mstate` plus `"none"` (no round) and `"crashed"` (a null pointer was
dereferenced or the process aborted). `c.our`, `c.peers`, `c.dead`, `c.acquired`,
`c.acquiring`, `c.compares`, `c.disputes` are `mourposition`, `mpeerpositions`,
`mdeadnodes`, `macquired` (with its null entries), `macquiring`, `mcompares`,
`mdisputes`. Handlers run under the master lock, so an action is a whole handler.
Three are several steps, as in the code: a view change replays stored proposals
one by one (`replaying` keeps every other handler out meanwhile); `ontimer` past
its eleventh timeout releases its lock and waits for the master lock (`OnTimer`,
`OnTimerLocked`); completion and accept are queued jobs.

A set of transactions stands for its SHAMap and hash, `{}` for the zero hash. A
transaction applies to a ledger or does not; the engine is not modelled. Time is
what the timer call reads: `\E m \in Times`, never decreasing. Close times are
numbers already rounded to the round's resolution. Peers are the environment: they
send any proposal of `PeerProposals` in any order, including after a bow-out.

### The job queue

Jobs of a type are counted as in `jobtypedata` (`waiting`, `running`, `deferred`);
`tasks` is the number of calls to `processtask` that the workers owe. `addjob` is
two steps, since it tests `isstopping` before it takes the mutex. The
assertion that guards the stop protocol is an assumption on callers: a job is
added by a running job or by a client that has not stopped.

### The threads of the job queue

`TaskPool` is the contract between the two: `JobQueue` is shown to use it
(`UsesTaskPool`: each step of the queue is a step of the pool or leaves it alone)
and `Workers` to implement it (`ImplementsTaskPool`). So what the queue's runs and
proofs assume of `tasks` is what the threads give. A pause is a count of the same
semaphore as a task; tasks owed are therefore the semaphore, plus the workers that
took a count and have not used it, less the pauses. The program sets the number of
threads once and lowers it only in the destructor, after the queue has stopped, so
the reuse of paused workers is left out.

### The ledger master

The network's ledgers form one chain; a ledger stands for its hash and its number.
What the node built and the network did not is not in the chain. Validators sign in
the order of the chain, so "later" is "of a later ledger" and validations do not
expire. An action is one section under `m_mutex`, or a read of `mvalidledgerseq` or
`mbuildingledgerseq` outside it; `doadvance` therefore is many actions, one for
each time it drops the lock. The two locked sections of `ladispatch` are one. The
list of stale validations and its writer are left out, as are held transactions,
`tryfill`, fetch packs and the range of complete ledgers; history is one older
ledger that may be missing. `setback` is not a member of the class: it remembers
that a round was begun for an earlier ledger than the one being built.

### Online deletion

The account state of a ledger is two nodes: a root, which every ledger changes, and
a rest, which it may share with the ledger before. The thread's steps are cut where
another process can see the difference: before and after `state.db` is written,
before and after the swap under the lock, before and after the old archive is
deleted, and at each call of `health()`, whose answer is free. A crash may happen
between any two of them, keeps what is on disk and loses the batches. Two things
that the code does not test are assumed of the environment. They are named and
stand beside the actions in `Next`, not in them: the archive's batch is written
by the time a rotation begins (`WriterKeepsUp`; a database becomes the archive a
whole interval earlier), and the thread is done with a ledger before
`DeleteInterval` more are closed (`ThreadKeepsUp`; the interval is at least 256
ledgers, some fifteen minutes). The rows of a validated ledger are saved in the
step that notifies the thread, although the code saves them a little later:
`setvalidledger` calls `onledgerclosed` (`LedgerMaster.cpp:226`), and
`pendsavevalidated` runs after it (`LedgerMaster.cpp:797`, or 666 in
`setfullledger`). So a crash that falls between the two, and leaves a validated
ledger without its rows, is not modelled. What a
crash took out of a batch is `lost`: the code does not promise to keep it, and the
copy of a node that was still in a batch goes with the archive that had the
original. A reader that holds the old archive while it is closed and deleted is
not followed into the backend.

### Close times

`LedgerCloseTime` keeps times as integers with the rounding of the code; the run
covers more than one period of every resolution in the table (the least common
multiple of the resolutions is 360 seconds, `MaxTime` is 400). `CloseTimeOffset`
uses division that truncates toward zero, as C++ does, where the code divides a
signed number, and division that rounds down where it divides a sum of times since
an epoch. Its times are seconds ahead of our wall clock; `accept` reads of
`mclosetimes` only the number and the sum of the reports, and they are what is kept.

## 3. Runs

Passing runs. Distinct states are those of one run of TLC.

| Run | Instance | Shows |
|---|---|---|
| `ConsensusVotes` | two peers, one transaction, any set may prove invalid, one round (about 256 000 states) | votes and counters, dead peers, our votes, the accept job, acquisitions, disputes after comparison, agreement at the end; the process ends only over a set that could not be acquired |
| `ConsensusViews` | one peer, one transaction, a pseudo-transaction, two ledgers of different close resolution, one view change, two rounds (381 000) | what a view change must clear, proposing in sync, completions of the first round or the old view that reach the next |
| `ConsensusEnds` | two peers, two close times, times in each phase of the avalanche, heartbeat fairness (73 000) | backing of the close time; silent peers do not hold up a round |
| `LedgerCloseTime` | times up to 400 s (6 500) | all who have a ledger have its close time; the resolution stays in the table, and comes to rest at its coarsest value under lasting disagreement and at its finest under agreement |
| `CloseTimeOffset` | four reports a round, clocks up to 10 s off (3 900) | the correction stays within the peers' clocks, and dies out once the reports of every round cancel out |
| `JobQueue` | three types, with limits of one and two and without one, four jobs, three threads (9 100) | limits, tasks and jobs match, no job is stranded, nothing after a stop; every job runs and the stop is reported |
| `Workers` | three workers, three tasks, the destructor (28 000) | refinement of `TaskPool`, its fairness included; no task runs when the wait for the last pause ends; the destructor ends |
| `LedgerAccept` | three validators, one without sequence numbers, two ledgers, two rounds (179 000) | the validated ledger has a quorum and never moves back; the check of a ledger with enough validations is not lost while consensus builds it or another one |
| `LedgerPublish` | four ledgers, one to be fetched, one failure, an older ledger missing (32 000) | publication in order, never ahead of validation, never forgotten by the advance thread, and complete in the end, the ledger whose acquisition failed included |
| `SHAMapStore` | five ledgers, an interval of two, four directories, two starts (551 000) | what is kept and what a fetch finds through two rotations, one crash or stop, and a restart; a stop ends the thread |

*Bounds.* `MaxSeq` bounds sequence numbers: a first and a changed position per
peer, and the bow-out. `MaxRounds` and `MaxViews` bound what TLC enumerates, not
the proofs. Two peers make every kind of split (agree, disagree, with or without
us); one peer suffices where the question is what a view or a round leaves behind.
`Times` has one reading for each phase a property distinguishes: before
`ledger_min_consensus`, between, and past the stuck limit.

`LedgerPublish` has `max_ledger_gap` and `acquire_limit` at two, so that four ledgers
reach both. `LedgerAccept` has a quorum of one and three validators: two make more
than the quorum without the one whose validations lack a sequence, and a count
grows past the quorum while a call of `checkaccept` waits; with two rounds the
second may build a later ledger, the same one or an earlier one. In `SHAMapStore` an interval of two and five ledgers give two rotations; the second
and the fourth ledger change the shared node, so each rotation has one node to
copy and one that is recent; four directories are the two in use, the one a
rotation makes and the one a rotation that was given up left behind.

*Deadlock* is checked only where the bounds leave the system something to do: a
bounded number of rounds, proposals, tasks or ledgers ends by itself.

*Fairness.* `ConsensusHeartbeat` asks that timer calls go on while a round is open
(`processheartbeattimer` always sets the timer again), that time passes
(positions go stale), and that queued jobs and waiting threads get their turn (the
job queue's promise, `JobsRun`). It does not ask that a timer call make progress.
`JobQueue` asks that worker threads run and that jobs finish.
`Workers` asks that every thread that can run does and that `processtask` returns,
but of the workers that wait for the semaphore only that *some* one gets it.
`LedgerMaster` asks that calls that have begun and queued jobs go on (`JobsRun`
again), that a round ends (`RoundEnds`) and that an acquisition ends, with the
ledger or without (`InboundLedger` counts its timeouts). `SHAMapStore` asks that
the thread runs and that batches are written; not that the health is ever good.
`LedgerCloseTime` asks that rounds go on; what they agree on is free except in the
hypothesis of the property. `CloseTimeOffset` asks that rounds go on.

Violation runs, each a disagreement between a statement in the repository and what
the code does (quoted in `findings`):

| Run | What TLC shows |
|---|---|
| `OwnSetLost` | an acquisition that gives up while it waits for the master lock replaces the set of our own position by null, which `mapcompleteinternal` asserts cannot be |
| `DisputesAfterView` | after a view change, sets compared before are never disputed again |

Met while modelling, and kept in the models as the code has them, without a run:
`takeinitialposition` dereferences the null map of a set that could not be
acquired (`LedgerConsensus.cpp:1636`; the step ends in `"crashed"`, and
`StopsOnFailedSet` says that nothing else ends there); after a bow-out `updatevote`
goes on flipping votes that `changeposition` no longer follows, so `accept` may not
retry a disputed transaction that our frozen set leaves out, and the round may end
with the close time of our last position (`DisputedNotLost` and `CloseTimeBacked`
are stated, and hold, for a node that has not bowed out);
`consensusbuilt` accepts a ledger with *more* than the needed validations where
`checkaccept` accepts *at least* that many, so that a ledger with exactly that many,
whose check was dropped while it was being built, waits for another validation or a
later ledger (`QuorumValidated` is stated, and holds, for more than needed); with two participants
75 % is rounded down to one, so two who disagree can each declare a close time.

Two more came out of the proof of `CheckPending`, whose first form, like that of
`QuorumValidated`, was true only of a single round. `mbuildingledgerseq` is one
number: a round that is given up for one that builds an earlier ledger overwrites
it, `consensusbuilt` of the earlier ledger returns at once if that one is validated
already ("built old ledger", `LedgerMaster.cpp:839`), and the check that was dropped
for the later sequence is not made up for until something else asks for
that ledger. And `consensusbuilt` checks only the latest ledger above its count
(`LedgerMaster.cpp:894-909`): when that one fails, an earlier ledger with enough
validations that was dropped is not tried. Both last until a later ledger is validated, so they
are hypotheses of the two properties (`setback`, `Contested`) and not findings.

Every property of a passing run has a mutant: a plausible mistake in the code it is
about, written beside the definition, under which TLC finds the property violated.

## 4. Proofs

All theorems hold for every value of the constants allowed by the named
assumptions (`ConsensusAssumption`, `ProposalAssumption`, `ResolutionAssumption`,
`NoneAssumption`, `WorkersAssumption`, `LedgerMasterAssumption`, `SHAMapStoreAssumption`,
`RestAssumption`, those of `JobQueue` and `LedgerCloseTime`), which TLC evaluates on
each run. `RestAssumption` says that a node a ledger shares with an earlier one is
shared by those between.

`ConsensusMethodProofs`. The predicate `RoundOK` on the consensus object alone:
counters match votes, voters have positions, votes follow the sets held, dead peers
have no position, our votes agree with our set until a bow-out, proposing implies
in sync and not bowed out, our own set has an outcome, the process ends only if
some set is null, and what ties `state` to `our`. Being a predicate on one record,
it is proved once for each *method* (`x` satisfies it, so does `Method(x)`), and an
action composes the lemmas of the methods it calls, as the handler composes the
methods. Inside a handler votes may lag behind sets, so the part about votes
(`VotesOK`) names the peers whose votes are still to be set. The lemmas also say
what a method keeps (`ComparesOK`, that a compared set has its differences under
dispute, which every method but `ChangeView` keeps) and what the vote on the close
time returns: a time that it finds agreed has three quarters of the voters, as
`computepercent` rounds them, which are at least half of any number of voters
(`ThreeQuarters`). Counting after `setvote` and `unvote` of a set of peers is
cardinality arithmetic.

`LedgerConsensusProofs`. The inductive invariant `IInv` is

* `TypeOK` and `RoundOK(c)`;
* `AcceptJobIsOurSet`, together with: a round is finished exactly while the
  accept job is queued, which is why nothing can move our position before it runs;
* `WaitingOK` and `DoneOK`: whoever waits for the master lock in `ontimer` either
  still owns the acquisition or belongs to an earlier round, and an acquisition
  that is over has its completion job; `AcquisitionsResolve` alone is not
  inductive, because `OnTimerLocked` ends an acquisition whose state it does not
  look at.

The lemma of each handler shows, next to `IInv'`, what its step does to the object
(`StepOK`). That gives the action properties: our set moves only in `stateestablish`
(`PositionMoves`); a round that ends without failure has its 80 % (`EndsInAgreement`,
where the division of `haveconsensus` is resolved) and a backed close time
(`EndsWithBackedCloseTime`); nothing but a change of view makes a compared set lose
its disputes (`OnlyViewsLoseDisputes`). The last gives `ComparedSetsDisputed`:
`ComparedAreDisputed` holds as long as the view has not changed, and the run
`DisputesAfterView` shows that it need not hold afterwards. `DisputedAreRetried`
follows from `IInv`: the accepted set is ours, and our votes say what is in it.

Three results go beyond one handler's bookkeeping. `SilentRoundEnds` is the step on
which the liveness property `RoundEnds` rests: once every position is stale, the next
timer call of a round that is old enough ends it on our set. `updateourpositions`
drops the stale peers before it counts, so nobody is left to vote (`SilentUpdate`);
then `haveconsensus` counts one of one (`SilentVerdict`). What fairness adds is only
that positions go stale and timer calls come. `VoteSettles` says that `updatevote`
is idempotent on unchanged votes, although our own vote is part of the share that it
follows, and that a transaction once dropped stays dropped while the threshold rises
(the weight of our vote moves the share away from the threshold, `VoteStays`, and
integer division is monotone, `DivMonotone`). `OverlapAgrees` relates two nodes
that each passed the test of `haveconsensus`: each has less than a fifth of those it
heard, itself included, at another set (`FewDissent`), so the dissenters of both
cannot cover the nodes that both heard if these are a fifth of the two numbers
together. `HeartbeatImplements` carries all this over to `ConsensusHeartbeat`, on
which `CloseTimeBacked` is model-checked.

`JobQueueProofs`. The limits are inductive only together with what `waiting`,
`running` and `deferred` count: tasks owed plus deferred jobs are the jobs
waiting, and a deferred job exists only at the limit. `UsesTaskPool` maps the
queue's tasks and running jobs to the pool's. The same counting gives
`JobsNotStranded`: without a task owed every job that waits is deferred, and then the
running jobs of its type are at the limit, and `finishjob` of any of them signals a
task. `StopNotMissed` is inductive as it stands once it is known that children stop
only after the stop was asked for.

`WorkersProofs`. The semaphore does not tell a task from a request to pause. The
invariant says that there are never both: before the destructor no pause is
counted (`Open`), and from then on every count that the semaphore or a worker holds
is a pause, counted in `m_pausecount` before the semaphore is signalled (`Closing`);
`m_activecount` is the number of workers between `Enter` and `Leave`. Then each step
of a worker is a step of `TaskPool` or a stutter (`Refinement`), and a decrement of
`m_pausecount` that would have to be undone never happens.

`NoWakeUpLost` states `NeverStuck`, where the run checks `WorkersStop` and the pool's
fairness themselves. It needs a second invariant, `PInv`. Every
worker that has not left its loop has a pause that is still to be asked for, is on the
semaphore or is held by a worker (`Asked`), so nobody waits for the semaphore in vain
while the pool closes; when no worker is active, `m_allpaused` is signalled or about
to be (`Signalled`); a worker told to exit after it passed the test of its loop finds
its event set (`Exits`). `m_allpaused` may be signalled while a worker is still about
to reset it, so that the destructor goes on early; `Asked` and `Exits` are why it
still joins every thread.

`PausedAssertion` is about the assertion after that wait, `numberofcurrentlyrunningtasks
() == 0`. The assertion as it stands can fail: `m_allpaused` is signalled from the start,
so while the first worker has counted itself and not yet reset it, another may be on
its way out of `processtask` when the destructor's wait returns. `PausedIsIdle` makes
that one exception (without it TLC finds the trace), and the theorem says that there is
no other. The invariant `Paused` says what `m_allpaused` means before the destructor
starts (nobody is active) and afterwards (nobody runs a task, since `Closing` lets
nobody begin one and the last worker to leave signals after all the others).

`LedgerMasterProofs`. The invariant adds to the types: what is validated or being
accepted is held; the last validated ledger has its quorum; `pub <= valid`; and what
the advance thread may assume between two sections (`FindOK`, `PublishOK`): the
ledgers it found follow the published one without a hole, although `valid` moved
on meanwhile. `PublishedInOrder` and `ValidatedForward` are action properties that
follow from it.

Two more invariants rest on that one and say why nothing is forgotten. `CheckInv`
adds to `CheckPending` that a check carries sequence zero or its ledger's, that
without a failure no acquisition is marked as failed, and that a current validation
without a sequence number has its ledger held, being acquired or about to be
(`SeqKnown`): `consensusbuilt` passes over a ledger whose sequence it can learn neither
from a validation nor from the ledger itself, so its acquisition must make up for that. `ChecksNotLost` also needs that no
ledger ever needs more validations than `AlwaysEnough`. `PubInv` adds to
`PublicationPending` what the advance thread knows in the middle of
`findnewledgerstopublish`: if it has found nothing so far and has gone past the
next ledger to publish, that ledger is coming or another pass was asked for. It needs
`acquire_limit` to be at least two (it is four in the code, `++acqcount < 4`): with
less the thread would ask for nothing and end.

`SHAMapStoreProofs` and `SHAMapStoreKeptProofs`. Three invariants, each resting on
the ones before:

* `IInv`: `state.db` names what the process has open, except between the write of
  `state.db` and the swap, when it names what the swap will open; everything named
  is on disk; the directory about to be deleted is not named. This gives
  `AlwaysStarts`.
* `KInv`: all that was made `DeleteInterval` ledgers after the last rotated one, or
  later, is in the writable database, and the archive has only what is older. So
  once the copy of a ledger an interval later is complete, the writable database
  has that ledger's state *and* all that was made since, and the archive may go.
  This gives `LedgersAreKept`. It needs both assumptions on the environment
  (`ThreadKeepsUp`, `WriterKeepsUp`), which `AlwaysStarts` and `StopHeard` do not.
* `RInv`: what is lost is in no open database, new databases are empty, and a
  reader that has missed its node in the writable database has it in the archive,
  of before or after the swap. This gives `FetchesFind`, and with the types of the
  rest `TypeCorrect`.

`StopHeard` needs none of them: that `run` does not wait once `stop_` is set is
inductive, because the test and the wait are under one lock. The same is not true of
a new ledger, which may stay in `newledger_` through a wait until the next one.

`LedgerCloseTimeProofs`. Rounding is idempotent and a close time is either a
multiple of the resolution or the "no agreement" time one second after the parent;
so a node that acquires the ledger reads the same time as the one that built it.
`OffsetStaysWithin` is about `CloseTimeOffset`, for clocks of any skew and any number
of reports: the rounded average lies between the distances of our clock from the two
ends of the range (`AverageWithin`), and a quarter of it, rounded away from zero, is
not more than all of it (`AdjustedWithin`). `OffsetWithin` is inductive as it stands,
because it bounds the sum of the reports by their number. `OffsetShrinks` and
`ResolutionSteps` are the steps behind the liveness properties of the two modules: a
round whose reports cancel out brings the correction strictly nearer to zero and not
past it, and a round moves the resolution one way, by at least a table entry unless
it is at that end. What TLC's runs add is that finitely many such steps suffice.

Only model-checked: the liveness properties (`RoundEnds`, `JobsRun`, `QueueStops`,
`ResolutionAdapts`, `ReturnsToWallTime`, `PublishedCatchesUp`, `QuorumValidated`,
`WorkersStop`, `StoreStops`, and the fairness part of `ImplementsTaskPool`), which are
out of the prover's reach. Each of them has its safety half proved: the step it
rests on (`SilentRoundEnds`, `ResolutionSteps`, `OffsetShrinks`) or the invariant that
whoever waits has somebody to wake it (`JobsNotStranded`, `StopNotMissed`,
`PublicationNotLost`, `ChecksNotLost`, `NoWakeUpLost`, `StopHeard`). Every other
property of a passing run is a theorem. The type invariants of `JobQueue`,
`LedgerMaster` and `SHAMapStore`, and `DisputedNotLost`, are theorems that no run
checks again.

## 5. What is not modelled

`components` in `PROJECT.json` lists every part with the reason. In the parts that
are modelled: standalone mode and `simulate`; the exceptions thrown for missing
ledger nodes; signatures and their checks; which node of a map is asked of which
peer (and the unlocked accesses to that map); the order in which the engine
retries transactions; load statistics of jobs. Endless streams of higher-priority jobs are
cut by the bound on jobs, so `JobsRun` says nothing about starvation by them.

NetworkOPs is modelled only as the caller of the rounds: the network's last closed
ledger is an input that may change at every timer call, so nothing is said of how
`checklastclosedledger` counts validations and peers that change before
`switchlastclosedledger` runs, nor of the operating mode. Node stores other than
the rotating pair, their caches and the asynchronous reads, the slots of the peer
finder, the resource manager, the votes on fees, amendments and dividends, the hash
router and the local transactions have state that a model checker could reach and
are not modelled. The transactors, path finding, serialization, RPC and the overlay
are sequential functions on data, or I/O. Most lines of the repository are
libraries that it carries along (SQLite, RocksDB, Protocol Buffers, JSON, web
sockets), none of which is modelled.

## 6. Plan

1. NetworkOPs' operating mode and `checklastclosedledger` over `LedgerMaster` and
   `LedgerConsensus`.
2. A composition of several nodes' rounds over messages, to which `OverlapAgrees`
   applies.
3. `PeerFinder` slots, `Resource`, `HashRouter`, the dividend and amendment votes,
   `LoadFeeTrack`, `LocalTxs`.
