-------------------------- MODULE LedgerConsensus --------------------------
(***************************************************************************)
(* The consensus rounds of one node (app/consensus/LedgerConsensus.cpp),   *)
(* with the acquisition of its peers' transaction sets                     *)
(* (app/tx/TransactionAcquire.cpp), against peers that propose anything.   *)
(*                                                                         *)
(* The consensus object is the record c; each method of the class is an    *)
(* operator from records to records, and an action applies the methods its *)
(* handler calls.  Handlers run under the master lock.  The one handler    *)
(* that is several steps here is a timer call that changes the view of the *)
(* last closed ledger: it replays the stored proposals one at a time, and  *)
(* "replaying" keeps every other handler out until it is done.             *)
(*                                                                         *)
(* A transaction set stands for its hash; {} is the zero hash.  Close      *)
(* times are rounded to the round's resolution, 0 is "no agreement".       *)
(***************************************************************************)
EXTENDS DisputedTx

CONSTANTS
    Txs,            \* the transactions of the model
    PseudoTxs,      \* those that only fee, amendment and dividend votes add
    Invalid,        \* sets whose map a node received for it may show to be invalid
    Ledgers,        \* the ledgers that may be taken for the last closed one
    CloseResolution,  \* the close resolution, in seconds, of each of them
    PeerProposals,  \* the proposals that peers make
    Moved,          \* how many peers the validations show at or past a ledger
    CloseTimes,     \* rounded close times, positive
    Times,          \* milliseconds a timer call may read for the round's age
    SinceClose,     \* milliseconds since the last close
    MaxSeq,         \* bound: highest ordinary sequence number of a proposal
    MaxRounds,      \* bound: rounds
    MaxViews,       \* bound: changes of the last closed ledger's view
    LastProposers,  \* proposers of the round before the first one modelled
    LastMs,         \* milliseconds that round took
    None

ASSUME ConsensusAssumption ==
    /\ IsFiniteSet(Peers) /\ Moved \subseteq Nat
    /\ PseudoTxs \subseteq Txs /\ Invalid \subseteq SUBSET Txs
    /\ CloseTimes \subseteq Nat \ {0} /\ (\A t \in CloseTimes : t \div 65536 < 65536)
    /\ Times \subseteq Nat /\ SinceClose \subseteq Int
    /\ MaxSeq \in Nat /\ MaxRounds \in Nat /\ MaxViews \in Nat
    /\ LastProposers \in Nat /\ LastMs \in Nat \ {0}

ASSUME ResolutionAssumption == CloseResolution \in [Ledgers -> Resolutions]

\* Sets, and the sequence number with which a node leaves the round.
TxSet   == SUBSET Txs
SeqLeave == MaxSeq + 1

\* The transactions that clients submit.
Submitted == Txs \ PseudoTxs

\* A peer's position, and ours (whose sequence number only says whether we
\* have bowed out).
Proposal == [set : TxSet, seq : 0..SeqLeave, closetime : CloseTimes \cup {0}]
Position == [set : TxSet, closetime : CloseTimes \cup {0}, bowout : BOOLEAN]

ASSUME ProposalAssumption == PeerProposals \subseteq Proposal

ASSUME NoneAssumption ==
    None \notin Proposal /\ None \notin Position /\ None \notin Dispute
    /\ None \notin Ledgers /\ \A s \in TxSet : s # None

VARIABLES
    c,            \* the consensus object
    open,         \* transactions of the open ledger
    held,         \* ledgers this node has
    aged,         \* peers whose position is older than propose_freshness
    waiting,      \* ontimer calls past their eleventh timeout, waiting for the master lock
    completions,  \* queued "completeacquire" jobs
    acceptjob,    \* the set of the queued "acceptledger" job
    lastclose,    \* proposers and convergence time of the last round
    replaying,    \* a timer call is replaying stored proposals
    round, views  \* rounds begun and views changed so far

vars == <<c, open, held, aged, waiting, completions, acceptjob, lastclose,
          replaying, round, views>>

acquisition == <<waiting, completions>>
bounds      == <<round, views>>

States == {"none", "preclose", "establish", "finished", "accepted", "crashed"}

\* The members of ledgerconsensusimp.
ConsensusObject ==
    [state : States, prevledgerhash : Ledgers \cup {None},
     previousledger : Ledgers \cup {None}, acquiringledger : Ledgers \cup {None},
     havecorrectlcl : BOOLEAN, proposing : BOOLEAN,
     consensusfail : BOOLEAN, havect : BOOLEAN, ms : Nat,
     previousproposers : Nat, previousms : Nat, our : Position \cup {None},
     peers : [Peers -> Proposal \cup {None}], dead : SUBSET Peers,
     acquired : [TxSet -> {"absent", "null", "good"}],
     acquiring : [TxSet -> {"no", "active", "done"}],
     compares : SUBSET TxSet, disputes : [Txs -> Dispute \cup {None}]]

\* mconsensus is null.
NoConsensus ==
    [state |-> "none", prevledgerhash |-> None, previousledger |-> None,
     acquiringledger |-> None, havecorrectlcl |-> FALSE, proposing |-> FALSE,
     consensusfail |-> FALSE, havect |-> FALSE, ms |-> 0,
     previousproposers |-> 0, previousms |-> 1, our |-> None,
     peers |-> [p \in Peers |-> None], dead |-> {},
     acquired |-> [s \in TxSet |-> "absent"], acquiring |-> [s \in TxSet |-> "no"],
     compares |-> {}, disputes |-> [t \in Txs |-> None]]

-----------------------------------------------------------------------------
(***************************************************************************)
(* Positions and disputes                                                  *)
(***************************************************************************)

Proposers(x)    == {p \in Peers : x.peers[p] # None}
PeersAt(x, s)   == {p \in Proposers(x) : x.peers[p].set = s}
Disputed(x)     == {t \in Txs : x.disputes[t] # None}
Good(x, s)      == x.acquired[s] = "good"
Differences(a, b) == (a \ b) \cup (b \ a)

\* An assertion fails, a null set is dereferenced, or abort() is called.
Crash(x) == [x EXCEPT !.state = "crashed"]

\* Mutant: our vote on a new dispute is always no.
NewlyDisputedVotesNo(x, t) ==
    LET voters == {p \in Proposers(x) : Good(x, x.peers[p].set)}
        yes    == {p \in voters : t \in x.peers[p].set}
    IN SetVotes(SetVotes(NewDispute(FALSE), yes, "yes"), voters \ yes, "no")

\* adddisputedtransaction: our vote is what our set says, and the peers whose
\* sets we hold vote at once.
NewlyDisputed(x, t) ==
    LET voters == {p \in Proposers(x) : Good(x, x.peers[p].set)}
        yes    == {p \in voters : t \in x.peers[p].set}
    IN SetVotes(SetVotes(NewDispute(t \in x.our.set), yes, "yes"), voters \ yes, "no")

\* createdisputes, for the differences with one or several sets.
CreateDisputes(x, txs) ==
    [x EXCEPT !.disputes = [t \in Txs |-> IF t \in txs /\ x.disputes[t] = None
                                          THEN NewlyDisputed(x, t) ELSE x.disputes[t]]]

\* adjustcount
AdjustCount(x, s, ps) ==
    [x EXCEPT !.disputes = [t \in Txs |-> IF x.disputes[t] = None THEN None
                                          ELSE SetVotes(x.disputes[t], ps, VoteOf(s, t))]]

\* The peers of ps no longer have a position, and no vote.
DropPeers(x, ps) ==
    [x EXCEPT !.peers    = [p \in Peers |-> IF p \in ps THEN None ELSE x.peers[p]],
              !.disputes = [t \in Txs |-> IF x.disputes[t] = None THEN None
                                          ELSE UnVotes(x.disputes[t], ps)]]

\* Mutant: the failed acquisition stays listed.
MapFailedKeepsAcquiring(x, s) == [x EXCEPT !.acquired[s] = "null"]

\* mapcompleteinternal with no map: the set could not be acquired.
MapFailed(x, s) == [x EXCEPT !.acquired[s] = "null", !.acquiring[s] = "no"]

\* Mutant: the peers that wait for the set do not get their votes counted.
MapCompleteNoCount(x, s) ==
    LET ready == x.our # None /\ ~x.our.bowout /\ x.our.set # s
        x1    == IF ready
                 THEN CreateDisputes([x EXCEPT !.compares = @ \cup {s}], Differences(x.our.set, s))
                 ELSE x
    IN IF Good(x, s) THEN [x EXCEPT !.acquiring[s] = "no"]
       ELSE IF ready /\ ~Good(x, x.our.set) THEN Crash(x)
       ELSE [x1 EXCEPT !.acquired[s] = "good", !.acquiring[s] = "no"]

\* mapcompleteinternal with a map.
MapComplete(x, s) ==
    LET ready == x.our # None /\ ~x.our.bowout /\ x.our.set # s
        x1    == IF ready
                 THEN CreateDisputes([x EXCEPT !.acquired[s] = "absent", !.compares = @ \cup {s}],
                                     Differences(x.our.set, s))
                 ELSE x
        x2    == [x1 EXCEPT !.acquired[s] = "good", !.acquiring[s] = "no"]
    IN IF Good(x, s) THEN [x EXCEPT !.acquiring[s] = "no"]
       ELSE IF ready /\ ~Good(x, x.our.set) THEN Crash(x)
       ELSE AdjustCount(x2, s, PeersAt(x2, s))

\* gettransactiontree: a set we do not have is our open ledger's, the empty
\* set, or one to acquire.
GetTransactionTree(x, s, openset, doacquire) ==
    IF x.acquired[s] # "absent" THEN x
    ELSE IF x.state = "preclose" /\ s = openset THEN MapComplete(x, s)
    ELSE IF ~doacquire \/ x.acquiring[s] # "no" THEN x
    ELSE IF s = {} THEN MapComplete(x, s)
    ELSE [x EXCEPT !.acquiring[s] = "active"]

\* Mutant: a peer that bowed out may come back.
PeerPositionForgetsDead(x, p, pos, openset) ==
    LET x1 == GetTransactionTree([x EXCEPT !.peers[p] = pos], pos.set, openset, TRUE)
    IN IF x.peers[p] # None /\ pos.seq <= x.peers[p].seq THEN x
       ELSE IF pos.seq = SeqLeave THEN DropPeers([x EXCEPT !.dead = @ \cup {p}], {p})
       ELSE IF Good(x1, pos.set) THEN AdjustCount(x1, pos.set, {p})
       ELSE x1

\* peerposition
PeerPosition(x, p, pos, openset) ==
    LET x1 == GetTransactionTree([x EXCEPT !.peers[p] = pos], pos.set, openset, TRUE)
    IN IF p \in x.dead \/ (x.peers[p] # None /\ pos.seq <= x.peers[p].seq) THEN x
       ELSE IF pos.seq = SeqLeave
       THEN DropPeers([x EXCEPT !.dead = @ \cup {p}], {p})
       ELSE IF Good(x1, pos.set) THEN AdjustCount(x1, pos.set, {p})
       ELSE x1

\* stillneedtxset, false without a consensus object.
StillNeedTxSet(x, s) ==
    x.state # "none" /\ x.acquired[s] = "absent" /\ PeersAt(x, s) # {}

-----------------------------------------------------------------------------
(***************************************************************************)
(* The last closed ledger                                                  *)
(***************************************************************************)

\* Mutant: the node goes on proposing.
ChangeViewKeepsProposing(x, l) ==
    [x EXCEPT !.prevledgerhash = l, !.dead = {},
              !.peers = [p \in Peers |-> None], !.disputes = [t \in Txs |-> None]]

\* handlelcl, first part: the network's last closed ledger is not the one we
\* build on.  What the peers said about the other ledger is forgotten.
ChangeView(x, l) ==
    LET bow == x.havecorrectlcl /\ x.proposing /\ x.our # None
    IN [x EXCEPT !.prevledgerhash = l,
                 !.our       = IF bow THEN [x.our EXCEPT !.bowout = TRUE] ELSE x.our,
                 !.proposing = FALSE,
                 !.peers     = [p \in Peers |-> None],
                 !.disputes  = [t \in Txs |-> None],
                 !.dead      = {}]

\* handlelcl, second part: build on that ledger if we have it, else fetch it.
SwitchLedger(x, ledgers) ==
    IF x.previousledger = x.prevledgerhash THEN x
    ELSE IF x.prevledgerhash \in ledgers
    THEN [x EXCEPT !.previousledger = x.prevledgerhash, !.havecorrectlcl = TRUE]
    ELSE IF x.acquiringledger # x.prevledgerhash
    THEN [x EXCEPT !.acquiringledger = x.prevledgerhash, !.havecorrectlcl = FALSE]
    ELSE x

-----------------------------------------------------------------------------
(***************************************************************************)
(* Closing the ledger                                                      *)
(***************************************************************************)

\* Mutant: our own set is not recorded as held.
TakeInitialPositionUnheld(x, s, closetime) ==
    [x EXCEPT !.our = [set |-> s, closetime |-> closetime, bowout |-> FALSE]]

\* takeinitialposition, from the transactions of the open ledger and the
\* pseudo-transactions we vote for.  Reading a set that could not be acquired
\* dereferences a null pointer.  There is no dispute before we have a position, so
\* the loop that sets our vote in the older ones is left out.
TakeInitialPosition(x, s, closetime) ==
    LET x1   == [MapComplete(x, s) EXCEPT
                    !.our = [set |-> s, closetime |-> closetime, bowout |-> FALSE]]
        seen == {u \in TxSet : PeersAt(x1, u) # {} /\ x1.acquired[u] # "absent"}
    IN IF \E u \in seen : ~Good(x1, u) THEN Crash(x)
       ELSE CreateDisputes([x1 EXCEPT !.compares = @ \cup seen],
                           UNION {Differences(s, u) : u \in seen})

-----------------------------------------------------------------------------
(***************************************************************************)
(* Establishing a consensus                                                *)
(***************************************************************************)

ClosePercent(x) == (x.ms * 100) \div x.previousms

\* computepercent: at least one participant.
ComputePercent(size, percent) ==
    LET n == (size * percent + percent \div 2) \div 100
    IN IF n = 0 THEN 1 ELSE n

\* Mutant: the most popular close time is always taken for agreed.
CloseTimeVoteAgrees(x) ==
    LET count(t) == Cardinality({p \in Proposers(x) : x.peers[p].closetime = t})
        best     == CHOOSE t \in CloseTimes \cup {0} : \A u \in CloseTimes \cup {0} :
                        count(t) > count(u) \/ (count(t) = count(u) /\ t >= u)
    IN [time |-> IF Proposers(x) = {} THEN x.our.closetime ELSE best, agreed |-> TRUE]

\* The vote on the close time in updateourpositions.  The code scans the times
\* in ascending order and raises its threshold to the best count so far: the
\* latest of the most popular times wins.
CloseTimeVote(x) ==
    LET proposers == Proposers(x)
        count(t)  == Cardinality({p \in proposers : x.peers[p].closetime = t})
                     + (IF x.proposing /\ x.our.closetime = t THEN 1 ELSE 0)
        size      == Cardinality(proposers) + (IF x.proposing THEN 1 ELSE 0)
        popular   == {t \in CloseTimes \cup {0} :
                        count(t) >= ComputePercent(size, NeededPct(ClosePercent(x)))}
        best      == CHOOSE t \in popular : \A u \in popular :
                        count(t) > count(u) \/ (count(t) = count(u) /\ t >= u)
        threshold == ComputePercent(size, av_ct_consensus_pct)
    IN IF proposers = {} THEN [time |-> x.our.closetime, agreed |-> TRUE]
       ELSE IF popular # {} /\ count(best) >= threshold THEN [time |-> best, agreed |-> TRUE]
       ELSE IF count(0) > threshold THEN [time |-> 0, agreed |-> TRUE]
       ELSE [time |-> IF popular = {} THEN 0 ELSE best, agreed |-> FALSE]

\* Mutant: stale positions stay.
UpdateOurPositionsKeepsStale(x, stale, ourstale) ==
    LET vote == CloseTimeVote(x)
    IN [x EXCEPT !.havect = vote.agreed, !.our.closetime = vote.time]

\* Mutant: a node that has bowed out still changes its position.
UpdateOurPositionsBowedOut(x, stale, ourstale) ==
    LET x1      == DropPeers(x, stale)
        x2      == [x1 EXCEPT !.disputes =
                      [t \in Txs |-> IF x1.disputes[t] = None THEN None
                                     ELSE UpdateVote(x1.disputes[t], ClosePercent(x), x.proposing)]]
        s       == {t \in Txs : IF t \in Disputed(x2) THEN x2.disputes[t].ourvote ELSE t \in x.our.set}
        vote    == CloseTimeVote(x2)
    IN IF ~Good(x, x.our.set) THEN Crash(x)
       ELSE MapComplete([x2 EXCEPT !.havect = vote.agreed,
                                   !.our = [set |-> s, closetime |-> vote.time, bowout |-> x.our.bowout]], s)

\* updateourpositions: stale positions go, our votes follow the avalanche, and
\* a change (or a stale position of ours) is a new position.  A node that has
\* bowed out keeps its position whatever its votes do.
UpdateOurPositions(x, stale, ourstale) ==
    LET x1      == DropPeers(x, stale)
        x2      == [x1 EXCEPT !.disputes =
                      [t \in Txs |-> IF x1.disputes[t] = None THEN None
                                     ELSE UpdateVote(x1.disputes[t], ClosePercent(x), x.proposing)]]
        changed == {t \in Disputed(x1) : x2.disputes[t].ourvote # x1.disputes[t].ourvote}
        s       == {t \in Txs : IF t \in changed THEN x2.disputes[t].ourvote ELSE t \in x.our.set}
        vote    == CloseTimeVote(x2)
        x3      == [x2 EXCEPT !.havect = vote.agreed]
    IN IF changed = {} /\ vote.time = x.our.closetime /\ ~ourstale THEN x3
       ELSE IF ~Good(x, x.our.set) THEN Crash(x)
       ELSE IF x.our.bowout THEN x3
       ELSE MapComplete([x3 EXCEPT !.our = [set |-> s, closetime |-> vote.time, bowout |-> FALSE]], s)

\* Mutant: the sets are recorded as compared and their differences forgotten.
CompareSetsForgets(x) ==
    [x EXCEPT !.compares = @ \cup {s \in TxSet \ {x.our.set} : PeersAt(x, s) # {} /\ Good(x, s)}]

\* haveconsensus, first part: "make sure we have generated disputes".
CompareSets(x) ==
    LET new == {s \in TxSet \ (x.compares \cup {x.our.set}) : PeersAt(x, s) # {} /\ Good(x, s)}
    IN IF ~Good(x, x.our.set) THEN x
       ELSE CreateDisputes([x EXCEPT !.compares = @ \cup new],
                           UNION {Differences(x.our.set, s) : s \in new})

\* Mutant: every proposer counts as agreeing.
VerdictCountsAll(x, finished) ==
    HaveConsensus(x.previousproposers, Cardinality(Proposers(x)),
                  Cardinality(Proposers(x)), finished, x.previousms, x.ms)

\* haveconsensus, second part.
Verdict(x, finished) ==
    HaveConsensus(x.previousproposers, Cardinality(Proposers(x)),
                  Cardinality(PeersAt(x, x.our.set)), finished, x.previousms, x.ms)

\* haveconsensus records a failure even when the close time is still open.
Judge(x, verdict) ==
    [CompareSets(x) EXCEPT !.consensusfail =
        IF verdict = "no" THEN x.consensusfail ELSE verdict = "failed"]

-----------------------------------------------------------------------------
(***************************************************************************)
(* The handlers                                                            *)
(***************************************************************************)

\* The consensus object becomes x.  An acquisition that x no longer lists
\* lives on only in the ontimer call that holds it.
Become(x) ==
    /\ c' = x
    /\ waiting' = [s \in TxSet |-> IF waiting[s] = "own" /\ x.acquiring[s] = "no"
                                   THEN "orphan" ELSE waiting[s]]

\* Round ages a timer call may read: the clock goes on, and the largest value
\* of Times stands for itself and all later ones.
LaterTimes == {m \in Times : m > c.ms \/ (m = c.ms /\ \A n \in Times : n <= m)}

Alive   == c.state # "crashed"
InRound == c.state \in {"preclose", "establish", "finished", "accepted"}

\* beginconsensus and the constructor.  A node proposes only in mode omfull,
\* which it never has while the network's last closed ledger is another one.
BeginConsensus ==
    /\ c.state = "none" /\ round < MaxRounds
    /\ \E hash \in Ledgers, ledger \in held, proposing \in BOOLEAN :
        /\ proposing => hash = ledger
        /\ Become(SwitchLedger(
             [NoConsensus EXCEPT !.state = "preclose",
                !.prevledgerhash = hash, !.previousledger = ledger,
                !.havecorrectlcl = (hash = ledger),
                !.proposing = proposing,
                !.previousproposers = lastclose.proposers, !.previousms = lastclose.ms], held))
    /\ round' = round + 1
    /\ UNCHANGED <<open, held, aged, completions, acceptjob, lastclose, replaying, views>>

\* The seconds that an idle ledger stays open.
IdleInterval(x) ==
    LET interval == 2 * CloseResolution[x.previousledger]
    IN IF interval < ledger_idle_interval THEN ledger_idle_interval ELSE interval

\* The answers that shouldclose may give to the object x.
CloseAnswers(x) ==
    {ShouldClose(open # {}, x.previousproposers, Cardinality(Proposers(x)), validated,
                 x.previousms, since, x.ms, IdleInterval(x)) :
        since \in SinceClose, validated \in Moved}

\* statepreclose and closeledger, for the object x.
PreClose(x) ==
    \E close \in CloseAnswers(x) :
        /\ \/ ~close /\ Become(x) /\ UNCHANGED open
           \/ /\ close
              /\ \E heldtxs \in SUBSET Submitted, pseudo \in SUBSET PseudoTxs,
                    closetime \in CloseTimes :
                  /\ pseudo # {} => x.proposing /\ x.havecorrectlcl
                  /\ open' = open \cup heldtxs
                  /\ Become(TakeInitialPosition([x EXCEPT !.state = "establish", !.ms = 0],
                                                open \cup heldtxs \cup pseudo, closetime))
        /\ UNCHANGED <<aged, acceptjob, lastclose>>

\* stateestablish and beginaccept, for the object x.
Establish(x) ==
    \E ourstale \in BOOLEAN :
        LET x1 == UpdateOurPositions(x, aged, ourstale)
        IN \E verdict \in {Verdict(x1, finished) : finished \in Moved} :
            LET x2   == Judge(x1, verdict)
                done == x1.havect /\ verdict # "no"
            IN /\ IF x.ms < ledger_min_consensus
                  THEN Become(x) /\ UNCHANGED <<aged, acceptjob, lastclose>>
                  ELSE IF x1.state = "crashed"
                  THEN Become(x1) /\ UNCHANGED <<aged, acceptjob, lastclose>>
                  ELSE IF ~done
                  THEN Become(x2) /\ aged' = {} /\ UNCHANGED <<acceptjob, lastclose>>
                  ELSE IF ~Good(x2, x2.our.set)
                  THEN Become(Crash(x2)) /\ UNCHANGED <<aged, acceptjob, lastclose>>
                  ELSE /\ Become([x2 EXCEPT !.state = "finished"])
                       /\ aged' = {}
                       /\ acceptjob' = x2.our.set
                       /\ lastclose' = [proposers |-> Cardinality(Proposers(x2)), ms |-> x.ms]
               /\ UNCHANGED open

\* Mutant: positions are still updated while the accept job is queued.
TimerRestFinished(x) ==
    /\ \E m \in LaterTimes :
        \/ x.state = "preclose" /\ PreClose([x EXCEPT !.ms = m])
        \/ x.state \in {"establish", "finished"} /\ Establish([x EXCEPT !.ms = m])
    /\ UNCHANGED <<held, completions, bounds>>

\* dotimer once checklcl is done with the view of the last closed ledger.
TimerRest(x) ==
    /\ \E m \in LaterTimes :
        \/ x.state = "preclose"  /\ PreClose([x EXCEPT !.ms = m])
        \/ x.state = "establish" /\ Establish([x EXCEPT !.ms = m])
    /\ UNCHANGED <<held, completions, bounds>>

\* A timer call that finds the view unchanged.
Timer ==
    /\ ~replaying
    /\ TimerRest(SwitchLedger(c, held))
    /\ UNCHANGED replaying

\* A timer call to which the trusted validations show another ledger.
TimerChangesView ==
    /\ ~replaying /\ c.state \in {"preclose", "establish"} /\ views < MaxViews
    /\ \E l \in Ledgers \ {c.prevledgerhash} : Become(ChangeView(c, l))
    /\ aged' = {} /\ replaying' = TRUE /\ views' = views + 1
    /\ UNCHANGED <<open, held, completions, acceptjob, lastclose, round>>

\* playbackproposals and processtrustedproposal: a proposal for the ledger we
\* build on.  What the stored ones are is up to the peers.  One that peerposition
\* ignores changes nothing, not even the age of the position it repeats.
PeerProposes ==
    /\ InRound
    /\ \E p \in Peers, pos \in PeerProposals :
        LET x == PeerPosition(c, p, pos, open)
        IN /\ x # c /\ Become(x)
           /\ aged' = aged \ {p}
    /\ UNCHANGED <<open, held, completions, acceptjob, lastclose, replaying, bounds>>

\* The timer call goes on after the replay.
TimerResumes ==
    /\ replaying
    /\ TimerRest(SwitchLedger(c, held))
    /\ replaying' = FALSE

\* A peer's position grows older than propose_freshness.
PositionAges ==
    /\ InRound
    /\ \E p \in Proposers(c) \ aged : aged' = aged \cup {p}
    /\ UNCHANGED <<c, open, held, acquisition, acceptjob, lastclose, replaying, bounds>>

\* gettxmap: a peer asks for a set, which may be our open ledger's.
PeerAsksForSet ==
    /\ ~replaying /\ InRound
    /\ \E s \in TxSet :
        LET x == GetTransactionTree(c, s, open, FALSE)
        IN x # c /\ Become(x)
    /\ UNCHANGED <<open, held, aged, completions, acceptjob, lastclose, replaying, bounds>>

\* A transaction enters the open ledger.
SubmitTransaction ==
    /\ ~replaying /\ Alive
    /\ \E t \in Submitted \ open : open' = open \cup {t}
    /\ UNCHANGED <<c, held, aged, acquisition, acceptjob, lastclose, replaying, bounds>>

\* A ledger we lack arrives.
LedgerArrives ==
    /\ Alive
    /\ \E l \in Ledgers \ held : held' = held \cup {l}
    /\ UNCHANGED <<c, open, aged, acquisition, acceptjob, lastclose, replaying, bounds>>

\* What accept tries to apply to the next open ledger.
Retried(x, openset) == openset \cup {t \in Disputed(x) : ~x.disputes[t].ourvote}

\* Mutant: pseudo-transactions that failed go to the open ledger.
AcceptKeepsPseudo ==
    /\ ~replaying /\ acceptjob # None /\ Alive
    /\ open' \in SUBSET (Retried(c, open) \cup acceptjob)
    /\ c' = [c EXCEPT !.state = "accepted"]
    /\ acceptjob' = None
    /\ UNCHANGED <<held, aged, acquisition, lastclose, replaying, bounds>>

\* accept: the queued job builds the ledger from the set it was given, and the
\* next open ledger; any transaction may fail to apply.
Accept ==
    /\ ~replaying /\ acceptjob # None /\ Alive
    /\ open' \in SUBSET ((Retried(c, open) \cup acceptjob) \ PseudoTxs)
    /\ c' = [c EXCEPT !.state = "accepted"]
    /\ acceptjob' = None
    /\ UNCHANGED <<held, aged, acquisition, lastclose, replaying, bounds>>

\* stateaccepted and endconsensus
EndConsensus ==
    /\ ~replaying /\ c.state = "accepted"
    /\ Become(NoConsensus)
    /\ aged' = {}
    /\ UNCHANGED <<open, held, completions, acceptjob, lastclose, replaying, bounds>>

-----------------------------------------------------------------------------
(***************************************************************************)
(* Acquiring a transaction set                                             *)
(***************************************************************************)

Post(s, ok) == completions' = [completions EXCEPT ![<<s, ok>>] = @ + 1]

\* trigger and done: the last node of the set arrives, or one out of its place.
\* (addknownnode looks at a node's place before it checks the node's hash.)
AcquireDone ==
    /\ Alive
    /\ \E s \in TxSet, ok \in BOOLEAN :
        /\ c.acquiring[s] = "active" /\ (ok \/ s \in Invalid)
        /\ c' = [c EXCEPT !.acquiring[s] = "done"]
        /\ Post(s, ok)
    /\ UNCHANGED <<open, held, aged, waiting, acceptjob, lastclose, replaying, bounds>>

\* ontimer after its eleventh timeout: it drops its own lock and waits.
OnTimer ==
    /\ Alive
    /\ \E s \in TxSet :
        /\ c.acquiring[s] = "active" /\ waiting[s] = "no"
        /\ waiting' = [waiting EXCEPT ![s] = "own"]
    /\ UNCHANGED <<c, open, held, aged, completions, acceptjob, lastclose, replaying, bounds>>

\* ontimer with the master lock: it goes on if the set is still needed, else it
\* fails, whatever became of the acquisition while it waited.
OnTimerLocked ==
    /\ ~replaying /\ Alive
    /\ \E s \in TxSet :
        /\ waiting[s] # "no"
        /\ waiting' = [waiting EXCEPT ![s] = "no"]
        /\ IF StillNeedTxSet(c, s) THEN UNCHANGED <<c, completions>>
           ELSE /\ Post(s, FALSE)
                /\ c' = IF waiting[s] = "own" THEN [c EXCEPT !.acquiring[s] = "done"] ELSE c
    /\ UNCHANGED <<open, held, aged, acceptjob, lastclose, replaying, bounds>>

\* tacompletionhandler: the job hands the outcome to the round that is current.
CompleteAcquire ==
    /\ ~replaying /\ Alive
    /\ \E s \in TxSet, ok \in BOOLEAN :
        /\ completions[<<s, ok>>] > 0
        /\ completions' = [completions EXCEPT ![<<s, ok>>] = @ - 1]
        /\ Become(IF c.state = "none" THEN c
                  ELSE IF ok THEN MapComplete(c, s) ELSE MapFailed(c, s))
    /\ UNCHANGED <<open, held, aged, acceptjob, lastclose, replaying, bounds>>

-----------------------------------------------------------------------------
Init ==
    /\ c = NoConsensus
    /\ open = {} /\ aged = {} /\ replaying = FALSE /\ round = 0 /\ views = 0
    /\ held \in {{l} : l \in Ledgers}
    /\ waiting = [s \in TxSet |-> "no"]
    /\ completions = [j \in TxSet \X BOOLEAN |-> 0]
    /\ acceptjob = None
    /\ lastclose = [proposers |-> LastProposers, ms |-> LastMs]

Next ==
    \/ BeginConsensus \/ Timer \/ TimerChangesView \/ PeerProposes \/ TimerResumes
    \/ PositionAges \/ PeerAsksForSet \/ SubmitTransaction \/ LedgerArrives
    \/ Accept \/ EndConsensus
    \/ AcquireDone \/ OnTimer \/ OnTimerLocked \/ CompleteAcquire

Spec == Init /\ [][Next]_vars

-----------------------------------------------------------------------------
(***************************************************************************)
(* Properties                                                              *)
(***************************************************************************)

\* The type of the state: the open ledger never holds a pseudo-transaction, which
\* only the votes of takeinitialposition may add to a set.
TypeOK ==
    /\ c \in ConsensusObject
    /\ open \in SUBSET Submitted /\ held \in SUBSET Ledgers /\ aged \in SUBSET Peers
    /\ waiting \in [TxSet -> {"no", "own", "orphan"}]
    /\ completions \in [TxSet \X BOOLEAN -> Nat]
    /\ acceptjob \in TxSet \cup {None} /\ lastclose \in [proposers : Nat, ms : Nat]
    /\ replaying \in BOOLEAN /\ round \in 0..MaxRounds /\ views \in 0..MaxViews

\* The yes and no counters of every disputed transaction equal the votes they
\* count, whatever order votes, changes of mind, bow-outs and stale removals
\* came in: updatevote divides by them.
VoteCountsExact == \A t \in Disputed(c) : Counted(c.disputes[t])

\* The vote of a peer whose set we hold is what that set says, whether the set,
\* the position or the dispute came first; a peer that bowed out, went stale or
\* spoke for another ledger leaves no vote behind to weigh on our position.
VotesFollowSets ==
    \A t \in Disputed(c), p \in Peers :
        IF p \in Proposers(c)
        THEN Good(c, c.peers[p].set) => c.disputes[t].votes[p] = VoteOf(c.peers[p].set, t)
        ELSE c.disputes[t].votes[p] = "none"

\* A peer that bowed out has no position until the view changes, even if older
\* proposals of its arrive later.
DeadStayOut == c.dead \cap Proposers(c) = {}

\* Until we bow out, our vote on a disputed transaction is whether our set holds
\* it: the votes that the avalanche flips and the set that we propose agree.
OurVoteIsOurSet ==
    c.our # None /\ ~c.our.bowout =>
        \A t \in Disputed(c) : c.disputes[t].ourvote <=> t \in c.our.set

\* We propose only on the network's last closed ledger, and never again in a
\* round after bowing out of it.
ProposingInSync ==
    c.proposing => /\ c.previousledger = c.prevledgerhash
                   /\ c.our # None => ~c.our.bowout

\* The set that the accept job carries is still our position when the job runs
\* (the assertion in accept), although proposals, sets and timer calls are
\* processed while the job is queued.
AcceptJobIsOurSet ==
    acceptjob # None /\ Alive => c.state = "finished" /\ acceptjob = c.our.set

\* A set is acquired only while its outcome is unknown, and an acquisition that
\* is over has a completion job on its way: none is left behind.
AcquisitionsResolve ==
    \A s \in TxSet : Alive /\ c.acquiring[s] # "no" =>
        /\ c.acquired[s] = "absent"
        /\ c.acquiring[s] = "done" => completions[<<s, TRUE>>] + completions[<<s, FALSE>>] > 0

\* A peer's set that is recorded as compared with ours has all its differences
\* under dispute ("make sure we have generated disputes", haveconsensus, which
\* skips the sets so recorded).
ComparedAreDisputed ==
    c.our # None =>
        \A s \in c.compares : Good(c, s) /\ PeersAt(c, s) # {} /\ ~replaying
            => Differences(c.our.set, s) \subseteq Disputed(c)

\* When the round ends without failure, more than 80 of a hundred proposers, us
\* included, have the position that we end it with.
FinishedMeansAgreement ==
    [][ c.state = "establish" /\ c'.state = "finished" /\ ~c'.consensusfail =>
        (Cardinality(PeersAt(c', c'.our.set)) + 1) * 100
            > 80 * (Cardinality(Proposers(c')) + 1) ]_vars

\* A close time that the round ends with is that of at least half of those who
\* propose, unless they agreed to disagree, or we have bowed out and are left with
\* the close time of our last position.
CloseTimeBacked ==
    [][ c.state = "establish" /\ c'.state = "finished" /\ ~c.our.bowout
            /\ c'.our.closetime # 0 /\ Proposers(c') # {} =>
        2 * (Cardinality({p \in Proposers(c') : c'.peers[p].closetime = c'.our.closetime})
             + (IF c.proposing /\ c.our.closetime = c'.our.closetime THEN 1 ELSE 0))
            >= Cardinality(Proposers(c')) + (IF c.proposing THEN 1 ELSE 0) ]_vars

\* Our position changes only in timer calls of the establish state (the comment
\* on stateestablish), and never after a bow-out.
PositionMovesInEstablish ==
    [][ c.our # None /\ c'.our # None /\ c'.our.set # c.our.set =>
        c.state = "establish" /\ ~c.our.bowout /\ c'.ms >= ledger_min_consensus ]_vars

\* Every disputed transaction left out of the accepted set is tried on the next
\* open ledger ("apply disputed transactions that didn't get in", accept), unless
\* we have bowed out, when our votes may have left our set behind.
DisputedNotLost ==
    acceptjob # None /\ Alive /\ ~c.our.bowout =>
        Disputed(c) \subseteq acceptjob \cup Retried(c, open)

\* The assertions on our own set, the null sets that takeinitialposition reads and
\* the abort() of beginaccept end the node only if a set could not be acquired.
StopsOnFailedSet == ~Alive => \E s \in TxSet : c.acquired[s] = "null"

\* We have the transaction set of our own position (the assertions in
\* mapcompleteinternal: "we don't have our own position?!").
OwnSetHeld == c.our # None => Good(c, c.our.set)

=============================================================================
