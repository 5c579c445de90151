----------------------- MODULE ConsensusMethodProofs -----------------------
(***************************************************************************)
(* Proofs about the methods of ledgerconsensusimp and disputedtx that      *)
(* LedgerConsensus is built from, one lemma each, for any finite set of    *)
(* peers: what a method keeps of what holds of the consensus object        *)
(* between two handlers (RoundOK).                                         *)
(*                                                                         *)
(* VotesOK takes a set "but" of peers whose votes do not follow their sets *)
(* yet: peerposition records a new position first and counts its vote last.*)
(***************************************************************************)
EXTENDS LedgerConsensus, FiniteSetTheorems, WellFoundedInduction, TLAPS

(***************************************************************************)
(* The vote counting of a disputed transaction: the counters that setvote  *)
(* and unvote keep by increments and decrements are the numbers of votes.  *)
(***************************************************************************)

\* Sets of voters are finite.
LEMMA VotersFinite ==
    ASSUME IsFiniteSet(Peers), NEW d, NEW v
    PROVE  Voters(d, v) \subseteq Peers /\ IsFiniteSet(Voters(d, v))
BY FS_Subset, ZenonT(30) DEF Voters

\* What a set gains and what it loses.
LEMMA GainLoss ==
    ASSUME NEW S, IsFiniteSet(S), NEW T, IsFiniteSet(T)
    PROVE  /\ Cardinality(S \cup T) = Cardinality(S) + Cardinality(T \ S)
           /\ Cardinality(S \ T) = Cardinality(S) - Cardinality(T \cap S)
           /\ Cardinality(S) \in Nat /\ Cardinality(T \ S) \in Nat
           /\ Cardinality(T \cap S) \in Nat
<1>1. IsFiniteSet(T \ S) /\ IsFiniteSet(S \ T) /\ IsFiniteSet(T \cap S)
  BY FS_Subset
<1>2. /\ Cardinality(T \ S) \in Nat /\ Cardinality(S \ T) \in Nat
      /\ Cardinality(T \cap S) \in Nat /\ Cardinality(S) \in Nat
  BY <1>1, FS_CardinalityType
<1>3. Cardinality(S \cup T) = Cardinality(S) + Cardinality(T \ S)
  <2>1. S \cup T = S \cup (T \ S) /\ S \cap (T \ S) = {}
    OBVIOUS
  <2>2. Cardinality(S \cup (T \ S))
          = Cardinality(S) + Cardinality(T \ S) - Cardinality(S \cap (T \ S))
    BY <1>1, FS_Union
  <2> QED BY <2>1, <2>2, <1>2, FS_EmptySet
<1>4. Cardinality(S \ T) = Cardinality(S) - Cardinality(T \cap S)
  <2>1. S = (S \ T) \cup (T \cap S) /\ (S \ T) \cap (T \cap S) = {}
    OBVIOUS
  <2>2. Cardinality((S \ T) \cup (T \cap S))
          = Cardinality(S \ T) + Cardinality(T \cap S) - Cardinality((S \ T) \cap (T \cap S))
    BY <1>1, FS_Union
  <2>3. Cardinality((S \ T) \cap (T \cap S)) = 0
    BY <2>1, FS_EmptySet
  <2>4. Cardinality((S \ T) \cup (T \cap S)) = Cardinality(S)
    BY <2>1
  <2> QED BY <2>2, <2>3, <2>4, <1>2
<1> QED BY <1>2, <1>3, <1>4

\* A new dispute has no votes and counts none.
LEMMA NewDisputeCounted ==
    ASSUME NEW o \in BOOLEAN
    PROVE  /\ NewDispute(o) \in Dispute /\ Counted(NewDispute(o))
           /\ NewDispute(o).ourvote = o
           /\ \A p \in Peers : NewDispute(o).votes[p] = "none"
<1>1. NewDispute(o) \in Dispute
  BY DEF NewDispute, Dispute, Votes
<1>2. Voters(NewDispute(o), "yes") = {} /\ Voters(NewDispute(o), "no") = {}
  BY DEF NewDispute, Voters
<1> QED BY <1>1, <1>2, FS_EmptySet DEF NewDispute, Counted

\* Other votes and counters make a dispute again.
LEMMA DisputeExcept ==
    ASSUME NEW d \in Dispute, NEW vs \in [Peers -> Votes], NEW y \in Int, NEW n \in Int
    PROVE  [d EXCEPT !.votes = vs, !.yays = y, !.nays = n] \in Dispute
BY Zenon DEF Dispute

\* setvote sets the votes of the peers it is called for and no others, and
\* keeps the counters exact.
LEMMA SetVotesCounted ==
    ASSUME IsFiniteSet(Peers), NEW d \in Dispute, Counted(d),
           NEW ps, ps \subseteq Peers, NEW v \in {"yes", "no"}
    PROVE  /\ SetVotes(d, ps, v) \in Dispute /\ Counted(SetVotes(d, ps, v))
           /\ SetVotes(d, ps, v).ourvote = d.ourvote
           /\ \A p \in Peers : SetVotes(d, ps, v).votes[p]
                = IF p \in ps THEN v ELSE d.votes[p]
<1> DEFINE w == IF v = "yes" THEN "no" ELSE "yes"
           e == SetVotes(d, ps, v)
<1>1. IsFiniteSet(ps) /\ IsFiniteSet(Voters(d, v)) /\ IsFiniteSet(Voters(d, w))
  BY VotersFinite, FS_Subset
<1>2. /\ Cardinality(Voters(d, v) \cup ps) = Cardinality(Voters(d, v)) + Cardinality(ps \ Voters(d, v))
      /\ Cardinality(Voters(d, w) \ ps) = Cardinality(Voters(d, w)) - Cardinality(ps \cap Voters(d, w))
      /\ Cardinality(ps \ Voters(d, v)) \in Nat /\ Cardinality(ps \cap Voters(d, w)) \in Nat
  BY <1>1, GainLoss, Zenon
<1>3. /\ e.votes = [p \in Peers |-> IF p \in ps THEN v ELSE d.votes[p]]
      /\ e.ourvote = d.ourvote
      /\ e.yays = IF v = "yes" THEN d.yays + Cardinality(ps \ Voters(d, v))
                         ELSE d.yays - Cardinality(ps \cap Voters(d, w))
      /\ e.nays = IF v = "yes" THEN d.nays - Cardinality(ps \cap Voters(d, w))
                         ELSE d.nays + Cardinality(ps \ Voters(d, v))
  BY DEF SetVotes, Dispute
<1>4. Voters(e, v) = Voters(d, v) \cup ps /\ Voters(e, w) = Voters(d, w) \ ps
  <2> HIDE DEF e
  <2> QED BY <1>3 DEF Voters
<1>5. e \in Dispute
  <2>1. d.yays \in Int /\ d.nays \in Int /\ d.votes \in [Peers -> Votes] /\ d.ourvote \in BOOLEAN
    BY DEF Dispute
  <2>2. e.votes \in [Peers -> Votes]
    <3> HIDE DEF e
    <3> QED BY <2>1, <1>3 DEF Votes
  <2>3. e.yays \in Int /\ e.nays \in Int
    <3> HIDE DEF e
    <3>1. CASE v = "yes"
      BY <3>1, <2>1, <1>2, <1>3
    <3>2. CASE v = "no"
      BY <3>2, <2>1, <1>2, <1>3
    <3> QED BY <3>1, <3>2
  <2>4. e = [d EXCEPT !.votes = e.votes, !.yays = e.yays, !.nays = e.nays]
    BY SMTT(30) DEF SetVotes, Dispute
  <2> HIDE DEF e
  <2>5. [d EXCEPT !.votes = e.votes, !.yays = e.yays, !.nays = e.nays] \in Dispute
    BY <2>2, <2>3, DisputeExcept, Zenon
  <2> QED BY <2>4, <2>5, Zenon
<1>6. Counted(e)
  <2> HIDE DEF e
  <2>1. CASE v = "yes"
    BY <2>1, <1>2, <1>3, <1>4, Zenon DEF Counted
  <2>2. CASE v = "no"
    BY <2>2, <1>2, <1>3, <1>4, Zenon DEF Counted
  <2> QED BY <2>1, <2>2
<1> QED BY <1>3, <1>5, <1>6

\* unvote removes the votes of the peers it is called for and no others, and
\* keeps the counters exact.
LEMMA UnVotesCounted ==
    ASSUME IsFiniteSet(Peers), NEW d \in Dispute, Counted(d), NEW ps, ps \subseteq Peers
    PROVE  /\ UnVotes(d, ps) \in Dispute /\ Counted(UnVotes(d, ps))
           /\ UnVotes(d, ps).ourvote = d.ourvote
           /\ \A p \in Peers : UnVotes(d, ps).votes[p] = IF p \in ps THEN "none" ELSE d.votes[p]
<1> DEFINE e == UnVotes(d, ps)
<1>1. IsFiniteSet(ps) /\ IsFiniteSet(Voters(d, "yes")) /\ IsFiniteSet(Voters(d, "no"))
  BY VotersFinite, FS_Subset
<1>2. \A v \in {"yes", "no"} :
        /\ Cardinality(Voters(d, v) \ ps) = Cardinality(Voters(d, v)) - Cardinality(ps \cap Voters(d, v))
        /\ Cardinality(ps \cap Voters(d, v)) \in Nat
  BY <1>1, GainLoss, Zenon
<1>3. /\ e.votes = [p \in Peers |-> IF p \in ps THEN "none" ELSE d.votes[p]]
      /\ e.ourvote = d.ourvote
      /\ e.yays = d.yays - Cardinality(ps \cap Voters(d, "yes"))
      /\ e.nays = d.nays - Cardinality(ps \cap Voters(d, "no"))
  BY DEF UnVotes, Dispute
<1>4. Voters(e, "yes") = Voters(d, "yes") \ ps /\ Voters(e, "no") = Voters(d, "no") \ ps
  <2> HIDE DEF e
  <2> QED BY <1>3 DEF Voters
<1>5. e \in Dispute
  <2>1. d.yays \in Int /\ d.nays \in Int /\ d.votes \in [Peers -> Votes] /\ d.ourvote \in BOOLEAN
    BY DEF Dispute
  <2>2. e.votes \in [Peers -> Votes]
    <3> HIDE DEF e
    <3> QED BY <2>1, <1>3 DEF Votes
  <2>3. e.yays \in Int /\ e.nays \in Int
    <3> HIDE DEF e
    <3> QED BY <2>1, <1>2, <1>3
  <2>4. e = [d EXCEPT !.votes = e.votes, !.yays = e.yays, !.nays = e.nays]
    BY DEF UnVotes, Dispute
  <2> HIDE DEF e
  <2>5. [d EXCEPT !.votes = e.votes, !.yays = e.yays, !.nays = e.nays] \in Dispute
    BY <2>2, <2>3, DisputeExcept, Zenon
  <2> QED BY <2>4, <2>5, Zenon
<1>6. Counted(e)
  <2> HIDE DEF e
  <2> QED BY <1>2, <1>3, <1>4, Zenon DEF Counted
<1> QED BY <1>3, <1>5, <1>6

\* updatevote changes nothing but our vote.
LEMMA UpdateVoteCounted ==
    ASSUME IsFiniteSet(Peers), NEW d \in Dispute, Counted(d), NEW pct, NEW proposing \in BOOLEAN
    PROVE  /\ UpdateVote(d, pct, proposing) \in Dispute
           /\ Counted(UpdateVote(d, pct, proposing))
           /\ UpdateVote(d, pct, proposing).votes = d.votes
<1> DEFINE e == UpdateVote(d, pct, proposing)
<1>1. d.yays \in Nat /\ d.nays \in Nat
  BY VotersFinite, FS_CardinalityType DEF Counted
<1>2. PICK new \in BOOLEAN : e = d \/ e = [d EXCEPT !.ourvote = new]
  <2>1. (d.yays > d.nays) \in BOOLEAN
    BY <1>1
  <2>2. \A w, n : (w > n) \in BOOLEAN
    OBVIOUS
  <2> QED BY <2>1, <2>2, ZenonT(30) DEF UpdateVote
<1>3. e \in Dispute /\ e.votes = d.votes /\ e.yays = d.yays /\ e.nays = d.nays
  <2> HIDE DEF e
  <2> QED BY <1>2 DEF Dispute
<1>4. Voters(e, "yes") = Voters(d, "yes") /\ Voters(e, "no") = Voters(d, "no")
  <2> HIDE DEF e
  <2> QED BY <1>3 DEF Voters
<1> HIDE DEF e
<1>5. Counted(e)
  BY <1>3, <1>4 DEF Counted
<1> QED BY <1>3, <1>5 DEF e

-----------------------------------------------------------------------------
(***************************************************************************)
(* What holds of a consensus object                                        *)
(***************************************************************************)

\* A dispute on t is typed and counted, only peers with a position vote, and
\* those whose set we hold (but for the peers in but) vote as their sets say.
DisputeOK(x, d, t, but) ==
    /\ d \in Dispute /\ Counted(d)
    /\ \A p \in Peers : x.peers[p] = None => d.votes[p] = "none"
    /\ \A p \in Peers \ but : x.peers[p] # None /\ x.acquired[x.peers[p].set] = "good"
         => d.votes[p] = VoteOf(x.peers[p].set, t)

VotesOK(x, but) ==
    /\ x \in ConsensusObject
    /\ \A t \in Txs : x.disputes[t] # None => DisputeOK(x, x.disputes[t], t, but)

\* Until we bow out our votes say what our set says, and there is no dispute
\* before we have a position.
OursOK(x) ==
    /\ x.our = None => Disputed(x) = {}
    /\ x.our # None /\ ~x.our.bowout =>
         \A t \in Disputed(x) : x.disputes[t].ourvote <=> t \in x.our.set

\* y differs from x in positions, sets and disputes at most, or has crashed.
SameView(x, y) ==
    /\ y.state \in {x.state, "crashed"}
    /\ y.prevledgerhash = x.prevledgerhash /\ y.previousledger = x.previousledger
    /\ y.acquiringledger = x.acquiringledger /\ y.havecorrectlcl = x.havecorrectlcl
    /\ y.proposing = x.proposing /\ y.our = x.our /\ y.ms = x.ms

\* y differs from x in sets and disputes at most, or has crashed.
SameRound(x, y) ==
    SameView(x, y) /\ y.peers = x.peers /\ y.dead = x.dead /\ y.havect = x.havect

\* A peer that bowed out has no position.
DeadOK(x) == x.dead \cap Proposers(x) = {}

\* We propose only on the network's last closed ledger, and not after a bow-out.
SyncOK(x) ==
    x.proposing => /\ x.previousledger = x.prevledgerhash
                   /\ x.our # None => ~x.our.bowout

\* We have a position from the moment the ledger closes.
StateOK(x) ==
    /\ x.state \in {"none", "preclose"} => x.our = None
    /\ x.state \in {"establish", "finished", "accepted"} => x.our # None
    /\ x.state = "none" => \A s \in TxSet : x.acquiring[s] = "no"

\* Our own set has an outcome, and the node stops only over a set that could not
\* be acquired.
StopOK(x) ==
    /\ x.our # None => x.acquired[x.our.set] # "absent"
    /\ x.state = "crashed" => \E s \in TxSet : x.acquired[s] = "null"

\* A set that is recorded as compared with ours has its differences under dispute,
\* and none is before we have a position.  A change of view breaks this.
ComparesOK(x) ==
    /\ x.our = None => x.compares = {}
    /\ x.our # None => \A s \in x.compares : Differences(x.our.set, s) \subseteq Disputed(x)

\* Those who vote for the close time t, and all who vote on it: the peers of y,
\* and x.
Backers(x, y, t) ==
    Cardinality({p \in Proposers(y) : y.peers[p].closetime = t})
    + (IF x.proposing /\ x.our.closetime = t THEN 1 ELSE 0)

Electorate(x, y) == Cardinality(Proposers(y)) + (IF x.proposing THEN 1 ELSE 0)

\* All peers whose sets we hold vote as they say.
Nobody == {}

\* A set is acquired only while its outcome is unknown.
AcquiringOK(x) == \A s \in TxSet : x.acquiring[s] # "no" => x.acquired[s] = "absent"

\* From x to y acquisitions stay so, and none is over that was not.
AcquiringStep(x, y) ==
    /\ AcquiringOK(x) => AcquiringOK(y)
    /\ \A s \in TxSet : y.acquiring[s] = "done" => x.acquiring[s] = "done"

\* y has the positions and disputes of x, and holds no more of the sets of peers
\* whose votes are to follow them.
HoldsNoMore(x, but, y, bat) ==
    /\ y.disputes = x.disputes /\ y.peers = x.peers
    /\ \A p \in Peers \ bat : y.peers[p] # None /\ y.acquired[y.peers[p].set] = "good"
          => p \notin but /\ x.acquired[x.peers[p].set] = "good"

\* What holds of the consensus object between any two steps.
RoundOK(x) ==
    /\ VotesOK(x, Nobody) /\ OursOK(x) /\ DeadOK(x) /\ AcquiringOK(x)
    /\ SyncOK(x) /\ StateOK(x) /\ StopOK(x)

-----------------------------------------------------------------------------
\* The fields of a consensus object, where they are used.
LEMMA Fields ==
    ASSUME NEW x \in ConsensusObject
    PROVE  /\ x.peers \in [Peers -> Proposal \cup {None}]
           /\ x.our \in Position \cup {None}
           /\ x.acquired \in [TxSet -> {"absent", "null", "good"}]
           /\ x.acquiring \in [TxSet -> {"no", "active", "done"}]
           /\ x.disputes \in [Txs -> Dispute \cup {None}]
           /\ x.compares \subseteq TxSet /\ x.dead \subseteq Peers
           /\ x.state \in States /\ x.proposing \in BOOLEAN
BY SMTT(30) DEF ConsensusObject

\* The sets that positions name.
LEMMA PositionSets ==
    ASSUME NEW x \in ConsensusObject
    PROVE  /\ \A p \in Peers : x.peers[p] # None => x.peers[p].set \in TxSet
           /\ x.our # None => x.our.set \in TxSet
<1>1. x.peers \in [Peers -> Proposal \cup {None}] /\ x.our \in Position \cup {None}
  BY Fields
<1>2. \A q \in Proposal : q.set \in TxSet
  BY DEF Proposal
<1>3. \A q \in Position : q.set \in TxSet
  BY DEF Position
<1> QED BY <1>1, <1>2, <1>3

\* A dispute depends on the positions and sets alone.
LEMMA DisputeFrame ==
    ASSUME NEW x, NEW y, y.peers = x.peers, y.acquired = x.acquired
    PROVE  \A d, t, but : DisputeOK(x, d, t, but) => DisputeOK(y, d, t, but)
BY Zenon DEF DisputeOK

\* adddisputedtransaction makes a dispute that is right at once.
LEMMA NewlyDisputedOK ==
    ASSUME NEW x \in ConsensusObject, x.our # None, NEW t \in Txs, NEW but
    PROVE  /\ DisputeOK(x, NewlyDisputed(x, t), t, but)
           /\ NewlyDisputed(x, t).ourvote = (t \in x.our.set)
<1> DEFINE voters == {p \in Proposers(x) : Good(x, x.peers[p].set)}
           yes    == {p \in voters : t \in x.peers[p].set}
           d      == NewDispute(t \in x.our.set)
           e      == SetVotes(d, yes, "yes")
<1>1. IsFiniteSet(Peers) /\ voters \subseteq Peers /\ yes \subseteq Peers
  BY ConsensusAssumption DEF Proposers
<1>2. d \in Dispute /\ Counted(d) /\ d.ourvote = (t \in x.our.set)
      /\ \A p \in Peers : d.votes[p] = "none"
  <2>1. (t \in x.our.set) \in BOOLEAN
    OBVIOUS
  <2> QED BY <2>1, NewDisputeCounted, Zenon
<1> HIDE DEF d
<1>3. /\ e \in Dispute /\ Counted(e) /\ e.ourvote = d.ourvote
      /\ \A p \in Peers : e.votes[p] = IF p \in yes THEN "yes" ELSE d.votes[p]
  <2> HIDE DEF voters, yes
  <2> QED BY <1>1, <1>2, SetVotesCounted
<1> HIDE DEF e
<1>4. NewlyDisputed(x, t) = SetVotes(e, voters \ yes, "no")
  BY DEF NewlyDisputed, e, d
<1> DEFINE f == SetVotes(e, voters \ yes, "no")
<1>5. /\ f \in Dispute /\ Counted(f) /\ f.ourvote = e.ourvote
      /\ \A p \in Peers : f.votes[p] = IF p \in voters \ yes THEN "no" ELSE e.votes[p]
  <2> HIDE DEF voters, yes
  <2> QED BY <1>1, <1>3, SetVotesCounted
<1> HIDE DEF f
<1>6. \A p \in Peers : f.votes[p] = IF p \notin voters THEN "none"
                                    ELSE VoteOf(x.peers[p].set, t)
  BY <1>2, <1>3, <1>5 DEF VoteOf
<1>7. DisputeOK(x, f, t, but)
  BY <1>5, <1>6, ZenonT(30) DEF DisputeOK, Proposers, Good
<1> QED BY <1>2, <1>3, <1>4, <1>5, <1>7, ZenonT(30) DEF f

\* createdisputes adds disputes that are right at once, and keeps the others.
LEMMA CreateDisputesOK ==
    ASSUME NEW x, NEW but, VotesOK(x, but), x.our # None, NEW txs
    PROVE  LET y == CreateDisputes(x, txs)
           IN /\ VotesOK(y, but) /\ SameRound(x, y) /\ y.state = x.state
              /\ y.acquired = x.acquired /\ y.acquiring = x.acquiring
              /\ y.compares = x.compares /\ Disputed(y) = Disputed(x) \cup (txs \cap Txs)
              /\ OursOK(x) => OursOK(y)
<1> DEFINE y == CreateDisputes(x, txs)
           ds == [t \in Txs |-> IF t \in txs /\ x.disputes[t] = None
                                THEN NewlyDisputed(x, t) ELSE x.disputes[t]]
<1>1. x \in ConsensusObject
  BY DEF VotesOK
<1>2. y = [x EXCEPT !.disputes = ds]
  BY DEF CreateDisputes
<1>3. \A t \in Txs : /\ DisputeOK(x, NewlyDisputed(x, t), t, but)
                     /\ NewlyDisputed(x, t).ourvote = (t \in x.our.set)
                     /\ NewlyDisputed(x, t) \in Dispute
  BY <1>1, NewlyDisputedOK DEF DisputeOK
<1>4. ds \in [Txs -> Dispute \cup {None}]
  BY <1>1, <1>3, Fields
<1>5. \A t \in Txs : ds[t] # None => DisputeOK(x, ds[t], t, but)
  BY <1>3 DEF VotesOK
<1>6. \A t \in Txs : x.disputes[t] = None /\ ds[t] # None => ds[t].ourvote = (t \in x.our.set)
  BY <1>3
<1>7. \A t \in Txs : x.disputes[t] # None => ds[t] = x.disputes[t]
  OBVIOUS
<1>d. \A t \in Txs : ds[t] # None <=> x.disputes[t] # None \/ t \in txs
  BY <1>3, NoneAssumption, SMTT(30)
<1> HIDE DEF ds, y
<1>8. /\ y \in ConsensusObject /\ y.disputes = ds /\ SameRound(x, y) /\ y.state = x.state
      /\ y.acquired = x.acquired /\ y.acquiring = x.acquiring /\ y.compares = x.compares
  BY <1>1, <1>2, <1>4, SMTT(30) DEF ConsensusObject, SameRound, SameView
<1>9. VotesOK(y, but)
  <2>1. y.peers = x.peers
    BY <1>8, Zenon DEF SameRound
  <2> QED BY <1>5, <1>8, <2>1, DisputeFrame, ZenonT(30) DEF VotesOK
<1>10. OursOK(x) => OursOK(y)
  BY <1>6, <1>7, <1>8, ZenonT(30) DEF OursOK, SameRound, SameView, Disputed
<1>11. Disputed(y) = Disputed(x) \cup (txs \cap Txs)
  BY <1>d, <1>8, SMTT(30) DEF Disputed
<1> QED BY <1>8, <1>9, <1>10, <1>11 DEF y

\* An object with the same positions and disputes, that holds no more of the
\* peers' sets, is as right.
LEMMA VotesFrame ==
    ASSUME NEW x, NEW but, VotesOK(x, but), NEW y \in ConsensusObject, NEW bat,
           HoldsNoMore(x, but, y, bat)
    PROVE  VotesOK(y, bat)
<1> SUFFICES ASSUME NEW t \in Txs, y.disputes[t] # None
             PROVE  DisputeOK(y, y.disputes[t], t, bat)
  BY DEF VotesOK
<1>1. DisputeOK(x, x.disputes[t], t, but)
  BY DEF VotesOK, HoldsNoMore
<1> QED BY <1>1, ZenonT(30) DEF DisputeOK, HoldsNoMore

\* adjustcount makes the peers that have the set s vote as it says.
LEMMA AdjustCountOK ==
    ASSUME NEW x, NEW but, NEW ps, ps \subseteq Peers, NEW s,
           NEW bat, VotesOK(x, bat), bat \subseteq but \cup ps, ps \subseteq PeersAt(x, s),
           NEW y, y = AdjustCount(x, s, ps)
    PROVE  /\ VotesOK(y, but) /\ SameRound(x, y) /\ y.state = x.state
           /\ y.acquired = x.acquired /\ y.acquiring = x.acquiring
           /\ y.compares = x.compares /\ Disputed(y) = Disputed(x)
           /\ OursOK(x) => OursOK(y)
<1> DEFINE ds == [t \in Txs |-> IF x.disputes[t] = None THEN None
                                ELSE SetVotes(x.disputes[t], ps, VoteOf(s, t))]
<1>1. x \in ConsensusObject /\ IsFiniteSet(Peers)
  BY ConsensusAssumption DEF VotesOK
<1>2. y = [x EXCEPT !.disputes = ds]
  BY DEF AdjustCount
<1>3. ASSUME NEW t \in Txs, x.disputes[t] # None
      PROVE  /\ ds[t] \in Dispute /\ DisputeOK(x, ds[t], t, but)
             /\ ds[t].ourvote = x.disputes[t].ourvote
  <2>1. DisputeOK(x, x.disputes[t], t, bat)
    BY <1>3 DEF VotesOK
  <2>2. x.disputes[t] \in Dispute /\ Counted(x.disputes[t]) /\ VoteOf(s, t) \in {"yes", "no"}
    BY <2>1 DEF DisputeOK, VoteOf
  <2>3. ds[t] = SetVotes(x.disputes[t], ps, VoteOf(s, t))
    BY <1>3
  <2> HIDE DEF ds
  <2>4. /\ ds[t] \in Dispute /\ Counted(ds[t]) /\ ds[t].ourvote = x.disputes[t].ourvote
        /\ \A p \in Peers : ds[t].votes[p]
              = IF p \in ps THEN VoteOf(s, t) ELSE x.disputes[t].votes[p]
    BY <1>1, <2>2, <2>3, SetVotesCounted
  <2> QED BY <2>1, <2>4, ZenonT(30) DEF DisputeOK, PeersAt, Proposers
<1>4. \A t \in Txs : x.disputes[t] = None <=> ds[t] = None
  BY <1>3, NoneAssumption
<1>5. ds \in [Txs -> Dispute \cup {None}]
  BY <1>3
<1> HIDE DEF ds
<1>6. /\ y \in ConsensusObject /\ y.disputes = ds /\ SameRound(x, y) /\ y.state = x.state
      /\ y.acquired = x.acquired /\ y.acquiring = x.acquiring /\ y.compares = x.compares
  BY <1>1, <1>2, <1>5, SMTT(30) DEF ConsensusObject, SameRound, SameView
<1>7. VotesOK(y, but)
  <2>1. y.peers = x.peers
    BY <1>6, Zenon DEF SameRound
  <2>2. \A t \in Txs : ds[t] # None => DisputeOK(x, ds[t], t, but)
    BY <1>3, <1>4, ZenonT(30)
  <2> QED BY <1>6, <2>1, <2>2, DisputeFrame, ZenonT(30) DEF VotesOK
<1>8. OursOK(x) => OursOK(y)
  BY <1>3, <1>4, <1>6, ZenonT(30) DEF OursOK, SameRound, SameView, Disputed
<1>9. Disputed(y) = Disputed(x)
  BY <1>4, <1>6, SMTT(30) DEF Disputed
<1> QED BY <1>6, <1>7, <1>8, <1>9

\* The peers that lose their position lose their votes.
LEMMA DropPeersOK ==
    ASSUME NEW x, NEW but, VotesOK(x, but), NEW ps, ps \subseteq Peers,
           NEW y, y = DropPeers(x, ps)
    PROVE  /\ VotesOK(y, but) /\ y.state = x.state
           /\ SameView(x, y) /\ y.dead = x.dead /\ y.compares = x.compares
           /\ y.acquired = x.acquired /\ y.acquiring = x.acquiring
           /\ Proposers(y) = Proposers(x) \ ps
           /\ \A p \in Peers \ ps : y.peers[p] = x.peers[p]
           /\ Disputed(y) = Disputed(x)
           /\ \A t \in Disputed(x) : y.disputes[t].ourvote = x.disputes[t].ourvote
<1> DEFINE ds == [t \in Txs |-> IF x.disputes[t] = None THEN None ELSE UnVotes(x.disputes[t], ps)]
           pp == [p \in Peers |-> IF p \in ps THEN None ELSE x.peers[p]]
<1>1. x \in ConsensusObject /\ IsFiniteSet(Peers)
  BY ConsensusAssumption DEF VotesOK
<1>2. y = [x EXCEPT !.peers = pp, !.disputes = ds]
  BY DEF DropPeers
<1>3. ASSUME NEW t \in Txs, x.disputes[t] # None
      PROVE  /\ ds[t] \in Dispute /\ Counted(ds[t]) /\ ds[t].ourvote = x.disputes[t].ourvote
             /\ \A p \in Peers : ds[t].votes[p] = IF p \in ps THEN "none" ELSE x.disputes[t].votes[p]
             /\ DisputeOK(x, x.disputes[t], t, but)
  <2>1. DisputeOK(x, x.disputes[t], t, but)
    BY <1>3 DEF VotesOK
  <2>2. x.disputes[t] \in Dispute /\ Counted(x.disputes[t])
    BY <2>1 DEF DisputeOK
  <2>3. ds[t] = UnVotes(x.disputes[t], ps)
    BY <1>3
  <2> HIDE DEF ds
  <2> QED BY <1>1, <2>1, <2>2, <2>3, UnVotesCounted
<1>4. \A t \in Txs : x.disputes[t] = None <=> ds[t] = None
  BY <1>3, NoneAssumption, ZenonT(30)
<1>5. ds \in [Txs -> Dispute \cup {None}] /\ pp \in [Peers -> Proposal \cup {None}]
  BY <1>1, <1>3, Fields, ZenonT(30)
<1>6. \A p \in Peers : pp[p] = IF p \in ps THEN None ELSE x.peers[p]
  OBVIOUS
<1> HIDE DEF ds, pp
<1>7. /\ y \in ConsensusObject /\ y.disputes = ds /\ y.peers = pp /\ y.state = x.state
      /\ SameView(x, y) /\ y.dead = x.dead /\ y.compares = x.compares
      /\ y.acquired = x.acquired /\ y.acquiring = x.acquiring
  BY <1>1, <1>2, <1>5, ZenonT(30) DEF ConsensusObject, SameView
<1>8. VotesOK(y, but)
  <2> SUFFICES ASSUME NEW t \in Txs, y.disputes[t] # None
               PROVE  DisputeOK(y, ds[t], t, but)
    BY <1>7 DEF VotesOK
  <2>1. x.disputes[t] # None
    BY <1>4, <1>7
  <2>2. /\ ds[t] \in Dispute /\ Counted(ds[t])
        /\ \A p \in Peers : ds[t].votes[p] = IF p \in ps THEN "none" ELSE x.disputes[t].votes[p]
        /\ DisputeOK(x, x.disputes[t], t, but)
    BY <1>3, <2>1, ZenonT(30)
  <2>3. \A p \in Peers : y.peers[p] = IF p \in ps THEN None ELSE x.peers[p]
    BY <1>6, <1>7, ZenonT(30)
  <2>4. y.acquired = x.acquired
    BY <1>7
  <2> QED BY <2>2, <2>3, <2>4, ZenonT(30) DEF DisputeOK
<1>9. Proposers(y) = Proposers(x) \ ps
  BY <1>6, <1>7 DEF Proposers
<1>10. Disputed(y) = Disputed(x)
  BY <1>4, <1>7 DEF Disputed
<1>11. \A t \in Disputed(x) : y.disputes[t].ourvote = x.disputes[t].ourvote
  BY <1>3, <1>7, ZenonT(30) DEF Disputed
<1> QED BY <1>2, <1>6, <1>7, <1>8, <1>9, <1>10, <1>11, SMTT(30)

\* A crash leaves the rest of the object as it is.
LEMMA CrashOK ==
    ASSUME NEW x, NEW but, VotesOK(x, but)
    PROVE  LET y == Crash(x)
           IN /\ VotesOK(y, but) /\ SameRound(x, y) /\ y.state = "crashed"
              /\ AcquiringStep(x, y) /\ y.acquired = x.acquired
              /\ OursOK(x) => OursOK(y)
              /\ ComparesOK(x) => ComparesOK(y)
<1> DEFINE y == Crash(x)
<1>1. x \in ConsensusObject
  BY DEF VotesOK
<1>2. /\ y \in ConsensusObject /\ SameRound(x, y) /\ y.state = "crashed"
      /\ y.disputes = x.disputes /\ y.acquired = x.acquired /\ y.acquiring = x.acquiring
      /\ y.compares = x.compares
  BY <1>1, SMTT(30) DEF Crash, ConsensusObject, SameRound, SameView, States
<1> HIDE DEF y
<1>3. VotesOK(y, but)
  BY <1>2, VotesFrame DEF SameRound, SameView, HoldsNoMore
<1>4. OursOK(x) => OursOK(y)
  BY <1>2, ZenonT(30) DEF OursOK, SameRound, SameView, Disputed
<1>5. ComparesOK(x) => ComparesOK(y)
  BY <1>2, ZenonT(30) DEF ComparesOK, SameRound, SameView, Disputed
<1> QED BY <1>2, <1>3, <1>4, <1>5, ZenonT(30) DEF y, AcquiringStep, AcquiringOK

\* mapcompleteinternal without a map.
LEMMA MapFailedOK ==
    ASSUME NEW x, NEW but, VotesOK(x, but), NEW s \in TxSet
    PROVE  LET y == MapFailed(x, s)
           IN /\ VotesOK(y, but) /\ SameRound(x, y) /\ y.state = x.state
              /\ AcquiringStep(x, y) /\ y.acquiring[s] = "no"
              /\ OursOK(x) => OursOK(y)
              /\ StopOK(x) => StopOK(y)
              /\ ComparesOK(x) => ComparesOK(y)
<1> DEFINE y == MapFailed(x, s)
<1>1. x \in ConsensusObject
  BY DEF VotesOK
<1>2. /\ y \in ConsensusObject /\ SameRound(x, y) /\ y.state = x.state
      /\ y.disputes = x.disputes
      /\ y.acquired = [x.acquired EXCEPT ![s] = "null"]
      /\ y.acquiring = [x.acquiring EXCEPT ![s] = "no"] /\ y.compares = x.compares
  BY <1>1, ZenonT(30) DEF MapFailed, ConsensusObject, SameRound, SameView
<1> HIDE DEF y
<1>3. \A u \in TxSet : /\ y.acquired[u] = IF u = s THEN "null" ELSE x.acquired[u]
                       /\ y.acquiring[u] = IF u = s THEN "no" ELSE x.acquiring[u]
  BY <1>1, <1>2, Fields, ZenonT(30)
<1>4. \A p \in Peers : x.peers[p] # None => x.peers[p].set \in TxSet
  BY <1>1, Fields DEF Proposal
<1>5. VotesOK(y, but)
  <2>1. y.peers = x.peers
    BY <1>2 DEF SameRound, SameView
  <2>2. HoldsNoMore(x, but, y, but)
    BY <2>1, <1>2, <1>3, <1>4, ZenonT(30) DEF HoldsNoMore
  <2> QED BY <1>2, <2>2, VotesFrame
<1>6. OursOK(x) => OursOK(y)
  BY <1>2, ZenonT(30) DEF OursOK, SameRound, SameView, Disputed
<1>7. ComparesOK(x) => ComparesOK(y)
  BY <1>2, ZenonT(30) DEF ComparesOK, SameRound, SameView, Disputed
<1>8. StopOK(x) => StopOK(y)
  <2>1. x.our # None => x.our.set \in TxSet
    BY <1>1, Fields, SMTT(30) DEF Position
  <2> QED BY <1>2, <1>3, <2>1, SMTT(30) DEF StopOK, SameRound, SameView
<1> QED BY <1>2, <1>3, <1>5, <1>6, <1>7, <1>8, ZenonT(30) DEF y, AcquiringStep, AcquiringOK

\* mapcompleteinternal with a map: the set is held, and its peers vote.
LEMMA MapCompleteOK ==
    ASSUME NEW x, NEW but, VotesOK(x, but), NEW s \in TxSet
    PROVE  LET y == MapComplete(x, s)
           IN /\ VotesOK(y, but) /\ SameRound(x, y)
              /\ AcquiringStep(x, y)
              /\ y.state # "crashed" => y.acquiring[s] = "no" /\ Good(y, s)
              /\ \A u \in TxSet \ {s} : y.acquired[u] = x.acquired[u]
              /\ x.our = None \/ x.our.set = s => y.state = x.state
              /\ OursOK(x) => OursOK(y)
              /\ StopOK(x) /\ x.state # "crashed" => StopOK(y)
              /\ ComparesOK(x) => ComparesOK(y)
<1> DEFINE ready == x.our # None /\ ~x.our.bowout /\ x.our.set # s
           x0 == [x EXCEPT !.acquired[s] = "absent", !.compares = @ \cup {s}]
           x1 == IF ready THEN CreateDisputes(x0, Differences(x.our.set, s)) ELSE x
           x2 == [x1 EXCEPT !.acquired[s] = "good", !.acquiring[s] = "no"]
           y  == MapComplete(x, s)
<1>0. x \in ConsensusObject
  BY DEF VotesOK
<1>1. \A p \in Peers : x.peers[p] # None => x.peers[p].set \in TxSet
  BY <1>0, PositionSets, ZenonT(30)
<1>o. x.our # None => x.our.set \in TxSet
  BY <1>0, PositionSets, ZenonT(30)
<1>2. CASE Good(x, s)
  <2>1. y = [x EXCEPT !.acquiring[s] = "no"]
    BY <1>2 DEF MapComplete
  <2>2. /\ y \in ConsensusObject /\ SameRound(x, y) /\ y.disputes = x.disputes
        /\ y.acquired = x.acquired /\ y.acquiring = [x.acquiring EXCEPT ![s] = "no"]
        /\ y.compares = x.compares /\ y.state = x.state
    BY <1>0, <2>1, SMTT(30) DEF ConsensusObject, SameRound, SameView
  <2> HIDE DEF y
  <2>3. VotesOK(y, but)
    <3>1. HoldsNoMore(x, but, y, but)
      BY <2>2, ZenonT(30) DEF SameRound, SameView, HoldsNoMore
    <3> QED BY <2>2, <3>1, VotesFrame, SMTT(30)
  <2>4. OursOK(x) => OursOK(y)
    BY <2>2, ZenonT(30) DEF OursOK, SameRound, SameView, Disputed
  <2>5. \A u \in TxSet : y.acquiring[u] = IF u = s THEN "no" ELSE x.acquiring[u]
    BY <2>2, <1>0, Fields, SMTT(30)
  <2>6. StopOK(x) => StopOK(y)
    BY <2>2, SMTT(30) DEF StopOK, SameRound, SameView
  <2>7. ComparesOK(x) => ComparesOK(y)
    BY <2>2, ZenonT(30) DEF ComparesOK, SameRound, SameView, Disputed
  <2> QED BY <1>2, <2>2, <2>3, <2>4, <2>5, <2>6, <2>7, ZenonT(30)
          DEF y, AcquiringStep, AcquiringOK, Good
<1>3. CASE ~Good(x, s) /\ ready /\ ~Good(x, x.our.set)
  <2>1. y = Crash(x)
    BY <1>3, SMTT(30) DEF MapComplete
  <2> HIDE DEF y
  <2>2. /\ VotesOK(y, but) /\ SameRound(x, y) /\ y.state = "crashed"
        /\ AcquiringStep(x, y) /\ y.acquired = x.acquired
        /\ OursOK(x) => OursOK(y)
        /\ ComparesOK(x) => ComparesOK(y)
    BY <2>1, CrashOK, SMTT(30)
  <2>3. StopOK(x) => StopOK(y)
    <3>1. x.acquired[x.our.set] \in {"absent", "null"}
      BY <1>0, <1>3, <1>o, Fields, ZenonT(30) DEF Good
    <3> QED BY <1>3, <1>o, <2>2, <3>1, ZenonT(30) DEF StopOK, SameRound, SameView
  <2> QED BY <1>3, <2>2, <2>3, ZenonT(30) DEF y
<1>4. CASE ~Good(x, s) /\ ~(ready /\ ~Good(x, x.our.set))
  <2>1. y = AdjustCount(x2, s, PeersAt(x2, s))
    BY <1>4 DEF MapComplete
  <2>2. /\ x0 \in ConsensusObject /\ SameRound(x, x0) /\ x0.state = x.state
        /\ x0.disputes = x.disputes
        /\ x0.acquired = [x.acquired EXCEPT ![s] = "absent"] /\ x0.acquiring = x.acquiring
        /\ x0.compares = x.compares \cup {s}
    BY <1>0, ZenonT(30) DEF ConsensusObject, SameRound, SameView
  <2>3. /\ VotesOK(x1, but) /\ SameRound(x, x1) /\ x1.state = x.state
        /\ \A u \in TxSet \ {s} : x1.acquired[u] = x.acquired[u]
        /\ x1.acquiring = x.acquiring
        /\ OursOK(x) => OursOK(x1)
        /\ ComparesOK(x) => ComparesOK(x1)
    <3>1. CASE ready
      <4> HIDE DEF x0
      <4>1. \A u \in TxSet : x0.acquired[u] = IF u = s THEN "absent" ELSE x.acquired[u]
        BY <2>2, <1>0, Fields, ZenonT(30)
      <4>2. VotesOK(x0, but)
        <5>1. x0.peers = x.peers
          BY <2>2, SMTT(30) DEF SameRound, SameView
        <5>2. HoldsNoMore(x, but, x0, but)
          BY <5>1, <2>2, <4>1, <1>1, ZenonT(30) DEF HoldsNoMore
        <5> QED BY <2>2, <5>2, VotesFrame, ZenonT(30)
      <4>3. OursOK(x) => OursOK(x0)
        BY <2>2, ZenonT(30) DEF OursOK, SameRound, SameView, Disputed
      <4>4. x0.our # None
        BY <2>2, <3>1, ZenonT(30) DEF SameRound, SameView
      <4>5. x1 = CreateDisputes(x0, Differences(x.our.set, s))
        BY <3>1, SMTT(30)
      <4> HIDE DEF x1, ready
      <4>6. /\ VotesOK(x1, but) /\ SameRound(x0, x1) /\ x1.state = x0.state
            /\ x1.acquired = x0.acquired /\ x1.acquiring = x0.acquiring
            /\ x1.compares = x0.compares
            /\ Disputed(x1) = Disputed(x0) \cup (Differences(x.our.set, s) \cap Txs)
            /\ OursOK(x0) => OursOK(x1)
        BY <4>2, <4>4, <4>5, CreateDisputesOK, ZenonT(30)
      <4>7. ComparesOK(x) => ComparesOK(x1)
        <5>1. x1.our = x.our /\ x1.our # None
          BY <2>2, <4>4, <4>6, ZenonT(30) DEF SameRound, SameView
        <5>2. Differences(x.our.set, s) \subseteq Txs
          BY <1>o, <4>4, <5>1, ZenonT(30) DEF Differences, TxSet
        <5>3. Disputed(x1) = Disputed(x) \cup Differences(x.our.set, s)
          BY <2>2, <4>6, <5>2, ZenonT(30) DEF Disputed
        <5> QED BY <2>2, <4>6, <5>1, <5>3, ZenonT(30) DEF ComparesOK
      <4> QED BY <2>2, <4>1, <4>3, <4>6, <4>7, ZenonT(30) DEF SameRound, SameView
    <3>2. CASE ~ready
      BY <3>2, ZenonT(30) DEF SameRound, SameView
    <3> QED BY <3>1, <3>2, ZenonT(30)
  <2> HIDE DEF x1, ready, x0
  <2>4. x1 \in ConsensusObject
    BY <2>3 DEF VotesOK
  <2>5. /\ x2 \in ConsensusObject /\ SameRound(x1, x2) /\ x2.state = x1.state
        /\ x2.disputes = x1.disputes
        /\ x2.acquired = [x1.acquired EXCEPT ![s] = "good"]
        /\ x2.acquiring = [x1.acquiring EXCEPT ![s] = "no"] /\ x2.compares = x1.compares
    BY <2>4, ZenonT(30) DEF ConsensusObject, SameRound, SameView
  <2> HIDE DEF x2
  <2>6. \A u \in TxSet : /\ x2.acquired[u] = IF u = s THEN "good" ELSE x.acquired[u]
                         /\ x2.acquiring[u] = IF u = s THEN "no" ELSE x.acquiring[u]
    <3>1. /\ x1.acquired \in [TxSet -> {"absent", "null", "good"}]
          /\ x1.acquiring \in [TxSet -> {"no", "active", "done"}]
      BY <2>4, Fields, ZenonT(30)
    <3> QED BY <2>3, <2>5, <3>1, ZenonT(30)
  <2>7. /\ PeersAt(x2, s) \subseteq Peers
        /\ \A p \in PeersAt(x2, s) : x2.peers[p] # None /\ x2.peers[p].set = s
        /\ \A p \in Peers \ PeersAt(x2, s) : x2.peers[p] # None => x2.peers[p].set # s
    BY DEF PeersAt, Proposers
  <2>b. PICK bat : bat = but \cup PeersAt(x2, s)
    BY ZenonT(30)
  <2>8. VotesOK(x2, bat)
    <3>1. \A p \in Peers \ bat :
            x2.peers[p] # None /\ x2.acquired[x2.peers[p].set] = "good"
              => p \notin but /\ x1.acquired[x1.peers[p].set] = "good"
      <4> SUFFICES ASSUME NEW p \in Peers \ bat, x2.peers[p] # None,
                          x2.acquired[x2.peers[p].set] = "good"
                   PROVE  p \notin but /\ x1.acquired[x1.peers[p].set] = "good"
        BY ZenonT(30)
      <4>1. p \in Peers /\ p \notin but /\ p \notin PeersAt(x2, s)
        BY <2>b, ZenonT(30)
      <4>2. x2.peers = x1.peers /\ x1.peers = x.peers
        BY <2>3, <2>5, ZenonT(30) DEF SameRound
      <4>3. PICK u \in TxSet \ {s} : u = x1.peers[p].set
        BY <1>1, <2>7, <4>1, <4>2, ZenonT(30)
      <4>4. x2.acquired[u] = x.acquired[u] /\ x1.acquired[u] = x.acquired[u]
        BY <2>3, <2>6, <4>3, ZenonT(30)
      <4> QED BY <4>1, <4>2, <4>3, <4>4, ZenonT(30)
    <3>2. x2.peers = x1.peers /\ VotesOK(x1, but) /\ x2.disputes = x1.disputes
      BY <2>3, <2>5, ZenonT(30) DEF SameRound, SameView
    <3>3. HoldsNoMore(x1, but, x2, bat)
      BY <3>1, <3>2, ZenonT(30) DEF HoldsNoMore
    <3> QED BY <2>5, <3>2, <3>3, VotesFrame, ZenonT(30)
  <2>9. OursOK(x) => OursOK(x2)
    BY <2>3, <2>5, ZenonT(30) DEF OursOK, SameRound, SameView, Disputed
  <2> HIDE DEF y
  <2>10. /\ VotesOK(y, but) /\ SameRound(x2, y) /\ y.state = x2.state
         /\ y.acquired = x2.acquired /\ y.acquiring = x2.acquiring
         /\ y.compares = x2.compares /\ Disputed(y) = Disputed(x2)
         /\ OursOK(x2) => OursOK(y)
    <3>1. bat \subseteq but \cup PeersAt(x2, s)
      BY <2>b, SMTT(30)
    <3>2. PICK ps : ps = PeersAt(x2, s)
      BY Zenon
    <3>3. y = AdjustCount(x2, s, ps)
      BY <2>1, <3>2, ZenonT(30)
    <3>4. ps \subseteq Peers /\ bat \subseteq but \cup ps /\ ps \subseteq PeersAt(x2, s)
      BY <2>7, <3>1, <3>2, ZenonT(30)
    <3> QED BY <2>8, <3>3, <3>4, AdjustCountOK, SMTT(30)
  <2>11. SameRound(x, y)
    BY <2>3, <2>5, <2>10, ZenonT(30) DEF SameRound, SameView
  <2>12. y.state = x.state
    BY <2>3, <2>5, <2>10, ZenonT(30)
  <2>13. StopOK(x) /\ x.state # "crashed" => StopOK(y)
    BY <1>o, <2>6, <2>10, <2>11, <2>12, ZenonT(30) DEF StopOK, SameRound, SameView
  <2>14. ComparesOK(x) => ComparesOK(y)
    <3>1. Disputed(y) = Disputed(x1) /\ y.compares = x1.compares /\ y.our = x1.our
      BY <2>5, <2>10, ZenonT(30) DEF SameRound, SameView, Disputed
    <3> QED BY <2>3, <3>1, ZenonT(30) DEF ComparesOK
  <2> QED BY <2>6, <2>9, <2>10, <2>11, <2>12, <2>13, <2>14, ZenonT(30)
          DEF y, AcquiringStep, AcquiringOK, Good
<1> QED BY <1>2, <1>3, <1>4, ZenonT(30)

\* gettransactiontree
LEMMA GetTransactionTreeOK ==
    ASSUME NEW x, NEW but, VotesOK(x, but), NEW s \in TxSet, NEW o, NEW doacquire
    PROVE  LET y == GetTransactionTree(x, s, o, doacquire)
           IN /\ VotesOK(y, but) /\ SameRound(x, y) /\ AcquiringStep(x, y)
              /\ OursOK(x) => OursOK(y)
              /\ StopOK(x) /\ x.state # "crashed" => StopOK(y)
              /\ ComparesOK(x) => ComparesOK(y)
<1> DEFINE y == GetTransactionTree(x, s, o, doacquire)
           z == [x EXCEPT !.acquiring[s] = "active"]
<1>0. x \in ConsensusObject
  BY SMTT(30) DEF VotesOK
<1>1. CASE y = x
  BY <1>1, ZenonT(30) DEF SameRound, SameView, AcquiringStep
<1>2. CASE y = MapComplete(x, s)
  BY <1>2, MapCompleteOK, ZenonT(30)
<1>3. CASE y = z /\ x.acquired[s] = "absent"
  <2>1. /\ z \in ConsensusObject /\ SameRound(x, z) /\ z.disputes = x.disputes
        /\ z.acquired = x.acquired /\ z.acquiring = [x.acquiring EXCEPT ![s] = "active"]
        /\ z.compares = x.compares /\ z.state = x.state
    BY <1>0, SMTT(30) DEF ConsensusObject, SameRound, SameView
  <2> HIDE DEF z
  <2>2. VotesOK(z, but)
    <3>1. HoldsNoMore(x, but, z, but)
      BY <2>1, ZenonT(30) DEF SameRound, SameView, HoldsNoMore
    <3> QED BY <2>1, <3>1, VotesFrame, ZenonT(30)
  <2>3. OursOK(x) => OursOK(z)
    BY <2>1, ZenonT(30) DEF OursOK, SameRound, SameView, Disputed
  <2>4. \A u \in TxSet : z.acquiring[u] = IF u = s THEN "active" ELSE x.acquiring[u]
    BY <2>1, <1>0, Fields, ZenonT(30)
  <2>5. AcquiringStep(x, z)
    BY <1>3, <2>1, <2>4, ZenonT(30) DEF AcquiringStep, AcquiringOK
  <2>6. (StopOK(x) => StopOK(z)) /\ (ComparesOK(x) => ComparesOK(z))
    BY <2>1, ZenonT(30) DEF StopOK, ComparesOK, SameRound, SameView, Disputed
  <2> QED BY <1>3, <2>1, <2>2, <2>3, <2>5, <2>6, ZenonT(30)
<1>4. y = x \/ y = MapComplete(x, s) \/ (y = z /\ x.acquired[s] = "absent")
  BY DEF GetTransactionTree
<1> QED BY <1>1, <1>2, <1>3, <1>4, SMTT(30)

\* peerposition: a dead or stale proposal changes nothing, a bow-out removes the
\* peer and its votes, and a new position makes it vote if we hold its set.
LEMMA PeerPositionOK ==
    ASSUME NEW x, VotesOK(x, Nobody), NEW p \in Peers, NEW pos \in Proposal, NEW o
    PROVE  LET y == PeerPosition(x, p, pos, o)
           IN /\ VotesOK(y, Nobody) /\ SameView(x, y) /\ AcquiringStep(x, y)
              /\ DeadOK(x) => DeadOK(y)
              /\ OursOK(x) => OursOK(y)
              /\ StopOK(x) /\ x.state # "crashed" => StopOK(y)
              /\ ComparesOK(x) => ComparesOK(y)
<1> DEFINE y  == PeerPosition(x, p, pos, o)
           x0 == [x EXCEPT !.peers[p] = pos]
           x1 == GetTransactionTree(x0, pos.set, o, TRUE)
           xd == [x EXCEPT !.dead = @ \cup {p}]
<1>0. x \in ConsensusObject /\ pos.set \in TxSet /\ pos # None
  BY NoneAssumption DEF VotesOK, Proposal
<1>1. PICK ps : ps = {p}
  BY ZenonT(30)
<1>2. CASE y = x
  BY <1>2, Zenon DEF SameView, AcquiringStep
<1>3. CASE y = DropPeers(xd, {p})
  <2>1. /\ xd \in ConsensusObject /\ SameView(x, xd) /\ xd.dead = x.dead \cup {p}
        /\ xd.disputes = x.disputes /\ xd.peers = x.peers
        /\ xd.acquired = x.acquired /\ xd.acquiring = x.acquiring
        /\ xd.compares = x.compares /\ xd.state = x.state
    BY <1>0, SMTT(30) DEF ConsensusObject, SameView
  <2> HIDE DEF xd, y
  <2>2. HoldsNoMore(x, Nobody, xd, Nobody)
    BY <2>1, ZenonT(30) DEF HoldsNoMore
  <2>3. VotesOK(xd, Nobody)
    BY <2>1, <2>2, VotesFrame, ZenonT(30)
  <2>4. ps \subseteq Peers /\ y = DropPeers(xd, ps)
    BY <1>1, <1>3, SMTT(30)
  <2>5. /\ VotesOK(y, Nobody) /\ y.state = xd.state
        /\ SameView(xd, y) /\ y.dead = xd.dead /\ y.compares = xd.compares
        /\ y.acquired = xd.acquired /\ y.acquiring = xd.acquiring
        /\ Proposers(y) = Proposers(xd) \ ps
        /\ Disputed(y) = Disputed(xd)
        /\ \A t \in Disputed(xd) : y.disputes[t].ourvote = xd.disputes[t].ourvote
    BY <2>3, <2>4, DropPeersOK, SMTT(30)
  <2>7. SameView(x, y)
    BY <2>1, <2>5, ZenonT(30) DEF SameView
  <2>8. DeadOK(x) => DeadOK(y)
    BY <1>1, <2>1, <2>5, ZenonT(30) DEF DeadOK, Proposers
  <2>9. OursOK(x) => OursOK(y)
    BY <2>1, <2>5, <2>7, ZenonT(30) DEF OursOK, SameView, Disputed
  <2>10. (StopOK(x) => StopOK(y)) /\ (ComparesOK(x) => ComparesOK(y))
    <3>1. Disputed(y) = Disputed(x) /\ y.compares = x.compares /\ y.our = x.our
      BY <2>1, <2>5, <2>7, ZenonT(30) DEF SameView, Disputed
    <3>2. y.state = x.state /\ y.acquired = x.acquired
      BY <2>1, <2>5, ZenonT(30)
    <3> QED BY <3>1, <3>2, ZenonT(30) DEF StopOK, ComparesOK
  <2> QED BY <2>1, <2>5, <2>7, <2>8, <2>9, <2>10, ZenonT(30) DEF y, AcquiringStep, AcquiringOK
<1>4. CASE /\ p \notin x.dead
           /\ y = IF Good(x1, pos.set) THEN AdjustCount(x1, pos.set, {p}) ELSE x1
  <2>1. /\ x0 \in ConsensusObject /\ SameView(x, x0) /\ x0.dead = x.dead
        /\ x0.disputes = x.disputes /\ x0.peers = [x.peers EXCEPT ![p] = pos]
        /\ x0.acquired = x.acquired /\ x0.acquiring = x.acquiring
        /\ x0.compares = x.compares /\ x0.state = x.state
    BY <1>0, SMTT(30) DEF ConsensusObject, SameView
  <2> HIDE DEF x0
  <2>2. \A q \in Peers : x0.peers[q] = IF q = p THEN pos ELSE x.peers[q]
    BY <1>0, <2>1, Fields, ZenonT(30)
  <2>3. VotesOK(x0, ps)
    <3> SUFFICES ASSUME NEW t \in Txs, x0.disputes[t] # None
                 PROVE  DisputeOK(x0, x0.disputes[t], t, ps)
      BY <2>1, ZenonT(30) DEF VotesOK
    <3>1. DisputeOK(x, x.disputes[t], t, Nobody)
      BY <2>1, SMTT(30) DEF VotesOK
    <3> QED BY <1>0, <1>1, <2>1, <2>2, <3>1, ZenonT(30) DEF DisputeOK, Nobody
  <2>4. DeadOK(x) => DeadOK(x0)
    BY <1>4, <2>1, <2>2, ZenonT(30) DEF DeadOK, Proposers
  <2>5. OursOK(x) => OursOK(x0)
    BY <2>1, ZenonT(30) DEF OursOK, SameView, Disputed
  <2>s. (StopOK(x) => StopOK(x0)) /\ (ComparesOK(x) => ComparesOK(x0))
    BY <2>1, ZenonT(30) DEF StopOK, ComparesOK, SameView, Disputed
  <2>6. /\ VotesOK(x1, ps) /\ SameRound(x0, x1) /\ AcquiringStep(x0, x1)
        /\ OursOK(x0) => OursOK(x1)
        /\ StopOK(x0) /\ x0.state # "crashed" => StopOK(x1)
        /\ ComparesOK(x0) => ComparesOK(x1)
    BY <1>0, <2>3, GetTransactionTreeOK, ZenonT(30)
  <2> HIDE DEF x1
  <2>7. SameView(x, x1) /\ AcquiringStep(x, x1)
    BY <2>1, <2>6, ZenonT(30) DEF SameRound, SameView, AcquiringStep, AcquiringOK
  <2>8. DeadOK(x0) => DeadOK(x1)
    BY <2>6, ZenonT(30) DEF DeadOK, SameRound, Proposers
  <2>9. CASE Good(x1, pos.set)
    <3>1. y = AdjustCount(x1, pos.set, ps)
      BY <1>1, <1>4, <2>9, ZenonT(30)
    <3>2. ps \subseteq Nobody \cup ps /\ ps \subseteq Peers /\ ps \subseteq PeersAt(x1, pos.set)
      BY <1>0, <1>1, <2>2, <2>6, ZenonT(30) DEF SameRound, PeersAt, Proposers
    <3> HIDE DEF y
    <3>3. /\ VotesOK(y, Nobody) /\ SameRound(x1, y) /\ y.state = x1.state
          /\ y.acquired = x1.acquired /\ y.acquiring = x1.acquiring
          /\ y.compares = x1.compares /\ Disputed(y) = Disputed(x1)
          /\ OursOK(x1) => OursOK(y)
      BY <2>6, <3>1, <3>2, AdjustCountOK, SMTT(30)
    <3>4. SameView(x, y) /\ AcquiringStep(x, y)
      BY <2>7, <3>3, ZenonT(30) DEF SameRound, SameView, AcquiringStep, AcquiringOK
    <3>5. DeadOK(x1) => DeadOK(y)
      BY <3>3, ZenonT(30) DEF DeadOK, SameRound, Proposers
    <3>6. (StopOK(x1) => StopOK(y)) /\ (ComparesOK(x1) => ComparesOK(y))
      <4>1. y.our = x1.our
        BY <3>3, SMTT(30) DEF SameRound, SameView
      <4> QED BY <3>3, <4>1, ZenonT(30) DEF StopOK, ComparesOK
    <3> QED BY <2>1, <2>s, <2>4, <2>5, <2>6, <2>8, <3>3, <3>4, <3>5, <3>6, ZenonT(30) DEF y
  <2>10. CASE ~Good(x1, pos.set)
    <3>1. y = x1
      BY <1>4, <2>10
    <3>2. x1 \in ConsensusObject /\ x1.peers = x0.peers
      BY <2>6, SMTT(30) DEF VotesOK, SameRound
    <3>3. HoldsNoMore(x1, ps, x1, Nobody)
      BY <1>1, <2>2, <2>10, <3>2, ZenonT(30) DEF HoldsNoMore, Good
    <3>4. VotesOK(x1, Nobody)
      BY <2>6, <3>2, <3>3, VotesFrame, SMTT(30)
    <3> QED BY <2>1, <2>s, <2>4, <2>5, <2>6, <2>7, <2>8, <3>1, <3>4, ZenonT(30)
  <2> QED BY <2>9, <2>10, ZenonT(30)
<1>5. \/ y = x
      \/ y = DropPeers(xd, {p})
      \/ /\ p \notin x.dead
         /\ y = IF Good(x1, pos.set) THEN AdjustCount(x1, pos.set, {p}) ELSE x1
  BY Zenon DEF PeerPosition
<1> QED BY <1>2, <1>3, <1>4, <1>5, ZenonT(30)

-----------------------------------------------------------------------------
\* A set of natural numbers has a least element.
LEMMA NatMin ==
    ASSUME NEW T, T \subseteq Nat, T # {}
    PROVE  \E m \in T : \A n \in T : m <= n
<1>1. PICK R : R = {ss \in Nat \X Nat : ss[1] < ss[2]}
  BY Zenon
<1>2. IsWellFoundedOn(R, Nat)
  BY <1>1, NatLessThanWellFounded DEF OpToRel
<1>3. PICK m \in T : \A n \in T : ~(<<n, m>> \in R)
  BY <1>2, WFMin, Zenon
<1>4. \A n \in T : ~(n < m)
  BY <1>1, <1>3, ZenonT(30)
<1> QED BY <1>4

\* A bounded function has a greatest value.
LEMMA Greatest ==
    ASSUME NEW S, S # {}, NEW b \in Nat, NEW f \in [S -> Nat], \A t \in S : f[t] <= b
    PROVE  \E t \in S : \A u \in S : f[u] <= f[t]
<1>1. PICK T : T = {n \in Nat : \E t \in S : n = b - f[t]}
  BY Zenon
<1>2. T \subseteq Nat /\ (\A t \in S : b - f[t] \in T)
  BY <1>1
<1>3. PICK m \in T : \A n \in T : m <= n
  BY <1>2, NatMin, ZenonT(30)
<1>4. PICK v \in S : m = b - f[v]
  BY <1>1, <1>3
<1>5. ASSUME NEW u \in S PROVE f[u] <= f[v]
  <2>1. b - f[v] <= b - f[u]
    BY <1>2, <1>3, <1>4
  <2> QED BY <2>1
<1> QED BY <1>5

\* Of the arguments with the greatest value there is a largest one.
LEMMA LargestExists ==
    ASSUME NEW S, S \subseteq Nat, S # {}, NEW b \in Nat, NEW f \in [S -> Nat],
           \A t \in S : t <= b /\ f[t] <= b
    PROVE  \E t \in S : \A u \in S : f[t] > f[u] \/ (f[t] = f[u] /\ t >= u)
<1>1. PICK v \in S : \A u \in S : f[u] <= f[v]
  BY Greatest, ZenonT(30)
<1>2. PICK T : T = {t \in S : f[t] = f[v]}
  BY Zenon
<1>3. PICK g : g = [t \in T |-> t]
  BY Zenon
<1>4. T # {} /\ g \in [T -> Nat] /\ \A t \in T : g[t] = t /\ g[t] <= b
  BY <1>2, <1>3, ZenonT(30)
<1>5. PICK w \in T : \A u \in T : g[u] <= g[w]
  BY <1>4, Greatest
<1>6. \A u \in T : u <= w
  BY <1>4, <1>5
<1>7. ASSUME NEW u \in S PROVE f[w] > f[u] \/ (f[w] = f[u] /\ w >= u)
  <2>1. w \in S /\ f[w] = f[v] /\ f[u] <= f[v] /\ f[u] \in Nat /\ f[v] \in Nat
    BY <1>1, <1>2
  <2>2. CASE f[u] = f[v]
    BY <2>1, <2>2, <1>2, <1>6, SMTT(30)
  <2>3. CASE f[u] # f[v]
    BY <2>1, <2>3
  <2> QED BY <2>2, <2>3
<1>8. w \in S
  BY <1>2, SMTT(30)
<1> QED BY <1>7, <1>8

\* computepercent: three quarters, rounded, are at least half.
LEMMA ThreeQuarters ==
    ASSUME NEW n \in Nat, n >= 1
    PROVE  2 * ComputePercent(n, av_ct_consensus_pct) >= n
           /\ ComputePercent(n, av_ct_consensus_pct) \in Nat
BY SMTT(30) DEF ComputePercent, av_ct_consensus_pct

\* The vote on the close time finds one of the times, or none, and one that it
\* finds agreed has at least half of those who propose behind it.
LEMMA CloseTimeVoteOK ==
    ASSUME NEW x \in ConsensusObject, x.our # None
    PROVE  /\ CloseTimeVote(x).time \in CloseTimes \cup {0}
           /\ CloseTimeVote(x).agreed \in BOOLEAN
           /\ CloseTimeVote(x).agreed /\ CloseTimeVote(x).time # 0 /\ Proposers(x) # {}
                => 2 * Backers(x, x, CloseTimeVote(x).time) >= Electorate(x, x)
<1> DEFINE
      count(t)  == Cardinality({p \in Proposers(x) : x.peers[p].closetime = t})
                   + (IF x.proposing /\ x.our.closetime = t THEN 1 ELSE 0)
      size      == Cardinality(Proposers(x)) + (IF x.proposing THEN 1 ELSE 0)
      popular   == {t \in CloseTimes \cup {0} :
                      count(t) >= ComputePercent(size, NeededPct(ClosePercent(x)))}
      first(t)  == \A u \in popular : count(t) > count(u) \/ (count(t) = count(u) /\ t >= u)
      best      == CHOOSE t \in popular : first(t)
      threshold == ComputePercent(size, av_ct_consensus_pct)
<1>1. CloseTimeVote(x) =
        IF Proposers(x) = {} THEN [time |-> x.our.closetime, agreed |-> TRUE]
        ELSE IF popular # {} /\ count(best) >= threshold THEN [time |-> best, agreed |-> TRUE]
        ELSE IF count(0) > threshold THEN [time |-> 0, agreed |-> TRUE]
        ELSE [time |-> IF popular = {} THEN 0 ELSE best, agreed |-> FALSE]
  BY ZenonT(30) DEF CloseTimeVote
<1>2. x.our.closetime \in CloseTimes \cup {0}
  BY Fields DEF Position
<1>3. popular # {} => best \in CloseTimes \cup {0}
  <2> SUFFICES ASSUME popular # {} PROVE \E t \in popular : first(t)
    BY ZenonT(30)
  <2>1. IsFiniteSet(Peers) /\ Cardinality(Peers) \in Nat
    <3> HIDE DEF popular, first
    <3> QED BY ConsensusAssumption, FS_CardinalityType
  <2>g. PICK h : h = 65536 * 65536
    BY SMTT(30)
  <2>h. h \in Nat /\ \A t \in Nat : t \div 65536 < 65536 => t <= h
    BY <2>g, SMTT(30)
  <2>2. PICK b \in Nat : b >= Cardinality(Peers) + 1 /\ b >= h
    <3>1. Cardinality(Peers) + 1 + h \in Nat
      BY <2>1, <2>h, SMTT(30)
    <3> QED BY <2>1, <2>h, <3>1, SMTT(30)
  <2>3. ASSUME NEW t PROVE count(t) \in Nat /\ count(t) <= b
    <3>1. {p \in Proposers(x) : x.peers[p].closetime = t} \in SUBSET Peers
      BY SMTT(30) DEF Proposers
    <3> DEFINE n == Cardinality({p \in Proposers(x) : x.peers[p].closetime = t})
    <3>2. n \in Nat /\ n <= Cardinality(Peers)
      BY <2>1, <3>1, FS_Subset, FS_CardinalityType, ZenonT(30)
    <3> HIDE DEF n
    <3>3. n + (IF x.proposing /\ x.our.closetime = t THEN 1 ELSE 0) \in Nat
          /\ n + (IF x.proposing /\ x.our.closetime = t THEN 1 ELSE 0) <= b
      BY <2>1, <2>2, <3>2, SMTT(30)
    <3> QED BY <3>3, ZenonT(30) DEF n
  <2>4. popular \subseteq Nat /\ \A t \in popular : t <= b
    <3>1. \A t \in CloseTimes : t \in Nat /\ t \div 65536 < 65536
      BY ConsensusAssumption, SMTT(30)
    <3>2. \A t \in CloseTimes : t \in Nat /\ t <= b
      BY <2>h, <2>2, <3>1, SMTT(30)
    <3>3. \A t \in CloseTimes \cup {0} : t \in Nat /\ t <= b
      BY <3>2
    <3> QED BY <3>3, ZenonT(30)
  <2> HIDE DEF count, popular
  <2>5. PICK f : f = [t \in popular |-> count(t)]
    BY Zenon
  <2>6. f \in [popular -> Nat] /\ \A t \in popular : f[t] = count(t) /\ t <= b /\ f[t] <= b
    BY <2>3, <2>4, <2>5, SMTT(30)
  <2>7. \E t \in popular : \A u \in popular : f[t] > f[u] \/ (f[t] = f[u] /\ t >= u)
    BY <2>2, <2>4, <2>6, LargestExists, ZenonT(30)
  <2> QED BY <2>6, <2>7, SMTT(30)
<1>4. Proposers(x) # {} => 2 * threshold >= size /\ threshold \in Nat /\ size \in Nat
  <2>1. IsFiniteSet(Proposers(x)) /\ Cardinality(Proposers(x)) \in Nat
    <3>1. Proposers(x) \subseteq Peers /\ IsFiniteSet(Peers)
      BY ConsensusAssumption, SMTT(30) DEF Proposers
    <3> QED BY <3>1, FS_Subset, FS_CardinalityType, ZenonT(30)
  <2>2. Proposers(x) # {} => Cardinality(Proposers(x)) # 0
    BY <2>1, FS_EmptySet, ZenonT(30)
  <2>3. PICK n : n = size
    OBVIOUS
  <2>4. Proposers(x) # {} => n \in Nat /\ n >= 1
    BY <2>1, <2>2, <2>3, SMTT(30)
  <2> QED BY <2>3, <2>4, ThreeQuarters, SMTT(30)
<1>5. \A t : count(t) \in Nat
  <2> SUFFICES ASSUME NEW t PROVE count(t) \in Nat
    BY Zenon
  <2>1. {p \in Proposers(x) : x.peers[p].closetime = t} \in SUBSET Peers /\ IsFiniteSet(Peers)
    BY ConsensusAssumption, SMTT(30) DEF Proposers
  <2>2. Cardinality({p \in Proposers(x) : x.peers[p].closetime = t}) \in Nat
    BY <2>1, FS_Subset, FS_CardinalityType, ZenonT(30)
  <2> QED BY <2>2, SMTT(30)
<1>6. \A t : Backers(x, x, t) = count(t)
  BY Zenon DEF Backers
<1>7. Electorate(x, x) = size
  BY Zenon DEF Electorate
<1> HIDE DEF popular, best, count, threshold, size
<1>8. CloseTimeVote(x).time \in CloseTimes \cup {0} /\ CloseTimeVote(x).agreed \in BOOLEAN
  BY <1>1, <1>2, <1>3, SMTT(30)
<1>9. CloseTimeVote(x).agreed /\ CloseTimeVote(x).time # 0 /\ Proposers(x) # {}
        => count(CloseTimeVote(x).time) >= threshold
  BY <1>1, SMTT(30)
<1>10. CloseTimeVote(x).agreed /\ CloseTimeVote(x).time # 0 /\ Proposers(x) # {}
         => 2 * count(CloseTimeVote(x).time) >= size
  <2>1. PICK k : k = count(CloseTimeVote(x).time)
    OBVIOUS
  <2> QED BY <1>4, <1>5, <1>9, <2>1, SMTT(30)
<1> QED BY <1>6, <1>7, <1>8, <1>10, ZenonT(30)

-----------------------------------------------------------------------------
\* An object without positions and disputes.
LEMMA NoVotesOK ==
    ASSUME NEW y \in ConsensusObject, \A p \in Peers : y.peers[p] = None,
           \A t \in Txs : y.disputes[t] = None
    PROVE  VotesOK(y, Nobody) /\ OursOK(y) /\ DeadOK(y)
BY ZenonT(30) DEF VotesOK, OursOK, DeadOK, Proposers, Disputed

\* A new consensus object, and no object.
LEMMA NoConsensusOK ==
    /\ NoConsensus \in ConsensusObject /\ RoundOK(NoConsensus) /\ ComparesOK(NoConsensus)
    /\ \A s \in TxSet : NoConsensus.acquiring[s] = "no"
<1>1. NoConsensus \in ConsensusObject
  BY ZenonT(30) DEF NoConsensus, ConsensusObject, States
<1>2. /\ \A p \in Peers : NoConsensus.peers[p] = None
      /\ \A t \in Txs : NoConsensus.disputes[t] = None
      /\ \A s \in TxSet : NoConsensus.acquiring[s] = "no"
      /\ NoConsensus.our = None /\ ~NoConsensus.proposing /\ NoConsensus.state = "none"
      /\ NoConsensus.compares = {}
  BY ZenonT(30) DEF NoConsensus
<1> QED BY <1>1, <1>2, NoVotesOK, ZenonT(30)
        DEF RoundOK, AcquiringOK, SyncOK, StateOK, StopOK, ComparesOK

\* handlelcl, first part
LEMMA ChangeViewOK ==
    ASSUME NEW x, RoundOK(x), NEW l \in Ledgers
    PROVE  LET y == ChangeView(x, l)
           IN /\ RoundOK(y) /\ y.state = x.state /\ y.acquiring = x.acquiring
              /\ x.our # None => y.our # None /\ y.our.set = x.our.set
<1> DEFINE y == ChangeView(x, l)
<1>1. x \in ConsensusObject
  BY DEF RoundOK, VotesOK
<1>2. /\ y.our \in Position \cup {None} /\ (y.our = None <=> x.our = None)
      /\ x.our # None => y.our.set = x.our.set
  <2>1. x.our # None => [x.our EXCEPT !.bowout = TRUE] \in Position
                        /\ [x.our EXCEPT !.bowout = TRUE].set = x.our.set
    BY <1>1, Fields, ZenonT(30) DEF Position
  <2>2. \/ y.our = x.our
        \/ x.our # None /\ y.our = [x.our EXCEPT !.bowout = TRUE]
    BY <1>1 DEF ChangeView, ConsensusObject
  <2> HIDE DEF y
  <2> QED BY <1>1, <2>1, <2>2, Fields, NoneAssumption, ZenonT(30)
<1>3. /\ y.state = x.state /\ y.proposing = FALSE /\ y.prevledgerhash = l
      /\ y.peers = [p \in Peers |-> None] /\ y.disputes = [t \in Txs |-> None]
      /\ y.acquiring = x.acquiring /\ y.acquired = x.acquired
  BY <1>1 DEF ChangeView, ConsensusObject
<1>4. y \in ConsensusObject
  <2>1. PICK o : o = y.our
    OBVIOUS
  <2>2. y = [x EXCEPT !.prevledgerhash = l, !.our = o, !.proposing = FALSE,
                      !.peers = [p \in Peers |-> None], !.disputes = [t \in Txs |-> None],
                      !.dead = {}]
    BY <1>1, <2>1, SMTT(30) DEF ChangeView, ConsensusObject
  <2>3. o \in Position \cup {None}
    BY <1>2, <2>1, ZenonT(30)
  <2> HIDE DEF y
  <2> QED BY <1>1, <2>2, <2>3, ZenonT(30) DEF ConsensusObject
<1> HIDE DEF y
<1>5. VotesOK(y, Nobody) /\ OursOK(y) /\ DeadOK(y)
  BY <1>3, <1>4, NoVotesOK, ZenonT(30)
<1>6. AcquiringOK(y) /\ SyncOK(y) /\ StateOK(y)
  BY <1>2, <1>3, ZenonT(30) DEF RoundOK, AcquiringOK, SyncOK, StateOK
<1>7. StopOK(y)
  BY <1>2, <1>3, ZenonT(30) DEF RoundOK, StopOK
<1> QED BY <1>2, <1>3, <1>5, <1>6, <1>7, ZenonT(30) DEF y, RoundOK

\* handlelcl, second part: a node that proposes is on the network's ledger and
\* does not switch.
LEMMA SwitchLedgerOK ==
    ASSUME NEW x, RoundOK(x), NEW ledgers, ledgers \subseteq Ledgers
    PROVE  LET y == SwitchLedger(x, ledgers)
           IN /\ RoundOK(y) /\ y.state = x.state /\ y.our = x.our /\ y.ms = x.ms
              /\ y.peers = x.peers /\ y.acquiring = x.acquiring /\ y.proposing = x.proposing
              /\ ComparesOK(x) => ComparesOK(y)
<1> DEFINE y == SwitchLedger(x, ledgers)
<1>1. x \in ConsensusObject
  BY DEF RoundOK, VotesOK
<1>2. CASE y = x
  BY <1>2, SMTT(30)
<1>3. CASE y # x
  <2>1. \/ y = [x EXCEPT !.previousledger = x.prevledgerhash, !.havecorrectlcl = TRUE]
        \/ y = [x EXCEPT !.acquiringledger = x.prevledgerhash, !.havecorrectlcl = FALSE]
    BY <1>3 DEF SwitchLedger
  <2>2. ~x.proposing
    BY <1>3 DEF SwitchLedger, RoundOK, SyncOK
  <2> HIDE DEF y
  <2>3. /\ y \in ConsensusObject /\ y.state = x.state /\ y.our = x.our /\ y.ms = x.ms
        /\ y.peers = x.peers /\ y.acquiring = x.acquiring /\ y.acquired = x.acquired
        /\ y.dead = x.dead /\ y.disputes = x.disputes /\ y.proposing = x.proposing
        /\ y.compares = x.compares
    <3>1. CASE y = [x EXCEPT !.previousledger = x.prevledgerhash, !.havecorrectlcl = TRUE]
      BY <1>1, <3>1, ZenonT(30) DEF ConsensusObject
    <3>2. CASE y = [x EXCEPT !.acquiringledger = x.prevledgerhash, !.havecorrectlcl = FALSE]
      BY <1>1, <3>2, ZenonT(30) DEF ConsensusObject
    <3> QED BY <2>1, <3>1, <3>2, SMTT(30)
  <2>4. HoldsNoMore(x, Nobody, y, Nobody)
    BY <2>3, ZenonT(30) DEF HoldsNoMore
  <2>5. VotesOK(y, Nobody)
    BY <2>3, <2>4, VotesFrame, SMTT(30) DEF RoundOK
  <2>6. OursOK(y) /\ DeadOK(y) /\ AcquiringOK(y) /\ SyncOK(y) /\ StateOK(y)
    BY <2>2, <2>3, ZenonT(30)
       DEF RoundOK, OursOK, Disputed, DeadOK, Proposers, AcquiringOK, SyncOK, StateOK
  <2>7. StopOK(y) /\ (ComparesOK(x) => ComparesOK(y))
    BY <2>3, ZenonT(30) DEF RoundOK, StopOK, ComparesOK, Disputed
  <2> QED BY <2>3, <2>5, <2>6, <2>7, ZenonT(30) DEF y, RoundOK
<1> QED BY <1>2, <1>3, ZenonT(30)

\* takeinitialposition
LEMMA TakeInitialPositionOK ==
    ASSUME NEW x, RoundOK(x), x.our = None, NEW s \in TxSet, NEW ct \in CloseTimes,
           NEW z, z = [x EXCEPT !.state = "establish", !.ms = 0]
    PROVE  LET y == TakeInitialPosition(z, s, ct)
           IN /\ RoundOK(y) /\ y.state \in {"establish", "crashed"}
              /\ AcquiringStep(x, y)
              /\ ComparesOK(x) => ComparesOK(y)
<1> DEFINE m    == MapComplete(z, s)
           our  == [set |-> s, closetime |-> ct, bowout |-> FALSE]
           x1   == [m EXCEPT !.our = our]
           seen == {u \in TxSet : PeersAt(x1, u) # {} /\ x1.acquired[u] # "absent"}
           x2   == [x1 EXCEPT !.compares = @ \cup seen]
           y    == TakeInitialPosition(z, s, ct)
<1>0. x \in ConsensusObject
  BY DEF RoundOK, VotesOK
<1>1. /\ z \in ConsensusObject /\ z.state = "establish" /\ z.our = None
      /\ z.previousledger = x.previousledger /\ z.prevledgerhash = x.prevledgerhash
      /\ z.proposing = x.proposing /\ z.dead = x.dead
      /\ z.peers = x.peers /\ z.disputes = x.disputes
      /\ z.acquired = x.acquired /\ z.acquiring = x.acquiring /\ z.compares = x.compares
  BY <1>0, ZenonT(60) DEF ConsensusObject, States
<1>2. HoldsNoMore(x, Nobody, z, Nobody)
  BY <1>1 DEF HoldsNoMore
<1>3. VotesOK(z, Nobody)
  BY <1>1, <1>2, VotesFrame DEF RoundOK
<1>4. OursOK(z) /\ DeadOK(z) /\ AcquiringOK(z) /\ SyncOK(z) /\ AcquiringStep(x, z)
  BY <1>1 DEF RoundOK, OursOK, Disputed, DeadOK, Proposers, AcquiringOK, SyncOK, AcquiringStep
<1>s. StopOK(z) /\ (ComparesOK(x) => ComparesOK(z))
  BY <1>1, ZenonT(30) DEF StopOK, ComparesOK
<1>m. /\ VotesOK(m, Nobody) /\ SameRound(z, m) /\ AcquiringStep(z, m) /\ OursOK(m)
      /\ m.state = "establish" /\ Good(m, s)
      /\ \A u \in TxSet \ {s} : m.acquired[u] = z.acquired[u]
      /\ ComparesOK(x) => ComparesOK(m)
  <2>1. m = MapComplete(z, s)
    OBVIOUS
  <2> HIDE DEF m
  <2>2. /\ VotesOK(m, Nobody) /\ SameRound(z, m) /\ AcquiringStep(z, m)
        /\ m.state # "crashed" => Good(m, s)
        /\ \A u \in TxSet \ {s} : m.acquired[u] = z.acquired[u]
        /\ z.our = None => m.state = z.state
        /\ OursOK(z) => OursOK(m)
        /\ ComparesOK(z) => ComparesOK(m)
    BY <1>3, <2>1, MapCompleteOK, ZenonT(30)
  <2> QED BY <1>1, <1>4, <1>s, <2>2, ZenonT(30)
<1>5. CASE y = Crash(z) /\ \E u \in seen : ~Good(x1, u)
  <2> HIDE DEF m
  <2>0. \E u \in TxSet : z.acquired[u] = "null"
    <3>1. m \in ConsensusObject
      BY <1>m DEF VotesOK
    <3>2. x1.acquired = m.acquired
      BY <3>1, SMTT(30) DEF ConsensusObject
    <3>3. PICK u \in TxSet : x1.acquired[u] # "absent" /\ ~Good(x1, u)
      BY <1>5, SMTT(30)
    <3> HIDE DEF x1
    <3>4. m.acquired[u] = "null" /\ u # s
      BY <1>m, <3>1, <3>2, <3>3, Fields, SMTT(30) DEF Good
    <3> QED BY <1>m, <3>4, SMTT(30)
  <2> HIDE DEF y
  <2>1. /\ VotesOK(y, Nobody) /\ SameRound(z, y) /\ y.state = "crashed"
        /\ AcquiringStep(z, y) /\ OursOK(y) /\ y.acquired = z.acquired
        /\ ComparesOK(x) => ComparesOK(y)
    BY <1>3, <1>4, <1>5, <1>s, CrashOK, ZenonT(30)
  <2>2. DeadOK(y) /\ SyncOK(y) /\ StateOK(y)
    BY <2>1, <1>1, <1>4 DEF DeadOK, Proposers, SyncOK, StateOK, SameRound, SameView
  <2>3. AcquiringOK(y) /\ AcquiringStep(x, y)
    BY <2>1, <1>4 DEF AcquiringStep, RoundOK
  <2>4. StopOK(y)
    BY <1>1, <2>0, <2>1, SMTT(30) DEF StopOK, SameRound, SameView
  <2> QED BY <2>1, <2>2, <2>3, <2>4 DEF RoundOK, y
<1>6. CASE y = CreateDisputes(x2, UNION {Differences(s, u) : u \in seen})
  <2>1. /\ VotesOK(m, Nobody) /\ SameRound(z, m) /\ AcquiringStep(z, m) /\ OursOK(m)
        /\ m.state = "establish" /\ Good(m, s)
        /\ ComparesOK(x) => ComparesOK(m)
    BY <1>m, Zenon
  <2>2. m \in ConsensusObject /\ our \in Position /\ our # None
    <3>1. our \in Position
      BY DEF Position
    <3> HIDE DEF our
    <3> QED BY <2>1, <3>1, NoneAssumption DEF VotesOK
  <2> HIDE DEF m
  <2>3. /\ our.set = s /\ our.bowout = FALSE
    OBVIOUS
  <2> HIDE DEF our
  <2>4. seen \subseteq TxSet
    OBVIOUS
  <2> HIDE DEF seen
  <2>t. PICK txs : txs = UNION {Differences(s, u) : u \in seen}
    BY Zenon
  <2>u. \A u \in seen : Differences(s, u) \subseteq txs
    BY <2>t, ZenonT(30)
  <2>5. /\ x2 \in ConsensusObject /\ x2.our = our /\ x2.state = m.state
        /\ x2.peers = m.peers /\ x2.disputes = m.disputes /\ x2.dead = m.dead
        /\ x2.acquired = m.acquired /\ x2.acquiring = m.acquiring
        /\ x2.proposing = m.proposing /\ x2.previousledger = m.previousledger
        /\ x2.prevledgerhash = m.prevledgerhash /\ x2.compares = m.compares \cup seen
    BY <2>2, <2>4, ZenonT(60) DEF ConsensusObject
  <2> HIDE DEF x2
  <2>6. HoldsNoMore(m, Nobody, x2, Nobody)
    BY <2>5 DEF HoldsNoMore
  <2>7. VotesOK(x2, Nobody)
    BY <2>1, <2>5, <2>6, VotesFrame
  <2>8. m.our = None /\ Disputed(m) = {} /\ Disputed(x2) = {}
    BY <1>1, <2>1, <2>5 DEF OursOK, SameRound, SameView, Disputed
  <2>9. OursOK(x2) /\ x2.our # None
    BY <2>2, <2>5, <2>8 DEF OursOK
  <2> HIDE DEF y
  <2>10. /\ VotesOK(y, Nobody) /\ SameRound(x2, y) /\ y.state = x2.state
         /\ y.acquired = x2.acquired /\ y.acquiring = x2.acquiring /\ OursOK(y)
         /\ y.compares = x2.compares
         /\ Disputed(y) = Disputed(x2) \cup (txs \cap Txs)
    <3>1. y = CreateDisputes(x2, txs)
      BY <1>6, <2>t, Zenon
    <3> QED BY <2>7, <2>9, <3>1, CreateDisputesOK, ZenonT(30)
  <2>11. y.state \in {"establish", "crashed"}
    BY <1>1, <2>1, <2>5, <2>10 DEF SameRound, SameView
  <2>12. y.our = our /\ y.our # None
    BY <2>2, <2>5, <2>10, SMTT(30) DEF SameRound, SameView
  <2>13. DeadOK(y) /\ SyncOK(y) /\ StateOK(y)
    BY <1>4, <2>1, <2>3, <2>5, <2>10, <2>11, <2>12, SMTT(30)
       DEF DeadOK, Proposers, SyncOK, StateOK, SameRound, SameView
  <2>14. AcquiringOK(y) /\ AcquiringStep(x, y)
    BY <1>4, <2>1, <2>5, <2>10, SMTT(30) DEF AcquiringStep, AcquiringOK, RoundOK
  <2>15. StopOK(y)
    <3>1. y.state = "establish" /\ y.acquired[s] = "good"
      BY <2>1, <2>5, <2>10, SMTT(30) DEF Good
    <3> QED BY <2>3, <2>12, <3>1, SMTT(30) DEF StopOK
  <2>16. ComparesOK(x) => ComparesOK(y)
    <3> SUFFICES ASSUME ComparesOK(x), NEW u \in y.compares
                 PROVE  Differences(s, u) \subseteq Disputed(y)
      BY <2>3, <2>12, ZenonT(30) DEF ComparesOK
    <3>1. u \in seen
      BY <2>1, <2>5, <2>8, <2>10, SMTT(30) DEF ComparesOK
    <3>2. Differences(s, u) \subseteq Txs
      BY <2>4, <3>1, SMTT(30) DEF Differences, TxSet
    <3> QED BY <2>u, <2>10, <3>1, <3>2, SMTT(30)
  <2> QED BY <2>10, <2>11, <2>13, <2>14, <2>15, <2>16, SMTT(30) DEF RoundOK, y
<1> QED BY <1>5, <1>6, Zenon DEF TakeInitialPosition

\* Our votes after updatevote.
LEMMA UpdateVotesOK ==
    ASSUME NEW x, VotesOK(x, Nobody), NEW pct, NEW proposing \in BOOLEAN,
           NEW ds, ds = [t \in Txs |-> IF x.disputes[t] = None THEN None
                                       ELSE UpdateVote(x.disputes[t], pct, proposing)],
           NEW y, y = [x EXCEPT !.disputes = ds]
    PROVE  /\ VotesOK(y, Nobody) /\ SameRound(x, y) /\ y.state = x.state
           /\ y.acquired = x.acquired /\ y.acquiring = x.acquiring
           /\ y.compares = x.compares /\ Disputed(y) = Disputed(x)
<1>1. x \in ConsensusObject /\ IsFiniteSet(Peers)
  BY ConsensusAssumption, SMTT(30) DEF VotesOK
<1>2. ASSUME NEW t \in Txs, x.disputes[t] # None
      PROVE  ds[t] \in Dispute /\ DisputeOK(x, ds[t], t, Nobody)
  <2>1. DisputeOK(x, x.disputes[t], t, Nobody)
    BY <1>2 DEF VotesOK
  <2>2. x.disputes[t] \in Dispute /\ Counted(x.disputes[t])
    BY <2>1 DEF DisputeOK
  <2>3. ds[t] = UpdateVote(x.disputes[t], pct, proposing)
    BY <1>2
  <2>4. ds[t] \in Dispute /\ Counted(ds[t]) /\ ds[t].votes = x.disputes[t].votes
    BY <1>1, <2>2, <2>3, UpdateVoteCounted, ZenonT(30)
  <2> QED BY <2>1, <2>4 DEF DisputeOK
<1>3. \A t \in Txs : x.disputes[t] = None <=> ds[t] = None
  BY <1>2, NoneAssumption
<1>4. ds \in [Txs -> Dispute \cup {None}]
  BY <1>2
<1>5. /\ y \in ConsensusObject /\ y.disputes = ds /\ SameRound(x, y) /\ y.state = x.state
      /\ y.acquired = x.acquired /\ y.acquiring = x.acquiring /\ y.compares = x.compares
  BY <1>1, <1>4, SMTT(30) DEF ConsensusObject, SameRound, SameView
<1>6. VotesOK(y, Nobody)
  <2>1. y.peers = x.peers
    BY <1>5, Zenon DEF SameRound
  <2>2. \A t \in Txs : ds[t] # None => DisputeOK(x, ds[t], t, Nobody)
    BY <1>2, <1>3, ZenonT(30)
  <2> QED BY <1>5, <2>1, <2>2, DisputeFrame, ZenonT(30) DEF VotesOK
<1>7. Disputed(y) = Disputed(x)
  BY <1>3, <1>5, SMTT(30) DEF Disputed
<1> QED BY <1>5, <1>6, <1>7

\* updateourpositions: our position follows our votes unless we bowed out, and
\* the close time that it finds agreed is ours and backed.
LEMMA UpdateOurPositionsOK ==
    ASSUME NEW x, RoundOK(x), x.state = "establish",
           NEW stale, stale \subseteq Peers, NEW ourstale \in BOOLEAN
    PROVE  LET y == UpdateOurPositions(x, stale, ourstale)
           IN /\ RoundOK(y) /\ y.state \in {"establish", "crashed"} /\ y.ms = x.ms
              /\ AcquiringStep(x, y)
              /\ x.our.bowout => y.our = x.our
              /\ ComparesOK(x) => ComparesOK(y)
              /\ y.state # "crashed" /\ y.havect /\ ~x.our.bowout
                   /\ y.our.closetime # 0 /\ Proposers(y) # {}
                   => 2 * Backers(x, y, y.our.closetime) >= Electorate(x, y)
<1> DEFINE x1      == DropPeers(x, stale)
           ds      == [t \in Txs |-> IF x1.disputes[t] = None THEN None
                                     ELSE UpdateVote(x1.disputes[t], ClosePercent(x), x.proposing)]
           x2      == [x1 EXCEPT !.disputes = ds]
           changed == {t \in Disputed(x1) : x2.disputes[t].ourvote # x1.disputes[t].ourvote}
           s       == {t \in Txs : IF t \in changed THEN x2.disputes[t].ourvote ELSE t \in x.our.set}
           vote    == CloseTimeVote(x2)
           x3      == [x2 EXCEPT !.havect = vote.agreed]
           our     == [set |-> s, closetime |-> vote.time, bowout |-> FALSE]
           x4      == [x3 EXCEPT !.our = our]
           y       == UpdateOurPositions(x, stale, ourstale)
<1>0. x \in ConsensusObject /\ x.our # None /\ x.our \in Position /\ x.proposing \in BOOLEAN
  BY Fields, ZenonT(30) DEF RoundOK, VotesOK, StateOK
<1>1. /\ VotesOK(x1, Nobody) /\ x1.state = x.state /\ SameView(x, x1) /\ x1.dead = x.dead
      /\ x1.acquired = x.acquired /\ x1.acquiring = x.acquiring /\ x1.compares = x.compares
      /\ Proposers(x1) = Proposers(x) \ stale
      /\ Disputed(x1) = Disputed(x)
      /\ \A t \in Disputed(x) : x1.disputes[t].ourvote = x.disputes[t].ourvote
  <2>1. x1 = DropPeers(x, stale)
    OBVIOUS
  <2> HIDE DEF x1
  <2>2. VotesOK(x, Nobody)
    BY DEF RoundOK
  <2> QED BY <2>1, <2>2, DropPeersOK, SMTT(30)
<1> HIDE DEF x1
<1>2. /\ VotesOK(x2, Nobody) /\ SameRound(x1, x2) /\ x2.state = x1.state
      /\ x2.acquired = x1.acquired /\ x2.acquiring = x1.acquiring /\ x2.compares = x1.compares
      /\ Disputed(x2) = Disputed(x1)
  <2> HIDE DEF ds, x2
  <2>1. ds = [t \in Txs |-> IF x1.disputes[t] = None THEN None
                            ELSE UpdateVote(x1.disputes[t], ClosePercent(x), x.proposing)]
    BY DEF ds
  <2>2. x2 = [x1 EXCEPT !.disputes = ds]
    BY DEF x2
  <2> QED BY <1>0, <1>1, <2>1, <2>2, UpdateVotesOK, SMTT(30)
<1> HIDE DEF ds, x2
<1>3. /\ x2 \in ConsensusObject /\ x2.our = x.our
      /\ vote.time \in CloseTimes \cup {0} /\ vote.agreed \in BOOLEAN
      /\ vote.agreed /\ vote.time # 0 /\ Proposers(x2) # {}
           => 2 * Backers(x2, x2, vote.time) >= Electorate(x2, x2)
  <2>1. x2 \in ConsensusObject /\ x2.our = x.our
    BY <1>1, <1>2, ZenonT(30) DEF VotesOK, SameRound, SameView
  <2> QED BY <1>0, <2>1, CloseTimeVoteOK, ZenonT(30)
<1> HIDE DEF vote
<1>4. /\ x3 \in ConsensusObject /\ SameView(x2, x3) /\ x3.state = x2.state
      /\ x3.disputes = x2.disputes /\ x3.acquired = x2.acquired /\ x3.acquiring = x2.acquiring
      /\ x3.compares = x2.compares /\ x3.peers = x2.peers /\ x3.dead = x2.dead
      /\ x3.havect = vote.agreed
  BY <1>3, SMTT(30) DEF ConsensusObject, SameView
<1>5. y = IF changed = {} /\ vote.time = x.our.closetime /\ ~ourstale THEN x3
          ELSE IF ~Good(x, x.our.set) THEN Crash(x)
          ELSE IF x.our.bowout THEN x3
          ELSE MapComplete(x4, s)
  BY DEF UpdateOurPositions, x1, x2, ds, vote
<1> HIDE DEF x3, y
<1>6. VotesOK(x3, Nobody)
  <2>1. HoldsNoMore(x2, Nobody, x3, Nobody)
    BY <1>4, ZenonT(30) DEF HoldsNoMore
  <2> QED BY <1>2, <1>4, <2>1, VotesFrame, ZenonT(30)
<1>7. /\ SameView(x, x3) /\ x3.state = x.state
      /\ DeadOK(x3) /\ AcquiringOK(x3) /\ AcquiringStep(x, x3) /\ SyncOK(x3) /\ StateOK(x3)
  <2>1. SameView(x, x3) /\ x3.state = x.state
    BY <1>1, <1>2, <1>4, ZenonT(30) DEF SameRound, SameView
  <2>2. x3.dead = x.dead /\ Proposers(x3) = Proposers(x) \ stale
    BY <1>1, <1>2, <1>4, ZenonT(30) DEF SameRound, Proposers
  <2>3. AcquiringOK(x3) /\ AcquiringStep(x, x3)
    BY <1>1, <1>2, <1>4, ZenonT(30) DEF RoundOK, AcquiringStep, AcquiringOK
  <2> QED BY <2>1, <2>2, <2>3, ZenonT(30) DEF RoundOK, DeadOK, SyncOK, StateOK, SameView
<1>c. /\ Disputed(x3) = Disputed(x) /\ x3.compares = x.compares /\ x3.acquired = x.acquired
      /\ x3.our = x.our
  BY <1>1, <1>2, <1>4, <1>7, ZenonT(30) DEF Disputed, SameView
<1>v. ASSUME NEW z, z.peers = x3.peers, vote.agreed, vote.time # 0, Proposers(z) # {}
      PROVE  2 * Backers(x, z, vote.time) >= Electorate(x, z)
  <2>1. z.peers = x2.peers /\ x2.our = x.our /\ x2.proposing = x.proposing
    BY <1>v, <1>1, <1>2, <1>3, <1>4, ZenonT(30) DEF SameRound, SameView
  <2>2. Proposers(z) = Proposers(x2)
    BY <2>1, Zenon DEF Proposers
  <2>3. Backers(x, z, vote.time) = Backers(x2, x2, vote.time) /\ Electorate(x, z) = Electorate(x2, x2)
    BY <2>1, <2>2, ZenonT(30) DEF Backers, Electorate
  <2> QED BY <1>v, <1>3, <2>2, <2>3, ZenonT(30)
<1>8. CASE y = x3 /\ ((changed = {} /\ vote.time = x.our.closetime) \/ x.our.bowout)
  <2>1. OursOK(x3)
    <3>1. CASE x.our.bowout
      BY <1>0, <1>7, <3>1, ZenonT(30) DEF OursOK, SameView
    <3>2. CASE changed = {}
      <4>1. Disputed(x3) = Disputed(x)
        BY <1>1, <1>2, <1>4, ZenonT(30) DEF Disputed
      <4>2. \A t \in Disputed(x) : x3.disputes[t].ourvote = x.disputes[t].ourvote
        BY <1>1, <1>4, <3>2, ZenonT(30)
      <4> QED BY <1>7, <4>1, <4>2, ZenonT(30) DEF OursOK, SameView, RoundOK
    <3> QED BY <1>8, <3>1, <3>2, ZenonT(30)
  <2>2. StopOK(x3) /\ (ComparesOK(x) => ComparesOK(x3))
    BY <1>7, <1>c, ZenonT(30) DEF RoundOK, StopOK, ComparesOK
  <2>3. y.havect /\ ~x.our.bowout /\ y.our.closetime # 0 /\ Proposers(y) # {}
          => 2 * Backers(x, y, y.our.closetime) >= Electorate(x, y)
    BY <1>4, <1>8, <1>c, <1>v, ZenonT(30)
  <2> QED BY <1>6, <1>7, <1>8, <2>1, <2>2, <2>3, ZenonT(30) DEF RoundOK, SameView, y
<1>9. CASE y = Crash(x) /\ ~Good(x, x.our.set)
  <2>1. /\ VotesOK(y, Nobody) /\ SameRound(x, y) /\ y.state = "crashed"
        /\ AcquiringStep(x, y) /\ OursOK(y) /\ y.acquired = x.acquired
        /\ ComparesOK(x) => ComparesOK(y)
    BY <1>9, CrashOK, ZenonT(30) DEF RoundOK
  <2>3. StopOK(y)
    <3>1. x.our.set \in TxSet /\ x.acquired[x.our.set] \in {"absent", "null", "good"}
      BY <1>0, Fields, ZenonT(30) DEF Position
    <3>2. x.acquired[x.our.set] = "null"
      BY <1>0, <1>9, <3>1, ZenonT(30) DEF RoundOK, StopOK, Good
    <3> QED BY <2>1, <3>1, <3>2, ZenonT(30) DEF StopOK, SameRound, SameView
  <2>2. DeadOK(y) /\ SyncOK(y) /\ StateOK(y) /\ AcquiringOK(y)
    BY <2>1, ZenonT(30)
       DEF RoundOK, DeadOK, Proposers, SyncOK, StateOK, SameRound, SameView, AcquiringStep
  <2> QED BY <2>1, <2>2, <2>3, ZenonT(30) DEF RoundOK, SameRound, SameView, y
<1>10. CASE y = MapComplete(x4, s) /\ ~x.our.bowout
  <2>1. s \in TxSet
    BY SMTT(30) DEF TxSet
  <2>2. \A t \in Disputed(x) : t \in s <=> x2.disputes[t].ourvote
    <3> SUFFICES ASSUME NEW t \in Disputed(x) PROVE t \in s <=> x2.disputes[t].ourvote
      BY ZenonT(30)
    <3>1. t \in Txs
      BY SMTT(30) DEF Disputed
    <3>2. CASE t \in changed
      BY <3>1, <3>2, ZenonT(30)
    <3>3. CASE t \notin changed
      <4>1. x2.disputes[t].ourvote = x.disputes[t].ourvote
        BY <1>1, <3>3, ZenonT(30)
      <4>2. x.disputes[t].ourvote <=> t \in x.our.set
        BY <1>0, <1>10, SMTT(30) DEF RoundOK, OursOK
      <4> QED BY <3>1, <3>3, <4>1, <4>2, ZenonT(30)
    <3> QED BY <3>2, <3>3, ZenonT(30)
  <2>d. \A u \in TxSet : Differences(s, u) \subseteq Differences(x.our.set, u) \cup Disputed(x)
    <3>1. changed \subseteq Disputed(x)
      BY <1>1, ZenonT(30)
    <3>2. x.our.set \subseteq Txs
      BY <1>0, SMTT(30) DEF Position, TxSet
    <3>3. \A t \in Txs \ Disputed(x) : t \in s <=> t \in x.our.set
      BY <3>1, ZenonT(30)
    <3> HIDE DEF s
    <3> QED BY <2>1, <3>2, <3>3, ZenonT(30) DEF Differences, TxSet
  <2> HIDE DEF s
  <2>3. our \in Position /\ our.set = s /\ our.bowout = FALSE /\ our.closetime = vote.time
    BY <1>3, <2>1, ZenonT(30) DEF Position
  <2>4. our # None
    <3> HIDE DEF our
    <3> QED BY <2>3, NoneAssumption
  <2> HIDE DEF our
  <2>5. /\ x4 \in ConsensusObject /\ x4.our = our /\ x4.state = x3.state /\ x4.ms = x3.ms
        /\ x4.peers = x3.peers /\ x4.dead = x3.dead /\ x4.disputes = x3.disputes
        /\ x4.acquired = x3.acquired /\ x4.acquiring = x3.acquiring
        /\ x4.proposing = x3.proposing /\ x4.previousledger = x3.previousledger
        /\ x4.prevledgerhash = x3.prevledgerhash /\ x4.compares = x3.compares
        /\ x4.havect = x3.havect
    BY <1>4, <2>3, SMTT(30) DEF ConsensusObject
  <2> HIDE DEF x4
  <2>6. VotesOK(x4, Nobody)
    <3>1. HoldsNoMore(x3, Nobody, x4, Nobody)
      BY <2>5, ZenonT(30) DEF HoldsNoMore
    <3> QED BY <1>6, <2>5, <3>1, VotesFrame, SMTT(30)
  <2>7. OursOK(x4)
    <3>1. Disputed(x4) = Disputed(x)
      BY <1>1, <1>2, <1>4, <2>5, ZenonT(30) DEF Disputed
    <3> QED BY <1>4, <2>2, <2>3, <2>4, <2>5, <3>1, ZenonT(30) DEF OursOK
  <2>c. ComparesOK(x) => ComparesOK(x4)
    <3> SUFFICES ASSUME ComparesOK(x), NEW u \in x4.compares
                 PROVE  Differences(s, u) \subseteq Disputed(x4)
      BY <2>3, <2>4, <2>5, ZenonT(30) DEF ComparesOK
    <3>1. Disputed(x4) = Disputed(x)
      BY <1>c, <2>5, ZenonT(30) DEF Disputed
    <3>2. u \in x.compares /\ u \in TxSet
      BY <1>0, <1>c, <2>5, Fields, ZenonT(30)
    <3>3. Differences(x.our.set, u) \subseteq Disputed(x)
      BY <1>0, <3>2, ZenonT(30) DEF ComparesOK
    <3> QED BY <2>d, <3>1, <3>2, <3>3, ZenonT(30)
  <2>8. /\ VotesOK(y, Nobody) /\ SameRound(x4, y) /\ AcquiringStep(x4, y) /\ OursOK(y)
        /\ y.state = x4.state /\ (y.state # "crashed" => Good(y, s))
        /\ ComparesOK(x) => ComparesOK(y)
    BY <1>10, <2>1, <2>3, <2>5, <2>6, <2>7, <2>c, MapCompleteOK, ZenonT(30)
  <2>9. y.state \in {"establish", "crashed"} /\ y.ms = x.ms /\ y.our = our
    BY <1>7, <2>5, <2>8, ZenonT(30) DEF SameRound, SameView
  <2>10. DeadOK(y) /\ SyncOK(y) /\ StateOK(y)
    <3>1. y.peers = x3.peers /\ y.dead = x3.dead
      BY <2>5, <2>8, ZenonT(30) DEF SameRound
    <3>2. /\ y.proposing = x3.proposing /\ y.previousledger = x3.previousledger
          /\ y.prevledgerhash = x3.prevledgerhash
      BY <2>5, <2>8, ZenonT(30) DEF SameRound, SameView
    <3>3. DeadOK(y)
      BY <1>7, <3>1, ZenonT(30) DEF DeadOK, Proposers
    <3>4. SyncOK(y)
      BY <1>7, <2>3, <2>9, <3>2, ZenonT(30) DEF SyncOK
    <3>5. StateOK(y)
      BY <2>4, <2>9, Zenon DEF StateOK
    <3> QED BY <3>3, <3>4, <3>5
  <2>11. AcquiringOK(y) /\ AcquiringStep(x, y)
    <3>1. AcquiringOK(x4)
      BY <1>7, <2>5, Zenon DEF AcquiringOK
    <3>2. \A u \in TxSet : y.acquiring[u] = "done" => x.acquiring[u] = "done"
      BY <1>7, <2>5, <2>8, ZenonT(30) DEF AcquiringStep
    <3> QED BY <2>8, <3>1, <3>2, ZenonT(30) DEF AcquiringStep
  <2>12. StopOK(y)
    <3>1. y.state = "establish"
      BY <1>7, <2>5, <2>8, ZenonT(30)
    <3> QED BY <2>3, <2>8, <2>9, <3>1, ZenonT(30) DEF StopOK, Good
  <2>13. y.havect /\ y.our.closetime # 0 /\ Proposers(y) # {}
           => 2 * Backers(x, y, y.our.closetime) >= Electorate(x, y)
    <3>1. y.peers = x3.peers /\ y.havect = vote.agreed /\ y.our.closetime = vote.time
      BY <1>4, <2>3, <2>5, <2>8, <2>9, ZenonT(30) DEF SameRound
    <3> QED BY <1>v, <3>1, ZenonT(30)
  <2> QED BY <1>10, <2>8, <2>9, <2>10, <2>11, <2>12, <2>13, ZenonT(30) DEF RoundOK, y
<1> QED BY <1>5, <1>8, <1>9, <1>10, ZenonT(30)

\* haveconsensus: the disputes it adds are right at once.
LEMMA JudgeOK ==
    ASSUME NEW x, RoundOK(x), x.our # None, NEW verdict
    PROVE  LET y == Judge(x, verdict)
           IN /\ RoundOK(y) /\ SameRound(x, y) /\ y.state = x.state
              /\ AcquiringStep(x, y) /\ y.acquired = x.acquired
              /\ verdict # "no" => (y.consensusfail <=> verdict = "failed")
              /\ ComparesOK(x) => ComparesOK(y)
<1> DEFINE new == {s \in TxSet \ (x.compares \cup {x.our.set}) : PeersAt(x, s) # {} /\ Good(x, s)}
           x0  == [x EXCEPT !.compares = @ \cup new]
           x1  == CompareSets(x)
           f   == IF verdict = "no" THEN x.consensusfail ELSE verdict = "failed"
           y   == Judge(x, verdict)
<1>0. x \in ConsensusObject
  BY Zenon DEF RoundOK, VotesOK
<1>1. /\ VotesOK(x1, Nobody) /\ SameRound(x, x1) /\ x1.state = x.state
      /\ x1.acquired = x.acquired /\ x1.acquiring = x.acquiring /\ OursOK(x1)
      /\ ComparesOK(x) => ComparesOK(x1)
  <2>1. CASE x1 = x
    BY <2>1, SMTT(30) DEF RoundOK, SameRound, SameView
  <2>2. CASE x1 = CreateDisputes(x0, UNION {Differences(x.our.set, s) : s \in new})
    <3>1. new \subseteq TxSet
      BY ZenonT(30)
    <3> HIDE DEF new
    <3>2. /\ x0 \in ConsensusObject /\ SameRound(x, x0) /\ x0.state = x.state
          /\ x0.disputes = x.disputes /\ x0.acquired = x.acquired /\ x0.acquiring = x.acquiring
          /\ x0.compares = x.compares \cup new
      BY <1>0, <3>1, SMTT(30) DEF ConsensusObject, SameRound, SameView
    <3> HIDE DEF x0
    <3>3. HoldsNoMore(x, Nobody, x0, Nobody)
      BY <3>2, ZenonT(30) DEF HoldsNoMore, SameRound
    <3>4. VotesOK(x0, Nobody)
      BY <3>2, <3>3, VotesFrame, ZenonT(30) DEF RoundOK
    <3>5. OursOK(x0) /\ x0.our # None
      BY <3>2, Zenon DEF RoundOK, OursOK, SameRound, SameView, Disputed
    <3> HIDE DEF x1
    <3>t. PICK txs : txs = UNION {Differences(x.our.set, s) : s \in new}
      BY Zenon
    <3>u. \A s \in new : Differences(x.our.set, s) \subseteq txs
      BY <3>t, ZenonT(30)
    <3>7. /\ VotesOK(x1, Nobody) /\ SameRound(x0, x1) /\ x1.state = x0.state
          /\ x1.acquired = x0.acquired /\ x1.acquiring = x0.acquiring /\ OursOK(x1)
          /\ x1.compares = x0.compares
          /\ Disputed(x1) = Disputed(x0) \cup (txs \cap Txs)
      <4>1. x1 = CreateDisputes(x0, txs)
        BY <2>2, <3>t, Zenon
      <4> QED BY <3>4, <3>5, <4>1, CreateDisputesOK, ZenonT(30)
    <3>8. ComparesOK(x) => ComparesOK(x1)
      <4> SUFFICES ASSUME ComparesOK(x), NEW u \in x1.compares
                   PROVE  Differences(x.our.set, u) \subseteq Disputed(x1)
        BY <3>2, <3>5, <3>7, ZenonT(30) DEF ComparesOK, SameRound, SameView
      <4>1. CASE u \in x.compares
        <5>1. Differences(x.our.set, u) \subseteq Disputed(x0)
          BY <3>2, <4>1, ZenonT(30) DEF ComparesOK, Disputed
        <5> QED BY <3>7, <5>1, ZenonT(30)
      <4>2. CASE u \in new
        <5>1. x.our \in Position
          BY <1>0, Fields, ZenonT(30)
        <5>2. Differences(x.our.set, u) \subseteq Txs
          BY <3>1, <4>2, <5>1, ZenonT(30) DEF Differences, TxSet, Position
        <5> QED BY <3>u, <3>7, <4>2, <5>2, ZenonT(30)
      <4> QED BY <3>2, <3>7, <4>1, <4>2, ZenonT(30)
    <3> QED BY <3>2, <3>7, <3>8, ZenonT(30) DEF SameRound, SameView
  <2>3. x1 = x \/ x1 = CreateDisputes(x0, UNION {Differences(x.our.set, s) : s \in new})
    BY SMTT(30) DEF CompareSets
  <2> QED BY <2>1, <2>2, <2>3, SMTT(30)
<1> HIDE DEF x1
<1>2. x1 \in ConsensusObject /\ f \in BOOLEAN
  BY <1>0, <1>1, ZenonT(30) DEF VotesOK, ConsensusObject
<1>3. y = [x1 EXCEPT !.consensusfail = f]
  BY DEF Judge, x1
<1>f. verdict # "no" => (f <=> verdict = "failed")
  BY SMTT(30)
<1> HIDE DEF f, y
<1>4. /\ y \in ConsensusObject /\ SameRound(x1, y) /\ y.state = x1.state
      /\ y.disputes = x1.disputes /\ y.acquired = x1.acquired /\ y.acquiring = x1.acquiring
      /\ y.compares = x1.compares /\ y.consensusfail = f
  BY <1>2, <1>3, SMTT(30) DEF ConsensusObject, SameRound, SameView
<1>5. VotesOK(y, Nobody)
  <2>1. HoldsNoMore(x1, Nobody, y, Nobody)
    BY <1>4, ZenonT(30) DEF HoldsNoMore, SameRound
  <2> QED BY <1>1, <1>4, <2>1, VotesFrame, SMTT(30)
<1>6. SameRound(x, y) /\ y.state = x.state
  BY <1>1, <1>4, ZenonT(30) DEF SameRound, SameView
<1>7. OursOK(y)
  BY <1>1, <1>4, ZenonT(30) DEF OursOK, SameRound, SameView, Disputed
<1>8. DeadOK(y) /\ SyncOK(y) /\ StateOK(y)
  BY <1>6, <1>1, <1>4, ZenonT(30) DEF RoundOK, DeadOK, Proposers, SyncOK, StateOK, SameRound, SameView
<1>9. AcquiringOK(y) /\ AcquiringStep(x, y)
  BY <1>1, <1>4, ZenonT(30) DEF RoundOK, AcquiringStep, AcquiringOK
<1>10. StopOK(y) /\ (ComparesOK(x) => ComparesOK(y))
  BY <1>1, <1>4, <1>6, ZenonT(30) DEF RoundOK, StopOK, ComparesOK, SameRound, SameView, Disputed
<1> QED BY <1>1, <1>4, <1>5, <1>6, <1>7, <1>8, <1>9, <1>10, <1>f, ZenonT(30) DEF RoundOK, y
=============================================================================
