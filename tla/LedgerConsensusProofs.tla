----------------------- MODULE LedgerConsensusProofs -----------------------
(***************************************************************************)
(* Proofs about LedgerConsensus.  The inductive invariant IInv says of the *)
(* consensus object (RoundOK) that every dispute is typed and counted and  *)
(* carries the votes of the peers whose sets we hold, that our votes agree *)
(* with our set, that dead peers have no position, that we propose in sync *)
(* and that only sets without an outcome are acquired; and of the rest of  *)
(* the node that the accept job carries our set, that an ontimer call that *)
(* waits for the lock belongs to a listed acquisition or to an orphan, and *)
(* that an acquisition that is over has its completion job.                *)
(*                                                                         *)
(* The methods are in ConsensusMethodProofs; here is one lemma per handler,*)
(* and the theorems.                                                       *)
(***************************************************************************)
EXTENDS ConsensusMethodProofs, ConsensusHeartbeat

-----------------------------------------------------------------------------
(***************************************************************************)
(* The inductive invariant                                                 *)
(***************************************************************************)

\* An ontimer call that waits for the lock holds a listed acquisition, or one
\* that is no longer listed.
WaitingOK == \A s \in TxSet : waiting[s] = "own" => c.acquiring[s] # "no"

\* An acquisition that is over has a completion job.
DoneOK ==
    Alive => \A s \in TxSet :
        c.acquiring[s] = "done" => completions[<<s, TRUE>>] + completions[<<s, FALSE>>] > 0

IInv == TypeOK /\ RoundOK(c) /\ AcceptJobIsOurSet /\ WaitingOK /\ DoneOK

\* What a step from the object x to the object y may do: our set moves only in the
\* establish state, and a round that ends has an agreement, or has recorded its
\* failure, and a close time that is backed.
ObjectStep(x, y) ==
    /\ x.our # None /\ y.our # None /\ y.our.set # x.our.set =>
         x.state = "establish" /\ ~x.our.bowout /\ y.ms >= ledger_min_consensus
    /\ x.state = "establish" /\ y.state = "finished" =>
         /\ ~y.consensusfail =>
              (Cardinality(PeersAt(y, y.our.set)) + 1) * 100 > 80 * (Cardinality(Proposers(y)) + 1)
         /\ ~x.our.bowout /\ y.our.closetime # 0 /\ Proposers(y) # {} =>
              2 * Backers(x, y, y.our.closetime) >= Electorate(x, y)

\* What every step does to the consensus object: only a change of view makes a
\* compared set lose its disputes.
StepOK == ObjectStep(c, c') /\ (ComparesOK(c) => ComparesOK(c') \/ views' = views + 1)

\* A step that neither moves our set nor ends the round.
LEMMA QuietStep ==
    ASSUME NEW x, NEW y, y.our = x.our \/ x.our = None \/ y.our = None,
           y.state # "finished" \/ x.state # "establish"
    PROVE  ObjectStep(x, y)
BY ZenonT(30) DEF ObjectStep

\* A step that keeps the view of the ledger and our position.
LEMMA SameViewStep ==
    ASSUME NEW x, NEW y, SameView(x, y)
    PROVE  ObjectStep(x, y)
BY QuietStep, ZenonT(30) DEF SameView

\* A handler that makes the object x of c.
LEMMA BecomeOK ==
    ASSUME IInv, NEW x, RoundOK(x), Become(x)
    PROVE  /\ c' = x /\ RoundOK(c)' /\ c' \in ConsensusObject
           /\ waiting' \in [TxSet -> {"no", "own", "orphan"}] /\ WaitingOK'
<1>1. c' = x /\ x \in ConsensusObject /\ RoundOK(c)'
  BY ZenonT(30) DEF Become, RoundOK, VotesOK
<1>2. /\ waiting' \in [TxSet -> {"no", "own", "orphan"}]
      /\ \A s \in TxSet : waiting'[s] = "own" => x.acquiring[s] # "no"
  BY SMTT(30) DEF Become, IInv, TypeOK
<1> QED BY <1>1, <1>2, SMTT(30) DEF WaitingOK

\* If it ends no acquisition, completion jobs remain for those that are over.
LEMMA DoneFrame ==
    ASSUME IInv, NEW x, AcquiringStep(c, x), c' = x, completions' = completions, Alive
    PROVE  DoneOK'
BY Zenon DEF IInv, DoneOK, AcquiringStep

\* The clock of the round goes on.
LEMMA ClockOK ==
    ASSUME NEW x, RoundOK(x), NEW m \in Nat, NEW y, y = [x EXCEPT !.ms = m]
    PROVE  /\ RoundOK(y) /\ y.state = x.state /\ y.our = x.our /\ y.ms = m
           /\ y.acquiring = x.acquiring /\ y.proposing = x.proposing
           /\ ComparesOK(x) => ComparesOK(y)
<1>1. x \in ConsensusObject
  BY DEF RoundOK, VotesOK
<1>2. /\ y \in ConsensusObject /\ y.state = x.state /\ y.our = x.our /\ y.ms = m
      /\ y.compares = x.compares
      /\ y.peers = x.peers /\ y.acquiring = x.acquiring /\ y.acquired = x.acquired
      /\ y.dead = x.dead /\ y.disputes = x.disputes /\ y.proposing = x.proposing
      /\ y.previousledger = x.previousledger /\ y.prevledgerhash = x.prevledgerhash
  BY <1>1 DEF ConsensusObject
<1>3. HoldsNoMore(x, Nobody, y, Nobody)
  BY <1>2 DEF HoldsNoMore
<1>4. VotesOK(y, Nobody)
  BY <1>2, <1>3, VotesFrame, SMTT(30) DEF RoundOK
<1>5. OursOK(y) /\ DeadOK(y) /\ AcquiringOK(y) /\ SyncOK(y) /\ StateOK(y)
  BY <1>2 DEF RoundOK, OursOK, Disputed, DeadOK, Proposers, AcquiringOK, SyncOK, StateOK
<1>6. StopOK(y) /\ (ComparesOK(x) => ComparesOK(y))
  BY <1>2, ZenonT(90) DEF RoundOK, StopOK, ComparesOK, Disputed
<1> QED BY <1>2, <1>4, <1>5, <1>6 DEF RoundOK

\* A change of state alone, where our position allows it.
LEMMA NewStateOK ==
    ASSUME NEW x, RoundOK(x), NEW st \in {"finished", "accepted", "crashed"},
           st # "crashed" => x.our # None,
           st = "crashed" => \E s \in TxSet : x.acquired[s] = "null",
           NEW y, y = [x EXCEPT !.state = st]
    PROVE  /\ RoundOK(y) /\ y.state = st /\ y.our = x.our /\ y.acquiring = x.acquiring
           /\ y.peers = x.peers /\ y.ms = x.ms /\ y.consensusfail = x.consensusfail
           /\ ComparesOK(x) => ComparesOK(y)
<1>1. x \in ConsensusObject
  BY DEF RoundOK, VotesOK
<1>2. /\ y \in ConsensusObject /\ y.state = st /\ y.our = x.our
      /\ y.ms = x.ms /\ y.consensusfail = x.consensusfail /\ y.compares = x.compares
      /\ y.peers = x.peers /\ y.acquiring = x.acquiring /\ y.acquired = x.acquired
      /\ y.dead = x.dead /\ y.disputes = x.disputes /\ y.proposing = x.proposing
      /\ y.previousledger = x.previousledger /\ y.prevledgerhash = x.prevledgerhash
  BY <1>1 DEF ConsensusObject, States
<1>3. HoldsNoMore(x, Nobody, y, Nobody)
  BY <1>2 DEF HoldsNoMore
<1>4. VotesOK(y, Nobody)
  BY <1>2, <1>3, VotesFrame, SMTT(30) DEF RoundOK
<1>5. OursOK(y) /\ DeadOK(y) /\ AcquiringOK(y) /\ SyncOK(y) /\ StateOK(y)
  BY <1>2, SMTT(30) DEF RoundOK, OursOK, Disputed, DeadOK, Proposers, AcquiringOK, SyncOK, StateOK
<1>6. StopOK(y) /\ (ComparesOK(x) => ComparesOK(y))
  BY <1>2, ZenonT(90) DEF RoundOK, StopOK, ComparesOK, Disputed
<1> QED BY <1>2, <1>4, <1>5, <1>6 DEF RoundOK

\* The sets that a ledger closes with.
LEMMA ClosingSet ==
    ASSUME TypeOK, NEW h \in SUBSET Submitted, NEW q \in SUBSET PseudoTxs
    PROVE  open \cup h \cup q \in TxSet /\ open \cup h \in SUBSET Submitted
BY ConsensusAssumption DEF TypeOK, TxSet, Submitted

\* statepreclose and closeledger
LEMMA PreCloseInv ==
    ASSUME IInv, NEW x, RoundOK(x), c.state = "preclose", x.state = "preclose",
           x.acquiring = c.acquiring, ComparesOK(c) => ComparesOK(x), PreClose(x),
           UNCHANGED <<held, completions, bounds>>, replaying' \in BOOLEAN
    PROVE  IInv' /\ StepOK
<1>1. acceptjob = None /\ Alive
  BY DEF IInv, AcceptJobIsOurSet, Alive
<1>2. UNCHANGED <<aged, acceptjob, lastclose>>
  BY DEF PreClose
<1>3. PICK y : /\ RoundOK(y) /\ Become(y) /\ AcquiringStep(c, y) /\ open' \in SUBSET Submitted
               /\ ComparesOK(c) => ComparesOK(y)
  <2>1. CASE Become(x) /\ UNCHANGED open
    <3>1. AcquiringStep(c, x)
      BY Zenon DEF RoundOK, AcquiringStep
    <3> QED BY <2>1, <3>1 DEF IInv, TypeOK
  <2>2. CASE \E h \in SUBSET Submitted, q \in SUBSET PseudoTxs, ct \in CloseTimes :
               /\ open' = open \cup h
               /\ Become(TakeInitialPosition([x EXCEPT !.state = "establish", !.ms = 0],
                                             open \cup h \cup q, ct))
    <3>1. PICK h \in SUBSET Submitted, q \in SUBSET PseudoTxs, ct \in CloseTimes :
               /\ open' = open \cup h
               /\ Become(TakeInitialPosition([x EXCEPT !.state = "establish", !.ms = 0],
                                             open \cup h \cup q, ct))
      BY <2>2, Zenon
    <3>2. PICK s : s = open \cup h \cup q
      BY Zenon
    <3>3. PICK z : z = [x EXCEPT !.state = "establish", !.ms = 0]
      BY SMTT(30)
    <3>4. PICK y : y = TakeInitialPosition(z, s, ct)
      OBVIOUS
    <3>5. s \in TxSet /\ open' \in SUBSET Submitted
      BY <3>1, <3>2, ClosingSet, ZenonT(30) DEF IInv
    <3>6. x.our = None
      BY DEF RoundOK, StateOK
    <3>7. RoundOK(y) /\ AcquiringStep(x, y) /\ (ComparesOK(x) => ComparesOK(y))
      BY <3>3, <3>4, <3>5, <3>6, TakeInitialPositionOK, ZenonT(30)
    <3>8. AcquiringStep(c, y)
      BY <3>7, Zenon DEF AcquiringStep, RoundOK
    <3>9. Become(y)
      BY <3>1, <3>2, <3>3, <3>4, SMTT(30)
    <3> QED BY <3>5, <3>7, <3>8, <3>9, SMTT(30)
  <2> QED BY <2>1, <2>2, ZenonT(30) DEF PreClose
<1>4. /\ c' = y /\ RoundOK(c)' /\ c' \in ConsensusObject
      /\ waiting' \in [TxSet -> {"no", "own", "orphan"}] /\ WaitingOK'
  BY <1>3, BecomeOK, ZenonT(30)
<1>5. DoneOK'
  BY <1>1, <1>3, <1>4, DoneFrame, SMTT(30)
<1>6. TypeOK'
  BY <1>2, <1>3, <1>4, SMTT(30) DEF IInv, TypeOK, bounds
<1>7. AcceptJobIsOurSet'
  BY <1>1, <1>2, SMTT(30) DEF AcceptJobIsOurSet
<1>8. StepOK
  <2>1. c.our = None
    BY DEF IInv, RoundOK, StateOK
  <2> QED BY <1>3, <1>4, <2>1, QuietStep, ZenonT(30) DEF StepOK
<1> QED BY <1>4, <1>5, <1>6, <1>7, <1>8, SMTT(30) DEF IInv

\* The number of proposers.
LEMMA ProposersCount ==
    ASSUME NEW x
    PROVE  Cardinality(Proposers(x)) \in Nat
<1>1. Proposers(x) \in SUBSET Peers /\ IsFiniteSet(Peers)
  BY ConsensusAssumption DEF Proposers
<1> QED BY <1>1, FS_Subset, FS_CardinalityType, SMTT(30)

\* More than 80 percent, in whole numbers.
LEMMA MoreThan80 ==
    ASSUME NEW k \in Nat, NEW d \in Nat, d >= 1, k \div d > 80
    PROVE  k > 80 * d
<1>1. PICK q \in Int, r \in Int : k = d * q + r /\ 0 <= r /\ r < d /\ q = k \div d
  BY SMTT(30)
<1>2. q >= 81
  BY <1>1, SMTT(30)
<1>3. d * q >= d * 81
  BY <1>2, SMTT(30)
<1> QED BY <1>1, <1>3, SMTT(30)

\* haveconsensus: a verdict that is neither "no" nor "failed" is an agreement.
LEMMA VerdictYes ==
    ASSUME NEW x, NEW finished, Verdict(x, finished) # "no", Verdict(x, finished) # "failed"
    PROVE  (Cardinality(PeersAt(x, x.our.set)) + 1) * 100 > 80 * (Cardinality(Proposers(x)) + 1)
<1>1. PICK a, n : a = Cardinality(PeersAt(x, x.our.set)) /\ n = Cardinality(Proposers(x))
  BY Zenon
<1>2. (a * 100 + 100) \div (n + 1) > 80
  BY <1>1, SMTT(30) DEF Verdict, HaveConsensus
<1>3. a \in Nat /\ n \in Nat
  <2>1. PeersAt(x, x.our.set) \in SUBSET Peers /\ IsFiniteSet(Peers)
    BY ConsensusAssumption DEF PeersAt, Proposers
  <2> QED BY <1>1, <2>1, ProposersCount, FS_Subset, FS_CardinalityType, ZenonT(30)
<1>4. a * 100 + 100 > 80 * (n + 1)
  <2>1. a * 100 + 100 \in Nat /\ n + 1 \in Nat /\ n + 1 >= 1
    BY <1>3, SMTT(30)
  <2> QED BY <1>2, <2>1, MoreThan80, SMTT(30)
<1> QED BY <1>1, <1>3, <1>4, SMTT(30)

\* stateestablish and beginaccept
LEMMA EstablishInv ==
    ASSUME IInv, NEW x, RoundOK(x), c.state = "establish", x.state = "establish",
           x.acquiring = c.acquiring, x.our = c.our, x.proposing = c.proposing,
           ComparesOK(c) => ComparesOK(x), Establish(x),
           UNCHANGED <<held, completions, bounds>>, replaying' \in BOOLEAN
    PROVE  IInv' /\ StepOK
<1>1. acceptjob = None /\ Alive
  BY DEF IInv, AcceptJobIsOurSet, Alive
<1>2. PICK ourstale \in BOOLEAN, finished \in Moved :
        LET x1      == UpdateOurPositions(x, aged, ourstale)
            verdict == Verdict(x1, finished)
            x2      == Judge(x1, verdict)
            done    == x1.havect /\ verdict # "no"
        IN /\ IF x.ms < ledger_min_consensus
              THEN Become(x) /\ UNCHANGED <<aged, acceptjob, lastclose>>
              ELSE IF x1.state = "crashed"
              THEN Become(x1) /\ UNCHANGED <<aged, acceptjob, lastclose>>
              ELSE IF ~done
              THEN Become(x2) /\ aged' = {} /\ UNCHANGED <<acceptjob, lastclose>>
              ELSE IF ~Good(x2, x2.our.set)
              THEN Become(Crash(x2)) /\ UNCHANGED <<aged, acceptjob, lastclose>>
              ELSE /\ Become([x2 EXCEPT !.state = "finished"])
                   /\ aged' = {}
                   /\ acceptjob' = x2.our.set
                   /\ lastclose' = [proposers |-> Cardinality(Proposers(x2)), ms |-> x.ms]
           /\ UNCHANGED open
  BY ZenonT(30) DEF Establish
<1> DEFINE x1      == UpdateOurPositions(x, aged, ourstale)
           verdict == Verdict(x1, finished)
           x2      == Judge(x1, verdict)
<1>3. /\ RoundOK(x1) /\ x1.state \in {"establish", "crashed"} /\ x1.ms = x.ms
      /\ AcquiringStep(x, x1)
      /\ x.our.bowout => x1.our = x.our
      /\ ComparesOK(x) => ComparesOK(x1)
      /\ x1.state # "crashed" /\ x1.havect /\ ~x.our.bowout
           /\ x1.our.closetime # 0 /\ Proposers(x1) # {}
           => 2 * Backers(x, x1, x1.our.closetime) >= Electorate(x, x1)
  <2>1. aged \subseteq Peers
    BY SMTT(30) DEF IInv, TypeOK
  <2> QED BY <2>1, UpdateOurPositionsOK, ZenonT(30)
<1>4. x1.state # "crashed" =>
        /\ RoundOK(x2) /\ x2.state = "establish" /\ x2.our # None
        /\ AcquiringStep(x, x2) /\ SameRound(x1, x2)
        /\ verdict # "no" => (x2.consensusfail <=> verdict = "failed")
        /\ ComparesOK(x1) => ComparesOK(x2)
  <2> HIDE DEF x1, verdict
  <2> SUFFICES ASSUME x1.state # "crashed"
               PROVE  /\ RoundOK(x2) /\ x2.state = "establish" /\ x2.our # None
                      /\ AcquiringStep(x, x2) /\ SameRound(x1, x2)
                      /\ verdict # "no" => (x2.consensusfail <=> verdict = "failed")
                      /\ ComparesOK(x1) => ComparesOK(x2)
    BY ZenonT(30)
  <2>1. x1.our # None /\ x1.state = "establish"
    BY <1>3, ZenonT(30) DEF RoundOK, StateOK
  <2>2. /\ RoundOK(x2) /\ SameRound(x1, x2) /\ x2.state = x1.state /\ AcquiringStep(x1, x2)
        /\ verdict # "no" => (x2.consensusfail <=> verdict = "failed")
        /\ ComparesOK(x1) => ComparesOK(x2)
    BY <1>3, <2>1, JudgeOK, ZenonT(90)
  <2> HIDE DEF x2
  <2>3. x2.our # None
    BY <2>1, <2>2, ZenonT(30) DEF SameRound, SameView
  <2> QED BY <1>3, <2>1, <2>2, <2>3, ZenonT(30) DEF AcquiringStep
<1> DEFINE done == x1.havect /\ verdict # "no"
           fin  == [x2 EXCEPT !.state = "finished"]
           late == ~(x.ms < ledger_min_consensus)
<1>5. UNCHANGED open
  BY <1>2, SMTT(30)
<1>6. \/ Become(x) /\ UNCHANGED <<aged, acceptjob, lastclose>>
      \/ late /\ Become(x1) /\ UNCHANGED <<aged, acceptjob, lastclose>>
      \/ /\ late /\ x1.state # "crashed" /\ Become(x2)
         /\ aged' = {} /\ UNCHANGED <<acceptjob, lastclose>>
      \/ /\ late /\ x1.state # "crashed" /\ ~Good(x2, x2.our.set) /\ Become(Crash(x2))
         /\ UNCHANGED <<aged, acceptjob, lastclose>>
      \/ /\ late /\ x1.state # "crashed" /\ done /\ Become(fin) /\ aged' = {}
         /\ acceptjob' = x2.our.set
         /\ lastclose' = [proposers |-> Cardinality(Proposers(x2)), ms |-> x.ms]
  <2>1. IF x.ms < ledger_min_consensus
        THEN Become(x) /\ UNCHANGED <<aged, acceptjob, lastclose>>
        ELSE IF x1.state = "crashed"
        THEN Become(x1) /\ UNCHANGED <<aged, acceptjob, lastclose>>
        ELSE IF ~done
        THEN Become(x2) /\ aged' = {} /\ UNCHANGED <<acceptjob, lastclose>>
        ELSE IF ~Good(x2, x2.our.set)
        THEN Become(Crash(x2)) /\ UNCHANGED <<aged, acceptjob, lastclose>>
        ELSE /\ Become(fin) /\ aged' = {}
             /\ acceptjob' = x2.our.set
             /\ lastclose' = [proposers |-> Cardinality(Proposers(x2)), ms |-> x.ms]
    BY <1>2, SMTT(30)
  <2> HIDE DEF x1, x2, done, fin
  <2> QED BY <2>1, ZenonT(30)
<1>t. x.ms \in Nat /\ (late => x.ms >= ledger_min_consensus)
  <2>1. x.ms \in Nat
    BY Zenon DEF RoundOK, VotesOK, ConsensusObject
  <2> QED BY <2>1, SMTT(30) DEF ledger_min_consensus
<1>v. x1.state # "crashed" /\ verdict # "no" /\ ~x2.consensusfail =>
        (Cardinality(PeersAt(x1, x1.our.set)) + 1) * 100 > 80 * (Cardinality(Proposers(x1)) + 1)
  <2>1. verdict = Verdict(x1, finished)
    OBVIOUS
  <2> HIDE DEF x1, verdict, x2
  <2> QED BY <1>4, <2>1, VerdictYes, ZenonT(30)
<1>d. done => x1.havect /\ verdict # "no"
  OBVIOUS
<1> HIDE DEF x1, verdict, x2, done, late
<1>m. late => ObjectStep(c, x1) /\ (x1.state # "crashed" => ObjectStep(c, x2))
  <2>1. ASSUME NEW y, y.our = x1.our, y.ms = x.ms, y.state # "finished", late
        PROVE  ObjectStep(c, y)
    BY <2>1, <1>3, <1>t, ZenonT(30) DEF ObjectStep
  <2>2. x1.state # "crashed" => x2.our = x1.our /\ x2.ms = x.ms
    BY <1>3, <1>4, ZenonT(30) DEF SameRound, SameView
  <2> QED BY <1>3, <1>4, <2>1, <2>2, ZenonT(30)
<1>7. ASSUME NEW y, RoundOK(y), AcquiringStep(c, y), Become(y),
             ObjectStep(c, y), ComparesOK(c) => ComparesOK(y),
             aged' \in SUBSET Peers, lastclose' \in [proposers : Nat, ms : Nat],
             acceptjob' \in TxSet \cup {None},
             acceptjob' # None => y.state = "finished" /\ acceptjob' = y.our.set
      PROVE  IInv' /\ StepOK
  <2>1. /\ c' = y /\ RoundOK(c)' /\ c' \in ConsensusObject
        /\ waiting' \in [TxSet -> {"no", "own", "orphan"}] /\ WaitingOK'
    BY <1>7, BecomeOK, ZenonT(30)
  <2>2. DoneOK'
    BY <1>1, <1>7, <2>1, DoneFrame, ZenonT(30)
  <2>3. TypeOK'
    BY <1>5, <1>7, <2>1, ZenonT(30) DEF IInv, TypeOK, bounds
  <2>4. AcceptJobIsOurSet'
    BY <1>7, <2>1, ZenonT(30) DEF AcceptJobIsOurSet
  <2>5. StepOK
    BY <1>7, <2>1, ZenonT(30) DEF StepOK
  <2> QED BY <2>1, <2>2, <2>3, <2>4, <2>5, SMTT(30) DEF IInv
<1>8. /\ aged \in SUBSET Peers /\ {} \in SUBSET Peers /\ lastclose \in [proposers : Nat, ms : Nat]
      /\ AcquiringStep(c, x) /\ AcquiringStep(c, x1)
      /\ x1.state # "crashed" => AcquiringStep(c, x2)
      /\ ComparesOK(c) => ComparesOK(x1)
      /\ x1.state # "crashed" /\ ComparesOK(c) => ComparesOK(x2)
  BY <1>3, <1>4, ZenonT(30) DEF IInv, TypeOK, AcquiringStep, RoundOK
<1>9. CASE Become(x) /\ UNCHANGED <<aged, acceptjob, lastclose>>
  <2>1. ObjectStep(c, x)
    BY QuietStep, ZenonT(30)
  <2> QED BY <1>1, <1>7, <1>8, <1>9, <2>1, ZenonT(30)
<1>10. CASE late /\ Become(x1) /\ UNCHANGED <<aged, acceptjob, lastclose>>
  BY <1>1, <1>3, <1>m, <1>7, <1>8, <1>10, ZenonT(30)
<1>11. CASE /\ late /\ x1.state # "crashed" /\ Become(x2)
            /\ aged' = {} /\ UNCHANGED <<acceptjob, lastclose>>
  BY <1>1, <1>4, <1>m, <1>7, <1>8, <1>11, ZenonT(30)
<1>12. CASE /\ late /\ x1.state # "crashed" /\ ~Good(x2, x2.our.set) /\ Become(Crash(x2))
            /\ UNCHANGED <<aged, acceptjob, lastclose>>
  <2>1. PICK y : y = Crash(x2)
    OBVIOUS
  <2>2. y = [x2 EXCEPT !.state = "crashed"]
    BY <2>1 DEF Crash
  <2>n. \E s \in TxSet : x2.acquired[s] = "null"
    <3>1. x2 \in ConsensusObject /\ x2.our \in Position
      BY <1>4, <1>12, Fields, SMTT(30) DEF RoundOK, VotesOK
    <3>2. x2.our.set \in TxSet /\ x2.acquired[x2.our.set] \in {"absent", "null", "good"}
      BY <3>1, Fields, SMTT(30) DEF Position
    <3>3. x2.acquired[x2.our.set] # "absent"
      BY <1>4, <1>12, ZenonT(30) DEF RoundOK, StopOK
    <3> QED BY <1>12, <3>2, <3>3, SMTT(30) DEF Good
  <2>3. /\ RoundOK(y) /\ y.acquiring = x2.acquiring /\ y.our = x2.our /\ y.ms = x2.ms
        /\ y.state = "crashed" /\ (ComparesOK(x2) => ComparesOK(y))
    BY <1>4, <1>12, <2>2, <2>n, NewStateOK, SMTT(30)
  <2>4. AcquiringStep(c, y)
    BY <1>8, <1>12, <2>3, ZenonT(30) DEF AcquiringStep, RoundOK
  <2>5. Become(y)
    BY <1>12, <2>1, SMTT(30)
  <2>6. ObjectStep(c, y)
    BY <1>m, <1>12, <2>3, ZenonT(30) DEF ObjectStep
  <2> QED BY <1>1, <1>7, <1>8, <1>12, <2>3, <2>4, <2>5, <2>6, ZenonT(30)
<1>13. CASE /\ late /\ x1.state # "crashed" /\ done /\ Become(fin) /\ aged' = {}
            /\ acceptjob' = x2.our.set
            /\ lastclose' = [proposers |-> Cardinality(Proposers(x2)), ms |-> x.ms]
  <2>1. PICK y : y = fin
    BY Zenon
  <2>2. /\ RoundOK(y) /\ y.state = "finished" /\ y.our = x2.our /\ y.acquiring = x2.acquiring
        /\ y.peers = x2.peers /\ y.ms = x2.ms /\ y.consensusfail = x2.consensusfail
        /\ ComparesOK(x2) => ComparesOK(y)
    BY <1>4, <1>13, <2>1, NewStateOK, SMTT(30)
  <2>3. AcquiringStep(c, y)
    BY <1>8, <1>13, <2>2, SMTT(30) DEF AcquiringStep, RoundOK
  <2>4. lastclose' \in [proposers : Nat, ms : Nat]
    BY <1>t, <1>13, ProposersCount, SMTT(30)
  <2>5. acceptjob' \in TxSet \cup {None}
    <3>1. x2.our \in Position
      BY <1>4, <1>13, Fields, SMTT(30) DEF RoundOK, VotesOK
    <3> QED BY <1>13, <3>1, SMTT(30) DEF Position
  <2>6. Become(y)
    BY <1>13, <2>1, SMTT(30)
  <2> HIDE DEF fin
  <2>7. y.our = x1.our /\ y.peers = x1.peers /\ y.ms = x.ms
    BY <1>3, <1>4, <1>13, <2>2, ZenonT(30) DEF SameRound, SameView
  <2>8. Proposers(y) = Proposers(x1) /\ PeersAt(y, y.our.set) = PeersAt(x1, x1.our.set)
    BY <2>7, ZenonT(30) DEF Proposers, PeersAt
  <2>9. ~y.consensusfail =>
          (Cardinality(PeersAt(y, y.our.set)) + 1) * 100 > 80 * (Cardinality(Proposers(y)) + 1)
    BY <1>d, <1>v, <1>13, <2>2, <2>8, ZenonT(30)
  <2>10. ~c.our.bowout /\ y.our.closetime # 0 /\ Proposers(y) # {} =>
           2 * Backers(c, y, y.our.closetime) >= Electorate(c, y)
    <3>1. \A t : Backers(c, y, t) = Backers(x, x1, t)
      BY <2>7, <2>8, ZenonT(30) DEF Backers
    <3>2. Electorate(c, y) = Electorate(x, x1)
      BY <2>8, ZenonT(30) DEF Electorate
    <3> QED BY <1>3, <1>d, <1>13, <2>7, <2>8, <3>1, <3>2, ZenonT(30)
  <2>11. ObjectStep(c, y)
    BY <1>3, <1>t, <1>13, <2>7, <2>9, <2>10, ZenonT(30) DEF ObjectStep
  <2> QED BY <1>7, <1>8, <1>13, <2>2, <2>3, <2>4, <2>5, <2>6, <2>11, ZenonT(30)
<1> QED BY <1>6, <1>9, <1>10, <1>11, <1>12, <1>13, SMTT(30)

-----------------------------------------------------------------------------
(***************************************************************************)
(* One lemma per handler                                                   *)
(***************************************************************************)

\* A method that keeps the view, our position and the parts of RoundOK it deals
\* with keeps RoundOK.
LEMMA ViewKept ==
    ASSUME NEW x, RoundOK(x), x.state # "none", NEW y, VotesOK(y, Nobody), SameView(x, y),
           AcquiringStep(x, y), DeadOK(x) => DeadOK(y), OursOK(x) => OursOK(y), StopOK(y)
    PROVE  RoundOK(y)
BY ZenonT(30) DEF RoundOK, SameView, AcquiringStep, SyncOK, StateOK

\* A handler that keeps the view keeps the invariant, with completions and accept
\* job as they are.
LEMMA HandlerInv ==
    ASSUME IInv, Alive, c.state # "none", NEW y, RoundOK(y), SameView(c, y),
           AcquiringStep(c, y), ComparesOK(c) => ComparesOK(y), Become(y), aged' \in SUBSET Peers,
           UNCHANGED <<open, held, completions, acceptjob, lastclose, replaying, bounds>>
    PROVE  IInv' /\ StepOK
<1>1. /\ c' = y /\ RoundOK(c)' /\ c' \in ConsensusObject
      /\ waiting' \in [TxSet -> {"no", "own", "orphan"}] /\ WaitingOK'
  BY BecomeOK
<1>2. DoneOK'
  BY <1>1, DoneFrame, SMTT(30)
<1>3. TypeOK'
  BY <1>1, SMTT(30) DEF IInv, TypeOK, bounds
<1>4. AcceptJobIsOurSet'
  BY <1>1 DEF IInv, AcceptJobIsOurSet, Alive, SameView
<1>5. StepOK
  BY <1>1, SameViewStep, ZenonT(30) DEF StepOK
<1> QED BY <1>1, <1>2, <1>3, <1>4, <1>5, SMTT(30) DEF IInv

\* A timer call keeps the invariant, once the view of the ledger is settled.
LEMMA TimerRestInv ==
    ASSUME IInv, TimerRest(SwitchLedger(c, held)), replaying' \in BOOLEAN
    PROVE  IInv' /\ StepOK
<1>1. PICK x : x = SwitchLedger(c, held)
  BY SMTT(30)
<1>2. /\ RoundOK(x) /\ x.state = c.state /\ x.acquiring = c.acquiring
      /\ x.our = c.our /\ x.proposing = c.proposing /\ (ComparesOK(c) => ComparesOK(x))
  BY <1>1, SwitchLedgerOK DEF IInv, TypeOK
<1>3. UNCHANGED <<held, completions, bounds>>
  BY DEF TimerRest
<1>4. PICK m \in LaterTimes :
        \/ x.state = "preclose"  /\ PreClose([x EXCEPT !.ms = m])
        \/ x.state = "establish" /\ Establish([x EXCEPT !.ms = m])
  BY <1>1 DEF TimerRest
<1>5. PICK y : y = [x EXCEPT !.ms = m]
  BY ZenonT(30)
<1>6. m \in Nat
  BY ConsensusAssumption DEF LaterTimes
<1>7. /\ RoundOK(y) /\ y.state = c.state /\ y.acquiring = c.acquiring
      /\ y.our = c.our /\ y.proposing = c.proposing /\ (ComparesOK(c) => ComparesOK(y))
  BY <1>2, <1>5, <1>6, ClockOK, SMTT(30)
<1>8. CASE x.state = "preclose" /\ PreClose([x EXCEPT !.ms = m])
  <2>1. PreClose(y) /\ c.state = "preclose"
    BY <1>2, <1>5, <1>8, SMTT(30)
  <2> QED BY <1>3, <1>7, <2>1, PreCloseInv, ZenonT(30)
<1>9. CASE x.state = "establish" /\ Establish([x EXCEPT !.ms = m])
  <2>1. Establish(y) /\ c.state = "establish"
    BY <1>2, <1>5, <1>9, SMTT(30)
  <2> QED BY <1>3, <1>7, <2>1, EstablishInv, SMTT(30)
<1> QED BY <1>4, <1>8, <1>9, SMTT(30)

\* beginconsensus: a new object, which proposes only on the network's ledger.
LEMMA BeginConsensusInv == IInv /\ BeginConsensus => IInv' /\ StepOK
<1> SUFFICES ASSUME IInv, BeginConsensus PROVE IInv' /\ StepOK
  BY SMTT(30)
<1>1. PICK hash \in Ledgers, ledger \in held, proposing \in BOOLEAN :
        /\ proposing => hash = ledger
        /\ Become(SwitchLedger(
             [NoConsensus EXCEPT !.state = "preclose",
                !.prevledgerhash = hash, !.previousledger = ledger,
                !.havecorrectlcl = (hash = ledger),
                !.proposing = proposing,
                !.previousproposers = lastclose.proposers, !.previousms = lastclose.ms], held))
  BY Zenon DEF BeginConsensus
<1>2. PICK n : n = [NoConsensus EXCEPT !.state = "preclose",
                !.prevledgerhash = hash, !.previousledger = ledger,
                !.havecorrectlcl = (hash = ledger),
                !.proposing = proposing,
                !.previousproposers = lastclose.proposers, !.previousms = lastclose.ms]
  BY SMTT(30)
<1>3. held \subseteq Ledgers /\ ledger \in Ledgers /\ lastclose \in [proposers : Nat, ms : Nat]
  BY DEF IInv, TypeOK
<1>4. /\ n \in ConsensusObject /\ n.state = "preclose" /\ n.our = None
      /\ n.prevledgerhash = hash /\ n.previousledger = ledger /\ n.proposing = proposing
      /\ n.peers = NoConsensus.peers /\ n.disputes = NoConsensus.disputes
      /\ n.acquiring = NoConsensus.acquiring /\ n.compares = NoConsensus.compares
  BY <1>2, <1>3, ZenonT(60) DEF NoConsensus, ConsensusObject, States
<1>5. /\ \A p \in Peers : n.peers[p] = None
      /\ \A t \in Txs : n.disputes[t] = None
      /\ \A s \in TxSet : n.acquiring[s] = "no"
      /\ n.compares = {}
  BY <1>4, Zenon DEF NoConsensus
<1>6. RoundOK(n)
  <2>1. VotesOK(n, Nobody) /\ OursOK(n) /\ DeadOK(n)
    BY <1>4, <1>5, NoVotesOK, ZenonT(30)
  <2> QED BY <1>1, <1>4, <1>5, <2>1, SMTT(30) DEF RoundOK, AcquiringOK, SyncOK, StateOK, StopOK
<1>7. PICK y : y = SwitchLedger(n, held)
  OBVIOUS
<1>c. ComparesOK(n)
  BY <1>4, <1>5, ZenonT(30) DEF ComparesOK
<1>8. RoundOK(y) /\ y.acquiring = n.acquiring /\ ComparesOK(y) /\ y.state = n.state
  BY <1>3, <1>6, <1>7, <1>c, SwitchLedgerOK, ZenonT(30)
<1>9. Become(y)
  BY <1>1, <1>2, <1>7, SMTT(30)
<1>10. /\ c' = y /\ RoundOK(c)' /\ c' \in ConsensusObject
       /\ waiting' \in [TxSet -> {"no", "own", "orphan"}] /\ WaitingOK'
  BY <1>8, <1>9, BecomeOK, SMTT(30)
<1>11. DoneOK'
  BY <1>5, <1>8, <1>10, SMTT(30) DEF DoneOK
<1>12. TypeOK'
  <2>1. round' \in 0..MaxRounds
    BY ConsensusAssumption DEF BeginConsensus, IInv, TypeOK
  <2>2. UNCHANGED <<open, held, aged, completions, acceptjob, lastclose, replaying, views>>
    BY DEF BeginConsensus
  <2> QED BY <1>10, <2>1, <2>2, SMTT(30) DEF IInv, TypeOK
<1>13. AcceptJobIsOurSet'
  BY DEF BeginConsensus, IInv, AcceptJobIsOurSet, Alive
<1>14. StepOK
  <2>1. c.state = "none"
    BY DEF BeginConsensus
  <2> QED BY <1>8, <1>10, <2>1, QuietStep, ZenonT(30) DEF StepOK, IInv, RoundOK, StateOK
<1> QED BY <1>10, <1>11, <1>12, <1>13, <1>14, SMTT(30) DEF IInv

\* handlelcl
LEMMA TimerChangesViewInv == IInv /\ TimerChangesView => IInv' /\ StepOK
<1> SUFFICES ASSUME IInv, TimerChangesView PROVE IInv' /\ StepOK
  OBVIOUS
<1>1. PICK l \in Ledgers : Become(ChangeView(c, l))
  BY DEF TimerChangesView
<1>2. PICK y : y = ChangeView(c, l)
  OBVIOUS
<1>3. /\ RoundOK(y) /\ y.state = c.state /\ y.acquiring = c.acquiring
      /\ c.our # None => y.our # None /\ y.our.set = c.our.set
  BY <1>2, ChangeViewOK, SMTT(30) DEF IInv
<1>4. /\ c' = y /\ RoundOK(c)' /\ c' \in ConsensusObject
      /\ waiting' \in [TxSet -> {"no", "own", "orphan"}] /\ WaitingOK'
  BY <1>1, <1>2, <1>3, BecomeOK, SMTT(30)
<1>5. AcquiringStep(c, y) /\ Alive /\ completions' = completions
  BY <1>3, ZenonT(30) DEF AcquiringStep, AcquiringOK, RoundOK, TimerChangesView, Alive
<1>6. DoneOK'
  BY <1>4, <1>5, DoneFrame, SMTT(30)
<1>7. TypeOK'
  <2>1. views' \in 0..MaxViews /\ aged' \in SUBSET Peers /\ replaying' \in BOOLEAN
    BY ConsensusAssumption, SMTT(30) DEF TimerChangesView, IInv, TypeOK
  <2>2. UNCHANGED <<open, held, completions, acceptjob, lastclose, round>>
    BY SMTT(30) DEF TimerChangesView
  <2> QED BY <1>4, <2>1, <2>2, SMTT(30) DEF IInv, TypeOK
<1>8. AcceptJobIsOurSet'
  BY SMTT(30) DEF TimerChangesView, IInv, AcceptJobIsOurSet, Alive
<1>9. StepOK
  <2>1. ObjectStep(c, y)
    BY <1>3, SMTT(30) DEF ObjectStep
  <2> QED BY <1>4, <2>1, ZenonT(30) DEF StepOK, TimerChangesView
<1> QED BY <1>4, <1>6, <1>7, <1>8, <1>9, SMTT(30) DEF IInv

\* peerposition
LEMMA PeerProposesInv == IInv /\ PeerProposes => IInv' /\ StepOK
<1> SUFFICES ASSUME IInv, PeerProposes PROVE IInv' /\ StepOK
  OBVIOUS
<1>1. PICK p \in Peers, pos \in PeerProposals :
        /\ Become(PeerPosition(c, p, pos, open))
        /\ aged' = aged \ {p}
  BY ZenonT(30) DEF PeerProposes
<1>2. PICK y : y = PeerPosition(c, p, pos, open)
  OBVIOUS
<1>3. pos \in Proposal
  BY ProposalAssumption, SMTT(30)
<1>4. /\ VotesOK(y, Nobody) /\ SameView(c, y) /\ AcquiringStep(c, y)
      /\ DeadOK(c) => DeadOK(y)
      /\ OursOK(c) => OursOK(y)
      /\ StopOK(c) /\ c.state # "crashed" => StopOK(y)
      /\ ComparesOK(c) => ComparesOK(y)
  BY <1>2, <1>3, PeerPositionOK, SMTT(30) DEF IInv, RoundOK
<1>5. Alive /\ c.state # "none"
  BY DEF PeerProposes, InRound, Alive
<1>s. StopOK(y)
  BY <1>4, <1>5, ZenonT(30) DEF IInv, RoundOK, Alive
<1>6. RoundOK(y)
  BY <1>4, <1>5, <1>s, ViewKept, SMTT(30) DEF IInv
<1>7. aged' \in SUBSET Peers /\ Become(y)
  BY <1>1, <1>2, SMTT(30) DEF IInv, TypeOK
<1>8. UNCHANGED <<open, held, completions, acceptjob, lastclose, replaying, bounds>>
  BY DEF PeerProposes
<1> QED BY <1>4, <1>5, <1>6, <1>7, <1>8, HandlerInv, SMTT(30)

\* gettxmap
LEMMA PeerAsksForSetInv == IInv /\ PeerAsksForSet => IInv' /\ StepOK
<1> SUFFICES ASSUME IInv, PeerAsksForSet PROVE IInv' /\ StepOK
  OBVIOUS
<1>1. PICK s \in TxSet : Become(GetTransactionTree(c, s, open, FALSE))
  BY Zenon DEF PeerAsksForSet
<1>2. PICK y : y = GetTransactionTree(c, s, open, FALSE)
  BY Zenon
<1>3. /\ VotesOK(y, Nobody) /\ SameRound(c, y) /\ AcquiringStep(c, y)
      /\ OursOK(c) => OursOK(y)
      /\ StopOK(c) /\ c.state # "crashed" => StopOK(y)
      /\ ComparesOK(c) => ComparesOK(y)
  BY <1>2, GetTransactionTreeOK, ZenonT(30) DEF IInv, RoundOK
<1>4. Alive /\ c.state # "none"
  BY SMTT(30) DEF PeerAsksForSet, InRound, Alive
<1>5. SameView(c, y) /\ (DeadOK(c) => DeadOK(y))
  BY <1>3, SMTT(30) DEF SameRound, DeadOK, Proposers
<1>s. StopOK(y)
  BY <1>3, <1>4, ZenonT(30) DEF IInv, RoundOK, Alive
<1>6. RoundOK(y)
  BY <1>3, <1>4, <1>5, <1>s, ViewKept, SMTT(30) DEF IInv
<1>7. aged' \in SUBSET Peers
  BY DEF PeerAsksForSet, IInv, TypeOK
<1>8. UNCHANGED <<open, held, completions, acceptjob, lastclose, replaying, bounds>>
  BY DEF PeerAsksForSet
<1> QED BY <1>1, <1>2, <1>3, <1>4, <1>5, <1>6, <1>7, <1>8, HandlerInv, ZenonT(30)

\* The steps that leave the object and its acquisitions alone.
LEMMA OutsideInv == IInv /\ (PositionAges \/ SubmitTransaction \/ LedgerArrives) => IInv' /\ StepOK
<1> SUFFICES ASSUME IInv, PositionAges \/ SubmitTransaction \/ LedgerArrives PROVE IInv' /\ StepOK
  BY SMTT(30)
<1>1. UNCHANGED <<c, waiting, completions, acceptjob, lastclose, replaying, round, views>>
  BY SMTT(30) DEF PositionAges, SubmitTransaction, LedgerArrives, acquisition, bounds
<1>2. /\ open' \in SUBSET Submitted /\ held' \in SUBSET Ledgers /\ aged' \in SUBSET Peers
  BY ZenonT(30) DEF PositionAges, SubmitTransaction, LedgerArrives, IInv, TypeOK, Proposers
<1>3. TypeOK'
  BY <1>1, <1>2, SMTT(30) DEF IInv, TypeOK
<1>4. (RoundOK(c) /\ AcceptJobIsOurSet /\ WaitingOK /\ DoneOK)'
  BY <1>1, ZenonT(30) DEF IInv, AcceptJobIsOurSet, WaitingOK, DoneOK, Alive
<1>5. StepOK
  BY <1>1, QuietStep, ZenonT(30) DEF StepOK
<1> QED BY <1>3, <1>4, <1>5 DEF IInv

\* accept
LEMMA AcceptInv == IInv /\ Accept => IInv' /\ StepOK
<1> SUFFICES ASSUME IInv, Accept PROVE IInv' /\ StepOK
  OBVIOUS
<1>1. c.state = "finished" /\ c' = [c EXCEPT !.state = "accepted"]
      /\ acceptjob \in TxSet /\ acceptjob' = None
  BY DEF IInv, AcceptJobIsOurSet, TypeOK, Accept
<1>2. c.our # None
  BY <1>1 DEF IInv, RoundOK, StateOK
<1>3. /\ RoundOK(c') /\ c'.state = "accepted" /\ c'.acquiring = c.acquiring
      /\ c'.our = c.our /\ (ComparesOK(c) => ComparesOK(c'))
  BY <1>1, <1>2, NewStateOK, SMTT(30) DEF IInv
<1>4. UNCHANGED <<held, aged, waiting, completions, lastclose, replaying, round, views>>
  BY DEF Accept, acquisition, bounds
<1>5. open' \in SUBSET Submitted
  <2>1. Retried(c, open) \subseteq Txs
    BY DEF IInv, TypeOK, Retried, Disputed, Submitted
  <2>2. acceptjob \subseteq Txs
    BY <1>1, SMTT(30) DEF TxSet
  <2> QED BY <2>1, <2>2, SMTT(30) DEF Accept, Submitted
<1>6. c' \in ConsensusObject
  BY <1>3, ZenonT(30) DEF RoundOK, VotesOK
<1>7. TypeOK'
  BY <1>1, <1>4, <1>5, <1>6, SMTT(30) DEF IInv, TypeOK
<1>8. (AcceptJobIsOurSet /\ WaitingOK /\ DoneOK)'
  BY <1>1, <1>3, <1>4, ZenonT(30) DEF IInv, AcceptJobIsOurSet, WaitingOK, DoneOK, Alive
<1>9. StepOK
  BY <1>3, QuietStep, ZenonT(30) DEF StepOK
<1> QED BY <1>3, <1>7, <1>8, <1>9 DEF IInv

\* endconsensus
LEMMA EndConsensusInv == IInv /\ EndConsensus => IInv' /\ StepOK
<1> SUFFICES ASSUME IInv, EndConsensus PROVE IInv' /\ StepOK
  OBVIOUS
<1>1. PICK y : y = NoConsensus
  BY SMTT(30)
<1>2. RoundOK(y) /\ ComparesOK(y) /\ (\A s \in TxSet : y.acquiring[s] = "no") /\ Become(y)
  BY <1>1, NoConsensusOK, SMTT(30) DEF EndConsensus
<1>3. /\ c' = y /\ RoundOK(c)' /\ c' \in ConsensusObject
      /\ waiting' \in [TxSet -> {"no", "own", "orphan"}] /\ WaitingOK'
  BY <1>2, BecomeOK, SMTT(30)
<1>4. DoneOK'
  BY <1>2, <1>3, SMTT(30) DEF DoneOK
<1>5. UNCHANGED <<open, held, completions, acceptjob, lastclose, replaying, bounds>> /\ aged' = {}
  BY SMTT(30) DEF EndConsensus
<1>6. TypeOK'
  BY <1>3, <1>5, SMTT(30) DEF IInv, TypeOK, bounds
<1>7. AcceptJobIsOurSet'
  BY <1>5 DEF EndConsensus, IInv, AcceptJobIsOurSet, Alive
<1>8. StepOK
  <2>1. y.our = None /\ y.state = "none"
    BY <1>1, ZenonT(30) DEF NoConsensus
  <2> QED BY <1>2, <1>3, <2>1, QuietStep, ZenonT(30) DEF StepOK
<1> QED BY <1>3, <1>4, <1>6, <1>7, <1>8, SMTT(30) DEF IInv

\* The end of an acquisition, or none: the object is otherwise the same.
LEMMA AcquisitionEndsOK ==
    ASSUME NEW x, RoundOK(x), NEW s \in TxSet, x.acquiring[s] # "no",
           NEW y, y = [x EXCEPT !.acquiring[s] = "done"]
    PROVE  /\ RoundOK(y) /\ y.state = x.state /\ y.our = x.our
           /\ \A u \in TxSet : y.acquiring[u] = IF u = s THEN "done" ELSE x.acquiring[u]
           /\ ComparesOK(x) => ComparesOK(y)
<1>1. x \in ConsensusObject
  BY DEF RoundOK, VotesOK
<1>2. /\ y \in ConsensusObject /\ y.state = x.state /\ y.our = x.our
      /\ y.peers = x.peers /\ y.acquiring = [x.acquiring EXCEPT ![s] = "done"]
      /\ y.acquired = x.acquired /\ y.compares = x.compares
      /\ y.dead = x.dead /\ y.disputes = x.disputes /\ y.proposing = x.proposing
      /\ y.previousledger = x.previousledger /\ y.prevledgerhash = x.prevledgerhash
  BY <1>1, SMTT(30) DEF ConsensusObject
<1>3. \A u \in TxSet : y.acquiring[u] = IF u = s THEN "done" ELSE x.acquiring[u]
  BY <1>1, <1>2, Fields
<1>4. HoldsNoMore(x, Nobody, y, Nobody)
  BY <1>2 DEF HoldsNoMore
<1>5. VotesOK(y, Nobody)
  BY <1>2, <1>4, VotesFrame, SMTT(30) DEF RoundOK
<1>6. OursOK(y) /\ DeadOK(y) /\ AcquiringOK(y) /\ SyncOK(y) /\ StateOK(y)
  BY <1>2, <1>3, SMTT(30) DEF RoundOK, OursOK, Disputed, DeadOK, Proposers, AcquiringOK, SyncOK, StateOK
<1>7. StopOK(y) /\ (ComparesOK(x) => ComparesOK(y))
  BY <1>2, ZenonT(90) DEF RoundOK, StopOK, ComparesOK, Disputed
<1> QED BY <1>2, <1>3, <1>5, <1>6, <1>7, SMTT(30) DEF RoundOK

\* A job is posted.
LEMMA PostOK ==
    ASSUME completions \in [TxSet \X BOOLEAN -> Nat], NEW s \in TxSet, NEW ok \in BOOLEAN,
           Post(s, ok)
    PROVE  /\ completions' \in [TxSet \X BOOLEAN -> Nat]
           /\ \A j \in TxSet \X BOOLEAN : completions'[j] >= completions[j]
           /\ completions'[<<s, TRUE>>] + completions'[<<s, FALSE>>] > 0
<1>1. PICK k : k = <<s, ok>>
  BY Zenon
<1>2. k \in TxSet \X BOOLEAN /\ completions' = [completions EXCEPT ![k] = @ + 1]
  BY <1>1 DEF Post
<1>3. /\ completions' \in [TxSet \X BOOLEAN -> Nat]
      /\ \A j \in TxSet \X BOOLEAN : completions'[j] >= completions[j]
      /\ completions'[k] > 0
  BY <1>2
<1>4. PICK a, b \in TxSet \X BOOLEAN : a = <<s, TRUE>> /\ b = <<s, FALSE>>
  BY Zenon
<1>5. k = a \/ k = b
  BY <1>1, <1>4, ZenonT(30)
<1>6. completions'[a] \in Nat /\ completions'[b] \in Nat
  BY <1>3, <1>4, SMTT(30)
<1>7. completions'[a] + completions'[b] > 0
  BY <1>3, <1>5, <1>6, SMTT(30)
<1> QED BY <1>3, <1>4, <1>7, SMTT(30)

\* Acquisitions that were over still have their jobs.
LEMMA DoneStillPosted ==
    ASSUME IInv, Alive, completions' \in [TxSet \X BOOLEAN -> Nat], NEW u \in TxSet,
           completions'[<<u, TRUE>>] >= completions[<<u, TRUE>>],
           completions'[<<u, FALSE>>] >= completions[<<u, FALSE>>],
           c.acquiring[u] = "done"
    PROVE  completions'[<<u, TRUE>>] + completions'[<<u, FALSE>>] > 0
<1>1. PICK a, b \in TxSet \X BOOLEAN : a = <<u, TRUE>> /\ b = <<u, FALSE>>
  BY Zenon
<1>2. completions[a] + completions[b] > 0 /\ completions \in [TxSet \X BOOLEAN -> Nat]
  BY <1>1, ZenonT(30) DEF IInv, DoneOK, TypeOK
<1>3. /\ completions[a] \in Nat /\ completions[b] \in Nat
      /\ completions'[a] \in Nat /\ completions'[b] \in Nat
      /\ completions'[a] >= completions[a] /\ completions'[b] >= completions[b]
  BY <1>1, <1>2, SMTT(30)
<1>4. completions'[a] + completions'[b] > 0
  BY <1>2, <1>3, SMTT(30)
<1> QED BY <1>1, <1>4, SMTT(30)

\* done: the acquisition ends and its job is posted.
LEMMA AcquireDoneInv == IInv /\ AcquireDone => IInv' /\ StepOK
<1> SUFFICES ASSUME IInv, AcquireDone PROVE IInv' /\ StepOK
  OBVIOUS
<1>1. PICK s \in TxSet :
        /\ c.acquiring[s] = "active" /\ c' = [c EXCEPT !.acquiring[s] = "done"]
        /\ \E ok \in BOOLEAN : Post(s, ok)
  BY Zenon DEF AcquireDone
<1>2. /\ RoundOK(c') /\ c'.state = c.state /\ c'.our = c.our
      /\ ComparesOK(c) => ComparesOK(c')
      /\ \A u \in TxSet : c'.acquiring[u] # c.acquiring[u] => u = s /\ c'.acquiring[u] = "done"
  BY <1>1, AcquisitionEndsOK DEF IInv
<1>3. /\ completions' \in [TxSet \X BOOLEAN -> Nat]
      /\ \A j \in TxSet \X BOOLEAN : completions'[j] >= completions[j]
      /\ completions'[<<s, TRUE>>] + completions'[<<s, FALSE>>] > 0
  <2>1. PICK ok \in BOOLEAN : Post(s, ok)
    BY <1>1
  <2> QED BY <2>1, PostOK, ZenonT(30) DEF IInv, TypeOK
<1>4. UNCHANGED <<open, held, aged, waiting, acceptjob, lastclose, replaying, round, views>> /\ Alive
  BY DEF AcquireDone, bounds
<1>5. TypeOK'
  BY <1>2, <1>3, <1>4, ZenonT(30) DEF IInv, TypeOK, RoundOK, VotesOK
<1>6. DoneOK'
  <2> SUFFICES ASSUME NEW u \in TxSet, c'.acquiring[u] = "done"
               PROVE  completions'[<<u, TRUE>>] + completions'[<<u, FALSE>>] > 0
    BY ZenonT(30) DEF DoneOK
  <2>1. CASE u = s
    BY <1>3, <2>1
  <2>2. CASE u # s
    <3>1. c.acquiring[u] = "done"
      BY <1>2, <2>2, SMTT(30)
    <3> QED BY <1>3, <1>4, <3>1, DoneStillPosted, ZenonT(30)
  <2> QED BY <2>1, <2>2, SMTT(30)
<1>7. (AcceptJobIsOurSet /\ WaitingOK)'
  BY <1>1, <1>2, <1>4, SMTT(30) DEF IInv, AcceptJobIsOurSet, WaitingOK, Alive
<1>8. StepOK
  BY <1>2, QuietStep, ZenonT(30) DEF StepOK
<1> QED BY <1>2, <1>5, <1>6, <1>7, <1>8, ZenonT(30) DEF IInv

\* ontimer, before the lock
LEMMA OnTimerInv == IInv /\ OnTimer => IInv' /\ StepOK
<1> SUFFICES ASSUME IInv, OnTimer PROVE IInv' /\ StepOK
  OBVIOUS
<1>1. PICK s \in TxSet : c.acquiring[s] = "active" /\ waiting' = [waiting EXCEPT ![s] = "own"]
  BY ZenonT(30) DEF OnTimer
<1>2. UNCHANGED <<c, open, held, aged, completions, acceptjob, lastclose, replaying, round, views>>
  BY DEF OnTimer, bounds
<1>3. TypeOK' /\ WaitingOK'
  BY <1>1, <1>2, ZenonT(30) DEF IInv, TypeOK, WaitingOK
<1>4. StepOK
  BY <1>2, QuietStep, ZenonT(30) DEF StepOK
<1> QED BY <1>2, <1>3, <1>4, ZenonT(30) DEF IInv, AcceptJobIsOurSet, DoneOK, Alive

\* ontimer, with the lock
LEMMA OnTimerLockedInv == IInv /\ OnTimerLocked => IInv' /\ StepOK
<1> SUFFICES ASSUME IInv, OnTimerLocked PROVE IInv' /\ StepOK
  OBVIOUS
<1>1. PICK s \in TxSet :
        /\ waiting[s] # "no"
        /\ waiting' = [waiting EXCEPT ![s] = "no"]
        /\ \/ UNCHANGED <<c, completions>>
           \/ /\ Post(s, FALSE)
              /\ \/ c' = c
                 \/ waiting[s] = "own" /\ c' = [c EXCEPT !.acquiring[s] = "done"]
  BY Zenon DEF OnTimerLocked
<1>2. UNCHANGED <<open, held, aged, acceptjob, lastclose, replaying, round, views>> /\ Alive
  BY DEF OnTimerLocked, bounds
<1>3. /\ RoundOK(c') /\ c'.state = c.state /\ c'.our = c.our
      /\ ComparesOK(c) => ComparesOK(c')
      /\ \A u \in TxSet : c'.acquiring[u] # c.acquiring[u] => u = s /\ c'.acquiring[u] = "done"
  <2>1. CASE c' = c
    BY <2>1 DEF IInv
  <2>2. CASE waiting[s] = "own" /\ c' = [c EXCEPT !.acquiring[s] = "done"]
    <3>1. c.acquiring[s] # "no"
      BY <2>2 DEF IInv, WaitingOK
    <3> QED BY <2>2, <3>1, AcquisitionEndsOK, SMTT(30) DEF IInv
  <2> QED BY <1>1, <2>1, <2>2, ZenonT(30)
<1>4. /\ completions' \in [TxSet \X BOOLEAN -> Nat]
      /\ \A j \in TxSet \X BOOLEAN : completions'[j] >= completions[j]
      /\ c' # c => completions'[<<s, TRUE>>] + completions'[<<s, FALSE>>] > 0
  <2>1. CASE UNCHANGED <<c, completions>>
    BY <2>1 DEF IInv, TypeOK
  <2>2. CASE Post(s, FALSE)
    BY <2>2, PostOK, ZenonT(30) DEF IInv, TypeOK
  <2> QED BY <1>1, <2>1, <2>2, ZenonT(30)
<1>5. TypeOK'
  BY <1>1, <1>2, <1>3, <1>4, ZenonT(30) DEF IInv, TypeOK, RoundOK, VotesOK
<1>6. DoneOK'
  <2> SUFFICES ASSUME NEW u \in TxSet, c'.acquiring[u] = "done"
               PROVE  completions'[<<u, TRUE>>] + completions'[<<u, FALSE>>] > 0
    BY ZenonT(30) DEF DoneOK
  <2>1. CASE c.acquiring[u] = "done"
    BY <1>2, <1>4, <2>1, DoneStillPosted, ZenonT(30)
  <2>2. CASE c.acquiring[u] # "done"
    BY <1>3, <1>4, <2>2, ZenonT(30)
  <2> QED BY <2>1, <2>2
<1>7. AcceptJobIsOurSet'
  BY <1>2, <1>3 DEF IInv, AcceptJobIsOurSet, Alive
<1>8. WaitingOK'
  BY <1>1, <1>3, SMTT(30) DEF IInv, TypeOK, WaitingOK
<1>9. StepOK
  BY <1>3, QuietStep, ZenonT(30) DEF StepOK
<1> QED BY <1>3, <1>5, <1>6, <1>7, <1>8, <1>9, ZenonT(30) DEF IInv

\* tacompletionhandler: the job that is taken away belongs to a set that is no
\* longer acquired afterwards.
LEMMA CompleteAcquireInv == IInv /\ CompleteAcquire => IInv' /\ StepOK
<1> SUFFICES ASSUME IInv, CompleteAcquire PROVE IInv' /\ StepOK
  OBVIOUS
<1>1. PICK s \in TxSet, ok \in BOOLEAN :
        /\ completions[<<s, ok>>] > 0
        /\ completions' = [completions EXCEPT ![<<s, ok>>] = @ - 1]
        /\ Become(IF c.state = "none" THEN c
                  ELSE IF ok THEN MapComplete(c, s) ELSE MapFailed(c, s))
  BY ZenonT(30) DEF CompleteAcquire
<1>2. UNCHANGED <<open, held, aged, acceptjob, lastclose, replaying, round, views>> /\ Alive
  BY DEF CompleteAcquire, bounds
<1>3. PICK y : y = IF c.state = "none" THEN c
                   ELSE IF ok THEN MapComplete(c, s) ELSE MapFailed(c, s)
  OBVIOUS
<1>4. /\ RoundOK(y) /\ SameView(c, y) /\ AcquiringStep(c, y) /\ (ComparesOK(c) => ComparesOK(y))
      /\ y.state # "crashed" => y.acquiring[s] = "no"
  <2>1. CASE c.state = "none"
    BY <1>3, <2>1, ZenonT(30) DEF IInv, RoundOK, StateOK, SameView, AcquiringStep
  <2>2. CASE c.state # "none"
    <3>1. y = MapComplete(c, s) \/ y = MapFailed(c, s)
      BY <1>3, <2>2, SMTT(30)
    <3>2. /\ VotesOK(y, Nobody) /\ SameRound(c, y) /\ AcquiringStep(c, y)
          /\ y.state # "crashed" => y.acquiring[s] = "no"
          /\ OursOK(c) => OursOK(y)
          /\ StopOK(c) /\ c.state # "crashed" => StopOK(y)
          /\ ComparesOK(c) => ComparesOK(y)
      <4>1. CASE y = MapComplete(c, s)
        BY <4>1, MapCompleteOK, ZenonT(30) DEF IInv, RoundOK
      <4>2. CASE y = MapFailed(c, s)
        BY <4>2, MapFailedOK, ZenonT(30) DEF IInv, RoundOK
      <4> QED BY <3>1, <4>1, <4>2, ZenonT(30)
    <3>3. SameView(c, y) /\ (DeadOK(c) => DeadOK(y))
      BY <3>2, ZenonT(30) DEF SameRound, DeadOK, Proposers
    <3>4. StopOK(y)
      BY <1>2, <3>2, ZenonT(30) DEF IInv, RoundOK, Alive
    <3> QED BY <2>2, <3>2, <3>3, <3>4, ViewKept, ZenonT(30) DEF IInv
  <2> QED BY <2>1, <2>2, Zenon
<1>5. /\ c' = y /\ RoundOK(c)' /\ c' \in ConsensusObject
      /\ waiting' \in [TxSet -> {"no", "own", "orphan"}] /\ WaitingOK'
  <2>1. Become(y)
    BY <1>1, <1>3, ZenonT(30)
  <2> QED BY <1>4, <2>1, BecomeOK, SMTT(30)
<1>6. /\ completions' \in [TxSet \X BOOLEAN -> Nat]
      /\ \A u \in TxSet, r \in BOOLEAN : u # s => completions'[<<u, r>>] = completions[<<u, r>>]
  <2>1. PICK k \in TxSet \X BOOLEAN : k = <<s, ok>>
    BY ZenonT(30)
  <2>2. completions[k] > 0 /\ completions' = [completions EXCEPT ![k] = @ - 1]
    BY <1>1, <2>1, SMTT(30)
  <2>3. completions \in [TxSet \X BOOLEAN -> Nat]
    BY SMTT(30) DEF IInv, TypeOK
  <2> QED BY <2>1, <2>2, <2>3, SMTT(30)
<1>7. DoneOK'
  <2> SUFFICES ASSUME Alive', NEW u \in TxSet, c'.acquiring[u] = "done"
               PROVE  completions'[<<u, TRUE>>] + completions'[<<u, FALSE>>] > 0
    BY ZenonT(30) DEF DoneOK
  <2>1. u # s /\ c.acquiring[u] = "done"
    BY <1>4, <1>5, Zenon DEF Alive, AcquiringStep
  <2>2. /\ completions'[<<u, TRUE>>] = completions[<<u, TRUE>>]
        /\ completions'[<<u, FALSE>>] = completions[<<u, FALSE>>]
    BY <1>6, <2>1, ZenonT(30)
  <2>3. completions[<<u, TRUE>>] + completions[<<u, FALSE>>] > 0
    BY <1>2, <2>1, ZenonT(30) DEF IInv, DoneOK
  <2> QED BY <2>2, <2>3, SMTT(30)
<1>8. TypeOK'
  BY <1>2, <1>5, <1>6, ZenonT(30) DEF IInv, TypeOK
<1>9. AcceptJobIsOurSet'
  BY <1>2, <1>4, <1>5, ZenonT(30) DEF IInv, AcceptJobIsOurSet, Alive, SameView
<1>10. StepOK
  BY <1>4, <1>5, SameViewStep, ZenonT(30) DEF StepOK
<1> QED BY <1>5, <1>7, <1>8, <1>9, <1>10, SMTT(30) DEF IInv

\* The first round has not begun.
LEMMA InitInv == Init => IInv /\ ComparesOK(c)
<1> SUFFICES ASSUME Init PROVE IInv /\ ComparesOK(c)
  BY SMTT(30)
<1>1. /\ c \in ConsensusObject /\ RoundOK(c) /\ ComparesOK(c) /\ c.state = "none"
      /\ \A s \in TxSet : c.acquiring[s] = "no"
  <2>1. PICK n : n = NoConsensus
    BY SMTT(30)
  <2>2. /\ n \in ConsensusObject /\ RoundOK(n) /\ ComparesOK(n)
        /\ \A s \in TxSet : n.acquiring[s] = "no"
    BY <2>1, NoConsensusOK, SMTT(30)
  <2>3. n.state = "none"
    BY <2>1, ZenonT(30) DEF NoConsensus
  <2> QED BY <2>1, <2>2, <2>3, ZenonT(30) DEF Init
<1>2. held \in SUBSET Ledgers
  BY SMTT(30) DEF Init
<1>3. lastclose \in [proposers : Nat, ms : Nat] /\ 0 \in 0..MaxRounds /\ 0 \in 0..MaxViews
  BY ConsensusAssumption, SMTT(30) DEF Init
<1>4. TypeOK
  BY <1>1, <1>2, <1>3, ZenonT(30) DEF Init, TypeOK
<1> QED BY <1>1, <1>4, Zenon DEF Init, IInv, AcceptJobIsOurSet, WaitingOK, DoneOK

\* Every step of Next keeps the invariant and does to the object what it may.
LEMMA NextInv == IInv /\ [Next]_vars => IInv' /\ StepOK
<1> SUFFICES ASSUME IInv, [Next]_vars PROVE IInv' /\ StepOK
  BY SMTT(30)
<1>1. CASE Timer
  BY <1>1, TimerRestInv, Zenon DEF Timer, IInv, TypeOK
<1>2. CASE TimerResumes
  BY <1>2, TimerRestInv, Zenon DEF TimerResumes
<1>3. CASE UNCHANGED vars
  <2>1. c' = c
    BY <1>3 DEF vars
  <2>2. StepOK
    BY <2>1, QuietStep, ZenonT(30) DEF StepOK
  <2> QED BY <1>3, <2>2, Zenon DEF vars, IInv, TypeOK, AcceptJobIsOurSet, WaitingOK, DoneOK, Alive
<1> QED
  BY <1>1, <1>2, <1>3, BeginConsensusInv, TimerChangesViewInv, PeerProposesInv,
     PeerAsksForSetInv, OutsideInv, AcceptInv, EndConsensusInv, AcquireDoneInv,
     OnTimerInv, OnTimerLockedInv, CompleteAcquireInv, SMTT(30) DEF Next

-----------------------------------------------------------------------------
(***************************************************************************)
(* The theorems                                                            *)
(***************************************************************************)

\* The inductive invariant holds in every round, for every number of peers,
\* transactions and ledgers.
THEOREM Invariance == Spec => []IInv
<1>1. Init => IInv
  BY InitInv
<1>2. IInv /\ [Next]_vars => IInv'
  BY NextInv
<1> QED BY <1>1, <1>2, PTL DEF Spec

\* The consensus object is well typed, and no pseudo-transaction of
\* takeinitialposition ever reaches the open ledger.
THEOREM TypeCorrect == Spec => []TypeOK
<1>1. IInv => TypeOK
  BY DEF IInv
<1> QED BY <1>1, Invariance, PTL

\* The running counters of disputedtx always equal the votes they count, and the
\* votes are those of the peers that have a position and follow the sets we hold.
LEMMA VotesInvariance == Spec => [](VoteCountsExact /\ VotesFollowSets)
<1>1. IInv => VoteCountsExact /\ VotesFollowSets
  <2> SUFFICES ASSUME IInv, NEW t \in Disputed(c)
               PROVE  /\ Counted(c.disputes[t])
                      /\ \A p \in Peers :
                            IF p \in Proposers(c)
                            THEN Good(c, c.peers[p].set) =>
                                   c.disputes[t].votes[p] = VoteOf(c.peers[p].set, t)
                            ELSE c.disputes[t].votes[p] = "none"
    BY ZenonT(30) DEF VoteCountsExact, VotesFollowSets
  <2>1. DisputeOK(c, c.disputes[t], t, Nobody)
    BY DEF IInv, RoundOK, VotesOK, Disputed
  <2> QED BY <2>1, ZenonT(30) DEF DisputeOK, Nobody, Proposers, Good
<1> QED BY <1>1, Invariance, PTL

\* setvote and unvote keep yays and nays equal to the votes they count.
THEOREM VotesExact == Spec => []VoteCountsExact
BY VotesInvariance, PTL

\* The vote of a peer follows the set of its position, once we hold that set, and
\* a peer without a position has no vote.
THEOREM VotesFollow == Spec => []VotesFollowSets
BY VotesInvariance, PTL

\* A peer that bowed out has no position until the view changes.
THEOREM DeadPeersStayOut == Spec => []DeadStayOut
<1>1. IInv => DeadStayOut
  BY DEF IInv, RoundOK, DeadOK, DeadStayOut
<1> QED BY <1>1, Invariance, PTL

\* Until we bow out, the votes that updatevote flips agree with the set that we
\* propose.
THEOREM OurVotesAgree == Spec => []OurVoteIsOurSet
<1>1. IInv => OurVoteIsOurSet
  BY Zenon DEF IInv, RoundOK, OursOK, OurVoteIsOurSet
<1> QED BY <1>1, Invariance, PTL

\* We propose only on the network's last closed ledger and never after a bow-out.
THEOREM ProposesInSync == Spec => []ProposingInSync
<1>1. IInv => ProposingInSync
  BY Zenon DEF IInv, RoundOK, SyncOK, ProposingInSync
<1> QED BY <1>1, Invariance, PTL

\* The assertion of accept: the set of the queued job is still our position.
THEOREM AcceptsOurSet == Spec => []AcceptJobIsOurSet
<1>1. IInv => AcceptJobIsOurSet
  BY DEF IInv
<1> QED BY <1>1, Invariance, PTL

\* No acquisition is left behind: one that is over has its completion job queued.
THEOREM AcquisitionsAreResolved == Spec => []AcquisitionsResolve
<1>1. IInv => AcquisitionsResolve
  BY Zenon DEF IInv, RoundOK, AcquiringOK, DoneOK, AcquisitionsResolve
<1> QED BY <1>1, Invariance, PTL

\* What every step does to the consensus object, from the invariant.
LEMMA Steps == Spec => [][StepOK]_vars
<1>1. IInv /\ [Next]_vars => [StepOK]_vars
  BY NextInv, Zenon
<1> QED BY <1>1, Invariance, PTL DEF Spec

\* stateestablish is where our position moves: never in another state, before
\* ledger_min_consensus, or after a bow-out.
THEOREM PositionMoves == Spec => PositionMovesInEstablish
<1>1. StepOK => (c.our # None /\ c'.our # None /\ c'.our.set # c.our.set =>
                   c.state = "establish" /\ ~c.our.bowout /\ c'.ms >= ledger_min_consensus)
  BY ZenonT(30) DEF StepOK, ObjectStep
<1> QED BY <1>1, Steps, PTL DEF PositionMovesInEstablish

\* haveconsensus: a round that does not record a failure ends with more than 80
\* percent of the proposers, us included, at our position.
THEOREM EndsInAgreement == Spec => FinishedMeansAgreement
<1>1. StepOK => (c.state = "establish" /\ c'.state = "finished" /\ ~c'.consensusfail =>
                   (Cardinality(PeersAt(c', c'.our.set)) + 1) * 100
                       > 80 * (Cardinality(Proposers(c')) + 1))
  BY ZenonT(30) DEF StepOK, ObjectStep
<1> QED BY <1>1, Steps, PTL DEF FinishedMeansAgreement

\* updateourpositions: the close time that the round ends with is that of at least
\* half of those who vote on it.
THEOREM EndsWithBackedCloseTime == Spec => CloseTimeBacked
<1>1. StepOK => (c.state = "establish" /\ c'.state = "finished" /\ ~c.our.bowout
                   /\ c'.our.closetime # 0 /\ Proposers(c') # {} =>
                 2 * (Cardinality({p \in Proposers(c') : c'.peers[p].closetime = c'.our.closetime})
                      + (IF c.proposing /\ c.our.closetime = c'.our.closetime THEN 1 ELSE 0))
                     >= Cardinality(Proposers(c')) + (IF c.proposing THEN 1 ELSE 0))
  BY ZenonT(30) DEF StepOK, ObjectStep, Backers, Electorate
<1> QED BY <1>1, Steps, PTL DEF CloseTimeBacked

\* Only handlelcl, which drops the disputes and keeps mcompares, makes a compared
\* set lose its disputes.
THEOREM OnlyViewsLoseDisputes ==
    Spec => [][ComparesOK(c) => ComparesOK(c)' \/ views' = views + 1]_vars
<1>1. StepOK => (ComparesOK(c) => ComparesOK(c)' \/ views' = views + 1)
  BY ZenonT(30) DEF StepOK, ComparesOK, Disputed
<1> QED BY <1>1, Steps, PTL

\* Changes of view are counted.
LEMMA ViewsGrow == [Next]_vars => views' \in {views, views + 1}
<1> SUFFICES ASSUME [Next]_vars, ~TimerChangesView PROVE views' = views
  BY ZenonT(30) DEF TimerChangesView
<1>1. CASE Timer \/ TimerResumes
  BY <1>1, ZenonT(30) DEF Timer, TimerResumes, TimerRest, bounds
<1>2. CASE UNCHANGED vars
  BY <1>2 DEF vars
<1> QED
  BY <1>1, <1>2, ZenonT(30)
     DEF Next, BeginConsensus, PeerProposes, PeerAsksForSet, PositionAges, SubmitTransaction,
         LedgerArrives, Accept, EndConsensus, AcquireDone, OnTimer, OnTimerLocked,
         CompleteAcquire, bounds

\* As long as the view of the last closed ledger has never changed, the sets that
\* createdisputes has compared with ours have all their differences disputed.
THEOREM ComparedSetsDisputed == Spec => [](views = 0 => ComparedAreDisputed)
<1> DEFINE K == views = 0 => ComparesOK(c)
<1>1. Init => K
  BY InitInv
<1>2. IInv /\ K /\ [Next]_vars => K'
  <2> SUFFICES ASSUME IInv, K, [Next]_vars, views' = 0 PROVE ComparesOK(c)'
    OBVIOUS
  <2>1. views \in Nat /\ views' \in {views, views + 1}
    BY ViewsGrow, SMTT(30) DEF IInv, TypeOK
  <2>2. views = 0 /\ ~(views' = views + 1)
    BY <2>1, SMTT(30)
  <2>3. ComparesOK(c) => ComparesOK(c')
    BY <2>2, NextInv, Zenon DEF StepOK
  <2> QED BY <2>2, <2>3, ZenonT(30) DEF ComparesOK, Disputed
<1>3. K => (views = 0 => ComparedAreDisputed)
  BY Zenon DEF ComparesOK, ComparedAreDisputed
<1> HIDE DEF K
<1> QED BY <1>1, <1>2, <1>3, Invariance, PTL DEF Spec

\* accept: a disputed transaction that is not in the accepted set is tried on the
\* next open ledger, unless we have bowed out.
THEOREM DisputedAreRetried == Spec => []DisputedNotLost
<1>1. IInv => DisputedNotLost
  <2> SUFFICES ASSUME IInv, acceptjob # None, Alive, ~c.our.bowout, NEW t \in Disputed(c),
                      t \notin acceptjob
               PROVE  t \in Retried(c, open)
    BY ZenonT(30) DEF DisputedNotLost
  <2>1. c.our # None /\ acceptjob = c.our.set
    BY ZenonT(30) DEF IInv, AcceptJobIsOurSet, RoundOK, StateOK
  <2>2. ~c.disputes[t].ourvote
    BY <2>1, ZenonT(30) DEF IInv, RoundOK, OursOK
  <2> QED BY <2>2, Zenon DEF Retried
<1> QED BY <1>1, Invariance, PTL

\* The node ends in an assertion, a null set or abort() only if a set that was
\* asked for could not be acquired.
THEOREM StopsOnlyOnFailedSet == Spec => []StopsOnFailedSet
<1>1. IInv => StopsOnFailedSet
  BY Zenon DEF IInv, RoundOK, StopOK, StopsOnFailedSet, Alive
<1> QED BY <1>1, Invariance, PTL
-----------------------------------------------------------------------------
(***************************************************************************)
(* A round whose peers have fallen silent                                  *)
(***************************************************************************)

\* updatevote: a dispute on which nobody votes keeps our vote.
LEMMA NobodyVotes ==
    ASSUME NEW d \in Dispute, Counted(d), \A p \in Peers : d.votes[p] = "none",
           NEW pct, NEW proposing
    PROVE  UpdateVote(d, pct, proposing) = d
<1>1. Voters(d, "yes") = {} /\ Voters(d, "no") = {}
  BY DEF Voters
<1>2. d.yays = 0 /\ d.nays = 0 /\ d.ourvote \in BOOLEAN
  BY <1>1, FS_EmptySet DEF Counted, Dispute
<1> QED BY <1>2, ZenonT(30) DEF UpdateVote

\* What a change of one or several fields of the object leaves alone.
LEMMA RoundTimes ==
    ASSUME NEW x \in ConsensusObject
    PROVE  /\ \A pp, ds : LET y == [x EXCEPT !.peers = pp, !.disputes = ds]
                          IN y.previousms = x.previousms /\ y.previousproposers = x.previousproposers
           /\ x.previousms \in Nat /\ x.previousproposers \in Nat /\ x.ms \in Nat
BY DEF ConsensusObject

\* updateourpositions: once every position has gone stale we are left with our own
\* votes and our own close time, which is then agreed.
LEMMA SilentUpdate ==
    ASSUME NEW x, RoundOK(x), x.state = "establish",
           NEW stale, stale \subseteq Peers, Proposers(x) \subseteq stale,
           NEW ourstale \in BOOLEAN
    PROVE  LET y == UpdateOurPositions(x, stale, ourstale)
           IN y.state # "crashed" =>
                /\ y.havect = TRUE /\ Proposers(y) = {} /\ y.our.set = x.our.set
                /\ y.previousms = x.previousms
<1> DEFINE y == UpdateOurPositions(x, stale, ourstale)
<1> SUFFICES ASSUME y.state # "crashed"
             PROVE  /\ y.havect = TRUE /\ Proposers(y) = {} /\ y.our.set = x.our.set
                    /\ y.previousms = x.previousms
  BY Zenon
<1> DEFINE x1      == DropPeers(x, stale)
           ds      == [t \in Txs |-> IF x1.disputes[t] = None THEN None
                                     ELSE UpdateVote(x1.disputes[t], ClosePercent(x), x.proposing)]
           x2      == [x1 EXCEPT !.disputes = ds]
           changed == {t \in Disputed(x1) : x2.disputes[t].ourvote # x1.disputes[t].ourvote}
           s       == {t \in Txs : IF t \in changed THEN x2.disputes[t].ourvote ELSE t \in x.our.set}
           vote    == CloseTimeVote(x2)
           x3      == [x2 EXCEPT !.havect = vote.agreed]
           x4      == [x3 EXCEPT !.our = [set |-> s, closetime |-> vote.time, bowout |-> FALSE]]
<1>0. x \in ConsensusObject /\ x.our # None /\ x.our \in Position
  BY Fields, ZenonT(30) DEF RoundOK, VotesOK, StateOK
<1>1. /\ VotesOK(x1, Nobody) /\ x1 \in ConsensusObject /\ Proposers(x1) = {}
      /\ x1.our = x.our /\ x1.acquired = x.acquired
  <2>1. VotesOK(x, Nobody)
    BY DEF RoundOK
  <2>0. x1 = DropPeers(x, stale)
    OBVIOUS
  <2> HIDE DEF x1
  <2>2. /\ VotesOK(x1, Nobody) /\ SameView(x, x1) /\ x1.acquired = x.acquired
        /\ Proposers(x1) = Proposers(x) \ stale
    BY <2>0, <2>1, DropPeersOK, SMTT(30)
  <2> QED BY <2>2, ZenonT(30) DEF VotesOK, SameView
<1>t. x1.previousms = x.previousms /\ x1.previousproposers = x.previousproposers
  BY <1>0, RoundTimes, ZenonT(90) DEF DropPeers
<1>5. y = IF changed = {} /\ vote.time = x.our.closetime /\ ~ourstale THEN x3
          ELSE IF ~Good(x, x.our.set) THEN Crash(x)
          ELSE IF x.our.bowout THEN x3
          ELSE MapComplete(x4, s)
  BY ZenonT(60) DEF UpdateOurPositions
<1> HIDE DEF x1, y
<1>2. ds = x1.disputes
  <2>1. x1.disputes \in [Txs -> Dispute \cup {None}]
    BY <1>1, Fields
  <2>2. ASSUME NEW t \in Txs, x1.disputes[t] # None
        PROVE  UpdateVote(x1.disputes[t], ClosePercent(x), x.proposing) = x1.disputes[t]
    <3>1. DisputeOK(x1, x1.disputes[t], t, Nobody)
      BY <1>1, <2>2 DEF VotesOK
    <3>2. x1.disputes[t] \in Dispute /\ Counted(x1.disputes[t])
      BY <3>1 DEF DisputeOK
    <3>3. \A p \in Peers : x1.disputes[t].votes[p] = "none"
      BY <1>1, <3>1, ZenonT(30) DEF DisputeOK, Proposers
    <3> QED BY <3>2, <3>3, NobodyVotes, ZenonT(30)
  <2>3. \A t \in Txs : ds[t] = x1.disputes[t]
    BY <2>2, ZenonT(30)
  <2> HIDE DEF ds
  <2>4. ds = [t \in Txs |-> ds[t]]
    BY ZenonT(30) DEF ds
  <2> QED BY <2>1, <2>3, <2>4
<1> HIDE DEF ds
<1>3. /\ x2 \in ConsensusObject /\ Proposers(x2) = {} /\ x2.our = x.our
      /\ x2.acquired = x.acquired /\ x2.disputes = x1.disputes
      /\ x2.previousms = x.previousms /\ x2.previousproposers = x.previousproposers
  <2>1. x2 = [x1 EXCEPT !.disputes = x1.disputes]
    BY <1>2, Zenon
  <2>2. x2 = x1
    BY <1>1, <2>1 DEF ConsensusObject
  <2> QED BY <1>1, <1>t, <2>2, Zenon
<1> HIDE DEF x2
<1>4. changed = {} /\ s = x.our.set
  <2>1. changed = {}
    BY <1>3, ZenonT(30)
  <2> HIDE DEF changed
  <2> QED BY <1>0, <2>1, ZenonT(30) DEF Position, TxSet
<1>6. vote.agreed = TRUE /\ vote.time = x.our.closetime
  BY <1>3, ZenonT(30) DEF CloseTimeVote
<1> HIDE DEF changed, s, vote
<1>7. /\ x3 \in ConsensusObject /\ x3.havect = TRUE /\ x3.our = x.our /\ x3.peers = x2.peers
      /\ x3.acquired = x.acquired
      /\ x3.previousms = x.previousms /\ x3.previousproposers = x.previousproposers
  BY <1>3, <1>6, ZenonT(30) DEF ConsensusObject
<1> HIDE DEF x3
<1>8. CASE y = x3
  BY <1>3, <1>7, <1>8, ZenonT(30) DEF Proposers
<1>9. CASE y = MapComplete(x4, s) /\ Good(x, x.our.set)
  <2>1. /\ x4.havect = TRUE /\ x4.our.set = x.our.set /\ x4.peers = x2.peers
        /\ x4.acquired = x.acquired
        /\ x4.previousms = x.previousms /\ x4.previousproposers = x.previousproposers
        /\ DOMAIN x4 = DOMAIN x3
    BY <1>4, <1>7, SMTT(30) DEF ConsensusObject
  <2> HIDE DEF x4
  <2>2. Good(x4, s)
    BY <1>4, <1>9, <2>1, ZenonT(30) DEF Good
  <2>3. y = [x4 EXCEPT !.acquiring[s] = "no"]
    BY <1>9, <2>2, ZenonT(30) DEF MapComplete
  <2>4. /\ y.havect = x4.havect /\ y.our = x4.our /\ y.peers = x4.peers
        /\ y.previousms = x4.previousms /\ y.previousproposers = x4.previousproposers
    BY <1>7, <2>1, <2>3, SMTT(30) DEF ConsensusObject
  <2> QED BY <1>3, <2>1, <2>4, ZenonT(30) DEF Proposers
<1>10. Crash(x).state = "crashed"
  BY <1>0 DEF Crash, ConsensusObject
<1> QED BY <1>5, <1>8, <1>9, <1>10, ZenonT(30)

\* haveconsensus: alone, and after the time it gives to missing proposers, we agree
\* with ourselves.
LEMMA SilentVerdict ==
    ASSUME NEW x, Proposers(x) = {}, NEW finished,
           x.ms \in Nat, x.previousms \in Nat, x.ms > ledger_min_consensus,
           x.ms >= x.previousms + ledger_min_consensus
    PROVE  Verdict(x, finished) = "yes"
<1>1. PeersAt(x, x.our.set) = {}
  BY DEF PeersAt
<1>2. Cardinality(Proposers(x)) = 0 /\ Cardinality(PeersAt(x, x.our.set)) = 0
  BY <1>1, FS_EmptySet, Zenon
<1>3. Verdict(x, finished)
        = HaveConsensus(x.previousproposers, 0, 0, finished, x.previousms, x.ms)
  BY <1>2, Zenon DEF Verdict
<1>4. ~(x.ms <= ledger_min_consensus) /\ ~(x.ms < x.previousms + ledger_min_consensus)
  BY DEF ledger_min_consensus
<1>5. (0 * 100 + 100) \div (0 + 1) > 80
  OBVIOUS
<1> QED BY <1>3, <1>4, <1>5, Zenon DEF HaveConsensus

\* stateestablish: the object keeps the age of the round that the timer call read.
LEMMA EstablishMs ==
    ASSUME IInv, NEW x, RoundOK(x), x.state = "establish", Establish(x)
    PROVE  c'.ms = x.ms
<1>0. x \in ConsensusObject /\ aged \subseteq Peers
  BY SMTT(30) DEF RoundOK, VotesOK, IInv, TypeOK
<1> DEFINE Outcome(ourstale, verdict) ==
          \/ c' = x
          \/ c' = UpdateOurPositions(x, aged, ourstale)
          \/ /\ UpdateOurPositions(x, aged, ourstale).state # "crashed"
             /\ \/ c' = Judge(UpdateOurPositions(x, aged, ourstale), verdict)
                \/ c' = Crash(Judge(UpdateOurPositions(x, aged, ourstale), verdict))
                \/ c' = [Judge(UpdateOurPositions(x, aged, ourstale), verdict)
                           EXCEPT !.state = "finished"]
<1>s. PICK ourstale \in BOOLEAN : \E verdict : Outcome(ourstale, verdict)
  BY ZenonT(90) DEF Establish, Become
<1>1. PICK verdict : Outcome(ourstale, verdict)
  BY <1>s, Zenon
<1>2. PICK y : y = UpdateOurPositions(x, aged, ourstale)
  BY Zenon
<1>3. RoundOK(y) /\ y.ms = x.ms /\ y.state \in {"establish", "crashed"}
  BY <1>0, <1>2, UpdateOurPositionsOK, ZenonT(30)
<1>4. CASE y.state # "crashed"
  <2>1. PICK z : z = Judge(y, verdict)
    BY Zenon
  <2>2. y.our # None
    BY <1>3, <1>4, ZenonT(30) DEF RoundOK, StateOK
  <2>3. RoundOK(z) /\ SameRound(y, z)
    BY <1>3, <2>1, <2>2, JudgeOK, ZenonT(30)
  <2>4. z \in ConsensusObject /\ z.ms = x.ms
    BY <1>3, <2>3, ZenonT(30) DEF RoundOK, VotesOK, SameRound, SameView
  <2>5. Crash(z).ms = z.ms /\ [z EXCEPT !.state = "finished"].ms = z.ms
    BY <2>4, ZenonT(30) DEF Crash, ConsensusObject
  <2> QED BY <1>1, <1>2, <1>3, <2>1, <2>4, <2>5, ZenonT(30)
<1> QED BY <1>1, <1>2, <1>3, <1>4, ZenonT(30)

\* stateestablish and beginaccept, when every position has gone stale.
LEMMA SilentEstablish ==
    ASSUME IInv, NEW x, RoundOK(x), x.state = "establish", Proposers(x) \subseteq aged,
           x.ms > ledger_min_consensus, x.ms >= x.previousms + ledger_min_consensus,
           Establish(x)
    PROVE  \/ c'.state = "crashed"
           \/ c'.state = "finished" /\ ~c'.consensusfail /\ acceptjob' = x.our.set
<1>0. x \in ConsensusObject /\ x.ms \in Nat /\ x.previousms \in Nat /\ aged \subseteq Peers
  <2>1. x \in ConsensusObject
    BY Zenon DEF RoundOK, VotesOK
  <2> QED BY <2>1, RoundTimes, SMTT(30) DEF IInv, TypeOK
<1>1. PICK ourstale \in BOOLEAN, finished \in Moved :
        LET x1      == UpdateOurPositions(x, aged, ourstale)
            verdict == Verdict(x1, finished)
            x2      == Judge(x1, verdict)
            done    == x1.havect /\ verdict # "no"
        IN /\ IF x.ms < ledger_min_consensus
              THEN Become(x) /\ UNCHANGED <<aged, acceptjob, lastclose>>
              ELSE IF x1.state = "crashed"
              THEN Become(x1) /\ UNCHANGED <<aged, acceptjob, lastclose>>
              ELSE IF ~done
              THEN Become(x2) /\ aged' = {} /\ UNCHANGED <<acceptjob, lastclose>>
              ELSE IF ~Good(x2, x2.our.set)
              THEN Become(Crash(x2)) /\ UNCHANGED <<aged, acceptjob, lastclose>>
              ELSE /\ Become([x2 EXCEPT !.state = "finished"])
                   /\ aged' = {}
                   /\ acceptjob' = x2.our.set
                   /\ lastclose' = [proposers |-> Cardinality(Proposers(x2)), ms |-> x.ms]
           /\ UNCHANGED open
  BY ZenonT(90) DEF Establish
<1> DEFINE x1      == UpdateOurPositions(x, aged, ourstale)
           verdict == Verdict(x1, finished)
           x2      == Judge(x1, verdict)
           done    == x1.havect /\ verdict # "no"
           fin     == [x2 EXCEPT !.state = "finished"]
<1>2. RoundOK(x1) /\ x1.ms = x.ms /\ x1.state \in {"establish", "crashed"}
  BY <1>0, UpdateOurPositionsOK, ZenonT(30)
<1>3. x1.state # "crashed" =>
        /\ x1.havect = TRUE /\ Proposers(x1) = {} /\ x1.our.set = x.our.set
        /\ x1.previousms = x.previousms
  BY <1>0, SilentUpdate, ZenonT(30)
<1>4. \/ c' = x1 /\ x1.state = "crashed"
      \/ x1.state # "crashed" /\ ~done
      \/ x1.state # "crashed" /\ c' = Crash(x2)
      \/ x1.state # "crashed" /\ c' = fin /\ acceptjob' = x2.our.set
  <2>1. ~(x.ms < ledger_min_consensus)
    BY <1>0 DEF ledger_min_consensus
  <2>2. IF x.ms < ledger_min_consensus
        THEN Become(x) /\ UNCHANGED <<aged, acceptjob, lastclose>>
        ELSE IF x1.state = "crashed"
        THEN Become(x1) /\ UNCHANGED <<aged, acceptjob, lastclose>>
        ELSE IF ~done
        THEN Become(x2) /\ aged' = {} /\ UNCHANGED <<acceptjob, lastclose>>
        ELSE IF ~Good(x2, x2.our.set)
        THEN Become(Crash(x2)) /\ UNCHANGED <<aged, acceptjob, lastclose>>
        ELSE /\ Become(fin) /\ aged' = {}
             /\ acceptjob' = x2.our.set
             /\ lastclose' = [proposers |-> Cardinality(Proposers(x2)), ms |-> x.ms]
    BY <1>1, SMTT(30)
  <2> HIDE DEF x1, x2, done, fin
  <2> QED BY <2>1, <2>2, ZenonT(30) DEF Become
<1> HIDE DEF x1
<1>5. CASE x1.state # "crashed"
  <2>1. verdict = "yes"
    BY <1>0, <1>2, <1>3, <1>5, SilentVerdict, SMTT(30)
  <2>2. x1.our # None
    BY <1>2, <1>5, ZenonT(30) DEF RoundOK, StateOK
  <2> HIDE DEF verdict
  <2>3. RoundOK(x2) /\ SameRound(x1, x2) /\ (x2.consensusfail <=> verdict = "failed")
    <3>1. verdict # "no"
      BY <2>1
    <3> QED BY <1>2, <2>2, <3>1, JudgeOK, ZenonT(30)
  <2>4. done
    BY <1>3, <1>5, <2>1, Zenon
  <2> HIDE DEF x2, done
  <2>5. x2 \in ConsensusObject /\ x2.our = x1.our /\ ~x2.consensusfail
    BY <2>1, <2>3, ZenonT(30) DEF RoundOK, VotesOK, SameRound, SameView
  <2>6. /\ Crash(x2).state = "crashed"
        /\ fin.state = "finished" /\ fin.consensusfail = x2.consensusfail
    BY <2>5, ZenonT(30) DEF Crash, ConsensusObject
  <2> HIDE DEF fin
  <2> QED BY <1>3, <1>4, <1>5, <2>4, <2>5, <2>6, ZenonT(30)
<1> QED BY <1>4, <1>5, ZenonT(30)

\* When the peers have fallen silent the round ends, whatever they said before: the
\* first timer call that finds every position stale, and the round older than the
\* minimum and than the last round plus the minimum, accepts the set that we propose
\* (or the node stops, which it does only over a set that it could not acquire).  This
\* is the step on which RoundEnds rests: no dispute, close time or missing proposer
\* that the silent peers left behind can hold the round back.
THEOREM SilentRoundEnds ==
    Spec => [][ (Timer \/ TimerResumes) /\ c.state = "establish" /\ Proposers(c) \subseteq aged
                  /\ c'.ms > ledger_min_consensus
                  /\ c'.ms >= c.previousms + ledger_min_consensus
                => \/ c'.state = "crashed"
                   \/ c'.state = "finished" /\ ~c'.consensusfail /\ acceptjob' = c.our.set ]_vars
<1> DEFINE Silent == /\ (Timer \/ TimerResumes) /\ c.state = "establish"
                     /\ Proposers(c) \subseteq aged
                     /\ c'.ms > ledger_min_consensus
                     /\ c'.ms >= c.previousms + ledger_min_consensus
           Ends   == \/ c'.state = "crashed"
                     \/ c'.state = "finished" /\ ~c'.consensusfail /\ acceptjob' = c.our.set
<1>1. IInv /\ IInv' => (Silent => Ends)
  <2> SUFFICES ASSUME IInv, IInv', Silent PROVE Ends
    BY Zenon
  <2>1. PICK x : x = SwitchLedger(c, held)
    BY SMTT(30)
  <2>2. RoundOK(x) /\ x.state = "establish" /\ x.our = c.our /\ x.peers = c.peers
    BY <2>1, SwitchLedgerOK DEF IInv, TypeOK
  <2>3. x.previousms = c.previousms
    <3>1. c \in ConsensusObject
      BY DEF IInv, TypeOK
    <3>2. \/ x = c
          \/ x = [c EXCEPT !.previousledger = c.prevledgerhash, !.havecorrectlcl = TRUE]
          \/ x = [c EXCEPT !.acquiringledger = c.prevledgerhash, !.havecorrectlcl = FALSE]
      BY <2>1 DEF SwitchLedger
    <3> QED BY <3>1, <3>2, ZenonT(30) DEF ConsensusObject
  <2>4. PICK m \in LaterTimes : Establish([x EXCEPT !.ms = m])
    BY <2>1, <2>2 DEF Timer, TimerResumes, TimerRest
  <2>5. PICK y : y = [x EXCEPT !.ms = m]
    BY ZenonT(30)
  <2>6. m \in Nat
    BY ConsensusAssumption DEF LaterTimes
  <2>7. RoundOK(y) /\ y.state = "establish" /\ y.our = c.our /\ y.ms = m
    BY <2>2, <2>5, <2>6, ClockOK, SMTT(30)
  <2>8. y.peers = c.peers /\ y.previousms = c.previousms
    <3>1. x \in ConsensusObject
      BY <2>2, Zenon DEF RoundOK, VotesOK
    <3> QED BY <2>2, <2>3, <2>5, <3>1, ZenonT(30) DEF ConsensusObject
  <2>9. Establish(y) /\ Proposers(y) \subseteq aged
    BY <2>4, <2>5, <2>8, Zenon DEF Proposers
  <2>10. c'.ms = m
    BY <2>7, <2>9, EstablishMs, ZenonT(30)
  <2> QED BY <2>7, <2>8, <2>9, <2>10, SilentEstablish, ZenonT(30)
<1> HIDE DEF Silent, Ends
<1>2. Spec => [][Silent => Ends]_vars
  BY <1>1, Invariance, PTL
<1> QED BY <1>2, PTL DEF Silent, Ends

-----------------------------------------------------------------------------
(***************************************************************************)
(* The avalanche does not flap                                             *)
(***************************************************************************)

\* The share of yes votes does not fall when the yes votes grow.
LEMMA DivMonotone ==
    ASSUME NEW a \in Nat, NEW b \in Nat, a <= b, NEW d \in Nat, d >= 1
    PROVE  a \div d <= b \div d /\ a \div d \in Nat /\ b \div d \in Nat
<1>1. PICK q \in Int, r \in Int : a = d * q + r /\ 0 <= r /\ r < d /\ q = a \div d
  BY SMTT(30)
<1>2. PICK u \in Int, v \in Int : b = d * u + v /\ 0 <= v /\ v < d /\ u = b \div d
  BY SMTT(30)
<1>3. ASSUME u < q PROVE FALSE
  <2>1. PICK k \in Nat : q = u + 1 + k
    <3>1. q - u - 1 \in Nat
      BY <1>3
    <3> QED BY <3>1
  <2>2. d * q = d * u + d + d * k
    BY <2>1, SMTT(30)
  <2>3. d * k >= 0
    BY SMTT(30)
  <2>4. d * u \in Int /\ d * k \in Int /\ d * q \in Int
    OBVIOUS
  <2> HIDE <2>1
  <2> QED BY <1>1, <1>2, <2>2, <2>3, <2>4, SMTT(30)
<1>4. q >= 0 /\ u >= 0
  BY <1>1, <1>2, SMTT(30)
<1> QED BY <1>1, <1>2, <1>3, <1>4

\* What updatevote computes: the yes votes in percent, ours included, and our new vote.
Weight(d, ours) == (d.yays * 100 + (IF ours THEN 100 ELSE 0)) \div (d.nays + d.yays + 1)

NewVote(d, pct, proposing) ==
    IF proposing THEN Weight(d, d.ourvote) > NeededPct(pct) ELSE d.yays > d.nays

Unopposed(d) == (d.ourvote /\ d.nays = 0) \/ (~d.ourvote /\ d.yays = 0)

\* updatevote in these terms.
LEMMA UpdateVoteIs ==
    ASSUME NEW d, NEW pct, NEW proposing
    PROVE  UpdateVote(d, pct, proposing)
             = IF Unopposed(d) THEN d ELSE [d EXCEPT !.ourvote = NewVote(d, pct, proposing)]
BY Zenon DEF UpdateVote, Unopposed, NewVote, Weight

\* A dispute whose vote is what updatevote would make it stays as it is.
LEMMA VoteStays ==
    ASSUME NEW d \in Dispute, NEW pct, NEW proposing,
           Unopposed(d) \/ NewVote(d, pct, proposing) = d.ourvote
    PROVE  UpdateVote(d, pct, proposing) = d
<1>1. [d EXCEPT !.ourvote = d.ourvote] = d
  BY DEF Dispute
<1> QED BY <1>1, UpdateVoteIs, Zenon

\* The share that the avalanche asks for never falls as the round grows older.
LEMMA NeededGrows ==
    ASSUME NEW p \in Nat, NEW q \in Nat, p <= q
    PROVE  NeededPct(p) <= NeededPct(q) /\ NeededPct(p) \in Nat /\ NeededPct(q) \in Nat
BY DEF NeededPct, av_init_consensus_pct, av_mid_consensus_time, av_mid_consensus_pct,
       av_late_consensus_time, av_late_consensus_pct, av_stuck_consensus_time,
       av_stuck_consensus_pct

\* Our vote does not flap: on the same votes a second call of updatevote changes
\* nothing, although our own vote counts in the share that it follows; and a
\* transaction that we dropped is not taken back later in the round, when the share
\* that it needs has risen, unless a peer changes its vote.
THEOREM VoteSettles ==
    ASSUME NEW d \in Dispute, Counted(d), NEW proposing \in BOOLEAN,
           NEW pct \in Nat, NEW later \in Nat, pct <= later
    PROVE  LET e == UpdateVote(d, pct, proposing)
           IN /\ UpdateVote(e, pct, proposing) = e
              /\ ~e.ourvote => UpdateVote(e, later, proposing) = e
<1> DEFINE e == UpdateVote(d, pct, proposing)
<1>0. IsFiniteSet(Peers)
  BY ConsensusAssumption
<1>1. /\ d.yays \in Nat /\ d.nays \in Nat /\ d.ourvote \in BOOLEAN
      /\ e \in Dispute
  BY <1>0, VotersFinite, FS_CardinalityType, UpdateVoteCounted, ZenonT(90) DEF Counted, Dispute
<1>2. NeededPct(pct) <= NeededPct(later) /\ NeededPct(pct) \in Nat /\ NeededPct(later) \in Nat
  BY NeededGrows
<1>3. /\ Weight(d, FALSE) <= Weight(d, TRUE) /\ Weight(d, FALSE) \in Nat /\ Weight(d, TRUE) \in Nat
  <2>1. /\ d.yays * 100 + 0 \in Nat /\ d.yays * 100 + 100 \in Nat
        /\ d.yays * 100 + 0 <= d.yays * 100 + 100
        /\ d.nays + d.yays + 1 \in Nat /\ d.nays + d.yays + 1 >= 1
    BY <1>1
  <2>2. /\ (d.yays * 100 + 0) \div (d.nays + d.yays + 1)
             <= (d.yays * 100 + 100) \div (d.nays + d.yays + 1)
        /\ (d.yays * 100 + 0) \div (d.nays + d.yays + 1) \in Nat
        /\ (d.yays * 100 + 100) \div (d.nays + d.yays + 1) \in Nat
    BY <2>1, DivMonotone, ZenonT(90)
  <2> QED BY <2>2, Zenon DEF Weight
<1>w. PICK low \in Nat, high \in Nat : low = Weight(d, FALSE) /\ high = Weight(d, TRUE)
  BY <1>3, Zenon
<1>l. low <= high
  BY <1>3, <1>w, Zenon
<1>o. PICK w \in {low, high} : w = Weight(d, d.ourvote)
  BY <1>1, <1>w, Zenon
<1>4. CASE Unopposed(d)
  <2>1. e = d
    BY <1>4, UpdateVoteIs, Zenon
  <2> QED BY <1>4, <2>1, VoteStays, Zenon
<1>5. CASE ~Unopposed(d)
  <2>1. e = [d EXCEPT !.ourvote = NewVote(d, pct, proposing)]
    BY <1>5, UpdateVoteIs, Zenon
  <2> HIDE DEF e
  <2>2. e.yays = d.yays /\ e.nays = d.nays /\ e.ourvote = NewVote(d, pct, proposing)
    BY <2>1, ZenonT(30) DEF Dispute
  <2>3. Weight(e, FALSE) = Weight(d, FALSE) /\ Weight(e, TRUE) = Weight(d, TRUE)
    BY <2>2, Zenon DEF Weight
  <2>4. CASE ~proposing
    <3>1. \A p : NewVote(e, p, proposing) = e.ourvote
      BY <2>2, <2>4, Zenon DEF NewVote
    <3> QED BY <1>1, <3>1, VoteStays, ZenonT(30) DEF e
  <2>5. CASE proposing /\ e.ourvote
    <3>1. w > NeededPct(pct)
      BY <1>o, <2>2, <2>5, Zenon DEF NewVote
    <3>2. high > NeededPct(pct)
      BY <1>2, <1>l, <3>1
    <3>3. Weight(d, TRUE) > NeededPct(pct)
      BY <1>w, <3>2, Zenon
    <3>4. e.ourvote = TRUE
      BY <1>1, <2>5 DEF Dispute
    <3>5. NewVote(e, pct, proposing) = e.ourvote
      BY <2>3, <2>5, <3>3, <3>4, Zenon DEF NewVote
    <3> QED BY <1>1, <2>5, <3>5, VoteStays, ZenonT(30) DEF e
  <2>6. CASE proposing /\ ~e.ourvote
    <3>1. ~(w > NeededPct(pct))
      BY <1>o, <2>2, <2>6, Zenon DEF NewVote
    <3>2. (low > NeededPct(pct)) = FALSE /\ (low > NeededPct(later)) = FALSE
      BY <1>2, <1>l, <3>1
    <3>3. (Weight(e, FALSE) > NeededPct(pct)) = FALSE /\ (Weight(e, FALSE) > NeededPct(later)) = FALSE
      BY <1>w, <2>3, <3>2, Zenon
    <3>4. e.ourvote = FALSE
      BY <1>1, <2>6 DEF Dispute
    <3>5. NewVote(e, pct, proposing) = e.ourvote
      BY <2>6, <3>3, <3>4, Zenon DEF NewVote
    <3>6. NewVote(e, later, proposing) = e.ourvote
      BY <2>6, <3>3, <3>4, Zenon DEF NewVote
    <3> QED BY <1>1, <3>5, <3>6, VoteStays, ZenonT(30) DEF e
  <2> QED BY <2>4, <2>5, <2>6, Zenon
<1> QED BY <1>4, <1>5, Zenon

-----------------------------------------------------------------------------
(***************************************************************************)
(* What the agreement of two nodes needs                                   *)
(***************************************************************************)

\* The nodes whose position the object x of the node n counts, n among them, and
\* what it has each of them say.
Heard(x, n) == Proposers(x) \cup {n}

Says(x, n, p) == IF p = n THEN x.our.set ELSE x.peers[p].set

\* The agreement with which haveconsensus ends a round (FinishedMeansAgreement).
Agreed(x) ==
    (Cardinality(PeersAt(x, x.our.set)) + 1) * 100 > 80 * (Cardinality(Proposers(x)) + 1)

\* Of the nodes heard, fewer than one in five say something else.
LEMMA FewDissent ==
    ASSUME NEW x, NEW n, n \notin Proposers(x), Agreed(x)
    PROVE  LET dissent == {p \in Heard(x, n) : Says(x, n, p) # x.our.set}
           IN /\ IsFiniteSet(Heard(x, n)) /\ IsFiniteSet(dissent)
              /\ Cardinality(Heard(x, n)) \in Nat /\ Cardinality(dissent) \in Nat
              /\ 5 * Cardinality(dissent) < Cardinality(Heard(x, n))
<1> DEFINE P == Proposers(x)
           Q == PeersAt(x, x.our.set)
           D == {p \in Heard(x, n) : Says(x, n, p) # x.our.set}
<1>1. IsFiniteSet(P) /\ Cardinality(P) \in Nat
  <2>1. P \subseteq Peers /\ IsFiniteSet(Peers)
    BY ConsensusAssumption DEF Proposers
  <2> QED BY <2>1, FS_Subset, FS_CardinalityType
<1>2. Q \subseteq P /\ D = P \ Q
  BY DEF PeersAt, Heard, Says
<1>3. IsFiniteSet(Q) /\ Cardinality(Q) \in Nat
  BY <1>1, <1>2, FS_Subset, FS_CardinalityType
<1>4. Cardinality(Heard(x, n)) = Cardinality(P) + 1 /\ IsFiniteSet(Heard(x, n))
  BY <1>1, FS_AddElement DEF Heard
<1>5. (Cardinality(Q) + 1) * 100 > 80 * (Cardinality(P) + 1)
  BY DEF Agreed
<1> HIDE DEF P, Q, D
<1>6. IsFiniteSet(D) /\ Cardinality(D) \in Nat /\ Cardinality(D) = Cardinality(P) - Cardinality(Q)
  <2>1. P \cap Q = Q
    BY <1>2
  <2> QED BY <1>1, <1>2, <2>1, FS_Difference, FS_CardinalityType, ZenonT(60)
<1>7. 5 * Cardinality(D) < Cardinality(P) + 1
  BY <1>1, <1>3, <1>5, <1>6
<1>8. Cardinality(Heard(x, n)) \in Nat /\ 5 * Cardinality(D) < Cardinality(Heard(x, n))
  BY <1>1, <1>4, <1>7
<1> QED BY <1>4, <1>6, <1>8, Zenon DEF D

\* Two nodes that both end a round with an agreement end it with the same set, if
\* those that both have heard said the same to both and are at least a fifth of what
\* the two have heard, taken together: 80 of a hundred is enough for that, and nothing
\* else in the round need be the same.  (Nodes that hear the same nodes, themselves
\* included, meet the condition.)
THEOREM OverlapAgrees ==
    ASSUME NEW x, NEW m, m \notin Proposers(x), Agreed(x),
           NEW y, NEW n, n \notin Proposers(y), Agreed(y),
           \A p \in Heard(x, m) \cap Heard(y, n) : Says(x, m, p) = Says(y, n, p),
           5 * Cardinality(Heard(x, m) \cap Heard(y, n))
             >= Cardinality(Heard(x, m)) + Cardinality(Heard(y, n))
    PROVE  x.our.set = y.our.set
<1> DEFINE A == Heard(x, m)
           B == Heard(y, n)
           D == {p \in A : Says(x, m, p) # x.our.set}
           E == {p \in B : Says(y, n, p) # y.our.set}
<1>1. /\ IsFiniteSet(A) /\ IsFiniteSet(D) /\ Cardinality(A) \in Nat /\ Cardinality(D) \in Nat
      /\ 5 * Cardinality(D) < Cardinality(A)
  BY FewDissent, Zenon
<1>2. /\ IsFiniteSet(B) /\ IsFiniteSet(E) /\ Cardinality(B) \in Nat /\ Cardinality(E) \in Nat
      /\ 5 * Cardinality(E) < Cardinality(B)
  BY FewDissent, Zenon
<1>3. ASSUME x.our.set # y.our.set PROVE FALSE
  <2>1. A \cap B \subseteq D \cup E
    BY <1>3
  <2>2. 5 * Cardinality(A \cap B) >= Cardinality(A) + Cardinality(B)
    OBVIOUS
  <2> HIDE DEF A, B, D, E
  <2>3. /\ IsFiniteSet(D \cup E) /\ Cardinality(D \cup E) \in Nat
        /\ Cardinality(D \cup E) <= Cardinality(D) + Cardinality(E)
    <3>1. /\ IsFiniteSet(D \cup E)
          /\ Cardinality(D \cup E) = Cardinality(D) + Cardinality(E) - Cardinality(D \cap E)
      BY <1>1, <1>2, FS_Union
    <3>2. Cardinality(D \cap E) \in Nat
      BY <1>1, FS_Intersection, FS_CardinalityType, ZenonT(60)
    <3> QED BY <1>1, <1>2, <3>1, <3>2, FS_CardinalityType
  <2>4. Cardinality(A \cap B) \in Nat /\ Cardinality(A \cap B) <= Cardinality(D \cup E)
    BY <2>1, <2>3, FS_Subset, FS_CardinalityType
  <2> QED BY <1>1, <1>2, <2>2, <2>3, <2>4
<1> QED BY <1>3

-----------------------------------------------------------------------------
(***************************************************************************)
(* The heartbeat                                                           *)
(***************************************************************************)

\* The rounds under the heartbeat timer are rounds of this specification, so that
\* what is proved here of every timer call holds under the timer's schedule too.
THEOREM HeartbeatImplements == HbSpec => Spec
<1>1. [Heartbeat \/ Others]_hbvars => [Next]_vars
    BY Zenon DEF Heartbeat, Others, Next, hbvars
<1> QED
    BY <1>1, PTL DEF HbSpec, Spec
=============================================================================
