---------------------------- MODULE LedgerMaster ----------------------------
(***************************************************************************)
(* How a node decides that a ledger is fully validated, and how it         *)
(* publishes validated ledgers in order (app/ledger/LedgerMaster.cpp), with*)
(* the validations it counts (app/misc/Validations.cpp) and the ledgers it *)
(* fetches (app/ledger/InboundLedger.cpp, InboundLedgers.cpp).             *)
(*                                                                         *)
(* The ledgers of the network form one chain and a ledger stands for its   *)
(* hash and its sequence number.  A ledger that the node built itself and  *)
(* the network did not is not in the chain: nobody validates it.           *)
(* Validators sign in the order of the chain, so that the later of two     *)
(* validations of a node is the one for the later ledger.  Every action is *)
(* one section under m_mutex, or a read of the atomic mvalidledgerseq and  *)
(* mbuildingledgerseq outside it.  The node starts without a ledger, and   *)
(* mlastvalidatehash is then always the hash of mvalidledger.              *)
(***************************************************************************)
EXTENDS Integers, FiniteSets, Sequences

CONSTANTS
    MaxSeq,          \* bound: the ledgers of the chain
    Validators,      \* the nodes of our unl
    NoSeq,           \* the validators whose validations lack sfledgersequence
    Sent,            \* the validations that reach us, pairs of node and ledger
    mminvalidations, \* the configured quorum
    max_ledger_gap,  \* 100 in the code
    acquire_limit,   \* 4 in the code: the limit on acqcount
    OlderMissing,    \* whether a ledger older than the chain is to be fetched
    MaxRounds,       \* bound: consensus rounds begun
    MaxFails         \* bound: acquisitions that end without their ledger

Ledgers == 1..MaxSeq

ASSUME LedgerMasterAssumption ==
    /\ MaxSeq \in Nat /\ IsFiniteSet(Validators) /\ NoSeq \subseteq Validators
    /\ Sent \subseteq Validators \X Ledgers
    /\ mminvalidations \in Nat \ {0} /\ max_ledger_gap \in Nat
    /\ acquire_limit \in Nat \ {0, 1} /\ OlderMissing \in BOOLEAN /\ MaxRounds \in Nat /\ MaxFails \in Nat

VARIABLES
    validations,  \* mvalidations: the validators of each ledger
    checks,       \* calls of checkaccept (hash, seq) that have not begun
    accepts,      \* calls of checkaccept (ledger) that wait for m_mutex
    have,         \* mledgerhistory
    acquiring,    \* mledgers of InboundLedgers: the state of each acquisition
    dispatched,   \* ladispatch jobs of completed acquisitions
    fails,        \* acquisitions that ended without their ledger
    valid,        \* mvalidledgerseq, 0 while there is none
    pub,          \* mpubledgerseq, 0 while there is none
    building,     \* mbuildingledgerseq
    build,        \* consensusbuilt: where it is, and the sequence it was given
    rounds,       \* rounds begun
    setback,      \* whether a round was given up for one that builds an earlier ledger
    adv,          \* where the advance thread is; "none" is ~madvancethread
    advancework,  \* madvancework
    find,         \* the local variables of findnewledgerstopublish
    publedgers,   \* the ledgers it found
    told,         \* the last ledger given to publedger
    history       \* the one older ledger that we miss, if any

valvars == <<validations, checks, accepts>>
acqvars == <<have, acquiring, dispatched, fails>>
buildvars == <<building, build, rounds, setback>>
advvars == <<pub, adv, advancework, find, publedgers>>
vars == <<valvars, acqvars, valid, buildvars, advvars, told, history>>

NoFind == [seq |-> 0, valseq |-> 0, pubseq |-> 0, acqcount |-> 0]
NoBuild == [at |-> "none", seq |-> 0]

-----------------------------------------------------------------------------
\* gettrustedvalidationcount.
TrustedCount(l) == Cardinality(validations[l])

min_validation_ratio == 150

\* getneededvalidations: the quorum, or the share of the validations of the
\* last validated ledger if that is more.
NeededValidations ==
    LET val == IF valid = 0 THEN 0 ELSE (TrustedCount(valid) * min_validation_ratio) \div 256
    IN IF val > mminvalidations THEN val ELSE mminvalidations

\* The validators whose current validation, in mcurrentvalidations, is for l.
CurrentFor(l) ==
    {v \in validations[l] : \A m \in Ledgers : v \in validations[m] => m <= l}

\* The first test of checkaccept (ledger), outside the lock.
Enter(l, then) == IF l <= valid THEN accepts ELSE accepts \cup {[ledger |-> l, then |-> then]}

\* tryadvance, in a state where the validated ledger is v.
TryAdvance(v) ==
    /\ advancework' = TRUE
    /\ adv' = IF adv = "none" /\ v # 0 THEN "queued" ELSE adv

\* Mutant: checkaccept does not test the sequence again under the lock.
AcceptWithoutRecheck(l, then) ==
    IF TrustedCount(l) >= NeededValidations
    THEN /\ valid' = l
         /\ pub' = IF pub = 0 THEN l ELSE pub
         /\ TryAdvance(l)
    ELSE /\ UNCHANGED <<valid, pub>>
         /\ IF then THEN TryAdvance(valid) ELSE UNCHANGED <<adv, advancework>>

\* Mutant: checkaccept does not ask for enough validations.
AcceptWithoutQuorum(l, then) ==
    IF l > valid
    THEN /\ valid' = l
         /\ pub' = IF pub = 0 THEN l ELSE pub
         /\ TryAdvance(l)
    ELSE /\ UNCHANGED <<valid, pub>>
         /\ IF then THEN TryAdvance(valid) ELSE UNCHANGED <<adv, advancework>>

\* checkaccept (ledger) under the lock; "then" says that its caller is
\* ladispatch, which calls tryadvance afterwards whatever happened.
Accept(l, then) ==
    IF l > valid /\ TrustedCount(l) >= NeededValidations
    THEN /\ valid' = l
         /\ pub' = IF pub = 0 THEN l ELSE pub
         /\ TryAdvance(l)
    ELSE /\ UNCHANGED <<valid, pub>>
         /\ IF then THEN TryAdvance(valid) ELSE UNCHANGED <<adv, advancework>>

\* findcreate: an acquisition that exists is returned as it is, done or not; a
\* new one is complete at once if the ledger is in our node store.
FindCreate(a) == IF a = "none" THEN {"active", "complete"} ELSE {a}

-----------------------------------------------------------------------------
\* addvalidation: a validation that is not newer than the current one of its
\* node is counted but triggers no check.
AddValidation(v, l) ==
    /\ v \notin validations[l]
    /\ validations' = [validations EXCEPT ![l] = @ \cup {v}]
    /\ checks' = IF \E m \in Ledgers : m > l /\ v \in validations[m] THEN checks
                 ELSE checks \cup {[ledger |-> l, seq |-> IF v \in NoSeq THEN 0 ELSE l]}
    /\ UNCHANGED <<accepts, acqvars, valid, buildvars, advvars, told, history>>

\* checkaccept (hash, seq): drops what is old or being built, else looks the
\* ledger up or fetches it.
CheckAcceptHash(c) ==
    /\ c \in checks
    /\ checks' = checks \ {c}
    /\ \/ /\ c.seq # 0 /\ (c.seq <= valid \/ c.seq = building)
          /\ UNCHANGED <<have, acquiring, accepts>>
       \/ /\ c.seq = 0 \/ (c.seq > valid /\ c.seq # building)
          /\ c.ledger \in have
          /\ accepts' = Enter(c.ledger, FALSE)
          /\ UNCHANGED <<have, acquiring>>
       \/ /\ c.seq = 0 \/ (c.seq > valid /\ c.seq # building)
          /\ c.ledger \notin have
          /\ \E a \in FindCreate(acquiring[c.ledger]) :
                /\ acquiring' = [acquiring EXCEPT ![c.ledger] = a]
                /\ have' = IF a = "complete" THEN have \cup {c.ledger} ELSE have
                /\ accepts' = IF a = "complete" THEN Enter(c.ledger, FALSE) ELSE accepts
    /\ UNCHANGED <<validations, dispatched, fails, valid, buildvars, advvars, told, history>>

\* The part of checkaccept (ledger) under the lock.
CheckAcceptLedger(c) ==
    /\ c \in accepts
    /\ accepts' = accepts \ {c}
    /\ Accept(c.ledger, c.then)
    /\ UNCHANGED <<validations, checks, acqvars, buildvars, find, publedgers, told, history>>

-----------------------------------------------------------------------------
\* done, for an acquisition that got its ledger: the ledger is stored and a job
\* queued.
AcquireDone(l) ==
    /\ acquiring[l] = "active"
    /\ acquiring' = [acquiring EXCEPT ![l] = "complete"]
    /\ have' = have \cup {l}
    /\ dispatched' = dispatched \cup {l}
    /\ UNCHANGED <<valvars, fails, valid, buildvars, advvars, told, history>>

\* done, after too many timeouts: the job that is queued then does nothing.
AcquireFail(l) ==
    /\ acquiring[l] = "active" /\ fails < MaxFails
    /\ acquiring' = [acquiring EXCEPT ![l] = "failed"]
    /\ fails' = fails + 1
    /\ UNCHANGED <<valvars, have, dispatched, valid, buildvars, advvars, told, history>>

\* sweep forgets an acquisition a minute after it is done; also one that is still
\* active a minute after its start, which then ends as if it had failed.
Sweep(l) ==
    /\ \/ acquiring[l] \in {"complete", "failed"} /\ UNCHANGED fails
       \/ acquiring[l] = "active" /\ fails < MaxFails /\ fails' = fails + 1
    /\ acquiring' = [acquiring EXCEPT ![l] = "none"]
    /\ UNCHANGED <<valvars, have, dispatched, valid, buildvars, advvars, told, history>>

\* ladispatch: checkaccept, then tryadvance.
Dispatch(l) ==
    /\ l \in dispatched
    /\ dispatched' = dispatched \ {l}
    /\ accepts' = Enter(l, TRUE)
    /\ IF l <= valid THEN TryAdvance(valid) ELSE UNCHANGED <<adv, advancework>>
    /\ UNCHANGED <<validations, checks, have, acquiring, fails, valid, pub, buildvars,
                   find, publedgers, told, history>>

-----------------------------------------------------------------------------
\* A consensus round closes its ledger and names the sequence it builds; a round
\* that is abandoned leaves the name in place until the next one.
SetBuildingLedger(s) ==
    /\ build.at = "none" /\ rounds < MaxRounds
    /\ building' = s
    /\ rounds' = rounds + 1
    /\ setback' = (setback \/ s < building)
    /\ UNCHANGED <<valvars, acqvars, valid, build, advvars, told, history>>

\* The round ends: the new ledger, of the chain or not, is stored, and
\* consensusbuilt forgets the name.
ConsensusBuilt(ofchain) ==
    /\ build.at = "none" /\ building # 0
    /\ building' = 0
    /\ have' = IF ofchain THEN have \cup {building} ELSE have
    /\ build' = IF building <= valid THEN NoBuild
                ELSE [at |-> IF ofchain THEN "accept" ELSE "scan", seq |-> building]
    /\ UNCHANGED <<valvars, acquiring, dispatched, fails, valid, rounds, setback, advvars, told, history>>

\* consensusbuilt calls checkaccept with a ledger of the chain.  (Another one has
\* no validations and is not accepted.)
ConsensusAccept ==
    /\ build.at = "accept"
    /\ Accept(build.seq, FALSE)
    /\ build' = IF build.seq <= valid' THEN NoBuild ELSE [build EXCEPT !.at = "scan"]
    /\ UNCHANGED <<valvars, acqvars, building, rounds, setback, find, publedgers, told, history>>

\* The ledgers that consensusbuilt finds to have sufficient validations: the
\* sequence is known from a validation or because we have the ledger.
Sufficient ==
    {l \in Ledgers : /\ Cardinality(CurrentFor(l)) > NeededValidations
                     /\ l \in have \/ ~(CurrentFor(l) \subseteq NoSeq)
                     /\ l > valid}

\* Mutant: consensusbuilt does not look for other ledgers.
ConsensusScanNothing ==
    /\ build.at = "scan"
    /\ build' = NoBuild
    /\ UNCHANGED <<validations, checks, accepts, acqvars, valid, building, rounds, setback, advvars, told, history>>

\* consensusbuilt looks for another ledger with sufficient validations, and
\* checks the one with the highest sequence.
ConsensusScan ==
    /\ build.at = "scan"
    /\ build' = NoBuild
    /\ checks' = IF build.seq <= valid THEN checks
                 ELSE checks \cup {[ledger |-> l, seq |-> l] :
                                   l \in {k \in Sufficient : \A m \in Sufficient : m <= k}}
    /\ UNCHANGED <<validations, accepts, acqvars, valid, building, rounds, setback, advvars, told, history>>

-----------------------------------------------------------------------------
\* The head of the loop in doadvance and of findnewledgerstopublish, with the
\* lock held, when the published ledger is p.
NextPass(p) ==
    /\ advancework' = FALSE
    /\ \/ /\ p = 0 \/ valid > p + max_ledger_gap
          /\ publedgers' = <<valid>>
          /\ pub' = IF p = 0 THEN p ELSE valid
          /\ adv' = "publish"
          /\ find' = NoFind
       \/ /\ p # 0 /\ p < valid /\ valid <= p + max_ledger_gap
          /\ find' = [seq |-> p + 1, valseq |-> valid, pubseq |-> p + 1, acqcount |-> 0]
          /\ publedgers' = <<>>
          /\ pub' = p
          /\ adv' = "find"
       \/ \* In sync: history may be fetched, unless there is none to fetch or
          \* the load is high.
          /\ p = valid
          /\ publedgers' = <<>> /\ find' = NoFind
          /\ pub' = p
          /\ adv' \in {"none"} \cup (IF history = "none" THEN {} ELSE {"history"})

\* The foot of the loop.
EndPass(progress) ==
    IF progress \/ advancework
    THEN NextPass(pub)
    ELSE /\ adv' = "none" /\ find' = NoFind /\ publedgers' = <<>>
         /\ UNCHANGED <<pub, advancework>>

\* The job starts: advancethread takes the lock.
AdvanceThread ==
    /\ adv = "queued"
    /\ NextPass(pub)
    /\ UNCHANGED <<valvars, acqvars, valid, buildvars, told, history>>

\* Mutant: a ledger is put in the list although the one before it is missing.
FoundAny(found) ==
    /\ publedgers' = IF found THEN Append(publedgers, find.seq) ELSE publedgers
    /\ find' = [find EXCEPT !.seq = @ + 1, !.pubseq = IF found THEN @ + 1 ELSE @,
                            !.acqcount = @ + IF found THEN 0 ELSE 1]

\* The end of the body of the loop in findnewledgerstopublish: the ledger joins
\* the list if it is the next to publish.
Found(found) ==
    LET next == found /\ find.seq = find.pubseq
    IN /\ publedgers' = IF next THEN Append(publedgers, find.seq) ELSE publedgers
       /\ find' = [find EXCEPT !.seq = @ + 1, !.pubseq = IF next THEN @ + 1 ELSE @,
                               !.acqcount = @ + IF find.seq = find.valseq \/ find.seq \in have THEN 0 ELSE 1]

\* Mutant: an acquisition that was begun counts as found.
FindLedgerBegun ==
    /\ adv = "find" /\ find.seq <= find.valseq
    /\ Found(TRUE)
    /\ acquiring' = [acquiring EXCEPT ![find.seq] = IF find.seq \in have THEN @ ELSE "active"]
    /\ UNCHANGED <<have, valvars, dispatched, fails, valid, buildvars, pub, adv, advancework, told, history>>

\* Mutant: an acquisition that failed is not begun again.
FindLedgerOnce ==
    /\ adv = "find" /\ find.seq <= find.valseq
    /\ \/ /\ find.seq = find.valseq \/ find.seq \in have
          /\ Found(TRUE)
          /\ UNCHANGED <<have, acquiring>>
       \/ /\ find.seq # find.valseq /\ find.seq \notin have
          /\ find.acqcount + 1 < acquire_limit
          /\ \E a \in FindCreate(acquiring[find.seq]) :
                /\ acquiring' = [acquiring EXCEPT ![find.seq] = a]
                /\ have' = IF a = "complete" THEN have \cup {find.seq} ELSE have
                /\ Found(a = "complete")
       \/ /\ find.seq # find.valseq /\ find.seq \notin have
          /\ find.acqcount + 1 >= acquire_limit
          /\ Found(FALSE)
          /\ UNCHANGED <<have, acquiring>>
    /\ UNCHANGED <<valvars, dispatched, fails, valid, buildvars, pub, adv, advancework, told, history>>

\* One turn of that loop, without the lock.  An acquisition that failed is
\* dropped and begun again.
FindLedger ==
    /\ adv = "find" /\ find.seq <= find.valseq
    /\ \/ /\ find.seq = find.valseq \/ find.seq \in have
          /\ Found(TRUE)
          /\ UNCHANGED <<have, acquiring>>
       \/ /\ find.seq # find.valseq /\ find.seq \notin have
          /\ find.acqcount + 1 < acquire_limit
          /\ \E a \in FindCreate(IF acquiring[find.seq] = "failed" THEN "none" ELSE acquiring[find.seq]) :
                /\ acquiring' = [acquiring EXCEPT ![find.seq] = a]
                /\ have' = IF a = "complete" THEN have \cup {find.seq} ELSE have
                /\ Found(a = "complete")
       \/ /\ find.seq # find.valseq /\ find.seq \notin have
          /\ find.acqcount + 1 >= acquire_limit
          /\ Found(FALSE)
          /\ UNCHANGED <<have, acquiring>>
    /\ UNCHANGED <<valvars, dispatched, fails, valid, buildvars, pub, adv, advancework, told, history>>

\* Mutant: a request to advance that came while the lock was open is forgotten.
FoundForgetsWork ==
    /\ adv = "find" /\ find.seq > find.valseq
    /\ IF publedgers = <<>>
       THEN adv' = "none" /\ find' = NoFind /\ UNCHANGED <<pub, advancework, publedgers>>
       ELSE adv' = "publish" /\ find' = NoFind /\ UNCHANGED <<pub, advancework, publedgers>>
    /\ UNCHANGED <<valvars, acqvars, valid, buildvars, told, history>>

\* findnewledgerstopublish returns, with the lock.
FindReturns ==
    /\ adv = "find" /\ find.seq > find.valseq
    /\ IF publedgers = <<>>
       THEN EndPass(FALSE)
       ELSE adv' = "publish" /\ find' = NoFind /\ UNCHANGED <<pub, advancework, publedgers>>
    /\ UNCHANGED <<valvars, acqvars, valid, buildvars, told, history>>

\* setfullledger and publedger, without the lock.
Publish ==
    /\ adv = "publish"
    /\ told' = Head(publedgers)
    /\ have' = have \cup {Head(publedgers)}
    /\ adv' = "published"
    /\ UNCHANGED <<valvars, acquiring, dispatched, fails, valid, buildvars, pub, advancework,
                   find, publedgers, history>>

\* setpubledger, with the lock; after the last ledger the loop makes another turn.
SetPubLedger ==
    /\ adv = "published"
    /\ IF Len(publedgers) > 1
       THEN /\ pub' = Head(publedgers)
            /\ publedgers' = Tail(publedgers)
            /\ adv' = "publish"
            /\ UNCHANGED <<advancework, find>>
       ELSE NextPass(Head(publedgers))
    /\ UNCHANGED <<valvars, acqvars, valid, buildvars, told, history>>

\* The fetch of an older ledger, without the lock until its end: a ledger that
\* has arrived is stored, another one is asked for.
FetchHistory ==
    /\ adv = "history"
    /\ history' = IF history = "here" THEN "none" ELSE "acquiring"
    /\ EndPass(history = "here" \/ valid # pub)
    /\ UNCHANGED <<valvars, acqvars, valid, buildvars, told>>

\* The acquisition of the older ledger completes and its job calls tryadvance, or
\* it fails.
HistoryDone ==
    /\ history = "acquiring"
    /\ \/ history' = "here" /\ TryAdvance(valid)
       \/ history' = "missing" /\ UNCHANGED <<adv, advancework>>
    /\ UNCHANGED <<valvars, acqvars, valid, buildvars, pub, find, publedgers, told>>

-----------------------------------------------------------------------------
Init ==
    /\ validations = [l \in Ledgers |-> {}]
    /\ checks = {} /\ accepts = {}
    /\ have = {} /\ acquiring = [l \in Ledgers |-> "none"]
    /\ dispatched = {} /\ fails = 0
    /\ valid = 0 /\ pub = 0
    /\ building = 0 /\ build = NoBuild /\ rounds = 0 /\ setback = FALSE
    /\ adv = "none" /\ advancework = FALSE
    /\ find = NoFind /\ publedgers = <<>>
    /\ told = 0
    /\ history = IF OlderMissing THEN "missing" ELSE "none"

Check == \E c \in checks : CheckAcceptHash(c)
AcceptNext == \E c \in accepts : CheckAcceptLedger(c)
Consensus == (\E b \in BOOLEAN : ConsensusBuilt(b)) \/ ConsensusAccept \/ ConsensusScan
Advance == \/ AdvanceThread \/ FindLedger \/ FindReturns \/ Publish \/ SetPubLedger \/ FetchHistory

Next ==
    \/ \E p \in Sent : AddValidation(p[1], p[2])
    \/ Check \/ AcceptNext
    \/ \E l \in Ledgers : AcquireDone(l) \/ AcquireFail(l) \/ Sweep(l) \/ Dispatch(l)
    \/ \E s \in Ledgers : SetBuildingLedger(s)
    \/ Consensus \/ Advance \/ HistoryDone

Spec == Init /\ [][Next]_vars

\* Calls that have begun and queued jobs go on, a round ends, and an acquisition
\* ends, with the ledger or without.
FairSpec ==
    /\ Spec
    /\ \A l \in Ledgers : /\ WF_vars(\E c \in checks : c.ledger = l /\ CheckAcceptHash(c))
                          /\ WF_vars(\E c \in accepts : c.ledger = l /\ CheckAcceptLedger(c))
                          /\ WF_vars(AcquireDone(l) \/ AcquireFail(l))
                          /\ WF_vars(Dispatch(l))
    /\ WF_vars(Consensus) /\ WF_vars(Advance)

-----------------------------------------------------------------------------
TypeOK ==
    /\ validations \in [Ledgers -> SUBSET Validators]
    /\ checks \subseteq [ledger : Ledgers, seq : 0..MaxSeq]
    /\ accepts \subseteq [ledger : Ledgers, then : BOOLEAN]
    /\ have \subseteq Ledgers /\ dispatched \subseteq Ledgers
    /\ acquiring \in [Ledgers -> {"none", "active", "complete", "failed"}]
    /\ fails \in 0..MaxFails /\ rounds \in 0..MaxRounds /\ setback \in BOOLEAN
    /\ valid \in 0..MaxSeq /\ pub \in 0..MaxSeq /\ building \in 0..MaxSeq
    /\ build \in [at : {"none", "accept", "scan"}, seq : 0..MaxSeq]
    /\ adv \in {"none", "queued", "find", "publish", "published", "history"}
    /\ advancework \in BOOLEAN
    /\ find \in [seq : Nat, valseq : 0..MaxSeq, pubseq : Nat, acqcount : Nat]
    /\ publedgers \in Seq(Ledgers)
    /\ told \in 0..MaxSeq
    /\ history \in {"none", "missing", "acquiring", "here"}

\* The last fully validated ledger (checkaccept) only ever moves forward,
\* although calls of checkaccept for several ledgers race for the lock.
ValidatedForward == [][valid' >= valid]_valid

\* A fully validated ledger is one that the node has and that at least a quorum
\* of the trusted validators validated.
ValidatedBacked ==
    valid # 0 => valid \in have /\ TrustedCount(valid) >= mminvalidations

\* What doadvance publishes is held and fully validated or older, and the advance
\* thread never announces a ledger ahead of the validated one.
PublishedValidated ==
    /\ told <= valid /\ pub <= valid
    /\ told # 0 => told \in have
    /\ \A i \in DOMAIN publedgers : publedgers[i] <= valid /\ publedgers[i] \in have

\* Ledgers are published (publedger) once each and in order without a hole: each
\* is the successor of the published ledger, which is the one announced last or the
\* first one we knew, except where the gap was larger than max_ledger_gap.
PublishedInOrder ==
    [][\/ told' = pub + 1 /\ told \in {0, pub}
       \/ told' = pub /\ told' > told + max_ledger_gap]_told

\* Whatever is validated when tryadvance is called is in the end published, unless
\* an acquisition fails from then on: the request is not lost between tryadvance and
\* the end of the advance thread, and an acquisition that failed before it is begun
\* again.  (checkaccept calls tryadvance for every ledger that it accepts.)
PublishedCatchesUp ==
    \A n \in Ledgers, k \in 0..MaxFails :
        (advancework /\ valid >= n /\ fails = k) ~> (pub >= n \/ fails > k)

\* A count that suffices whatever ledger was validated last.
AlwaysEnough ==
    LET val == (Cardinality(Validators) * min_validation_ratio) \div 256
    IN IF val > mminvalidations THEN val ELSE mminvalidations

\* A later ledger has more validations than the quorum as well: consensusbuilt may
\* check that one alone.
Contested(l) == \E m \in Ledgers : m > l /\ TrustedCount(m) > mminvalidations

\* If no acquisition fails and no round is given up for an earlier one, a ledger
\* that more validators than needed currently validate is in the end fully
\* validated, or a later one is or competes with it: a check that checkaccept
\* dropped because we were building a ledger of that sequence is made up for by
\* consensusbuilt.
QuorumValidated ==
    [](fails = 0 /\ ~setback) =>
        \A l \in Ledgers :
            (Cardinality(CurrentFor(l)) > AlwaysEnough) ~> (valid >= l \/ Contested(l))

\* Something that will try to accept a ledger is under way: a check, an
\* acquisition and its job, or the build of that ledger or a later one.
UnderWay(l) ==
    \/ \E c \in checks : c.ledger = l
    \/ \E c \in accepts : c.ledger = l
    \/ acquiring[l] = "active" \/ l \in dispatched
    \/ building >= l
    \/ build.at # "none" /\ build.seq >= l

\* The check of a ledger with enough validations is never lost, neither by
\* checkaccept, which drops it while a ledger of that sequence is built, nor by
\* consensusbuilt: as long as it is not validated, its check is under way.
CheckPending ==
    fails = 0 /\ ~setback =>
        \A l \in Ledgers :
            Cardinality(CurrentFor(l)) > AlwaysEnough /\ l > valid /\ ~Contested(l) => UnderWay(l)

\* A ledger is being acquired or its job is queued, at whose end tryadvance is
\* called.
Coming(l) ==
    \/ acquiring[l] = "active" \/ l \in dispatched
    \/ [ledger |-> l, then |-> TRUE] \in accepts

\* The advance thread ends (doadvance) with a validated ledger left to publish
\* only if the next ledger to publish is coming: no call of tryadvance falls
\* between its last look at madvancework and its end.
PublicationPending == fails = 0 /\ pub < valid /\ adv = "none" => Coming(pub + 1)

=============================================================================
