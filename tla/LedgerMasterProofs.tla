------------------------- MODULE LedgerMasterProofs -------------------------
(***************************************************************************)
(* Validation and publication, for any number of ledgers and validators.   *)
(***************************************************************************)
EXTENDS LedgerMaster, FiniteSetTheorems, TLAPS

\* Whatever waits to be accepted, or was accepted, is in the ledger history.
HeldOK ==
    /\ \A c \in accepts : c.ledger \in have
    /\ dispatched \subseteq have
    /\ valid # 0 => valid \in have
    /\ build.at # "none" => build.seq \in Ledgers
    /\ build.at = "accept" => build.seq \in have

CountOK == valid # 0 => TrustedCount(valid) >= mminvalidations

PubOK ==
    /\ pub <= valid
    /\ pub = 0 => valid = 0 /\ told = 0
    /\ adv # "none" => valid # 0
    /\ pub # 0 => pub \in have
    /\ told <= valid /\ (told # 0 => told \in have)

\* publedgers is an interval of ledgers that we have.
Interval(first, last) ==
    \A i \in 1..Len(publedgers) :
        publedgers[i] = first + (i - 1) /\ publedgers[i] <= last /\ publedgers[i] \in have

\* The list, the published ledger and the last announcement, at each place of the
\* advance thread.
IdleOK ==
    adv \in {"none", "queued", "history"} => publedgers = <<>> /\ told \in {0, pub}

FindOK ==
    adv = "find" =>
        /\ told \in {0, pub}
        /\ find.valseq <= valid /\ find.valseq \in have
        /\ find.pubseq = pub + 1 + Len(publedgers)
        /\ find.pubseq <= find.seq /\ find.seq <= find.valseq + 1
        /\ Interval(pub + 1, valid)

PublishOK ==
    /\ adv \in {"publish", "published"} =>
          Len(publedgers) > 0 /\ Interval(publedgers[1], valid)
    /\ adv = "publish" =>
          \/ publedgers[1] = pub + 1 /\ told \in {0, pub}
          \/ publedgers[1] = pub /\ pub > told + max_ledger_gap
    /\ adv = "published" => told = publedgers[1]

IInv == TypeOK /\ HeldOK /\ CountOK /\ PubOK /\ IdleOK /\ FindOK /\ PublishOK

USE LedgerMasterAssumption

-----------------------------------------------------------------------------
\* What is needed is never less than the quorum.
LEMMA NeededAtLeastQuorum ==
    ASSUME TypeOK
    PROVE  NeededValidations >= mminvalidations
<1>1. \A l \in Ledgers : TrustedCount(l) \in Nat
  <2> SUFFICES ASSUME NEW l \in Ledgers PROVE TrustedCount(l) \in Nat OBVIOUS
  <2>1. validations[l] \subseteq Validators BY DEF TypeOK
  <2>2. IsFiniteSet(validations[l]) BY <2>1, FS_Subset
  <2> QED BY <2>2, FS_CardinalityType DEF TrustedCount
<1>2. valid # 0 => valid \in Ledgers BY DEF TypeOK, Ledgers
<1> QED BY <1>1, <1>2 DEF NeededValidations, min_validation_ratio

\* checkaccept (ledger) keeps the invariant for a ledger that we have.
LEMMA AcceptKeeps ==
    ASSUME IInv, NEW l \in Ledgers, NEW then \in BOOLEAN, l \in have, Accept(l, then),
           UNCHANGED <<validations, have, find, publedgers, told>>
    PROVE  /\ valid' \in 0..MaxSeq /\ pub' \in 0..MaxSeq /\ advancework' \in BOOLEAN
           /\ adv' \in {"none", "queued", "find", "publish", "published", "history"}
           /\ valid' >= valid
           /\ valid' # 0 => valid' \in have'
           /\ CountOK' /\ PubOK' /\ IdleOK' /\ FindOK' /\ PublishOK'
<1> USE DEF Ledgers
<1>0. /\ valid \in 0..MaxSeq /\ pub \in 0..MaxSeq /\ told \in 0..MaxSeq /\ publedgers \in Seq(1..MaxSeq)
      /\ find \in [seq : Nat, valseq : 0..MaxSeq, pubseq : Nat, acqcount : Nat]
  BY DEF IInv, TypeOK
<1>1. /\ adv' = adv \/ (adv = "none" /\ adv' = "queued" /\ valid' # 0)
      /\ adv \in {"none", "queued", "find", "publish", "published", "history"}
      /\ advancework' \in BOOLEAN
  BY Zenon DEF Accept, TryAdvance, IInv, TypeOK
<1>2. CASE valid' = valid /\ pub' = pub
  <2>1. CountOK' BY <1>2 DEF IInv, CountOK, TrustedCount
  <2>2. PubOK' /\ IdleOK' BY <1>2, <1>1 DEF IInv, PubOK, IdleOK
  <2>3. FindOK' BY <1>2, <1>1 DEF IInv, FindOK, Interval
  <2>4. PublishOK' BY <1>2, <1>1 DEF IInv, PublishOK, Interval
  <2> QED BY <2>1, <2>2, <2>3, <2>4, <1>2, <1>1, <1>0 DEF IInv, HeldOK
<1>3. CASE /\ l > valid /\ TrustedCount(l) >= NeededValidations
           /\ valid' = l /\ pub' = IF pub = 0 THEN l ELSE pub
  <2>0. TrustedCount(l) >= mminvalidations
    <3>1. validations[l] \subseteq Validators /\ IsFiniteSet(Validators) BY DEF IInv, TypeOK
    <3>2. TrustedCount(l) \in Nat BY <3>1, FS_Subset, FS_CardinalityType DEF TrustedCount
    <3>3. NeededValidations >= mminvalidations BY NeededAtLeastQuorum DEF IInv
    <3>4. NeededValidations \in Int
      <4>1. valid # 0 => TrustedCount(valid) \in Nat
        <5>1. valid # 0 => validations[valid] \subseteq Validators BY <1>0 DEF IInv, TypeOK
        <5> QED BY <5>1, <3>1, FS_Subset, FS_CardinalityType DEF TrustedCount
      <4> QED BY <4>1 DEF NeededValidations, min_validation_ratio
    <3> QED BY <3>2, <3>3, <3>4, <1>3
  <2>1. CountOK' BY <2>0, <1>3 DEF CountOK, TrustedCount
  <2>2. PubOK' /\ IdleOK' BY <1>3, <1>1, <1>0 DEF IInv, PubOK, IdleOK
  <2>3. FindOK'
    <3>1. adv = "find" => pub' = pub BY <1>3, <1>0 DEF IInv, PubOK
    <3>2. UNCHANGED <<find, publedgers, told, have>> /\ (adv' = "find" => adv = "find")
      BY <1>1, Zenon
    <3>3. FindOK /\ valid' > valid /\ valid \in Int /\ valid' \in Int
      BY <1>3, <1>0, SMTT(30) DEF IInv
    <3> QED BY <3>1, <3>2, <3>3, <1>0, SMTT(30) DEF FindOK, Interval
  <2>4. PublishOK'
    <3>1. adv \in {"publish", "published"} => pub' = pub BY <1>3, <1>0 DEF IInv, PubOK
    <3>2. adv' \in {"publish", "published"} => adv' = adv BY <1>1
    <3>3. adv \in {"publish", "published"} => Interval(publedgers[1], valid)'
      BY <1>3, <1>0, SMTT(30) DEF IInv, PublishOK, Interval
    <3>4. publedgers'[1] = publedgers[1] /\ Len(publedgers') = Len(publedgers) OBVIOUS
    <3>5. IInv => PublishOK BY DEF IInv
    <3> HIDE DEF Interval
    <3> QED BY <3>1, <3>2, <3>3, <3>4, <3>5 DEF PublishOK
  <2> QED BY <2>1, <2>2, <2>3, <2>4, <1>3, <1>1, <1>0
<1> QED BY <1>2, <1>3 DEF Accept

\* The head of a pass leaves the advance thread in order.
LEMMA NextPassKeeps ==
    ASSUME IInv, NEW p \in 1..MaxSeq, p <= valid, p \in have, told \in {0, p}, NextPass(p),
           UNCHANGED <<valid, have, told>>
    PROVE  /\ pub' \in 0..MaxSeq /\ advancework' \in BOOLEAN
           /\ adv' \in {"none", "queued", "find", "publish", "published", "history"}
           /\ find' \in [seq : Nat, valseq : 0..MaxSeq, pubseq : Nat, acqcount : Nat]
           /\ publedgers' \in Seq(Ledgers)
           /\ PubOK' /\ IdleOK' /\ FindOK' /\ PublishOK'
<1> USE DEF Ledgers
<1>0. valid \in 1..MaxSeq /\ valid \in have /\ told \in 0..MaxSeq
  BY DEF IInv, TypeOK, HeldOK
<1>w. advancework' \in BOOLEAN BY Zenon DEF NextPass
<1>1. CASE /\ p = 0 \/ valid > p + max_ledger_gap
           /\ publedgers' = <<valid>> /\ pub' = (IF p = 0 THEN p ELSE valid)
           /\ adv' = "publish" /\ find' = NoFind
  <2>1. Len(publedgers') = 1 /\ publedgers'[1] = valid /\ pub' = valid /\ publedgers' \in Seq(Ledgers)
    BY <1>1, <1>0
  <2>2. PublishOK' BY <2>1, <1>1, <1>0 DEF PublishOK, Interval
  <2>3. PubOK' /\ IdleOK' /\ FindOK' BY <2>1, <1>1, <1>0 DEF PubOK, IdleOK, FindOK
  <2> QED BY <2>1, <2>2, <2>3, <1>1, <1>0, <1>w DEF NoFind
<1>2. CASE /\ p # 0 /\ p < valid
           /\ find' = [seq |-> p + 1, valseq |-> valid, pubseq |-> p + 1, acqcount |-> 0]
           /\ publedgers' = <<>> /\ pub' = p /\ adv' = "find"
  <2>1. FindOK' BY <1>2, <1>0 DEF FindOK, Interval
  <2>2. PubOK' /\ IdleOK' /\ PublishOK' BY <1>2, <1>0 DEF PubOK, IdleOK, PublishOK
  <2> QED BY <2>1, <2>2, <1>2, <1>0, <1>w
<1>3. CASE /\ publedgers' = <<>> /\ find' = NoFind /\ pub' = p
           /\ adv' \in {"none", "history"}
  <2>1. PubOK' /\ IdleOK' /\ FindOK' /\ PublishOK'
    BY <1>3, <1>0 DEF PubOK, IdleOK, FindOK, PublishOK
  <2> QED BY <2>1, <1>3, <1>0, <1>w DEF NoFind
<1> QED BY <1>1, <1>2, <1>3, ZenonT(30) DEF NextPass

\* Steps that leave the ledgers and the list alone keep the advance thread in
\* order, also when they wake it; the history only grows.
LEMMA QuietKeeps ==
    ASSUME IInv, UNCHANGED <<valid, pub, find, publedgers, told>>, have \subseteq have',
           \/ adv' = adv
           \/ adv = "none" /\ adv' = "queued" /\ valid # 0
    PROVE  PubOK' /\ IdleOK' /\ FindOK' /\ PublishOK'
<1>1. PubOK' BY DEF IInv, PubOK
<1>2. IdleOK' BY DEF IInv, IdleOK
<1>3. \A a, b : Interval(a, b) => Interval(a, b)' BY DEF Interval
<1>4. FindOK' BY <1>3 DEF IInv, FindOK
<1>5. PublishOK' BY <1>3 DEF IInv, PublishOK
<1> QED BY <1>1, <1>2, <1>4, <1>5

\* tryadvance wakes the advance thread only when there is a validated ledger.
LEMMA TryAdvanceWakes ==
    ASSUME IInv, TryAdvance(valid)
    PROVE  /\ adv' \in {"none", "queued", "find", "publish", "published", "history"}
           /\ advancework' \in BOOLEAN
           /\ adv' = adv \/ (adv = "none" /\ adv' = "queued" /\ valid # 0)
BY DEF TryAdvance, IInv, TypeOK

\* checkaccept (ledger) is entered with a ledger that we have.
LEMMA EnterKeeps ==
    ASSUME IInv, NEW l \in Ledgers, NEW then \in BOOLEAN, accepts' = Enter(l, then),
           l \in have', have \subseteq have'
    PROVE  /\ accepts' \subseteq [ledger : Ledgers, then : BOOLEAN]
           /\ \A c \in accepts' : c.ledger \in have'
<1>1. \A c \in accepts' : c \in accepts \/ c = [ledger |-> l, then |-> then] BY SMTT(30) DEF Enter
<1>2. accepts \subseteq [ledger : Ledgers, then : BOOLEAN] /\ \A c \in accepts : c.ledger \in have
  BY DEF IInv, TypeOK, HeldOK
<1>3. [ledger |-> l, then |-> then] \in [ledger : Ledgers, then : BOOLEAN] OBVIOUS
<1> QED BY <1>1, <1>2, <1>3, SMTT(30)

-----------------------------------------------------------------------------
\* The invariant holds at first.
LEMMA InitOK == Init => IInv
<1> SUFFICES ASSUME Init PROVE IInv OBVIOUS
<1>1. TypeOK
  <2>1. advancework \in BOOLEAN /\ setback \in BOOLEAN BY Zenon DEF Init
  <2>2. validations \in [Ledgers -> SUBSET Validators] BY DEF Init
  <2>3. acquiring \in [Ledgers -> {"none", "active", "complete", "failed"}] BY DEF Init
  <2>4. /\ find \in [seq : Nat, valseq : 0..MaxSeq, pubseq : Nat, acqcount : Nat]
        /\ build \in [at : {"none", "accept", "scan"}, seq : 0..MaxSeq]
    BY DEF Init, NoFind, NoBuild
  <2>5. history \in {"none", "missing", "acquiring", "here"} BY DEF Init
  <2>6. publedgers \in Seq(Ledgers) BY DEF Init
  <2> QED BY <2>1, <2>2, <2>3, <2>4, <2>5, <2>6 DEF Init, TypeOK
<1>2. HeldOK /\ CountOK /\ PubOK BY DEF Init, HeldOK, CountOK, PubOK, NoBuild
<1>3. IdleOK /\ FindOK /\ PublishOK BY DEF Init, IdleOK, FindOK, PublishOK
<1> QED BY <1>1, <1>2, <1>3 DEF IInv

\* A validation arrives.
LEMMA AddValidationKeeps ==
    ASSUME IInv, NEW v \in Validators, NEW l \in Ledgers, AddValidation(v, l)
    PROVE  IInv'
<1>1. TypeOK'
  <2>1. validations' \in [Ledgers -> SUBSET Validators] BY ZenonT(30) DEF AddValidation, IInv, TypeOK
  <2>2. checks' \subseteq [ledger : Ledgers, seq : 0..MaxSeq]
    <3>1. l \in 0..MaxSeq /\ 0 \in 0..MaxSeq BY DEF Ledgers
    <3>2. [ledger |-> l, seq |-> IF v \in NoSeq THEN 0 ELSE l] \in [ledger : Ledgers, seq : 0..MaxSeq]
      BY <3>1
    <3>3. checks \subseteq [ledger : Ledgers, seq : 0..MaxSeq] BY SMTT(30) DEF IInv, TypeOK
    <3> QED BY <3>2, <3>3, ZenonT(30) DEF AddValidation
  <2> QED BY <2>1, <2>2, ZenonT(30) DEF AddValidation, IInv, TypeOK, acqvars, buildvars, advvars
<1>2. HeldOK' BY ZenonT(30) DEF AddValidation, IInv, HeldOK, acqvars, buildvars, advvars
<1>3. CountOK'
  <2> SUFFICES ASSUME valid # 0 PROVE Cardinality(validations'[valid]) >= mminvalidations
    BY DEF CountOK, TrustedCount, AddValidation
  <2>1. valid \in Ledgers BY DEF IInv, TypeOK, Ledgers
  <2>2. validations[valid] \subseteq validations'[valid] /\ validations'[valid] \subseteq Validators
    BY <2>1, <1>1, ZenonT(30) DEF AddValidation, IInv, TypeOK
  <2>3. IsFiniteSet(validations'[valid]) BY <2>2, FS_Subset
  <2>4. /\ Cardinality(validations[valid]) <= Cardinality(validations'[valid])
        /\ Cardinality(validations[valid]) \in Nat /\ Cardinality(validations'[valid]) \in Nat
    BY <2>2, <2>3, FS_Subset, FS_CardinalityType, ZenonT(30)
  <2>5. Cardinality(validations[valid]) >= mminvalidations BY DEF IInv, CountOK, TrustedCount
  <2> QED BY <2>4, <2>5, SMTT(30)
<1>4. PubOK' /\ IdleOK' /\ FindOK' /\ PublishOK'
  <2>1. UNCHANGED <<valid, pub, find, publedgers, told, have, adv>>
    BY ZenonT(30) DEF AddValidation, advvars, acqvars
  <2> QED BY <2>1, QuietKeeps
<1> QED BY <1>1, <1>2, <1>3, <1>4, SMTT(30) DEF IInv

\* checkaccept for a hash.
LEMMA CheckAcceptHashKeeps ==
    ASSUME IInv, NEW c \in checks, CheckAcceptHash(c)
    PROVE  IInv'
<1>0. c \in [ledger : Ledgers, seq : 0..MaxSeq] BY DEF IInv, TypeOK
<1>1. /\ have \subseteq have' /\ have' \subseteq Ledgers
      /\ acquiring' \in [Ledgers -> {"none", "active", "complete", "failed"}]
  <2>1. \A a \in FindCreate(acquiring[c.ledger]) : a \in {"none", "active", "complete", "failed"}
    BY <1>0 DEF FindCreate, IInv, TypeOK
  <2> QED BY <1>0, <2>1, ZenonT(30) DEF CheckAcceptHash, IInv, TypeOK
<1>2. /\ accepts' \subseteq [ledger : Ledgers, then : BOOLEAN]
      /\ \A d \in accepts' : d.ledger \in have'
  <2>1. CASE accepts' = accepts BY <2>1, <1>1, ZenonT(30) DEF IInv, TypeOK, HeldOK
  <2>2. CASE accepts' = Enter(c.ledger, FALSE) /\ c.ledger \in have'
    <3>1. c.ledger \in Ledgers /\ FALSE \in BOOLEAN BY <1>0
    <3> QED BY <3>1, <2>2, <1>1, EnterKeeps, Zenon
  <2>3. accepts' = accepts \/ (accepts' = Enter(c.ledger, FALSE) /\ c.ledger \in have')
    BY Zenon DEF CheckAcceptHash
  <2> QED BY <2>1, <2>2, <2>3, Zenon
<1>3. /\ checks' \subseteq checks
      /\ UNCHANGED <<validations, dispatched, fails, valid, building, build, rounds, setback, pub, adv,
                     advancework, find, publedgers, told, history>>
  BY ZenonT(30) DEF CheckAcceptHash, buildvars, advvars
<1>4. TypeOK' BY <1>1, <1>2, <1>3, ZenonT(30) DEF IInv, TypeOK
<1>5. HeldOK' /\ CountOK' BY <1>1, <1>2, <1>3, ZenonT(30) DEF IInv, HeldOK, CountOK, TrustedCount
<1>6. PubOK' /\ IdleOK' /\ FindOK' /\ PublishOK' BY <1>1, <1>3, QuietKeeps
<1> QED BY <1>4, <1>5, <1>6 DEF IInv

\* checkaccept for a ledger.
LEMMA CheckAcceptLedgerKeeps ==
    ASSUME IInv, NEW c \in accepts, CheckAcceptLedger(c)
    PROVE  IInv' /\ valid' >= valid
<1>1. c.ledger \in Ledgers /\ c.then \in BOOLEAN /\ c.ledger \in have /\ Accept(c.ledger, c.then)
  BY DEF IInv, TypeOK, HeldOK, CheckAcceptLedger
<1>2. /\ accepts' \subseteq accepts
      /\ UNCHANGED <<validations, checks, have, acquiring, dispatched, fails, building, build,
                     rounds, setback, find, publedgers, told, history>>
  BY DEF CheckAcceptLedger, acqvars, buildvars
<1>3. /\ valid' \in 0..MaxSeq /\ pub' \in 0..MaxSeq /\ advancework' \in BOOLEAN
      /\ adv' \in {"none", "queued", "find", "publish", "published", "history"}
      /\ valid' >= valid
      /\ valid' # 0 => valid' \in have'
      /\ CountOK' /\ PubOK' /\ IdleOK' /\ FindOK' /\ PublishOK'
  BY <1>1, <1>2, AcceptKeeps, ZenonT(30)
<1>4. TypeOK' BY <1>2, <1>3, ZenonT(30) DEF IInv, TypeOK
<1>5. HeldOK' BY <1>2, <1>3, ZenonT(30) DEF IInv, HeldOK
<1> QED BY <1>3, <1>4, <1>5, SMTT(30) DEF IInv

\* The actions of the acquisitions, of the consensus round and of the history fetch
\* that do not touch the advance thread but to wake it.
LEMMA AcquireKeeps ==
    ASSUME IInv, NEW l \in Ledgers, AcquireDone(l) \/ AcquireFail(l) \/ Sweep(l)
    PROVE  IInv'
<1>1. UNCHANGED <<validations, checks, accepts, valid, building, build, rounds, setback, pub, adv,
                  advancework, find, publedgers, told, history>>
  BY ZenonT(30) DEF AcquireDone, AcquireFail, Sweep, valvars, buildvars, advvars
<1>2. /\ have \subseteq have' /\ have' \subseteq Ledgers
      /\ dispatched' \subseteq have'
      /\ acquiring' \in [Ledgers -> {"none", "active", "complete", "failed"}]
      /\ fails' \in 0..MaxFails
  <2>0. /\ have \subseteq Ledgers /\ dispatched \subseteq have /\ fails \in 0..MaxFails
        /\ acquiring \in [Ledgers -> {"none", "active", "complete", "failed"}]
    BY Zenon DEF IInv, TypeOK, HeldOK
  <2>1. CASE AcquireDone(l) BY <2>0, <2>1, ZenonT(30) DEF AcquireDone
  <2>2. CASE AcquireFail(l) BY <2>0, <2>2 DEF AcquireFail
  <2>3. CASE Sweep(l) BY <2>0, <2>3, SMTT(30) DEF Sweep
  <2> QED BY <2>1, <2>2, <2>3
<1>3. TypeOK' BY <1>1, <1>2, ZenonT(30) DEF IInv, TypeOK
<1>4. HeldOK' /\ CountOK' BY <1>1, <1>2, ZenonT(30) DEF IInv, HeldOK, CountOK, TrustedCount
<1>5. PubOK' /\ IdleOK' /\ FindOK' /\ PublishOK' BY <1>1, <1>2, QuietKeeps
<1> QED BY <1>3, <1>4, <1>5 DEF IInv

\* A ledger that was acquired is dispatched.
LEMMA DispatchKeeps ==
    ASSUME IInv, NEW l \in Ledgers, Dispatch(l)
    PROVE  IInv'
<1>1. UNCHANGED <<validations, checks, have, acquiring, fails, valid, pub, building, build, rounds, setback,
                  find, publedgers, told, history>>
  BY ZenonT(30) DEF Dispatch, buildvars
<1>2. dispatched' \subseteq dispatched /\ l \in have /\ accepts' = Enter(l, TRUE)
  BY Zenon DEF Dispatch, IInv, HeldOK
<1>3. /\ accepts' \subseteq [ledger : Ledgers, then : BOOLEAN]
      /\ \A c \in accepts' : c.ledger \in have'
  <2>1. TRUE \in BOOLEAN OBVIOUS
  <2> QED BY <1>1, <1>2, <2>1, EnterKeeps, Zenon
<1>4. /\ adv' \in {"none", "queued", "find", "publish", "published", "history"}
      /\ advancework' \in BOOLEAN
      /\ adv' = adv \/ (adv = "none" /\ adv' = "queued" /\ valid # 0)
  <2>1. CASE TryAdvance(valid) BY <2>1, TryAdvanceWakes
  <2>2. CASE UNCHANGED <<adv, advancework>> BY <2>2 DEF IInv, TypeOK
  <2> QED BY <2>1, <2>2, Zenon DEF Dispatch
<1>5. TypeOK' BY <1>1, <1>2, <1>3, <1>4, Zenon DEF IInv, TypeOK
<1>6. HeldOK' /\ CountOK' BY <1>1, <1>2, <1>3, ZenonT(30) DEF IInv, HeldOK, CountOK, TrustedCount
<1>7. PubOK' /\ IdleOK' /\ FindOK' /\ PublishOK' BY <1>1, <1>4, QuietKeeps, ZenonT(30)
<1> QED BY <1>5, <1>6, <1>7, SMTT(30) DEF IInv

\* setbuildingledger.
LEMMA SetBuildingLedgerKeeps ==
    ASSUME IInv, NEW s \in Ledgers, SetBuildingLedger(s)
    PROVE  IInv'
<1>1. UNCHANGED <<validations, checks, accepts, have, acquiring, dispatched, fails, valid, build,
                  pub, adv, advancework, find, publedgers, told, history>>
  BY ZenonT(30) DEF SetBuildingLedger, valvars, acqvars, advvars
<1>2. building' \in 0..MaxSeq /\ rounds' \in 0..MaxRounds /\ setback' \in BOOLEAN
  BY DEF SetBuildingLedger, IInv, TypeOK, Ledgers
<1>3. TypeOK' BY <1>1, <1>2, ZenonT(30) DEF IInv, TypeOK
<1>4. HeldOK' /\ CountOK' BY <1>1, ZenonT(30) DEF IInv, HeldOK, CountOK, TrustedCount
<1>5. PubOK' /\ IdleOK' /\ FindOK' /\ PublishOK' BY <1>1, QuietKeeps
<1> QED BY <1>3, <1>4, <1>5 DEF IInv

\* A ledger is built by consensus.
LEMMA ConsensusKeeps ==
    ASSUME IInv, Consensus
    PROVE  IInv' /\ valid' >= valid
<1>0. valid \in 0..MaxSeq BY DEF IInv, TypeOK
<1>1. ASSUME NEW b \in BOOLEAN, ConsensusBuilt(b) PROVE IInv' /\ valid' = valid
  <2>1. UNCHANGED <<validations, checks, accepts, acquiring, dispatched, fails, valid, rounds, setback,
                    pub, adv, advancework, find, publedgers, told, history>>
    BY <1>1, ZenonT(30) DEF ConsensusBuilt, valvars, advvars
  <2>2. building \in Ledgers BY <1>1, SMTT(30) DEF ConsensusBuilt, IInv, TypeOK, Ledgers
  <2>3. have \subseteq have' /\ have' \subseteq Ledgers /\ (b => building \in have') /\ building' = 0
    BY <1>1, <2>2, ZenonT(30) DEF ConsensusBuilt, IInv, TypeOK
  <2>4. /\ build' \in [at : {"none", "accept", "scan"}, seq : 0..MaxSeq]
        /\ build'.at # "none" => build'.seq \in Ledgers
        /\ build'.at = "accept" => build'.seq \in have'
    <3>1. CASE build' = NoBuild BY <3>1 DEF NoBuild
    <3>2. CASE build' = [at |-> IF b THEN "accept" ELSE "scan", seq |-> building]
      BY <3>2, <2>2, <2>3, SMTT(30) DEF Ledgers
    <3> QED BY <3>1, <3>2, <1>1, ZenonT(30) DEF ConsensusBuilt
  <2>5. TypeOK' BY <2>1, <2>3, <2>4, SMTT(30) DEF IInv, TypeOK
  <2>6. HeldOK' /\ CountOK' BY <2>1, <2>3, <2>4, ZenonT(30) DEF IInv, HeldOK, CountOK, TrustedCount
  <2>7. PubOK' /\ IdleOK' /\ FindOK' /\ PublishOK' BY <2>1, <2>3, QuietKeeps
  <2> QED BY <2>1, <2>5, <2>6, <2>7, SMTT(30) DEF IInv
<1>2. ASSUME ConsensusAccept PROVE IInv' /\ valid' >= valid
  <2>1. /\ build.seq \in Ledgers /\ build.seq \in have /\ Accept(build.seq, FALSE)
        /\ build' \in {NoBuild, [build EXCEPT !.at = "scan"]}
    BY <1>2, Zenon DEF ConsensusAccept, IInv, HeldOK
  <2>2. UNCHANGED <<validations, checks, accepts, have, acquiring, dispatched, fails, building,
                    rounds, setback, find, publedgers, told, history>>
    BY <1>2 DEF ConsensusAccept, valvars, acqvars
  <2>3. /\ valid' \in 0..MaxSeq /\ pub' \in 0..MaxSeq /\ advancework' \in BOOLEAN
        /\ adv' \in {"none", "queued", "find", "publish", "published", "history"}
        /\ valid' >= valid
        /\ valid' # 0 => valid' \in have'
        /\ CountOK' /\ PubOK' /\ IdleOK' /\ FindOK' /\ PublishOK'
    <3>1. FALSE \in BOOLEAN OBVIOUS
    <3> QED BY <3>1, <2>1, <2>2, AcceptKeeps, ZenonT(30)
  <2>4. /\ build' \in [at : {"none", "accept", "scan"}, seq : 0..MaxSeq]
        /\ build'.at # "none" => build'.seq \in Ledgers
        /\ build'.at # "accept"
    <3>1. build \in [at : {"none", "accept", "scan"}, seq : 0..MaxSeq] BY SMTT(30) DEF IInv, TypeOK
    <3>2. CASE build' = NoBuild BY <3>2 DEF NoBuild
    <3>3. CASE build' = [build EXCEPT !.at = "scan"] BY <3>1, <3>3, <2>1, SMTT(30)
    <3> QED BY <3>2, <3>3, <2>1, SMTT(30)
  <2>5. TypeOK' BY <2>2, <2>3, <2>4, ZenonT(30) DEF IInv, TypeOK
  <2>6. HeldOK' BY <2>2, <2>3, <2>4, ZenonT(30) DEF IInv, HeldOK
  <2> QED BY <2>3, <2>5, <2>6 DEF IInv
<1>3. ASSUME ConsensusScan PROVE IInv' /\ valid' = valid
  <2>1. UNCHANGED <<validations, accepts, have, acquiring, dispatched, fails, valid, building,
                    rounds, setback, pub, adv, advancework, find, publedgers, told, history>>
    BY <1>3, ZenonT(30) DEF ConsensusScan, acqvars, advvars
  <2>2. checks' \subseteq [ledger : Ledgers, seq : 0..MaxSeq]
    <3>1. checks \subseteq [ledger : Ledgers, seq : 0..MaxSeq] BY ZenonT(30) DEF IInv, TypeOK
    <3>2. \A l \in Sufficient : [ledger |-> l, seq |-> l] \in [ledger : Ledgers, seq : 0..MaxSeq]
      BY SMTT(30) DEF Sufficient, Ledgers
    <3> QED BY <1>3, <3>1, <3>2, ZenonT(30) DEF ConsensusScan
  <2>3. build' = NoBuild BY <1>3, ZenonT(30) DEF ConsensusScan
  <2>4. TypeOK' BY <2>1, <2>2, <2>3, SMTT(30) DEF IInv, TypeOK, NoBuild
  <2>5. HeldOK' /\ CountOK' BY <2>1, <2>3, ZenonT(30) DEF IInv, HeldOK, CountOK, TrustedCount, NoBuild
  <2>6. PubOK' /\ IdleOK' /\ FindOK' /\ PublishOK' BY <2>1, QuietKeeps, ZenonT(30)
  <2> QED BY <2>1, <2>4, <2>5, <2>6, ZenonT(30) DEF IInv
<1> QED BY <1>0, <1>1, <1>2, <1>3 DEF Consensus

\* An older ledger arrives, or does not.
LEMMA HistoryDoneKeeps ==
    ASSUME IInv, HistoryDone
    PROVE  IInv'
<1>1. UNCHANGED <<validations, checks, accepts, have, acquiring, dispatched, fails, valid, building,
                  build, rounds, setback, pub, find, publedgers, told>>
  BY ZenonT(30) DEF HistoryDone, valvars, acqvars, buildvars
<1>2. /\ adv' \in {"none", "queued", "find", "publish", "published", "history"}
      /\ advancework' \in BOOLEAN
      /\ adv' = adv \/ (adv = "none" /\ adv' = "queued" /\ valid # 0)
  <2>1. CASE TryAdvance(valid) BY <2>1, TryAdvanceWakes, SMTT(30)
  <2>2. CASE UNCHANGED <<adv, advancework>> BY <2>2, ZenonT(30) DEF IInv, TypeOK
  <2> QED BY <2>1, <2>2, ZenonT(30) DEF HistoryDone
<1>3. history' \in {"none", "missing", "acquiring", "here"} BY SMTT(30) DEF HistoryDone
<1>4. TypeOK' BY <1>1, <1>2, <1>3, ZenonT(30) DEF IInv, TypeOK
<1>5. HeldOK' /\ CountOK' BY <1>1, ZenonT(30) DEF IInv, HeldOK, CountOK, TrustedCount
<1>6. PubOK' /\ IdleOK' /\ FindOK' /\ PublishOK' BY <1>1, <1>2, QuietKeeps, ZenonT(30)
<1> QED BY <1>4, <1>5, <1>6 DEF IInv

-----------------------------------------------------------------------------
\* The end of a step of the advance thread that starts a pass or ends the thread.
LEMMA EndPassKeeps ==
    ASSUME IInv, NEW progress \in BOOLEAN, EndPass(progress), valid # 0, told \in {0, pub},
           UNCHANGED <<valid, have, told>>
    PROVE  /\ pub' \in 0..MaxSeq /\ advancework' \in BOOLEAN
           /\ adv' \in {"none", "queued", "find", "publish", "published", "history"}
           /\ find' \in [seq : Nat, valseq : 0..MaxSeq, pubseq : Nat, acqcount : Nat]
           /\ publedgers' \in Seq(Ledgers)
           /\ PubOK' /\ IdleOK' /\ FindOK' /\ PublishOK'
<1>0. pub \in 1..MaxSeq /\ pub <= valid /\ pub \in have
  <2>1. pub \in 0..MaxSeq /\ pub <= valid /\ pub # 0 /\ pub \in have BY Zenon DEF IInv, TypeOK, PubOK
  <2> QED BY <2>1
<1>1. CASE NextPass(pub) BY <1>0, <1>1, NextPassKeeps, ZenonT(30)
<1>2. CASE /\ adv' = "none" /\ find' = NoFind /\ publedgers' = <<>>
           /\ UNCHANGED <<pub, advancework>>
  <2>1. advancework' \in BOOLEAN BY <1>2, ZenonT(30) DEF IInv, TypeOK
  <2>2. PubOK' /\ IdleOK' /\ FindOK' /\ PublishOK'
    BY <1>0, <1>2, ZenonT(30) DEF IInv, PubOK, IdleOK, FindOK, PublishOK
  <2> QED BY <2>1, <2>2, <1>0, <1>2, SMTT(30) DEF NoFind
<1> QED BY <1>1, <1>2, ZenonT(30) DEF EndPass

\* What the end of a pass needs for the rest of the invariant.
LEMMA AdvanceKeepsRest ==
    ASSUME IInv,
           UNCHANGED <<validations, checks, accepts, have, acquiring, dispatched, fails, valid,
                       building, build, rounds, setback, told>>,
           history' \in {"none", "missing", "acquiring", "here"},
           pub' \in 0..MaxSeq, advancework' \in BOOLEAN,
           adv' \in {"none", "queued", "find", "publish", "published", "history"},
           find' \in [seq : Nat, valseq : 0..MaxSeq, pubseq : Nat, acqcount : Nat],
           publedgers' \in Seq(Ledgers),
           PubOK' /\ IdleOK' /\ FindOK' /\ PublishOK'
    PROVE  IInv'
<1>1. TypeOK' BY ZenonT(60) DEF IInv, TypeOK
<1>2. HeldOK' /\ CountOK' BY ZenonT(30) DEF IInv, HeldOK, CountOK, TrustedCount
<1> QED BY <1>1, <1>2, ZenonT(30) DEF IInv

\* advancethread takes the lock.
LEMMA AdvanceThreadKeeps ==
    ASSUME IInv, AdvanceThread
    PROVE  IInv'
<1>1. UNCHANGED <<validations, checks, accepts, have, acquiring, dispatched, fails, valid, building,
                  build, rounds, setback, told, history>>
  BY DEF AdvanceThread, valvars, acqvars, buildvars
<1>2. pub \in 1..MaxSeq /\ pub <= valid /\ pub \in have /\ told \in {0, pub} /\ NextPass(pub)
  <2>1. adv = "queued" /\ NextPass(pub) BY SMTT(30) DEF AdvanceThread
  <2>2. pub \in 0..MaxSeq BY ZenonT(30) DEF IInv, TypeOK
  <2>3. pub # 0 /\ pub <= valid /\ pub \in have BY <2>1 DEF IInv, PubOK
  <2>4. told \in {0, pub} BY <2>1 DEF IInv, IdleOK
  <2> QED BY <2>1, <2>2, <2>3, <2>4, SMTT(30)
<1>3. history' \in {"none", "missing", "acquiring", "here"} BY <1>1, ZenonT(30) DEF IInv, TypeOK
<1> QED BY <1>1, <1>2, <1>3, NextPassKeeps, AdvanceKeepsRest, ZenonT(30)

\* An older ledger is stored or asked for.
LEMMA FetchHistoryKeeps ==
    ASSUME IInv, FetchHistory
    PROVE  IInv'
<1>1. UNCHANGED <<validations, checks, accepts, have, acquiring, dispatched, fails, valid, building,
                  build, rounds, setback, told>>
  BY ZenonT(30) DEF FetchHistory, valvars, acqvars, buildvars
<1>2. valid # 0 /\ told \in {0, pub} BY ZenonT(30) DEF FetchHistory, IInv, PubOK, IdleOK
<1>3. history' \in {"none", "missing", "acquiring", "here"} BY DEF FetchHistory
<1>4. (history = "here" \/ valid # pub) \in BOOLEAN /\ EndPass(history = "here" \/ valid # pub)
  BY ZenonT(30) DEF FetchHistory
<1> QED BY <1>1, <1>2, <1>3, <1>4, EndPassKeeps, AdvanceKeepsRest, ZenonT(30)

\* findnewledgerstopublish returns.
LEMMA FindReturnsKeeps ==
    ASSUME IInv, FindReturns
    PROVE  IInv'
<1>1. UNCHANGED <<validations, checks, accepts, have, acquiring, dispatched, fails, valid, building,
                  build, rounds, setback, told, history>>
  BY ZenonT(30) DEF FindReturns, valvars, acqvars, buildvars
<1>2. valid # 0 /\ told \in {0, pub} BY ZenonT(30) DEF FindReturns, IInv, PubOK, FindOK
<1>3. history' \in {"none", "missing", "acquiring", "here"} BY <1>1, ZenonT(30) DEF IInv, TypeOK
<1>4. CASE EndPass(FALSE)
  <2>1. FALSE \in BOOLEAN BY SMTT(30)
  <2> QED BY <1>1, <1>2, <1>3, <1>4, <2>1, EndPassKeeps, AdvanceKeepsRest, ZenonT(30)
<1>5. CASE /\ publedgers # <<>> /\ adv' = "publish" /\ find' = NoFind
           /\ UNCHANGED <<pub, advancework, publedgers>>
  <2>1. publedgers \in Seq(Ledgers) /\ pub \in 0..MaxSeq /\ advancework' \in BOOLEAN
    BY <1>5, ZenonT(30) DEF IInv, TypeOK
  <2>2. Len(publedgers) > 0 BY <2>1, <1>5, SMTT(30)
  <2>3. Interval(pub + 1, valid) BY ZenonT(30) DEF FindReturns, IInv, FindOK
  <2>4. publedgers[1] = pub + 1 BY <2>1, <2>2, <2>3, SMTT(30) DEF Interval
  <2>5. Interval(publedgers[1], valid)' BY <1>1, <1>5, <2>3, <2>4, ZenonT(30) DEF Interval
  <2>6. PublishOK' BY <1>1, <1>2, <1>5, <2>2, <2>4, <2>5, ZenonT(30) DEF PublishOK
  <2>7. PubOK' /\ IdleOK' /\ FindOK' BY <1>1, <1>2, <1>5, ZenonT(30) DEF IInv, PubOK, IdleOK, FindOK
  <2>8. find' \in [seq : Nat, valseq : 0..MaxSeq, pubseq : Nat, acqcount : Nat]
    BY <1>5 DEF NoFind
  <2> QED BY <1>1, <1>3, <1>5, <2>1, <2>6, <2>7, <2>8, AdvanceKeepsRest, ZenonT(30)
<1> QED BY <1>4, <1>5, Zenon DEF FindReturns

\* The list grows by the successor of its last ledger, and only by one we have.
LEMMA FoundKeeps ==
    ASSUME IInv, adv = "find", find.seq <= find.valseq, NEW found \in BOOLEAN, Found(found),
           UNCHANGED <<valid, pub, adv, told>>, have \subseteq have',
           found => find.seq \in have'
    PROVE  /\ find' \in [seq : Nat, valseq : 0..MaxSeq, pubseq : Nat, acqcount : Nat]
           /\ publedgers' \in Seq(Ledgers)
           /\ PubOK' /\ IdleOK' /\ FindOK' /\ PublishOK'
<1>0. /\ valid \in 0..MaxSeq /\ pub \in 0..MaxSeq /\ publedgers \in Seq(Ledgers)
      /\ find \in [seq : Nat, valseq : 0..MaxSeq, pubseq : Nat, acqcount : Nat]
  BY ZenonT(30) DEF IInv, TypeOK
<1>1. /\ told \in {0, pub}
      /\ find.valseq <= valid /\ find.valseq \in have
      /\ find.pubseq = pub + 1 + Len(publedgers)
      /\ find.pubseq <= find.seq /\ find.seq <= find.valseq + 1
      /\ Interval(pub + 1, valid)
  BY ZenonT(30) DEF IInv, FindOK
<1>2. /\ find'.valseq = find.valseq /\ find'.seq = find.seq + 1
      /\ find' \in [seq : Nat, valseq : 0..MaxSeq, pubseq : Nat, acqcount : Nat]
  <2> DEFINE q == IF found /\ find.seq = find.pubseq THEN find.pubseq + 1 ELSE find.pubseq
             n == IF find.seq = find.valseq \/ find.seq \in have THEN 0 ELSE 1
  <2>1. find' = [find EXCEPT !.seq = find.seq + 1, !.pubseq = q, !.acqcount = find.acqcount + n]
    BY <1>0 DEF Found
  <2>2. q \in Nat /\ n \in Nat BY <1>0
  <2> HIDE DEF q, n
  <2>3. find' = [seq |-> find.seq + 1, valseq |-> find.valseq, pubseq |-> q, acqcount |-> find.acqcount + n]
    BY <1>0, <2>1, ZenonT(30)
  <2>4. find.seq + 1 \in Nat /\ find.valseq \in 0..MaxSeq /\ find.acqcount + n \in Nat
    BY <1>0, <2>2, SMTT(30)
  <2> QED BY <2>2, <2>3, <2>4, ZenonT(30)
<1>3. CASE found /\ find.seq = find.pubseq
  <2>1. publedgers' = Append(publedgers, find.seq) /\ find'.pubseq = find.pubseq + 1
    BY <1>3, <1>0 DEF Found
  <2>2. find.seq \in Ledgers BY <1>0, <1>1, SMTT(30) DEF Ledgers
  <2>3. publedgers' \in Seq(Ledgers) /\ Len(publedgers') = Len(publedgers) + 1
    BY <2>1, <2>2, <1>0, SMTT(30)
  <2>4. Interval(pub + 1, valid)'
    <3> SUFFICES ASSUME NEW i \in 1..Len(publedgers')
                 PROVE  /\ publedgers'[i] = pub + 1 + (i - 1) /\ publedgers'[i] <= valid
                        /\ publedgers'[i] \in have'
      BY ZenonT(30) DEF Interval
    <3>1. CASE i <= Len(publedgers)
      <4>1. i \in 1..Len(publedgers) /\ publedgers'[i] = publedgers[i]
        BY <3>1, <2>1, <2>2, <2>3, <1>0, SMTT(30)
      <4> QED BY <4>1, <1>1, ZenonT(30) DEF Interval
    <3>2. CASE i = Len(publedgers) + 1
      <4>1. publedgers'[i] = find.seq BY <3>2, <2>1, <2>2, <1>0, SMTT(30)
      <4> QED BY <4>1, <3>2, <1>0, <1>1, <1>3, SMTT(30)
    <3> QED BY <3>1, <3>2, <2>3, <1>0, SMTT(30)
  <2>5. FindOK' BY <2>1, <2>3, <2>4, <1>0, <1>1, <1>2, <1>3, SMTT(30) DEF FindOK
  <2>6. PubOK' /\ IdleOK' /\ PublishOK' BY ZenonT(30) DEF IInv, PubOK, IdleOK, PublishOK
  <2> QED BY <2>3, <2>5, <2>6, <1>2, ZenonT(30)
<1>4. CASE ~(found /\ find.seq = find.pubseq)
  <2>1. publedgers' = publedgers /\ find'.pubseq = find.pubseq BY <1>4, <1>0, SMTT(30) DEF Found
  <2>2. find.pubseq <= find'.seq BY <1>0, <1>1, <1>2, SMTT(30)
  <2>3. Interval(pub + 1, valid)' BY <2>1, <1>1, ZenonT(30) DEF Interval
  <2>4. FindOK' BY <2>1, <2>2, <2>3, <1>0, <1>1, <1>2, SMTT(30) DEF FindOK
  <2>5. PubOK' /\ IdleOK' /\ PublishOK' BY ZenonT(30) DEF IInv, PubOK, IdleOK, PublishOK
  <2> QED BY <2>1, <2>4, <2>5, <1>0, <1>2, ZenonT(30)
<1> QED BY <1>3, <1>4, ZenonT(30)

\* findnewledgerstopublish looks for one more ledger.
LEMMA FindLedgerKeeps ==
    ASSUME IInv, FindLedger
    PROVE  IInv'
<1>1. UNCHANGED <<validations, checks, accepts, dispatched, fails, valid, building, build, rounds, setback,
                  pub, adv, advancework, told, history>>
  BY ZenonT(30) DEF FindLedger, valvars, buildvars
<1>2. find.seq \in Ledgers
  <2>1. /\ pub \in 0..MaxSeq /\ publedgers \in Seq(Ledgers)
        /\ find \in [seq : Nat, valseq : 0..MaxSeq, pubseq : Nat, acqcount : Nat]
    BY ZenonT(30) DEF IInv, TypeOK
  <2>2. find.pubseq = pub + 1 + Len(publedgers) /\ find.pubseq <= find.seq /\ find.seq <= find.valseq
    BY ZenonT(30) DEF FindLedger, IInv, FindOK
  <2> QED BY <2>1, <2>2, SMTT(30) DEF Ledgers
<1>3. \E found \in BOOLEAN :
         /\ Found(found) /\ (found => find.seq \in have')
         /\ have \subseteq have' /\ have' \subseteq Ledgers
         /\ acquiring' \in [Ledgers -> {"none", "active", "complete", "failed"}]
  <2>0. /\ have \subseteq Ledgers /\ find.valseq \in have
        /\ acquiring \in [Ledgers -> {"none", "active", "complete", "failed"}]
    BY ZenonT(30) DEF FindLedger, IInv, TypeOK, FindOK
  <2>1. CASE /\ find.seq = find.valseq \/ find.seq \in have
             /\ Found(TRUE) /\ UNCHANGED <<have, acquiring>>
    BY <2>0, <2>1, Zenon
  <2>2. CASE Found(FALSE) /\ UNCHANGED <<have, acquiring>>
    BY <2>0, <2>2, Zenon
  <2>3. ASSUME NEW x \in {"none", "active", "complete", "failed"}, NEW a \in FindCreate(x),
               acquiring' = [acquiring EXCEPT ![find.seq] = a],
               have' = (IF a = "complete" THEN have \cup {find.seq} ELSE have),
               Found(a = "complete")
        PROVE  \E found \in BOOLEAN :
                  /\ Found(found) /\ (found => find.seq \in have')
                  /\ have \subseteq have' /\ have' \subseteq Ledgers
                  /\ acquiring' \in [Ledgers -> {"none", "active", "complete", "failed"}]
    <3>1. a \in {"none", "active", "complete", "failed"} BY ZenonT(30) DEF FindCreate
    <3>2. acquiring' \in [Ledgers -> {"none", "active", "complete", "failed"}]
      BY <3>1, <2>3, <2>0, ZenonT(30)
    <3>3. have \subseteq have' /\ have' \subseteq Ledgers /\ (a = "complete" => find.seq \in have')
      BY <2>3, <2>0, <1>2, ZenonT(30)
    <3>4. (a = "complete") \in BOOLEAN OBVIOUS
    <3> QED BY <3>2, <3>3, <3>4, <2>3, ZenonT(30)
  <2>4. (IF acquiring[find.seq] = "failed" THEN "none" ELSE acquiring[find.seq])
           \in {"none", "active", "complete", "failed"}
    BY <2>0, <1>2, ZenonT(30)
  <2> QED BY <2>1, <2>2, <2>3, <2>4, ZenonT(30) DEF FindLedger
<1>4. PICK found \in BOOLEAN :
         /\ Found(found) /\ (found => find.seq \in have')
         /\ have \subseteq have' /\ have' \subseteq Ledgers
         /\ acquiring' \in [Ledgers -> {"none", "active", "complete", "failed"}]
  BY <1>3, ZenonT(30)
<1>5. adv = "find" /\ find.seq <= find.valseq BY ZenonT(30) DEF FindLedger
<1>6. /\ find' \in [seq : Nat, valseq : 0..MaxSeq, pubseq : Nat, acqcount : Nat]
      /\ publedgers' \in Seq(Ledgers)
      /\ PubOK' /\ IdleOK' /\ FindOK' /\ PublishOK'
  BY <1>1, <1>4, <1>5, FoundKeeps, ZenonT(30)
<1>7. TypeOK' BY <1>1, <1>4, <1>6, ZenonT(30) DEF IInv, TypeOK
<1>8. HeldOK' /\ CountOK' BY <1>1, <1>4, ZenonT(30) DEF IInv, HeldOK, CountOK, TrustedCount
<1> QED BY <1>6, <1>7, <1>8, ZenonT(30) DEF IInv

\* A ledger is published.
LEMMA PublishKeeps ==
    ASSUME IInv, Publish
    PROVE  IInv'
<1>0. /\ adv = "publish" /\ adv' = "published" /\ told' = Head(publedgers)
      /\ have' = have \cup {Head(publedgers)}
      /\ UNCHANGED <<validations, checks, accepts, acquiring, dispatched, fails, valid, building,
                     build, rounds, setback, pub, advancework, find, publedgers, history>>
  BY ZenonT(30) DEF Publish, valvars, buildvars
<1>1. publedgers \in Seq(Ledgers) /\ Len(publedgers) > 0 /\ Interval(publedgers[1], valid)
  BY <1>0, ZenonT(30) DEF IInv, TypeOK, PublishOK
<1>2. Head(publedgers) = publedgers[1] /\ publedgers[1] \in have /\ publedgers[1] \in Ledgers
  BY <1>1, SMTT(30) DEF Interval
<1>3. have' = have /\ told' = publedgers[1] /\ told' \in 0..MaxSeq
  BY <1>0, <1>2, SMTT(30) DEF Ledgers
<1>4. TypeOK' BY <1>0, <1>3, ZenonT(30) DEF IInv, TypeOK
<1>5. HeldOK' /\ CountOK' BY <1>0, <1>3, ZenonT(30) DEF IInv, HeldOK, CountOK, TrustedCount
<1>6. /\ pub \in 0..MaxSeq /\ pub <= valid /\ pub # 0 /\ valid # 0 /\ pub \in have
      /\ told' <= valid /\ told' \in have
  <2>1. pub \in 0..MaxSeq /\ pub <= valid /\ pub # 0 /\ valid # 0 /\ pub \in have
    BY <1>0, ZenonT(30) DEF IInv, TypeOK, PubOK
  <2>2. publedgers[1] <= valid BY <1>1, SMTT(30) DEF Interval
  <2> QED BY <2>1, <2>2, <1>2, <1>3, ZenonT(30)
<1>7. PubOK' /\ IdleOK' /\ FindOK' BY <1>0, <1>3, <1>6, ZenonT(30) DEF PubOK, IdleOK, FindOK
<1>8. Interval(publedgers[1], valid)' BY <1>0, <1>1, <1>3, ZenonT(30) DEF Interval
<1>9. PublishOK' BY <1>0, <1>1, <1>3, <1>8, ZenonT(30) DEF PublishOK
<1> QED BY <1>4, <1>5, <1>7, <1>9, ZenonT(30) DEF IInv

\* setpubledger.
LEMMA SetPubLedgerKeeps ==
    ASSUME IInv, SetPubLedger
    PROVE  IInv'
<1>0. /\ adv = "published"
      /\ UNCHANGED <<validations, checks, accepts, have, acquiring, dispatched, fails, valid,
                     building, build, rounds, setback, told, history>>
  BY ZenonT(30) DEF SetPubLedger, valvars, acqvars, buildvars
<1>1. /\ publedgers \in Seq(Ledgers) /\ Len(publedgers) > 0 /\ Interval(publedgers[1], valid)
      /\ told = publedgers[1] /\ valid \in 0..MaxSeq
  BY <1>0, ZenonT(30) DEF IInv, TypeOK, PublishOK
<1>2. /\ Head(publedgers) = publedgers[1] /\ publedgers[1] <= valid /\ publedgers[1] \in 1..MaxSeq
      /\ publedgers[1] \in have
  BY <1>1, SMTT(30) DEF Interval, Ledgers
<1>3. history' \in {"none", "missing", "acquiring", "here"} BY <1>0, ZenonT(30) DEF IInv, TypeOK
<1>4. CASE NextPass(Head(publedgers))
  <2>1. NextPass(publedgers[1]) /\ told \in {0, publedgers[1]} BY <1>1, <1>2, <1>4, ZenonT(30)
  <2> QED BY <1>0, <1>2, <1>3, <2>1, NextPassKeeps, AdvanceKeepsRest, ZenonT(30)
<1>5. CASE /\ Len(publedgers) > 1 /\ pub' = Head(publedgers) /\ publedgers' = Tail(publedgers)
           /\ adv' = "publish" /\ UNCHANGED <<advancework, find>>
  <2>1. /\ publedgers' \in Seq(Ledgers) /\ Len(publedgers') = Len(publedgers) - 1
        /\ \A i \in 1..Len(publedgers') : publedgers'[i] = publedgers[i + 1]
    BY <1>1, <1>5, SMTT(30)
  <2>2. \A i \in 1..Len(publedgers') : i + 1 \in 1..Len(publedgers)
    BY <1>1, <2>1, SMTT(30)
  <2>3. \A i \in 1..Len(publedgers') :
           /\ publedgers'[i] = publedgers[1] + i /\ publedgers'[i] <= valid
           /\ publedgers'[i] \in have
    BY <1>1, <1>2, <2>1, <2>2, SMTT(30) DEF Interval
  <2>4. publedgers'[1] = pub' + 1 /\ pub' = told /\ Len(publedgers') > 0
    BY <1>1, <1>2, <1>5, <2>1, <2>3, SMTT(30)
  <2>5. Interval(publedgers[1], valid)'
    <3>1. publedgers'[1] = publedgers[1] + 1 BY <2>3, <2>4
    <3>2. \A i \in 1..Len(publedgers') : publedgers'[i] = publedgers'[1] + (i - 1)
      BY <3>1, <2>3, <1>2, SMTT(30)
    <3> QED BY <1>0, <2>3, <3>2, ZenonT(30) DEF Interval
  <2>6. PublishOK' BY <1>0, <1>5, <2>4, <2>5, ZenonT(30) DEF PublishOK
  <2>7. PubOK' /\ IdleOK' /\ FindOK'
    <3>1. pub' = publedgers[1] /\ pub' \in have' /\ pub' <= valid' /\ pub' # 0
      BY <1>0, <1>1, <1>2, <1>5, SMTT(30) DEF Ledgers
    <3>2. valid' # 0 /\ told' <= valid' /\ (told' # 0 => told' \in have')
      BY <1>0, ZenonT(30) DEF IInv, PubOK
    <3>3. PubOK' BY <3>1, <3>2, SMTT(30) DEF PubOK
    <3> QED BY <3>3, <1>5, ZenonT(30) DEF IdleOK, FindOK
  <2>8. /\ advancework' \in BOOLEAN /\ pub' \in 0..MaxSeq
        /\ find' \in [seq : Nat, valseq : 0..MaxSeq, pubseq : Nat, acqcount : Nat]
    BY <1>2, <1>5, SMTT(30) DEF IInv, TypeOK
  <2> QED BY <1>0, <1>3, <1>5, <2>1, <2>6, <2>7, <2>8, AdvanceKeepsRest, ZenonT(30)
<1> QED BY <1>4, <1>5, ZenonT(30) DEF SetPubLedger

-----------------------------------------------------------------------------
\* The validated ledger is only moved by checkaccept, which keeps the invariant.
LEMMA StepKeeps ==
    ASSUME IInv, [Next]_vars
    PROVE  IInv' /\ valid' >= valid
<1>0. valid \in Int BY DEF IInv, TypeOK
<1>1. ASSUME NEW p \in Sent, AddValidation(p[1], p[2]) PROVE IInv' /\ valid' = valid
  <2>1. p[1] \in Validators /\ p[2] \in Ledgers BY SMTT(30)
  <2>2. valid' = valid BY <1>1, ZenonT(30) DEF AddValidation
  <2> QED BY <1>1, <2>1, <2>2, AddValidationKeeps
<1>2. ASSUME Check PROVE IInv' /\ valid' = valid
  BY <1>2, CheckAcceptHashKeeps, Zenon DEF Check, CheckAcceptHash
<1>3. ASSUME AcceptNext PROVE IInv' /\ valid' >= valid
  BY <1>3, CheckAcceptLedgerKeeps, ZenonT(30) DEF AcceptNext
<1>4. ASSUME NEW l \in Ledgers, AcquireDone(l) \/ AcquireFail(l) \/ Sweep(l) PROVE IInv' /\ valid' = valid
  <2>1. valid' = valid BY <1>4, Zenon DEF AcquireDone, AcquireFail, Sweep
  <2> QED BY <1>4, <2>1, AcquireKeeps, ZenonT(30)
<1>5. ASSUME NEW l \in Ledgers, Dispatch(l) PROVE IInv' /\ valid' = valid
  <2>1. valid' = valid BY <1>5, ZenonT(30) DEF Dispatch
  <2> QED BY <1>5, <2>1, DispatchKeeps, ZenonT(30)
<1>6. ASSUME NEW s \in Ledgers, SetBuildingLedger(s) PROVE IInv' /\ valid' = valid
  <2>1. valid' = valid BY <1>6, ZenonT(30) DEF SetBuildingLedger
  <2> QED BY <1>6, <2>1, SetBuildingLedgerKeeps, ZenonT(30)
<1>7. ASSUME Consensus PROVE IInv' /\ valid' >= valid
  BY <1>7, ConsensusKeeps, ZenonT(30)
<1>8. ASSUME Advance PROVE IInv' /\ valid' = valid
  <2>1. valid' = valid
    BY <1>8, Zenon
       DEF Advance, AdvanceThread, FindLedger, FindReturns, Publish, SetPubLedger, FetchHistory
  <2> QED BY <1>8, <2>1, AdvanceThreadKeeps, FindLedgerKeeps, FindReturnsKeeps, PublishKeeps,
             SetPubLedgerKeeps, FetchHistoryKeeps, SMTT(30) DEF Advance
<1>9. ASSUME HistoryDone PROVE IInv' /\ valid' = valid
  <2>1. valid' = valid BY <1>9, ZenonT(30) DEF HistoryDone
  <2> QED BY <1>9, <2>1, HistoryDoneKeeps, ZenonT(30)
<1>10. ASSUME UNCHANGED vars PROVE IInv' /\ valid' = valid
  <2>1. UNCHANGED <<validations, checks, accepts, have, acquiring, dispatched, fails, valid,
                    building, build, rounds, setback, pub, adv, advancework, find, publedgers, told, history>>
    BY <1>10, ZenonT(30) DEF vars, valvars, acqvars, buildvars, advvars
  <2>2. TypeOK' BY <2>1, ZenonT(30) DEF IInv, TypeOK
  <2>3. HeldOK' /\ CountOK' BY <2>1, ZenonT(30) DEF IInv, HeldOK, CountOK, TrustedCount
  <2>4. PubOK' /\ IdleOK' /\ FindOK' /\ PublishOK' BY <2>1, QuietKeeps, ZenonT(30)
  <2> QED BY <2>1, <2>2, <2>3, <2>4, ZenonT(30) DEF IInv
<1>11. valid' = valid => valid' >= valid BY <1>0
<1> QED BY <1>1, <1>2, <1>3, <1>4, <1>5, <1>6, <1>7, <1>8, <1>9, <1>10, <1>11, ZenonT(30) DEF Next

\* The invariant holds in every reachable state.
THEOREM Invariance == Spec => []IInv
<1>1. IInv /\ [Next]_vars => IInv' BY StepKeeps
<1> QED BY InitOK, <1>1, PTL DEF Spec

\* The state of LedgerMaster is well typed; in particular no ledger outside the
\* chain is ever listed for publication.
THEOREM TypeCorrect == Spec => []TypeOK
<1>1. IInv => TypeOK BY DEF IInv
<1> QED BY Invariance, <1>1, PTL

\* For any validators and quorum, a ledger that checkaccept made the validated one
\* is held and a quorum validated it.
THEOREM ValidIsBacked == Spec => []ValidatedBacked
<1>1. IInv => ValidatedBacked BY ZenonT(30) DEF IInv, HeldOK, CountOK, ValidatedBacked
<1> QED BY Invariance, <1>1, PTL

\* The validated ledger never moves back, however calls of checkaccept race.
THEOREM ValidMovesForward == Spec => ValidatedForward
<1>1. IInv /\ [Next]_vars => [valid' >= valid]_valid BY StepKeeps, ZenonT(30)
<1> QED BY Invariance, <1>1, PTL DEF Spec, ValidatedForward

\* Nothing is published before it, or a ledger after it, is validated, and
\* everything that is published or about to be is held.
THEOREM PublishesValidated == Spec => []PublishedValidated
<1>1. IInv => PublishedValidated
  <2> SUFFICES ASSUME IInv PROVE PublishedValidated BY ZenonT(30)
  <2>1. /\ valid \in 0..MaxSeq /\ pub \in 0..MaxSeq /\ told \in 0..MaxSeq /\ publedgers \in Seq(Ledgers)
        /\ adv \in {"none", "queued", "find", "publish", "published", "history"}
    BY ZenonT(30) DEF IInv, TypeOK
  <2>2. pub <= valid /\ told <= valid /\ (told # 0 => told \in have) BY ZenonT(30) DEF IInv, PubOK
  <2>3. \A i \in DOMAIN publedgers : publedgers[i] <= valid /\ publedgers[i] \in have
    <3>1. CASE adv = "find" BY <3>1, <2>1, SMTT(30) DEF IInv, FindOK, Interval
    <3>2. CASE adv \in {"publish", "published"} BY <3>2, <2>1, SMTT(30) DEF IInv, PublishOK, Interval
    <3>3. CASE adv \in {"none", "queued", "history"} BY <3>3, <2>1 DEF IInv, IdleOK
    <3> QED BY <3>1, <3>2, <3>3, <2>1, ZenonT(30)
  <2> QED BY <2>1, <2>2, <2>3, ZenonT(30) DEF PublishedValidated
<1> QED BY Invariance, <1>1, PTL

\* Ledgers are announced in order, each once and without a hole, but for gaps larger
\* than max_ledger_gap, although the advance thread gives its lock away.
THEOREM PublishesInOrder == Spec => PublishedInOrder
<1>1. IInv /\ [Next]_vars =>
        [\/ told' = pub + 1 /\ told \in {0, pub}
         \/ told' = pub /\ told' > told + max_ledger_gap]_told
  <2> SUFFICES ASSUME IInv, [Next]_vars, told' # told
               PROVE  \/ told' = pub + 1 /\ told \in {0, pub}
                      \/ told' = pub /\ told' > told + max_ledger_gap
    BY ZenonT(30)
  <2>1. Publish
    <3>1. CASE \E p \in Sent : AddValidation(p[1], p[2]) BY <3>1, ZenonT(30) DEF AddValidation
    <3>2. CASE Check BY <3>2, ZenonT(30) DEF Check, CheckAcceptHash
    <3>3. CASE AcceptNext BY <3>3, ZenonT(30) DEF AcceptNext, CheckAcceptLedger
    <3>4. CASE \E l \in Ledgers : AcquireDone(l) \/ AcquireFail(l) \/ Sweep(l) \/ Dispatch(l)
      BY <3>4, ZenonT(30) DEF AcquireDone, AcquireFail, Sweep, Dispatch
    <3>5. CASE \E s \in Ledgers : SetBuildingLedger(s) BY <3>5, ZenonT(30) DEF SetBuildingLedger
    <3>6. CASE Consensus BY <3>6, Zenon DEF Consensus, ConsensusBuilt, ConsensusAccept, ConsensusScan
    <3>7. CASE Advance
      BY <3>7, ZenonT(30) DEF Advance, AdvanceThread, FindLedger, FindReturns, SetPubLedger, FetchHistory
    <3>8. CASE HistoryDone BY <3>8, ZenonT(30) DEF HistoryDone
    <3>9. CASE UNCHANGED vars BY <3>9, ZenonT(30) DEF vars
    <3> QED BY <3>1, <3>2, <3>3, <3>4, <3>5, <3>6, <3>7, <3>8, <3>9, ZenonT(30) DEF Next
  <2>2. adv = "publish" /\ told' = Head(publedgers) BY <2>1, ZenonT(30) DEF Publish
  <2>3. publedgers \in Seq(Ledgers) /\ Len(publedgers) > 0 BY <2>2, ZenonT(30) DEF IInv, TypeOK, PublishOK
  <2>4. told' = publedgers[1] BY <2>2, <2>3
  <2> QED BY <2>2, <2>4, ZenonT(30) DEF IInv, PublishOK
<1> QED BY Invariance, <1>1, PTL DEF Spec, PublishedInOrder

-----------------------------------------------------------------------------
(***************************************************************************)
(* No request is lost: the safety half of QuorumValidated and of           *)
(* PublishedCatchesUp.  CheckInv strengthens CheckPending by what lets     *)
(* consensusbuilt find a ledger whose check was dropped: its sequence is   *)
(* known from a validation, or the ledger is held or coming.  PubInv       *)
(* strengthens PublicationPending by what the loop of                      *)
(* findnewledgerstopublish has done: past the first ledger it missed, that *)
(* ledger is coming or madvancework is set.                                *)
(***************************************************************************)
CheckShape == \A c \in checks : c.seq \in {0, c.ledger}

NoneFailed == fails = 0 => \A l \in Ledgers : acquiring[l] # "failed"

SeqKnown ==
    fails = 0 => \A l \in Ledgers, v \in NoSeq :
        v \in CurrentFor(l) =>
            l \in have \/ acquiring[l] = "active" \/ [ledger |-> l, seq |-> 0] \in checks

CheckInv == CheckShape /\ NoneFailed /\ SeqKnown /\ CheckPending

FindPending ==
    adv = "find" =>
        /\ find.valseq > pub
        /\ publedgers = <<>> /\ find.seq = pub + 1 => find.acqcount = 0
        /\ fails = 0 /\ publedgers = <<>> /\ find.seq # pub + 1 => advancework \/ Coming(pub + 1)

PubInv == PublicationPending /\ FindPending

\* The numbers of the state, each by itself.
LEMMA NumbersOfState ==
    ASSUME TypeOK
    PROVE  /\ valid \in Int /\ valid \in Nat /\ building \in Int /\ building \in 0..MaxSeq
           /\ pub \in Nat /\ fails \in Nat
<1>1. /\ valid \in 0..MaxSeq /\ building \in 0..MaxSeq /\ pub \in 0..MaxSeq
      /\ fails \in 0..MaxFails
  BY Zenon DEF TypeOK
<1> QED BY <1>1, LedgerMasterAssumption

\* A list to which a ledger was appended is not empty.
LEMMA AppendedNotEmpty ==
    ASSUME NEW S, NEW list \in Seq(S), NEW e \in S
    PROVE  Append(list, e) # <<>>
OBVIOUS

\* The counts of validations: the current ones of a ledger are some of all, and no
\* ledger ever needs more than AlwaysEnough.
LEMMA CountsOfValidations ==
    ASSUME TypeOK, NEW l \in Ledgers
    PROVE  /\ CurrentFor(l) \subseteq Validators /\ IsFiniteSet(CurrentFor(l))
           /\ Cardinality(CurrentFor(l)) \in Nat /\ TrustedCount(l) \in Nat
           /\ Cardinality(CurrentFor(l)) <= TrustedCount(l)
           /\ TrustedCount(l) <= Cardinality(Validators) /\ Cardinality(Validators) \in Nat
<1>1. CurrentFor(l) \subseteq validations[l] /\ validations[l] \subseteq Validators
  BY ZenonT(30) DEF TypeOK, CurrentFor
<1>2. IsFiniteSet(validations[l]) /\ IsFiniteSet(CurrentFor(l)) /\ IsFiniteSet(Validators)
  BY <1>1, FS_Subset, ZenonT(30)
<1> QED BY <1>1, <1>2, FS_Subset, FS_CardinalityType, ZenonT(30) DEF TrustedCount

\* getneededvalidations never asks for more than AlwaysEnough.
LEMMA NeverNeedsMore ==
    ASSUME TypeOK
    PROVE  /\ NeededValidations \in Nat /\ AlwaysEnough \in Nat
           /\ NeededValidations <= AlwaysEnough /\ mminvalidations <= NeededValidations
<1>1. PICK n \in Nat : n = Cardinality(Validators)
  BY FS_CardinalityType, ZenonT(30)
<1>2. PICK k \in Nat : k = (IF valid = 0 THEN 0 ELSE TrustedCount(valid)) /\ k <= n
  <2>1. CASE valid = 0 BY <2>1, <1>1
  <2>2. CASE valid # 0
    <3>1. valid \in Ledgers BY <2>2 DEF TypeOK, Ledgers
    <3> QED BY <2>2, <3>1, <1>1, CountsOfValidations, ZenonT(30)
  <2> QED BY <2>1, <2>2, ZenonT(30)
<1>3. (k * 150) \div 256 \in Nat /\ (n * 150) \div 256 \in Nat /\ (k * 150) \div 256 <= (n * 150) \div 256
  BY <1>2, SMTT(30)
<1>4. NeededValidations = IF (k * 150) \div 256 > mminvalidations THEN (k * 150) \div 256 ELSE mminvalidations
  <2>1. CASE valid = 0 BY <2>1, <1>2 DEF NeededValidations
  <2>2. CASE valid # 0 BY <2>2, <1>2, ZenonT(30) DEF NeededValidations, min_validation_ratio
  <2> QED BY <2>1, <2>2, ZenonT(30)
<1>5. AlwaysEnough = IF (n * 150) \div 256 > mminvalidations THEN (n * 150) \div 256 ELSE mminvalidations
  BY <1>1, ZenonT(30) DEF AlwaysEnough, min_validation_ratio
<1> QED BY <1>3, <1>4, <1>5

\* A ledger that has more than enough current validations is accepted when
\* checkaccept gets to it.
LEMMA EnoughIsAccepted ==
    ASSUME TypeOK, NEW l \in Ledgers, NEW then, Cardinality(CurrentFor(l)) > AlwaysEnough, l > valid,
           Accept(l, then)
    PROVE  valid' = l
<1>1. TrustedCount(l) >= NeededValidations
  BY CountsOfValidations, NeverNeedsMore
<1> QED BY <1>1, ZenonT(30) DEF Accept

\* What keeps the validations keeps CheckPending if it keeps what is under way.
LEMMA CheckFrame ==
    ASSUME TypeOK, TypeOK', CheckPending, validations' = validations, valid' >= valid,
           fails' = 0 => fails = 0, setback => setback',
           ASSUME NEW l \in Ledgers, fails' = 0, ~setback', l > valid, l > valid',
                  Cardinality(CurrentFor(l)) > AlwaysEnough, ~Contested(l), UnderWay(l)
           PROVE  UnderWay(l)'
    PROVE  CheckPending'
<1> SUFFICES ASSUME NEW l \in Ledgers, fails' = 0, ~setback', l > valid',
                    Cardinality(CurrentFor(l))' > AlwaysEnough, ~Contested(l)'
             PROVE  UnderWay(l)'
  BY ZenonT(30) DEF CheckPending, AlwaysEnough
<1>1. Cardinality(CurrentFor(l)) > AlwaysEnough /\ ~Contested(l)
  BY ZenonT(30) DEF CurrentFor, Contested, TrustedCount
<1>2. l > valid
  <2>1. valid \in Int BY NumbersOfState, Zenon
  <2>2. valid' \in 0..MaxSeq BY Zenon DEF TypeOK
  <2> QED BY <2>1, <2>2 DEF Ledgers
<1>3. UnderWay(l)
  BY <1>1, <1>2, ZenonT(30) DEF CheckPending
<1> QED BY <1>1, <1>2, <1>3, ZenonT(30)

\* What keeps the validations and the checks keeps SeqKnown and the rest if held
\* ledgers are kept, acquisitions end only by completing, and none has failed.
LEMMA CheckRestFrame ==
    ASSUME TypeOK, CheckInv, validations' = validations, checks' = checks, fails' = 0 => fails = 0,
           have \subseteq have',
           ASSUME NEW l \in Ledgers, fails' = 0
           PROVE  /\ acquiring[l] # "failed" => acquiring'[l] # "failed"
                  /\ acquiring[l] = "active" => acquiring'[l] = "active" \/ l \in have'
    PROVE  CheckShape' /\ NoneFailed' /\ SeqKnown'
<1>1. CheckShape'
  BY ZenonT(30) DEF CheckInv, CheckShape
<1>2. NoneFailed'
  BY ZenonT(30) DEF CheckInv, NoneFailed
<1>3. \A l \in Ledgers : CurrentFor(l)' = CurrentFor(l)
  BY ZenonT(30) DEF CurrentFor
<1>4. SeqKnown'
  BY <1>3, ZenonT(30) DEF CheckInv, SeqKnown
<1> QED BY <1>1, <1>2, <1>4, ZenonT(30)

\* A validation arrives, with its check if it is the current one of its node.
LEMMA AddValidationPending ==
    ASSUME IInv, IInv', CheckInv, NEW v \in Validators, NEW l \in Ledgers, AddValidation(v, l)
    PROVE  CheckInv'
<1> DEFINE older == \E m \in Ledgers : m > l /\ v \in validations[m]
           check == [ledger |-> l, seq |-> IF v \in NoSeq THEN 0 ELSE l]
<1>1. /\ validations' = [validations EXCEPT ![l] = @ \cup {v}]
      /\ checks' = (IF older THEN checks ELSE checks \cup {check})
      /\ UNCHANGED <<accepts, have, acquiring, dispatched, fails, valid, building, build, setback>>
  BY ZenonT(30) DEF AddValidation, acqvars, buildvars
<1>2. TypeOK /\ TypeOK'
  BY ZenonT(30) DEF IInv
<1>3. \A m \in Ledgers : validations'[m] = IF m = l THEN validations[l] \cup {v} ELSE validations[m]
  BY <1>1, <1>2, ZenonT(30) DEF TypeOK
<1>4. ASSUME NEW m \in Ledgers, NEW w \in CurrentFor(m)'
      PROVE  w \in CurrentFor(m) \/ (m = l /\ w = v /\ ~older)
  <2>1. w \in validations'[m] /\ \A k \in Ledgers : w \in validations'[k] => k <= m
    BY <1>4, ZenonT(30) DEF CurrentFor
  <2>2. \A k \in Ledgers : w \in validations[k] => k <= m
    BY <2>1, <1>3, ZenonT(30)
  <2>3. CASE w \in validations[m]
    BY <2>2, <2>3, ZenonT(30) DEF CurrentFor
  <2>4. CASE w \notin validations[m]
    <3>1. m = l /\ w = v
      BY <2>1, <2>4, <1>3, ZenonT(30)
    <3>2. ~older
      BY <3>1, <2>2 DEF Ledgers
    <3> QED BY <3>1, <3>2, ZenonT(30)
  <2> QED BY <2>3, <2>4, ZenonT(30)
<1>5. CheckShape' /\ NoneFailed'
  <2>1. NoneFailed' BY <1>1, Zenon DEF CheckInv, NoneFailed
  <2>2. check.seq \in {0, check.ledger} OBVIOUS
  <2>3. \A c \in checks : c.seq \in {0, c.ledger} BY Zenon DEF CheckInv, CheckShape
  <2>4. \A c \in checks' : c \in checks \/ c = check BY <1>1, Zenon
  <2>5. CheckShape' BY <2>2, <2>3, <2>4, Zenon DEF CheckShape
  <2> QED BY <2>1, <2>5
<1>6. checks \subseteq checks' /\ (~older => check \in checks')
  BY <1>1, ZenonT(30)
<1>7. SeqKnown'
  <2> SUFFICES ASSUME NEW m \in Ledgers, NEW w \in NoSeq, w \in CurrentFor(m)', fails' = 0
               PROVE  m \in have' \/ acquiring'[m] = "active" \/ [ledger |-> m, seq |-> 0] \in checks'
    BY ZenonT(30) DEF SeqKnown
  <2>1. CASE w \in CurrentFor(m)
    BY <2>1, <1>1, <1>6, ZenonT(30) DEF CheckInv, SeqKnown
  <2>2. CASE m = l /\ w = v /\ ~older
    BY <2>2, <1>6, ZenonT(30)
  <2> QED BY <2>1, <2>2, <1>4, ZenonT(30)
<1>8. CheckPending'
  <2> SUFFICES ASSUME NEW m \in Ledgers, fails' = 0, ~setback', m > valid',
                      Cardinality(CurrentFor(m))' > AlwaysEnough, ~Contested(m)'
               PROVE  UnderWay(m)'
    BY ZenonT(30) DEF CheckPending, AlwaysEnough
  <2>1. CASE m = l /\ ~older
    <3>1. check \in checks' /\ check.ledger = m
      BY <2>1, <1>6, ZenonT(30)
    <3> QED BY <3>1, ZenonT(30) DEF UnderWay
  <2>2. CASE ~(m = l /\ ~older)
    <3>1. CurrentFor(m)' \subseteq CurrentFor(m)
      BY <2>2, <1>4, ZenonT(30)
    <3>2. /\ Cardinality(CurrentFor(m)') <= Cardinality(CurrentFor(m))
          /\ Cardinality(CurrentFor(m)') \in Nat /\ Cardinality(CurrentFor(m)) \in Nat
      BY <3>1, <1>2, CountsOfValidations, FS_Subset, FS_CardinalityType, ZenonT(30)
    <3>3. Cardinality(CurrentFor(m)) > AlwaysEnough
      BY <3>2, <1>2, NeverNeedsMore
    <3>4. ~Contested(m)
      <4> SUFFICES ASSUME NEW k \in Ledgers, k > m, TrustedCount(k) > mminvalidations PROVE FALSE
        BY ZenonT(30) DEF Contested
      <4>1. validations[k] \subseteq validations'[k] /\ validations'[k] \subseteq Validators
        BY <1>2, <1>3, ZenonT(30) DEF TypeOK
      <4>2. IsFiniteSet(validations'[k])
        BY <4>1, FS_Subset, ZenonT(30)
      <4>3. TrustedCount(k) <= TrustedCount(k)' /\ TrustedCount(k) \in Nat /\ TrustedCount(k)' \in Nat
        BY <4>1, <4>2, FS_Subset, FS_CardinalityType, ZenonT(30) DEF TrustedCount
      <4>4. TrustedCount(k)' > mminvalidations
        BY <4>3
      <4> QED BY <4>4, ZenonT(30) DEF Contested
    <3>5. UnderWay(m)
      BY <3>3, <3>4, <1>1, ZenonT(30) DEF CheckInv, CheckPending
    <3> QED BY <3>5, <1>1, <1>6, ZenonT(30) DEF UnderWay
  <2> QED BY <2>1, <2>2, ZenonT(30)
<1> QED BY <1>5, <1>7, <1>8, ZenonT(30) DEF CheckInv

\* checkaccept for a hash: what it drops is old or being built, and what it does
\* not drop is held or acquired from now on.
LEMMA CheckAcceptHashPending ==
    ASSUME IInv, IInv', CheckInv, NEW c \in checks, CheckAcceptHash(c)
    PROVE  CheckInv'
<1>1. /\ checks' = checks \ {c}
      /\ UNCHANGED <<validations, dispatched, fails, valid, building, build, setback>>
  BY ZenonT(30) DEF CheckAcceptHash, buildvars
<1>2. TypeOK /\ TypeOK' /\ valid \in Int /\ c.ledger \in Ledgers
  <2>1. TypeOK /\ TypeOK' BY ZenonT(30) DEF IInv
  <2>2. c.ledger \in Ledgers
    <3>1. checks \subseteq [ledger : Ledgers, seq : 0..MaxSeq] BY <2>1, Zenon DEF TypeOK
    <3> QED BY <3>1
  <2>3. valid \in Int BY <2>1, NumbersOfState, Zenon
  <2> QED BY <2>1, <2>2, <2>3, ZenonT(30)
<1>3. c.seq \in {0, c.ledger}
  BY ZenonT(30) DEF CheckInv, CheckShape
<1> DEFINE Kept ==
        /\ have \subseteq have' /\ accepts \subseteq accepts'
        /\ \A l \in Ledgers : acquiring[l] = "active" => acquiring'[l] = "active"
        /\ fails = 0 => \A l \in Ledgers : acquiring'[l] # "failed"
        /\ \/ c.seq # 0 /\ (c.seq <= valid \/ c.seq = building)
           \/ c.ledger \in have' /\ (c.ledger > valid => \E d \in accepts' : d.ledger = c.ledger)
           \/ fails # 0
           \/ acquiring'[c.ledger] = "active"
<1>4. Kept
  <2>1. CASE UNCHANGED <<have, acquiring, accepts>> /\ c.seq # 0 /\ (c.seq <= valid \/ c.seq = building)
    BY <2>1, ZenonT(30) DEF CheckInv, NoneFailed
  <2>2. CASE accepts' = Enter(c.ledger, FALSE) /\ c.ledger \in have /\ UNCHANGED <<have, acquiring>>
    <3>1. accepts \subseteq accepts' /\ (c.ledger > valid => [ledger |-> c.ledger, then |-> FALSE] \in accepts')
      BY <2>2, <1>2 DEF Enter, Ledgers
    <3>2. [ledger |-> c.ledger, then |-> FALSE].ledger = c.ledger
      BY ZenonT(30)
    <3>3. c.ledger > valid => \E d \in accepts' : d.ledger = c.ledger
      BY <3>1, <3>2, Zenon
    <3> QED BY <2>2, <3>1, <3>3, ZenonT(30) DEF CheckInv, NoneFailed
  <2>3. ASSUME NEW a \in FindCreate(acquiring[c.ledger]),
               acquiring' = [acquiring EXCEPT ![c.ledger] = a],
               have' = (IF a = "complete" THEN have \cup {c.ledger} ELSE have),
               accepts' = (IF a = "complete" THEN Enter(c.ledger, FALSE) ELSE accepts)
        PROVE  Kept
    <3>1. acquiring \in [Ledgers -> {"none", "active", "complete", "failed"}]
      BY <1>2, ZenonT(30) DEF TypeOK
    <3>2. \A l \in Ledgers : acquiring'[l] = IF l = c.ledger THEN a ELSE acquiring[l]
      BY <2>3, <3>1, ZenonT(30)
    <3>3. /\ a \in {"active", "complete", "failed"} /\ (a = "failed" => acquiring[c.ledger] = "failed")
          /\ acquiring[c.ledger] = "active" => a = "active"
      BY <2>3, <3>1, <1>2, ZenonT(30) DEF FindCreate
    <3>4. fails = 0 => \A l \in Ledgers : acquiring[l] # "failed"
      BY ZenonT(30) DEF CheckInv, NoneFailed
    <3>5. CASE a = "complete"
      <4>1. accepts \subseteq accepts' /\ (c.ledger > valid => [ledger |-> c.ledger, then |-> FALSE] \in accepts')
        BY <2>3, <3>5, <1>2 DEF Enter, Ledgers
      <4>2. [ledger |-> c.ledger, then |-> FALSE].ledger = c.ledger
        BY ZenonT(30)
      <4>3. c.ledger > valid => \E d \in accepts' : d.ledger = c.ledger
        BY <4>1, <4>2, Zenon
      <4> QED BY <2>3, <3>2, <3>3, <3>4, <3>5, <4>1, <4>3, ZenonT(30)
    <3>6. CASE a # "complete"
      BY <2>3, <3>2, <3>3, <3>4, <3>6, <1>2, ZenonT(30)
    <3> QED BY <3>5, <3>6, ZenonT(30)
  <2> HIDE DEF Kept
  <2> QED BY <2>1, <2>2, <2>3, Zenon DEF CheckAcceptHash
<1>5. CheckShape' /\ NoneFailed'
  BY <1>1, <1>4, ZenonT(30) DEF CheckInv, CheckShape, NoneFailed
<1>6. SeqKnown'
  <2> SUFFICES ASSUME NEW m \in Ledgers, NEW w \in NoSeq, w \in CurrentFor(m)', fails' = 0
               PROVE  m \in have' \/ acquiring'[m] = "active" \/ [ledger |-> m, seq |-> 0] \in checks'
    BY ZenonT(30) DEF SeqKnown
  <2>1. m \in have \/ acquiring[m] = "active" \/ [ledger |-> m, seq |-> 0] \in checks
    BY <1>1, ZenonT(30) DEF CheckInv, SeqKnown, CurrentFor
  <2>2. CASE [ledger |-> m, seq |-> 0] = c
    <3>1. c.seq = 0 /\ c.ledger = m
      BY <2>2, ZenonT(30)
    <3> QED BY <3>1, <1>1, <1>4, ZenonT(30)
  <2>3. CASE [ledger |-> m, seq |-> 0] # c
    BY <2>1, <2>3, <1>1, <1>4, ZenonT(30)
  <2> QED BY <2>2, <2>3, ZenonT(30)
<1>7. CheckPending'
  <2>1. ASSUME NEW l \in Ledgers, fails' = 0, l > valid, UnderWay(l)
        PROVE  UnderWay(l)'
    <3>1. CASE c.ledger = l
      <4>1. c.seq # 0 /\ (c.seq <= valid \/ c.seq = building) => building = l
        BY <2>1, <3>1, <1>2, <1>3 DEF Ledgers
      <4>2. building = l => building' >= l
        BY <1>1 DEF Ledgers
      <4>3. \/ building' >= l
            \/ \E d \in accepts' : d.ledger = l
            \/ acquiring'[l] = "active"
        BY <2>1, <3>1, <4>1, <4>2, <1>1, <1>4, ZenonT(30)
      <4> QED BY <4>3, ZenonT(30) DEF UnderWay
    <3>2. CASE c.ledger # l
      <4>1. \A d \in checks : d.ledger = l => d \in checks'
        BY <3>2, <1>1, ZenonT(30)
      <4> QED BY <2>1, <4>1, <1>1, <1>4, ZenonT(30) DEF UnderWay
    <3> QED BY <3>1, <3>2, ZenonT(30)
  <2>2. valid' >= valid /\ CheckPending
    <3>1. valid' = valid /\ valid \in Int BY <1>1, <1>2, Zenon
    <3>2. CheckPending BY Zenon DEF CheckInv
    <3> QED BY <3>1, <3>2
  <2> QED BY <2>1, <2>2, <1>1, <1>2, CheckFrame
<1> QED BY <1>5, <1>6, <1>7, ZenonT(30) DEF CheckInv

\* checkaccept for a ledger, under the lock: it accepts what has enough.
LEMMA CheckAcceptLedgerPending ==
    ASSUME IInv, IInv', CheckInv, valid' >= valid, NEW c \in accepts, CheckAcceptLedger(c)
    PROVE  CheckInv'
<1>1. /\ accepts' = accepts \ {c} /\ Accept(c.ledger, c.then)
      /\ UNCHANGED <<validations, checks, have, acquiring, dispatched, fails, building, build, setback>>
  BY ZenonT(30) DEF CheckAcceptLedger, acqvars, buildvars
<1>2. TypeOK /\ TypeOK' /\ CheckPending
  BY ZenonT(30) DEF IInv, CheckInv
<1>3. ASSUME NEW l \in Ledgers, l > valid, l > valid', Cardinality(CurrentFor(l)) > AlwaysEnough,
             UnderWay(l)
      PROVE  UnderWay(l)'
  <2>1. CASE c.ledger = l
    <3>1. valid' = l
      BY <1>1, <1>2, <1>3, <2>1, EnoughIsAccepted, ZenonT(30)
    <3> QED BY <3>1, <1>3 DEF Ledgers
  <2>2. CASE c.ledger # l
    <3>1. \A d \in accepts : d.ledger = l => d \in accepts'
      BY <2>2, <1>1, ZenonT(30)
    <3> QED BY <3>1, <1>1, <1>3, ZenonT(30) DEF UnderWay
  <2> QED BY <2>1, <2>2, ZenonT(30)
<1>4. CheckPending'
  BY <1>1, <1>2, <1>3, CheckFrame
<1>5. CheckShape' /\ NoneFailed' /\ SeqKnown'
  BY <1>1, <1>2, CheckRestFrame
<1> QED BY <1>4, <1>5, ZenonT(30) DEF CheckInv

\* An acquisition ends; the job of one that ended well is queued.
LEMMA AcquirePending ==
    ASSUME IInv, IInv', CheckInv, NEW k \in Ledgers, AcquireDone(k) \/ AcquireFail(k) \/ Sweep(k)
    PROVE  CheckInv'
<1>1. UNCHANGED <<validations, checks, accepts, valid, building, build, setback>>
  BY ZenonT(30) DEF AcquireDone, AcquireFail, Sweep, valvars, buildvars
<1>2. TypeOK /\ TypeOK' /\ CheckPending
  BY ZenonT(30) DEF IInv, CheckInv
<1>3. /\ fails \in Nat /\ acquiring \in [Ledgers -> {"none", "active", "complete", "failed"}]
      /\ valid \in Int
  BY <1>2, NumbersOfState, Zenon DEF TypeOK
<1>4. /\ have \subseteq have' /\ dispatched \subseteq dispatched'
      /\ fails' = 0 => fails = 0
      /\ \A l \in Ledgers : l # k => acquiring'[l] = acquiring[l]
      /\ fails' = 0 => acquiring'[k] # "failed" /\ (acquiring[k] = "active" => k \in have' /\ k \in dispatched')
  <2>1. CASE AcquireDone(k) BY <2>1, <1>3, ZenonT(30) DEF AcquireDone
  <2>2. CASE AcquireFail(k) BY <2>2, <1>3 DEF AcquireFail
  <2>3. CASE Sweep(k) BY <2>3, <1>3 DEF Sweep
  <2> QED BY <2>1, <2>2, <2>3, ZenonT(30)
<1>5. CheckShape' /\ NoneFailed' /\ SeqKnown'
  BY <1>1, <1>2, <1>4, CheckRestFrame
<1>6. ASSUME NEW l \in Ledgers, fails' = 0, UnderWay(l)
      PROVE  UnderWay(l)'
  BY <1>1, <1>4, <1>6, ZenonT(30) DEF UnderWay
<1>7. valid' >= valid
  BY <1>1, <1>3
<1>8. CheckPending'
  BY <1>1, <1>2, <1>4, <1>6, <1>7, CheckFrame
<1> QED BY <1>5, <1>8, ZenonT(30) DEF CheckInv

\* The job of an acquisition calls checkaccept.
LEMMA DispatchPending ==
    ASSUME IInv, IInv', CheckInv, NEW k \in Ledgers, Dispatch(k)
    PROVE  CheckInv'
<1>1. /\ dispatched' = dispatched \ {k} /\ accepts' = Enter(k, TRUE)
      /\ UNCHANGED <<validations, checks, have, acquiring, fails, valid, building, build, setback>>
  BY ZenonT(30) DEF Dispatch, buildvars
<1>2. TypeOK /\ TypeOK' /\ CheckPending
  BY ZenonT(30) DEF IInv, CheckInv
<1>3. valid \in Int
  BY <1>2, NumbersOfState, Zenon
<1>4. accepts \subseteq accepts' /\ (k > valid => \E c \in accepts' : c.ledger = k)
  <2>1. accepts \subseteq accepts' /\ (k > valid => [ledger |-> k, then |-> TRUE] \in accepts')
    BY <1>1, <1>3 DEF Enter, Ledgers
  <2>2. [ledger |-> k, then |-> TRUE].ledger = k
    BY ZenonT(30)
  <2> QED BY <2>1, <2>2, Zenon
<1>5. ASSUME NEW l \in Ledgers, l > valid, UnderWay(l)
      PROVE  UnderWay(l)'
  BY <1>1, <1>4, <1>5, ZenonT(30) DEF UnderWay
<1>6. valid' >= valid
  BY <1>1, <1>3
<1>7. CheckPending'
  BY <1>1, <1>2, <1>5, <1>6, CheckFrame
<1>8. CheckShape' /\ NoneFailed' /\ SeqKnown'
  BY <1>1, <1>2, CheckRestFrame
<1> QED BY <1>7, <1>8, ZenonT(30) DEF CheckInv

\* A round begins: unless it goes back it builds what the one given up would have
\* built, or a later ledger.
LEMMA SetBuildingLedgerPending ==
    ASSUME IInv, IInv', CheckInv, NEW s \in Ledgers, SetBuildingLedger(s)
    PROVE  CheckInv'
<1>1. /\ building' = s /\ build.at = "none"
      /\ UNCHANGED <<validations, checks, accepts, have, acquiring, dispatched, fails, valid, build>>
  BY ZenonT(30) DEF SetBuildingLedger, valvars, acqvars
<1>2. TypeOK /\ TypeOK' /\ CheckPending
  BY ZenonT(30) DEF IInv, CheckInv
<1>3. valid \in Int /\ building \in Int
  BY <1>2, NumbersOfState, Zenon
<1>s. (setback => setback') /\ (s < building => setback')
  BY Zenon DEF SetBuildingLedger
<1>4. ASSUME NEW l \in Ledgers, ~setback', UnderWay(l)
      PROVE  UnderWay(l)'
  <2>1. building >= l => building' >= l
    BY <1>1, <1>3, <1>4, <1>s DEF Ledgers
  <2> QED BY <1>1, <1>4, <2>1, ZenonT(30) DEF UnderWay
<1>5. valid' >= valid
  BY <1>1, <1>3
<1>6. CheckPending'
  BY <1>1, <1>2, <1>s, <1>4, <1>5, CheckFrame
<1>7. CheckShape' /\ NoneFailed' /\ SeqKnown'
  BY <1>1, <1>2, CheckRestFrame
<1> QED BY <1>6, <1>7, ZenonT(30) DEF CheckInv

\* consensusbuilt: what it was given is at least the ledger whose check was
\* dropped, and what it scans for has the highest sequence of all.
LEMMA ConsensusPending ==
    ASSUME IInv, IInv', CheckInv, valid' >= valid, Consensus
    PROVE  CheckInv'
<1>1. TypeOK /\ TypeOK' /\ CheckPending
  BY ZenonT(30) DEF IInv, CheckInv
<1>2. valid \in Int /\ building \in 0..MaxSeq /\ build.seq \in 0..MaxSeq
  BY <1>1 DEF TypeOK
<1>3. ASSUME NEW b \in BOOLEAN, ConsensusBuilt(b) PROVE CheckInv'
  <2>1. /\ build.at = "none"
        /\ building > valid => build'.at # "none" /\ build'.seq = building
        /\ have \subseteq have'
        /\ UNCHANGED <<validations, checks, accepts, acquiring, dispatched, fails, valid, setback>>
    BY <1>2, <1>3 DEF ConsensusBuilt, valvars
  <2>2. ASSUME NEW l \in Ledgers, l > valid, UnderWay(l) PROVE UnderWay(l)'
    <3>1. building >= l => build'.at # "none" /\ build'.seq >= l
      BY <1>2, <2>1, <2>2 DEF Ledgers
    <3> QED BY <2>1, <2>2, <3>1, ZenonT(30) DEF UnderWay
  <2>3. CheckPending'
    BY <1>1, <2>1, <2>2, CheckFrame
  <2>4. CheckShape' /\ NoneFailed' /\ SeqKnown'
    BY <1>1, <2>1, CheckRestFrame
  <2> QED BY <2>3, <2>4, ZenonT(30) DEF CheckInv
<1>4. ASSUME ConsensusAccept PROVE CheckInv'
  <2>1. /\ build.at = "accept"
        /\ build' = IF build.seq <= valid' THEN NoBuild ELSE [build EXCEPT !.at = "scan"]
        /\ UNCHANGED <<validations, checks, accepts, have, acquiring, dispatched, fails, building, setback>>
    BY <1>4 DEF ConsensusAccept, valvars, acqvars
  <2>2. valid' \in Int /\ build \in [at : {"none", "accept", "scan"}, seq : 0..MaxSeq]
    BY <1>1 DEF TypeOK
  <2>3. build.seq > valid' => build'.at # "none" /\ build'.seq = build.seq
    BY <1>2, <2>1, <2>2
  <2>4. ASSUME NEW l \in Ledgers, l > valid', UnderWay(l) PROVE UnderWay(l)'
    <3>1. build.seq >= l => build'.at # "none" /\ build'.seq >= l
      BY <1>2, <2>2, <2>3, <2>4 DEF Ledgers
    <3> QED BY <2>1, <2>4, <3>1 DEF UnderWay
  <2>5. CheckPending'
    BY <1>1, <2>1, <2>4, CheckFrame
  <2>6. CheckShape' /\ NoneFailed' /\ SeqKnown'
    BY <1>1, <2>1, CheckRestFrame
  <2> QED BY <2>5, <2>6, ZenonT(30) DEF CheckInv
<1>5. ASSUME ConsensusScan PROVE CheckInv'
  <2> DEFINE Best == {k \in Sufficient : \A m \in Sufficient : m <= k}
  <2>1. /\ build' = NoBuild
        /\ checks' = IF build.seq <= valid THEN checks
                     ELSE checks \cup {[ledger |-> l, seq |-> l] : l \in Best}
        /\ UNCHANGED <<validations, accepts, have, acquiring, dispatched, fails, valid, building, setback>>
    BY <1>5, ZenonT(30) DEF ConsensusScan, acqvars
  <2>2. checks \subseteq checks' /\ \A c \in checks' \ checks : c.seq = c.ledger
    <3>1. checks' = checks \/ checks' = checks \cup {[ledger |-> l, seq |-> l] : l \in Best}
      BY <2>1, Zenon
    <3> HIDE DEF Best
    <3> QED BY <3>1
  <2>3. CheckShape' /\ NoneFailed'
    BY <2>1, <2>2, ZenonT(30) DEF CheckInv, CheckShape, NoneFailed
  <2>4. SeqKnown'
    <3>1. \A l \in Ledgers : CurrentFor(l)' = CurrentFor(l)
      BY <2>1, ZenonT(30) DEF CurrentFor
    <3> QED BY <3>1, <2>1, <2>2, ZenonT(30) DEF CheckInv, SeqKnown
  <2>5. ASSUME NEW l \in Ledgers, fails' = 0, l > valid,
               Cardinality(CurrentFor(l)) > AlwaysEnough, ~Contested(l), UnderWay(l)
        PROVE  UnderWay(l)'
    <3>1. CASE l \in have \/ ~(CurrentFor(l) \subseteq NoSeq)
      <4>1. l \in Sufficient
        BY <1>1, <2>5, <3>1, NeverNeedsMore, CountsOfValidations DEF Sufficient
      <4>2. ASSUME NEW m \in Sufficient PROVE m <= l
        <5>1. m \in Ledgers /\ Cardinality(CurrentFor(m)) > NeededValidations
          BY ZenonT(30) DEF Sufficient
        <5>2. TrustedCount(m) > mminvalidations
          BY <5>1, <1>1, NeverNeedsMore, CountsOfValidations
        <5> QED BY <5>1, <5>2, <2>5 DEF Contested, Ledgers
      <4>3. l \in Best
        BY <4>1, <4>2, ZenonT(30)
      <4>4. build.seq > valid => [ledger |-> l, seq |-> l] \in checks'
        <5>1. build.seq <= valid \/ [ledger |-> l, seq |-> l] \in checks' BY <4>3, <2>1, Zenon
        <5>2. build.seq \in Int /\ valid \in Int BY <1>2
        <5> QED BY <5>1, <5>2
      <4>5. [ledger |-> l, seq |-> l].ledger = l
        BY ZenonT(30)
      <4>6. build.seq >= l => \E c \in checks' : c.ledger = l
        BY <4>4, <4>5, <2>5, <1>2 DEF Ledgers
      <4> QED BY <4>6, <2>1, <2>2, <2>5, ZenonT(30) DEF UnderWay
    <3>2. CASE l \notin have /\ CurrentFor(l) \subseteq NoSeq
      <4>1. CurrentFor(l) # {}
        <5>1. AlwaysEnough \in Nat
          BY <1>1, NeverNeedsMore, ZenonT(30)
        <5> QED BY <5>1, <2>5, FS_EmptySet
      <4>2. PICK v \in CurrentFor(l) : v \in NoSeq
        BY <4>1, <3>2, ZenonT(30)
      <4>3. acquiring[l] = "active" \/ [ledger |-> l, seq |-> 0] \in checks
        BY <4>2, <3>2, <2>1, <2>5, ZenonT(30) DEF CheckInv, SeqKnown
      <4>4. [ledger |-> l, seq |-> 0].ledger = l
        BY ZenonT(30)
      <4>5. acquiring'[l] = "active" \/ \E c \in checks' : c.ledger = l
        BY <4>3, <4>4, <2>1, <2>2, ZenonT(30)
      <4> QED BY <4>5, ZenonT(30) DEF UnderWay
    <3> QED BY <3>1, <3>2, ZenonT(30)
  <2>6. CheckPending'
    <3> HIDE DEF Best
    <3> QED BY <1>1, <2>1, <2>5, CheckFrame
  <2> QED BY <2>3, <2>4, <2>6, ZenonT(30) DEF CheckInv
<1> QED BY <1>3, <1>4, <1>5, ZenonT(30) DEF Consensus

\* The loop of findnewledgerstopublish begins acquisitions and ends none.
LEMMA FindLedgerAcquires ==
    ASSUME IInv, FindLedger
    PROVE  /\ find.seq \in Ledgers /\ have \subseteq have'
           /\ \A l \in Ledgers : /\ acquiring[l] = "active" => acquiring'[l] = "active"
                                 /\ acquiring[l] # "failed" => acquiring'[l] # "failed"
<1>1. find.seq \in Ledgers
  <2>1. /\ pub \in 0..MaxSeq /\ publedgers \in Seq(Ledgers)
        /\ find \in [seq : Nat, valseq : 0..MaxSeq, pubseq : Nat, acqcount : Nat]
    BY ZenonT(30) DEF IInv, TypeOK
  <2>2. find.pubseq = pub + 1 + Len(publedgers) /\ find.pubseq <= find.seq /\ find.seq <= find.valseq
    BY ZenonT(30) DEF FindLedger, IInv, FindOK
  <2> QED BY <2>1, <2>2 DEF Ledgers
<1>2. acquiring \in [Ledgers -> {"none", "active", "complete", "failed"}]
  BY ZenonT(30) DEF IInv, TypeOK
<1> DEFINE Kept ==
        /\ have \subseteq have'
        /\ \A l \in Ledgers : /\ acquiring[l] = "active" => acquiring'[l] = "active"
                              /\ acquiring[l] # "failed" => acquiring'[l] # "failed"
           x == IF acquiring[find.seq] = "failed" THEN "none" ELSE acquiring[find.seq]
<1>3. UNCHANGED <<have, acquiring>> => Kept
  BY ZenonT(30)
<1>4. ASSUME NEW a \in FindCreate(x), acquiring' = [acquiring EXCEPT ![find.seq] = a],
             have' = (IF a = "complete" THEN have \cup {find.seq} ELSE have)
      PROVE  Kept
  <2>1. a \in {"active", "complete"} /\ (acquiring[find.seq] = "active" => a = "active")
    BY <1>1, <1>2, <1>4, ZenonT(30) DEF FindCreate
  <2>2. \A l \in Ledgers : acquiring'[l] = IF l = find.seq THEN a ELSE acquiring[l]
    BY <1>2, <1>4, ZenonT(30)
  <2> QED BY <1>4, <2>1, <2>2, ZenonT(30)
<1>5. Kept
  <2> HIDE DEF Kept
  <2> QED BY <1>3, <1>4, ZenonT(30) DEF FindLedger
<1> QED BY <1>1, <1>5, ZenonT(30)

\* The steps that leave alone what CheckInv is about.
LEMMA RestPending ==
    ASSUME IInv, IInv', CheckInv,
           \/ FindLedger
           \/ AdvanceThread \/ FindReturns \/ Publish \/ SetPubLedger \/ FetchHistory
           \/ HistoryDone \/ UNCHANGED vars
    PROVE  CheckInv'
<1>1. UNCHANGED <<validations, checks, accepts, dispatched, fails, valid, building, build, setback>>
  <2>1. CASE FindLedger BY <2>1, ZenonT(30) DEF FindLedger, valvars, buildvars
  <2>2. CASE AdvanceThread BY <2>2, Zenon DEF AdvanceThread, valvars, acqvars, buildvars
  <2>3. CASE FindReturns BY <2>3, Zenon DEF FindReturns, valvars, acqvars, buildvars
  <2>4. CASE Publish BY <2>4, ZenonT(30) DEF Publish, valvars, buildvars
  <2>5. CASE SetPubLedger BY <2>5, Zenon DEF SetPubLedger, valvars, acqvars, buildvars
  <2>6. CASE FetchHistory BY <2>6, Zenon DEF FetchHistory, valvars, acqvars, buildvars
  <2>7. CASE HistoryDone BY <2>7, ZenonT(30) DEF HistoryDone, valvars, acqvars, buildvars
  <2>8. CASE UNCHANGED vars BY <2>8, ZenonT(30) DEF vars, valvars, acqvars, buildvars
  <2> QED BY <2>1, <2>2, <2>3, <2>4, <2>5, <2>6, <2>7, <2>8, ZenonT(30)
<1>2. /\ have \subseteq have'
      /\ \A l \in Ledgers : /\ acquiring[l] = "active" => acquiring'[l] = "active"
                            /\ acquiring[l] # "failed" => acquiring'[l] # "failed"
  <2>1. CASE FindLedger BY <2>1, FindLedgerAcquires, ZenonT(30)
  <2>2. CASE acquiring' = acquiring /\ have \subseteq have' BY <2>2, ZenonT(30)
  <2>3. AdvanceThread \/ FindReturns \/ SetPubLedger \/ FetchHistory \/ HistoryDone => UNCHANGED <<have, acquiring>>
    BY Zenon DEF AdvanceThread, FindReturns, SetPubLedger, FetchHistory, HistoryDone, acqvars
  <2>4. Publish => acquiring' = acquiring /\ have \subseteq have' BY ZenonT(30) DEF Publish
  <2>5. UNCHANGED vars => UNCHANGED <<have, acquiring>> BY ZenonT(30) DEF vars, acqvars
  <2> QED BY <2>1, <2>2, <2>3, <2>4, <2>5, ZenonT(30)
<1>3. TypeOK /\ TypeOK' /\ CheckPending
  BY ZenonT(30) DEF IInv, CheckInv
<1>4. valid' >= valid
  <2>1. valid' = valid /\ valid \in Int BY <1>1, <1>3, NumbersOfState, Zenon
  <2> QED BY <2>1
<1>5. ASSUME NEW l \in Ledgers, UnderWay(l) PROVE UnderWay(l)'
  BY <1>1, <1>2, <1>5, ZenonT(30) DEF UnderWay
<1>6. CheckPending'
  BY <1>1, <1>3, <1>4, <1>5, CheckFrame
<1>7. CheckShape' /\ NoneFailed' /\ SeqKnown'
  BY <1>1, <1>2, <1>3, CheckRestFrame
<1> QED BY <1>6, <1>7, ZenonT(30) DEF CheckInv

\* Every step keeps CheckInv.
LEMMA StepKeepsChecks ==
    ASSUME IInv, CheckInv, [Next]_vars
    PROVE  CheckInv'
<1>0. IInv' /\ valid' >= valid
  BY StepKeeps, ZenonT(30)
<1>1. ASSUME NEW p \in Sent, AddValidation(p[1], p[2]) PROVE CheckInv'
  <2>1. p[1] \in Validators /\ p[2] \in Ledgers BY ZenonT(30)
  <2> QED BY <1>0, <1>1, <2>1, AddValidationPending, ZenonT(30)
<1>2. ASSUME Check PROVE CheckInv'
  BY <1>0, <1>2, CheckAcceptHashPending, ZenonT(30) DEF Check
<1>3. ASSUME AcceptNext PROVE CheckInv'
  BY <1>0, <1>3, CheckAcceptLedgerPending, ZenonT(30) DEF AcceptNext
<1>4. ASSUME NEW l \in Ledgers, AcquireDone(l) \/ AcquireFail(l) \/ Sweep(l) \/ Dispatch(l) PROVE CheckInv'
  BY <1>0, <1>4, AcquirePending, DispatchPending, ZenonT(30)
<1>5. ASSUME NEW s \in Ledgers, SetBuildingLedger(s) PROVE CheckInv'
  BY <1>0, <1>5, SetBuildingLedgerPending, ZenonT(30)
<1>6. ASSUME Consensus PROVE CheckInv'
  BY <1>0, <1>6, ConsensusPending, ZenonT(30)
<1>7. ASSUME Advance \/ HistoryDone \/ UNCHANGED vars PROVE CheckInv'
  BY <1>0, <1>7, RestPending, ZenonT(30) DEF Advance
<1> QED BY <1>1, <1>2, <1>3, <1>4, <1>5, <1>6, <1>7, ZenonT(30) DEF Next

\* For any validators and quorum: while no acquisition has failed and no round was
\* given up for an earlier one, the check of a ledger that enough validators
\* currently validate is under way until it is validated or contested by a later
\* one.
THEOREM ChecksNotLost == Spec => []CheckPending
<1>1. Init => CheckInv
  <2> SUFFICES ASSUME Init PROVE CheckInv
    BY ZenonT(30)
  <2>1. \A l \in Ledgers : CurrentFor(l) = {}
    BY ZenonT(30) DEF Init, CurrentFor
  <2>2. TypeOK
    BY InitOK, ZenonT(30) DEF IInv
  <2>3. AlwaysEnough \in Nat
    BY <2>2, NeverNeedsMore, ZenonT(30)
  <2>4. Cardinality({}) = 0
    BY FS_EmptySet, ZenonT(30)
  <2>5. CheckPending
    BY <2>1, <2>3, <2>4 DEF CheckPending
  <2>6. CheckShape /\ NoneFailed /\ SeqKnown
    BY <2>1, ZenonT(30) DEF Init, CheckShape, NoneFailed, SeqKnown
  <2> QED BY <2>5, <2>6, ZenonT(30) DEF CheckInv
<1>2. IInv /\ CheckInv /\ [Next]_vars => CheckInv'
  BY StepKeepsChecks, ZenonT(30)
<1>3. CheckInv => CheckPending
  BY ZenonT(30) DEF CheckInv
<1> QED BY <1>1, <1>2, <1>3, Invariance, PTL DEF Spec

-----------------------------------------------------------------------------
\* What does not move the advance thread, or starts it, keeps PubInv if what is
\* coming still is, or has set madvancework for a thread that is there.
LEMMA PubFrame ==
    ASSUME IInv, PubInv, UNCHANGED <<find, publedgers>>,
           \/ adv' = adv /\ pub' = pub
           \/ adv = "none" /\ adv' = "queued",
           valid' = valid \/ adv' # "none",
           advancework => advancework', fails' = 0 => fails = 0,
           ASSUME NEW l \in Ledgers, l = pub + 1, pub < valid, fails' = 0, Coming(l)
           PROVE  Coming(l)' \/ (advancework' /\ adv' # "none")
    PROVE  PubInv'
<1>0. /\ pub \in 0..MaxSeq /\ valid \in 0..MaxSeq
      /\ find \in [seq : Nat, valseq : 0..MaxSeq, pubseq : Nat, acqcount : Nat]
  BY ZenonT(30) DEF IInv, TypeOK
<1>1. PublicationPending'
  <2> SUFFICES ASSUME fails' = 0, pub' < valid', adv' = "none"
               PROVE  Coming(pub + 1)'
    BY ZenonT(30) DEF PublicationPending
  <2>1. adv = "none" /\ pub' = pub /\ valid' = valid
    BY ZenonT(30)
  <2>2. pub + 1 \in Ledgers /\ pub < valid
    BY <2>1, <1>0 DEF Ledgers
  <2>3. Coming(pub + 1)
    BY <2>1, <2>2, ZenonT(30) DEF PubInv, PublicationPending
  <2>4. PICK l \in Ledgers : l = pub + 1
    BY <2>2, ZenonT(30)
  <2>5. Coming(l)'
    BY <2>2, <2>3, <2>4, ZenonT(30)
  <2> QED BY <2>1, <2>4, <2>5, ZenonT(30) DEF Coming
<1>2. FindPending'
  <2> SUFFICES ASSUME adv' = "find" PROVE FindPending'
    BY ZenonT(30) DEF FindPending
  <2>1. adv = "find" /\ pub' = pub /\ find' = find /\ publedgers' = publedgers
    BY ZenonT(30)
  <2>2. /\ find.valseq > pub /\ find.valseq <= valid
        /\ publedgers = <<>> /\ find.seq = pub + 1 => find.acqcount = 0
    BY <2>1, ZenonT(30) DEF PubInv, FindPending, IInv, FindOK
  <2>3. ASSUME fails' = 0, publedgers = <<>>, find.seq # pub + 1
        PROVE  advancework' \/ Coming(pub + 1)'
    <3>1. advancework \/ Coming(pub + 1)
      BY <2>1, <2>3, ZenonT(30) DEF PubInv, FindPending
    <3>2. CASE Coming(pub + 1)
      <4>1. PICK l \in Ledgers : l = pub + 1
        BY <2>2, <1>0 DEF Ledgers
      <4>2. pub < valid
        BY <2>2, <1>0
      <4>3. Coming(l)' \/ advancework'
        BY <4>1, <4>2, <3>2, <2>3, ZenonT(30)
      <4> QED BY <4>1, <4>3, <2>1, ZenonT(30) DEF Coming
    <3> QED BY <3>1, <3>2, ZenonT(30)
  <2> QED BY <2>1, <2>2, <2>3, ZenonT(30) DEF FindPending
<1> QED BY <1>1, <1>2, ZenonT(30) DEF PubInv

\* The head of a pass.
LEMMA NextPassPub ==
    ASSUME NEW p \in 0..MaxSeq, valid \in 0..MaxSeq, valid' = valid, NextPass(p)
    PROVE  PubInv'
<1>1. CASE publedgers' = <<valid>> /\ adv' = "publish"
  BY <1>1, ZenonT(30) DEF PubInv, PublicationPending, FindPending
<1>2. CASE /\ p # 0 /\ p < valid /\ adv' = "find" /\ pub' = p
           /\ find' = [seq |-> p + 1, valseq |-> valid, pubseq |-> p + 1, acqcount |-> 0]
  BY <1>2, ZenonT(30) DEF PubInv, PublicationPending, FindPending
<1>3. CASE p = valid /\ pub' = p /\ adv' \in {"none", "history"}
  BY <1>3 DEF PubInv, PublicationPending, FindPending
<1> QED BY <1>1, <1>2, <1>3, ZenonT(30) DEF NextPass

\* checkaccept for a ledger sets madvancework if it accepts the ledger or was
\* called by the job of an acquisition.
LEMMA AcceptPub ==
    ASSUME IInv, NEW l \in Ledgers, NEW then \in BOOLEAN, Accept(l, then)
    PROVE  /\ (adv' = adv /\ pub' = pub) \/ (adv = "none" /\ adv' = "queued")
           /\ valid' = valid \/ adv' # "none"
           /\ advancework => advancework'
           /\ then /\ valid # 0 => advancework' /\ adv' # "none"
<1>1. CASE /\ valid' = l /\ pub' = (IF pub = 0 THEN l ELSE pub) /\ TryAdvance(l)
  <2>1. advancework'
    BY <1>1, Zenon DEF TryAdvance
  <2>2. adv' = IF adv = "none" /\ l # 0 THEN "queued" ELSE adv
    BY <1>1, Zenon DEF TryAdvance
  <2>3. l # 0
    BY DEF Ledgers
  <2>4. pub = 0 => adv = "none"
    BY ZenonT(30) DEF IInv, PubOK
  <2> QED BY <1>1, <2>1, <2>2, <2>3, <2>4, ZenonT(30)
<1>2. CASE UNCHANGED <<valid, pub>> /\ then /\ TryAdvance(valid)
  <2>1. advancework'
    BY <1>2, Zenon DEF TryAdvance
  <2>2. adv' = IF adv = "none" /\ valid # 0 THEN "queued" ELSE adv
    BY <1>2, Zenon DEF TryAdvance
  <2> QED BY <1>2, <2>1, <2>2, ZenonT(30)
<1>3. CASE UNCHANGED <<valid, pub, adv, advancework>> /\ ~then
  BY <1>3, ZenonT(30)
<1> QED BY <1>1, <1>2, <1>3, Zenon DEF Accept

\* Validations, checks, acquisitions and their jobs keep PubInv.
LEMMA AcquisitionsKeepPub ==
    ASSUME IInv, PubInv,
           \/ \E c \in checks : CheckAcceptHash(c)
           \/ \E c \in accepts : CheckAcceptLedger(c)
           \/ \E l \in Ledgers : AcquireDone(l) \/ AcquireFail(l) \/ Sweep(l) \/ Dispatch(l)
    PROVE  PubInv'
<1>0. /\ fails \in Nat /\ valid \in Int /\ pub \in Nat
      /\ acquiring \in [Ledgers -> {"none", "active", "complete", "failed"}]
  BY NumbersOfState, Zenon DEF IInv, TypeOK
<1>1. ASSUME NEW c \in checks, CheckAcceptHash(c) PROVE PubInv'
  <2>1. UNCHANGED <<dispatched, fails, valid, pub, adv, advancework, find, publedgers>>
    BY <1>1, ZenonT(30) DEF CheckAcceptHash, advvars
  <2>2. accepts \subseteq accepts'
    BY <1>1, Zenon DEF CheckAcceptHash, Enter
  <2>3. ASSUME NEW l \in Ledgers, acquiring[l] = "active" PROVE acquiring'[l] = "active"
    <3>1. c.ledger \in Ledgers
      BY ZenonT(30) DEF IInv, TypeOK
    <3>2. ASSUME NEW a \in FindCreate(acquiring[c.ledger]), acquiring' = [acquiring EXCEPT ![c.ledger] = a]
          PROVE  acquiring'[l] = "active"
      <4>1. acquiring'[l] = IF l = c.ledger THEN a ELSE acquiring[l]
        BY <3>2, <1>0, ZenonT(30)
      <4> QED BY <4>1, <3>2, <2>3, ZenonT(30) DEF FindCreate
    <3>3. acquiring' = acquiring => acquiring'[l] = "active"
      BY <2>3, ZenonT(30)
    <3> QED BY <1>1, <3>2, <3>3, Zenon DEF CheckAcceptHash
  <2>4. ASSUME NEW l \in Ledgers, Coming(l) PROVE Coming(l)'
    BY <2>1, <2>2, <2>3, <2>4, ZenonT(30) DEF Coming
  <2> QED BY <2>1, <2>4, PubFrame
<1>2. ASSUME NEW c \in accepts, CheckAcceptLedger(c) PROVE PubInv'
  <2>1. /\ accepts' = accepts \ {c} /\ Accept(c.ledger, c.then)
        /\ UNCHANGED <<acquiring, dispatched, fails, find, publedgers>>
    BY <1>2, ZenonT(30) DEF CheckAcceptLedger, acqvars
  <2>2. c.ledger \in Ledgers /\ c.then \in BOOLEAN
    BY ZenonT(30) DEF IInv, TypeOK
  <2>3. /\ (adv' = adv /\ pub' = pub) \/ (adv = "none" /\ adv' = "queued")
        /\ valid' = valid \/ adv' # "none"
        /\ advancework => advancework'
        /\ c.then /\ valid # 0 => advancework' /\ adv' # "none"
    BY <2>1, <2>2, AcceptPub, ZenonT(30)
  <2>4. ASSUME NEW l \in Ledgers, l = pub + 1, pub < valid, Coming(l)
        PROVE  Coming(l)' \/ (advancework' /\ adv' # "none")
    <3>1. CASE c = [ledger |-> l, then |-> TRUE]
      <4>1. c.then BY <3>1, ZenonT(30)
      <4>2. valid # 0 BY <2>4, <1>0
      <4> QED BY <4>1, <4>2, <2>3, ZenonT(30)
    <3>2. CASE c # [ledger |-> l, then |-> TRUE]
      BY <3>2, <2>1, <2>4, ZenonT(30) DEF Coming
    <3> QED BY <3>1, <3>2, ZenonT(30)
  <2> QED BY <2>1, <2>3, <2>4, PubFrame
<1>3. ASSUME NEW k \in Ledgers, AcquireDone(k) \/ AcquireFail(k) \/ Sweep(k) PROVE PubInv'
  <2>1. UNCHANGED <<accepts, valid, pub, adv, advancework, find, publedgers>>
    BY <1>3, ZenonT(30) DEF AcquireDone, AcquireFail, Sweep, valvars, advvars
  <2>2. /\ dispatched \subseteq dispatched' /\ (fails' = 0 => fails = 0)
        /\ \A l \in Ledgers : l # k => acquiring'[l] = acquiring[l]
        /\ fails' = 0 => (acquiring[k] = "active" => k \in dispatched')
    <3>1. CASE AcquireDone(k) BY <3>1, <1>0, ZenonT(30) DEF AcquireDone
    <3>2. CASE AcquireFail(k) BY <3>2, <1>0 DEF AcquireFail
    <3>3. CASE Sweep(k) BY <3>3, <1>0 DEF Sweep
    <3> QED BY <1>3, <3>1, <3>2, <3>3, ZenonT(30)
  <2>3. ASSUME NEW l \in Ledgers, fails' = 0, Coming(l) PROVE Coming(l)'
    BY <2>1, <2>2, <2>3, ZenonT(30) DEF Coming
  <2> QED BY <2>1, <2>2, <2>3, PubFrame
<1>4. ASSUME NEW k \in Ledgers, Dispatch(k) PROVE PubInv'
  <2>1. /\ dispatched' = dispatched \ {k} /\ accepts \subseteq accepts'
        /\ UNCHANGED <<acquiring, fails, valid, pub, find, publedgers>>
    BY <1>4, ZenonT(30) DEF Dispatch, Enter
  <2>2. CASE k <= valid
    <3>1. TryAdvance(valid) BY <1>4, <2>2, ZenonT(30) DEF Dispatch
    <3>2. advancework' BY <3>1, Zenon DEF TryAdvance
    <3>3. adv' = IF adv = "none" /\ valid # 0 THEN "queued" ELSE adv BY <3>1, Zenon DEF TryAdvance
    <3>4. valid # 0 BY <2>2, <1>0 DEF Ledgers
    <3> QED BY <2>1, <3>2, <3>3, <3>4, PubFrame
  <2>3. CASE ~(k <= valid)
    <3>1. UNCHANGED <<adv, advancework>> BY <1>4, <2>3, ZenonT(30) DEF Dispatch
    <3>2. ASSUME NEW l \in Ledgers, l = pub + 1, pub < valid, Coming(l) PROVE Coming(l)'
      <4>1. l # k BY <3>2, <2>3, <1>0 DEF Ledgers
      <4> QED BY <4>1, <3>2, <2>1, ZenonT(30) DEF Coming
    <3> QED BY <2>1, <3>1, <3>2, PubFrame
  <2> QED BY <2>2, <2>3, ZenonT(30)
<1> QED BY <1>1, <1>2, <1>3, <1>4, ZenonT(30)

\* Validations, rounds and the fetch of older ledgers keep PubInv.
LEMMA OthersKeepPub ==
    ASSUME IInv, PubInv,
           \/ \E p \in Sent : AddValidation(p[1], p[2])
           \/ \E s \in Ledgers : SetBuildingLedger(s)
           \/ Consensus \/ HistoryDone \/ UNCHANGED vars
    PROVE  PubInv'
<1>1. CASE \/ \E p \in Sent : AddValidation(p[1], p[2])
           \/ \E s \in Ledgers : SetBuildingLedger(s)
           \/ \E b \in BOOLEAN : ConsensusBuilt(b)
           \/ ConsensusScan \/ UNCHANGED vars
  <2>1. UNCHANGED <<accepts, acquiring, dispatched, fails, valid, pub, adv, advancework, find, publedgers>>
    <3>1. CASE \E p \in Sent : AddValidation(p[1], p[2])
      BY <3>1, ZenonT(30) DEF AddValidation, acqvars, advvars
    <3>2. CASE \E s \in Ledgers : SetBuildingLedger(s)
      BY <3>2, ZenonT(30) DEF SetBuildingLedger, valvars, acqvars, advvars
    <3>3. CASE \E b \in BOOLEAN : ConsensusBuilt(b)
      BY <3>3, ZenonT(30) DEF ConsensusBuilt, valvars, advvars
    <3>4. CASE ConsensusScan
      BY <3>4, ZenonT(30) DEF ConsensusScan, acqvars, advvars
    <3>5. CASE UNCHANGED vars
      BY <3>5, ZenonT(30) DEF vars, valvars, acqvars, advvars
    <3> QED BY <1>1, <3>1, <3>2, <3>3, <3>4, <3>5, ZenonT(30)
  <2>2. ASSUME NEW l \in Ledgers, Coming(l) PROVE Coming(l)'
    BY <2>1, <2>2, ZenonT(30) DEF Coming
  <2> QED BY <2>1, <2>2, PubFrame
<1>2. CASE ConsensusAccept
  <2>1. /\ build.at = "accept" /\ Accept(build.seq, FALSE)
        /\ UNCHANGED <<accepts, acquiring, dispatched, fails, find, publedgers>>
    BY <1>2, ZenonT(30) DEF ConsensusAccept, valvars, acqvars
  <2>2. build.seq \in Ledgers /\ FALSE \in BOOLEAN
    BY <2>1, ZenonT(30) DEF IInv, HeldOK
  <2>3. /\ (adv' = adv /\ pub' = pub) \/ (adv = "none" /\ adv' = "queued")
        /\ valid' = valid \/ adv' # "none"
        /\ advancework => advancework'
    BY <2>1, <2>2, AcceptPub, Zenon
  <2>4. ASSUME NEW l \in Ledgers, Coming(l) PROVE Coming(l)'
    BY <2>1, <2>4, ZenonT(30) DEF Coming
  <2> QED BY <2>1, <2>3, <2>4, PubFrame
<1>3. CASE HistoryDone
  <2>1. UNCHANGED <<accepts, acquiring, dispatched, fails, valid, pub, find, publedgers>>
    BY <1>3, ZenonT(30) DEF HistoryDone, valvars, acqvars
  <2>2. /\ advancework => advancework'
        /\ adv' = adv \/ (adv = "none" /\ adv' = "queued")
    <3>1. CASE TryAdvance(valid) BY <3>1, Zenon DEF TryAdvance
    <3>2. CASE UNCHANGED <<adv, advancework>> BY <3>2, ZenonT(30)
    <3> QED BY <1>3, <3>1, <3>2, ZenonT(30) DEF HistoryDone
  <2>3. ASSUME NEW l \in Ledgers, Coming(l) PROVE Coming(l)'
    BY <2>1, <2>3, ZenonT(30) DEF Coming
  <2> QED BY <2>1, <2>2, <2>3, PubFrame
<1> QED BY <1>1, <1>2, <1>3, ZenonT(30) DEF Consensus

\* The loop of findnewledgerstopublish: the first ledger that it misses is acquired,
\* since no acquisition was counted before it.
LEMMA FindLedgerPub ==
    ASSUME IInv, PubInv, FindLedger
    PROVE  PubInv'
<1>1. /\ adv = "find" /\ find.seq <= find.valseq
      /\ UNCHANGED <<accepts, dispatched, fails, valid, pub, adv, advancework>>
  BY ZenonT(30) DEF FindLedger, valvars
<1>2. /\ find \in [seq : Nat, valseq : 0..MaxSeq, pubseq : Nat, acqcount : Nat]
      /\ pub \in 0..MaxSeq /\ publedgers \in Seq(Ledgers)
      /\ acquiring \in [Ledgers -> {"none", "active", "complete", "failed"}]
  BY ZenonT(30) DEF IInv, TypeOK
<1>3. /\ find.pubseq = pub + 1 + Len(publedgers) /\ find.pubseq <= find.seq
      /\ find.valseq > pub
      /\ publedgers = <<>> /\ find.seq = pub + 1 => find.acqcount = 0
      /\ fails = 0 /\ publedgers = <<>> /\ find.seq # pub + 1 => advancework \/ Coming(pub + 1)
  BY <1>1, ZenonT(30) DEF PubInv, FindPending, IInv, FindOK
<1>4. find.seq \in Ledgers /\ \A l \in Ledgers : acquiring[l] = "active" => acquiring'[l] = "active"
  BY FindLedgerAcquires, ZenonT(30)
<1>5. PICK found \in BOOLEAN : Found(found) /\ (found \/ acquiring'[find.seq] = "active" \/ find.acqcount + 1 >= acquire_limit)
  <2>1. ASSUME NEW a \in FindCreate(IF acquiring[find.seq] = "failed" THEN "none" ELSE acquiring[find.seq]),
               acquiring' = [acquiring EXCEPT ![find.seq] = a]
        PROVE  a = "complete" \/ acquiring'[find.seq] = "active"
    BY <2>1, <1>2, <1>4, ZenonT(30) DEF FindCreate
  <2>2. \A a : (a = "complete") \in BOOLEAN
    BY ZenonT(30)
  <2> QED BY <2>1, <2>2, ZenonT(30) DEF FindLedger
<1>6. /\ find'.seq = find.seq + 1 /\ find'.valseq = find.valseq
      /\ publedgers' = (IF found /\ find.seq = find.pubseq THEN Append(publedgers, find.seq) ELSE publedgers)
  BY <1>2, <1>5, ZenonT(30) DEF Found
<1>7. PublicationPending'
  BY <1>1, ZenonT(30) DEF PublicationPending
<1>8. ASSUME fails = 0, publedgers' = <<>> PROVE advancework \/ Coming(pub + 1)'
  <2>1. publedgers = <<>> /\ ~(found /\ find.seq = find.pubseq) /\ find.pubseq = pub + 1
    <3>1. Append(publedgers, find.seq) # <<>>
      BY <1>2, <1>4, AppendedNotEmpty, Zenon
    <3>2. publedgers = <<>> /\ ~(found /\ find.seq = find.pubseq)
      BY <3>1, <1>6, <1>8, Zenon
    <3>3. pub \in Int /\ Len(publedgers) = 0 /\ find.pubseq = pub + 1 + Len(publedgers)
      BY <3>2, <1>2, <1>3
    <3> QED BY <3>2, <3>3
  <2>2. CASE find.seq = pub + 1
    <3>1. ~found /\ find.acqcount = 0
      BY <2>1, <2>2, <1>3, ZenonT(30)
    <3>2. acquiring'[find.seq] = "active"
      BY <3>1, <1>5
    <3> QED BY <3>2, <2>2, <1>1, ZenonT(30) DEF Coming
  <2>3. CASE find.seq # pub + 1
    <3>1. advancework \/ Coming(pub + 1)
      BY <2>1, <2>3, <1>3, <1>8, ZenonT(30)
    <3>2. pub + 1 \in Ledgers
      BY <1>2, <1>3 DEF Ledgers
    <3> QED BY <3>1, <3>2, <1>1, <1>4, ZenonT(30) DEF Coming
  <2> QED BY <2>2, <2>3, ZenonT(30)
<1>9. FindPending'
  <2>1. find'.seq # pub' + 1
    BY <1>1, <1>2, <1>3, <1>6
  <2>2. find'.valseq > pub'
    BY <1>1, <1>3, <1>6, ZenonT(30)
  <2> QED BY <1>1, <1>8, <2>1, <2>2, ZenonT(30) DEF FindPending
<1> QED BY <1>7, <1>9, ZenonT(30) DEF PubInv

\* The other steps of the advance thread.
LEMMA AdvanceKeepsPub ==
    ASSUME IInv, PubInv, Advance
    PROVE  PubInv'
<1>0. /\ valid \in 0..MaxSeq /\ pub \in 0..MaxSeq /\ publedgers \in Seq(Ledgers)
      /\ find \in [seq : Nat, valseq : 0..MaxSeq, pubseq : Nat, acqcount : Nat]
  BY ZenonT(30) DEF IInv, TypeOK
<1>1. CASE AdvanceThread
  BY <1>0, <1>1, NextPassPub, ZenonT(30) DEF AdvanceThread
<1>2. CASE FindLedger
  BY <1>2, FindLedgerPub, ZenonT(30)
<1>3. CASE FindReturns
  <2>1. adv = "find" /\ find.seq > find.valseq /\ UNCHANGED <<accepts, acquiring, dispatched, fails, valid>>
    BY <1>3, Zenon DEF FindReturns, valvars, acqvars
  <2>2. CASE publedgers # <<>> /\ adv' = "publish"
    BY <2>2, ZenonT(30) DEF PubInv, PublicationPending, FindPending
  <2>3. CASE NextPass(pub)
    BY <1>0, <2>1, <2>3, NextPassPub, ZenonT(30)
  <2>4. CASE publedgers = <<>> /\ adv' = "none" /\ pub' = pub /\ ~advancework
    <3>1. find.valseq > pub
      BY <2>1, ZenonT(30) DEF PubInv, FindPending
    <3>2. find.seq # pub + 1
      BY <3>1, <2>1, <1>0
    <3>3. fails = 0 => Coming(pub + 1)
      BY <2>1, <2>4, <3>2, ZenonT(30) DEF PubInv, FindPending
    <3>4. fails' = 0 => Coming(pub + 1)'
      BY <3>3, <2>1, <2>4, ZenonT(30) DEF Coming
    <3> QED BY <3>4, <2>4, ZenonT(30) DEF PubInv, PublicationPending, FindPending
  <2> QED BY <1>3, <2>2, <2>3, <2>4, Zenon DEF FindReturns, EndPass
<1>4. CASE Publish
  BY <1>4, ZenonT(30) DEF Publish, PubInv, PublicationPending, FindPending
<1>5. CASE SetPubLedger
  <2>1. adv = "published" /\ valid' = valid
    BY <1>5, Zenon DEF SetPubLedger
  <2>2. CASE adv' = "publish"
    BY <2>2, ZenonT(30) DEF PubInv, PublicationPending, FindPending
  <2>3. CASE NextPass(Head(publedgers))
    <3>1. Len(publedgers) > 0
      BY <2>1, ZenonT(30) DEF IInv, PublishOK
    <3>2. Head(publedgers) \in 0..MaxSeq
      BY <3>1, <1>0 DEF Ledgers
    <3> QED BY <3>2, <2>1, <2>3, <1>0, NextPassPub, ZenonT(30)
  <2> QED BY <1>5, <2>2, <2>3, Zenon DEF SetPubLedger
<1>6. CASE FetchHistory
  <2>1. valid' = valid
    BY <1>6, Zenon DEF FetchHistory
  <2>2. CASE NextPass(pub)
    BY <1>0, <2>1, <2>2, NextPassPub, ZenonT(30)
  <2>3. CASE adv' = "none" /\ pub' = pub /\ valid = pub
    BY <2>1, <2>3, <1>0 DEF PubInv, PublicationPending, FindPending
  <2> QED BY <1>6, <2>2, <2>3, Zenon DEF FetchHistory, EndPass
<1> QED BY <1>1, <1>2, <1>3, <1>4, <1>5, <1>6, ZenonT(30) DEF Advance

\* For any chain and any limits: while no acquisition has failed, the advance thread
\* never ends with a validated ledger to publish unless the next ledger is coming,
\* although tryadvance may be called while it is about to end.
THEOREM PublicationNotLost == Spec => []PublicationPending
<1>1. Init => PubInv
  BY DEF Init, PubInv, PublicationPending, FindPending
<1>2. IInv /\ PubInv /\ [Next]_vars => PubInv'
  <2> SUFFICES ASSUME IInv, PubInv, [Next]_vars PROVE PubInv'
    BY ZenonT(30)
  <2>1. CASE Check \/ AcceptNext \/ \E l \in Ledgers : AcquireDone(l) \/ AcquireFail(l) \/ Sweep(l) \/ Dispatch(l)
    BY <2>1, AcquisitionsKeepPub, ZenonT(30) DEF Check, AcceptNext
  <2>2. CASE \/ \E p \in Sent : AddValidation(p[1], p[2])
             \/ \E s \in Ledgers : SetBuildingLedger(s)
             \/ Consensus \/ HistoryDone \/ UNCHANGED vars
    BY <2>2, OthersKeepPub, ZenonT(30)
  <2>3. CASE Advance
    BY <2>3, AdvanceKeepsPub, ZenonT(30)
  <2> QED BY <2>1, <2>2, <2>3, ZenonT(30) DEF Next
<1>3. PubInv => PublicationPending
  BY ZenonT(30) DEF PubInv
<1> QED BY <1>1, <1>2, <1>3, Invariance, PTL DEF Spec
=============================================================================
