-------------------------- MODULE LedgerCloseTime --------------------------
(***************************************************************************)
(* The close times of a chain of ledgers: accept and setaccepted give each *)
(* new ledger the agreed time, rounded to a resolution that adapts to      *)
(* whether the ledgers before it had an agreed time                        *)
(* (getnextledgertimeresolution).  A node that acquires the ledger instead *)
(* of building it goes through the other setaccepted, and two constructors *)
(* compute the resolution twice.                                           *)
(*                                                                         *)
(* The sequence number counts modulo ledger_res_increase, the only thing   *)
(* the code reads of it here.                                              *)
(***************************************************************************)
EXTENDS LedgerTiming

CONSTANT MaxTime  \* bound: close times; MaxTime stands for all later ones

ASSUME MaxTimeAssumption == MaxTime \in Nat \ {0}

VARIABLES
    seq,         \* mledgerseq of the last closed ledger
    closetime,   \* its mclosetime
    res,         \* its mcloseresolution
    agree        \* its getcloseagree()

vars == <<seq, closetime, res, agree>>

\* Mutant: the rounding goes up, whatever the remainder.
RoundCloseTimeUp(t, r) == IF t = 0 THEN 0 ELSE t + (r - (t % r))

\* roundclosetime
RoundCloseTime(t, r) ==
    IF t = 0 THEN 0 ELSE (t + r \div 2) - ((t + r \div 2) % r)

\* setaccepted of a ledger that was acquired: the time in its header is rounded
\* again unless the header says that there was no agreement.
AcquiredCloseTime == IF agree THEN RoundCloseTime(closetime, res) ELSE closetime

\* accept: the time of our position (0 when we agreed to disagree) becomes that
\* of a new ledger.  A time so early that it rounds to 0 is a disagreement too.
AcceptLedger ==
    \E position \in 0..MaxTime :
        LET r       == NextResolution(res, agree, seq + 1)
            rounded == RoundCloseTime(position, r)
            correct == rounded # 0
        IN /\ res' = r
           /\ agree' = correct
           /\ closetime' = IF correct THEN RoundCloseTime(rounded, r)
                           ELSE IF closetime < MaxTime THEN closetime + 1 ELSE closetime
           /\ seq' = (seq + 1) % ledger_res_increase

\* A node starts from any ledger of the chain: the resolution of a genesis ledger
\* is ledger_time_accuracy.
Init ==
    /\ seq \in 0..(ledger_res_increase - 1)
    /\ closetime = 0 /\ res = ledger_time_accuracy /\ agree = TRUE

Next == AcceptLedger

Spec == Init /\ [][Next]_vars

\* Ledgers go on closing.
FairSpec == Spec /\ WF_vars(AcceptLedger)

-----------------------------------------------------------------------------
(***************************************************************************)
(* Properties                                                              *)
(***************************************************************************)

\* The resolution is one of the table's: the scan of getnextledgertimeresolution
\* finds it and the neighbour it steps to is in the table, at both ends.
TypeOK ==
    /\ seq \in 0..(ledger_res_increase - 1)
    /\ res \in Resolutions /\ agree \in BOOLEAN /\ closetime \in Nat

\* The node that built a ledger and one that acquired it have the same close time
\* for it, and so the same ledger hash, although one rounds the time of a
\* position twice and the other rounds what it finds in the header once more.
AcquiredSame == AcquiredCloseTime = closetime

\* When close times stay agreed the resolution reaches its finest value and keeps it,
\* and when they stay disputed its coarsest one, from wherever it was.
ResolutionAdapts == (<>[]agree => <>[](res = 10)) /\ (<>[]~agree => <>[](res = 120))
=============================================================================
