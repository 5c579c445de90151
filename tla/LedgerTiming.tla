---------------------------- MODULE LedgerTiming ----------------------------
(***************************************************************************)
(* The timing rules of a round (app/ledger/LedgerTiming.h and .cpp): when  *)
(* the open ledger closes, when the round has a consensus, and the         *)
(* resolution of the next ledger's close time.  Times are milliseconds,    *)
(* resolutions seconds, as in the code.                                    *)
(***************************************************************************)
EXTENDS Integers, Sequences

ledger_idle_interval    == 15
ledger_min_consensus    == 2000
ledger_min_close        == 2000
ledger_time_accuracy    == 30
ledger_res_increase     == 8
ledger_res_decrease     == 1
av_init_consensus_pct   == 50
av_mid_consensus_time   == 50
av_mid_consensus_pct    == 65
av_late_consensus_time  == 85
av_late_consensus_pct   == 70
av_stuck_consensus_time == 200
av_stuck_consensus_pct  == 95
av_ct_consensus_pct     == 75

OutOfRange(ms) == ms < -1000 \/ ms > 600000

\* shouldclose: an absurd time closes the ledger at once; an idle ledger waits
\* for a quarter of the previous proposers or for the idle interval; a ledger
\* with transactions waits for the minimum open time and for the other nodes,
\* of which "closed" propose and "validated" have moved past the last ledger.
ShouldClose(anytransactions, previousproposers, closed, validated, previousms, currentms, openms, idle) ==
    \/ OutOfRange(previousms) \/ OutOfRange(currentms)
    \/ /\ ~anytransactions
       /\ \/ closed > previousproposers \div 4
          \/ currentms >= idle * 1000
    \/ /\ anytransactions
       /\ \/ openms >= ledger_min_close
          \/ closed + validated >= previousproposers \div 2
       /\ \/ currentms >= previousms
          \/ closed + validated >= previousproposers

\* haveconsensus: "yes" when more than 80 of a hundred proposers, us included,
\* share our position; "failed" when they do not but have left the ledger
\* behind; "no" while there is still something to wait for.
HaveConsensus(previousproposers, proposers, agree, finished, previousagreetime, agreetime) ==
    IF \/ agreetime <= ledger_min_consensus
       \/ /\ proposers < (previousproposers * 3) \div 4
          /\ agreetime < previousagreetime + ledger_min_consensus
    THEN "no"
    ELSE IF (agree * 100 + 100) \div (proposers + 1) > 80 THEN "yes"
    ELSE IF (finished * 100) \div (proposers + 1) > 80 THEN "failed"
    ELSE "no"

ledgertimeresolution == <<10, 10, 20, 30, 60, 90, 120, 120>>

Resolutions == {ledgertimeresolution[i] : i \in 1..Len(ledgertimeresolution)}

\* The scan of the table: the first entry after the repeated one that holds
\* the resolution (the code's index 1 is index 2 here).
ResolutionIndex(res) ==
    CHOOSE i \in 2..Len(ledgertimeresolution) :
        /\ ledgertimeresolution[i] = res
        /\ \A j \in 2..(i - 1) : ledgertimeresolution[j] # res

\* Mutant: the resolution is halved and doubled instead of stepped.
NextResolutionHalves(res, previousagree, ledgerseq) ==
    IF ~previousagree /\ ledgerseq % ledger_res_decrease = 0 THEN res * 2
    ELSE IF previousagree /\ ledgerseq % ledger_res_increase = 0 THEN res \div 2
    ELSE res

\* Mutant: the resolution never recovers.
NextResolutionCoarser(res, previousagree, ledgerseq) ==
    IF ~previousagree /\ ledgerseq % ledger_res_decrease = 0
    THEN ledgertimeresolution[ResolutionIndex(res) + 1]
    ELSE res

\* getnextledgertimeresolution: coarser after every disagreement, finer at
\* every eighth ledger that follows an agreement.
NextResolution(res, previousagree, ledgerseq) ==
    IF ~previousagree /\ ledgerseq % ledger_res_decrease = 0
    THEN ledgertimeresolution[ResolutionIndex(res) + 1]
    ELSE IF previousagree /\ ledgerseq % ledger_res_increase = 0
    THEN ledgertimeresolution[ResolutionIndex(res) - 1]
    ELSE res
=============================================================================
