----------------------------- MODULE DisputedTx -----------------------------
(***************************************************************************)
(* A transaction that some position of the round contains and another one  *)
(* does not (app/consensus/DisputedTx.cpp).  The object keeps one vote per *)
(* peer, two running counters, and our own vote; the counters are kept     *)
(* apart from the votes, as in the code.                                   *)
(***************************************************************************)
EXTENDS Integers, FiniteSets, LedgerTiming

CONSTANT Peers

Votes == {"none", "yes", "no"}

Dispute == [votes : [Peers -> Votes], yays : Int, nays : Int, ourvote : BOOLEAN]

NewDispute(ourvote) ==
    [votes |-> [p \in Peers |-> "none"], yays |-> 0, nays |-> 0, ourvote |-> ourvote]

Voters(d, v) == {p \in Peers : d.votes[p] = v}

\* The counters agree with the votes they count.
Counted(d) ==
    /\ d.yays = Cardinality(Voters(d, "yes"))
    /\ d.nays = Cardinality(Voters(d, "no"))

-----------------------------------------------------------------------------
\* The vote of a peer that has the set s, on the transaction t.
VoteOf(s, t) == IF t \in s THEN "yes" ELSE "no"

\* Mutant: a peer that changes its mind is counted on both sides.
SetVotesKeepsOld(d, ps, v) ==
    [d EXCEPT !.votes = [p \in Peers |-> IF p \in ps THEN v ELSE d.votes[p]],
              !.yays = @ + IF v = "yes" THEN Cardinality(ps \ Voters(d, "yes")) ELSE 0,
              !.nays = @ + IF v = "yes" THEN 0 ELSE Cardinality(ps \ Voters(d, "no"))]

\* setvote, called once for each peer of ps: a new vote is counted, a changed
\* one is moved from one counter to the other, a repeated one does nothing.
SetVotes(d, ps, v) ==
    LET gain == Cardinality(ps \ Voters(d, v))
        loss == Cardinality(ps \cap Voters(d, IF v = "yes" THEN "no" ELSE "yes"))
    IN [d EXCEPT !.votes = [p \in Peers |-> IF p \in ps THEN v ELSE d.votes[p]],
                 !.yays  = IF v = "yes" THEN @ + gain ELSE @ - loss,
                 !.nays  = IF v = "yes" THEN @ - loss ELSE @ + gain]

\* unvote, called once for each peer of ps.
UnVotes(d, ps) ==
    [d EXCEPT !.votes = [p \in Peers |-> IF p \in ps THEN "none" ELSE d.votes[p]],
              !.yays  = @ - Cardinality(ps \cap Voters(d, "yes")),
              !.nays  = @ - Cardinality(ps \cap Voters(d, "no"))]

\* The share of yes votes, in percent, that a proposing node needs to vote
\* yes: it rises with the time the round has taken.
NeededPct(percenttime) ==
    IF percenttime < av_mid_consensus_time THEN av_init_consensus_pct
    ELSE IF percenttime < av_late_consensus_time THEN av_mid_consensus_pct
    ELSE IF percenttime < av_stuck_consensus_time THEN av_late_consensus_pct
    ELSE av_stuck_consensus_pct

\* updatevote: nothing changes while everybody who voted agrees with us; a
\* proposing node follows the avalanche, another one the plain majority.
\* The code returns whether our vote changed.
UpdateVote(d, percenttime, proposing) ==
    LET weight == (d.yays * 100 + (IF d.ourvote THEN 100 ELSE 0)) \div (d.nays + d.yays + 1)
        new    == IF proposing THEN weight > NeededPct(percenttime) ELSE d.yays > d.nays
    IN IF (d.ourvote /\ d.nays = 0) \/ (~d.ourvote /\ d.yays = 0)
       THEN d
       ELSE [d EXCEPT !.ourvote = new]
=============================================================================
