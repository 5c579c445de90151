-------------------------- MODULE CloseTimeOffset --------------------------
(***************************************************************************)
(* The correction of a validator's clock: at the end of accept it averages *)
(* the close times that peers reported in their first positions with its   *)
(* own, and closetimeoffset (NetworkOPs.cpp) moves the offset that is added*)
(* to its wall clock.                                                      *)
(*                                                                         *)
(* Times are seconds ahead of this node's wall clock: a report is the clock*)
(* of the peer that made it, ours is the offset.  Of mclosetimes the code  *)
(* reads only how many reports there are and their sum.                    *)
(***************************************************************************)
EXTENDS Integers

CONSTANTS
    MaxSkew,    \* how far the peers' clocks are from our wall clock
    MaxReports  \* bound: reports of a round

ASSUME OffsetAssumption == MaxSkew \in Nat /\ MaxReports \in Nat

VARIABLES
    count,   \* mclosetimes: the number of reports,
    total,   \* and their sum
    offset   \* mclosetimeoffset

clock == <<count, total, offset>>

\* Integer division of C++, toward zero; that of TLA+ is toward minus infinity.
Quotient(a, b) == IF a >= 0 THEN a \div b ELSE -((-a) \div b)

\* The estimate at the end of accept: the average of the reports and our own
\* close time, rounded, less our own.  The code sums times since an epoch, so
\* that its division rounds down on either side of our own time.
Estimate == (total + offset + (count + 1) \div 2) \div (count + 1) - offset

\* Mutant: the whole estimate is taken, and rounded up.
AdjustedBy(old, est) ==
    IF est > 1 THEN old + est + 3
    ELSE IF est < -1 THEN old + est - 3
    ELSE Quotient(old * 3, 4)

\* Mutant: small estimates leave the offset alone.
AdjustedSticks(old, est) ==
    IF est > 1 THEN old + Quotient(est + 3, 4)
    ELSE IF est < -1 THEN old + Quotient(est - 3, 4)
    ELSE old

\* closetimeoffset: "take large offsets, ignore small offsets, push towards our
\* wall time".
Adjusted(old, est) ==
    IF est > 1 THEN old + Quotient(est + 3, 4)
    ELSE IF est < -1 THEN old + Quotient(est - 3, 4)
    ELSE Quotient(old * 3, 4)

\* peerposition: the first position of a peer, which may have left and come back.
PeerReports ==
    /\ count < MaxReports
    /\ \E s \in (-MaxSkew)..MaxSkew : total' = total + s
    /\ count' = count + 1
    /\ UNCHANGED offset

\* handlelcl forgets the reports, and those of a round in which we do not
\* validate are not used.
ReportsDropped ==
    /\ count' = 0 /\ total' = 0
    /\ UNCHANGED offset

\* accept at the end of a round in which we validate; the next round has a new
\* consensus object.
EndOfRound ==
    /\ offset' = Adjusted(offset, Estimate)
    /\ count' = 0 /\ total' = 0

ClockInit == count = 0 /\ total = 0 /\ offset = 0

ClockNext == PeerReports \/ ReportsDropped \/ EndOfRound

ClockSpec == ClockInit /\ [][ClockNext]_clock

\* Rounds go on ending.
ClockFairSpec == ClockSpec /\ WF_clock(EndOfRound)

-----------------------------------------------------------------------------
\* The correction never takes our clock past the range of the peers' clocks and
\* our own wall clock, however many report and however their clocks move.
OffsetWithin ==
    /\ count \in Nat /\ total \in (-(MaxSkew * count))..(MaxSkew * count)
    /\ offset \in (-MaxSkew)..MaxSkew

\* Once the reports of every round cancel out, as they do when the peers' clocks agree
\* with our wall clock, the correction goes away for good ("push towards our wall
\* time", closetimeoffset).
ReturnsToWallTime == <>[](total = 0) => <>[](offset = 0)
=============================================================================
