----------------------- MODULE LedgerCloseTimeProofs -----------------------
(***************************************************************************)
(* Proofs about LedgerCloseTime, for close times of any size, and about    *)
(* CloseTimeOffset, for clocks of any skew and any number of reports.      *)
(***************************************************************************)
EXTENDS LedgerCloseTime, CloseTimeOffset, TLAPS

\* The table of resolutions.
LEMMA Table ==
    /\ Resolutions = {10, 20, 30, 60, 90, 120}
    /\ \A r \in Resolutions : ResolutionIndex(r) \in 2..7 /\ ledgertimeresolution[ResolutionIndex(r)] = r
    /\ \A i \in 1..8 : ledgertimeresolution[i] \in Resolutions
<1>1. \A i \in 1..8 : i = 1 \/ i = 2 \/ i = 3 \/ i = 4 \/ i = 5 \/ i = 6 \/ i = 7 \/ i = 8
  OBVIOUS
<1>2. /\ Len(ledgertimeresolution) = 8
      /\ ledgertimeresolution[1] = 10 /\ ledgertimeresolution[2] = 10
      /\ ledgertimeresolution[3] = 20 /\ ledgertimeresolution[4] = 30
      /\ ledgertimeresolution[5] = 60 /\ ledgertimeresolution[6] = 90
      /\ ledgertimeresolution[7] = 120 /\ ledgertimeresolution[8] = 120
  BY DEF ledgertimeresolution
<1>3. Resolutions = {10, 20, 30, 60, 90, 120}
  <2>1. Resolutions = {ledgertimeresolution[i] : i \in 1..8}
    BY <1>2 DEF Resolutions
  <2> QED BY <1>1, <1>2, <2>1
<1>4. \A i \in 1..8 : ledgertimeresolution[i] \in Resolutions
  BY <1>1, <1>2, <1>3
<1>5. ASSUME NEW r \in Resolutions
      PROVE  ResolutionIndex(r) \in 2..7 /\ ledgertimeresolution[ResolutionIndex(r)] = r
  <2> DEFINE First(i) == /\ ledgertimeresolution[i] = r
                         /\ \A j \in 2..(i - 1) : ledgertimeresolution[j] # r
  <2>1. \E i \in 2..7 : First(i)
    <3>1. PICK k \in 2..7 : ledgertimeresolution[k] = r
      BY <1>2, <1>3
    <3>2. \A i, j \in 2..7 : ledgertimeresolution[i] = ledgertimeresolution[j] => i = j
      BY <1>1, <1>2
    <3>3. \A j \in 2..(k - 1) : j \in 2..7 /\ j # k
      OBVIOUS
    <3> QED BY <3>1, <3>2, <3>3
  <2>2. ResolutionIndex(r) = CHOOSE i \in 2..8 : First(i)
    BY <1>2 DEF ResolutionIndex
  <2>3. ResolutionIndex(r) \in 2..8 /\ First(ResolutionIndex(r))
    <3> HIDE DEF First
    <3> QED BY <2>1, <2>2
  <2>4. ResolutionIndex(r) # 8
    BY <1>2, <2>3
  <2> QED BY <2>3, <2>4
<1> QED BY <1>3, <1>4, <1>5

\* getnextledgertimeresolution stays in the table.
LEMMA NextInTable ==
    ASSUME NEW r \in Resolutions, NEW a \in BOOLEAN, NEW n \in Nat
    PROVE  NextResolution(r, a, n) \in Resolutions
<1>1. PICK i \in 2..7 : i = ResolutionIndex(r)
  BY Table
<1>2. i + 1 \in 1..8 /\ i - 1 \in 1..8
  OBVIOUS
<1>3. ledgertimeresolution[i + 1] \in Resolutions /\ ledgertimeresolution[i - 1] \in Resolutions
  BY <1>2, Table
<1> QED BY <1>1, <1>3 DEF NextResolution

\* A rounded time is a multiple of the resolution, and rounding it again leaves
\* it alone.
LEMMA RoundAgain ==
    ASSUME NEW t \in Nat, NEW r \in Resolutions
    PROVE  /\ RoundCloseTime(t, r) \in Nat
           /\ RoundCloseTime(RoundCloseTime(t, r), r) = RoundCloseTime(t, r)
<1>1. r = 10 \/ r = 20 \/ r = 30 \/ r = 60 \/ r = 90 \/ r = 120
  BY Table
<1>2. CASE r = 10
  BY <1>2 DEF RoundCloseTime
<1>3. CASE r = 20
  BY <1>3 DEF RoundCloseTime
<1>4. CASE r = 30
  BY <1>4 DEF RoundCloseTime
<1>5. CASE r = 60
  BY <1>5 DEF RoundCloseTime
<1>6. CASE r = 90
  BY <1>6 DEF RoundCloseTime
<1>7. CASE r = 120
  BY <1>7 DEF RoundCloseTime
<1> QED BY <1>1, <1>2, <1>3, <1>4, <1>5, <1>6, <1>7

\* The invariant: the two properties together.
CloseInv == TypeOK /\ AcquiredSame

\* Every step keeps it.
LEMMA NextCloseInv == CloseInv /\ [Next]_vars => CloseInv'
<1> SUFFICES ASSUME CloseInv, [Next]_vars PROVE CloseInv'
  OBVIOUS
<1>1. CASE AcceptLedger
  <2>1. PICK position \in 0..MaxTime :
          LET r       == NextResolution(res, agree, seq + 1)
              rounded == RoundCloseTime(position, r)
              correct == rounded # 0
          IN /\ res' = r
             /\ agree' = correct
             /\ closetime' = IF correct THEN RoundCloseTime(rounded, r)
                             ELSE IF closetime < MaxTime THEN closetime + 1 ELSE closetime
             /\ seq' = (seq + 1) % ledger_res_increase
    BY <1>1 DEF AcceptLedger
  <2>2. PICK r : r = NextResolution(res, agree, seq + 1)
    OBVIOUS
  <2>3. r \in Resolutions
    <3>1. seq + 1 \in Nat
      BY DEF CloseInv, TypeOK, ledger_res_increase
    <3> QED BY <2>2, <3>1, NextInTable DEF CloseInv, TypeOK
  <2>4. PICK rounded : rounded = RoundCloseTime(position, r)
    OBVIOUS
  <2>5. rounded \in Nat /\ RoundCloseTime(rounded, r) = rounded
    BY <2>3, <2>4, RoundAgain, MaxTimeAssumption
  <2>6. /\ res' = r /\ agree' = (rounded # 0)
        /\ closetime' = IF rounded # 0 THEN rounded
                        ELSE IF closetime < MaxTime THEN closetime + 1 ELSE closetime
        /\ seq' = (seq + 1) % ledger_res_increase
    BY <2>1, <2>2, <2>4, <2>5
  <2>7. TypeOK'
    BY <2>3, <2>5, <2>6 DEF CloseInv, TypeOK, ledger_res_increase
  <2>8. AcquiredSame'
    BY <2>5, <2>6, Zenon DEF AcquiredSame, AcquiredCloseTime
  <2> QED BY <2>7, <2>8 DEF CloseInv
<1>2. CASE UNCHANGED vars
  BY <1>2 DEF vars, CloseInv, TypeOK, AcquiredSame, AcquiredCloseTime
<1> QED BY <1>1, <1>2 DEF Next

\* Every step keeps the invariant.
LEMMA CloseInvariance == Spec => []CloseInv
<1>1. Init => CloseInv
  BY Table DEF Init, CloseInv, TypeOK, AcquiredSame, AcquiredCloseTime, RoundCloseTime,
               ledger_time_accuracy, ledger_res_increase
<1>2. CloseInv /\ [Next]_vars => CloseInv'
  BY NextCloseInv
<1> QED BY <1>1, <1>2, PTL DEF Spec

\* The resolution never leaves the table of getnextledgertimeresolution.
THEOREM TypeCorrect == Spec => []TypeOK
<1>1. CloseInv => TypeOK
  BY DEF CloseInv
<1> QED BY <1>1, CloseInvariance, PTL

\* A node that builds a ledger and one that acquires it have the same close time
\* for it.
THEOREM CloseTimesAgree == Spec => []AcquiredSame
<1>1. CloseInv => AcquiredSame
  BY DEF CloseInv
<1> QED BY <1>1, CloseInvariance, PTL

-----------------------------------------------------------------------------
\* One step of getnextledgertimeresolution: the neighbour in the table, or the
\* same entry at either end.
LEMMA StepInTable ==
    ASSUME NEW r \in Resolutions, NEW a \in BOOLEAN, NEW n \in Nat, NEW next, next = NextResolution(r, a, n)
    PROVE  /\ ~a => IF r = 120 THEN next = r ELSE next > r
           /\ a /\ n % ledger_res_increase = 0 => IF r = 10 THEN next = r ELSE next < r
           /\ a /\ n % ledger_res_increase # 0 => next = r
<1>1. PICK i \in 2..7 : i = ResolutionIndex(r) /\ ledgertimeresolution[i] = r
  BY Table
<1>2. n % ledger_res_decrease = 0
  BY DEF ledger_res_decrease
<1>3. /\ ledgertimeresolution[1] = 10 /\ ledgertimeresolution[2] = 10
      /\ ledgertimeresolution[3] = 20 /\ ledgertimeresolution[4] = 30
      /\ ledgertimeresolution[5] = 60 /\ ledgertimeresolution[6] = 90
      /\ ledgertimeresolution[7] = 120 /\ ledgertimeresolution[8] = 120
  BY DEF ledgertimeresolution
<1>4. next = IF ~a THEN ledgertimeresolution[i + 1]
             ELSE IF n % ledger_res_increase = 0 THEN ledgertimeresolution[i - 1] ELSE r
  BY <1>1, <1>2 DEF NextResolution
<1>5. i = 2 \/ i = 3 \/ i = 4 \/ i = 5 \/ i = 6 \/ i = 7
  OBVIOUS
<1>6. /\ IF r = 120 THEN ledgertimeresolution[i + 1] = r ELSE ledgertimeresolution[i + 1] > r
      /\ IF r = 10 THEN ledgertimeresolution[i - 1] = r ELSE ledgertimeresolution[i - 1] < r
  BY <1>1, <1>3, <1>5
<1> QED BY <1>4, <1>6

\* The step behind ResolutionAdapts (accept): after a disagreement the resolution
\* gets coarser until it is the coarsest of the table, after an agreement it gets
\* finer at every eighth ledger until it is the finest, and never both ways.
THEOREM ResolutionSteps ==
    Spec => [][/\ ~agree => IF res = 120 THEN res' = res ELSE res' > res
               /\ agree /\ (seq + 1) % ledger_res_increase = 0 =>
                    IF res = 10 THEN res' = res ELSE res' < res
               /\ agree /\ (seq + 1) % ledger_res_increase # 0 => res' = res]_vars
<1>1. TypeOK /\ Next => /\ ~agree => IF res = 120 THEN res' = res ELSE res' > res
                        /\ agree /\ (seq + 1) % ledger_res_increase = 0 =>
                             IF res = 10 THEN res' = res ELSE res' < res
                        /\ agree /\ (seq + 1) % ledger_res_increase # 0 => res' = res
  <2> SUFFICES ASSUME TypeOK, AcceptLedger
               PROVE  /\ ~agree => IF res = 120 THEN res' = res ELSE res' > res
                      /\ agree /\ (seq + 1) % ledger_res_increase = 0 =>
                           IF res = 10 THEN res' = res ELSE res' < res
                      /\ agree /\ (seq + 1) % ledger_res_increase # 0 => res' = res
    BY DEF Next
  <2>1. res' = NextResolution(res, agree, seq + 1)
    BY DEF AcceptLedger
  <2>2. res \in Resolutions /\ agree \in BOOLEAN /\ seq + 1 \in Nat
    BY DEF TypeOK, ledger_res_increase
  <2> QED BY <2>1, <2>2, StepInTable
<1> QED BY <1>1, TypeCorrect, PTL DEF Spec
-----------------------------------------------------------------------------
(***************************************************************************)
(* The correction of the clock.  The estimate lies between the distances   *)
(* of our clock from the ends of the range, and the part of it that is     *)
(* taken does not go beyond it.                                            *)
(***************************************************************************)
\* What rounding down means.
LEMMA Division ==
    ASSUME NEW z \in Int, NEW k \in Nat, k >= 1
    PROVE  z \div k \in Int /\ k * (z \div k) <= z /\ z < k * (z \div k) + k
BY SMTT(30)

\* An average, rounded to the nearest, of n + 1 clocks of which one is 0 and the
\* others sum to at most n * d is at most d, and at least -d if at least -(n * d).
LEMMA AverageWithin ==
    ASSUME NEW n \in Nat, NEW sum \in Int, NEW q \in Int, NEW d \in Nat,
           q = (sum + (n + 1) \div 2) \div (n + 1)
    PROVE  /\ sum <= n * d => q <= d
           /\ sum >= -(n * d) => q >= -d
<1>1. PICK h \in Nat : h = (n + 1) \div 2 /\ h < n + 1
  BY SMTT(30)
<1>2. q * (n + 1) <= sum + h /\ sum + h < q * (n + 1) + (n + 1)
  <2>1. PICK k \in Nat, z \in Int : k = n + 1 /\ k >= 1 /\ z = sum + h
    BY <1>1, SMTT(30)
  <2>2. q = z \div k
    BY <1>1, <2>1, SMTT(30)
  <2>3. k * q <= z /\ z < k * q + k
    BY <2>1, <2>2, Division, Zenon
  <2> QED BY <2>1, <2>3, SMTT(30)
<1>3. ASSUME sum <= n * d, q > d PROVE FALSE
  <2>1. q * (n + 1) >= (d + 1) * (n + 1)
    BY <1>3, SMTT(30)
  <2>2. (d + 1) * (n + 1) = n * d + d + n + 1
    BY SMTT(30)
  <2>3. n * d \in Int /\ q * (n + 1) \in Int
    BY SMTT(30)
  <2> QED BY <1>1, <1>2, <1>3, <2>1, <2>2, <2>3, SMTT(30)
<1>4. ASSUME sum >= -(n * d), q < -d PROVE FALSE
  <2>1. q * (n + 1) <= (-d - 1) * (n + 1)
    BY <1>4, SMTT(30)
  <2>2. (-d - 1) * (n + 1) = -(n * d) - d - n - 1
    BY SMTT(30)
  <2>3. n * d \in Int /\ q * (n + 1) \in Int
    BY SMTT(30)
  <2> QED BY <1>1, <1>2, <1>4, <2>1, <2>2, <2>3, SMTT(30)
<1> QED BY <1>3, <1>4, SMTT(30)

\* closetimeoffset keeps the offset in a range that the estimate does not leave.
LEMMA AdjustedWithin ==
    ASSUME NEW m \in Nat, NEW old \in (-m)..m, NEW est \in Int,
           est <= m - old \/ est <= 1, est >= -m - old \/ est >= -1
    PROVE  Adjusted(old, est) \in (-m)..m
BY SMTT(30) DEF Adjusted, Quotient

\* closetimeoffset: however many peers report and whatever they report, the
\* correction stays between the clocks that are furthest from our wall clock.
THEOREM OffsetStaysWithin == ClockSpec => []OffsetWithin
<1>0. MaxSkew \in Nat
  BY OffsetAssumption
<1> USE <1>0
<1>1. ClockInit => OffsetWithin
  BY SMTT(30) DEF ClockInit, OffsetWithin
<1>2. OffsetWithin /\ [ClockNext]_clock => OffsetWithin'
  <2> SUFFICES ASSUME OffsetWithin, [ClockNext]_clock PROVE OffsetWithin'
    OBVIOUS
  <2>1. /\ count \in Nat /\ total \in Int /\ offset \in (-MaxSkew)..MaxSkew
        /\ MaxSkew * count \in Nat
        /\ -(MaxSkew * count) <= total /\ total <= MaxSkew * count
    BY SMTT(30) DEF OffsetWithin
  <2>2. CASE PeerReports
    <3>1. PICK s \in (-MaxSkew)..MaxSkew : total' = total + s
      BY <2>2 DEF PeerReports
    <3>2. MaxSkew * (count + 1) = MaxSkew * count + MaxSkew
      BY <2>1, SMTT(30)
    <3> QED BY <2>1, <2>2, <3>1, <3>2, SMTT(30) DEF PeerReports, OffsetWithin
  <2>3. CASE ReportsDropped
    BY <2>1, <2>3, SMTT(30) DEF ReportsDropped, OffsetWithin
  <2>4. CASE EndOfRound
    <3> DEFINE sum == total - count * offset
               est == Estimate
    <3>1. est \in Int /\ est = (sum + (count + 1) \div 2) \div (count + 1) /\ sum \in Int
      <4>1. PICK k \in Nat, z \in Int : k = count + 1 /\ k >= 1 /\ z = sum + k \div 2
        BY <2>1, SMTT(30)
      <4>2. total + offset + k \div 2 = z + offset * k
        BY <2>1, <4>1, SMTT(30)
      <4>3. (z + offset * k) \div k = z \div k + offset
        BY <2>1, <4>1, SMTT(30)
      <4> QED BY <2>1, <4>1, <4>2, <4>3, SMTT(30) DEF Estimate
    <3>2. MaxSkew - offset \in Nat /\ MaxSkew + offset \in Nat
      BY <2>1, SMTT(30)
    <3>3. sum <= count * (MaxSkew - offset) /\ sum >= -(count * (MaxSkew + offset))
      BY <2>1, SMTT(30)
    <3> HIDE DEF sum, est
    <3>4. est <= MaxSkew - offset /\ est >= -(MaxSkew + offset)
      BY <2>1, <3>1, <3>2, <3>3, AverageWithin, SMTT(30)
    <3>5. Adjusted(offset, est) \in (-MaxSkew)..MaxSkew
      BY <2>1, <3>1, <3>4, AdjustedWithin, SMTT(30)
    <3> QED BY <2>1, <2>4, <3>5, SMTT(30) DEF est, EndOfRound, OffsetWithin
  <2>5. CASE UNCHANGED clock
    BY <2>5 DEF clock, OffsetWithin
  <2> QED BY <2>2, <2>3, <2>4, <2>5 DEF ClockNext
<1> QED BY <1>1, <1>2, PTL DEF ClockSpec

\* closetimeoffset brings an offset that the estimate would take back to our wall
\* time, or part of the way, strictly nearer to it and never beyond.
LEMMA AdjustedNearer ==
    ASSUME NEW old \in Int, NEW est \in Int,
           old >= 0 => -old <= est /\ est <= 0, old <= 0 => 0 <= est /\ est <= -old
    PROVE  /\ old = 0 => Adjusted(old, est) = 0
           /\ old > 0 => 0 <= Adjusted(old, est) /\ Adjusted(old, est) < old
           /\ old < 0 => old < Adjusted(old, est) /\ Adjusted(old, est) <= 0
BY SMTT(30) DEF Adjusted, Quotient

\* The step behind ReturnsToWallTime ("push towards our wall time",
\* closetimeoffset): a round whose reports cancel out leaves the correction at zero
\* or brings it strictly nearer, however many reports there were, and never to
\* the other side.
THEOREM OffsetShrinks ==
    ClockSpec => [][EndOfRound /\ total = 0 =>
                       /\ offset = 0 => offset' = 0
                       /\ offset > 0 => 0 <= offset' /\ offset' < offset
                       /\ offset < 0 => offset < offset' /\ offset' <= 0]_clock
<1>1. ASSUME OffsetWithin, EndOfRound, total = 0
      PROVE  /\ offset = 0 => offset' = 0
             /\ offset > 0 => 0 <= offset' /\ offset' < offset
             /\ offset < 0 => offset < offset' /\ offset' <= 0
  <2>1. count \in Nat /\ offset \in Int
    BY <1>1, OffsetAssumption, SMTT(30) DEF OffsetWithin
  <2>2. PICK q \in Int : q = (offset + (count + 1) \div 2) \div (count + 1)
    BY <2>1, SMTT(30)
  <2>3. offset' = Adjusted(offset, q - offset)
    BY <1>1, <2>1, <2>2, SMTT(30) DEF EndOfRound, Estimate
  <2>4. PICK k \in Nat, h \in Nat : k = count + 1 /\ k >= 1 /\ h = k \div 2 /\ h < k
    BY <2>1, SMTT(30)
  <2>5. k * q <= offset + h /\ offset + h < k * q + k
    <3>1. PICK z \in Int : z = offset + h
      BY <2>1
    <3>2. q = z \div k
      BY <2>2, <2>4, <3>1
    <3> QED BY <2>4, <3>1, <3>2, Division
  <2>6. offset >= 0 => 0 <= q /\ q <= offset
    <3> SUFFICES ASSUME offset >= 0 PROVE 0 <= q /\ q <= offset
      OBVIOUS
    <3>1. q <= -1 => k * q <= -k
      BY <2>2, <2>4, SMTT(30)
    <3>2. k * offset >= offset
      BY <2>1, <2>4, SMTT(30)
    <3>3. q >= offset + 1 => k * q >= k * offset + k
      BY <2>1, <2>2, <2>4, SMTT(30)
    <3> QED BY <2>1, <2>2, <2>4, <2>5, <3>1, <3>2, <3>3, SMTT(30)
  <2>7. offset <= 0 => offset <= q /\ q <= 0
    <3> SUFFICES ASSUME offset <= 0 PROVE offset <= q /\ q <= 0
      OBVIOUS
    <3>1. q >= 1 => k * q >= k
      BY <2>2, <2>4, SMTT(30)
    <3>2. k * offset <= offset
      BY <2>1, <2>4, SMTT(30)
    <3>3. q <= offset - 1 => k * q <= k * offset - k
      BY <2>1, <2>2, <2>4, SMTT(30)
    <3> QED BY <2>1, <2>2, <2>4, <2>5, <3>1, <3>2, <3>3, SMTT(30)
  <2>8. PICK est \in Int : est = q - offset
    BY <2>1
  <2>9. (offset >= 0 => -offset <= est /\ est <= 0) /\ (offset <= 0 => 0 <= est /\ est <= -offset)
    BY <2>1, <2>2, <2>6, <2>7, <2>8
  <2> QED BY <2>1, <2>3, <2>8, <2>9, AdjustedNearer
<1> QED BY <1>1, OffsetStaysWithin, PTL DEF ClockSpec
=============================================================================
