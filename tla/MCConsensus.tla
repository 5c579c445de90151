---------------------------- MODULE MCConsensus ----------------------------
(***************************************************************************)
(* Instances of LedgerConsensus for TLC.                                   *)
(***************************************************************************)
EXTENDS LedgerConsensus, TLC

CONSTANTS p1, p2, t1, t2, L0, L1

Symmetry == Permutations(Peers)

\* The ledger L1 has a coarser close time than L0.
CoarserL1 == [l \in Ledgers |-> IF l = L0 THEN 30 ELSE 60]

AllSets == SUBSET Txs

Bowout == {[set |-> {}, seq |-> SeqLeave, closetime |-> 1]}

\* Any set, one close time: a first position, a changed one, a bow-out.
AnySet == [set : SUBSET Txs, seq : 0..MaxSeq, closetime : {1}] \cup Bowout

\* Only the empty set, which needs no acquisition, with any close time.
AnyTime == [set : {{}}, seq : 0..MaxSeq, closetime : CloseTimes \cup {0}]
=============================================================================
