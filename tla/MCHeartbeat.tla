---------------------------- MODULE MCHeartbeat ----------------------------
(***************************************************************************)
(* ConsensusHeartbeat for TLC, with the proposals of MCConsensus.          *)
(***************************************************************************)
EXTENDS ConsensusHeartbeat, MCConsensus
=============================================================================
