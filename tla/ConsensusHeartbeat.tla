------------------------- MODULE ConsensusHeartbeat -------------------------
(***************************************************************************)
(* The consensus rounds under the heartbeat timer of NetworkOPs, for what  *)
(* must eventually happen.  "beat" changes with every timer call: a call   *)
(* that changes nothing else is a step too, so that fairness can ask for   *)
(* timer calls and not for calls that make progress.                       *)
(***************************************************************************)
EXTENDS LedgerConsensus

VARIABLE beat

hbvars == <<vars, beat>>

\* processheartbeattimer, which calls timerentry of the current round.
Heartbeat == (Timer \/ TimerResumes) /\ beat' = 1 - beat

Others ==
    /\ \/ BeginConsensus \/ TimerChangesView \/ PeerProposes \/ PositionAges
       \/ PeerAsksForSet \/ SubmitTransaction \/ LedgerArrives \/ Accept \/ EndConsensus
       \/ AcquireDone \/ OnTimer \/ OnTimerLocked \/ CompleteAcquire
    /\ UNCHANGED beat

\* The timer is set again after every call, jobs that are queued run, and time
\* passes.
Fairness ==
    /\ []<>(c.state \notin {"preclose", "establish"}) \/ []<><<TRUE>>_beat
    /\ WF_hbvars(PositionAges /\ UNCHANGED beat)
    /\ WF_hbvars(OnTimerLocked /\ UNCHANGED beat)
    /\ WF_hbvars(CompleteAcquire /\ UNCHANGED beat)

HbSpec == Init /\ beat = 0 /\ [][Heartbeat \/ Others]_hbvars /\ Fairness

\* When the peers fall silent, a round that is establishing a consensus ends:
\* their positions go stale and updateourpositions leaves us to agree with
\* ourselves.
RoundEnds ==
    <>[][~PeerProposes]_vars => (c.state = "establish" ~> c.state = "finished")
=============================================================================
