----------------------------- MODULE MCJobQueue -----------------------------
(***************************************************************************)
(* JobQueue for TLC: a type that runs one job at a time, one that runs two *)
(* and one without a limit.                                                *)
(***************************************************************************)
EXTENDS JobQueue, TLC

CONSTANT child

MCLimit == (1 :> 1) @@ (2 :> 2) @@ (3 :> 2147483647)
=============================================================================
