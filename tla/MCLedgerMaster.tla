--------------------------- MODULE MCLedgerMaster ---------------------------
(***************************************************************************)
(* LedgerMaster for TLC.                                                   *)
(***************************************************************************)
EXTENDS LedgerMaster

CONSTANTS v1, v2, v3

\* One validator; its validation of the second ledger is lost, so that the ledger
\* must be fetched.
SentOne == {v1} \X {1, 3, 4}

\* Three validators, whose validations arrive in any order; only one of them signs
\* the first ledger.
SentThree == {<<v1, 1>>} \cup ({v1, v2, v3} \X {2})
=============================================================================
