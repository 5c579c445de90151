---------------------------- MODULE MCSHAMapStore ----------------------------
(***************************************************************************)
(* SHAMapStore with five ledgers, of which the second and the fourth change*)
(* the part that the others share.                                         *)
(***************************************************************************)
EXTENDS SHAMapStore

MCRest == <<1, 2, 2, 4, 4>>
=============================================================================
