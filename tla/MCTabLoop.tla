----------------------------- MODULE MCTabLoop -----------------------------
(***************************************************************************)
(* Instances of TabLoop for TLC.                                           *)
(***************************************************************************)
EXTENDS TabLoop

CONSTANTS w1, g1
=============================================================================
