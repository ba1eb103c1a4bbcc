----------------------------- MODULE MCOneShot -----------------------------
(***************************************************************************)
(* Instances of OneShot for TLC.                                           *)
(***************************************************************************)
EXTENDS OneShot

CONSTANTS w1, l1
=============================================================================
