--------------------------- MODULE MCBridgeSession ---------------------------
(***************************************************************************)
(* Instances of BridgeSession for TLC.                                     *)
(***************************************************************************)
EXTENDS BridgeSession

CONSTANTS w1, w2, g1, g2
=============================================================================
