--------------------------- MODULE MCConnections ---------------------------
(***************************************************************************)
(* Instances of Connections for TLC.                                       *)
(***************************************************************************)
EXTENDS Connections

CONSTANTS r1, r2, c1, c2, c3

FewFds == 1 .. 3
Symmetry == Permutations(SlavePeers) \cup Permutations(ClientPeers)
=============================================================================
