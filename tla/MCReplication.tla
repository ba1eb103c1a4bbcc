--------------------------- MODULE MCReplication ---------------------------
(***************************************************************************)
(* Instances of Replication for TLC.                                       *)
(***************************************************************************)
EXTENDS Replication

CONSTANTS k1, a, h1, h2, s1

\* A SET whose key expires, a DEL, and a counter, which may find a number
\* that has a deadline and leaves one that lasts.
Expiring == UNION {{SetCmd(k, 0, 1), KeyCmd("DEL", k), KeyCmd("INCR", k)} : k \in Keys}

Symmetry == Permutations(Keys) \cup Permutations(Handlers) \cup Permutations(Sockets)
=============================================================================
