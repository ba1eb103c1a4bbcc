---------------------------- MODULE MCDurability ----------------------------
(***************************************************************************)
(* Instances of Durability for TLC.                                        *)
(***************************************************************************)
EXTENDS Durability

CONSTANTS k1, k2, a, b, h1, h2

Set(k, v) == SetCmd(k, v, NoTtl)

\* Values that replace each other, deletions and counters.
Mixed == UNION {{Set(k, 0), KeyCmd("DEL", k), KeyCmd("INCR", k)} : k \in Keys}

\* The same with a deadline.
Timed == UNION {{Set(k, 0), SetCmd(k, b, 1), KeyCmd("DEL", k), KeyCmd("INCR", k)} : k \in Keys}

Plain    == UNION {{Set(k, a), Set(k, b)} : k \in Keys}

Symmetry == Permutations(Keys) \cup Permutations(Handlers)
=============================================================================
