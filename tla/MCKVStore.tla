----------------------------- MODULE MCKVStore -----------------------------
(***************************************************************************)
(* Instances of KVStore for TLC.  TTL arguments are in seconds; a cfg sets  *)
(* MsPerSecond clock ticks to the second and an int of -IntMax-1..IntMax.  *)
(***************************************************************************)
EXTENDS KVStore

CONSTANTS k1, k2, k3, word

ShortTtls == {-1, 0}
=============================================================================
