--------------------------- MODULE MCKeyExplorer ---------------------------
(***************************************************************************)
(* Instances of KeyExplorer for TLC.                                       *)
(***************************************************************************)
EXTENDS KeyExplorer

CONSTANTS k1, k2

Cmd(op, k, ttl) == [op |-> op, key |-> k, ttl |-> ttl]

\* A key that the snapshot has with a deadline and that is removed and stored
\* for good, and a counter of another client.
TimedCalls == {[line |-> Cmd("SET", k1, 1), valid |-> TRUE, ours |-> FALSE]}

SmallCalls == TimedCalls \cup
  {[line |-> Cmd("SET", k1, NoTtl), valid |-> TRUE, ours |-> TRUE],
   [line |-> Cmd("DEL", k1, NoTtl), valid |-> TRUE, ours |-> TRUE],
   [line |-> Cmd("INCR", k2, NoTtl), valid |-> TRUE, ours |-> FALSE]}
=============================================================================
