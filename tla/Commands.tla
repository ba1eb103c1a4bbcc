------------------------------ MODULE Commands ------------------------------
(***************************************************************************)
(* The commands of the text protocol, as the command loop of handleClient, *)
(* loadData and startAsSlave dispatch them to the store.  A command is the *)
(* record of what its line parses to.  Lines that are refused before they  *)
(* reach the store ("Invalid Command", "Invalid TTL") have no effect and   *)
(* are left out.                                                           *)
(***************************************************************************)
EXTENDS StoreOps

SetCmd(k, v, ttl) == [op |-> "SET", key |-> k, value |-> v, ttl |-> ttl]

KeyCmd(op, k) == [op |-> op, key |-> k, value |-> 0, ttl |-> NoTtl]

Writes  == {"SET", "DEL", "INCR", "DECR"}
Reads   == {"GET", "EXISTS", "TTL"}
Command == [op : Writes \cup Reads, key : Keys, value : Value, ttl : Ints]

Step(c) == IF c.op = "INCR" THEN 1 ELSE -1

\* The call on the store.
Exec(s, c, t) ==
  CASE c.op = "SET"              -> SetOp(s, c.key, c.value, c.ttl, t)
    [] c.op = "DEL"              -> DelOp(s, c.key)
    [] c.op \in {"INCR", "DECR"} -> AddOp(s, c.key, Step(c), t)
    [] c.op = "GET"              -> GetOp(s, c.key, t)
    [] c.op = "EXISTS"           -> ExistsOp(s, c.key, t)
    [] c.op = "TTL"              -> TtlOp(s, c.key, t)

\* `res == INT_MIN`: the client is told "ERROR: Not an integer".
Refused(s, c, t) ==
  c.op \in {"INCR", "DECR"} /\ AddReply(s, c.key, Step(c), t) = IntMin

\* The commands a handler appends to data.log and forwards to the slaves.
Recorded(s, c, t) == c.op \in Writes /\ ~Refused(s, c, t)

\* loadData acts on the lines that begin with SET or DEL.
\* (faulty variant: counters are replayed as well)
ReplayedCounters(c) == c.op \in Writes

Replayed(c) == c.op \in {"SET", "DEL"}

\* A line of snapshot.rdb is fed to set().
LineCmd(line) == SetCmd(line.key, line.value, line.ttl)
=============================================================================
