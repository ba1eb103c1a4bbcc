---------------------------- MODULE ExpiringMap ----------------------------
(***************************************************************************)
(* What a client of KVStore may rely on, without list, heap or capacity: a *)
(* map from keys to values in which an entry lives until it is deleted,    *)
(* replaced or past its deadline.  Storing a NEW key may cost at most one  *)
(* other entry (the eviction); nothing else may lose one.                  *)
(***************************************************************************)
EXTENDS StoreOps

VARIABLES map, now

contractVars == <<map, now>>

\* An entry as it is seen at time t.
Seen(n, t) == IF n # Absent /\ Expired(n, t) THEN Absent ELSE n

\* The entries whose deadline has come: whether they are still seen at that
\* very instant is left open (get and ttl disagree about it).
DueKeys == {k \in Keys : map[k] # Absent
                         /\ map[k].expiry # NoExpiry /\ map[k].expiry <= now}

Without(lost) == [k \in Keys |-> IF k \in lost THEN Absent ELSE map[k]]

ContractInit ==
  /\ map = [k \in Keys |-> Absent]
  /\ now \in Int

Store(k) ==
  /\ now' = now
  /\ \E lost \in SUBSET (Keys \ {k}) :
       /\ Cardinality(lost) <= 1
       /\ map[k] # Absent => lost = {}
       /\ \A other \in Keys \ {k} : map'[other] = Without(lost)[other]
  /\ \E v \in Value, ttl \in Ints :
       map'[k] = Seen([value |-> v, expiry |-> Deadline(ttl, now)], now)

Discard(k) ==
  /\ map' = Without({k})
  /\ now' = now

Count(k, d) ==
  /\ \/ /\ map[k] = Absent
        /\ map' = [map EXCEPT ![k] = [value |-> d, expiry |-> NoExpiry]]
     \/ /\ map[k] # Absent
        /\ map[k].value \notin Words
        /\ map' = [map EXCEPT ![k].value = Wrap(@ + d)]
  /\ now' = now

Collect ==
  /\ \E lost \in SUBSET DueKeys : map' = Without(lost)
  /\ now' = now

Pass ==
  /\ now' > now
  /\ map' = [k \in Keys |-> Seen(map[k], now')]

ContractNext ==
  \/ Pass
  \/ Collect
  \/ \E k \in Keys :
       \/ Discard(k)
       \/ \E d \in {1, -1} : Count(k, d)
       \/ Store(k)

ContractSpec == ContractInit /\ [][ContractNext]_contractVars
=============================================================================
