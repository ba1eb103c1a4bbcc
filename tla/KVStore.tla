------------------------------ MODULE KVStore ------------------------------
(***************************************************************************)
(* Class KVStore as a component: the client handler threads call its       *)
(* methods in any order, the cleaner thread calls cleanExpired, and the    *)
(* wall clock moves.  All methods exclude each other by `mtx`.             *)
(***************************************************************************)
EXTENDS StoreOps

CONSTANTS
  Epoch,     \* the clock's reading when the server starts, in ms
  Horizon,   \* bound on the number of clock ticks explored
  SetValues, \* the values clients pass to SET
  Ttls,      \* the TTL arguments clients pass to SET
  Counters   \* the keys clients count with (INCR, DECR)

\* The epoch time in ms (about 1.7 * 10^12) exceeds every int, so that no
\* deadline can collide with the sentinel -1.
ASSUME EpochAssumption == Epoch \in Nat /\ Epoch > IntMax
ASSUME HorizonAssumption == Horizon \in Nat
ASSUME InputAssumption ==
  SetValues \subseteq Value /\ Ttls \subseteq Ints /\ Counters \subseteq Keys

VARIABLES
  kv,     \* the store
  now,    \* system_clock in ms
  recent  \* history: keys ever used, most recently used first

vars == <<kv, now, recent>>

\* A use of k, as the eviction policy counts it: a SET, a GET that finds the
\* key, an INCR or DECR that counts.  EXISTS and TTL are not uses.
Used(k) == recent' = <<k>> \o Sublist(recent, Keys \ {k})

Init ==
  /\ kv = EmptyStore
  /\ now = Epoch
  /\ recent = <<>>

Set(k, v, ttl) ==
  /\ kv' = SetOp(kv, k, v, ttl, now)
  /\ Used(k)
  /\ now' = now

Get(k) ==
  /\ kv' = GetOp(kv, k, now)
  /\ IF Live(kv, k, now) THEN Used(k) ELSE recent' = recent
  /\ now' = now

Del(k) ==
  /\ kv' = DelOp(kv, k)
  /\ UNCHANGED <<now, recent>>

Exists(k) ==
  /\ kv' = ExistsOp(kv, k, now)
  /\ UNCHANGED <<now, recent>>

Ttl(k) ==
  /\ kv' = TtlOp(kv, k, now)
  /\ UNCHANGED <<now, recent>>

Add(k, d) ==
  /\ kv' = AddOp(kv, k, d, now)
  /\ IF Live(kv, k, now) /\ kv.store[k].value \in Words
     THEN recent' = recent
     ELSE Used(k)
  /\ now' = now

Incr(k) == Add(k, 1)

Decr(k) == Add(k, -1)

CleanExpired ==
  /\ kv' = CleanOp(kv, now)
  /\ UNCHANGED <<now, recent>>

Tick ==
  /\ now < Epoch + Horizon
  /\ now' = now + 1
  /\ UNCHANGED <<kv, recent>>

Next ==
  \/ \E k \in Keys :
       \/ \E v \in SetValues, ttl \in Ttls : Set(k, v, ttl)
       \/ Get(k)
       \/ Del(k)
       \/ Exists(k)
       \/ Ttl(k)
  \/ \E k \in Counters : Incr(k) \/ Decr(k)
  \/ CleanExpired
  \/ Tick

Spec == Init /\ [][Next]_vars

(***************************************************************************)
(* The cleaner loops as long as the server runs, sleeping two seconds, and *)
(* the clock does not stop.  Nothing is assumed of clients.                *)
(***************************************************************************)
FairSpec == Spec /\ WF_vars(CleanExpired)
-----------------------------------------------------------------------------
(***************************************************************************)
(* Properties.                                                             *)
(***************************************************************************)

\* The types of the variables.
TypeOK ==
  /\ kv \in StoreState
  /\ now \in Int
  /\ recent \in Seq(Keys)

\* The list and the map name the same keys, each once: no method leaves a
\* dangling iterator, a key it cannot evict or a position it frees twice.
LruMatchesStore == LruConsistent(kv)

\* A deadline in the map is always in the heap as well, through overwriting,
\* counting, lazy deletion and re-creation of its key.
HeapCoversDeadlines == HeapCovers(kv)

\* The list orders the keys by their last use, whatever was deleted, expired
\* or evicted in between (README "Least Recently Used eviction").
LruIsRecency == kv.lru = Sublist(recent, Present(kv))

PositionIn(l, k) == CHOOSE i \in 1 .. Len(l) : l[i] = k

\* A key whose deadline has not come leaves the map only by its own DEL or
\* by the eviction a SET of another, new key makes in a full store, and then
\* every key that stays has been used more recently.
Lost(k) ==
  /\ kv.store[k] # Absent
  /\ kv.store[k].expiry = NoExpiry \/ kv.store[k].expiry > now
  /\ kv'.store[k] = Absent

EvictedFor(k) ==
  /\ Cardinality(Present(kv)) >= Capacity
  /\ \E new \in Keys : kv.store[new] = Absent /\ kv'.store[new] # Absent
  /\ \A stays \in Present(kv) : kv'.store[stays] # Absent =>
       PositionIn(recent, stays) < PositionIn(recent, k)

OnlyOldestEvicted == [][\A k \in Keys : Lost(k) => Del(k) \/ EvictedFor(k)]_vars

\* The map grows beyond Capacity by INCR and DECR only; SET, GET and the
\* cleaner never add a key to a store that is full.
Growth == Cardinality(Present(kv')) > Cardinality(Present(kv))

OnlyCountersOverfill ==
  [][Growth /\ Cardinality(Present(kv')) > Capacity
       => \E k \in Counters : Incr(k) \/ Decr(k)]_vars

\* An entry whose deadline has come does not stay in memory forever: the
\* cleaner or a reader removes it, or a writer replaces it.
Overdue(k) ==
  kv.store[k] # Absent /\ kv.store[k].expiry # NoExpiry /\ kv.store[k].expiry <= now

ExpiredCollected == []<>(\A k \in Keys : ~Overdue(k))
-----------------------------------------------------------------------------
(***************************************************************************)
(* The store implements the map its clients rely on: list, heap, cleaner   *)
(* and the expired entries still in memory are invisible.                  *)
(***************************************************************************)

LiveView == [k \in Keys |-> IF Live(kv, k, now) THEN kv.store[k] ELSE Absent]

Contract == INSTANCE ExpiringMap WITH map <- LiveView

ImplementsMap == Contract!ContractSpec
=============================================================================
