------------------------------ MODULE StoreOps ------------------------------
(***************************************************************************)
(* The methods of class KVStore (MiniRedis/store/KVStore.cpp) as functions *)
(* of a store state.  Every method holds `mtx` from its first line to its  *)
(* last, so a call is one transition from the state s before it to the     *)
(* state after it; the state machines that use the store (KVStore,         *)
(* Durability, Replication) apply these operators to a variable.           *)
(*                                                                         *)
(* A store state is a record with the three members the methods share:     *)
(*   store  the unordered_map, as a function on Keys; Absent is end()      *)
(*   lru    the std::list of keys, most recently used first                *)
(*   heap   expiryHeap, as the set of its <<expiry, key>> pairs.  Only     *)
(*          cleanExpired pops it, and it pops every pair that is due, so   *)
(*          neither the order nor the multiplicity of pairs is observable. *)
(*                                                                         *)
(* Strings are kept only as far as stoi tells them apart: a value is the   *)
(* integer it parses to, or a member of Words when stoi throws.            *)
(***************************************************************************)
EXTENDS Sublists

CONSTANTS
  Keys,         \* the keys clients use
  Words,        \* values stoi rejects
  Absent,       \* what find(key) == end() reads as
  Capacity,     \* KVStore::capacity (500 in the source)
  MsPerSecond,  \* the factor 1000 between a TTL argument and the clock
  IntMax        \* the largest int (2^31 - 1 on the build's targets)

NoExpiry == -1           \* Node::expiry of a key without deadline
NoTtl    == -1           \* the default of set's parameter ttl
IntMin   == -(IntMax + 1)
Ints     == IntMin .. IntMax
Value    == Ints \cup Words
Node     == [value : Value, expiry : Int]

ASSUME CapacityAssumption == Capacity \in Nat \ {0}
ASSUME UnitAssumption     == MsPerSecond \in Nat \ {0}
ASSUME IntAssumption      == IntMax \in Nat \ {0}
ASSUME AbsentAssumption   == Absent \notin Node
ASSUME WordAssumption     == \A w \in Words : w \notin Int

\* int arithmetic: the Makefile compiles without optimisation, where ++, --
\* and * on int keep the low bits of the result.
Wrap(n) == ((n - IntMin) % (2 * (IntMax + 1))) + IntMin

StoreState == [store : [Keys -> Node \cup {Absent}],
               lru   : Seq(Keys),
               heap  : SUBSET (Int \X Keys)]

EmptyStore == [store |-> [k \in Keys |-> Absent], lru |-> <<>>, heap |-> {}]

Present(s) == {k \in Keys : s.store[k] # Absent}
-----------------------------------------------------------------------------
(***************************************************************************)
(* The list.                                                               *)
(***************************************************************************)

\* lru.erase(it) and store.erase(it) for every key of K.
Erase(s, K) ==
  [store |-> [k \in Keys |-> IF k \in K THEN Absent ELSE s.store[k]],
   lru   |-> Sublist(s.lru, Keys \ K),
   heap  |-> s.heap]

\* lru.push_front(k); store[k] = n with n.it = lru.begin()
PushFront(s, k, n) ==
  [store |-> [s.store EXCEPT ![k] = n],
   lru   |-> <<k>> \o s.lru,
   heap  |-> s.heap]

\* The "move to front" block: erase the old position, push the key again.
Touch(s, k, n) == PushFront(Erase(s, {k}), k, n)
-----------------------------------------------------------------------------
(***************************************************************************)
(* Deadlines.  get, exists, incr, decr and set ask `now > expiry`.         *)
(***************************************************************************)

Expired(n, t) == n.expiry # NoExpiry /\ t > n.expiry

Live(s, k, t) == s.store[k] # Absent /\ ~Expired(s.store[k], t)

\* now + ttl * 1000, the product being an int
Deadline(ttl, t) == IF ttl = NoTtl THEN NoExpiry ELSE t + Wrap(ttl * MsPerSecond)
-----------------------------------------------------------------------------
(***************************************************************************)
(* set                                                                     *)
(***************************************************************************)

\* Step 1: pop expired keys off the back, up to the first valid one.
DropExpiredTail(s, t) ==
  LET valid == {i \in 1 .. Len(s.lru) : Live(s, s.lru[i], t)}
  IN  Erase(s, {s.lru[i] : i \in {j \in 1 .. Len(s.lru) :
                                    \A m \in valid : j > m}})

\* Step 2: if the map is still full, drop the key at the back.
\* (faulty variants: the front instead of the back; a full store not noticed)
EvictMru(s) ==
  IF Cardinality(Present(s)) >= Capacity THEN Erase(s, {s.lru[1]}) ELSE s

EvictLate(s) ==
  IF Cardinality(Present(s)) > Capacity THEN Erase(s, {s.lru[Len(s.lru)]}) ELSE s

EvictLru(s) ==
  IF Cardinality(Present(s)) >= Capacity THEN Erase(s, {s.lru[Len(s.lru)]}) ELSE s

MakeRoom(s, t) == EvictLru(DropExpiredTail(s, t))

Put(s, k, n, t) ==
  PushFront(IF s.store[k] # Absent THEN Erase(s, {k}) ELSE MakeRoom(s, t), k, n)

PushHeap(s, k, e) ==
  IF e = NoExpiry THEN s ELSE [s EXCEPT !.heap = @ \cup {<<e, k>>}]

\* (faulty variant: the heap entry is pushed for a new key only)
SetOpPushOnce(s, k, v, ttl, t) ==
  LET put == Put(s, k, [value |-> v, expiry |-> Deadline(ttl, t)], t)
  IN  IF s.store[k] = Absent THEN PushHeap(put, k, Deadline(ttl, t)) ELSE put

SetOp(s, k, v, ttl, t) ==
  PushHeap(Put(s, k, [value |-> v, expiry |-> Deadline(ttl, t)], t),
           k, Deadline(ttl, t))
-----------------------------------------------------------------------------
(***************************************************************************)
(* get, exists, ttl, del: an expired key is erased by whoever looks at it. *)
(***************************************************************************)

\* (faulty variant: reading does not move the key to the front)
GetOpNoTouch(s, k, t) == IF Live(s, k, t) THEN s ELSE Erase(s, {k})

GetOp(s, k, t) == IF Live(s, k, t) THEN Touch(s, k, s.store[k]) ELSE Erase(s, {k})

GetReply(s, k, t) == IF Live(s, k, t) THEN s.store[k].value ELSE Absent

ExistsOp(s, k, t) == IF Live(s, k, t) THEN s ELSE Erase(s, {k})

ExistsReply(s, k, t) == IF Live(s, k, t) THEN 1 ELSE 0

DelOp(s, k) == Erase(s, {k})

\* ttl asks `expiry - now <= 0`: it counts a key as gone one instant earlier.
OutOfTime(s, k, t) ==
  /\ s.store[k] # Absent
  /\ s.store[k].expiry # NoExpiry
  /\ s.store[k].expiry - t <= 0

TtlOp(s, k, t) == IF OutOfTime(s, k, t) THEN Erase(s, {k}) ELSE s

TtlReply(s, k, t) ==
  CASE s.store[k] = Absent \/ OutOfTime(s, k, t) -> -2
    [] s.store[k] # Absent /\ s.store[k].expiry = NoExpiry -> -1
    [] OTHER -> (s.store[k].expiry - t) \div MsPerSecond
-----------------------------------------------------------------------------
(***************************************************************************)
(* incr (d = 1) and decr (d = -1).  A missing or expired key is created    *)
(* without evicting anything; a value stoi rejects leaves the store alone. *)
(* The reply IntMin is the error code.                                     *)
(***************************************************************************)

\* (faulty variants: the old list position of an expired key is kept; the
\* sum is not an int)
AddOpKeepPosition(s, k, d, t) ==
  LET n == s.store[k]
  IN  IF ~Live(s, k, t)
      THEN PushFront(s, k, [value |-> d, expiry |-> NoExpiry])
      ELSE IF n.value \in Words
      THEN s
      ELSE Touch(s, k, [n EXCEPT !.value = Wrap(@ + d)])

AddOpNoWrap(s, k, d, t) ==
  LET n == s.store[k]
  IN  IF ~Live(s, k, t)
      THEN Touch(s, k, [value |-> d, expiry |-> NoExpiry])
      ELSE IF n.value \in Words
      THEN s
      ELSE Touch(s, k, [n EXCEPT !.value = @ + d])

AddOp(s, k, d, t) ==
  LET n == s.store[k]
  IN  IF ~Live(s, k, t)
      THEN Touch(s, k, [value |-> d, expiry |-> NoExpiry])
      ELSE IF n.value \in Words
      THEN s
      ELSE Touch(s, k, [n EXCEPT !.value = Wrap(@ + d)])

AddReply(s, k, d, t) ==
  CASE ~Live(s, k, t) -> d
    [] Live(s, k, t) /\ s.store[k].value \in Words -> IntMin
    [] OTHER -> Wrap(s.store[k].value + d)
-----------------------------------------------------------------------------
(***************************************************************************)
(* cleanExpired: pop every pair that is due; a pair that no longer matches *)
(* its key's deadline is stale and erases nothing.                         *)
(***************************************************************************)

\* (faulty variant: a stale pair erases its key)
CleanOpStale(s, t) ==
  LET due == {e \in s.heap : e[1] <= t}
  IN  [Erase(s, {e[2] : e \in due}) EXCEPT !.heap = @ \ due]

CleanOp(s, t) ==
  LET due  == {e \in s.heap : e[1] <= t}
      dead == {k \in Keys : s.store[k] # Absent /\ <<s.store[k].expiry, k>> \in due}
  IN  [Erase(s, dead) EXCEPT !.heap = @ \ due]
-----------------------------------------------------------------------------
(***************************************************************************)
(* saveSnapshot writes one line per key that is not yet due; the remaining *)
(* time is cut to whole seconds, and a line with none left is written      *)
(* without its EX part.                                                    *)
(***************************************************************************)

SavedKeys(store, t) ==
  {k \in Keys : store[k] # Absent
                /\ ~(store[k].expiry # NoExpiry /\ store[k].expiry <= t)}

SavedLine(store, k, t) ==
  LET left == (store[k].expiry - t) \div MsPerSecond
  IN  [key   |-> k,
       value |-> store[k].value,
       ttl   |-> IF store[k].expiry # NoExpiry /\ left > 0 THEN left ELSE NoTtl]
-----------------------------------------------------------------------------
(***************************************************************************)
(* What the methods rely on between calls.                                 *)
(***************************************************************************)

\* Every key of the map has exactly one list position, and the list holds
\* nothing else: the iterators kept in the nodes are valid.
LruConsistent(s) == NoDuplicates(s.lru) /\ Range(s.lru) = Present(s)

\* Every deadline in the map is in the heap: the cleaner will meet it.
HeapCovers(s) ==
  \A k \in Present(s) :
    s.store[k].expiry # NoExpiry => <<s.store[k].expiry, k>> \in s.heap
=============================================================================
