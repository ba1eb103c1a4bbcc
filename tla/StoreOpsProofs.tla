--------------------------- MODULE StoreOpsProofs ---------------------------
(***************************************************************************)
(* Lemmas about the operators of StoreOps and Commands: every method of    *)
(* the store keeps the list, the map and the heap in step, and what a      *)
(* command leaves of its own key and of the others.                        *)
(***************************************************************************)
EXTENDS Commands, SublistsProofs

(***************************************************************************)
(* Every method keeps a store in order.                                    *)
(***************************************************************************)

InOrder(s) == s \in StoreState /\ LruConsistent(s) /\ HeapCovers(s)

LEMMA WrapType ==
  ASSUME NEW n \in Int
  PROVE  Wrap(n) \in Ints
<1> DEFINE w == 2 * (IntMax + 1)
<1>1. w \in Nat \ {0} /\ IntMax \in Nat
  BY IntAssumption
<1>2. (n - IntMin) % w \in 0 .. w - 1
  BY <1>1 DEF IntMin
<1> QED
  BY <1>1, <1>2 DEF Wrap, Ints, IntMin

LEMMA DeadlineType ==
  ASSUME NEW ttl \in Int, NEW t \in Int
  PROVE  Deadline(ttl, t) \in Int
<1>1. ttl * MsPerSecond \in Int
  BY UnitAssumption
<1>2. Wrap(ttl * MsPerSecond) \in Int
  BY <1>1, WrapType, IntAssumption DEF Ints, IntMin
<1> QED
  BY <1>2 DEF Deadline, NoExpiry

LEMMA EmptyInOrder == InOrder(EmptyStore)
<1>1. EmptyStore \in StoreState
  BY DEF EmptyStore, StoreState
<1>2. Present(EmptyStore) = {}
  BY DEF Present, EmptyStore
<1>3. LruConsistent(EmptyStore)
  <2>1. EmptyStore.lru = <<>> /\ Len(<<>>) = 0 /\ DOMAIN <<>> = {}
    BY DEF EmptyStore
  <2>2. Range(<<>>) = {}
    BY <2>1 DEF Range
  <2>3. NoDuplicates(<<>>)
    BY <2>1 DEF NoDuplicates
  <2> QED
    BY <1>2, <2>1, <2>2, <2>3 DEF LruConsistent
<1> QED
  BY <1>1, <1>2, <1>3 DEF InOrder, HeapCovers

\* Whatever is erased, list and map forget the same keys.
LEMMA EraseInOrder ==
  ASSUME NEW s, InOrder(s), NEW K
  PROVE  /\ InOrder(Erase(s, K))
         /\ Present(Erase(s, K)) = Present(s) \ K
         /\ Erase(s, K).heap = s.heap
<1> DEFINE r == Erase(s, K)
<1>1. s \in StoreState /\ s.lru \in Seq(Keys)
  BY DEF InOrder, StoreState
<1>2. Sublist(s.lru, Keys \ K) \in Seq(Keys)
  BY <1>1, SublistSeq
<1>3. r \in StoreState
  BY <1>1, <1>2 DEF Erase, StoreState
<1>4. Present(r) = Present(s) \ K
  BY DEF Erase, Present
<1>5. NoDuplicates(r.lru)
  BY <1>1, SublistNoDuplicates DEF Erase, InOrder, LruConsistent
<1>6. Range(r.lru) = Range(s.lru) \cap (Keys \ K)
  BY <1>1, SublistRange DEF Erase
<1>7. LruConsistent(r)
  BY <1>4, <1>5, <1>6 DEF InOrder, LruConsistent, Present
<1>8. HeapCovers(r)
  BY <1>4 DEF InOrder, HeapCovers, Erase, Present
<1> QED
  BY <1>3, <1>4, <1>7, <1>8 DEF InOrder, Erase

\* A key that is not in the store may be pushed: one position for one entry.
LEMMA PushFrontInOrder ==
  ASSUME NEW s, InOrder(s), NEW k \in Keys, k \notin Present(s), NEW n \in Node
  PROVE  LET r == PushFront(s, k, n)
         IN  /\ r \in StoreState
             /\ LruConsistent(r)
             /\ Present(r) = Present(s) \cup {k}
             /\ r.heap = s.heap
             /\ n.expiry = NoExpiry \/ <<n.expiry, k>> \in s.heap => HeapCovers(r)
<1> DEFINE r == PushFront(s, k, n)
<1>1. s \in StoreState /\ s.lru \in Seq(Keys) /\ s.store \in [Keys -> Node \cup {Absent}]
  BY DEF InOrder, StoreState
<1>2. /\ r.lru = <<k>> \o s.lru
      /\ r.lru \in Seq(Keys)
      /\ Len(r.lru) = Len(s.lru) + 1
      /\ r.lru[1] = k
      /\ \A i \in 2 .. Len(r.lru) : r.lru[i] = s.lru[i - 1]
  BY <1>1 DEF PushFront
<1>3. r \in StoreState
  BY <1>1, <1>2 DEF PushFront, StoreState
<1>4. Present(r) = Present(s) \cup {k}
  BY <1>1, AbsentAssumption DEF PushFront, Present
<1>5. Range(r.lru) = {k} \cup Range(s.lru)
  <2>1. /\ DOMAIN r.lru = 1 .. Len(s.lru) + 1
        /\ DOMAIN s.lru = 1 .. Len(s.lru)
        /\ Len(s.lru) \in Nat
    BY <1>1, <1>2
  <2>2. ASSUME NEW x \in Range(r.lru)
        PROVE  x \in {k} \cup Range(s.lru)
    <3>1. PICK i \in 1 .. Len(s.lru) + 1 : x = r.lru[i]
      BY <2>1 DEF Range
    <3>2. CASE i = 1
      BY <3>1, <3>2, <1>2
    <3>3. CASE i # 1
      <4>1. i - 1 \in 1 .. Len(s.lru) /\ i \in 2 .. Len(r.lru)
        BY <2>1, <1>2, <3>3
      <4> QED
        BY <4>1, <1>2, <2>1, <3>1 DEF Range
    <3> QED
      BY <3>2, <3>3
  <2>3. ASSUME NEW i \in 1 .. Len(s.lru)
        PROVE  s.lru[i] \in Range(r.lru)
    <3>1. i + 1 \in 1 .. Len(s.lru) + 1 /\ r.lru[i + 1] = s.lru[i]
      BY <2>1, <1>2
    <3> QED
      BY <3>1, <2>1 DEF Range
  <2>4. k \in Range(r.lru)
    BY <1>2, <2>1 DEF Range
  <2> QED
    BY <2>1, <2>2, <2>3, <2>4 DEF Range
<1>6. NoDuplicates(r.lru)
  <2> SUFFICES ASSUME NEW i \in 1 .. Len(r.lru), NEW j \in 1 .. Len(r.lru),
                      r.lru[i] = r.lru[j]
               PROVE  i = j
    BY DEF NoDuplicates
  <2>1. \A m \in 1 .. Len(s.lru) : s.lru[m] # k
    BY <1>1 DEF InOrder, LruConsistent, Range
  <2>2. Len(s.lru) \in Nat /\ NoDuplicates(s.lru)
    BY <1>1 DEF InOrder, LruConsistent
  <2>3. \A m \in 1 .. Len(r.lru) : m = 1 \/ (m \in 2 .. Len(r.lru) /\ m - 1 \in 1 .. Len(s.lru))
    BY <1>2, <2>2
  <2>4. CASE i = 1 \/ j = 1
    BY <1>2, <2>1, <2>3, <2>4
  <2>5. CASE i # 1 /\ j # 1
    <3>1. s.lru[i - 1] = s.lru[j - 1]
      BY <1>2, <2>3, <2>5
    <3>2. i - 1 = j - 1
      BY <3>1, <2>2, <2>3, <2>5 DEF NoDuplicates
    <3> QED
      BY <3>2
  <2> QED
    BY <2>4, <2>5
<1>7. LruConsistent(r)
  BY <1>4, <1>5, <1>6 DEF InOrder, LruConsistent
<1>8. r.heap = s.heap
  BY DEF PushFront
<1>9. ASSUME n.expiry = NoExpiry \/ <<n.expiry, k>> \in s.heap
      PROVE  HeapCovers(r)
  <2>1. \A x \in Keys : r.store[x] = IF x = k THEN n ELSE s.store[x]
    BY <1>1 DEF PushFront
  <2>2. Present(s) \subseteq Keys
    BY DEF Present
  <2>3. \A x \in Present(s) : s.store[x].expiry # NoExpiry => <<s.store[x].expiry, x>> \in s.heap
    BY DEF InOrder, HeapCovers
  <2> HIDE DEF r
  <2>4. ASSUME NEW x \in Present(r), r.store[x].expiry # NoExpiry
        PROVE  <<r.store[x].expiry, x>> \in s.heap
    <3>1. CASE x = k
      BY <1>9, <2>1, <2>4, <3>1
    <3>2. CASE x # k
      BY <1>4, <2>1, <2>2, <2>3, <2>4, <3>2
    <3> QED
      BY <3>1, <3>2
  <2> QED
    BY <1>8, <2>4 DEF HeapCovers
<1> HIDE DEF r
<1>10. n.expiry = NoExpiry \/ <<n.expiry, k>> \in s.heap => HeapCovers(r)
  BY <1>9
<1>11. r.heap = s.heap
  BY <1>8 DEF r
<1> QED
  BY <1>3, <1>4, <1>7, <1>10, <1>11 DEF r

\* Moving a key to the front, with the node it has or with another one.
LEMMA TouchInOrder ==
  ASSUME NEW s, InOrder(s), NEW k \in Keys, NEW n \in Node,
         n.expiry = NoExpiry \/ <<n.expiry, k>> \in s.heap
  PROVE  InOrder(Touch(s, k, n)) /\ Present(Touch(s, k, n)) = Present(s) \cup {k}
<1> DEFINE a == Erase(s, {k})
           r == PushFront(a, k, n)
<1>1. InOrder(a) /\ Present(a) = Present(s) \ {k} /\ a.heap = s.heap
  BY EraseInOrder
<1> HIDE DEF a
<1>2. /\ r \in StoreState /\ LruConsistent(r) /\ HeapCovers(r)
      /\ Present(r) = Present(a) \cup {k}
  BY <1>1, PushFrontInOrder
<1> QED
  BY <1>1, <1>2 DEF Touch, InOrder, a

LEMMA MakeRoomInOrder ==
  ASSUME NEW s, InOrder(s), NEW t \in Int
  PROVE  /\ InOrder(MakeRoom(s, t))
         /\ Present(MakeRoom(s, t)) \subseteq Present(s)
         /\ MakeRoom(s, t).heap = s.heap
<1> DEFINE d == DropExpiredTail(s, t)
<1>1. InOrder(d) /\ Present(d) \subseteq Present(s) /\ d.heap = s.heap
  BY EraseInOrder DEF DropExpiredTail
<1>2. /\ InOrder(EvictLru(d))
      /\ Present(EvictLru(d)) \subseteq Present(d)
      /\ EvictLru(d).heap = d.heap
  BY <1>1, EraseInOrder DEF EvictLru
<1> QED
  BY <1>1, <1>2 DEF MakeRoom

LEMMA SetInOrder ==
  ASSUME NEW s, InOrder(s), NEW k \in Keys, NEW v \in Value,
         NEW ttl \in Int, NEW t \in Int
  PROVE  InOrder(SetOp(s, k, v, ttl, t))
<1> DEFINE e == Deadline(ttl, t)
           n == [value |-> v, expiry |-> e]
           room == IF s.store[k] # Absent THEN Erase(s, {k}) ELSE MakeRoom(s, t)
           put == PushFront(room, k, n)
           r == SetOp(s, k, v, ttl, t)
<1>1. n \in Node
  BY DeadlineType DEF Node
<1>2. InOrder(room) /\ k \notin Present(room)
  BY EraseInOrder, MakeRoomInOrder DEF Present
<1>3. /\ put \in StoreState /\ LruConsistent(put)
      /\ Present(put) = Present(room) \cup {k}
      /\ put.heap = room.heap
      /\ e = NoExpiry => HeapCovers(put)
  BY <1>1, <1>2, PushFrontInOrder
<1>4. r = PushHeap(put, k, e)
  BY DEF SetOp, Put
<1>5. e \in Int
  BY DeadlineType
<1> HIDE DEF e, room
<1>6. CASE e = NoExpiry
  BY <1>3, <1>4, <1>6 DEF PushHeap, InOrder
<1>7. CASE e # NoExpiry
  <2>1. r = [put EXCEPT !.heap = @ \cup {<<e, k>>}]
    BY <1>4, <1>7 DEF PushHeap
  <2> HIDE DEF r
  <2>2. r \in StoreState /\ r.store = put.store /\ r.lru = put.lru
        /\ r.heap = put.heap \cup {<<e, k>>}
    BY <1>3, <1>5, <2>1 DEF StoreState
  <2>3. Present(r) = Present(put)
    BY <2>2 DEF Present
  <2>4. LruConsistent(r)
    BY <1>3, <2>2, <2>3 DEF LruConsistent
  <2>5. HeapCovers(r)
    <3>1. /\ room.store \in [Keys -> Node \cup {Absent}]
          /\ put.store = [room.store EXCEPT ![k] = n]
      BY <1>2 DEF InOrder, StoreState, PushFront
    <3> SUFFICES ASSUME NEW x \in Present(r), r.store[x].expiry # NoExpiry
                 PROVE  <<r.store[x].expiry, x>> \in r.heap
      BY DEF HeapCovers
    <3>2. x \in Keys
      BY DEF Present
    <3>3. CASE x = k
      BY <2>2, <3>1, <3>2, <3>3
    <3>4. CASE x # k
      <4> HIDE DEF put
      <4>1. x \in Present(room) /\ r.store[x] = room.store[x]
        <5>1. x \in Present(room)
          BY <1>3, <2>3, <3>4
        <5>2. put.store[x] = room.store[x]
          BY <3>1, <3>2, <3>4
        <5> QED
          BY <5>1, <5>2, <2>2
      <4>2. <<room.store[x].expiry, x>> \in room.heap
        BY <4>1, <1>2 DEF InOrder, HeapCovers
      <4> QED
        BY <4>1, <4>2, <1>3, <2>2
    <3> QED
      BY <3>3, <3>4
  <2> QED
    BY <2>2, <2>4, <2>5 DEF InOrder, r
<1> QED
  BY <1>6, <1>7

\* A node of the map is a Node, and its deadline is in the heap.
LEMMA NodeOfKey ==
  ASSUME NEW s, InOrder(s), NEW k \in Present(s)
  PROVE  /\ k \in Keys /\ s.store[k] \in Node
         /\ s.store[k].expiry = NoExpiry \/ <<s.store[k].expiry, k>> \in s.heap
BY DEF InOrder, StoreState, HeapCovers, Present

LEMMA GetInOrder ==
  ASSUME NEW s, InOrder(s), NEW k \in Keys, NEW t \in Int
  PROVE  InOrder(GetOp(s, k, t))
<1>1. CASE Live(s, k, t)
  BY <1>1, NodeOfKey, TouchInOrder DEF GetOp, Live, Present
<1>2. CASE ~Live(s, k, t)
  BY <1>2, EraseInOrder DEF GetOp
<1> QED
  BY <1>1, <1>2

LEMMA ReadersInOrder ==
  ASSUME NEW s, InOrder(s), NEW k \in Keys, NEW t \in Int
  PROVE  /\ InOrder(ExistsOp(s, k, t))
         /\ InOrder(DelOp(s, k))
         /\ InOrder(TtlOp(s, k, t))
BY EraseInOrder DEF ExistsOp, DelOp, TtlOp

\* What incr and decr write to a key that holds a number.
CountedNode(s, k, d) == [s.store[k] EXCEPT !.value = Wrap(@ + d)]

LEMMA CountedNodeType ==
  ASSUME NEW s, InOrder(s), NEW k, NEW d \in {1, -1}, NEW t, Live(s, k, t), k \in Keys,
         s.store[k].value \notin Words
  PROVE  /\ CountedNode(s, k, d) \in Node
         /\ CountedNode(s, k, d).expiry = s.store[k].expiry
         /\ CountedNode(s, k, d).value = Wrap(s.store[k].value + d)
<1> DEFINE n == s.store[k]
<1>1. n \in Node
  BY NodeOfKey DEF Live, Present
<1>2. n.value \in Int
  BY <1>1, IntAssumption DEF Node, Value, Ints, IntMin
<1>3. Wrap(n.value + d) \in Ints
  BY <1>2, WrapType
<1> QED
  BY <1>1, <1>3 DEF CountedNode, Node, Value

LEMMA AddInOrder ==
  ASSUME NEW s, InOrder(s), NEW k \in Keys, NEW d \in {1, -1}, NEW t \in Int
  PROVE  InOrder(AddOp(s, k, d, t))
<1> DEFINE n == s.store[k]
<1>1. CASE ~Live(s, k, t)
  <2>1. [value |-> d, expiry |-> NoExpiry] \in Node
    BY IntAssumption DEF Node, Value, Ints, IntMin, NoExpiry
  <2> QED
    BY <1>1, <2>1, TouchInOrder DEF AddOp
<1>2. CASE Live(s, k, t) /\ n.value \in Words
  BY <1>2 DEF AddOp
<1>3. CASE Live(s, k, t) /\ n.value \notin Words
  <2>1. n.expiry = NoExpiry \/ <<n.expiry, k>> \in s.heap
    BY <1>3, NodeOfKey DEF Live, Present
  <2>2. CountedNode(s, k, d) \in Node /\ CountedNode(s, k, d).expiry = n.expiry
    BY <1>3, CountedNodeType
  <2> QED
    BY <1>3, <2>1, <2>2, TouchInOrder DEF AddOp, CountedNode
<1> QED
  BY <1>1, <1>2, <1>3

LEMMA CleanInOrder ==
  ASSUME NEW s, InOrder(s), NEW t \in Int
  PROVE  InOrder(CleanOp(s, t))
<1> DEFINE due  == {e \in s.heap : e[1] <= t}
           dead == {k \in Keys : s.store[k] # Absent /\ <<s.store[k].expiry, k>> \in due}
           a == Erase(s, dead)
           r == CleanOp(s, t)
<1>1. InOrder(a) /\ Present(a) = Present(s) \ dead /\ a.heap = s.heap
  BY EraseInOrder
<1>2. r = [a EXCEPT !.heap = @ \ due]
  BY DEF CleanOp
<1>3. /\ r \in StoreState /\ r.store = a.store /\ r.lru = a.lru
      /\ r.heap = s.heap \ due
  BY <1>1, <1>2 DEF InOrder, StoreState
<1>4. Present(r) = Present(a)
  BY <1>3 DEF Present
<1>5. LruConsistent(r)
  BY <1>1, <1>3, <1>4 DEF InOrder, LruConsistent
<1>6. HeapCovers(r)
  <2> SUFFICES ASSUME NEW k \in Present(r), r.store[k].expiry # NoExpiry
               PROVE  <<r.store[k].expiry, k>> \in s.heap \ due
    BY <1>3 DEF HeapCovers
  <2>1. k \in Present(s) /\ k \notin dead
    BY <1>1, <1>4
  <2>2. k \in Keys /\ s.store[k] # Absent /\ r.store[k] = s.store[k]
    BY <1>3, <2>1 DEF Present, Erase
  <2>3. <<s.store[k].expiry, k>> \in s.heap
    BY <2>1, <2>2 DEF InOrder, HeapCovers
  <2> QED
    BY <2>1, <2>2, <2>3
<1> QED
  BY <1>3, <1>5, <1>6 DEF InOrder
-----------------------------------------------------------------------------
(***************************************************************************)
(* How many keys a store holds.                                            *)
(***************************************************************************)

LEMMA FinitelyManyPresent ==
  ASSUME NEW s, InOrder(s)
  PROVE  IsFiniteSet(Present(s)) /\ Cardinality(Present(s)) \in Nat
<1>1. s.lru \in Seq(Keys) /\ Range(s.lru) = Present(s)
  BY DEF InOrder, StoreState, LruConsistent
<1>2. s.lru \in Surjection(1 .. Len(s.lru), Range(s.lru))
  BY <1>1 DEF Surjection, Range
<1>3. IsFiniteSet(1 .. Len(s.lru))
  BY FS_Interval, <1>1
<1> QED
  BY <1>1, <1>2, <1>3, FS_Surjection, FS_CardinalityType

LEMMA SubsetNotLarger ==
  ASSUME NEW s, InOrder(s), NEW r, Present(r) \subseteq Present(s)
  PROVE  Cardinality(Present(r)) <= Cardinality(Present(s))
BY FinitelyManyPresent, FS_Subset

\* Making room in a store that is at its limit frees exactly the place the
\* new key needs.
LEMMA EvictFrees ==
  ASSUME NEW s, InOrder(s)
  PROVE  LET room == Cardinality(Present(EvictLru(s)))
         IN  room < Capacity \/ room < Cardinality(Present(s))
<1> DEFINE last == s.lru[Len(s.lru)]
<1>1. /\ s.lru \in Seq(Keys) /\ Range(s.lru) = Present(s)
      /\ IsFiniteSet(Present(s)) /\ Cardinality(Present(s)) \in Nat
  BY FinitelyManyPresent DEF InOrder, StoreState, LruConsistent
<1>2. CASE Cardinality(Present(s)) >= Capacity
  <2>1. Present(s) # {}
    BY <1>1, <1>2, FS_EmptySet, CapacityAssumption
  <2>2. Len(s.lru) \in 1 .. Len(s.lru) /\ DOMAIN s.lru = 1 .. Len(s.lru)
    <3>1. Len(s.lru) \in Nat /\ DOMAIN s.lru = 1 .. Len(s.lru)
      BY <1>1
    <3>2. DOMAIN s.lru # {}
      BY <1>1, <2>1 DEF Range
    <3> QED
      BY <3>1, <3>2
  <2>3. last \in Present(s)
    BY <1>1, <2>2 DEF Range
  <2>4. Present(EvictLru(s)) = Present(s) \ {last}
    BY <1>2, EraseInOrder DEF EvictLru
  <2>5. Cardinality(Present(EvictLru(s))) = Cardinality(Present(s)) - 1
    <3> HIDE DEF last
    <3> QED
      BY <1>1, <2>3, <2>4, FS_RemoveElement
  <2> QED
    BY <1>1, <2>5
<1>3. CASE ~(Cardinality(Present(s)) >= Capacity)
  BY <1>1, <1>3, CapacityAssumption DEF EvictLru
<1> QED
  BY <1>2, <1>3

LEMMA SetStaysWithin ==
  ASSUME NEW s, InOrder(s), NEW k \in Keys, NEW v \in Value,
         NEW ttl \in Int, NEW t \in Int
  PROVE  LET after == Cardinality(Present(SetOp(s, k, v, ttl, t)))
         IN  after <= Capacity \/ after <= Cardinality(Present(s))
<1> DEFINE n == [value |-> v, expiry |-> Deadline(ttl, t)]
           room == IF s.store[k] # Absent THEN Erase(s, {k}) ELSE MakeRoom(s, t)
           P == Present(SetOp(s, k, v, ttl, t))
<1>1. n \in Node
  BY DeadlineType DEF Node
<1>2. InOrder(room) /\ k \notin Present(room)
  BY EraseInOrder, MakeRoomInOrder DEF Present
<1>3. Present(PushFront(room, k, n)) = Present(room) \cup {k}
  <2> HIDE DEF room, n
  <2> QED
    BY <1>1, <1>2, PushFrontInOrder
<1>4. P = Present(room) \cup {k}
  <2> DEFINE put == PushFront(room, k, n)
  <2>1. SetOp(s, k, v, ttl, t) = PushHeap(put, k, Deadline(ttl, t))
    BY DEF SetOp, Put
  <2>2. SetOp(s, k, v, ttl, t).store = put.store
    BY <2>1 DEF PushHeap, PushFront
  <2> HIDE DEF put
  <2> QED
    BY <1>3, <2>2 DEF Present, put
<1>5. /\ Cardinality(P) = Cardinality(Present(room)) + 1
      /\ Cardinality(Present(room)) \in Nat
      /\ Cardinality(Present(s)) \in Nat
  BY <1>2, <1>4, FinitelyManyPresent, FS_AddElement
<1>6. CASE s.store[k] # Absent
  <2>1. P = Present(s)
    BY <1>4, <1>6, EraseInOrder DEF Present
  <2> QED
    BY <2>1, <1>5
<1>7. CASE s.store[k] = Absent
  <2> DEFINE d == DropExpiredTail(s, t)
  <2>1. InOrder(d) /\ Present(d) \subseteq Present(s)
    BY EraseInOrder DEF DropExpiredTail
  <2>2. Cardinality(Present(d)) <= Cardinality(Present(s)) /\ Cardinality(Present(d)) \in Nat
    BY <2>1, SubsetNotLarger, FinitelyManyPresent
  <2>3. room = EvictLru(d)
    BY <1>7 DEF MakeRoom
  <2>4. \/ Cardinality(Present(room)) < Capacity
        \/ Cardinality(Present(room)) < Cardinality(Present(d))
    BY <2>1, <2>3, EvictFrees
  <2> QED
    BY <1>5, <2>2, <2>4, CapacityAssumption
<1> QED
  BY <1>6, <1>7
-----------------------------------------------------------------------------
(***************************************************************************)
(* The order of the list.  r is the order in which keys were used last;    *)
(* the list of a store should be what r says of the keys it holds.         *)
(***************************************************************************)

Ranked(s, r) == s.lru = Sublist(r, Present(s))

ToFront(r, k) == <<k>> \o Sublist(r, Keys \ {k})

LEMMA ToFrontType ==
  ASSUME NEW r \in Seq(Keys), NEW k \in Keys
  PROVE  ToFront(r, k) \in Seq(Keys)
<1>1. Sublist(r, Keys \ {k}) \in Seq(Keys)
  BY SublistSeq
<1> QED
  BY <1>1 DEF ToFront

LEMMA ToFrontNoDuplicates ==
  ASSUME NEW r \in Seq(Keys), NoDuplicates(r), NEW k \in Keys
  PROVE  NoDuplicates(ToFront(r, k))
<1> DEFINE q == Sublist(r, Keys \ {k})
           f == <<k>> \o q
<1>1. q \in Seq(Keys) /\ NoDuplicates(q) /\ Range(q) = Range(r) \cap (Keys \ {k})
  BY SublistSeq, SublistNoDuplicates, SublistRange
<1> HIDE DEF q
<1>2. /\ Len(q) \in Nat /\ Len(f) = Len(q) + 1 /\ f[1] = k
      /\ \A i \in 2 .. Len(f) : f[i] = q[i - 1]
  BY <1>1
<1>3. \A i \in 1 .. Len(q) : q[i] # k
  <2>1. \A i \in 1 .. Len(q) : q[i] \in Range(q)
    BY <1>1 DEF Range
  <2> QED
    BY <1>1, <2>1
<1> SUFFICES ASSUME NEW i \in 1 .. Len(f), NEW j \in 1 .. Len(f), f[i] = f[j]
             PROVE  i = j
  BY DEF NoDuplicates, ToFront, q
<1> HIDE DEF f
<1>4. \A m \in 1 .. Len(f) : m = 1 \/ (m \in 2 .. Len(f) /\ m - 1 \in 1 .. Len(q))
  BY <1>2
<1>5. CASE i = 1 \/ j = 1
  BY <1>2, <1>3, <1>4, <1>5
<1>6. CASE i # 1 /\ j # 1
  <2>1. q[i - 1] = q[j - 1] /\ i - 1 \in 1 .. Len(q) /\ j - 1 \in 1 .. Len(q)
    BY <1>2, <1>4, <1>6
  <2>2. i - 1 = j - 1
    BY <1>1, <2>1 DEF NoDuplicates
  <2> QED
    BY <2>2
<1> QED
  BY <1>5, <1>6

LEMMA EraseRanked ==
  ASSUME NEW s, InOrder(s), NEW r \in Seq(Keys), Ranked(s, r), NEW K
  PROVE  Ranked(Erase(s, K), r)
<1>1. Present(Erase(s, K)) = Present(s) \ K
  BY EraseInOrder
<1>2. Present(s) \cap (Keys \ K) = Present(s) \ K
  BY DEF Present
<1>3. Sublist(Sublist(r, Present(s)), Keys \ K) = Sublist(r, Present(s) \ K)
  BY <1>2, SublistTwice
<1> QED
  BY <1>1, <1>3 DEF Ranked, Erase

\* A key that is pushed has been used last.
LEMMA PushFrontRanked ==
  ASSUME NEW s, InOrder(s), NEW r \in Seq(Keys), Ranked(s, r),
         NEW k \in Keys, k \notin Present(s), NEW n \in Node
  PROVE  Ranked(PushFront(s, k, n), ToFront(r, k))
<1> DEFINE P == Present(s) \cup {k}
           q == Sublist(r, Keys \ {k})
<1>1. Present(PushFront(s, k, n)) = P
  BY PushFrontInOrder
<1>2. q \in Seq(Keys)
  BY SublistSeq
<1>3. (Keys \ {k}) \cap P = Present(s)
  BY DEF Present
<1>4. Sublist(q, P) = Sublist(r, Present(s))
  BY <1>3, SublistTwice
<1> HIDE DEF q
<1>5. Sublist(<<k>> \o q, P) = <<k>> \o Sublist(q, P)
  BY <1>2, SublistPush
<1> QED
  BY <1>1, <1>4, <1>5 DEF Ranked, ToFront, PushFront, q

LEMMA TouchRanked ==
  ASSUME NEW s, InOrder(s), NEW r \in Seq(Keys), Ranked(s, r),
         NEW k \in Keys, NEW n \in Node
  PROVE  Ranked(Touch(s, k, n), ToFront(r, k))
<1> DEFINE a == Erase(s, {k})
<1>1. InOrder(a) /\ k \notin Present(a) /\ Ranked(a, r)
  BY EraseInOrder, EraseRanked
<1> HIDE DEF a
<1> QED
  BY <1>1, PushFrontRanked DEF Touch, a

LEMMA MakeRoomRanked ==
  ASSUME NEW s, InOrder(s), NEW r \in Seq(Keys), Ranked(s, r), NEW t \in Int
  PROVE  Ranked(MakeRoom(s, t), r)
<1>1. InOrder(DropExpiredTail(s, t)) /\ Ranked(DropExpiredTail(s, t), r)
  BY EraseInOrder, EraseRanked DEF DropExpiredTail
<1> QED
  BY <1>1, EraseRanked DEF MakeRoom, EvictLru

LEMMA SetRanked ==
  ASSUME NEW s, InOrder(s), NEW r \in Seq(Keys), Ranked(s, r),
         NEW k \in Keys, NEW v \in Value, NEW ttl \in Int, NEW t \in Int
  PROVE  Ranked(SetOp(s, k, v, ttl, t), ToFront(r, k))
<1> DEFINE e == Deadline(ttl, t)
           n == [value |-> v, expiry |-> e]
           room == IF s.store[k] # Absent THEN Erase(s, {k}) ELSE MakeRoom(s, t)
           put == PushFront(room, k, n)
<1>1. n \in Node
  BY DeadlineType DEF Node
<1>2. InOrder(room) /\ k \notin Present(room) /\ Ranked(room, r)
  BY EraseInOrder, EraseRanked, MakeRoomInOrder, MakeRoomRanked DEF Present
<1> HIDE DEF room, n
<1>3. Ranked(put, ToFront(r, k))
  BY <1>1, <1>2, PushFrontRanked
<1>4. SetOp(s, k, v, ttl, t) = PushHeap(put, k, e)
  BY DEF SetOp, Put, room, n
<1>5. /\ PushHeap(put, k, e).lru = put.lru
      /\ PushHeap(put, k, e).store = put.store
  BY DEF PushHeap, PushFront
<1> QED
  BY <1>3, <1>4, <1>5 DEF Ranked, Present

LEMMA GetRanked ==
  ASSUME NEW s, InOrder(s), NEW r \in Seq(Keys), Ranked(s, r), NEW k \in Keys, NEW t \in Int
  PROVE  Ranked(GetOp(s, k, t), IF Live(s, k, t) THEN ToFront(r, k) ELSE r)
<1>1. CASE Live(s, k, t)
  BY <1>1, NodeOfKey, TouchRanked DEF GetOp, Live, Present
<1>2. CASE ~Live(s, k, t)
  BY <1>2, EraseRanked DEF GetOp
<1> QED
  BY <1>1, <1>2

LEMMA ReadersRanked ==
  ASSUME NEW s, InOrder(s), NEW r \in Seq(Keys), Ranked(s, r), NEW k \in Keys, NEW t \in Int
  PROVE  /\ Ranked(ExistsOp(s, k, t), r)
         /\ Ranked(DelOp(s, k), r)
         /\ Ranked(TtlOp(s, k, t), r)
BY EraseRanked DEF ExistsOp, DelOp, TtlOp

LEMMA AddRanked ==
  ASSUME NEW s, InOrder(s), NEW r \in Seq(Keys), Ranked(s, r),
         NEW k \in Keys, NEW d \in {1, -1}, NEW t \in Int
  PROVE  Ranked(AddOp(s, k, d, t),
                IF Live(s, k, t) /\ s.store[k].value \in Words THEN r ELSE ToFront(r, k))
<1> DEFINE n == s.store[k]
<1>1. CASE ~Live(s, k, t)
  <2>1. [value |-> d, expiry |-> NoExpiry] \in Node
    BY IntAssumption DEF Node, Value, Ints, IntMin, NoExpiry
  <2> QED
    BY <1>1, <2>1, TouchRanked DEF AddOp
<1>2. CASE Live(s, k, t) /\ n.value \in Words
  BY <1>2 DEF AddOp
<1>3. CASE Live(s, k, t) /\ n.value \notin Words
  <2>1. CountedNode(s, k, d) \in Node
    BY <1>3, CountedNodeType
  <2> QED
    BY <1>3, <2>1, TouchRanked DEF AddOp, CountedNode
<1> QED
  BY <1>1, <1>2, <1>3

LEMMA CleanRanked ==
  ASSUME NEW s, InOrder(s), NEW r \in Seq(Keys), Ranked(s, r), NEW t \in Int
  PROVE  Ranked(CleanOp(s, t), r)
<1> DEFINE due  == {e \in s.heap : e[1] <= t}
           dead == {k \in Keys : s.store[k] # Absent /\ <<s.store[k].expiry, k>> \in due}
           a == Erase(s, dead)
<1>1. Ranked(a, r)
  BY EraseRanked
<1>2. CleanOp(s, t).lru = a.lru /\ CleanOp(s, t).store = a.store
  BY DEF CleanOp, Erase
<1> QED
  BY <1>1, <1>2 DEF Ranked, Present
-----------------------------------------------------------------------------
(***************************************************************************)
(* What the methods do to the map: which keys they lose, and what they     *)
(* leave of the others.                                                    *)
(***************************************************************************)

LEMMA EraseStore ==
  ASSUME NEW s, NEW K, NEW x \in Keys
  PROVE  Erase(s, K).store[x] = IF x \in K THEN Absent ELSE s.store[x]
BY DEF Erase

LEMMA TouchStore ==
  ASSUME NEW s, NEW k \in Keys, NEW n, NEW x \in Keys
  PROVE  Touch(s, k, n).store[x] = IF x = k THEN n ELSE s.store[x]
BY DEF Touch, PushFront, Erase

\* Step 1 of set takes nothing that lives.
LEMMA TailIsExpired ==
  ASSUME NEW s, InOrder(s), NEW t \in Int, NEW x \in Keys, Live(s, x, t)
  PROVE  DropExpiredTail(s, t).store[x] = s.store[x]
<1> DEFINE valid == {i \in 1 .. Len(s.lru) : Live(s, s.lru[i], t)}
           K == {s.lru[i] : i \in {j \in 1 .. Len(s.lru) : \A m \in valid : j > m}}
<1>1. x \notin K
  <2> SUFFICES ASSUME NEW i \in 1 .. Len(s.lru), \A m \in valid : i > m, x = s.lru[i]
               PROVE  FALSE
    OBVIOUS
  <2>1. i \in valid
    OBVIOUS
  <2>2. i > i
    BY <2>1
  <2> QED
    BY <2>2
<1> HIDE DEF K
<1> QED
  BY <1>1, EraseStore DEF DropExpiredTail, K

\* What set leaves of another key.
LEMMA SetStore ==
  ASSUME NEW s, InOrder(s), NEW k \in Keys, NEW v, NEW ttl, NEW t \in Int, NEW x \in Keys
  PROVE  SetOp(s, k, v, ttl, t).store[x] =
           IF x = k THEN [value |-> v, expiry |-> Deadline(ttl, t)]
           ELSE IF s.store[k] # Absent THEN s.store[x]
           ELSE MakeRoom(s, t).store[x]
<1> DEFINE n == [value |-> v, expiry |-> Deadline(ttl, t)]
           room == IF s.store[k] # Absent THEN Erase(s, {k}) ELSE MakeRoom(s, t)
<1>1. InOrder(room)
  BY EraseInOrder, MakeRoomInOrder
<1>2. SetOp(s, k, v, ttl, t).store = [room.store EXCEPT ![k] = n]
  BY DEF SetOp, Put, PushHeap, PushFront
<1>3. room.store \in [Keys -> Node \cup {Absent}]
  BY <1>1 DEF InOrder, StoreState
<1> HIDE DEF n, room
<1>4. SetOp(s, k, v, ttl, t).store[x] = IF x = k THEN n ELSE room.store[x]
  BY <1>2, <1>3
<1>5. s.store[k] # Absent /\ x # k => room.store[x] = s.store[x]
  BY EraseStore DEF room
<1> QED
  BY <1>4, <1>5 DEF n, room

\* The key at the back of the list.
Back(s) == s.lru[Len(s.lru)]

\* If making room costs a key that lives, the store was full and the key was
\* at the back of the list once the expired tail was gone.
LEMMA RoomCosts ==
  ASSUME NEW s, InOrder(s), NEW t \in Int, NEW x \in Keys, Live(s, x, t),
         MakeRoom(s, t).store[x] = Absent
  PROVE  /\ Cardinality(Present(s)) >= Capacity
         /\ x = Back(DropExpiredTail(s, t))
         /\ Present(MakeRoom(s, t)) = Present(DropExpiredTail(s, t)) \ {x}
<1> DEFINE d == DropExpiredTail(s, t)
<1>1. InOrder(d) /\ Present(d) \subseteq Present(s)
  BY EraseInOrder DEF DropExpiredTail
<1>2. d.store[x] # Absent
  BY TailIsExpired DEF Live
<1> HIDE DEF d
<1>3. MakeRoom(s, t) = EvictLru(d)
  BY DEF MakeRoom, d
<1>4. Cardinality(Present(d)) >= Capacity
  BY <1>2, <1>3 DEF EvictLru
<1>5. EvictLru(d) = Erase(d, {Back(d)})
  BY <1>4 DEF EvictLru, Back
<1>6. x = Back(d)
  BY <1>2, <1>3, <1>5, EraseStore
<1>7. Present(EvictLru(d)) = Present(d) \ {x}
  BY <1>1, <1>5, <1>6, EraseInOrder
<1>8. Cardinality(Present(d)) <= Cardinality(Present(s))
  BY <1>1, SubsetNotLarger
<1>9. Cardinality(Present(d)) \in Nat /\ Cardinality(Present(s)) \in Nat
  BY <1>1, FinitelyManyPresent
<1>10. Cardinality(Present(s)) >= Capacity
  BY <1>4, <1>8, <1>9, CapacityAssumption
<1> QED
  BY <1>3, <1>6, <1>7, <1>10 DEF d

\* incr and decr take no key.
LEMMA AddPresent ==
  ASSUME NEW s, InOrder(s), NEW k \in Keys, NEW d \in {1, -1}, NEW t \in Int
  PROVE  Present(s) \subseteq Present(AddOp(s, k, d, t))
<1>1. [value |-> d, expiry |-> NoExpiry] # Absent
  BY IntAssumption, AbsentAssumption DEF Node, Value, Ints, IntMin, NoExpiry
<1>2. CASE ~Live(s, k, t)
  BY <1>1, <1>2, TouchStore DEF AddOp, Present
<1>3. CASE Live(s, k, t) /\ s.store[k].value \in Words
  BY <1>3 DEF AddOp
<1>4. CASE Live(s, k, t) /\ s.store[k].value \notin Words
  <2>1. CountedNode(s, k, d) # Absent
    BY <1>4, CountedNodeType, AbsentAssumption
  <2> QED
    BY <1>4, <2>1, TouchStore DEF AddOp, Present, CountedNode
<1> QED
  BY <1>2, <1>3, <1>4
-----------------------------------------------------------------------------
(***************************************************************************)
(* What a command does to the entries without a deadline.                  *)
(***************************************************************************)

\* What any source feeds to the store: clients, the two files and the master.
AnyCommand == [op : Writes \cup Reads, key : Keys, value : Value, ttl : Int]

\* What the files and the master feed to it, and a line of a snapshot.
Fed == [op : Writes, key : Keys, value : Value, ttl : Int]
Line == [key : Keys, value : Value, ttl : Int]

\* An entry time does not take away.
Lasting(n) == n = Absent \/ n.expiry = NoExpiry

\* There is room for every key, so that set evicts none.
RoomForAll == IsFiniteSet(Keys) /\ Cardinality(Keys) <= Capacity

\* The entry a SET without TTL or a DEL leaves, and the one a counter leaves
\* of an entry that lasts.
Left(c) == IF c.op = "DEL" THEN Absent ELSE [value |-> c.value, expiry |-> NoExpiry]

Counted(n, d) ==
  IF n = Absent THEN [value |-> d, expiry |-> NoExpiry]
  ELSE IF n.value \in Words THEN n
  ELSE [n EXCEPT !.value = Wrap(@ + d)]

LEMMA Retyped ==
  ASSUME NEW S, NEW T, NEW s \in Seq(S), \A i \in 1 .. Len(s) : s[i] \in T
  PROVE  s \in Seq(T)
OBVIOUS

LEMMA CommandIsAny ==
  /\ Command \subseteq AnyCommand
  /\ Fed \subseteq AnyCommand
  /\ \A c \in Command : c.op \in Writes => c \in Fed
BY IntAssumption DEF Command, AnyCommand, Fed, Ints, IntMin

LEMMA ElementOf ==
  ASSUME NEW S, NEW s \in Seq(S), NEW i \in 1 .. Len(s)
  PROVE  s[i] \in S
OBVIOUS

LEMMA SavedLineType ==
  ASSUME NEW store \in [Keys -> Node \cup {Absent}], NEW t \in Int, NEW k \in SavedKeys(store, t)
  PROVE  /\ SavedLine(store, k, t) \in Line
         /\ SavedLine(store, k, t).key = k /\ SavedLine(store, k, t).value = store[k].value
         /\ store[k] # Absent /\ k \in Keys
<1>1. store[k] \in Node /\ k \in Keys /\ store[k] # Absent
  BY DEF SavedKeys
<1>2. store[k].expiry - t \in Int /\ MsPerSecond \in Nat \ {0}
  BY <1>1, UnitAssumption DEF Node
<1>3. (store[k].expiry - t) \div MsPerSecond \in Int
  BY <1>2
<1> QED
  BY <1>1, <1>3 DEF SavedLine, Line, Node, NoTtl

LEMMA StepType ==
  ASSUME NEW c
  PROVE  Step(c) \in {1, -1}
BY DEF Step

LEMMA ExecInOrder ==
  ASSUME NEW s, InOrder(s), NEW c \in AnyCommand, NEW t \in Int
  PROVE  InOrder(Exec(s, c, t))
<1>1. c.key \in Keys /\ c.value \in Value /\ c.ttl \in Int
  BY DEF AnyCommand
<1>2. c.op \in {"SET", "DEL", "INCR", "DECR", "GET", "EXISTS", "TTL"}
  BY DEF AnyCommand, Writes, Reads
<1>3. CASE c.op = "SET"
  BY <1>1, <1>3, SetInOrder DEF Exec
<1>4. CASE c.op \in {"INCR", "DECR"}
  BY <1>1, <1>4, AddInOrder, StepType DEF Exec
<1>5. CASE c.op = "GET"
  BY <1>1, <1>5, GetInOrder DEF Exec
<1>6. CASE c.op \in {"DEL", "EXISTS", "TTL"}
  BY <1>1, <1>6, ReadersInOrder DEF Exec
<1> QED
  BY <1>2, <1>3, <1>4, <1>5, <1>6

LEMMA HeapGrows ==
  ASSUME NEW s, NEW k, NEW v, NEW ttl, NEW t, NEW e \in SetOp(s, k, v, ttl, t).heap
  PROVE  e \in s.heap \/ e[1] # NoExpiry
<1> DEFINE put == Put(s, k, [value |-> v, expiry |-> Deadline(ttl, t)], t)
<1>1. put.heap = s.heap
  BY DEF Put, PushFront, MakeRoom, EvictLru, DropExpiredTail, Erase
<1> HIDE DEF put
<1>2. e \in PushHeap(put, k, Deadline(ttl, t)).heap
  BY DEF SetOp, put
<1>3. CASE Deadline(ttl, t) = NoExpiry
  BY <1>1, <1>2, <1>3 DEF PushHeap
<1>4. CASE Deadline(ttl, t) # NoExpiry
  <2>1. e \in put.heap \cup {<<Deadline(ttl, t), k>>}
    BY <1>2, <1>4 DEF PushHeap
  <2> QED
    BY <1>1, <1>4, <2>1
<1> QED
  BY <1>3, <1>4

LEMMA OthersKeepHeap ==
  ASSUME NEW s, NEW c, NEW t,
         c.op \in {"DEL", "INCR", "DECR", "GET", "EXISTS", "TTL"}
  PROVE  Exec(s, c, t).heap = s.heap
<1>1. \A K : Erase(s, K).heap = s.heap
  BY DEF Erase
<1>2. \A k, n : Touch(s, k, n).heap = s.heap
  BY DEF Touch, PushFront, Erase
<1>3. CASE c.op \in {"INCR", "DECR"}
  BY <1>2, <1>3 DEF Exec, AddOp
<1>4. CASE c.op = "GET"
  BY <1>1, <1>2, <1>4 DEF Exec, GetOp
<1>5. CASE c.op = "DEL"
  BY <1>1, <1>5 DEF Exec, DelOp
<1>6. CASE c.op = "EXISTS"
  BY <1>1, <1>6 DEF Exec, ExistsOp
<1>7. CASE c.op = "TTL"
  BY <1>1, <1>7 DEF Exec, TtlOp
<1> QED
  BY <1>3, <1>4, <1>5, <1>6, <1>7

\* No command puts a pair without a deadline in the heap.
LEMMA ExecHeap ==
  ASSUME NEW s, NEW c \in AnyCommand, NEW t, NEW e \in Exec(s, c, t).heap
  PROVE  e \in s.heap \/ e[1] # NoExpiry
<1>1. c.op \in {"SET", "DEL", "INCR", "DECR", "GET", "EXISTS", "TTL"}
  BY DEF AnyCommand, Writes, Reads
<1>2. CASE c.op = "SET"
  BY <1>2, HeapGrows DEF Exec
<1>3. CASE c.op # "SET"
  BY <1>1, <1>3, OthersKeepHeap
<1> QED
  BY <1>2, <1>3

\* SET and DEL leave the same entry whatever was there.
LEMMA ExecOwn ==
  ASSUME NEW s, InOrder(s), NEW c \in AnyCommand, NEW t \in Int
  PROVE  /\ c.op = "SET" => Exec(s, c, t).store[c.key] =
                               [value |-> c.value, expiry |-> Deadline(c.ttl, t)]
         /\ c.op = "DEL" => Exec(s, c, t).store[c.key] = Absent
<1>1. c.key \in Keys
  BY DEF AnyCommand
<1>2. CASE c.op = "SET"
  <2>1. Exec(s, c, t) = SetOp(s, c.key, c.value, c.ttl, t)
    BY <1>2 DEF Exec
  <2>2. \A k \in Keys : \A v, ttl :
          SetOp(s, k, v, ttl, t).store[k] = [value |-> v, expiry |-> Deadline(ttl, t)]
    BY SetStore
  <2>3. SetOp(s, c.key, c.value, c.ttl, t).store[c.key] =
          [value |-> c.value, expiry |-> Deadline(c.ttl, t)]
    BY <1>1, <2>2
  <2> QED
    BY <1>2, <2>1, <2>3
<1>3. CASE c.op = "DEL"
  <2>1. Exec(s, c, t) = Erase(s, {c.key})
    BY <1>3 DEF Exec, DelOp
  <2>2. \A K : Erase(s, K).store[c.key] = IF c.key \in K THEN Absent ELSE s.store[c.key]
    BY <1>1, EraseStore
  <2> QED
    BY <1>3, <2>1, <2>2
<1> QED
  BY <1>2, <1>3

LEMMA EraseOrKeep ==
  ASSUME NEW s, NEW t, NEW x \in Keys
  PROVE  MakeRoom(s, t).store[x] \in {s.store[x], Absent}
<1> DEFINE d == DropExpiredTail(s, t)
<1>1. \A r, K : Erase(r, K).store[x] = Absent \/ Erase(r, K).store[x] = r.store[x]
  BY EraseStore
<1>2. d.store[x] = Absent \/ d.store[x] = s.store[x]
  BY <1>1 DEF DropExpiredTail
<1> HIDE DEF d
<1>3. EvictLru(d).store[x] = Absent \/ EvictLru(d).store[x] = d.store[x]
  BY <1>1 DEF EvictLru
<1> QED
  BY <1>2, <1>3 DEF MakeRoom, d

\* set and del leave another key as it was or take it.
LEMMA ChangeOther ==
  ASSUME NEW s, InOrder(s), NEW c \in AnyCommand, c.op \in {"SET", "DEL"}, NEW t \in Int,
         NEW x \in Keys, x # c.key
  PROVE  Exec(s, c, t).store[x] \in {s.store[x], Absent}
<1>1. c.key \in Keys
  BY DEF AnyCommand
<1>2. CASE c.op = "SET"
  <2>1. Exec(s, c, t) = SetOp(s, c.key, c.value, c.ttl, t)
    BY <1>2 DEF Exec
  <2>2. \A k \in Keys : \A v, ttl :
          SetOp(s, k, v, ttl, t).store[x] =
            IF x = k THEN [value |-> v, expiry |-> Deadline(ttl, t)]
            ELSE IF s.store[k] # Absent THEN s.store[x]
            ELSE MakeRoom(s, t).store[x]
    BY SetStore
  <2>3. Exec(s, c, t).store[x] = IF s.store[c.key] # Absent THEN s.store[x]
                                 ELSE MakeRoom(s, t).store[x]
    <3>1. SetOp(s, c.key, c.value, c.ttl, t).store[x] =
            IF x = c.key THEN [value |-> c.value, expiry |-> Deadline(c.ttl, t)]
            ELSE IF s.store[c.key] # Absent THEN s.store[x]
            ELSE MakeRoom(s, t).store[x]
      BY <1>1, <2>2, Zenon
    <3> QED
      BY <2>1, <3>1
  <2> QED
    BY <2>3, EraseOrKeep
<1>3. CASE c.op = "DEL"
  BY <1>3, EraseStore DEF Exec, DelOp
<1> QED
  BY <1>2, <1>3

\* A set of k finds room without taking a key that lasts.
LEMMA NothingEvicted ==
  ASSUME RoomForAll, NEW s, InOrder(s), NEW k \in Keys, s.store[k] = Absent, NEW t \in Int,
         NEW x \in Keys, Lasting(s.store[x])
  PROVE  MakeRoom(s, t).store[x] = s.store[x]
<1>1. Present(MakeRoom(s, t)) \subseteq Present(s)
  BY MakeRoomInOrder
<1>2. CASE s.store[x] = Absent
  BY <1>1, <1>2 DEF Present
<1>3. CASE s.store[x] # Absent
  <2>1. Live(s, x, t)
    BY <1>3 DEF Live, Expired, Lasting
  <2>2. Cardinality(Present(s)) < Capacity
    <3>1. Present(s) \in SUBSET Keys /\ Present(s) # Keys
      BY DEF Present
    <3>2. /\ Cardinality(Present(s)) <= Cardinality(Keys)
          /\ Cardinality(Present(s)) # Cardinality(Keys)
      BY <3>1, FS_Subset DEF RoomForAll
    <3>3. Cardinality(Present(s)) \in Nat /\ Cardinality(Keys) \in Nat
      BY FinitelyManyPresent, FS_CardinalityType DEF RoomForAll
    <3> QED
      BY <3>2, <3>3, CapacityAssumption DEF RoomForAll
  <2>3. Cardinality(Present(s)) \in Nat
    BY FinitelyManyPresent
  <2>4. MakeRoom(s, t).store[x] # Absent
    BY <2>1, <2>2, <2>3, RoomCosts, CapacityAssumption
  <2> QED
    BY <2>4, EraseOrKeep
<1> QED
  BY <1>2, <1>3

\* A command leaves the other keys' entries that last.
LEMMA ExecOther ==
  ASSUME RoomForAll, NEW s, InOrder(s), NEW c \in AnyCommand, NEW t \in Int,
         NEW x \in Keys, x # c.key, Lasting(s.store[x])
  PROVE  Exec(s, c, t).store[x] = s.store[x]
<1>1. c.key \in Keys
  BY DEF AnyCommand
<1>2. c.op \in {"SET", "DEL", "INCR", "DECR", "GET", "EXISTS", "TTL"}
  BY DEF AnyCommand, Writes, Reads
<1>3. CASE c.op = "SET"
  <2>1. s.store[c.key] = Absent => MakeRoom(s, t).store[x] = s.store[x]
    BY <1>1, NothingEvicted
  <2>2. Exec(s, c, t) = SetOp(s, c.key, c.value, c.ttl, t)
    BY <1>3 DEF Exec
  <2>3. SetOp(s, c.key, c.value, c.ttl, t).store[x] =
          IF x = c.key THEN [value |-> c.value, expiry |-> Deadline(c.ttl, t)]
          ELSE IF s.store[c.key] # Absent THEN s.store[x]
          ELSE MakeRoom(s, t).store[x]
    <3>1. \A k \in Keys : \A v, ttl :
            SetOp(s, k, v, ttl, t).store[x] =
              IF x = k THEN [value |-> v, expiry |-> Deadline(ttl, t)]
              ELSE IF s.store[k] # Absent THEN s.store[x]
              ELSE MakeRoom(s, t).store[x]
      BY SetStore
    <3> QED
      BY <1>1, <3>1, Zenon
  <2> QED
    BY <2>1, <2>2, <2>3
<1>4. CASE c.op \in {"INCR", "DECR"}
  BY <1>1, <1>4, TouchStore DEF Exec, AddOp
<1>5. CASE c.op = "GET"
  BY <1>1, <1>5, TouchStore, EraseStore DEF Exec, GetOp
<1>6. CASE c.op = "DEL"
  BY <1>6, EraseStore DEF Exec, DelOp
<1>7. CASE c.op = "EXISTS"
  BY <1>7, EraseStore DEF Exec, ExistsOp
<1>8. CASE c.op = "TTL"
  BY <1>8, EraseStore DEF Exec, TtlOp
<1> QED
  BY <1>2, <1>3, <1>4, <1>5, <1>6, <1>7, <1>8

\* A command that reads leaves the entries that last, its own key's as well.
LEMMA ExecRead ==
  ASSUME NEW s, NEW c \in AnyCommand, c.op \in Reads, NEW t \in Int,
         NEW x \in Keys, Lasting(s.store[x])
  PROVE  Exec(s, c, t).store[x] = s.store[x]
<1>1. c.key \in Keys
  BY DEF AnyCommand
<1>2. s.store[x] # Absent => Live(s, x, t) /\ ~OutOfTime(s, x, t)
  BY DEF Live, Expired, OutOfTime, Lasting
<1>3. CASE c.op = "GET"
  <2>1. Exec(s, c, t) = GetOp(s, c.key, t)
    BY <1>3 DEF Exec
  <2>2. CASE Live(s, c.key, t)
    <3>1. Exec(s, c, t).store[x] = IF x = c.key THEN s.store[c.key] ELSE s.store[x]
      BY <1>1, <2>1, <2>2, TouchStore DEF GetOp
    <3> QED
      BY <3>1
  <2>3. CASE ~Live(s, c.key, t)
    <3>1. Exec(s, c, t).store[x] = IF x = c.key THEN Absent ELSE s.store[x]
      BY <2>1, <2>3, EraseStore DEF GetOp
    <3>2. x = c.key => s.store[x] = Absent
      BY <1>2, <2>3
    <3> QED
      BY <3>1, <3>2
  <2> QED
    BY <2>2, <2>3
<1>4. CASE c.op = "EXISTS"
  BY <1>2, <1>4, EraseStore DEF Exec, ExistsOp
<1>5. CASE c.op = "TTL"
  BY <1>2, <1>5, EraseStore DEF Exec, TtlOp
<1> QED
  BY <1>3, <1>4, <1>5 DEF Reads

\* The cleaner leaves the entries that last.
LEMMA CleanKeeps ==
  ASSUME NEW s, \A e \in s.heap : e[1] # NoExpiry, NEW t,
         NEW x \in Keys, Lasting(s.store[x])
  PROVE  CleanOp(s, t).store[x] = s.store[x]
<1> DEFINE due  == {e \in s.heap : e[1] <= t}
           dead == {k \in Keys : s.store[k] # Absent /\ <<s.store[k].expiry, k>> \in due}
           a == Erase(s, dead)
<1>1. CleanOp(s, t).store = a.store
  BY DEF CleanOp, Erase
<1>2. CASE s.store[x] = Absent
  BY <1>1, <1>2, EraseStore
<1>3. CASE s.store[x] # Absent
  <2>1. x \notin dead
    <3>1. s.store[x].expiry = NoExpiry
      BY <1>3 DEF Lasting
    <3>2. <<NoExpiry, x>> \notin s.heap
      OBVIOUS
    <3> QED
      BY <3>1, <3>2
  <2> HIDE DEF dead
  <2> QED
    BY <1>1, <2>1, EraseStore
<1> QED
  BY <1>2, <1>3

\* A counter counts an entry that lasts, or begins one.
LEMMA ExecCounter ==
  ASSUME NEW s, InOrder(s), NEW c \in AnyCommand, c.op \in {"INCR", "DECR"}, NEW t \in Int,
         Lasting(s.store[c.key])
  PROVE  /\ Exec(s, c, t).store[c.key] = Counted(s.store[c.key], Step(c))
         /\ Lasting(Counted(s.store[c.key], Step(c)))
<1> DEFINE k == c.key
           n == s.store[k]
<1>1. k \in Keys /\ Exec(s, c, t) = AddOp(s, k, Step(c), t)
  BY DEF AnyCommand, Exec
<1>2. CASE n = Absent
  <2>1. ~Live(s, k, t)
    BY <1>2 DEF Live
  <2> QED
    BY <1>1, <1>2, <2>1, TouchStore DEF AddOp, Counted, Lasting
<1>3. CASE n # Absent
  <2>1. n \in Node /\ n.expiry = NoExpiry /\ Live(s, k, t)
    BY <1>1, <1>3 DEF InOrder, StoreState, Lasting, Live, Expired
  <2>2. CASE n.value \in Words
    BY <1>1, <1>3, <2>1, <2>2 DEF AddOp, Counted, Lasting
  <2>3. CASE n.value \notin Words
    <3>1. /\ AddOp(s, k, Step(c), t) = Touch(s, k, CountedNode(s, k, Step(c)))
          /\ Counted(n, Step(c)) = CountedNode(s, k, Step(c))
      BY <1>3, <2>1, <2>3 DEF AddOp, Counted, CountedNode
    <3>2. CountedNode(s, k, Step(c)).expiry = n.expiry
      BY <1>1, <2>1, <2>3, StepType, CountedNodeType
    <3>3. \A x \in Keys : \A m : Touch(s, x, m).store[x] = m
      BY TouchStore
    <3>4. AddOp(s, k, Step(c), t).store[k] = CountedNode(s, k, Step(c))
      BY <1>1, <3>1, <3>3, Zenon
    <3> QED
      BY <1>1, <2>1, <3>1, <3>2, <3>4 DEF Lasting
  <2> QED
    BY <2>2, <2>3
<1> QED
  BY <1>2, <1>3
=============================================================================
