---------------------------- MODULE ServerProofs ----------------------------
(***************************************************************************)
(* Theorems about the two parts of a server that its threads share: the    *)
(* store (KVStore), for every set of keys, capacity, int width and clock,  *)
(* and the connections (Connections), for any number of peers, of socket   *)
(* numbers and any limit.  The parts do not touch each other; what belongs *)
(* to the second has Conn in its name.                                     *)
(***************************************************************************)
EXTENDS KVStore, Connections, StoreOpsProofs

(***************************************************************************)
(* The store.                                                              *)
(***************************************************************************)

\* The inductive invariant: types, and list, map and heap in step.  None of
\* the three is inductive alone: eviction needs the list to know which key it
\* drops, the cleaner's answer for a key depends on the heap.
Inv == InOrder(kv) /\ now \in Int /\ recent \in Seq(Keys)

LEMMA InitInv == Init => Inv
BY EmptyInOrder, EpochAssumption DEF Init, Inv

LEMMA UsedType ==
  ASSUME recent \in Seq(Keys), NEW k \in Keys, Used(k)
  PROVE  recent' \in Seq(Keys)
<1>1. Sublist(recent, Keys \ {k}) \in Seq(Keys)
  BY SublistSeq
<1> QED
  BY <1>1 DEF Used

LEMMA AddInv ==
  ASSUME Inv, NEW k \in Keys, NEW d \in {1, -1}, Add(k, d)
  PROVE  Inv'
<1>1. InOrder(AddOp(kv, k, d, now))
  BY AddInOrder DEF Inv
<1>2. recent' \in Seq(Keys)
  BY UsedType DEF Add, Inv
<1> QED
  BY <1>1, <1>2 DEF Add, Inv

LEMMA NextInv == Inv /\ [Next]_vars => Inv'
<1> SUFFICES ASSUME Inv, [Next]_vars
             PROVE  Inv'
  OBVIOUS
<1>1. ASSUME NEW k \in Keys, NEW v \in SetValues, NEW ttl \in Ttls, Set(k, v, ttl)
      PROVE  Inv'
  <2>1. v \in Value /\ ttl \in Int
    BY InputAssumption, IntAssumption DEF Ints, IntMin
  <2>2. InOrder(SetOp(kv, k, v, ttl, now))
    BY <2>1, SetInOrder DEF Inv
  <2>3. recent' \in Seq(Keys)
    BY <1>1, UsedType DEF Set, Inv
  <2> QED
    BY <1>1, <2>2, <2>3 DEF Set, Inv
<1>2. ASSUME NEW k \in Keys, Get(k)
      PROVE  Inv'
  <2>1. InOrder(GetOp(kv, k, now))
    BY GetInOrder DEF Inv
  <2>2. recent' \in Seq(Keys)
    BY <1>2, UsedType DEF Get, Inv
  <2> QED
    BY <1>2, <2>1, <2>2 DEF Get, Inv
<1>3. ASSUME NEW k \in Keys, Del(k) \/ Exists(k) \/ Ttl(k)
      PROVE  Inv'
  BY <1>3, ReadersInOrder DEF Del, Exists, Ttl, Inv
<1>4. ASSUME NEW k \in Counters, Incr(k) \/ Decr(k)
      PROVE  Inv'
  BY <1>4, AddInv, InputAssumption DEF Incr, Decr
<1>5. CASE CleanExpired
  BY <1>5, CleanInOrder DEF CleanExpired, Inv
<1>6. CASE Tick
  BY <1>6 DEF Tick, Inv
<1>7. CASE UNCHANGED vars
  BY <1>7 DEF vars, Inv
<1> QED
  BY <1>1, <1>2, <1>3, <1>4, <1>5, <1>6, <1>7 DEF Next

\* The store is in order after any calls, so that list, map and heap can be
\* read off one another (KVStore.cpp, all methods).
THEOREM Invariance == Spec => []Inv
BY InitInv, NextInv, PTL DEF Spec

\* Every reachable state is well typed.
THEOREM TypeCorrect == Spec => []TypeOK
<1>1. Inv => TypeOK
  BY DEF Inv, InOrder, TypeOK
<1> QED
  BY <1>1, Invariance, PTL

\* No sequence of calls separates the list from the map: no dangling
\* iterator, no key that cannot be evicted (KVStore.cpp, all methods).
THEOREM ListFollowsMap == Spec => []LruMatchesStore
<1>1. Inv => LruMatchesStore
  BY DEF Inv, InOrder, LruMatchesStore
<1> QED
  BY <1>1, Invariance, PTL

\* Every deadline in the map has its entry in expiryHeap, so that
\* cleanExpired meets it when it is due.
THEOREM HeapComplete == Spec => []HeapCoversDeadlines
<1>1. Inv => HeapCoversDeadlines
  BY DEF Inv, InOrder, HeapCoversDeadlines
<1> QED
  BY <1>1, Invariance, PTL
-----------------------------------------------------------------------------
LEMMA OnlyCountersStep ==
  ASSUME Inv, [Next]_vars, Growth, Cardinality(Present(kv')) > Capacity
  PROVE  \E k \in Counters : Incr(k) \/ Decr(k)
<1> SUFFICES ASSUME \A k \in Counters : ~Incr(k) /\ ~Decr(k)
             PROVE  FALSE
  OBVIOUS
<1>1. /\ Cardinality(Present(kv)) \in Nat
      /\ Inv'
      /\ Cardinality(Present(kv')) \in Nat
  BY NextInv, FinitelyManyPresent DEF Inv
<1>2. ~(Cardinality(Present(kv')) <= Cardinality(Present(kv)))
  BY <1>1 DEF Growth
<1>3. ~(Present(kv') \subseteq Present(kv))
  BY <1>2, SubsetNotLarger DEF Inv
<1>4. ASSUME NEW k \in Keys, NEW v \in SetValues, NEW ttl \in Ttls, Set(k, v, ttl)
      PROVE  FALSE
  <2>1. v \in Value /\ ttl \in Int
    BY InputAssumption, IntAssumption DEF Ints, IntMin
  <2>2. \/ Cardinality(Present(kv')) <= Capacity
        \/ Cardinality(Present(kv')) <= Cardinality(Present(kv))
    BY <1>4, <2>1, SetStaysWithin DEF Set, Inv
  <2> QED
    BY <1>1, <1>2, <2>2, CapacityAssumption
<1>5. ASSUME NEW k \in Keys, Get(k)
      PROVE  FALSE
  <2>1. CASE Live(kv, k, now)
    <3>1. k \in Present(kv)
      BY <2>1 DEF Live, Present
    <3>2. Present(kv') = Present(kv) \cup {k}
      BY <1>5, <2>1, <3>1, NodeOfKey, TouchInOrder DEF Get, GetOp, Inv
    <3> QED
      BY <1>3, <3>1, <3>2
  <2>2. CASE ~Live(kv, k, now)
    BY <1>3, <1>5, <2>2, EraseInOrder DEF Get, GetOp, Inv
  <2> QED
    BY <2>1, <2>2
<1>6. ASSUME NEW k \in Keys, Del(k) \/ Exists(k) \/ Ttl(k)
      PROVE  FALSE
  BY <1>3, <1>6, EraseInOrder DEF Del, DelOp, Exists, ExistsOp, Ttl, TtlOp, Inv
<1>7. CASE CleanExpired
  BY <1>3, <1>7 DEF CleanExpired, CleanOp, Erase, Present
<1>8. CASE Tick \/ UNCHANGED vars
  BY <1>3, <1>8 DEF Tick, vars
<1> QED
  BY <1>4, <1>5, <1>6, <1>7, <1>8 DEF Next

\* A store grows beyond its capacity by INCR and DECR alone: SET makes room
\* first, whatever has expired or been deleted (KVStore.cpp, set).
THEOREM OverfillOnlyByCounters == Spec => OnlyCountersOverfill
<1>1. Inv /\ [Next]_vars =>
        [Growth /\ Cardinality(Present(kv')) > Capacity
           => \E k \in Counters : Incr(k) \/ Decr(k)]_vars
  BY OnlyCountersStep
<1> QED
  BY <1>1, Invariance, PTL DEF Spec, OnlyCountersOverfill
-----------------------------------------------------------------------------
(***************************************************************************)
(* The order of the list.                                                  *)
(***************************************************************************)

\* The list orders the keys as `recent` does.  That `recent` names no key
\* twice is what makes "the order of last use" one order.
RecencyInv == NoDuplicates(recent) /\ Ranked(kv, recent)

LEMMA InitRecency == Init => RecencyInv
<1> SUFFICES ASSUME Init PROVE RecencyInv
  OBVIOUS
<1>1. recent = <<>> /\ kv.lru = <<>> /\ Len(<<>>) = 0 /\ Range(<<>>) = {}
  BY DEF Init, EmptyStore, Range
<1>2. <<>> \in Seq({})
  OBVIOUS
<1>3. Sublist(<<>>, Present(kv)) = <<>>
  BY <1>1, <1>2, SublistWhole
<1> QED
  BY <1>1, <1>3 DEF RecencyInv, NoDuplicates, Ranked

LEMMA UsedRecency ==
  ASSUME Inv, NoDuplicates(recent), NEW k \in Keys, Used(k)
  PROVE  recent' = ToFront(recent, k) /\ NoDuplicates(recent')
<1>1. recent' = ToFront(recent, k)
  BY DEF Used, ToFront
<1>2. NoDuplicates(ToFront(recent, k))
  BY ToFrontNoDuplicates DEF Inv
<1> QED
  BY <1>1, <1>2

LEMMA NextRecency ==
  ASSUME Inv, RecencyInv, [Next]_vars
  PROVE  RecencyInv'
<1> USE DEF RecencyInv
<1>1. InOrder(kv) /\ now \in Int /\ recent \in Seq(Keys)
  BY DEF Inv
<1>2. ASSUME NEW k \in Keys, NEW v \in SetValues, NEW ttl \in Ttls, Set(k, v, ttl)
      PROVE  RecencyInv'
  <2>1. v \in Value /\ ttl \in Int
    BY InputAssumption, IntAssumption DEF Ints, IntMin
  <2>2. Ranked(SetOp(kv, k, v, ttl, now), ToFront(recent, k))
    BY <1>1, <2>1, SetRanked
  <2> QED
    BY <1>2, <2>2, UsedRecency DEF Set
<1>3. ASSUME NEW k \in Keys, Get(k)
      PROVE  RecencyInv'
  <2>1. Ranked(GetOp(kv, k, now), IF Live(kv, k, now) THEN ToFront(recent, k) ELSE recent)
    BY <1>1, GetRanked
  <2> QED
    BY <1>3, <2>1, UsedRecency DEF Get
<1>4. ASSUME NEW k \in Keys, Del(k) \/ Exists(k) \/ Ttl(k)
      PROVE  RecencyInv'
  BY <1>1, <1>4, ReadersRanked DEF Del, Exists, Ttl
<1>5. ASSUME NEW k \in Keys, NEW d \in {1, -1}, Add(k, d)
      PROVE  RecencyInv'
  <2>1. Ranked(AddOp(kv, k, d, now),
               IF Live(kv, k, now) /\ kv.store[k].value \in Words
               THEN recent ELSE ToFront(recent, k))
    BY <1>1, AddRanked
  <2> QED
    BY <1>5, <2>1, UsedRecency DEF Add
<1>6. CASE CleanExpired
  BY <1>1, <1>6, CleanRanked DEF CleanExpired
<1>7. CASE Tick \/ UNCHANGED vars
  BY <1>7 DEF Tick, vars
<1> QED
  BY <1>2, <1>3, <1>4, <1>5, <1>6, <1>7, InputAssumption DEF Next, Incr, Decr

\* The list of a store is the order of last use, whatever was deleted,
\* expired or evicted in between (KVStore.cpp, "move to front").
THEOREM RecencyOrder == Spec => []LruIsRecency
<1>1. RecencyInv => LruIsRecency
  BY DEF RecencyInv, Ranked, LruIsRecency
<1>2. Inv /\ RecencyInv /\ [Next]_vars => RecencyInv'
  BY NextRecency
<1> QED
  BY <1>1, <1>2, InitRecency, Invariance, PTL DEF Spec
-----------------------------------------------------------------------------
(***************************************************************************)
(* Which live keys are lost.                                               *)
(***************************************************************************)

\* Only pairs with a deadline are in the heap, so that the cleaner cannot
\* take a key without one.
HeapOfDeadlines == \A e \in kv.heap : e[1] # NoExpiry

LEMMA NextHeapOfDeadlines ==
  ASSUME HeapOfDeadlines, [Next]_vars
  PROVE  HeapOfDeadlines'
<1> USE DEF HeapOfDeadlines
<1>1. ASSUME NEW k \in Keys, NEW v \in SetValues, NEW ttl \in Ttls, Set(k, v, ttl)
      PROVE  HeapOfDeadlines'
  BY <1>1, HeapGrows DEF Set
<1>2. ASSUME NEW k \in Keys, Get(k) \/ Del(k) \/ Exists(k) \/ Ttl(k) \/ Incr(k) \/ Decr(k)
      PROVE  kv'.heap = kv.heap
  BY <1>2 DEF Get, GetOp, Del, DelOp, Exists, ExistsOp, Ttl, TtlOp, Incr, Decr,
              Add, AddOp, Touch, PushFront, Erase
<1>3. CASE CleanExpired
  BY <1>3 DEF CleanExpired, CleanOp, Erase
<1>4. CASE Tick \/ UNCHANGED vars
  BY <1>4 DEF Tick, vars
<1> QED
  BY <1>1, <1>2, <1>3, <1>4, InputAssumption DEF Next

\* The positions of two members of the list are ordered as in `recent`.
LEMMA ListOrder ==
  ASSUME NEW s, InOrder(s), NEW r \in Seq(Keys), NoDuplicates(r), Ranked(s, r),
         NEW x \in Present(s), NEW y \in Present(s), y = Back(s), x # y
  PROVE  PositionIn(r, x) < PositionIn(r, y)
<1> DEFINE P == Present(s)
<1>1. /\ s.lru \in Seq(Keys) /\ Range(s.lru) = P /\ s.lru = Sublist(r, P)
  BY DEF InOrder, StoreState, LruConsistent, Ranked
<1>2. PICK m \in 1 .. Len(s.lru) : x = s.lru[m]
  BY <1>1 DEF Range
<1> DEFINE n == Len(s.lru)
<1>3. n \in 1 .. n /\ y = s.lru[n] /\ m < n
  BY <1>1, <1>2 DEF Back
<1>4. /\ NthHit(r, P, m) \in 1 .. Len(r) /\ NthHit(r, P, n) \in 1 .. Len(r)
      /\ NthHit(r, P, m) < NthHit(r, P, n)
  BY <1>1, <1>3, NthHitIncreases
<1>5. x = r[NthHit(r, P, m)] /\ y = r[NthHit(r, P, n)]
  BY <1>1, <1>2, <1>3, SublistSeq
<1>6. PositionIn(r, x) = NthHit(r, P, m) /\ PositionIn(r, y) = NthHit(r, P, n)
  BY <1>4, <1>5 DEF PositionIn, NoDuplicates
<1> QED
  BY <1>4, <1>6

LEMMA SetLosesOldest ==
  ASSUME Inv, RecencyInv, NEW new \in Keys, NEW v \in SetValues, NEW ttl \in Ttls,
         Set(new, v, ttl), NEW k \in Keys, Lost(k)
  PROVE  EvictedFor(k)
<1> DEFINE d == DropExpiredTail(kv, now)
           room == MakeRoom(kv, now)
<1>1. /\ InOrder(kv) /\ now \in Int /\ recent \in Seq(Keys)
      /\ NoDuplicates(recent) /\ Ranked(kv, recent)
  BY DEF Inv, RecencyInv
<1>2. \A x \in Keys : kv'.store[x] =
        IF x = new THEN [value |-> v, expiry |-> Deadline(ttl, now)]
        ELSE IF kv.store[new] # Absent THEN kv.store[x]
        ELSE room.store[x]
  BY <1>1, SetStore DEF Set
<1>3. [value |-> v, expiry |-> Deadline(ttl, now)] # Absent
  BY <1>1, DeadlineType, InputAssumption, IntAssumption, AbsentAssumption DEF Node, Ints, IntMin
<1>4. k # new /\ kv.store[new] = Absent /\ room.store[k] = Absent /\ kv'.store[new] # Absent
  BY <1>2, <1>3 DEF Lost
<1>5. Live(kv, k, now)
  BY <1>1 DEF Lost, Live, Expired, InOrder, StoreState, Node
<1>6. /\ Cardinality(Present(kv)) >= Capacity
      /\ k = Back(d)
      /\ Present(room) = Present(d) \ {k}
  BY <1>1, <1>4, <1>5, RoomCosts
<1>7. InOrder(d) /\ Ranked(d, recent) /\ k \in Present(d)
  BY <1>1, <1>5, EraseInOrder, EraseRanked, TailIsExpired DEF DropExpiredTail, Live, Present
<1> HIDE DEF d, room
<1>8. ASSUME NEW stays \in Present(kv), kv'.store[stays] # Absent
      PROVE  PositionIn(recent, stays) < PositionIn(recent, k)
  <2>1. stays \in Keys /\ stays # new
    BY <1>4 DEF Present
  <2>2. stays \in Present(room)
    BY <1>2, <1>4, <1>8, <2>1 DEF Present
  <2>3. stays \in Present(d) /\ stays # k
    BY <1>6, <2>2
  <2> QED
    BY <1>1, <1>6, <1>7, <2>3, ListOrder
<1> QED
  BY <1>4, <1>6, <1>8 DEF EvictedFor

LEMMA LostStep ==
  ASSUME Inv, RecencyInv, HeapOfDeadlines, [Next]_vars, NEW k \in Keys, Lost(k)
  PROVE  Del(k) \/ EvictedFor(k)
<1>1. InOrder(kv) /\ now \in Int
  BY DEF Inv
<1>2. Live(kv, k, now) /\ ~OutOfTime(kv, k, now)
  BY <1>1 DEF Lost, Live, Expired, OutOfTime, InOrder, StoreState, Node
<1>3. ASSUME NEW new \in Keys, NEW v \in SetValues, NEW ttl \in Ttls, Set(new, v, ttl)
      PROVE  EvictedFor(k)
  BY <1>3, SetLosesOldest
<1>4. ASSUME NEW x \in Keys, Get(x) \/ Exists(x) \/ Ttl(x)
      PROVE  FALSE
  <2>1. kv.store[k] # Absent /\ kv'.store[k] = Absent
    BY DEF Lost
  <2>2. kv' # kv
    BY <2>1
  <2>3. CASE kv' = Erase(kv, {x}) /\ (~Live(kv, x, now) \/ OutOfTime(kv, x, now))
    <3>1. x = k
      BY <2>1, <2>3, EraseStore
    <3> QED
      BY <1>2, <2>3, <3>1
  <2>4. CASE kv' = Touch(kv, x, kv.store[x]) /\ Live(kv, x, now)
    <3>1. Touch(kv, x, kv.store[x]).store[k] = IF k = x THEN kv.store[x] ELSE kv.store[k]
      BY DEF Touch, PushFront, Erase
    <3> QED
      BY <2>1, <2>4, <3>1
  <2> QED
    BY <1>4, <2>2, <2>3, <2>4 DEF Get, GetOp, Exists, ExistsOp, Ttl, TtlOp
<1>5. ASSUME NEW x \in Keys, Del(x)
      PROVE  Del(k)
  BY <1>5, EraseStore DEF Del, DelOp, Lost
<1>6. ASSUME NEW x \in Keys, NEW d \in {1, -1}, Add(x, d)
      PROVE  FALSE
  <2>1. k \in Present(kv) /\ k \notin Present(AddOp(kv, x, d, now))
    BY <1>6 DEF Add, Lost, Present
  <2>2. Present(kv) \subseteq Present(AddOp(kv, x, d, now))
    BY <1>1, AddPresent
  <2> QED
    BY <2>1, <2>2
<1>7. CASE CleanExpired
  <2>1. kv.store[k].expiry = NoExpiry \/ kv.store[k].expiry > now
    BY DEF Lost
  <2>2. kv.store[k].expiry \in Int
    BY <1>1, <1>2, NodeOfKey DEF Live, Present, Node
  <2>3. <<kv.store[k].expiry, k>> \in kv.heap /\ kv.store[k].expiry <= now
    BY <1>7 DEF CleanExpired, CleanOp, Erase, Lost
  <2> QED
    BY <1>1, <2>1, <2>2, <2>3 DEF HeapOfDeadlines
<1>8. CASE Tick \/ UNCHANGED vars
  BY <1>8 DEF Tick, vars, Lost
<1> QED
  BY <1>3, <1>4, <1>5, <1>6, <1>7, <1>8, InputAssumption DEF Next, Incr, Decr

\* A key whose deadline has not come is lost by its own DEL only, or as the
\* key used least recently of a full store (KVStore.cpp, set, step 2).
THEOREM OldestEvicted == Spec => OnlyOldestEvicted
<1>1. Inv /\ RecencyInv /\ HeapOfDeadlines /\ [Next]_vars
        => [\A k \in Keys : Lost(k) => Del(k) \/ EvictedFor(k)]_vars
  BY LostStep
<1>2. Inv /\ RecencyInv /\ [Next]_vars => RecencyInv'
  BY NextRecency
<1>3. HeapOfDeadlines /\ [Next]_vars => HeapOfDeadlines'
  BY NextHeapOfDeadlines
<1>4. Init => HeapOfDeadlines
  BY DEF Init, EmptyStore, HeapOfDeadlines
<1> QED
  BY <1>1, <1>2, <1>3, <1>4, InitRecency, Invariance, PTL DEF Spec, OnlyOldestEvicted
-----------------------------------------------------------------------------
(***************************************************************************)
(* The store implements ExpiringMap.  One lemma per action: it maps to a   *)
(* step of the contract or leaves the client's view as it is.              *)
(***************************************************************************)

View(s, t) == [k \in Keys |-> IF Live(s, k, t) THEN s.store[k] ELSE Absent]

ContractStep == [Contract!ContractNext]_(Contract!contractVars)

LEMMA ViewOfStore ==
  /\ LiveView = View(kv, now)
  /\ LiveView' = View(kv', now')
BY DEF LiveView, View

\* A view depends on the map alone.
LEMMA ViewsEqual ==
  ASSUME NEW s, NEW r, NEW t, \A x \in Keys : s.store[x] = r.store[x]
  PROVE  View(s, t) = View(r, t)
BY DEF View, Live

\* Erasing what is not seen changes nothing.
LEMMA ViewWithout ==
  ASSUME NEW s, NEW K, NEW t
  PROVE  View(Erase(s, K), t) = [x \in Keys |-> IF x \in K THEN Absent ELSE View(s, t)[x]]
BY EraseStore DEF View, Live

LEMMA InitContract == Init => Contract!ContractInit
<1> SUFFICES ASSUME Init PROVE Contract!ContractInit
  OBVIOUS
<1>1. LiveView = [k \in Keys |-> Absent]
  BY DEF Init, EmptyStore, LiveView, Live
<1>2. now \in Int
  BY EpochAssumption DEF Init
<1> QED
  BY <1>1, <1>2 DEF Contract!ContractInit

LEMMA DelContract ==
  ASSUME NEW k \in Keys, Del(k)
  PROVE  ContractStep
<1>1. LiveView' = [x \in Keys |-> IF x \in {k} THEN Absent ELSE LiveView[x]]
  BY ViewOfStore, ViewWithout DEF Del, DelOp
<1>2. Contract!Discard(k)
  BY <1>1 DEF Contract!Discard, Contract!Without, Del
<1> QED
  BY <1>2 DEF ContractStep, Contract!ContractNext

\* Looking at a key erases it only if it was not seen any more.
LEMMA GetContract ==
  ASSUME Inv, NEW k \in Keys, Get(k) \/ Exists(k)
  PROVE  ContractStep
<1>1. CASE Live(kv, k, now)
  <2>1. \A x \in Keys : kv'.store[x] = kv.store[x]
    <3>1. kv' = kv \/ kv' = Touch(kv, k, kv.store[k])
      BY <1>1 DEF Get, GetOp, Exists, ExistsOp
    <3>2. \A x \in Keys : Touch(kv, k, kv.store[k]).store[x] = kv.store[x]
      BY DEF Touch, PushFront, Erase
    <3> QED
      BY <3>1, <3>2
  <2>2. LiveView' = LiveView /\ now' = now
    BY <2>1, ViewOfStore, ViewsEqual DEF Get, Exists
  <2> QED
    BY <2>2 DEF ContractStep, Contract!contractVars
<1>2. CASE ~Live(kv, k, now)
  <2>1. kv' = Erase(kv, {k}) /\ now' = now
    BY <1>2 DEF Get, GetOp, Exists, ExistsOp
  <2>2. LiveView' = [x \in Keys |-> IF x \in {k} THEN Absent ELSE LiveView[x]]
    BY <2>1, ViewOfStore, ViewWithout
  <2>3. LiveView' = LiveView
    BY <1>2, <2>2 DEF LiveView
  <2> QED
    BY <2>1, <2>3 DEF ContractStep, Contract!contractVars
<1> QED
  BY <1>1, <1>2

\* What is erased because it is due.
LEMMA CollectContract ==
  ASSUME NEW K, kv'.store = Erase(kv, K).store, now' = now,
         \A x \in Keys \cap K : kv.store[x] # Absent =>
           kv.store[x].expiry # NoExpiry /\ kv.store[x].expiry <= now
  PROVE  ContractStep
<1> DEFINE lost == {x \in Keys \cap K : LiveView[x] # Absent}
<1>1. LiveView' = [x \in Keys |-> IF x \in K THEN Absent ELSE LiveView[x]]
  <2>1. View(kv', now) = View(Erase(kv, K), now)
    BY ViewsEqual
  <2> QED
    BY <2>1, ViewOfStore, ViewWithout
<1>2. LiveView' = [x \in Keys |-> IF x \in lost THEN Absent ELSE LiveView[x]]
  BY <1>1
<1>3. lost \in SUBSET Contract!DueKeys
  BY DEF Contract!DueKeys, Contract!NoExpiry, NoExpiry, LiveView, Live
<1> HIDE DEF lost
<1>4. Contract!Collect
  BY <1>2, <1>3 DEF Contract!Collect, Contract!Without
<1> QED
  BY <1>4 DEF ContractStep, Contract!ContractNext

LEMMA TtlContract ==
  ASSUME Inv, NEW k \in Keys, Ttl(k)
  PROVE  ContractStep
<1>1. CASE OutOfTime(kv, k, now)
  <2>1. kv.store[k].expiry \in Int /\ now \in Int
    BY <1>1, NodeOfKey DEF OutOfTime, Present, Inv, Node
  <2>2. kv.store[k].expiry # NoExpiry /\ kv.store[k].expiry <= now
    BY <1>1, <2>1 DEF OutOfTime
  <2>3. kv'.store = Erase(kv, {k}).store /\ now' = now
    BY <1>1 DEF Ttl, TtlOp
  <2> QED
    BY <2>2, <2>3, CollectContract
<1>2. CASE ~OutOfTime(kv, k, now)
  <2>1. kv' = kv /\ now' = now
    BY <1>2 DEF Ttl, TtlOp
  <2>2. LiveView' = LiveView
    BY <2>1 DEF LiveView
  <2> QED
    BY <2>1, <2>2 DEF ContractStep, Contract!contractVars
<1> QED
  BY <1>1, <1>2

LEMMA CleanContract ==
  ASSUME Inv, HeapOfDeadlines, CleanExpired
  PROVE  ContractStep
<1> DEFINE due  == {e \in kv.heap : e[1] <= now}
           dead == {k \in Keys : kv.store[k] # Absent /\ <<kv.store[k].expiry, k>> \in due}
<1>1. kv'.store = Erase(kv, dead).store /\ now' = now
  BY DEF CleanExpired, CleanOp, Erase
<1>2. \A x \in Keys \cap dead : kv.store[x].expiry # NoExpiry /\ kv.store[x].expiry <= now
  BY DEF HeapOfDeadlines
<1> HIDE DEF dead
<1> QED
  BY <1>1, <1>2, CollectContract

LEMMA TickContract ==
  ASSUME Inv, Tick
  PROVE  ContractStep
<1>1. now \in Int /\ now' = now + 1 /\ kv' = kv
  BY DEF Inv, Tick
<1>2. ASSUME NEW k \in Keys
      PROVE  LiveView'[k] = Contract!Seen(LiveView[k], now')
  <2>1. kv.store[k] # Absent => kv.store[k].expiry \in Int
    BY NodeOfKey DEF Present, Inv, Node
  <2> QED
    BY <1>1, <2>1 DEF LiveView, Live, Expired, NoExpiry,
                      Contract!Seen, Contract!Expired, Contract!NoExpiry
<1>3. LiveView' = [k \in Keys |-> Contract!Seen(LiveView[k], now')]
  BY <1>2 DEF LiveView
<1>4. Contract!Pass
  BY <1>1, <1>3 DEF Contract!Pass
<1> QED
  BY <1>4 DEF ContractStep, Contract!ContractNext

\* A live entry that a SET of another key leaves in memory is left as it is.
LEMMA RoomKeeps ==
  ASSUME NEW s, InOrder(s), NEW t \in Int, NEW x \in Keys
  PROVE  MakeRoom(s, t).store[x] \in {Absent, s.store[x]}
<1>1. DropExpiredTail(s, t).store[x] \in {Absent, s.store[x]}
  BY EraseStore DEF DropExpiredTail
<1>2. EvictLru(DropExpiredTail(s, t)).store[x] \in {Absent, DropExpiredTail(s, t).store[x]}
  BY EraseStore DEF EvictLru
<1> QED
  BY <1>1, <1>2 DEF MakeRoom

LEMMA SetContract ==
  ASSUME Inv, NEW k \in Keys, NEW v \in SetValues, NEW ttl \in Ttls, Set(k, v, ttl)
  PROVE  ContractStep
<1> DEFINE n == [value |-> v, expiry |-> Deadline(ttl, now)]
           room == MakeRoom(kv, now)
           oldest == Back(DropExpiredTail(kv, now))
           lost == {x \in Keys \ {k} : LiveView[x] # Absent /\ LiveView'[x] = Absent}
<1>1. InOrder(kv) /\ now \in Int /\ now' = now /\ v \in Value /\ ttl \in Ints
  BY InputAssumption DEF Inv, Set
<1>2. \A x \in Keys : kv'.store[x] = IF x = k THEN n
                                     ELSE IF kv.store[k] # Absent THEN kv.store[x]
                                     ELSE room.store[x]
  BY <1>1, SetStore DEF Set
<1>3. n \in Node /\ n # Absent
  <2>1. ttl \in Int
    BY <1>1, IntAssumption DEF Ints, IntMin
  <2>2. Deadline(ttl, now) \in Int
    BY <1>1, <2>1, DeadlineType
  <2> QED
    BY <1>1, <2>2, AbsentAssumption DEF Node
<1>4. \A x \in Keys : /\ LiveView[x] = IF Live(kv, x, now) THEN kv.store[x] ELSE Absent
                      /\ LiveView'[x] = IF Live(kv', x, now) THEN kv'.store[x] ELSE Absent
  BY <1>1 DEF LiveView
<1> HIDE DEF n, room, oldest
<1>5. ASSUME NEW x \in Keys \ {k}
      PROVE  /\ LiveView'[x] \in {Absent, LiveView[x]}
             /\ LiveView[x] # Absent /\ LiveView'[x] = Absent
                  => kv.store[k] = Absent /\ x = oldest
  <2>1. kv'.store[x] \in {Absent, kv.store[x]}
    BY <1>1, <1>2, RoomKeeps DEF room
  <2>2. LiveView'[x] \in {Absent, LiveView[x]}
    BY <1>4, <2>1 DEF Live
  <2>3. ASSUME LiveView[x] # Absent, LiveView'[x] = Absent
        PROVE  kv.store[k] = Absent /\ x = oldest
    <3>1. Live(kv, x, now)
      BY <1>4, <2>3
    <3>2. kv'.store[x] = Absent
      BY <1>4, <2>1, <2>3, <3>1 DEF Live
    <3>3. kv.store[k] = Absent /\ room.store[x] = Absent
      BY <1>2, <3>1, <3>2 DEF Live
    <3> QED
      BY <1>1, <3>1, <3>3, RoomCosts DEF room, oldest
  <2> QED
    BY <2>2, <2>3
<1>6. lost \in SUBSET {oldest} /\ (LiveView[k] # Absent => lost = {})
  <2>1. LiveView[k] # Absent => kv.store[k] # Absent
    BY <1>4 DEF Live
  <2> QED
    BY <1>5, <2>1
<1>7. Cardinality(lost) <= 1
  <2>1. IsFiniteSet({oldest}) /\ Cardinality({oldest}) = 1
    BY FS_Singleton
  <2> HIDE DEF lost
  <2> QED
    BY <1>6, <2>1, FS_Subset
<1>8. \A other \in Keys \ {k} : LiveView'[other] = Contract!Without(lost)[other]
  BY <1>5 DEF Contract!Without
<1>9. LiveView'[k] = Contract!Seen([value |-> v, expiry |-> Contract!Deadline(ttl, now)], now)
  <2>1. kv'.store[k] = n
    BY <1>2
  <2>2. LiveView'[k] = IF ~Expired(n, now) THEN n ELSE Absent
    BY <1>3, <1>4, <2>1 DEF Live
  <2>3. Contract!Deadline(ttl, now) = Deadline(ttl, now)
    BY DEF Contract!Deadline, Deadline, Contract!Wrap, Wrap, Contract!IntMin, IntMin,
           Contract!NoTtl, NoTtl, Contract!NoExpiry, NoExpiry
  <2> QED
    BY <1>3, <2>2, <2>3 DEF Contract!Seen, Contract!Expired, Expired,
                            Contract!NoExpiry, NoExpiry, n
<1>10. lost \in SUBSET (Keys \ {k})
  OBVIOUS
<1>11. v \in Contract!Value /\ ttl \in Contract!Ints
  BY <1>1 DEF Contract!Value, Value, Contract!Ints, Ints, Contract!IntMin, IntMin
<1>12. LiveView[k] # Absent => lost = {}
  BY <1>6
<1> HIDE DEF lost
<1>13. \E gone \in SUBSET (Keys \ {k}) :
          /\ Cardinality(gone) <= 1
          /\ LiveView[k] # Absent => gone = {}
          /\ \A other \in Keys \ {k} : LiveView'[other] = Contract!Without(gone)[other]
  BY <1>7, <1>8, <1>10, <1>12
<1>14. \E u \in Contract!Value, e \in Contract!Ints :
          LiveView'[k] = Contract!Seen([value |-> u, expiry |-> Contract!Deadline(e, now)], now)
  BY <1>9, <1>11
<1>15. Contract!Store(k)
  BY <1>1, <1>13, <1>14 DEF Contract!Store, Contract!Cardinality, Cardinality
<1> QED
  BY <1>15 DEF ContractStep, Contract!ContractNext

LEMMA AddContract ==
  ASSUME Inv, NEW k \in Keys, NEW d \in {1, -1}, Add(k, d)
  PROVE  ContractStep
<1> DEFINE n == kv.store[k]
<1>1. InOrder(kv) /\ now \in Int /\ now' = now
  BY DEF Inv, Add
<1>2. CASE ~Live(kv, k, now)
  <2> DEFINE m == [value |-> d, expiry |-> NoExpiry]
  <2>1. m # Absent
    BY IntAssumption, AbsentAssumption DEF Node, Value, Ints, IntMin, NoExpiry
  <2>2. \A x \in Keys : kv'.store[x] = IF x = k THEN m ELSE kv.store[x]
    <3>1. kv' = Touch(kv, k, m)
      BY <1>2 DEF Add, AddOp
    <3> HIDE DEF m
    <3>2. \A x \in Keys : Touch(kv, k, m).store[x] = IF x = k THEN m ELSE kv.store[x]
      BY DEF Touch, PushFront, Erase
    <3> QED
      BY <3>1, <3>2
  <2>3. LiveView[k] = Absent
    BY <1>2 DEF LiveView
  <2>4. LiveView' = [LiveView EXCEPT ![k] = m]
    <3>1. m.expiry = NoExpiry
      OBVIOUS
    <3> HIDE DEF m
    <3> QED
      BY <1>1, <2>1, <2>2, <3>1 DEF LiveView, Live, Expired
  <2>5. Contract!Count(k, d)
    BY <1>1, <2>3, <2>4 DEF Contract!Count, Contract!NoExpiry, NoExpiry
  <2> QED
    BY <2>5 DEF ContractStep, Contract!ContractNext
<1>3. CASE Live(kv, k, now) /\ n.value \in Words
  <2>1. LiveView' = LiveView
    BY <1>1, <1>3 DEF Add, AddOp, LiveView
  <2> QED
    BY <1>1, <2>1 DEF ContractStep, Contract!contractVars
<1>4. CASE Live(kv, k, now) /\ n.value \notin Words
  <2> DEFINE m == CountedNode(kv, k, d)
  <2>1. m \in Node /\ m # Absent /\ m.expiry = n.expiry
    BY <1>1, <1>4, CountedNodeType, AbsentAssumption
  <2>2. m = [n EXCEPT !.value = Wrap(n.value + d)]
    BY DEF CountedNode
  <2>3. \A x \in Keys : kv'.store[x] = IF x = k THEN m ELSE kv.store[x]
    <3>1. kv' = Touch(kv, k, m)
      BY <1>4 DEF Add, AddOp, CountedNode
    <3> HIDE DEF m
    <3>2. \A x \in Keys : Touch(kv, k, m).store[x] = IF x = k THEN m ELSE kv.store[x]
      BY DEF Touch, PushFront, Erase
    <3> QED
      BY <3>1, <3>2
  <2>4. LiveView[k] = n /\ n # Absent
    BY <1>4 DEF LiveView, Live
  <2>5. LiveView' = [LiveView EXCEPT ![k] = m]
    <3> HIDE DEF m
    <3> QED
      BY <1>1, <1>4, <2>1, <2>3 DEF LiveView, Live, Expired
  <2>6. LiveView' = [LiveView EXCEPT ![k].value = Contract!Wrap(@ + d)]
    BY <2>2, <2>4, <2>5 DEF Contract!Wrap, Wrap, Contract!IntMin, IntMin
  <2>7. Contract!Count(k, d)
    BY <1>1, <1>4, <2>4, <2>6 DEF Contract!Count
  <2> QED
    BY <2>7 DEF ContractStep, Contract!ContractNext
<1> QED
  BY <1>2, <1>3, <1>4

\* The store is a map with expiry in which storing a new key may cost one
\* other entry: list, heap, cleaner and the entries that have expired but are
\* still in memory cannot be observed (KVStore.cpp, all methods).
THEOREM StoreImplementsMap == Spec => ImplementsMap
<1>1. ASSUME Inv, HeapOfDeadlines, [Next]_vars
      PROVE  ContractStep
  <2>1. CASE UNCHANGED vars
    BY <2>1 DEF vars, LiveView, ContractStep, Contract!contractVars
  <2> QED
    BY <1>1, <2>1, SetContract, GetContract, DelContract, TtlContract, AddContract,
       CleanContract, TickContract, InputAssumption DEF Next, Incr, Decr
<1>2. Inv /\ HeapOfDeadlines /\ [Next]_vars
        => [Contract!ContractNext]_(Contract!contractVars)
  BY <1>1 DEF ContractStep
<1>3. HeapOfDeadlines /\ [Next]_vars => HeapOfDeadlines'
  BY NextHeapOfDeadlines
<1>4. Init => HeapOfDeadlines
  BY DEF Init, EmptyStore, HeapOfDeadlines
<1> QED
  BY <1>2, <1>3, <1>4, InitContract, Invariance, PTL
     DEF Spec, ImplementsMap, Contract!ContractSpec
-----------------------------------------------------------------------------
(***************************************************************************)
(* The connections.                                                        *)
(***************************************************************************)

Serving == {c \in Conns : Running(c)}

\* The types, without the bound on the counter that its meaning implies.
ConnTyped ==
  /\ peer \in [Conns -> {"new", "dialled", "up", "gone"}]
  /\ owner \in [Fds -> Conns \cup {Free}]
  /\ accepted \in Conns \cup {Free}
  /\ thread \in [Conns -> {"none", "run", "leaving", "over"}]
  /\ fd \in [Conns -> Fds \cup {0}]
  /\ slaves \in Seq(Fds)
  /\ named \subseteq Conns /\ strays \subseteq Conns /\ victims \subseteq Conns

\* How far a connection has come: one that has not been accepted has no
\* thread, and one that has been keeps the number it was given.
Stages ==
  /\ \A c \in Conns : peer[c] \in {"new", "dialled"} => thread[c] = "none"
  /\ accepted # Free =>
       /\ thread[accepted] = "none"
       /\ peer[accepted] \in {"up", "gone"}
  /\ \A c \in Conns : thread[c] \in {"run", "leaving"} \/ c = accepted => fd[c] \in Fds

\* While every slave is there, every thread owns its number ...
SlavesStay == \A c \in SlavePeers : peer[c] # "gone"

OwnNumbers ==
  \A c \in Conns : thread[c] \in {"run", "leaving"} \/ c = accepted => owner[fd[c]] = c

\* ... and the vector holds the numbers of slaves that are being served.
VectorOfSlaves ==
  \A f \in Range(slaves) :
    owner[f] \in SlavePeers /\ peer[owner[f]] = "up" /\ thread[owner[f]] = "run"

Sound == OwnNumbers /\ VectorOfSlaves /\ strays = {} /\ victims = {}

ConnInv == ConnTyped /\ Stages /\ WithinLimit /\ (SlavesStay => Sound)
-----------------------------------------------------------------------------
LEMMA ConnInitInv == ConnInit => ConnInv
<1> SUFFICES ASSUME ConnInit PROVE ConnInv
  OBVIOUS
<1>1. ConnTyped /\ Stages
  BY PeersAssumption DEF ConnInit, ConnTyped, Stages
<1>2. WithinLimit
  <2>1. {c \in Conns : Running(c)} = {}
    BY DEF ConnInit, Running
  <2> QED
    BY <2>1, FS_EmptySet, LimitAssumption DEF ConnInit, WithinLimit
<1>3. Sound
  <2>1. Range(slaves) = {}
    BY DEF ConnInit, Range
  <2> QED
    BY <2>1, PeersAssumption DEF ConnInit, Sound, OwnNumbers, VectorOfSlaves
<1> QED
  BY <1>1, <1>2, <1>3 DEF ConnInv

LEMMA ConnNextTyped == ConnInv /\ [ConnNext]_connVars => ConnTyped'
<1> SUFFICES ASSUME ConnTyped, Stages, [ConnNext]_connVars
             PROVE  ConnTyped'
  BY DEF ConnInv
<1> USE DEF ConnTyped
<1>1. ASSUME NEW c \in Conns, Dial(c) \/ Hangup(c) \/ Accept(c) \/ Leave(c)
      PROVE  ConnTyped'
  BY <1>1 DEF Dial, Hangup, Accept, Leave, FreeFds
<1>2. ASSUME NEW c \in Conns, Handshake(c)
      PROVE  ConnTyped'
  BY <1>2 DEF Handshake, Stages, Running
<1>3. ASSUME NEW c \in Conns, Forward(c)
      PROVE  ConnTyped'
  <2>1. slaves' \in Seq(Fds)
    BY <1>3, SublistSeq DEF Forward
  <2>2. owner' \in [Fds -> Conns \cup {Free}]
    BY <1>3 DEF Forward
  <2>3. strays' \subseteq Conns
    BY <1>3 DEF Forward, Conns
  <2> QED
    BY <1>3, <2>1, <2>2, <2>3 DEF Forward
<1>4. ASSUME NEW c \in Conns, Close(c)
      PROVE  ConnTyped'
  <2>1. fd[c] \in Fds
    BY <1>4 DEF Close, Stages
  <2> QED
    BY <1>4, <2>1 DEF Close
<1>5. CASE Refuse \/ Admit
  BY <1>5 DEF Refuse, Admit, Stages
<1>6. CASE UNCHANGED connVars
  BY <1>6 DEF connVars
<1> QED
  BY <1>1, <1>2, <1>3, <1>4, <1>5, <1>6 DEF ConnNext

LEMMA ConnNextStages == ConnInv /\ [ConnNext]_connVars => Stages'
<1> SUFFICES ASSUME ConnTyped, Stages, [ConnNext]_connVars
             PROVE  Stages'
  BY DEF ConnInv
<1> USE PeersAssumption DEF ConnTyped, Stages
<1>1. ASSUME NEW c \in Conns, Dial(c) \/ Hangup(c)
      PROVE  Stages'
  BY <1>1 DEF Dial, Hangup
<1>2. ASSUME NEW c \in Conns, Accept(c)
      PROVE  Stages'
  BY <1>2 DEF Accept, FreeFds
<1>3. ASSUME NEW c \in Conns, Handshake(c) \/ Forward(c)
      PROVE  Stages'
  BY <1>3 DEF Handshake, Forward
<1>4. ASSUME NEW c \in Conns, Leave(c) \/ Close(c)
      PROVE  Stages'
  BY <1>4 DEF Leave, Close, Running
<1>5. CASE Refuse \/ Admit
  BY <1>5 DEF Refuse, Admit
<1>6. CASE UNCHANGED connVars
  BY <1>6 DEF connVars
<1> QED
  BY <1>1, <1>2, <1>3, <1>4, <1>5, <1>6 DEF ConnNext

\* The counter moves with the set of running threads.
LEMMA ConnNextWithinLimit == ConnInv /\ [ConnNext]_connVars => WithinLimit'
<1> SUFFICES ASSUME ConnTyped, Stages, WithinLimit, [ConnNext]_connVars
             PROVE  WithinLimit'
  BY DEF ConnInv
<1>1. IsFiniteSet(Serving) /\ Cardinality(Serving) \in Nat
  <2>1. Serving \in SUBSET Conns
    BY DEF Serving
  <2> QED
    BY <2>1, FdsAssumption, FS_Subset, FS_CardinalityType
<1>2. count = Cardinality(Serving) /\ count <= MaxClients
  BY DEF WithinLimit, Serving
<1>3. ASSUME Serving' = Serving, count' = count
      PROVE  WithinLimit'
  BY <1>2, <1>3 DEF WithinLimit, Serving
<1>4. ASSUME NEW c \in Conns,
             \/ Dial(c) \/ Hangup(c) \/ Accept(c) \/ Handshake(c)
             \/ Forward(c) \/ Close(c)
      PROVE  WithinLimit'
  <2>1. count' = count /\ \A d \in Conns : thread'[d] = "run" <=> thread[d] = "run"
    BY <1>4 DEF ConnTyped, Dial, Hangup, Accept, Handshake, Forward, Close
  <2> QED
    BY <1>3, <2>1 DEF Serving, Running
<1>5. ASSUME NEW c \in Conns, Leave(c)
      PROVE  WithinLimit'
  <2>1. Serving' = Serving \ {c} /\ c \in Serving
    BY <1>5 DEF Serving, Running, Leave, ConnTyped
  <2>2. Cardinality(Serving') = Cardinality(Serving) - 1
    BY <1>1, <2>1, FS_RemoveElement
  <2>3. count' = count - 1
    BY <1>5 DEF Leave
  <2>4. count' = Cardinality(Serving') /\ count' <= MaxClients
    BY <1>1, <1>2, <2>2, <2>3, LimitAssumption
  <2> QED
    BY <2>4 DEF WithinLimit, Serving
<1>6. CASE Refuse
  <2>1. Serving' = Serving
    BY <1>6 DEF Serving, Running, Refuse, ConnTyped, Stages
  <2> QED
    BY <1>3, <1>6, <2>1 DEF Refuse
<1>7. CASE Admit
  <2>1. Serving' = Serving \cup {accepted} /\ accepted \notin Serving
    BY <1>7 DEF Serving, Running, Admit, ConnTyped, Stages
  <2>2. Cardinality(Serving') = Cardinality(Serving) + 1
    BY <1>1, <2>1, FS_AddElement
  <2>3. count' = count + 1 /\ count < MaxClients
    BY <1>7 DEF Admit
  <2>4. count' = Cardinality(Serving') /\ count' <= MaxClients
    BY <1>1, <1>2, <2>2, <2>3, LimitAssumption
  <2> QED
    BY <2>4 DEF WithinLimit, Serving
<1>8. CASE UNCHANGED connVars
  BY <1>3, <1>8 DEF connVars, Serving, Running
<1> QED
  BY <1>4, <1>5, <1>6, <1>7, <1>8 DEF ConnNext
-----------------------------------------------------------------------------
LEMMA ConnNextSound == ConnInv /\ [ConnNext]_connVars => (SlavesStay' => Sound')
<1> SUFFICES ASSUME ConnTyped, Stages, SlavesStay => Sound, [ConnNext]_connVars, SlavesStay'
             PROVE  Sound'
  BY DEF ConnInv
<1>1. SlavesStay
  <2>1. ASSUME NEW c \in SlavePeers, peer[c] = "gone"
        PROVE  peer'[c] = "gone"
    BY <2>1 DEF ConnTyped, Stages, Conns, ConnNext, connVars, Dial, Hangup, Accept, Handshake,
                Forward, Leave, Close, Refuse, Admit
  <2> QED
    BY <2>1 DEF SlavesStay
<1>2. Sound
  BY <1>1
<1>3. \A c \in Conns : thread[c] \in {"run", "leaving"} \/ c = accepted
                         => owner[fd[c]] = c /\ fd[c] \in Fds
  BY <1>2 DEF Sound, OwnNumbers, Stages
<1>4. \A f \in Range(slaves) : /\ f \in Fds
                               /\ owner[f] \in SlavePeers
                               /\ peer[owner[f]] = "up"
                               /\ thread[owner[f]] = "run"
  BY <1>2 DEF Sound, VectorOfSlaves, ConnTyped, Range
<1>5. strays = {} /\ victims = {}
  BY <1>2 DEF Sound
<1> USE PeersAssumption DEF ConnTyped, Conns
<1>6. ASSUME NEW c \in Conns, Dial(c) \/ Hangup(c)
      PROVE  Sound'
  <2>1. OwnNumbers'
    BY <1>3, <1>6 DEF Dial, Hangup, OwnNumbers
  <2>2. VectorOfSlaves'
    BY <1>4, <1>6 DEF Dial, Hangup, VectorOfSlaves, SlavesStay
  <2> QED
    BY <1>5, <1>6, <2>1, <2>2 DEF Dial, Hangup, Sound
<1>7. ASSUME NEW c \in Conns, Accept(c)
      PROVE  Sound'
  <2>1. PICK f \in Fds : /\ owner[f] = Free
                         /\ owner' = [owner EXCEPT ![f] = c]
                         /\ fd' = [fd EXCEPT ![c] = f]
    BY <1>7 DEF Accept, FreeFds
  <2>2. OwnNumbers'
    BY <1>3, <1>7, <2>1 DEF Accept, OwnNumbers, Stages
  <2>3. VectorOfSlaves'
    BY <1>4, <1>7, <2>1 DEF Accept, VectorOfSlaves
  <2> QED
    BY <1>5, <1>7, <2>2, <2>3 DEF Accept, Sound
<1>8. ASSUME NEW c \in Conns, Handshake(c)
      PROVE  Sound'
  <2>1. OwnNumbers'
    BY <1>3, <1>8 DEF Handshake, OwnNumbers
  <2>2. Range(slaves') \subseteq Range(slaves) \cup (IF c \in SlavePeers THEN {fd[c]} ELSE {})
    BY <1>3, <1>8, RangeAppend DEF Handshake, Running
  <2>3. VectorOfSlaves'
    BY <1>4, <1>8, <2>2 DEF Handshake, VectorOfSlaves, Running
  <2> QED
    BY <1>5, <1>8, <2>1, <2>3 DEF Handshake, Sound
<1>9. ASSUME NEW c \in Conns, Forward(c)
      PROVE  Sound'
  <2>1. {f \in Range(slaves) : ~Up(f)} = {}
    BY <1>4 DEF Up
  <2>2. owner' = owner /\ slaves' = slaves
    <3>1. owner' = [f \in Fds |-> owner[f]] /\ slaves' = Sublist(slaves, Fds)
      BY <1>9, <2>1 DEF Forward
    <3>2. Range(slaves) \subseteq Fds
      BY <1>4
    <3>3. Sublist(slaves, Fds) = slaves
      BY <3>2, SublistWhole
    <3> QED
      BY <3>1, <3>3
  <2>3. strays' = {}
    BY <1>4, <1>5, <1>9 DEF Forward
  <2>4. OwnNumbers' /\ VectorOfSlaves'
    BY <1>3, <1>4, <1>9, <2>2 DEF Forward, OwnNumbers, VectorOfSlaves
  <2> QED
    BY <1>5, <1>9, <2>3, <2>4 DEF Forward, Sound
<1>10. ASSUME NEW c \in Conns, Leave(c)
       PROVE  Sound'
  <2>1. c \notin SlavePeers
    BY <1>1, <1>3, <1>10 DEF Leave, Running, SlavesStay
  <2>2. OwnNumbers'
    BY <1>3, <1>10 DEF Leave, Running, OwnNumbers
  <2>3. VectorOfSlaves'
    BY <1>4, <1>10, <2>1 DEF Leave, VectorOfSlaves
  <2> QED
    BY <1>5, <1>10, <2>2, <2>3 DEF Leave, Sound
<1>11. ASSUME NEW c \in Conns, Close(c)
       PROVE  Sound'
  <2>1. owner[fd[c]] = c /\ fd[c] \in Fds /\ thread[c] = "leaving"
    BY <1>3, <1>11 DEF Close
  <2>2. OwnNumbers'
    BY <1>3, <1>11, <2>1 DEF Close, OwnNumbers, Stages
  <2>3. VectorOfSlaves'
    BY <1>4, <1>11, <2>1 DEF Close, VectorOfSlaves
  <2> QED
    BY <1>5, <1>11, <2>1, <2>2, <2>3 DEF Close, Sound
<1>12. CASE Refuse
  <2>1. accepted \in Conns /\ owner[fd[accepted]] = accepted /\ thread[accepted] = "none"
    BY <1>3, <1>12 DEF Refuse, Stages
  <2>2. OwnNumbers'
    BY <1>3, <1>12, <2>1 DEF Refuse, OwnNumbers
  <2>3. VectorOfSlaves'
    BY <1>4, <1>12, <2>1 DEF Refuse, VectorOfSlaves
  <2> QED
    BY <1>5, <1>12, <2>2, <2>3 DEF Refuse, Sound
<1>13. CASE Admit
  <2>1. accepted \in Conns /\ thread[accepted] = "none"
    BY <1>13 DEF Admit, Stages
  <2>2. OwnNumbers'
    BY <1>3, <1>13, <2>1 DEF Admit, OwnNumbers
  <2>3. VectorOfSlaves'
    BY <1>4, <1>13, <2>1 DEF Admit, VectorOfSlaves
  <2> QED
    BY <1>5, <1>13, <2>2, <2>3 DEF Admit, Sound
<1>14. CASE UNCHANGED connVars
  BY <1>3, <1>4, <1>5, <1>14 DEF connVars, Sound, OwnNumbers, VectorOfSlaves
<1> QED
  BY <1>6, <1>7, <1>8, <1>9, <1>10, <1>11, <1>12, <1>13, <1>14 DEF ConnNext

LEMMA ConnNextInv == ConnInv /\ [ConnNext]_connVars => ConnInv'
BY ConnNextTyped, ConnNextStages, ConnNextWithinLimit, ConnNextSound DEF ConnInv

\* The counter, the numbers and the vector stay as described above (Server.cpp,
\* the accept loop and handleClient).
THEOREM ConnInvariance == ConnSpec => []ConnInv
BY ConnInitInv, ConnNextInv, PTL DEF ConnSpec

\* Every reachable state is well typed; in particular no order of accepting,
\* leaving and refusing makes the counter negative (Server.cpp, current_clients).
THEOREM ConnTypeCorrect == ConnSpec => []ConnTypeOK
<1>1. ConnInv => ConnTypeOK
  <2> SUFFICES ASSUME ConnInv PROVE ConnTypeOK
    OBVIOUS
  <2>1. Serving \in SUBSET Conns
    BY DEF Serving
  <2>2. /\ Cardinality(Serving) \in Nat
        /\ Cardinality(Conns) \in Nat
        /\ Cardinality(Serving) <= Cardinality(Conns)
    BY <2>1, FdsAssumption, FS_Subset, FS_CardinalityType
  <2>3. count = Cardinality(Serving)
    BY DEF ConnInv, WithinLimit, Serving
  <2> QED
    BY <2>2, <2>3 DEF ConnInv, ConnTyped, ConnTypeOK
<1> QED
  BY <1>1, ConnInvariance, PTL

\* The counter that the accept loop compares with MAX_CLIENTS is the number of
\* threads that serve a connection, and never exceeds the limit.
THEOREM LimitKept == ConnSpec => []WithinLimit
<1>1. ConnInv => WithinLimit
  BY DEF ConnInv
<1> QED
  BY <1>1, ConnInvariance, PTL

\* Until a slave is lost, a forwarded command reaches slaves only and no
\* thread closes a number that is another connection's.
THEOREM NumbersKept == ConnSpec => []SoundWhileSlavesStay
<1>1. ConnInv => SoundWhileSlavesStay
  BY DEF ConnInv, Sound, SlavesStay, SoundWhileSlavesStay
<1> QED
  BY <1>1, ConnInvariance, PTL
=============================================================================
