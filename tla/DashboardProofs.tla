--------------------------- MODULE DashboardProofs ---------------------------
(***************************************************************************)
(* What holds of the dashboard whatever the keys, the tabs, the commands   *)
(* and the bounds: of the key explorer (KeyExplorer), of the tabs and what *)
(* the bridge pushes to them (Tabs), and of one tab and its end of the     *)
(* WebSocket (TabLoop).  The three specifications share no name, and each  *)
(* part below has its own invariant.                                       *)
(***************************************************************************)
EXTENDS KeyExplorer, Tabs, TabLoop, SublistsProofs, WellFoundedInduction

(***************************************************************************)
(* Induction.  The library's induction theorems take a predicate as a      *)
(* parameter; well-foundedness of < is first-order, and gives induction in *)
(* terms of sets.                                                          *)
(***************************************************************************)
LEMMA LeastNatural ==
  ASSUME NEW T, T \subseteq Nat, T # {}
  PROVE  \E n \in T : \A m \in T : n <= m
<1> DEFINE R == {ss \in Nat \X Nat : ss[1] < ss[2]}
<1>1. IsWellFoundedOn(R, Nat)
  BY NatLessThanWellFounded, Zenon DEF OpToRel
<1> HIDE DEF R
<1>2. PICK n \in T : \A m \in T : <<m, n>> \notin R
  BY <1>1, WFMin
<1>3. \A m \in T : ~(m < n)
  BY <1>2 DEF R
<1> QED
  BY <1>3

LEMMA NatSetInduction ==
  ASSUME NEW S, 0 \in S, \A n \in Nat : n \in S => n + 1 \in S
  PROVE  Nat \subseteq S
<1> SUFFICES ASSUME Nat \ S # {} PROVE FALSE
  OBVIOUS
<1>1. PICK n \in Nat \ S : \A m \in Nat \ S : n <= m
  BY LeastNatural
<1>2. n - 1 \in Nat
  BY <1>1
<1> QED
  BY <1>1, <1>2
-----------------------------------------------------------------------------
(***************************************************************************)
(* Sequences.                                                              *)
(***************************************************************************)
LEMMA SeqMonotone ==
  ASSUME NEW S, NEW T, S \subseteq T
  PROVE  Seq(S) \subseteq Seq(T)
OBVIOUS

\* Concatenation.
LEMMA Joined ==
  ASSUME NEW S, NEW s \in Seq(S), NEW t \in Seq(S)
  PROVE  /\ s \o t \in Seq(S)
         /\ Len(s \o t) = Len(s) + Len(t)
         /\ \A i \in 1 .. Len(s) : (s \o t)[i] = s[i]
         /\ \A i \in 1 .. Len(t) : (s \o t)[Len(s) + i] = t[i]
         /\ Range(s \o t) = Range(s) \cup Range(t)
<1> DEFINE m == s \o t
<1>1. /\ m \in Seq(S) /\ Len(m) = Len(s) + Len(t)
      /\ \A i \in 1 .. Len(s) : m[i] = s[i]
      /\ \A i \in 1 .. Len(t) : m[Len(s) + i] = t[i]
      /\ DOMAIN m = 1 .. Len(s) + Len(t)
      /\ DOMAIN s = 1 .. Len(s) /\ DOMAIN t = 1 .. Len(t)
      /\ Len(s) \in Nat /\ Len(t) \in Nat
  OBVIOUS
<1> HIDE DEF m
<1>2. Range(m) \subseteq Range(s) \cup Range(t)
  <2> SUFFICES ASSUME NEW i \in 1 .. Len(s) + Len(t)
               PROVE  m[i] \in Range(s) \cup Range(t)
    BY <1>1 DEF Range
  <2>1. CASE i \in 1 .. Len(s)
    BY <1>1, <2>1 DEF Range
  <2>2. CASE i \notin 1 .. Len(s)
    <3>1. i - Len(s) \in 1 .. Len(t) /\ Len(s) + (i - Len(s)) = i
      BY <1>1, <2>2
    <3>2. m[i] = t[i - Len(s)]
      BY <1>1, <3>1
    <3> QED
      BY <1>1, <3>1, <3>2 DEF Range
  <2> QED
    BY <2>1, <2>2
<1>3. Range(s) \cup Range(t) \subseteq Range(m)
  <2>1. \A i \in 1 .. Len(s) : i \in 1 .. Len(s) + Len(t)
    BY <1>1
  <2>2. \A i \in 1 .. Len(t) : Len(s) + i \in 1 .. Len(s) + Len(t)
    BY <1>1
  <2> QED
    BY <1>1, <2>1, <2>2 DEF Range
<1>4. Range(m) = Range(s) \cup Range(t)
  BY <1>2, <1>3
<1> QED
  BY <1>1, <1>4 DEF m

LEMMA JoinedThrice ==
  ASSUME NEW S, NEW s \in Seq(S), NEW t \in Seq(S), NEW u \in Seq(S)
  PROVE  /\ s \o t \o u \in Seq(S)
         /\ Range(s \o t \o u) = Range(s) \cup Range(t) \cup Range(u)
<1> DEFINE a == s \o t
<1>1. a \in Seq(S) /\ Range(a) = Range(s) \cup Range(t)
  BY Joined
<1> HIDE DEF a
<1>2. a \o u \in Seq(S) /\ Range(a \o u) = Range(a) \cup Range(u)
  BY <1>1, Joined
<1> QED
  BY <1>1, <1>2 DEF a

\* Taking the first member off a list.
LEMMA HeadAndTail ==
  ASSUME NEW S, NEW s \in Seq(S), s # <<>>
  PROVE  /\ Head(s) \in S /\ Tail(s) \in Seq(S)
         /\ Len(Tail(s)) = Len(s) - 1
         /\ \A i \in 1 .. Len(s) - 1 : Tail(s)[i] = s[i + 1]
         /\ Head(s) = s[1]
         /\ Range(s) = {Head(s)} \cup Range(Tail(s))
<1> DEFINE t == Tail(s)
<1>1. /\ Head(s) \in S /\ t \in Seq(S)
      /\ Len(t) = Len(s) - 1 /\ Len(s) \in Nat \ {0}
      /\ \A i \in 1 .. Len(s) - 1 : t[i] = s[i + 1]
      /\ Head(s) = s[1]
      /\ DOMAIN t = 1 .. Len(s) - 1 /\ DOMAIN s = 1 .. Len(s)
  OBVIOUS
<1> HIDE DEF t
<1>2. \A i \in 1 .. Len(s) : i = 1 \/ (i - 1 \in 1 .. Len(s) - 1 /\ (i - 1) + 1 = i)
  BY <1>1
<1>3. \A i \in 1 .. Len(s) - 1 : i + 1 \in 1 .. Len(s)
  BY <1>1
<1>4. 1 \in 1 .. Len(s)
  BY <1>1
<1>5. Range(s) \subseteq {Head(s)} \cup Range(t)
  <2> SUFFICES ASSUME NEW i \in 1 .. Len(s)
               PROVE  s[i] \in {Head(s)} \cup Range(t)
    BY <1>1 DEF Range
  <2>1. CASE i = 1
    BY <1>1, <2>1
  <2>2. CASE i - 1 \in 1 .. Len(s) - 1 /\ (i - 1) + 1 = i
    <3>1. s[i] = t[i - 1]
      BY <1>1, <2>2
    <3> QED
      BY <1>1, <2>2, <3>1 DEF Range
  <2> QED
    BY <1>2, <2>1, <2>2
<1>6. {Head(s)} \cup Range(t) \subseteq Range(s)
  BY <1>1, <1>3, <1>4 DEF Range
<1>7. Range(s) = {Head(s)} \cup Range(t)
  BY <1>5, <1>6
<1> QED
  BY <1>1, <1>7 DEF t

\* Splitting a list.
LEMMA Split ==
  ASSUME NEW S, NEW s \in Seq(S), NEW n \in 1 .. Len(s)
  PROVE  /\ SubSeq(s, 1, n) \in Seq(S) /\ Len(SubSeq(s, 1, n)) = n
         /\ \A i \in 1 .. n : SubSeq(s, 1, n)[i] = s[i]
         /\ SubSeq(s, n + 1, Len(s)) \in Seq(S) /\ Len(SubSeq(s, n + 1, Len(s))) = Len(s) - n
         /\ \A i \in 1 .. Len(s) - n : SubSeq(s, n + 1, Len(s))[i] = s[n + i]
OBVIOUS

LEMMA RemoveAtRange ==
  ASSUME NEW S, NEW s \in Seq(S), NEW i \in DOMAIN s
  PROVE  /\ RemoveAt(s, i) \in Seq(S)
         /\ Range(RemoveAt(s, i)) \subseteq Range(s)
         /\ Range(s) \subseteq Range(RemoveAt(s, i)) \cup {s[i]}
<1>1. i \in 1 .. Len(s) /\ Len(s) \in Nat /\ DOMAIN s = 1 .. Len(s)
  OBVIOUS
<1> DEFINE a == SubSeq(s, 1, i - 1)
           b == SubSeq(s, i + 1, Len(s))
<1>2. RemoveAt(s, i) = a \o b
  BY DEF RemoveAt
<1>3. a \in Seq(S) /\ DOMAIN a = 1 .. i - 1 /\ \A j \in 1 .. i - 1 : a[j] = s[j]
  BY <1>1
<1>4. b \in Seq(S) /\ DOMAIN b = 1 .. Len(s) - i /\ \A j \in 1 .. Len(s) - i : b[j] = s[i + j]
  <2>1. b \in Seq(S) /\ Len(b) = Len(s) - i /\ \A j \in 1 .. Len(s) - i : b[j] = s[i + j]
    BY <1>1, Split
  <2> HIDE DEF b
  <2> QED
    BY <2>1
<1> HIDE DEF a, b
<1>5. Range(a) \subseteq Range(s)
  <2>1. \A j \in 1 .. i - 1 : j \in 1 .. Len(s)
    BY <1>1
  <2> QED
    BY <1>1, <1>3, <2>1 DEF Range
<1>6. Range(b) \subseteq Range(s)
  <2>1. \A j \in 1 .. Len(s) - i : i + j \in 1 .. Len(s)
    BY <1>1
  <2> QED
    BY <1>1, <1>4, <2>1 DEF Range
<1>7. a \o b \in Seq(S) /\ Range(a \o b) = Range(a) \cup Range(b)
  BY <1>3, <1>4, Joined
<1>8. Range(s) \subseteq Range(a) \cup Range(b) \cup {s[i]}
  <2> SUFFICES ASSUME NEW j \in 1 .. Len(s), j # i
               PROVE  s[j] \in Range(a) \cup Range(b)
    BY <1>1 DEF Range
  <2>1. CASE j < i
    <3>1. j \in 1 .. i - 1
      BY <1>1, <2>1
    <3> QED
      BY <1>3, <3>1 DEF Range
  <2>2. CASE j > i
    <3>1. j - i \in 1 .. Len(s) - i /\ i + (j - i) = j
      BY <1>1, <2>2
    <3> QED
      BY <1>4, <3>1 DEF Range
  <2> QED
    BY <1>1, <2>1, <2>2
<1> QED
  BY <1>2, <1>5, <1>6, <1>7, <1>8

LEMMA RangeMember ==
  ASSUME NEW S, NEW s \in Seq(S)
  PROVE  /\ Range(s) \subseteq S
         /\ \A i \in 1 .. Len(s) : s[i] \in Range(s)
         /\ \A x \in Range(s) : \E i \in 1 .. Len(s) : x = s[i]
BY DEF Range

\* A list of lists flattened.
Flattens(f, ss, n) ==
  f = [i \in 1 .. n |-> IF i = 1 THEN ss[i] ELSE f[i - 1] \o ss[i]]

LEMMA FlattensExists ==
  ASSUME NEW ss, NEW n \in Nat
  PROVE  \E f : Flattens(f, ss, n)
<1> DEFINE T == {m \in Nat : \E f : Flattens(f, ss, m)}
<1>1. 0 \in T
  <2> DEFINE f == [i \in 1 .. 0 |-> ss[i]]
  <2>1. f = [i \in 1 .. 0 |-> IF i = 1 THEN ss[i] ELSE f[i - 1] \o ss[i]]
    OBVIOUS
  <2> QED
    BY <2>1 DEF Flattens
<1>2. ASSUME NEW m \in Nat, m \in T
      PROVE  m + 1 \in T
  <2>1. PICK f : Flattens(f, ss, m)
    BY <1>2
  <2> DEFINE g == [i \in 1 .. m + 1 |-> IF i = m + 1
                     THEN IF i = 1 THEN ss[i] ELSE f[i - 1] \o ss[i]
                     ELSE f[i]]
  <2>2. ASSUME NEW i \in 1 .. m + 1
        PROVE  g[i] = IF i = 1 THEN ss[i] ELSE g[i - 1] \o ss[i]
    <3>1. CASE i = m + 1
      <4>1. i # 1 => i - 1 \in 1 .. m + 1 /\ i - 1 # m + 1
        BY <3>1
      <4> QED
        BY <3>1, <4>1
    <3>2. CASE i # m + 1
      <4>1. i \in 1 .. m
        BY <3>2
      <4>2. f[i] = IF i = 1 THEN ss[i] ELSE f[i - 1] \o ss[i]
        BY <2>1, <4>1 DEF Flattens
      <4>3. i # 1 => i - 1 \in 1 .. m + 1 /\ i - 1 # m + 1
        BY <4>1
      <4> QED
        BY <3>2, <4>1, <4>2, <4>3
    <3> QED
      BY <3>1, <3>2
  <2>3. g = [i \in 1 .. m + 1 |-> g[i]]
    OBVIOUS
  <2> HIDE DEF g
  <2>4. Flattens(g, ss, m + 1)
    BY <2>2, <2>3 DEF Flattens
  <2> QED
    BY <2>4
<1> HIDE DEF T
<1>3. Nat \subseteq T
  BY <1>1, <1>2, NatSetInduction
<1> QED
  BY <1>3 DEF T

LEMMA FlattenSeqRange ==
  ASSUME NEW S, NEW ss \in Seq(Seq(S))
  PROVE  /\ FlattenSeq(ss) \in Seq(S)
         /\ \A i \in DOMAIN ss : Range(ss[i]) \subseteq Range(FlattenSeq(ss))
<1>1. CASE Len(ss) = 0
  <2>1. ss = <<>> /\ FlattenSeq(ss) = ss
    BY <1>1 DEF FlattenSeq
  <2>2. <<>> \in Seq(S) /\ DOMAIN ss = {}
    BY <2>1
  <2> QED
    BY <2>1, <2>2
<1>2. CASE Len(ss) # 0
  <2>1. Len(ss) \in Nat /\ DOMAIN ss = 1 .. Len(ss) /\ \A i \in 1 .. Len(ss) : ss[i] \in Seq(S)
    OBVIOUS
  <2> DEFINE F == CHOOSE f : Flattens(f, ss, Len(ss))
  <2>2. Flattens(F, ss, Len(ss))
    BY <2>1, FlattensExists
  <2>3. FlattenSeq(ss) = F[Len(ss)]
    BY <1>2 DEF FlattenSeq, Flattens
  <2> HIDE DEF F
  <2>4. \A i \in 1 .. Len(ss) : F[i] = IF i = 1 THEN ss[i] ELSE F[i - 1] \o ss[i]
    BY <2>2 DEF Flattens
  <2> DEFINE T == {m \in Nat : m + 1 <= Len(ss) =>
                     /\ F[m + 1] \in Seq(S)
                     /\ \A i \in 1 .. m + 1 : Range(ss[i]) \subseteq Range(F[m + 1])}
  <2>5. 0 \in T
    <3> SUFFICES ASSUME 1 <= Len(ss)
                 PROVE  F[1] \in Seq(S) /\ \A i \in 1 .. 1 : Range(ss[i]) \subseteq Range(F[1])
      OBVIOUS
    <3>1. F[1] = ss[1]
      BY <2>1, <2>4
    <3> QED
      BY <2>1, <3>1
  <2>6. ASSUME NEW m \in Nat, m \in T
        PROVE  m + 1 \in T
    <3> SUFFICES ASSUME (m + 1) + 1 <= Len(ss)
                 PROVE  /\ F[(m + 1) + 1] \in Seq(S)
                        /\ \A i \in 1 .. (m + 1) + 1 : Range(ss[i]) \subseteq Range(F[(m + 1) + 1])
      OBVIOUS
    <3>1. /\ F[m + 1] \in Seq(S)
          /\ \A i \in 1 .. m + 1 : Range(ss[i]) \subseteq Range(F[m + 1])
      BY <2>1, <2>6
    <3>2. F[(m + 1) + 1] = F[m + 1] \o ss[(m + 1) + 1]
      <4>1. /\ (m + 1) + 1 \in 1 .. Len(ss)
            /\ (m + 1) + 1 # 1
            /\ ((m + 1) + 1) - 1 = m + 1
        BY <2>1
      <4> QED
        BY <2>4, <4>1
    <3>3. ss[(m + 1) + 1] \in Seq(S)
      BY <2>1
    <3> DEFINE a == F[m + 1]
               b == ss[(m + 1) + 1]
    <3>4. a \in Seq(S) /\ b \in Seq(S)
      BY <3>1, <3>3
    <3> HIDE DEF a, b
    <3>5. a \o b \in Seq(S) /\ Range(a \o b) = Range(a) \cup Range(b)
      BY <3>4, Joined
    <3>6. F[(m + 1) + 1] \in Seq(S) /\ Range(F[(m + 1) + 1]) = Range(F[m + 1]) \cup Range(ss[(m + 1) + 1])
      BY <3>2, <3>5 DEF a, b
    <3>7. \A i \in 1 .. (m + 1) + 1 : i \in 1 .. m + 1 \/ i = (m + 1) + 1
      OBVIOUS
    <3> QED
      BY <3>1, <3>6, <3>7
  <2> HIDE DEF T
  <2>7. Nat \subseteq T
    BY <2>5, <2>6, NatSetInduction
  <2>8. Len(ss) - 1 \in Nat /\ (Len(ss) - 1) + 1 = Len(ss)
    BY <1>2, <2>1
  <2>9. Len(ss) - 1 \in T
    BY <2>7, <2>8
  <2>10. /\ F[Len(ss)] \in Seq(S)
         /\ \A i \in 1 .. Len(ss) : Range(ss[i]) \subseteq Range(F[Len(ss)])
    BY <2>1, <2>8, <2>9 DEF T
  <2> QED
    BY <2>1, <2>3, <2>10
<1> QED
  BY <1>1, <1>2
-----------------------------------------------------------------------------
(***************************************************************************)
(* The key explorer (KeyExplorer).                                         *)
(***************************************************************************)
Books == [order : Seq(Keys), expires : [Keys -> Int],
          passed : [Listings -> SUBSET Keys], moved : [Listings -> SUBSET Keys]]

\* A map's fields.
Expiry(b, k) == b.expires[k]
Passed(b, l) == b.passed[l]
Moved(b, l)  == b.moved[l]

GoodBook(b) ==
  /\ b \in Books /\ NoDuplicates(b.order)
  /\ \A l \in Listings : Passed(b, l) \subseteq Tracked(b)

\* What happens to the iterator of l while b becomes c: it loses the entries
\* that are deleted, and `moved` has them.
StaysAt(b, c, l) ==
  /\ Passed(c, l) \subseteq Passed(b, l) /\ Moved(b, l) \subseteq Moved(c, l)
  /\ Passed(c, l) \cup Moved(c, l) = Passed(b, l) \cup Moved(b, l)

\* ... and to the entry of k, if nothing does.
SameEntry(b, c, k) ==
  /\ k \in Tracked(c) <=> k \in Tracked(b)
  /\ Expiry(c, k) = Expiry(b, k)

\* k is there for good.
LastsIn(b, k) == k \in Tracked(b) /\ Expiry(b, k) = Never

OnlySets(lines) == \A i \in DOMAIN lines : lines[i].op = "SET"

Places == {"idle", "rdb", "rdbCut", "rdbRead", "wal", "walCut", "walRead",
           "ask", "judge", "done", "failed"}

Walking(l) == pc[l] \in {"ask", "judge"}

\* An iterator goes when the loop ends; what was moved behind it is kept.
Kept(l) == Moved(book, l) # {} => Walking(l) \/ pc[l] = "done"

Entries    == [by : Calls, until : Int]
LoopStates == [since : Nat, key : Keys, exists : BOOLEAN]

MasterTyped ==
  /\ db \in [Keys -> Entries \cup {Absent}]
  /\ wal \in Seq(Line) /\ rdb \in Seq(Line) /\ copy \subseteq Line /\ IsFiniteSet(copy)
  /\ saver \in {"idle", "cleared", "writing"}
  /\ sent \in [Calls -> {"unsent", "executed", "answered", "heard"}]

ListsTyped ==
  /\ local \in BOOLEAN /\ now \in 0 .. Horizon
  /\ GoodBook(book)
  /\ pc \in [Listings -> Places]
  /\ page \in [Listings -> Seq(Line)] /\ found \in [Listings -> Seq(Keys)]
  /\ loop \in [Listings -> LoopStates \cup {NoLoop}]
  /\ \A l \in Listings :
       /\ Walking(l) => loop[l] \in LoopStates /\ loop[l].since <= now
       /\ ~Walking(l) => loop[l] = NoLoop /\ Passed(book, l) = {}
       /\ Kept(l)

KeyTyped ==
  /\ MasterTyped /\ ListsTyped
  /\ saves \in 0 .. MaxSaves /\ losses \in 0 .. MaxLosses
  /\ steady \subseteq Keys /\ promised \in [Listings -> SUBSET Keys]

\* What the master has of a key comes from a command about it; the snapshot has
\* SETs only.
MasterLogs ==
  /\ \A k \in Keys : db[k] # Absent =>
       /\ db[k].by.line.key = k
       /\ db[k].by.line = ForGood(k) => db[k].until = Never
  /\ OnlySets(rdb) /\ \A line \in copy : line.op = "SET"

\* Of a snapshot a listing has read nothing but SETs, and what it has read of
\* the log ends with the line that stores a steady key; it begins with nothing.
PageRead(l) ==
  /\ pc[l] = "idle" => page[l] = <<>>
  /\ pc[l] \in {"rdb", "rdbCut", "rdbRead"} => OnlySets(page[l])
  /\ pc[l] \in {"walCut", "walRead"} => \A k \in steady : LastWord(page[l], k, ForGood(k))

PagesRead == \A l \in Listings : PageRead(l)

\* A steady key is stored for good on both sides and in the log, no command on
\* it is still to be logged or heard of, and no listing has been told that the
\* master does not have it.
SteadyKept ==
  \A k \in steady :
    /\ db[k] # Absent /\ db[k].by.line = ForGood(k) /\ LastWord(wal, k, ForGood(k))
    /\ LastsIn(book, k)
    /\ \A d \in Calls : d.line.key = k => sent[d] # "executed" /\ (d.ours => sent[d] # "answered")
    /\ \A l \in Listings : pc[l] = "judge" /\ loop[l].key = k => loop[l].exists

\* Whatever a loop has passed of the keys promised is among its rows or under
\* inquiry; the rows and the key under inquiry have been passed, and a key is
\* not asked about again unless it was moved.
Walk(l) ==
  /\ \A k \in promised[l] :
       k \in Range(found[l]) \/ k \notin Passed(book, l) \/ k = loop[l].key
  /\ Range(found[l]) \subseteq Passed(book, l) \cup Moved(book, l)
  /\ loop[l].key \in Passed(book, l) \cup Moved(book, l)
  /\ loop[l].key \in Range(found[l]) => loop[l].key \in Moved(book, l)

\* A key that stands twice among the rows has been moved.
Again(rows, M) ==
  \A i, j \in DOMAIN rows : i # j /\ rows[i] = rows[j] => rows[i] \in M

Walks ==
  \A l \in Listings :
    /\ promised[l] \subseteq steady
    /\ Again(found[l], Moved(book, l))
    /\ Walking(l) => Walk(l)
    /\ pc[l] = "done" => promised[l] \subseteq Range(found[l])

KeyInv == KeyTyped /\ MasterLogs /\ PagesRead /\ SteadyKept /\ Walks
-----------------------------------------------------------------------------
\* trackedKeys.set and trackedKeys.delete.
LEMMA PutEffect ==
  ASSUME NEW b, GoodBook(b), NEW k \in Keys, NEW e \in Int
  PROVE  /\ GoodBook(Put(b, k, e))
         /\ \A l \in Listings : StaysAt(b, Put(b, k, e), l)
         /\ Tracked(Put(b, k, e)) = Tracked(b) \cup {k}
         /\ Expiry(Put(b, k, e), k) = e
         /\ \A j \in Keys : j # k => Expiry(Put(b, k, e), j) = Expiry(b, j)
<1> DEFINE o == IF k \in Range(b.order) THEN b.order ELSE Append(b.order, k)
           c == Put(b, k, e)
<1>1. /\ b \in Books /\ b.order \in Seq(Keys) /\ NoDuplicates(b.order)
      /\ \A l \in Listings : b.passed[l] \subseteq Range(b.order)
  BY DEF GoodBook, Books, Passed, Tracked
<1>2. o \in Seq(Keys) /\ Range(o) = Range(b.order) \cup {k} /\ NoDuplicates(o)
  <2>1. CASE k \in Range(b.order)
    BY <1>1, <2>1
  <2>2. CASE k \notin Range(b.order)
    <3> DEFINE a == Append(b.order, k)
    <3>1. /\ a \in Seq(Keys) /\ Len(a) = Len(b.order) + 1 /\ Len(b.order) \in Nat
          /\ a[Len(b.order) + 1] = k /\ \A i \in 1 .. Len(b.order) : a[i] = b.order[i]
          /\ DOMAIN b.order = 1 .. Len(b.order)
      BY <1>1
    <3>2. Range(a) = Range(b.order) \cup {k}
      BY <1>1, RangeAppend
    <3> HIDE DEF a
    <3>3. \A i \in 1 .. Len(b.order) : b.order[i] # k
      BY <2>2, <3>1 DEF Range
    <3>4. NoDuplicates(a)
      BY <1>1, <3>1, <3>3 DEF NoDuplicates
    <3> QED
      BY <2>2, <3>1, <3>2, <3>4 DEF a
  <2> QED
    BY <2>1, <2>2
<1>3. c = [b EXCEPT !.order = o, !.expires = [b.expires EXCEPT ![k] = e]]
  BY <1>1 DEF Put, Books
<1> HIDE DEF o, c
<1>4. /\ c.order = o /\ c.expires = [b.expires EXCEPT ![k] = e]
      /\ c.passed = b.passed /\ c.moved = b.moved /\ c \in Books
  BY <1>1, <1>2, <1>3 DEF Books
<1>5. b.expires \in [Keys -> Int]
  BY <1>1 DEF Books
<1>6. GoodBook(c)
  BY <1>1, <1>2, <1>4 DEF GoodBook, Passed, Tracked
<1>7. \A l \in Listings : StaysAt(b, c, l)
  BY <1>4 DEF StaysAt, Passed, Moved
<1>8. Tracked(c) = Tracked(b) \cup {k}
  BY <1>2, <1>4 DEF Tracked
<1>9. Expiry(c, k) = e /\ \A j \in Keys : j # k => Expiry(c, j) = Expiry(b, j)
  BY <1>4, <1>5 DEF Expiry
<1> QED
  BY <1>6, <1>7, <1>8, <1>9 DEF c

LEMMA DropEffect ==
  ASSUME NEW b, GoodBook(b), NEW K
  PROVE  /\ GoodBook(Drop(b, K))
         /\ \A l \in Listings : StaysAt(b, Drop(b, K), l)
         /\ Tracked(Drop(b, K)) = Tracked(b) \ K
         /\ \A j \in Keys : j \notin K => Expiry(Drop(b, K), j) = Expiry(b, j)
<1> DEFINE c == Drop(b, K)
<1>1. /\ b \in Books /\ b.order \in Seq(Keys) /\ NoDuplicates(b.order)
      /\ \A l \in Listings : b.passed[l] \subseteq Range(b.order)
  BY DEF GoodBook, Books, Passed, Tracked
<1>2. /\ Sublist(b.order, Keys \ K) \in Seq(Keys)
      /\ Range(Sublist(b.order, Keys \ K)) = Range(b.order) \cap (Keys \ K)
      /\ NoDuplicates(Sublist(b.order, Keys \ K))
  BY <1>1, SublistSeq, SublistRange, SublistNoDuplicates
<1>3. Range(b.order) \subseteq Keys
  BY <1>1, RangeMember
<1>4. /\ c.order = Sublist(b.order, Keys \ K)
      /\ c.expires = [k \in Keys |-> IF k \in K THEN Never ELSE b.expires[k]]
      /\ c.passed = [l \in Listings |-> b.passed[l] \ K]
      /\ c.moved = [l \in Listings |-> b.moved[l] \cup (b.passed[l] \cap K)]
      /\ c = [order |-> c.order, expires |-> c.expires, passed |-> c.passed, moved |-> c.moved]
  BY DEF Drop
<1> HIDE DEF c
<1>5. /\ b.expires \in [Keys -> Int] /\ b.passed \in [Listings -> SUBSET Keys]
      /\ b.moved \in [Listings -> SUBSET Keys]
  BY <1>1 DEF Books
<1>6. c.expires \in [Keys -> Int]
  BY <1>4, <1>5 DEF Never
<1>7. c.passed \in [Listings -> SUBSET Keys] /\ c.moved \in [Listings -> SUBSET Keys]
  BY <1>4, <1>5
<1>8. c.order \in Seq(Keys)
  BY <1>2, <1>4
<1>9. c \in Books
  BY <1>4, <1>6, <1>7, <1>8 DEF Books
<1>10. GoodBook(c)
  <2>1. ASSUME NEW l \in Listings
        PROVE  c.passed[l] \subseteq Range(c.order)
    <3>1. c.passed[l] = b.passed[l] \ K /\ b.passed[l] \subseteq Range(b.order)
      BY <1>1, <1>4
    <3>2. Range(c.order) = Range(b.order) \cap (Keys \ K)
      BY <1>2, <1>4
    <3> QED
      BY <1>3, <3>1, <3>2
  <2>2. NoDuplicates(c.order)
    BY <1>2, <1>4
  <2> QED
    BY <1>9, <2>1, <2>2 DEF GoodBook, Passed, Tracked
<1>11. \A l \in Listings : StaysAt(b, c, l)
  BY <1>4 DEF StaysAt, Passed, Moved
<1>12. Tracked(c) = Tracked(b) \ K
  BY <1>2, <1>3, <1>4 DEF Tracked
<1>13. \A j \in Keys : j \notin K => Expiry(c, j) = Expiry(b, j)
  BY <1>4 DEF Expiry
<1> QED
  BY <1>10, <1>11, <1>12, <1>13 DEF c

\* The loop takes the next key, or ends.
LEMMA PassEffect ==
  ASSUME NEW b, GoodBook(b), NEW l \in Listings, NEW k \in Tracked(b), NEW c,
         c = [b EXCEPT !.passed[l] = @ \cup {k}]
  PROVE  /\ GoodBook(c)
         /\ \A m \in Listings : m # l => StaysAt(b, c, m)
         /\ Passed(c, l) = Passed(b, l) \cup {k} /\ Moved(c, l) = Moved(b, l)
         /\ \A j \in Keys : SameEntry(b, c, j)
<1>1. /\ b \in Books /\ \A m \in Listings : b.passed[m] \subseteq Range(b.order)
      /\ k \in Range(b.order) /\ NoDuplicates(b.order)
  BY DEF GoodBook, Passed, Tracked
<1>2. b.order \in Seq(Keys) /\ b.passed \in [Listings -> SUBSET Keys]
  BY <1>1 DEF Books
<1>3. k \in Keys
  BY <1>1, <1>2, RangeMember
<1>4. c = [b EXCEPT !.passed = [b.passed EXCEPT ![l] = b.passed[l] \cup {k}]]
  BY <1>1 DEF Books
<1> DEFINE q == [b.passed EXCEPT ![l] = b.passed[l] \cup {k}]
<1>5. /\ q \in [Listings -> SUBSET Keys] /\ q[l] = b.passed[l] \cup {k}
      /\ \A m \in Listings : m # l => q[m] = b.passed[m]
  BY <1>2, <1>3
<1>6. c = [b EXCEPT !.passed = q]
  BY <1>4
<1> HIDE DEF q
<1>7. c \in Books /\ c.order = b.order /\ c.expires = b.expires /\ c.passed = q /\ c.moved = b.moved
  BY <1>1, <1>5, <1>6 DEF Books
<1>8. \A m \in Listings : q[m] \subseteq Range(b.order)
  BY <1>1, <1>5
<1>9. GoodBook(c)
  BY <1>1, <1>7, <1>8 DEF GoodBook, Passed, Tracked
<1>10. \A m \in Listings : m # l => StaysAt(b, c, m)
  BY <1>5, <1>7 DEF StaysAt, Passed, Moved
<1>11. Passed(c, l) = Passed(b, l) \cup {k} /\ Moved(c, l) = Moved(b, l)
  BY <1>5, <1>7 DEF Passed, Moved
<1>12. \A j \in Keys : SameEntry(b, c, j)
  BY <1>7 DEF SameEntry, Tracked, Expiry
<1> QED
  BY <1>9, <1>10, <1>11, <1>12

LEMMA EndEffect ==
  ASSUME NEW b, GoodBook(b), NEW l \in Listings, NEW c, c = [b EXCEPT !.passed[l] = {}]
  PROVE  /\ GoodBook(c)
         /\ \A m \in Listings : m # l => StaysAt(b, c, m)
         /\ Passed(c, l) = {} /\ Moved(c, l) = Moved(b, l)
         /\ \A j \in Keys : SameEntry(b, c, j)
<1>1. /\ b \in Books /\ \A m \in Listings : b.passed[m] \subseteq Range(b.order)
      /\ NoDuplicates(b.order)
  BY DEF GoodBook, Passed, Tracked
<1>2. b.passed \in [Listings -> SUBSET Keys]
  BY <1>1 DEF Books
<1> DEFINE q == [b.passed EXCEPT ![l] = {}]
<1>3. c = [b EXCEPT !.passed = q]
  BY <1>1 DEF Books
<1>4. /\ q \in [Listings -> SUBSET Keys] /\ q[l] = {}
      /\ \A m \in Listings : m # l => q[m] = b.passed[m]
  BY <1>2
<1> HIDE DEF q
<1>5. c \in Books /\ c.order = b.order /\ c.expires = b.expires /\ c.passed = q /\ c.moved = b.moved
  BY <1>1, <1>3, <1>4 DEF Books
<1>6. \A m \in Listings : q[m] \subseteq Range(b.order)
  BY <1>1, <1>4
<1>7. GoodBook(c)
  BY <1>1, <1>5, <1>6 DEF GoodBook, Passed, Tracked
<1>8. \A m \in Listings : m # l => StaysAt(b, c, m)
  BY <1>4, <1>5 DEF StaysAt, Passed, Moved
<1>9. Passed(c, l) = {} /\ Moved(c, l) = Moved(b, l)
  BY <1>4, <1>5 DEF Passed, Moved
<1>10. \A j \in Keys : SameEntry(b, c, j)
  BY <1>5 DEF SameEntry, Tracked, Expiry
<1> QED
  BY <1>7, <1>8, <1>9, <1>10

\* What happens to an iterator twice.
LEMMA StaysTwice ==
  ASSUME NEW a, NEW b, NEW c, NEW l, StaysAt(a, b, l), StaysAt(b, c, l)
  PROVE  StaysAt(a, c, l)
BY DEF StaysAt

\* A line of a file or a command that was answered.
LEMMA RememberEffect ==
  ASSUME NEW b, GoodBook(b), NEW line \in Line, NEW t \in Nat
  PROVE  /\ GoodBook(Remember(b, line, t))
         /\ \A l \in Listings : StaysAt(b, Remember(b, line, t), l)
         /\ \A k \in Keys : k # line.key => SameEntry(b, Remember(b, line, t), k)
         /\ line.op = "SET" => \A k \in Tracked(b) : k \in Tracked(Remember(b, line, t))
         /\ \A k \in Keys : line = ForGood(k) => LastsIn(Remember(b, line, t), k)
<1> DEFINE c == Remember(b, line, t)
           k == line.key
           e == IF line.ttl = NoTtl THEN Never ELSE t + line.ttl
<1>1. k \in Keys /\ e \in Int /\ line.op \in {"SET", "DEL", "INCR"} /\ Never \in Int
  BY DEF Line, NoTtl, Never
<1>2. \A j \in Keys : line = ForGood(j) => j = k /\ line.op = "SET" /\ e = Never
  BY DEF ForGood
<1>3. /\ line.op = "SET" => c = Put(b, k, e)
      /\ line.op = "DEL" => c = Drop(b, {k})
      /\ line.op = "INCR" => c = b \/ c = Put(b, k, Never)
  BY <1>1 DEF Remember
<1>4. Tracked(b) \subseteq Keys
  BY RangeMember DEF GoodBook, Books, Tracked
<1>5. \A j \in {k} : j = k
  OBVIOUS
<1> HIDE DEF c, e, k
<1>6. CASE c = b
  <2>1. /\ GoodBook(c) /\ \A l \in Listings : StaysAt(b, c, l)
        /\ \A j \in Keys : j # k => SameEntry(b, c, j)
    BY <1>6 DEF StaysAt, SameEntry
  <2>2. \A j \in Tracked(b) : j \in Tracked(c)
    BY <1>6
  <2>3. line.op # "SET" \/ c = Put(b, k, e)
    BY <1>3
  <2>4. line.op = "SET" => LastsIn(c, k) \/ e # Never
    BY <1>1, <2>3, PutEffect DEF LastsIn
  <2> QED
    BY <1>2, <2>1, <2>2, <2>4 DEF c, k
<1>7. ASSUME NEW d \in Int, c = Put(b, k, d), line.op = "SET" => d = e
      PROVE  /\ GoodBook(c) /\ \A l \in Listings : StaysAt(b, c, l)
             /\ \A j \in Keys : j # k => SameEntry(b, c, j)
             /\ \A j \in Tracked(b) : j \in Tracked(c)
             /\ \A j \in Keys : line = ForGood(j) => LastsIn(c, j)
  <2>1. /\ GoodBook(c) /\ \A l \in Listings : StaysAt(b, c, l)
        /\ Tracked(c) = Tracked(b) \cup {k} /\ Expiry(c, k) = d
        /\ \A j \in Keys : j # k => Expiry(c, j) = Expiry(b, j)
    BY <1>1, <1>7, PutEffect
  <2>2. \A j \in Keys : j # k => SameEntry(b, c, j)
    BY <2>1 DEF SameEntry
  <2>3. \A j \in Keys : line = ForGood(j) => LastsIn(c, j)
    BY <1>2, <1>7, <2>1 DEF LastsIn
  <2> QED
    BY <2>1, <2>2, <2>3
<1>8. CASE line.op = "DEL"
  <2>1. /\ GoodBook(c) /\ \A l \in Listings : StaysAt(b, c, l)
        /\ Tracked(c) = Tracked(b) \ {k}
        /\ \A j \in Keys : j \notin {k} => Expiry(c, j) = Expiry(b, j)
    BY <1>3, <1>8, DropEffect
  <2>2. \A j \in Keys : j # k => SameEntry(b, c, j)
    BY <2>1 DEF SameEntry
  <2> QED
    BY <1>2, <1>8, <2>1, <2>2 DEF c, k
<1>9. CASE line.op = "SET"
  BY <1>1, <1>3, <1>7, <1>9 DEF c, k
<1>10. CASE c = Put(b, k, Never) /\ line.op = "INCR"
  BY <1>1, <1>7, <1>10 DEF c, k
<1> QED
  BY <1>1, <1>3, <1>6, <1>8, <1>9, <1>10

\* The lines of a file, one after the other.
Replays(f, b, lines, t, n) ==
  f = [i \in 0 .. n |-> IF i = 0 THEN b ELSE Remember(f[i - 1], lines[i], t)]

LEMMA ReplaysExists ==
  ASSUME NEW b, NEW lines, NEW t, NEW n \in Nat
  PROVE  \E f : Replays(f, b, lines, t, n)
<1> DEFINE T == {m \in Nat : \E f : Replays(f, b, lines, t, m)}
<1>1. 0 \in T
  <2> DEFINE f == [i \in 0 .. 0 |-> b]
  <2>1. f = [i \in 0 .. 0 |-> IF i = 0 THEN b ELSE Remember(f[i - 1], lines[i], t)]
    OBVIOUS
  <2> QED
    BY <2>1 DEF Replays
<1>2. ASSUME NEW m \in Nat, m \in T
      PROVE  m + 1 \in T
  <2>1. PICK f : Replays(f, b, lines, t, m)
    BY <1>2
  <2> DEFINE g == [i \in 0 .. m + 1 |-> IF i = m + 1 THEN Remember(f[m], lines[m + 1], t) ELSE f[i]]
  <2>2. ASSUME NEW i \in 0 .. m + 1
        PROVE  g[i] = IF i = 0 THEN b ELSE Remember(g[i - 1], lines[i], t)
    <3>1. CASE i = m + 1
      <4>1. i - 1 \in 0 .. m + 1 /\ i - 1 # m + 1 /\ i - 1 = m /\ i # 0
        BY <3>1
      <4> QED
        BY <3>1, <4>1
    <3>2. CASE i # m + 1
      <4>1. i \in 0 .. m /\ (i # 0 => i - 1 \in 0 .. m + 1 /\ i - 1 # m + 1)
        BY <3>2
      <4>2. f[i] = IF i = 0 THEN b ELSE Remember(f[i - 1], lines[i], t)
        BY <2>1, <4>1 DEF Replays
      <4> QED
        BY <3>2, <4>1, <4>2
    <3> QED
      BY <3>1, <3>2
  <2>3. g = [i \in 0 .. m + 1 |-> g[i]]
    OBVIOUS
  <2> HIDE DEF g
  <2>4. Replays(g, b, lines, t, m + 1)
    BY <2>2, <2>3 DEF Replays
  <2> QED
    BY <2>4
<1> HIDE DEF T
<1>3. Nat \subseteq T
  BY <1>1, <1>2, NatSetInduction
<1> QED
  BY <1>3 DEF T

\* Up to the n-th line.
LastWordBefore(lines, n, k, line) ==
  \A i \in 1 .. n :
    lines[i].key = k /\ (\A j \in 1 .. n : j > i => lines[j].key # k) => lines[i] = line

LEMMA RememberAllEffect ==
  ASSUME NEW b, GoodBook(b), NEW lines \in Seq(Line), NEW t \in Nat
  PROVE  /\ GoodBook(RememberAll(b, lines, t))
         /\ \A l \in Listings : StaysAt(b, RememberAll(b, lines, t), l)
         /\ OnlySets(lines) => \A k \in Tracked(b) : k \in Tracked(RememberAll(b, lines, t))
         /\ \A k \in Keys : LastWord(lines, k, ForGood(k)) /\ LastsIn(b, k)
                              => LastsIn(RememberAll(b, lines, t), k)
<1> DEFINE n == Len(lines)
           f == CHOOSE g : Replays(g, b, lines, t, n)
<1>1. n \in Nat /\ DOMAIN lines = 1 .. n /\ \A i \in 1 .. n : lines[i] \in Line
  OBVIOUS
<1>2. Replays(f, b, lines, t, n)
  BY <1>1, ReplaysExists
<1>3. RememberAll(b, lines, t) = f[n]
  BY DEF RememberAll, Replays
<1> HIDE DEF f, n
<1>4. \A i \in 0 .. n : f[i] = IF i = 0 THEN b ELSE Remember(f[i - 1], lines[i], t)
  BY <1>2 DEF Replays
<1> DEFINE Holds(m) ==
             /\ GoodBook(f[m])
             /\ \A l \in Listings : StaysAt(b, f[m], l)
             /\ OnlySets(lines) => \A k \in Tracked(b) : k \in Tracked(f[m])
             /\ \A k \in Keys : LastWordBefore(lines, m, k, ForGood(k)) /\ LastsIn(b, k) => LastsIn(f[m], k)
           T == {m \in Nat : m <= n => Holds(m)}
<1>5. 0 \in T
  <2>1. f[0] = b
    BY <1>1, <1>4
  <2> QED
    BY <2>1 DEF StaysAt
<1>6. ASSUME NEW m \in Nat, m \in T
      PROVE  m + 1 \in T
  <2> SUFFICES ASSUME m + 1 <= n PROVE Holds(m + 1)
    OBVIOUS
  <2> DEFINE line == lines[m + 1]
             c    == f[m]
             d    == f[m + 1]
  <2>1. m + 1 \in 1 .. n /\ m + 1 \in 0 .. n /\ m + 1 # 0 /\ (m + 1) - 1 = m
    BY <1>1
  <2>2. d = Remember(c, line, t) /\ line \in Line
    BY <1>1, <1>4, <2>1
  <2>3. /\ GoodBook(c) /\ \A l \in Listings : StaysAt(b, c, l)
        /\ OnlySets(lines) => \A k \in Tracked(b) : k \in Tracked(c)
        /\ \A k \in Keys : LastWordBefore(lines, m, k, ForGood(k)) /\ LastsIn(b, k) => LastsIn(c, k)
    BY <1>1, <1>6
  <2>4. OnlySets(lines) => line.op = "SET"
    BY <1>1, <2>1 DEF OnlySets
  <2>5. ASSUME NEW k \in Keys, LastWordBefore(lines, m + 1, k, ForGood(k))
        PROVE  line = ForGood(k) \/ (line.key # k /\ LastWordBefore(lines, m, k, ForGood(k)))
    <3>1. m + 1 \in 1 .. m + 1 /\ \A j \in 1 .. m + 1 : ~(j > m + 1)
      OBVIOUS
    <3>2. line.key = k => line = ForGood(k)
      BY <2>5, <3>1 DEF LastWordBefore
    <3>3. ASSUME line.key # k, NEW i \in 1 .. m, lines[i].key = k,
                 \A j \in 1 .. m : j > i => lines[j].key # k
          PROVE  lines[i] = ForGood(k)
      <4>1. \A j \in 1 .. m + 1 : j \in 1 .. m \/ j = m + 1
        OBVIOUS
      <4>2. i \in 1 .. m + 1 /\ \A j \in 1 .. m + 1 : j > i => lines[j].key # k
        BY <3>3, <4>1
      <4> QED
        BY <2>5, <3>3, <4>2 DEF LastWordBefore
    <3> QED
      BY <3>2, <3>3 DEF LastWordBefore
  <2> HIDE DEF line, c, d
  <2>6. /\ GoodBook(d) /\ \A l \in Listings : StaysAt(c, d, l)
        /\ \A k \in Keys : k # line.key => SameEntry(c, d, k)
        /\ line.op = "SET" => \A k \in Tracked(c) : k \in Tracked(d)
        /\ \A k \in Keys : line = ForGood(k) => LastsIn(d, k)
    BY <2>2, <2>3, RememberEffect
  <2>7. \A l \in Listings : StaysAt(b, d, l)
    BY <2>3, <2>6, StaysTwice
  <2>8. OnlySets(lines) => \A k \in Tracked(b) : k \in Tracked(d)
    BY <2>3, <2>4, <2>6
  <2>9. \A k \in Keys : LastWordBefore(lines, m + 1, k, ForGood(k)) /\ LastsIn(b, k) => LastsIn(d, k)
    BY <2>3, <2>5, <2>6 DEF LastsIn, SameEntry
  <2> QED
    BY <2>6, <2>7, <2>8, <2>9 DEF d
<1> HIDE DEF T, Holds
<1>7. Nat \subseteq T
  BY <1>5, <1>6, NatSetInduction
<1>8. Holds(n)
  BY <1>1, <1>7 DEF T
<1>9. \A k : LastWord(lines, k, ForGood(k)) => LastWordBefore(lines, n, k, ForGood(k))
  BY <1>1 DEF LastWord, LastWordBefore
<1> QED
  BY <1>3, <1>8, <1>9 DEF Holds
-----------------------------------------------------------------------------
\* A listing goes on: no entry stays behind the loop but the next key and
\* those it has passed, and an entry without a deadline is not deleted.
GoesOn(b, c, l, t, rows) ==
  /\ found' = [found EXCEPT ![l] = rows]
  /\ GoodBook(c)
  /\ \A m \in Listings : m # l => StaysAt(b, c, m)
  /\ \A j \in Keys : LastsIn(b, j) => LastsIn(c, j)
  /\ \/ /\ pc' = [pc EXCEPT ![l] = "done"]
        /\ loop' = [loop EXCEPT ![l] = NoLoop]
        /\ Passed(c, l) = {} /\ Moved(b, l) \subseteq Moved(c, l)
        /\ \A j \in Keys : LastsIn(b, j) => j \in Passed(b, l)
     \/ \E k \in Keys :
          /\ pc' = [pc EXCEPT ![l] = "ask"]
          /\ loop' = [loop EXCEPT ![l] = [since |-> t, key |-> k, exists |-> FALSE]]
          /\ k \notin Passed(b, l)
          /\ Passed(c, l) \subseteq Passed(b, l) \cup {k}
          /\ Moved(b, l) \subseteq Moved(c, l)
          /\ Passed(c, l) \cup Moved(c, l) = Passed(b, l) \cup Moved(b, l) \cup {k}

LEMMA LeastMember ==
  ASSUME NEW S, S \subseteq Nat, S # {}
  PROVE  Min(S) \in S /\ \A j \in S : Min(S) <= j
<1>1. \E n \in S : \A m \in S : n <= m
  BY LeastNatural
<1> QED
  BY <1>1 DEF Min

LEMMA GoOnEffect ==
  ASSUME NEW b, GoodBook(b), NEW l \in Listings, NEW t \in Nat, NEW rows,
         GoOn(b, l, t, rows)
  PROVE  GoesOn(b, book', l, t, rows)
<1> DEFINE Lapsed(k) == b.expires[k] # Never /\ b.expires[k] <= t
           rest  == Sublist(b.order, Keys \ b.passed[l])
           asked == {i \in DOMAIN rest : ~Lapsed(rest[i])}
           n     == Min(asked)
           K     == {rest[j] : j \in 1 .. n - 1}
<1>1. /\ found' = [found EXCEPT ![l] = rows]
      /\ asked = {} => /\ pc' = [pc EXCEPT ![l] = "done"]
                       /\ book' = [Drop(b, Range(rest)) EXCEPT !.passed[l] = {}]
                       /\ loop' = [loop EXCEPT ![l] = NoLoop]
      /\ asked # {} => /\ pc' = [pc EXCEPT ![l] = "ask"]
                       /\ book' = [Drop(b, K) EXCEPT !.passed[l] = @ \cup {rest[n]}]
                       /\ loop' = [loop EXCEPT ![l] = [since |-> t, key |-> rest[n], exists |-> FALSE]]
  BY DEF GoOn
<1>2. b.order \in Seq(Keys) /\ NoDuplicates(b.order)
  BY DEF GoodBook, Books
<1>3. /\ rest \in Seq(Keys) /\ Range(rest) = Range(b.order) \cap (Keys \ b.passed[l])
      /\ NoDuplicates(rest)
  BY <1>2, SublistSeq, SublistRange, SublistNoDuplicates
<1> HIDE DEF rest
<1>4. /\ Range(rest) \subseteq Keys /\ Range(rest) = Tracked(b) \ Passed(b, l)
      /\ DOMAIN rest = 1 .. Len(rest) /\ Len(rest) \in Nat
      /\ \A i \in 1 .. Len(rest) : rest[i] \in Range(rest)
  <2>1. Tracked(b) \subseteq Keys
    BY <1>2, RangeMember DEF Tracked
  <2> QED
    BY <1>3, <2>1, RangeMember DEF Tracked, Passed
<1>5. \A i \in 1 .. Len(rest) : i \in asked \/ Lapsed(rest[i])
  BY <1>4
<1>6. \A i \in asked : i \in 1 .. Len(rest)
  BY <1>4
<1>7. \A k \in Keys : Lapsed(k) => ~LastsIn(b, k)
  BY DEF LastsIn, Expiry
<1> HIDE DEF Lapsed, asked, n, K
<1>8. CASE asked = {}
  <2> DEFINE c == Drop(b, Range(rest))
  <2>1. \A k \in Range(rest) : ~LastsIn(b, k)
    <3>1. \A k \in Range(rest) : \E i \in 1 .. Len(rest) : k = rest[i]
      BY <1>3, RangeMember
    <3> QED
      BY <1>4, <1>5, <1>7, <1>8, <3>1
  <2>2. /\ GoodBook(c) /\ \A m \in Listings : StaysAt(b, c, m)
        /\ Tracked(c) = Tracked(b) \ Range(rest)
        /\ \A j \in Keys : j \notin Range(rest) => Expiry(c, j) = Expiry(b, j)
    BY DropEffect
  <2>3. book' = [c EXCEPT !.passed[l] = {}]
    BY <1>1, <1>8
  <2> HIDE DEF c
  <2>4. /\ GoodBook(book') /\ \A m \in Listings : m # l => StaysAt(c, book', m)
        /\ Passed(book', l) = {} /\ Moved(book', l) = Moved(c, l)
        /\ \A j \in Keys : SameEntry(c, book', j)
    BY <2>2, <2>3, EndEffect
  <2>5. \A m \in Listings : m # l => StaysAt(b, book', m)
    BY <2>2, <2>4, StaysTwice
  <2>6. \A j \in Keys : LastsIn(b, j) => LastsIn(book', j)
    BY <2>1, <2>2, <2>4 DEF LastsIn, SameEntry
  <2>7. \A j \in Keys : LastsIn(b, j) => j \in Passed(b, l)
    BY <1>4, <2>1 DEF LastsIn
  <2>8. Moved(b, l) \subseteq Moved(book', l)
    BY <2>2, <2>4 DEF StaysAt
  <2> QED
    BY <1>1, <1>8, <2>4, <2>5, <2>6, <2>7, <2>8 DEF GoesOn
<1>9. CASE asked # {}
  <2> DEFINE k == rest[n]
             c == Drop(b, K)
  <2>1. n \in asked /\ \A j \in asked : n <= j
    BY <1>6, <1>9, LeastMember DEF n
  <2>2. n \in 1 .. Len(rest) /\ k \in Range(rest)
    BY <1>4, <1>6, <2>1
  <2>3. \A x \in K : \E j \in 1 .. n - 1 : x = rest[j]
    BY DEF K
  <2>4. \A j \in 1 .. n - 1 : j \in 1 .. Len(rest) /\ j # n /\ ~(n <= j)
    BY <1>4, <2>2
  <2>5. \A x \in K : x \in Keys /\ ~LastsIn(b, x)
    BY <1>4, <1>5, <1>7, <2>1, <2>3, <2>4
  <2>6. k \notin K
    <3>1. \A i, j \in 1 .. Len(rest) : rest[i] = rest[j] => i = j
      BY <1>3 DEF NoDuplicates
    <3> QED
      BY <2>2, <2>3, <2>4, <3>1
  <2>7. /\ GoodBook(c) /\ \A m \in Listings : StaysAt(b, c, m)
        /\ Tracked(c) = Tracked(b) \ K
        /\ \A j \in Keys : j \notin K => Expiry(c, j) = Expiry(b, j)
    BY DropEffect
  <2>8. k \in Keys /\ k \in Tracked(c) /\ k \notin Passed(b, l)
    BY <1>4, <2>2, <2>6, <2>7
  <2>9. book' = [c EXCEPT !.passed[l] = @ \cup {k}]
    BY <1>1, <1>9
  <2> HIDE DEF c, k
  <2>10. /\ GoodBook(book') /\ \A m \in Listings : m # l => StaysAt(c, book', m)
         /\ Passed(book', l) = Passed(c, l) \cup {k} /\ Moved(book', l) = Moved(c, l)
         /\ \A j \in Keys : SameEntry(c, book', j)
    BY <2>7, <2>8, <2>9, PassEffect
  <2>11. \A m \in Listings : m # l => StaysAt(b, book', m)
    BY <2>7, <2>10, StaysTwice
  <2>12. \A j \in Keys : LastsIn(b, j) => LastsIn(book', j)
    BY <2>5, <2>7, <2>10 DEF LastsIn, SameEntry
  <2>13. /\ Passed(book', l) \subseteq Passed(b, l) \cup {k}
         /\ Moved(b, l) \subseteq Moved(book', l)
         /\ Passed(book', l) \cup Moved(book', l) = Passed(b, l) \cup Moved(b, l) \cup {k}
    BY <2>7, <2>10 DEF StaysAt
  <2>14. /\ pc' = [pc EXCEPT ![l] = "ask"]
         /\ loop' = [loop EXCEPT ![l] = [since |-> t, key |-> k, exists |-> FALSE]]
    BY <1>1, <1>9 DEF k
  <2> QED
    BY <1>1, <2>8, <2>10, <2>11, <2>12, <2>13, <2>14 DEF GoesOn
<1> QED
  BY <1>8, <1>9
-----------------------------------------------------------------------------
LEMMA CallLine ==
  \A c \in Calls : /\ c.line \in Line /\ c.line.key \in Keys
                   /\ c.line.op \in {"SET", "DEL", "INCR"} /\ c.line.ttl \in Int
                   /\ (c.line.op = "SET" /\ c.line.ttl = NoTtl => c.line = ForGood(c.line.key))
                   /\ (c.line = ForGood(c.line.key) => c.line.op = "SET" /\ c.line.ttl = NoTtl)
BY CallsAssumption DEF Call, Line, NoTtl, ForGood

LEMMA EmptyList ==
  \A S : <<>> \in Seq(S)
OBVIOUS

LEMMA SetToSeqType ==
  ASSUME NEW S, IsFiniteSet(S)
  PROVE  /\ SetToSeq(S) \in Seq(S)
         /\ \A i \in DOMAIN SetToSeq(S) : SetToSeq(S)[i] \in S
<1>1. Cardinality(S) \in Nat /\ ExistsBijection(1 .. Cardinality(S), S)
  BY FS_CardinalityType
<1>2. PICK f \in [1 .. Cardinality(S) -> S] : \A a, b \in 1 .. Cardinality(S) : f[a] = f[b] => a = b
  BY <1>1 DEF ExistsBijection, Bijection, Injection, IsInjective
<1>3. IsInjective(f)
  BY <1>2 DEF IsInjective
<1>4. SetToSeq(S) \in [1 .. Cardinality(S) -> S]
  BY <1>3 DEF SetToSeq
<1> QED
  BY <1>1, <1>4

LEMMA LoadedLines ==
  ASSUME NEW kept \in SUBSET Loaded
  PROVE  LET lines == {c.line : c \in kept}
         IN  IsFiniteSet(lines) /\ lines \subseteq Line /\ \A line \in lines : line.op = "SET"
<1> DEFINE lines == {c.line : c \in kept}
           f == [c \in kept |-> c.line]
<1>1. IsFiniteSet(kept)
  BY CallsAssumption, FiniteAssumption, FS_Subset
<1>2. f \in Surjection(kept, lines)
  BY DEF Surjection
<1>3. IsFiniteSet(lines)
  BY <1>1, <1>2, FS_Surjection
<1>4. lines \subseteq Line
  BY CallLine, CallsAssumption
<1>5. \A line \in lines : line.op = "SET"
  BY CallsAssumption
<1> QED
  BY <1>3, <1>4, <1>5

LEMMA KeyInit == Init => KeyInv
<1> SUFFICES ASSUME Init PROVE KeyInv
  OBVIOUS
<1> PICK kept \in SUBSET Loaded :
      /\ db = [k \in Keys |->
                 IF \E c \in kept : c.line.key = k
                 THEN LET c == CHOOSE c \in kept : c.line.key = k IN [by |-> c, until |-> c.line.ttl]
                 ELSE Absent]
      /\ rdb = SetToSeq({c.line : c \in kept})
  BY DEF Init
<1>1. \A k \in Keys : db[k] # Absent =>
        /\ db[k] \in Entries /\ db[k].by.line.key = k
        /\ (db[k].by.line = ForGood(k) => db[k].until = Never)
  <2> SUFFICES ASSUME NEW k \in Keys, db[k] # Absent
               PROVE  /\ db[k] \in Entries /\ db[k].by.line.key = k
                      /\ (db[k].by.line = ForGood(k) => db[k].until = Never)
    OBVIOUS
  <2> DEFINE c == CHOOSE c \in kept : c.line.key = k
  <2>1. \E d \in kept : d.line.key = k
    OBVIOUS
  <2>2. c \in kept /\ c.line.key = k
    BY <2>1
  <2>3. db[k] = [by |-> c, until |-> c.line.ttl]
    BY <2>1
  <2> HIDE DEF c
  <2>4. c \in Calls
    BY <2>2, CallsAssumption
  <2>5. c.line.ttl \in Int
    BY <2>4, CallLine
  <2>6. db[k].by = c /\ db[k].until = c.line.ttl /\ db[k] \in Entries
    BY <2>3, <2>4, <2>5 DEF Entries
  <2>7. c.line = ForGood(k) => c.line.ttl = Never
    BY <2>2, <2>4, CallLine DEF NoTtl, Never
  <2> QED
    BY <2>2, <2>6, <2>7
<1>2. db \in [Keys -> Entries \cup {Absent}]
  <2>1. db = [k \in Keys |-> db[k]]
    OBVIOUS
  <2> QED
    BY <1>1, <2>1
<1>3. /\ rdb \in Seq(Line) /\ OnlySets(rdb)
  <2> DEFINE lines == {c.line : c \in kept}
  <2>1. IsFiniteSet(lines) /\ lines \subseteq Line /\ \A line \in lines : line.op = "SET"
    BY LoadedLines
  <2>2. rdb = SetToSeq(lines)
    OBVIOUS
  <2> HIDE DEF lines
  <2>3. rdb \in Seq(lines) /\ \A i \in DOMAIN rdb : rdb[i] \in lines
    BY <2>1, <2>2, SetToSeqType
  <2>4. rdb \in Seq(Line)
    BY <2>1, <2>3, SeqMonotone
  <2> QED
    BY <2>1, <2>3, <2>4 DEF OnlySets
<1>4. GoodBook(book) /\ \A l \in Listings : Passed(book, l) = {} /\ Moved(book, l) = {}
  <2>1. book \in Books
    BY DEF Init, Books, Never
  <2>2. book.order = <<>> /\ \A l \in Listings : book.passed[l] = {} /\ book.moved[l] = {}
    BY DEF Init
  <2> QED
    BY <2>1, <2>2 DEF GoodBook, NoDuplicates, Passed, Moved
<1>5. KeyTyped
  <2>1. /\ wal \in Seq(Line) /\ copy \subseteq Line /\ IsFiniteSet(copy)
        /\ saver \in {"idle", "cleared", "writing"}
        /\ local \in BOOLEAN /\ now \in 0 .. Horizon
        /\ sent \in [Calls -> {"unsent", "executed", "answered", "heard"}]
        /\ saves \in 0 .. MaxSaves /\ losses \in 0 .. MaxLosses
        /\ steady \subseteq Keys /\ promised \in [Listings -> SUBSET Keys]
    <3>1. wal = <<>> /\ copy = {} /\ now = 0 /\ saves = 0 /\ losses = 0 /\ steady = {}
      BY DEF Init
    <3>2. <<>> \in Seq(Line) /\ IsFiniteSet({})
      BY EmptyList, FS_EmptySet
    <3>3. now \in 0 .. Horizon /\ saves \in 0 .. MaxSaves /\ losses \in 0 .. MaxLosses
      BY <3>1, BoundsAssumption
    <3>4. /\ saver = "idle" /\ local \in BOOLEAN
          /\ sent \in [Calls -> {"unsent", "executed", "answered", "heard"}]
          /\ promised \in [Listings -> SUBSET Keys]
      BY DEF Init
    <3> QED
      BY <3>1, <3>2, <3>3, <3>4
  <2>2. /\ pc \in [Listings -> Places] /\ \A l \in Listings : Moved(book, l) = {} => Kept(l)
        /\ page \in [Listings -> Seq(Line)] /\ found \in [Listings -> Seq(Keys)]
        /\ loop \in [Listings -> LoopStates \cup {NoLoop}]
        /\ \A l \in Listings : ~Walking(l) /\ loop[l] = NoLoop
    <3>1. /\ pc = [l \in Listings |-> "idle"] /\ page = [l \in Listings |-> <<>>]
          /\ found = [l \in Listings |-> <<>>] /\ loop = [l \in Listings |-> NoLoop]
      BY DEF Init
    <3>2. "idle" \in Places /\ <<>> \in Seq(Line) /\ <<>> \in Seq(Keys)
      BY EmptyList DEF Places
    <3>3. pc \in [Listings -> Places] /\ loop \in [Listings -> LoopStates \cup {NoLoop}]
      BY <3>1, <3>2
    <3>4. page \in [Listings -> Seq(Line)] /\ found \in [Listings -> Seq(Keys)]
      BY <3>1, <3>2
    <3>5. \A l \in Listings : ~Walking(l) /\ loop[l] = NoLoop /\ (Moved(book, l) = {} => Kept(l))
      BY <3>1 DEF Walking, Kept
    <3> QED
      BY <3>3, <3>4, <3>5
  <2> QED
    BY <1>2, <1>3, <1>4, <2>1, <2>2 DEF KeyTyped, MasterTyped, ListsTyped
<1>6. MasterLogs
  BY <1>1, <1>3 DEF MasterLogs, Init
<1>7. PagesRead
  <2>1. \A l \in Listings : pc[l] = "idle" /\ page[l] = <<>>
    BY DEF Init
  <2> QED
    BY <2>1 DEF PagesRead, PageRead
<1>8. SteadyKept /\ Walks
  BY DEF Init, SteadyKept, Walks, Walking, Again
<1> QED
  BY <1>5, <1>6, <1>7, <1>8 DEF KeyInv
-----------------------------------------------------------------------------
LEMMA NowType ==
  ASSUME ListsTyped
  PROVE  now \in Nat
<1>1. now \in 0 .. Horizon
  BY DEF ListsTyped
<1> QED
  BY <1>1

LEMMA CallTaken ==
  ASSUME NEW c \in Calls
  PROVE  c.line \in Line /\ c.line.key \in Keys /\ c.line.op \in {"SET", "DEL", "INCR"}
BY CallLine

\* What a command leaves of its key.
LEMMA EffectType ==
  ASSUME MasterTyped, now \in Nat, NEW c \in Calls
  PROVE  /\ Effect(c) \in Entries \cup {Absent}
         /\ Effect(c) # Absent => Effect(c).by = c /\ (c.line = ForGood(c.line.key) => Effect(c).until = Never)
<1> DEFINE k == c.line.key
           ttl == c.line.ttl
<1>1. k \in Keys /\ ttl \in Int /\ c.line.op \in {"SET", "DEL", "INCR"} /\ Never \in Int
      /\ (c.line = ForGood(k) => c.line.op = "SET" /\ ttl = NoTtl)
  BY CallLine DEF Never
<1>2. db[k] \in Entries \cup {Absent}
  BY <1>1 DEF MasterTyped
<1>3. db[k] \in Entries => db[k].until \in Int
  BY DEF Entries
<1>4. Live(k) => db[k] \in Entries
  BY <1>2 DEF Live
<1>5. Effect(c) = Absent \/ \E u \in Int : /\ Effect(c) = [by |-> c, until |-> u]
                                           /\ c.line = ForGood(k) => u = Never
  <2>1. CASE c.line.op = "SET"
    <3> DEFINE u == IF ttl = NoTtl THEN Never ELSE now + ttl
    <3>1. Effect(c) = [by |-> c, until |-> u]
      BY <2>1 DEF Effect
    <3>2. u \in Int
      BY <1>1
    <3> QED
      BY <1>1, <3>1, <3>2
  <2>2. CASE c.line.op = "DEL"
    BY <2>2 DEF Effect
  <2>3. CASE c.line.op = "INCR"
    <3> DEFINE u == IF Live(k) THEN db[k].until ELSE Never
    <3>1. Effect(c) = [by |-> c, until |-> u]
      BY <2>3 DEF Effect
    <3>2. u \in Int
      BY <1>1, <1>3, <1>4
    <3> HIDE DEF u
    <3> QED
      BY <1>1, <2>3, <3>1, <3>2
  <2> QED
    BY <1>1, <2>1, <2>2, <2>3
<1>6. ASSUME NEW u \in Int, Effect(c) = [by |-> c, until |-> u]
      PROVE  Effect(c) \in Entries /\ Effect(c).by = c /\ Effect(c).until = u
  BY <1>6 DEF Entries
<1> QED
  BY <1>5, <1>6

\* The line of an entry in a snapshot.
LEMMA SavedType ==
  ASSUME MasterTyped, now \in Nat, NEW k \in Keys, db[k] # Absent
  PROVE  SavedLine(k) \in Line /\ SavedLine(k).op = "SET"
<1>1. db[k] \in Entries
  BY DEF MasterTyped
<1>2. db[k].until \in Int
  BY <1>1 DEF Entries
<1> DEFINE u == IF db[k].until > now THEN db[k].until - now ELSE NoTtl
<1>3. u \in Nat \cup {NoTtl}
  BY <1>2
<1>4. SavedLine(k) = [op |-> "SET", key |-> k, ttl |-> u]
  BY DEF SavedLine
<1> HIDE DEF u
<1> QED
  BY <1>3, <1>4 DEF Line

LEMMA NextMasterTyped ==
  ASSUME KeyTyped, [Next]_vars
  PROVE  MasterTyped'
<1> USE DEF KeyTyped
<1>1. now \in Nat
  BY NowType
<1>2. ASSUME NEW c \in Calls, Execute(c)
      PROVE  MasterTyped'
  <2>1. c.line \in Line /\ c.line.key \in Keys
    BY CallTaken
  <2>2. Effect(c) \in Entries \cup {Absent}
    BY <1>1, EffectType
  <2>3. db' \in [Keys -> Entries \cup {Absent}]
    <3>1. db' = db \/ db' = [db EXCEPT ![c.line.key] = Effect(c)]
      BY <1>2 DEF Execute
    <3> HIDE DEF KeyTyped
    <3> QED
      BY <2>1, <2>2, <3>1 DEF MasterTyped, KeyTyped
  <2>4. sent' \in [Calls -> {"unsent", "executed", "answered", "heard"}]
    <3>1. \E w \in {"executed", "answered"} : sent' = [sent EXCEPT ![c] = w]
      BY <1>2 DEF Execute
    <3> QED
      BY <3>1 DEF MasterTyped
  <2> QED
    BY <1>2, <2>3, <2>4 DEF Execute, MasterTyped
<1>3. ASSUME NEW c \in Calls, Log(c) \/ Hear(c)
      PROVE  MasterTyped'
  <2>1. wal' = wal \/ wal' = Append(wal, c.line)
    BY <1>3 DEF Log, Hear, master
  <2>2. c.line \in Line /\ wal \in Seq(Line)
    BY CallTaken DEF MasterTyped
  <2>3. wal' \in Seq(Line)
    BY <2>1, <2>2
  <2>4. \E w \in {"answered", "heard"} : sent' = [sent EXCEPT ![c] = w]
    BY <1>3 DEF Log, Hear
  <2>5. sent' \in [Calls -> {"unsent", "executed", "answered", "heard"}]
    BY <2>4 DEF MasterTyped
  <2>6. UNCHANGED <<db, rdb, saver, copy>>
    BY <1>3 DEF Log, Hear, master
  <2> QED
    BY <2>3, <2>5, <2>6 DEF MasterTyped
<1>4. CASE Truncate
  BY <1>4 DEF Truncate, MasterTyped
<1>5. CASE CopyOpen
  <2> DEFINE kept  == {k \in Keys : db[k] # Absent /\ ~(db[k].until # Never /\ db[k].until <= now)}
             lines == {SavedLine(k) : k \in kept}
             f     == [k \in kept |-> SavedLine(k)]
  <2>1. copy' = lines /\ rdb' = <<>> /\ saver' = "writing" /\ UNCHANGED <<db, wal, sent>>
    BY <1>5 DEF CopyOpen
  <2>2. \A k \in kept : k \in Keys /\ db[k] # Absent
    OBVIOUS
  <2>3. f \in Surjection(kept, lines)
    BY DEF Surjection
  <2>4. kept \in SUBSET Keys
    OBVIOUS
  <2> HIDE DEF kept
  <2>5. lines \subseteq Line
    BY <1>1, <2>2, SavedType
  <2>6. IsFiniteSet(kept)
    BY <2>4, FiniteAssumption, FS_Subset
  <2>7. IsFiniteSet(lines)
    BY <2>3, <2>6, FS_Surjection
  <2> HIDE DEF lines
  <2> QED
    BY <2>1, <2>5, <2>7 DEF MasterTyped
<1>6. CASE Write
  <2>1. SetToSeq(copy) \in Seq(copy)
    BY SetToSeqType DEF MasterTyped
  <2>2. rdb' \in Seq(Line)
    BY <1>6, <2>1, SeqMonotone DEF Write, MasterTyped
  <2> QED
    BY <1>6, <2>2, FS_EmptySet DEF Write, MasterTyped
<1>7. CASE Tick \/ UNCHANGED vars
  BY <1>7 DEF Tick, vars, master, MasterTyped
<1>8. ASSUME NEW l \in Listings,
             \/ Request(l) \/ ReadPart(l) \/ ReadRdb(l) \/ ReadWal(l) \/ ReadCut(l) \/ ReadFails(l)
             \/ ApplyRdb(l) \/ ApplyWal(l) \/ Exists(l) \/ Lose(l) \/ Judge(l)
      PROVE  MasterTyped'
  <2>1. UNCHANGED <<master, sent>>
    BY <1>8 DEF Request, ReadPart, ReadRdb, ReadWal, ReadCut, ReadFails, ApplyRdb, ApplyWal, Exists,
                Lose, Judge
  <2> QED
    BY <2>1 DEF master, MasterTyped
<1> QED
  BY <1>2, <1>3, <1>4, <1>5, <1>6, <1>7, <1>8 DEF Next

\* A line that is appended is the last word on its key, and on no other.
LEMMA LastLine ==
  ASSUME NEW lines \in Seq(Line), NEW line \in Line, NEW k \in Keys
  PROVE  /\ LastWord(Append(lines, line), line.key, line)
         /\ \A other \in Line : k # line.key /\ LastWord(lines, k, other) => LastWord(Append(lines, line), k, other)
<1> DEFINE m == Append(lines, line)
<1>1. /\ DOMAIN m = 1 .. Len(lines) + 1 /\ m[Len(lines) + 1] = line /\ Len(lines) \in Nat
      /\ \A i \in 1 .. Len(lines) : m[i] = lines[i]
      /\ DOMAIN lines = 1 .. Len(lines)
  OBVIOUS
<1> HIDE DEF m
<1>2. LastWord(m, line.key, line)
  <2> SUFFICES ASSUME NEW i \in 1 .. Len(lines) + 1,
                      \A j \in 1 .. Len(lines) + 1 : j > i => m[j].key # line.key
               PROVE  m[i] = line
    BY <1>1 DEF LastWord
  <2>1. ~(Len(lines) + 1 > i)
    BY <1>1
  <2>2. i = Len(lines) + 1
    BY <1>1, <2>1
  <2> QED
    BY <1>1, <2>2
<1>3. ASSUME NEW other \in Line, k # line.key, LastWord(lines, k, other)
      PROVE  LastWord(m, k, other)
  <2> SUFFICES ASSUME NEW i \in 1 .. Len(lines) + 1, m[i].key = k,
                      \A j \in 1 .. Len(lines) + 1 : j > i => m[j].key # k
               PROVE  m[i] = other
    BY <1>1 DEF LastWord
  <2>1. i \in 1 .. Len(lines)
    BY <1>1, <1>3
  <2>2. \A j \in 1 .. Len(lines) : j > i => lines[j].key # k
    BY <1>1
  <2>3. lines[i].key = k /\ m[i] = lines[i]
    BY <1>1, <2>1
  <2> QED
    BY <1>1, <1>3, <2>1, <2>2, <2>3 DEF LastWord
<1> QED
  BY <1>2, <1>3 DEF m

LEMMA NextMasterLogs ==
  ASSUME KeyTyped, MasterLogs, [Next]_vars
  PROVE  MasterLogs'
<1> USE DEF KeyTyped
<1>1. now \in Nat
  BY NowType
<1>2. ASSUME NEW c \in Calls, Execute(c)
      PROVE  MasterLogs'
  <2>1. c.line \in Line /\ c.line.key \in Keys
    BY CallTaken
  <2>2. UNCHANGED <<rdb, copy>>
    BY <1>2 DEF Execute
  <2>3. CASE ~c.valid
    BY <1>2, <2>3 DEF Execute, MasterLogs
  <2>4. CASE c.valid
    <3>1. db' = [db EXCEPT ![c.line.key] = Effect(c)]
      BY <1>2, <2>4 DEF Execute
    <3>2. \A k \in Keys : db'[k] = IF k = c.line.key THEN Effect(c) ELSE db[k]
      BY <3>1 DEF MasterTyped
    <3>3. ASSUME NEW k \in Keys, db'[k] # Absent
          PROVE  /\ db'[k].by.line.key = k
                 /\ db'[k].by.line = ForGood(k) => db'[k].until = Never
      BY <1>1, <3>2, <3>3, EffectType DEF MasterLogs
    <3> QED
      BY <2>2, <3>3 DEF MasterLogs
  <2> QED
    BY <2>3, <2>4
<1>3. ASSUME NEW c \in Calls, Log(c) \/ Hear(c)
      PROVE  MasterLogs'
  BY <1>3 DEF Log, Hear, master, MasterLogs
<1>4. CASE Truncate
  BY <1>4 DEF Truncate, MasterLogs
<1>5. CASE CopyOpen
  <2>1. OnlySets(rdb')
    BY <1>5 DEF CopyOpen, OnlySets
  <2>2. \A line \in copy' : line.op = "SET"
    BY <1>1, <1>5, SavedType DEF CopyOpen
  <2> QED
    BY <1>5, <2>1, <2>2 DEF CopyOpen, MasterLogs
<1>6. CASE Write
  <2>1. \A i \in DOMAIN SetToSeq(copy) : SetToSeq(copy)[i] \in copy
    BY SetToSeqType DEF MasterTyped
  <2>2. OnlySets(rdb')
    BY <1>6, <2>1 DEF Write, OnlySets, MasterLogs
  <2> QED
    BY <1>6, <2>2 DEF Write, MasterLogs
<1>7. CASE Tick \/ UNCHANGED vars
  BY <1>7 DEF Tick, vars, master, MasterLogs
<1>8. ASSUME NEW l \in Listings,
             \/ Request(l) \/ ReadPart(l) \/ ReadRdb(l) \/ ReadWal(l) \/ ReadCut(l) \/ ReadFails(l)
             \/ ApplyRdb(l) \/ ApplyWal(l) \/ Exists(l) \/ Lose(l) \/ Judge(l)
      PROVE  MasterLogs'
  <2>1. UNCHANGED master
    BY <1>8 DEF Request, ReadPart, ReadRdb, ReadWal, ReadCut, ReadFails, ApplyRdb, ApplyWal, Exists,
                Lose, Judge
  <2> QED
    BY <2>1 DEF master, MasterLogs
<1> QED
  BY <1>2, <1>3, <1>4, <1>5, <1>6, <1>7, <1>8 DEF Next
-----------------------------------------------------------------------------
\* A step that leaves the iterators where they are.
Stands(l) ==
  /\ Walking(l)' <=> Walking(l)
  /\ pc[l] = "done" => pc'[l] = "done"
  /\ loop'[l] = loop[l] /\ StaysAt(book, book', l)

LEMMA StandsTyped ==
  ASSUME ListsTyped, NEW l \in Listings, Stands(l), now' \in Nat, now <= now'
  PROVE  /\ Walking(l)' => loop'[l] \in LoopStates /\ loop'[l].since <= now'
         /\ ~Walking(l)' => loop'[l] = NoLoop /\ Passed(book', l) = {}
         /\ Kept(l)'
<1>1. CASE Walking(l)
  <2>1. loop[l] \in LoopStates /\ loop[l].since <= now
    BY <1>1 DEF ListsTyped
  <2>2. loop[l].since \in Nat /\ now \in Nat
    BY <2>1, NowType DEF LoopStates
  <2>3. loop'[l] = loop[l] /\ Walking(l)' /\ Kept(l)'
    BY <1>1 DEF Stands, Kept
  <2>4. loop[l].since <= now'
    BY <2>1, <2>2
  <2> QED
    BY <2>1, <2>3, <2>4
<1>2. CASE ~Walking(l)
  <2>1. loop[l] = NoLoop /\ Passed(book, l) = {} /\ Kept(l)
    BY <1>2 DEF ListsTyped
  <2>2. loop'[l] = loop[l] /\ ~Walking(l)' /\ Passed(book', l) = {}
    BY <1>2, <2>1 DEF Stands, StaysAt
  <2>3. Moved(book', l) = Moved(book, l)
    BY <2>1, <2>2 DEF Stands, StaysAt
  <2>4. Kept(l)'
    BY <1>2, <2>1, <2>3 DEF Stands, Kept
  <2> QED
    BY <2>1, <2>2, <2>4
<1> QED
  BY <1>1, <1>2

\* A listing that goes on.
LEMMA GoesOnTyped ==
  ASSUME ListsTyped, NEW l \in Listings, NEW b, NEW t \in Nat, t <= now, NEW rows \in Seq(Keys),
         GoesOn(b, book', l, t, rows), \A m \in Listings : StaysAt(book, b, m),
         UNCHANGED <<local, now>>, page' \in [Listings -> Seq(Line)]
  PROVE  ListsTyped'
<1>1. /\ pc \in [Listings -> Places]
      /\ found \in [Listings -> Seq(Keys)]
      /\ loop \in [Listings -> LoopStates \cup {NoLoop}]
      /\ local' \in BOOLEAN /\ now' \in 0 .. Horizon
  BY DEF ListsTyped
<1>2. GoodBook(book') /\ found' \in [Listings -> Seq(Keys)]
  BY <1>1 DEF GoesOn
<1>3. PICK p, s : /\ pc' = [pc EXCEPT ![l] = p] /\ loop' = [loop EXCEPT ![l] = s]
                  /\ \/ p = "done" /\ s = NoLoop /\ Passed(book', l) = {}
                     \/ p = "ask" /\ s \in LoopStates /\ s.since <= now
  <2>1. \A k \in Keys : LET s == [since |-> t, key |-> k, exists |-> FALSE]
                        IN  s \in LoopStates /\ s.since <= now
    BY DEF LoopStates
  <2> QED
    BY <2>1 DEF GoesOn
<1>4. p \in {"done", "ask"} /\ p \in Places /\ s \in LoopStates \cup {NoLoop}
  BY <1>3 DEF Places
<1>5. pc'[l] = p /\ loop'[l] = s /\ \A m \in Listings : m # l => pc'[m] = pc[m] /\ loop'[m] = loop[m]
  BY <1>1, <1>3
<1>6. pc' \in [Listings -> Places]
  BY <1>1, <1>3, <1>4
<1>7. loop' \in [Listings -> LoopStates \cup {NoLoop}]
  BY <1>1, <1>3, <1>4
<1>8. /\ Walking(l)' => loop'[l] \in LoopStates /\ loop'[l].since <= now'
      /\ ~Walking(l)' => loop'[l] = NoLoop /\ Passed(book', l) = {}
      /\ Kept(l)'
  <2>1. (Walking(l)' <=> p \in {"ask", "judge"}) /\ Kept(l)'
    BY <1>4, <1>5 DEF Walking, Kept
  <2> QED
    BY <1>3, <1>5, <2>1
<1>9. ASSUME NEW m \in Listings, m # l
      PROVE  Stands(m)
  <2>1. StaysAt(book, book', m)
    BY <1>9, StaysTwice DEF GoesOn
  <2> QED
    BY <1>5, <1>9, <2>1 DEF Stands, Walking
<1>10. now' \in Nat /\ now <= now'
  BY NowType
<1>11. \A m \in Listings :
         /\ Walking(m)' => loop'[m] \in LoopStates /\ loop'[m].since <= now'
         /\ ~Walking(m)' => loop'[m] = NoLoop /\ Passed(book', m) = {}
         /\ Kept(m)'
  BY <1>8, <1>9, <1>10, StandsTyped
<1> QED
  BY <1>1, <1>2, <1>6, <1>7, <1>11 DEF ListsTyped

\* A file that is emptied moves those who have read a part of it.
LEMMA EmptiedPlaces ==
  ASSUME ListsTyped, NEW file, NEW cut \in {"rdbCut", "walCut"}, Emptied(file, cut)
  PROVE  /\ pc' \in [Listings -> Places]
         /\ \A l \in Listings : pc'[l] # pc[l] => pc[l] = file /\ page[l] # <<>> /\ pc'[l] = cut
<1>1. pc \in [Listings -> Places] /\ cut \in Places
  BY DEF ListsTyped, Places
<1> QED
  BY <1>1 DEF Emptied

LEMMA StaysThere ==
  ASSUME NEW b, NEW l
  PROVE  StaysAt(b, b, l)
BY DEF StaysAt

\* What the first steps of a listing hand to the loop.
LEMMA AppliedBook ==
  ASSUME KeyTyped, NEW l \in Listings
  PROVE  LET b == RememberAll(book, page[l], now)
         IN  /\ GoodBook(b)
             /\ \A m \in Listings : StaysAt(book, b, m)
             /\ OnlySets(page[l]) => \A k \in Tracked(book) : k \in Tracked(b)
             /\ \A k \in Keys : LastWord(page[l], k, ForGood(k)) /\ LastsIn(book, k) => LastsIn(b, k)
<1>1. GoodBook(book) /\ page[l] \in Seq(Line) /\ now \in Nat
  BY NowType DEF KeyTyped, ListsTyped
<1> QED
  BY <1>1, RememberAllEffect

LEMMA JudgedBook ==
  ASSUME KeyTyped, NEW l \in Listings, Walking(l), NEW b,
         b = IF loop[l].exists THEN book ELSE Drop(book, {loop[l].key})
  PROVE  /\ GoodBook(b)
         /\ \A m \in Listings : StaysAt(book, b, m)
         /\ \A k \in Keys : (k = loop[l].key => loop[l].exists) /\ LastsIn(book, k) => LastsIn(b, k)
<1>1. GoodBook(book)
  BY DEF KeyTyped, ListsTyped
<1>2. CASE loop[l].exists
  BY <1>1, <1>2, StaysThere
<1>3. CASE ~loop[l].exists
  <2> DEFINE X == {loop[l].key}
  <2>1. b = Drop(book, X) /\ \A k : k \in X <=> k = loop[l].key
    BY <1>3
  <2> HIDE DEF X
  <2>2. /\ GoodBook(b) /\ \A m \in Listings : StaysAt(book, b, m)
        /\ Tracked(b) = Tracked(book) \ X
        /\ \A j \in Keys : j \notin X => Expiry(b, j) = Expiry(book, j)
    BY <1>1, <2>1, DropEffect
  <2>3. \A k \in Keys : k # loop[l].key /\ LastsIn(book, k) => LastsIn(b, k)
    BY <2>1, <2>2 DEF LastsIn
  <2> QED
    BY <1>3, <2>2, <2>3
<1> QED
  BY <1>2, <1>3

\* The two steps after which a listing goes on.
LEMMA ApplyWalGoesOn ==
  ASSUME KeyTyped, NEW l \in Listings, ApplyWal(l)
  PROVE  /\ GoesOn(RememberAll(book, page[l], now), book', l, now, <<>>)
         /\ GoodBook(RememberAll(book, page[l], now))
         /\ pc[l] = "walRead" /\ page' = [page EXCEPT ![l] = <<>>]
         /\ UNCHANGED <<master, local, now, sent, bounds, history>>
<1>1. GoOn(RememberAll(book, page[l], now), l, now, <<>>)
  BY DEF ApplyWal
<1>2. GoodBook(RememberAll(book, page[l], now)) /\ now \in Nat
  BY AppliedBook, NowType DEF KeyTyped
<1>3. GoesOn(RememberAll(book, page[l], now), book', l, now, <<>>)
  BY <1>1, <1>2, GoOnEffect
<1> QED
  BY <1>2, <1>3 DEF ApplyWal

JudgedRows(l) == IF loop[l].exists THEN Append(found[l], loop[l].key) ELSE found[l]
JudgedMap(l)  == IF loop[l].exists THEN book ELSE Drop(book, {loop[l].key})

LEMMA JudgeGoesOn ==
  ASSUME KeyTyped, NEW l \in Listings, Judge(l)
  PROVE  /\ GoesOn(JudgedMap(l), book', l, loop[l].since, JudgedRows(l))
         /\ GoodBook(JudgedMap(l)) /\ JudgedRows(l) \in Seq(Keys)
         /\ pc[l] = "judge" /\ Walking(l) /\ loop[l] \in LoopStates
         /\ loop[l].key \in Keys /\ loop[l].since \in Nat /\ loop[l].since <= now
         /\ UNCHANGED <<master, local, now, sent, page, bounds, history>>
<1>1. pc[l] = "judge" /\ Walking(l) /\ UNCHANGED <<master, local, now, sent, page, bounds, history>>
  BY DEF Judge, Walking
<1>2. loop[l] \in LoopStates /\ loop[l].since <= now /\ found[l] \in Seq(Keys)
  BY <1>1 DEF KeyTyped, ListsTyped
<1>3. loop[l].key \in Keys /\ loop[l].since \in Nat
  BY <1>2 DEF LoopStates
<1>4. GoodBook(JudgedMap(l))
  BY <1>1, JudgedBook DEF JudgedMap
<1>5. GoOn(JudgedMap(l), l, loop[l].since, JudgedRows(l))
  BY DEF Judge, JudgedMap, JudgedRows
<1>6. GoesOn(JudgedMap(l), book', l, loop[l].since, JudgedRows(l))
  BY <1>3, <1>4, <1>5, GoOnEffect
<1>7. JudgedRows(l) \in Seq(Keys)
  BY <1>2, <1>3 DEF JudgedRows
<1> QED
  BY <1>1, <1>2, <1>3, <1>4, <1>6, <1>7
-----------------------------------------------------------------------------
\* A piece of a file.
LEMMA PieceOf ==
  ASSUME NEW lines \in Seq(Line), NEW i \in Nat \ {0}, NEW j \in 0 .. Len(lines)
  PROVE  /\ SubSeq(lines, i, j) \in Seq(Line)
         /\ \A n \in DOMAIN SubSeq(lines, i, j) :
              n + i - 1 \in DOMAIN lines /\ SubSeq(lines, i, j)[n] = lines[n + i - 1]
<1>1. DOMAIN lines = 1 .. Len(lines) /\ Len(lines) \in Nat /\ j \in Nat
  OBVIOUS
<1> DEFINE piece == SubSeq(lines, i, j)
<1>2. piece = [n \in 1 .. (j - i + 1) |-> lines[i + n - 1]]
  BY <1>1 DEF SubSeq
<1> HIDE DEF piece
<1>3. \A n \in 1 .. (j - i + 1) : i + n - 1 \in 1 .. Len(lines) /\ i + n - 1 = n + i - 1
  BY <1>1
<1>4. DOMAIN piece = 1 .. (j - i + 1) /\ \A n \in DOMAIN piece : piece[n] = lines[i + n - 1]
  BY <1>2
<1>5. piece \in Seq(Line)
  <2>1. \A n \in 1 .. (j - i + 1) : piece[n] \in Line
    BY <1>1, <1>3, <1>4
  <2>2. \E m \in Nat : 1 .. (j - i + 1) = 1 .. m
    <3>1. CASE j - i + 1 >= 0
      <4>1. j - i + 1 \in Nat
        BY <1>1, <3>1
      <4> QED
        BY <4>1
    <3>2. CASE j - i + 1 < 0
      <4>1. 1 .. (j - i + 1) = 1 .. 0
        BY <1>1, <3>2
      <4> QED
        BY <4>1
    <3> QED
      BY <1>1, <3>1, <3>2
  <2>3. PICK m \in Nat : 1 .. (j - i + 1) = 1 .. m
    BY <2>2
  <2>4. piece \in [1 .. m -> Line]
    BY <1>2, <1>4, <2>1, <2>3
  <2> QED
    BY <2>4
<1>6. \A n \in DOMAIN piece : n + i - 1 \in DOMAIN lines /\ piece[n] = lines[n + i - 1]
  BY <1>1, <1>3, <1>4
<1> QED
  BY <1>5, <1>6 DEF piece

LEMMA PageTypes ==
  ASSUME KeyTyped, NEW l \in Listings, NEW lines \in Seq(Line),
         page' = page \/ page' = [page EXCEPT ![l] = lines]
  PROVE  page' \in [Listings -> Seq(Line)]
BY DEF KeyTyped, ListsTyped

\* The steps with which a listing reads the files.
LEMMA ReadsOn ==
  ASSUME ListsTyped, NEW l \in Listings,
         \/ Request(l) \/ ReadPart(l) \/ ReadRdb(l) \/ ReadWal(l) \/ ReadCut(l) \/ ReadFails(l)
  PROVE  /\ pc[l] \in {"idle", "rdb", "rdbCut", "wal", "walCut"}
         /\ \E p \in {"rdb", "wal", "rdbRead", "walRead", "failed"} : pc' = [pc EXCEPT ![l] = p]
         /\ UNCHANGED <<master, local, now, sent, loop, found, book>>
<1>1. pc \in [Listings -> Places]
  BY DEF ListsTyped
<1>2. ASSUME pc' = pc, pc[l] \in {"rdb", "wal"}
      PROVE  \E p \in {"rdb", "wal"} : pc' = [pc EXCEPT ![l] = p]
  BY <1>1, <1>2
<1>3. \E p \in {"rdb", "wal", "rdbRead", "walRead", "failed"} : pc' = [pc EXCEPT ![l] = p]
  BY <1>2 DEF Request, ReadPart, ReadRdb, ReadWal, ReadCut, ReadFails
<1> QED
  BY <1>3 DEF Request, ReadPart, ReadRdb, ReadWal, ReadCut, ReadFails

LEMMA NextListsTyped ==
  ASSUME KeyTyped, [Next]_vars
  PROVE  ListsTyped'
<1>1. /\ ListsTyped /\ local \in BOOLEAN /\ GoodBook(book)
      /\ page \in [Listings -> Seq(Line)] /\ found \in [Listings -> Seq(Keys)]
      /\ pc \in [Listings -> Places]
      /\ loop \in [Listings -> LoopStates \cup {NoLoop}]
      /\ wal \in Seq(Line) /\ rdb \in Seq(Line)
  BY DEF KeyTyped, ListsTyped, MasterTyped
<1>2. now \in Nat /\ now <= now /\ now \in 0 .. Horizon /\ Horizon \in Nat
  <2>1. now \in 0 .. Horizon /\ Horizon \in Nat
    BY BoundsAssumption DEF KeyTyped, ListsTyped
  <2> QED
    BY <2>1
\* The listings stand.
<1>3. ASSUME UNCHANGED <<local, page, found>>, now' \in 0 .. Horizon, now <= now',
             GoodBook(book'), pc' \in [Listings -> Places], loop' = loop, \A l \in Listings : Stands(l)
      PROVE  ListsTyped'
  <2>1. now' \in Nat
    BY <1>2, <1>3
  <2>2. \A l \in Listings :
          /\ Walking(l)' => loop'[l] \in LoopStates /\ loop'[l].since <= now'
          /\ ~Walking(l)' => loop'[l] = NoLoop /\ Passed(book', l) = {}
          /\ Kept(l)'
    BY <1>1, <1>3, <2>1, StandsTyped
  <2> QED
    BY <1>1, <1>3, <2>2 DEF ListsTyped
\* A listing steps without looping.
<1>4. ASSUME NEW l \in Listings, ~Walking(l), pc[l] # "done", NEW p \in Places, pc' = [pc EXCEPT ![l] = p],
             p \notin {"ask", "judge"},
             page' \in [Listings -> Seq(Line)], UNCHANGED <<local, now, loop, found>>,
             GoodBook(book'), \A m \in Listings : StaysAt(book, book', m)
      PROVE  ListsTyped'
  <2>1. pc'[l] = p /\ \A m \in Listings : m # l => pc'[m] = pc[m]
    BY <1>1, <1>4
  <2>2. pc' \in [Listings -> Places]
    BY <1>1, <1>4
  <2>3. \A m \in Listings : Stands(m)
    BY <1>4, <2>1 DEF Stands, Walking
  <2>4. now' \in Nat /\ now <= now'
    BY <1>2, <1>4
  <2>5. \A m \in Listings :
          /\ Walking(m)' => loop'[m] \in LoopStates /\ loop'[m].since <= now'
          /\ ~Walking(m)' => loop'[m] = NoLoop /\ Passed(book', m) = {}
          /\ Kept(m)'
    BY <1>1, <2>3, <2>4, StandsTyped
  <2> QED
    BY <1>1, <1>4, <2>2, <2>5 DEF ListsTyped
\* The answer about a key comes.
<1>5. ASSUME NEW l \in Listings, pc[l] = "ask", pc' = [pc EXCEPT ![l] = "judge"],
             UNCHANGED <<local, now, book, page, found>>,
             NEW e \in BOOLEAN, loop' = loop \/ loop' = [loop EXCEPT ![l].exists = e]
      PROVE  ListsTyped'
  <2>1. pc'[l] = "judge" /\ \A m \in Listings : m # l => pc'[m] = pc[m]
    BY <1>1, <1>5
  <2>2. pc' \in [Listings -> Places]
    BY <1>1, <1>5 DEF Places
  <2>3. loop[l] \in LoopStates /\ loop[l].since <= now
    BY <1>5 DEF KeyTyped, ListsTyped, Walking
  <2>4. loop'[l] \in LoopStates /\ loop'[l].since = loop[l].since
    <3>1. loop'[l] = loop[l] \/ loop'[l] = [loop[l] EXCEPT !.exists = e]
      BY <1>1, <1>5
    <3> QED
      BY <2>3, <3>1 DEF LoopStates
  <2>5. \A m \in Listings : m # l => loop'[m] = loop[m]
    BY <1>1, <1>5
  <2>6. \A m \in Listings : m # l => Stands(m)
    BY <1>5, <2>1, <2>5, StaysThere DEF Stands, Walking
  <2>7. DOMAIN loop' = Listings /\ loop' = [m \in Listings |-> loop'[m]]
    BY <1>1, <1>5
  <2>8. loop' \in [Listings -> LoopStates \cup {NoLoop}]
    BY <1>1, <2>4, <2>5, <2>7
  <2>9. now' \in Nat /\ now <= now' /\ now' = now
    BY <1>2, <1>5
  <2>10. Walking(l)' /\ Kept(l)' /\ loop'[l].since <= now'
    BY <2>1, <2>3, <2>4, <2>9 DEF Walking, Kept
  <2>11. \A m \in Listings :
           /\ Walking(m)' => loop'[m] \in LoopStates /\ loop'[m].since <= now'
           /\ ~Walking(m)' => loop'[m] = NoLoop /\ Passed(book', m) = {}
           /\ Kept(m)'
    BY <1>1, <2>4, <2>6, <2>9, <2>10, StandsTyped
  <2> QED
    BY <1>1, <1>5, <2>2, <2>8, <2>11 DEF ListsTyped
<1>6. ASSUME UNCHANGED <<local, listing>>, now' \in 0 .. Horizon, now <= now',
             GoodBook(book'), \A l \in Listings : StaysAt(book, book', l)
      PROVE  ListsTyped'
  <2>1. UNCHANGED <<pc, page, loop, found>>
    BY <1>6 DEF listing
  <2>2. \A l \in Listings : Stands(l)
    BY <1>6, <2>1 DEF Stands, Walking
  <2> QED
    BY <1>1, <1>3, <1>6, <2>1, <2>2
<1>7. ASSUME \/ \E c \in Calls : Execute(c) \/ Log(c)
             \/ Write \/ UNCHANGED vars
      PROVE  ListsTyped'
  <2>1. UNCHANGED <<local, listing, now, book>>
    BY <1>7 DEF Execute, Log, Write, vars
  <2>2. now' \in 0 .. Horizon /\ now <= now'
    BY <1>2, <2>1
  <2> QED
    BY <1>1, <1>6, <2>1, <2>2, StaysThere
<1>8. CASE Tick
  <2>1. UNCHANGED <<local, listing, book>> /\ now' = now + 1 /\ now < Horizon
    BY <1>8 DEF Tick
  <2>2. now' \in 0 .. Horizon /\ now <= now'
    BY <1>2, <2>1
  <2> QED
    BY <1>1, <1>6, <2>1, <2>2, StaysThere
<1>9. ASSUME NEW c \in Calls, Hear(c)
      PROVE  ListsTyped'
  <2>1. UNCHANGED <<local, listing, now>> /\ book' = Remember(book, c.line, now)
    BY <1>9 DEF Hear
  <2>2. c.line \in Line
    BY CallTaken
  <2>3. GoodBook(book') /\ \A l \in Listings : StaysAt(book, book', l)
    BY <1>1, <1>2, <2>1, <2>2, RememberEffect
  <2>4. now' \in 0 .. Horizon /\ now <= now'
    BY <1>2, <2>1
  <2> QED
    BY <1>6, <2>1, <2>3, <2>4
<1>10. ASSUME NEW l \in Listings,
              \/ Request(l) \/ ReadPart(l) \/ ReadRdb(l) \/ ReadWal(l) \/ ReadCut(l) \/ ReadFails(l)
       PROVE  ListsTyped'
  <2>1. /\ pc[l] \in {"idle", "rdb", "rdbCut", "wal", "walCut"}
        /\ UNCHANGED <<local, now, loop, found, book>>
    BY <1>1, <1>10, ReadsOn
  <2>2. \E p \in {"rdb", "wal", "rdbRead", "walRead", "failed"} : pc' = [pc EXCEPT ![l] = p]
    BY <1>1, <1>10, ReadsOn
  <2>3. \E lines \in Seq(Line) : page' = page \/ page' = [page EXCEPT ![l] = lines]
    <3>1. CASE Request(l) \/ ReadFails(l)
      BY <3>1, EmptyList DEF Request, ReadFails
    <3>2. CASE ReadRdb(l) \/ ReadWal(l)
      BY <1>1, <3>2, EmptyList DEF ReadRdb, ReadWal
    <3>3. CASE ReadPart(l)
      <4>1. File(l) \in Seq(Line) /\ page[l] \in Seq(Line)
        BY <1>1 DEF File
      <4>2. PICK n \in Len(page[l]) + 1 .. Len(File(l)) : page' = [page EXCEPT ![l] = SubSeq(File(l), 1, n)]
        BY <3>3 DEF ReadPart
      <4>3. SubSeq(File(l), 1, n) \in Seq(Line)
        BY <4>1, <4>2, PieceOf
      <4> QED
        BY <4>2, <4>3
    <3>4. CASE ReadCut(l)
      <4>1. File(l) \in Seq(Line) /\ page[l] \in Seq(Line)
        BY <1>1 DEF File
      <4>2. PICK n \in 0 .. Len(File(l)) :
              page' = [page EXCEPT ![l] = @ \o SubSeq(File(l), n + 1, Len(File(l)))]
        BY <3>4 DEF ReadCut
      <4>3. page[l] \o SubSeq(File(l), n + 1, Len(File(l))) \in Seq(Line)
        BY <4>1, <4>2, PieceOf
      <4>4. page' = [page EXCEPT ![l] = page[l] \o SubSeq(File(l), n + 1, Len(File(l)))]
        BY <4>2
      <4> QED
        BY <4>3, <4>4
    <3> QED
      BY <1>10, <3>1, <3>2, <3>3, <3>4
  <2>4. page' \in [Listings -> Seq(Line)]
    BY <1>1, <2>3, PageTypes
  <2>5. ~Walking(l) /\ pc[l] # "done"
    BY <2>1 DEF Walking
  <2>6. \A p \in {"rdb", "wal", "rdbRead", "walRead", "failed"} :
          p \in Places /\ p \notin {"ask", "judge"}
    BY DEF Places
  <2> QED
    BY <1>1, <1>4, <2>1, <2>2, <2>4, <2>5, <2>6, StaysThere
<1>11. ASSUME NEW l \in Listings, ApplyRdb(l)
       PROVE  ListsTyped'
  <2>1. /\ pc[l] = "rdbRead" /\ pc' = [pc EXCEPT ![l] = "wal"]
        /\ page' = [page EXCEPT ![l] = <<>>] /\ UNCHANGED <<local, now, loop, found>>
        /\ book' = RememberAll(book, page[l], now)
    BY <1>11 DEF ApplyRdb
  <2>2. GoodBook(book') /\ \A m \in Listings : StaysAt(book, book', m)
    BY <2>1, AppliedBook
  <2>3. page' \in [Listings -> Seq(Line)]
    BY <2>1, EmptyList, PageTypes
  <2>4. ~Walking(l) /\ pc[l] # "done" /\ "wal" \in Places
    BY <2>1 DEF Walking, Places
  <2> QED
    BY <1>4, <2>1, <2>2, <2>3, <2>4
<1>12. ASSUME NEW l \in Listings, ApplyWal(l)
       PROVE  ListsTyped'
  <2> DEFINE b == RememberAll(book, page[l], now)
  <2>1. GoesOn(b, book', l, now, <<>>) /\ page' = [page EXCEPT ![l] = <<>>] /\ UNCHANGED <<local, now>>
    BY <1>12, ApplyWalGoesOn
  <2>2. \A m \in Listings : StaysAt(book, b, m)
    BY AppliedBook
  <2> HIDE DEF b
  <2>3. <<>> \in Seq(Keys)
    BY EmptyList
  <2>4. page' \in [Listings -> Seq(Line)]
    BY <2>1, EmptyList, PageTypes
  <2> QED
    BY <1>1, <1>2, <2>1, <2>2, <2>3, <2>4, GoesOnTyped
<1>13. ASSUME NEW l \in Listings, Judge(l)
       PROVE  ListsTyped'
  <2>1. /\ GoesOn(JudgedMap(l), book', l, loop[l].since, JudgedRows(l))
        /\ JudgedRows(l) \in Seq(Keys) /\ Walking(l)
        /\ loop[l].since \in Nat /\ loop[l].since <= now
        /\ UNCHANGED <<local, now, page>>
    BY <1>13, JudgeGoesOn
  <2>2. \A m \in Listings : StaysAt(book, JudgedMap(l), m)
    BY <2>1, JudgedBook DEF JudgedMap
  <2>3. page' \in [Listings -> Seq(Line)]
    BY <1>1, <2>1
  <2> QED
    BY <1>1, <2>1, <2>2, <2>3, GoesOnTyped
<1>14. ASSUME NEW l \in Listings, Exists(l)
       PROVE  ListsTyped'
  <2> DEFINE e == Live(loop[l].key)
  <2>1. e \in BOOLEAN
    BY DEF Live
  <2>2. /\ pc[l] = "ask" /\ pc' = [pc EXCEPT ![l] = "judge"]
        /\ UNCHANGED <<local, now, book, page, found>>
        /\ loop' = [loop EXCEPT ![l].exists = e]
    BY <1>14 DEF Exists
  <2> HIDE DEF e
  <2> QED
    BY <1>5, <2>1, <2>2
<1>15. ASSUME NEW l \in Listings, Lose(l)
       PROVE  ListsTyped'
  <2> DEFINE e == TRUE
  <2>1. e \in BOOLEAN
    OBVIOUS
  <2>2. /\ pc[l] = "ask" /\ pc' = [pc EXCEPT ![l] = "judge"]
        /\ UNCHANGED <<local, now, book, page, found, loop>>
    BY <1>15 DEF Lose
  <2> HIDE DEF e
  <2> QED
    BY <1>5, <2>1, <2>2
\* A file is emptied.
<1>16. CASE Truncate \/ CopyOpen
  <2>1. UNCHANGED <<local, page, found, loop, now, book>>
    BY <1>16 DEF Truncate, CopyOpen
  <2>2. PICK file \in {"rdb", "wal"}, cut \in {"rdbCut", "walCut"} : Emptied(file, cut)
    <3>1. Emptied("wal", "walCut") \/ Emptied("rdb", "rdbCut")
      BY <1>16 DEF Truncate, CopyOpen
    <3> QED
      BY <3>1
  <2>3. /\ pc' \in [Listings -> Places]
        /\ \A l \in Listings : pc'[l] # pc[l] => pc[l] = file /\ pc'[l] = cut
    BY <1>1, <2>2, EmptiedPlaces
  <2>4. \A l \in Listings : Stands(l)
    BY <2>1, <2>2, <2>3, StaysThere DEF Stands, Walking
  <2>5. now' \in 0 .. Horizon /\ now <= now'
    BY <1>2, <2>1
  <2> QED
    BY <1>1, <1>3, <2>1, <2>3, <2>4, <2>5
<1> QED
  BY <1>6, <1>7, <1>8, <1>9, <1>10, <1>11, <1>12, <1>13, <1>14, <1>15, <1>16 DEF Next

LEMMA NextKeyTyped ==
  ASSUME KeyTyped, [Next]_vars
  PROVE  KeyTyped'
<1>1. MasterTyped' /\ ListsTyped'
  BY NextMasterTyped, NextListsTyped
<1>2. saves' \in 0 .. MaxSaves /\ losses' \in 0 .. MaxLosses
  <2>1. saves' = saves \/ (saves < MaxSaves /\ saves' = saves + 1)
    BY DEF Next, vars, bounds, Execute, Log, Hear, Truncate, CopyOpen, Write, Tick, Request, ReadPart,
           ReadRdb, ReadWal, ReadCut, ReadFails, ApplyRdb, ApplyWal, Exists, Lose, Judge
  <2>2. losses' = losses \/ (losses < MaxLosses /\ losses' = losses + 1)
    BY DEF Next, vars, bounds, Execute, Log, Hear, Truncate, CopyOpen, Write, Tick, Request, ReadPart,
           ReadRdb, ReadWal, ReadCut, ReadFails, ApplyRdb, ApplyWal, Exists, Lose, Judge
  <2> QED
    BY <2>1, <2>2, BoundsAssumption DEF KeyTyped
<1>3. steady' \subseteq Keys /\ promised' \in [Listings -> SUBSET Keys]
  <2>1. steady \subseteq Keys /\ promised \in [Listings -> SUBSET Keys]
    BY DEF KeyTyped
  <2>2. ASSUME NEW S, Keep(S), S \subseteq Keys
        PROVE  steady' \subseteq Keys /\ promised' \in [Listings -> SUBSET Keys]
    BY <2>1, <2>2 DEF Keep
  <2>3. ASSUME NEW l \in Listings, Request(l)
        PROVE  steady' \subseteq Keys /\ promised' \in [Listings -> SUBSET Keys]
    BY <2>1, <2>3 DEF Request
  <2>4. ASSUME NEW c \in Calls, Execute(c) \/ Hear(c)
        PROVE  \E S : Keep(S) /\ S \subseteq Keys
    <3>1. c.line.key \in Keys
      BY CallTaken
    <3> QED
      BY <2>1, <2>4, <3>1 DEF Execute, Hear
  <2>5. ASSUME NEW l \in Listings, ApplyRdb(l) \/ Lose(l)
        PROVE  \E S : Keep(S) /\ S \subseteq Keys
    <3> DEFINE S1 == {k \in steady : book'.expires[k] = Never}
               S2 == steady \ {loop[l].key}
    <3>1. Keep(S1) \/ Keep(S2)
      BY <2>5 DEF ApplyRdb, Lose
    <3>2. S1 \subseteq Keys /\ S2 \subseteq Keys
      BY <2>1
    <3> HIDE DEF S1, S2
    <3> QED
      BY <3>1, <3>2
  <2>6. CASE Truncate
    <3>1. PICK S \in SUBSET steady : Keep(S)
      BY <2>6 DEF Truncate
    <3> QED
      BY <2>1, <2>2, <3>1
  <2>7. \/ UNCHANGED history
        \/ \E c \in Calls : Execute(c) \/ Hear(c)
        \/ \E l \in Listings : Request(l) \/ ApplyRdb(l) \/ Lose(l)
        \/ Truncate
    BY DEF Next, vars, Log, CopyOpen, Write, Tick, ReadPart, ReadRdb, ReadWal, ReadCut, ReadFails,
           ApplyWal, Exists, Judge
  <2> QED
    BY <2>1, <2>2, <2>3, <2>4, <2>5, <2>6, <2>7 DEF history
<1> QED
  BY <1>1, <1>2, <1>3 DEF KeyTyped
-----------------------------------------------------------------------------
\* The keys that are steady after a step were so before, unless the answer to
\* the command that stored the key came.
LEMMA SteadySteps ==
  ASSUME KeyTyped, [Next]_vars
  PROVE  \/ steady' \subseteq steady /\ \A l \in Listings : promised'[l] \subseteq promised[l] \cup steady
         \/ \E c \in Calls : Hear(c) /\ StoredForGood(c) /\ steady' = steady \cup {c.line.key}
<1>1. promised \in [Listings -> SUBSET Keys]
  BY DEF KeyTyped
<1>2. ASSUME NEW S, Keep(S), S \subseteq steady
      PROVE  steady' \subseteq steady /\ \A l \in Listings : promised'[l] \subseteq promised[l] \cup steady
  BY <1>1, <1>2 DEF Keep
<1>3. CASE UNCHANGED history
  BY <1>3 DEF history
<1>4. ASSUME NEW l \in Listings, Request(l)
      PROVE  steady' \subseteq steady /\ \A m \in Listings : promised'[m] \subseteq promised[m] \cup steady
  BY <1>1, <1>4 DEF Request
<1>5. ASSUME NEW c \in Calls, Execute(c)
      PROVE  \E S : Keep(S) /\ S \subseteq steady
  BY <1>5 DEF Execute
<1>6. ASSUME NEW c \in Calls, Hear(c), ~StoredForGood(c)
      PROVE  \E S : Keep(S) /\ S \subseteq steady
  BY <1>6 DEF Hear
<1>7. ASSUME NEW c \in Calls, Hear(c), StoredForGood(c)
      PROVE  steady' = steady \cup {c.line.key}
  BY <1>7 DEF Hear, Keep
<1>8. ASSUME NEW l \in Listings, ApplyRdb(l) \/ Lose(l)
      PROVE  \E S : Keep(S) /\ S \subseteq steady
  <2> DEFINE S1 == {k \in steady : book'.expires[k] = Never}
             S2 == steady \ {loop[l].key}
  <2>1. Keep(S1) \/ Keep(S2)
    BY <1>8 DEF ApplyRdb, Lose
  <2>2. S1 \subseteq steady /\ S2 \subseteq steady
    OBVIOUS
  <2> HIDE DEF S1, S2
  <2> QED
    BY <2>1, <2>2
<1>9. CASE Truncate
  <2>1. PICK S \in SUBSET steady : Keep(S)
    BY <1>9 DEF Truncate
  <2> QED
    BY <1>2, <2>1
<1>10. \/ UNCHANGED history
       \/ \E c \in Calls : Execute(c) \/ Hear(c)
       \/ \E l \in Listings : Request(l) \/ ApplyRdb(l) \/ Lose(l)
       \/ Truncate
  BY DEF Next, vars, Log, CopyOpen, Write, Tick, ReadPart, ReadRdb, ReadWal, ReadCut, ReadFails,
         ApplyWal, Exists, Judge
<1> QED
  BY <1>2, <1>3, <1>4, <1>5, <1>6, <1>7, <1>8, <1>9, <1>10

\* What is put together from two files in which k is stored for good.
LEMMA LastOfBoth ==
  ASSUME NEW u \in Seq(Line), NEW v \in Seq(Line), NEW n \in 0 .. Len(v), NEW k, NEW line,
         LastWord(u, k, line), LastWord(v, k, line)
  PROVE  LastWord(u \o SubSeq(v, n + 1, Len(v)), k, line)
<1> DEFINE w == SubSeq(v, n + 1, Len(v))
           c == u \o w
<1>1. n \in Nat /\ Len(v) \in Nat /\ n + 1 \in Nat \ {0} /\ Len(u) \in Nat
  OBVIOUS
<1>2. /\ w \in Seq(Line) /\ DOMAIN w = 1 .. (Len(v) - n)
      /\ \A i \in 1 .. (Len(v) - n) : w[i] = v[i + n]
  <2>1. w \in Seq(Line)
    BY <1>1, PieceOf
  <2>2. w = [i \in 1 .. (Len(v) - (n + 1) + 1) |-> v[(n + 1) + i - 1]]
    BY <1>1 DEF SubSeq
  <2> HIDE DEF w
  <2>3. Len(v) - (n + 1) + 1 = Len(v) - n /\ \A i \in 1 .. (Len(v) - n) : (n + 1) + i - 1 = i + n
    BY <1>1
  <2> QED
    BY <2>1, <2>2, <2>3
<1> HIDE DEF w
<1>3. /\ DOMAIN c = 1 .. Len(u) + (Len(v) - n)
      /\ \A i \in 1 .. Len(u) : c[i] = u[i]
      /\ \A i \in 1 .. (Len(v) - n) : c[Len(u) + i] = v[i + n]
  <2>1. Len(w) = Len(v) - n
    BY <1>1, <1>2
  <2> QED
    BY <1>1, <1>2, <2>1
<1> HIDE DEF c
<1> SUFFICES LastWord(c, k, line)
  BY DEF c, w
<1> SUFFICES ASSUME NEW i \in DOMAIN c, c[i].key = k, \A j \in DOMAIN c : j > i => c[j].key # k
             PROVE  c[i] = line
  BY DEF LastWord
<1>4. CASE i <= Len(u)
  <2>1. i \in 1 .. Len(u) /\ c[i] = u[i]
    BY <1>1, <1>3, <1>4
  <2>2. \A j \in 1 .. Len(u) : j \in DOMAIN c /\ c[j] = u[j]
    BY <1>1, <1>3
  <2>3. DOMAIN u = 1 .. Len(u)
    OBVIOUS
  <2>4. u[i].key = k /\ \A j \in DOMAIN u : j > i => u[j].key # k
    BY <2>1, <2>2, <2>3
  <2> QED
    BY <2>1, <2>3, <2>4 DEF LastWord
<1>5. CASE i > Len(u)
  <2> DEFINE p == i - Len(u)
  <2>1. p \in 1 .. (Len(v) - n) /\ i = Len(u) + p
    BY <1>1, <1>3, <1>5
  <2> HIDE DEF p
  <2>2. p + n \in 1 .. Len(v) /\ c[i] = v[p + n]
    BY <1>1, <1>3, <2>1
  <2>3. ASSUME NEW q \in 1 .. Len(v), q > p + n
        PROVE  v[q].key # k
    <3>1. /\ q - n \in 1 .. (Len(v) - n) /\ (q - n) + n = q
          /\ Len(u) + (q - n) \in DOMAIN c /\ Len(u) + (q - n) > i
      BY <1>1, <1>3, <2>1, <2>3
    <3>2. c[Len(u) + (q - n)] = v[q]
      BY <1>3, <3>1
    <3> QED
      BY <3>1, <3>2
  <2>4. DOMAIN v = 1 .. Len(v)
    OBVIOUS
  <2> QED
    BY <2>2, <2>3, <2>4 DEF LastWord
<1> QED
  BY <1>1, <1>3, <1>4, <1>5

LEMMA OnlySetsOf ==
  ASSUME NEW u \in Seq(Line), NEW v \in Seq(Line), OnlySets(u), OnlySets(v),
         NEW i \in Nat \ {0}, NEW j \in 0 .. Len(v)
  PROVE  OnlySets(SubSeq(v, i, j)) /\ OnlySets(u \o SubSeq(v, i, j))
<1> DEFINE w == SubSeq(v, i, j)
           c == u \o w
<1>1. w \in Seq(Line) /\ OnlySets(w)
  BY PieceOf DEF OnlySets
<1> HIDE DEF w
<1>2. \A n \in DOMAIN c : \/ n \in DOMAIN u /\ c[n] = u[n]
                          \/ n - Len(u) \in DOMAIN w /\ c[n] = w[n - Len(u)]
  <2>1. /\ Len(u) \in Nat /\ Len(w) \in Nat /\ DOMAIN u = 1 .. Len(u) /\ DOMAIN w = 1 .. Len(w)
        /\ DOMAIN c = 1 .. Len(u) + Len(w)
        /\ \A n \in 1 .. Len(u) + Len(w) : c[n] = IF n <= Len(u) THEN u[n] ELSE w[n - Len(u)]
    BY <1>1
  <2> HIDE DEF c
  <2>2. \A n \in 1 .. Len(u) + Len(w) : n <= Len(u) \/ n - Len(u) \in 1 .. Len(w)
    BY <2>1
  <2> QED
    BY <2>1, <2>2
<1>3. OnlySets(c)
  BY <1>1, <1>2 DEF OnlySets
<1> QED
  BY <1>1, <1>3 DEF w, c

LEMMA NextPagesRead ==
  ASSUME KeyInv, [Next]_vars
  PROVE  PagesRead'
<1>1. /\ PagesRead /\ MasterLogs /\ SteadyKept /\ KeyTyped /\ ListsTyped
      /\ page \in [Listings -> Seq(Line)] /\ pc \in [Listings -> Places]
      /\ rdb \in Seq(Line) /\ wal \in Seq(Line)
  BY DEF KeyInv, KeyTyped, ListsTyped, MasterTyped
\* A listing that stays where it is has the page it had, and while it reads no
\* key becomes steady.
<1>2. ASSUME NEW l \in Listings, pc'[l] = pc[l], page'[l] = page[l]
      PROVE  PageRead(l)'
  <2>1. pc[l] \in {"walCut", "walRead"} => steady' \subseteq steady
    BY <1>1, SteadySteps DEF StoredForGood
  <2> QED
    BY <1>1, <1>2, <2>1 DEF PagesRead, PageRead
<1>3. CASE UNCHANGED <<pc, page>>
  BY <1>2, <1>3 DEF PagesRead
<1>4. ASSUME NEW l \in Listings, NEW p, pc' = [pc EXCEPT ![l] = p],
             \A m \in Listings : m # l => page'[m] = page[m],
             PageRead(l)'
      PROVE  PagesRead'
  <2>1. \A m \in Listings : m # l => pc'[m] = pc[m]
    BY <1>1, <1>4
  <2> QED
    BY <1>2, <1>4, <2>1 DEF PagesRead
<1>5. OnlySets(<<>>) /\ \A k, line : LastWord(<<>>, k, line)
  BY DEF OnlySets, LastWord
<1>6. ASSUME NEW l \in Listings, ReadRdb(l)
      PROVE  PagesRead'
  <2>1. pc' = [pc EXCEPT ![l] = "rdbRead"] /\ page' = [page EXCEPT ![l] = IF local THEN rdb ELSE <<>>]
    BY <1>6 DEF ReadRdb
  <2>2. pc'[l] = "rdbRead" /\ \A m \in Listings : m # l => page'[m] = page[m]
    BY <1>1, <2>1
  <2>3. page'[l] = rdb \/ page'[l] = <<>>
    BY <1>1, <2>1
  <2>4. PageRead(l)'
    BY <1>1, <1>5, <2>2, <2>3 DEF MasterLogs, PageRead
  <2> QED
    BY <1>4, <2>1, <2>2, <2>4
<1>7. ASSUME NEW l \in Listings, ReadWal(l)
      PROVE  PagesRead'
  <2>1. /\ pc' = [pc EXCEPT ![l] = "walRead"] /\ steady' = steady
        /\ page' = [page EXCEPT ![l] = IF local THEN wal ELSE <<>>]
    BY <1>7 DEF ReadWal, history
  <2>2. pc'[l] = "walRead" /\ \A m \in Listings : m # l => page'[m] = page[m]
    BY <1>1, <2>1
  <2>3. page'[l] = wal \/ page'[l] = <<>>
    BY <1>1, <2>1
  <2>4. \A k \in steady : LastWord(wal, k, ForGood(k))
    BY <1>1 DEF SteadyKept
  <2>5. PageRead(l)'
    BY <1>5, <2>1, <2>2, <2>3, <2>4 DEF PageRead
  <2> QED
    BY <1>4, <2>1, <2>2, <2>5
<1>8. ASSUME NEW l \in Listings, ReadPart(l)
      PROVE  PagesRead'
  <2>1. pc' = pc /\ pc[l] \in {"rdb", "wal"}
    BY <1>8 DEF ReadPart
  <2>2. PICK n \in Len(page[l]) + 1 .. Len(File(l)) : page' = [page EXCEPT ![l] = SubSeq(File(l), 1, n)]
    BY <1>8 DEF ReadPart
  <2>3. pc' = [pc EXCEPT ![l] = pc[l]] /\ \A m \in Listings : m # l => page'[m] = page[m]
    BY <1>1, <2>1, <2>2
  <2>4. page'[l] = SubSeq(File(l), 1, n)
    BY <1>1, <2>2
  <2>5. pc[l] = "rdb" => OnlySets(page'[l])
    <3> SUFFICES ASSUME pc[l] = "rdb" PROVE OnlySets(page'[l])
      OBVIOUS
    <3>1. File(l) = rdb /\ OnlySets(rdb) /\ <<>> \in Seq(Line)
      BY <1>1, EmptyList DEF File, MasterLogs
    <3>2. n \in 0 .. Len(rdb) /\ 1 \in Nat \ {0}
      BY <1>1, <3>1
    <3>3. OnlySets(SubSeq(rdb, 1, n))
      BY <1>1, <1>5, <3>1, <3>2, OnlySetsOf
    <3> QED
      BY <2>4, <3>1, <3>3
  <2>6. PageRead(l)'
    BY <2>1, <2>5 DEF PageRead
  <2> QED
    BY <1>4, <2>3, <2>6
<1>9. ASSUME NEW l \in Listings, ReadCut(l)
      PROVE  PagesRead'
  <2>1. /\ pc' = [pc EXCEPT ![l] = IF pc[l] = "rdbCut" THEN "rdbRead" ELSE "walRead"]
        /\ pc[l] \in {"rdbCut", "walCut"} /\ steady' = steady
    BY <1>9 DEF ReadCut, history
  <2>2. PICK n \in 0 .. Len(File(l)) :
          page' = [page EXCEPT ![l] = page[l] \o SubSeq(File(l), n + 1, Len(File(l)))]
    BY <1>9 DEF ReadCut
  <2>3. /\ pc'[l] = IF pc[l] = "rdbCut" THEN "rdbRead" ELSE "walRead"
        /\ page'[l] = page[l] \o SubSeq(File(l), n + 1, Len(File(l)))
        /\ \A m \in Listings : m # l => page'[m] = page[m]
    BY <1>1, <2>1, <2>2
  <2>4. page[l] \in Seq(Line) /\ File(l) \in Seq(Line) /\ Len(File(l)) \in Nat
    BY <1>1 DEF File
  <2>5. n + 1 \in Nat \ {0} /\ Len(File(l)) \in 0 .. Len(File(l))
    BY <2>4
  <2>6. pc[l] = "rdbCut" => OnlySets(page'[l])
    <3> SUFFICES ASSUME pc[l] = "rdbCut" PROVE OnlySets(page'[l])
      OBVIOUS
    <3>1. File(l) = rdb /\ OnlySets(rdb) /\ OnlySets(page[l])
      BY <1>1 DEF File, MasterLogs, PagesRead, PageRead
    <3> QED
      BY <2>3, <2>4, <2>5, <3>1, OnlySetsOf
  <2>7. pc[l] = "walCut" => \A k \in steady : LastWord(page'[l], k, ForGood(k))
    <3> SUFFICES ASSUME pc[l] = "walCut", NEW k \in steady PROVE LastWord(page'[l], k, ForGood(k))
      OBVIOUS
    <3>1. File(l) = wal /\ LastWord(wal, k, ForGood(k)) /\ LastWord(page[l], k, ForGood(k))
      BY <1>1 DEF File, SteadyKept, PagesRead, PageRead
    <3> QED
      BY <2>3, <2>4, <3>1, LastOfBoth
  <2>8. PageRead(l)'
    BY <2>1, <2>3, <2>6, <2>7 DEF PageRead
  <2> QED
    BY <1>4, <2>1, <2>3, <2>8
<1>10. ASSUME NEW c \in Calls, Execute(c) \/ Log(c) \/ Hear(c)
      PROVE  PagesRead'
  BY <1>3, <1>10 DEF Execute, Log, Hear, listing
<1>11. CASE Write \/ Tick \/ UNCHANGED vars
  BY <1>3, <1>11 DEF Write, Tick, vars, listing
<1>12. CASE Truncate
  <2>1. page' = page /\ \A l \in Listings : pc'[l] # pc[l] => pc[l] = "wal" /\ pc'[l] = "walCut"
    BY <1>1, <1>12, EmptiedPlaces DEF Truncate
  <2>2. ASSUME NEW l \in Listings, pc'[l] # pc[l]
        PROVE  PageRead(l)'
    <3>1. \A k \in steady' : LastWord(page[l], k, ForGood(k))
      BY <1>12, <2>1, <2>2 DEF Truncate, Keep
    <3> QED
      BY <2>1, <2>2, <3>1 DEF PageRead
  <2> QED
    BY <1>2, <2>1, <2>2 DEF PagesRead
<1>13. CASE CopyOpen
  <2>1. page' = page /\ \A l \in Listings : pc'[l] # pc[l] => pc[l] = "rdb" /\ pc'[l] = "rdbCut"
    BY <1>1, <1>13, EmptiedPlaces DEF CopyOpen
  <2>2. ASSUME NEW l \in Listings, pc'[l] # pc[l]
        PROVE  PageRead(l)'
    BY <1>1, <2>1, <2>2 DEF PagesRead, PageRead
  <2> QED
    BY <1>2, <2>1, <2>2 DEF PagesRead
<1>14. ASSUME NEW l \in Listings, Request(l)
      PROVE  PagesRead'
  <2>1. pc[l] = "idle" /\ pc' = [pc EXCEPT ![l] = "rdb"] /\ page' = page
    BY <1>14 DEF Request
  <2>2. pc'[l] = "rdb" /\ page'[l] = <<>>
    BY <1>1, <2>1 DEF PagesRead, PageRead
  <2>3. PageRead(l)'
    BY <1>5, <2>2 DEF PageRead
  <2> QED
    BY <1>4, <2>1, <2>3
<1>15. ASSUME NEW l \in Listings, ReadFails(l) \/ ApplyRdb(l)
      PROVE  PagesRead'
  <2>1. PICK p \in {"failed", "wal"} : pc' = [pc EXCEPT ![l] = p]
    BY <1>15 DEF ReadFails, ApplyRdb
  <2>2. page' = [page EXCEPT ![l] = <<>>]
    BY <1>15 DEF ReadFails, ApplyRdb
  <2>3. pc'[l] = p /\ page'[l] = <<>> /\ \A m \in Listings : m # l => page'[m] = page[m]
    BY <1>1, <2>1, <2>2
  <2>4. PageRead(l)'
    BY <1>5, <2>3 DEF PageRead
  <2> QED
    BY <1>4, <2>1, <2>3, <2>4
<1>16. ASSUME NEW l \in Listings, ApplyWal(l) \/ Judge(l) \/ Exists(l) \/ Lose(l)
       PROVE  PagesRead'
  <2>1. page' = page \/ page' = [page EXCEPT ![l] = <<>>]
    BY <1>16 DEF ApplyWal, Judge, Exists, Lose
  <2>2. \A m \in Listings : m # l => page'[m] = page[m]
    BY <1>1, <2>1
  <2>3. \/ Exists(l) \/ Lose(l)
        \/ \E b, t, rows : GoesOn(b, book', l, t, rows)
    BY <1>1, <1>16, ApplyWalGoesOn, JudgeGoesOn
  <2>4. PICK p \in {"done", "ask", "judge"} : pc' = [pc EXCEPT ![l] = p]
    BY <2>3 DEF GoesOn, Exists, Lose
  <2>5. pc'[l] = p
    BY <1>1, <2>4
  <2>6. PageRead(l)'
    BY <2>5 DEF PageRead
  <2> QED
    BY <1>4, <2>2, <2>4, <2>6
<1> QED
  BY <1>6, <1>7, <1>8, <1>9, <1>10, <1>11, <1>12, <1>13, <1>14, <1>15, <1>16 DEF Next
-----------------------------------------------------------------------------
\* A steady key, on both sides and with every listing.
Stored(k)    == db[k] # Absent /\ db[k].by.line = ForGood(k) /\ LastWord(wal, k, ForGood(k))
NoAnswer(k)  == \A d \in Calls : d.line.key = k => sent[d] # "executed" /\ (d.ours => sent[d] # "answered")
NotDenied(k) == \A l \in Listings : pc[l] = "judge" /\ loop[l].key = k => loop[l].exists

LEMMA SteadyParts ==
  SteadyKept <=> \A k \in steady : Stored(k) /\ LastsIn(book, k) /\ NoAnswer(k) /\ NotDenied(k)
BY DEF SteadyKept, Stored, NoAnswer, NotDenied

LEMMA NextSteadyKept ==
  ASSUME KeyInv, [Next]_vars
  PROVE  SteadyKept'
<1>1. /\ PagesRead /\ MasterLogs /\ KeyTyped /\ MasterTyped /\ steady \subseteq Keys
      /\ db \in [Keys -> Entries \cup {Absent}]
      /\ sent \in [Calls -> {"unsent", "executed", "answered", "heard"}]
      /\ pc \in [Listings -> Places] /\ ListsTyped /\ wal \in Seq(Line)
      /\ loop \in [Listings -> LoopStates \cup {NoLoop}]
      /\ GoodBook(book) /\ now \in Nat
  BY NowType DEF KeyInv, KeyTyped, MasterTyped, ListsTyped
<1>2. \A k \in steady : k \in Keys /\ Stored(k) /\ LastsIn(book, k) /\ NoAnswer(k) /\ NotDenied(k)
  BY <1>1, SteadyParts DEF KeyInv
<1> SUFFICES ASSUME NEW k \in steady'
             PROVE  Stored(k)' /\ LastsIn(book', k) /\ NoAnswer(k)' /\ NotDenied(k)'
  BY DEF SteadyKept, Stored, NoAnswer, NotDenied
\* A key becomes steady.
<1>3. ASSUME NEW c \in Calls, Hear(c), StoredForGood(c), k = c.line.key
      PROVE  Stored(k)' /\ LastsIn(book', k) /\ NoAnswer(k)' /\ NotDenied(k)'
  <2>1. c.line \in Line /\ k \in Keys /\ c.line = ForGood(k)
    BY <1>3, CallLine DEF StoredForGood
  <2>2. /\ db' = db /\ wal' = wal
        /\ book' = Remember(book, c.line, now) /\ sent' = [sent EXCEPT ![c] = "heard"]
    BY <1>3 DEF Hear, master
  <2>3. Stored(k)'
    BY <1>3, <2>1, <2>2 DEF StoredForGood, Stored
  <2>4. LastsIn(book', k)
    BY <1>1, <2>1, <2>2, RememberEffect
  <2>5. NoAnswer(k)'
    BY <1>1, <1>3, <2>2 DEF StoredForGood, NoAnswer
  <2>6. NotDenied(k)'
    BY <1>3 DEF StoredForGood, NotDenied, Hear, listing
  <2> QED
    BY <2>3, <2>4, <2>5, <2>6
\* A key stays steady.
<1>4. CASE k \in steady
  <2>1. k \in Keys /\ Stored(k) /\ LastsIn(book, k) /\ NoAnswer(k) /\ NotDenied(k)
    BY <1>2, <1>4
  <2>2. ASSUME NEW c \in Calls, Execute(c)
        PROVE  Stored(k)' /\ LastsIn(book', k) /\ NoAnswer(k)' /\ NotDenied(k)'
    <3>1. k # c.line.key
      BY <2>2 DEF Execute, Keep
    <3>2. db'[k] = db[k]
      <4>1. db' = db \/ db' = [db EXCEPT ![c.line.key] = Effect(c)]
        BY <2>2 DEF Execute
      <4> QED
        BY <1>1, <2>1, <3>1, <4>1
    <3>3. /\ \E w \in {"executed", "answered"} : sent' = [sent EXCEPT ![c] = w]
          /\ UNCHANGED <<wal, book, listing>>
      BY <2>2 DEF Execute
    <3>4. \A d \in Calls : d # c => sent'[d] = sent[d]
      BY <1>1, <3>3
    <3>5. NoAnswer(k)'
      BY <2>1, <3>1, <3>4 DEF NoAnswer
    <3> QED
      BY <2>1, <3>2, <3>3, <3>5 DEF Stored, NotDenied, listing
  <2>3. ASSUME NEW c \in Calls, Hear(c)
        PROVE  Stored(k)' /\ LastsIn(book', k) /\ NoAnswer(k)' /\ NotDenied(k)'
    <3>1. c.ours /\ sent[c] = "answered" /\ c.line \in Line
      BY <2>3, CallTaken DEF Hear
    <3>2. k # c.line.key
      BY <2>1, <3>1 DEF NoAnswer
    <3>3. /\ book' = Remember(book, c.line, now) /\ sent' = [sent EXCEPT ![c] = "heard"]
          /\ UNCHANGED <<db, wal, listing>>
      BY <2>3 DEF Hear, master
    <3>4. SameEntry(book, book', k)
      BY <1>1, <2>1, <3>1, <3>2, <3>3, RememberEffect
    <3>5. LastsIn(book', k)
      BY <2>1, <3>4 DEF SameEntry, LastsIn
    <3>6. NoAnswer(k)'
      BY <1>1, <2>1, <3>3 DEF NoAnswer
    <3> QED
      BY <2>1, <3>3, <3>5, <3>6 DEF Stored, NotDenied, listing
  <2>4. ASSUME UNCHANGED <<db, wal, sent>>, NEW l \in Listings, NEW p, pc' = [pc EXCEPT ![l] = p],
               \A m \in Listings : m # l => loop'[m] = loop[m],
               p = "judge" => (loop'[l].key = k => loop'[l].exists)
        PROVE  Stored(k)' /\ NoAnswer(k)' /\ NotDenied(k)'
    <3>1. pc'[l] = p /\ \A m \in Listings : m # l => pc'[m] = pc[m]
      BY <1>1, <2>4
    <3>2. NotDenied(k)'
      BY <2>1, <2>4, <3>1 DEF NotDenied
    <3> QED
      BY <2>1, <2>4, <3>2 DEF Stored, NoAnswer
  <2>5. CASE Write \/ Tick \/ UNCHANGED vars
    <3>1. UNCHANGED <<db, wal, sent, book, pc, loop>>
      BY <2>5 DEF Write, Tick, vars, master, listing
    <3> QED
      BY <2>1, <3>1 DEF Stored, NoAnswer, NotDenied
  <2>6. ASSUME NEW l \in Listings,
               \/ Request(l) \/ ReadPart(l) \/ ReadRdb(l) \/ ReadWal(l) \/ ReadCut(l) \/ ReadFails(l)
        PROVE  Stored(k)' /\ LastsIn(book', k) /\ NoAnswer(k)' /\ NotDenied(k)'
    <3>1. /\ UNCHANGED <<db, wal, sent, book, loop>>
          /\ \E p \in {"rdb", "wal", "rdbRead", "walRead", "failed"} : pc' = [pc EXCEPT ![l] = p]
      BY <1>1, <2>6, ReadsOn DEF master
    <3> QED
      BY <2>1, <2>4, <3>1
  <2>7. ASSUME NEW l \in Listings, ApplyRdb(l)
        PROVE  Stored(k)' /\ LastsIn(book', k) /\ NoAnswer(k)' /\ NotDenied(k)'
    <3>1. /\ UNCHANGED <<db, wal, sent, loop>> /\ pc[l] = "rdbRead" /\ pc' = [pc EXCEPT ![l] = "wal"]
          /\ book' = RememberAll(book, page[l], now)
          /\ Keep({j \in steady : book'.expires[j] = Never})
      BY <2>7 DEF ApplyRdb, master
    <3>2. OnlySets(page[l])
      BY <1>1, <3>1 DEF PagesRead, PageRead
    <3>3. k \in Tracked(book')
      BY <1>1, <2>1, <3>1, <3>2, AppliedBook DEF LastsIn
    <3>4. Expiry(book', k) = Never
      BY <3>1 DEF Keep, Expiry
    <3> QED
      BY <2>4, <3>1, <3>3, <3>4 DEF LastsIn
  <2>8. ASSUME NEW l \in Listings, NEW b, NEW t, NEW rows, GoesOn(b, book', l, t, rows),
               LastsIn(b, k), UNCHANGED <<db, wal, sent>>
        PROVE  Stored(k)' /\ LastsIn(book', k) /\ NoAnswer(k)' /\ NotDenied(k)'
    <3>1. LastsIn(book', k)
      BY <2>1, <2>8 DEF GoesOn
    <3>2. \E p \in {"done", "ask"} : \E s : pc' = [pc EXCEPT ![l] = p] /\ loop' = [loop EXCEPT ![l] = s]
      BY <2>8 DEF GoesOn
    <3>3. \A m \in Listings : m # l => loop'[m] = loop[m]
      BY <1>1, <3>2
    <3> QED
      BY <2>4, <2>8, <3>1, <3>2, <3>3
  <2>9. ASSUME NEW l \in Listings, ApplyWal(l)
        PROVE  Stored(k)' /\ LastsIn(book', k) /\ NoAnswer(k)' /\ NotDenied(k)'
    <3> DEFINE b == RememberAll(book, page[l], now)
    <3>1. /\ GoesOn(b, book', l, now, <<>>) /\ pc[l] = "walRead" /\ UNCHANGED <<db, wal, sent>>
      BY <1>1, <2>9, ApplyWalGoesOn DEF master
    <3>2. LastWord(page[l], k, ForGood(k))
      BY <1>1, <1>4, <3>1 DEF PagesRead, PageRead
    <3>3. LastsIn(b, k)
      BY <1>1, <2>1, <3>2, AppliedBook
    <3> HIDE DEF b
    <3> QED
      BY <2>8, <3>1, <3>3
  <2>10. ASSUME NEW l \in Listings, Judge(l)
         PROVE  Stored(k)' /\ LastsIn(book', k) /\ NoAnswer(k)' /\ NotDenied(k)'
    <3>1. /\ GoesOn(JudgedMap(l), book', l, loop[l].since, JudgedRows(l))
          /\ pc[l] = "judge" /\ Walking(l) /\ UNCHANGED <<db, wal, sent>>
      BY <1>1, <2>10, JudgeGoesOn DEF master
    <3>2. k = loop[l].key => loop[l].exists
      BY <2>1, <3>1 DEF NotDenied
    <3>3. LastsIn(JudgedMap(l), k)
      BY <1>1, <2>1, <3>1, <3>2, JudgedBook DEF JudgedMap
    <3> QED
      BY <2>8, <3>1, <3>3
  <2>11. ASSUME NEW l \in Listings, Exists(l)
         PROVE  Stored(k)' /\ LastsIn(book', k) /\ NoAnswer(k)' /\ NotDenied(k)'
    <3> DEFINE e == Live(loop[l].key)
    <3>1. /\ UNCHANGED <<db, wal, sent, book>> /\ pc[l] = "ask" /\ pc' = [pc EXCEPT ![l] = "judge"]
          /\ loop' = [loop EXCEPT ![l].exists = e]
      BY <2>11 DEF Exists, master
    <3>2. loop[l] \in LoopStates
      BY <1>1, <3>1 DEF KeyTyped, ListsTyped, Walking
    <3>3. \A m \in Listings : m # l => loop'[m] = loop[m]
      BY <1>1, <3>1
    <3>4. loop[l].key = k => e
      BY <1>1, <2>1 DEF Stored, MasterLogs, Live
    <3> HIDE DEF e
    <3>5. loop'[l] = [loop[l] EXCEPT !.exists = e]
      BY <1>1, <3>1
    <3>6. loop'[l].key = loop[l].key /\ loop'[l].exists = e
      BY <3>2, <3>5 DEF LoopStates
    <3> QED
      BY <2>1, <2>4, <3>1, <3>3, <3>4, <3>6
  <2>12. ASSUME NEW l \in Listings, Lose(l)
         PROVE  Stored(k)' /\ LastsIn(book', k) /\ NoAnswer(k)' /\ NotDenied(k)'
    <3>1. /\ UNCHANGED <<db, wal, sent, book, loop>> /\ pc' = [pc EXCEPT ![l] = "judge"]
          /\ k # loop[l].key
      BY <2>12 DEF Lose, master, Keep
    <3> QED
      BY <2>1, <2>4, <3>1
  <2>13. ASSUME NEW c \in Calls, Log(c)
        PROVE  Stored(k)' /\ LastsIn(book', k) /\ NoAnswer(k)' /\ NotDenied(k)'
    <3>1. /\ sent[c] = "executed" /\ sent' = [sent EXCEPT ![c] = "answered"]
          /\ wal' = Append(wal, c.line) /\ UNCHANGED <<db, book, listing>> /\ c.line \in Line
      BY <2>13, CallTaken DEF Log
    <3>2. k # c.line.key
      BY <2>1, <3>1 DEF NoAnswer
    <3>3. LastWord(wal', k, ForGood(k))
      <4>1. ForGood(k) \in Line
        BY <2>1 DEF ForGood, Line, NoTtl
      <4> QED
        BY <1>1, <2>1, <3>1, <3>2, <4>1, LastLine DEF Stored
    <3>4. NoAnswer(k)'
      BY <1>1, <2>1, <3>1, <3>2 DEF NoAnswer
    <3> QED
      BY <2>1, <3>1, <3>3, <3>4 DEF Stored, NotDenied, listing
  <2>14. CASE Truncate \/ CopyOpen
    <3>1. UNCHANGED <<db, sent, book, loop>> /\ (wal' = wal \/ wal' = <<>>)
      BY <2>14 DEF Truncate, CopyOpen
    <3>2. \A l \in Listings : pc'[l] = "judge" => pc[l] = "judge"
      BY <1>1, <2>14, EmptiedPlaces DEF Truncate, CopyOpen
    <3>3. LastWord(wal', k, ForGood(k))
      BY <2>1, <3>1 DEF Stored, LastWord
    <3> QED
      BY <2>1, <3>1, <3>2, <3>3 DEF Stored, NoAnswer, NotDenied
  <2> QED
    BY <2>2, <2>3, <2>5, <2>6, <2>7, <2>9, <2>10, <2>11, <2>12, <2>13, <2>14 DEF Next
<1> QED
  BY <1>1, <1>3, <1>4, SteadySteps
-----------------------------------------------------------------------------
LEMMA RowAppended ==
  ASSUME NEW rows \in Seq(Keys), NEW k \in Keys
  PROVE  /\ Range(Append(rows, k)) = Range(rows) \cup {k}
         /\ DOMAIN Append(rows, k) = 1 .. Len(rows) + 1
         /\ Append(rows, k)[Len(rows) + 1] = k
         /\ \A i \in 1 .. Len(rows) : Append(rows, k)[i] = rows[i]
BY RangeAppend

\* What a listing must have done with a key before it goes on.
Behind(b, l, rows) ==
  /\ \A k \in promised[l] : LastsIn(b, k) /\ (k \in Range(rows) \/ k \notin Passed(b, l))
  /\ Range(rows) \subseteq Passed(b, l) \cup Moved(b, l)
  /\ Again(rows, Moved(b, l))

\* The promises only shrink while a listing is under way.
LEMMA PromisesKept ==
  ASSUME KeyTyped, Walks, [Next]_vars, NEW l \in Listings
  PROVE  /\ promised'[l] \subseteq steady'
         /\ pc[l] # "idle" => promised'[l] \subseteq promised[l]
<1>1. promised \in [Listings -> SUBSET Keys] /\ promised[l] \subseteq steady
  BY DEF KeyTyped, Walks
<1>2. ASSUME NEW S, Keep(S)
      PROVE  promised'[l] \subseteq steady' /\ promised'[l] \subseteq promised[l]
  BY <1>2 DEF Keep
<1>3. CASE UNCHANGED history
  BY <1>1, <1>3 DEF history
<1>4. ASSUME NEW m \in Listings, Request(m)
      PROVE  promised'[l] \subseteq steady' /\ (pc[l] # "idle" => promised'[l] \subseteq promised[l])
  BY <1>1, <1>4 DEF Request
<1>5. \/ UNCHANGED history
      \/ \E m \in Listings : Request(m)
      \/ \E S : Keep(S)
  BY DEF Next, vars, Execute, Log, Hear, Truncate, CopyOpen, Write, Tick, ReadPart, ReadRdb, ReadWal,
         ReadCut, ReadFails, ApplyRdb, ApplyWal, Exists, Lose, Judge
<1> QED
  BY <1>2, <1>3, <1>4, <1>5

\* A listing follows the map while another step is taken.
Follows(l) ==
  /\ Walking(l)' => Walking(l)
  /\ pc'[l] = "done" => pc[l] = "done"
  /\ loop'[l].key = loop[l].key /\ found'[l] = found[l]
  /\ StaysAt(book, book', l)

LEMMA WalkFollows ==
  ASSUME KeyTyped, Walks, NEW l \in Listings, Follows(l),
         pc[l] # "idle" => promised'[l] \subseteq promised[l]
  PROVE  /\ Walking(l)' => Walk(l)'
         /\ pc'[l] = "done" => promised'[l] \subseteq Range(found'[l])
         /\ Again(found'[l], Moved(book', l))
<1>1. Again(found'[l], Moved(book', l))
  BY DEF Follows, Walks, StaysAt, Again
<1>2. ASSUME pc'[l] = "done"
      PROVE  ~Walking(l)' /\ promised'[l] \subseteq Range(found'[l])
  BY <1>2 DEF Follows, Walks, Walking
<1>3. ASSUME Walking(l)'
      PROVE  Walk(l)'
  <2>1. Walking(l) /\ Walk(l) /\ promised'[l] \subseteq promised[l]
    BY <1>3 DEF Follows, Walks, Walking
  <2>2. /\ loop'[l].key = loop[l].key /\ found'[l] = found[l]
        /\ Passed(book', l) \subseteq Passed(book, l) /\ Moved(book, l) \subseteq Moved(book', l)
        /\ Passed(book', l) \cup Moved(book', l) = Passed(book, l) \cup Moved(book, l)
    BY DEF Follows, StaysAt
  <2> QED
    BY <2>1, <2>2 DEF Walk
<1> QED
  BY <1>1, <1>2, <1>3

LEMMA WalkGoesOn ==
  ASSUME KeyTyped, NEW l \in Listings, NEW b, NEW t, NEW rows,
         GoesOn(b, book', l, t, rows), Behind(b, l, rows), promised'[l] \subseteq promised[l],
         promised[l] \subseteq Keys
  PROVE  /\ Walking(l)' => Walk(l)'
         /\ pc'[l] = "done" => promised'[l] \subseteq Range(found'[l])
         /\ Again(found'[l], Moved(book', l))
<1>1. /\ pc \in [Listings -> Places]
      /\ found \in [Listings -> Seq(Keys)] /\ loop \in [Listings -> LoopStates \cup {NoLoop}]
  BY DEF KeyTyped, ListsTyped
<1>2. found'[l] = rows
  BY <1>1 DEF GoesOn
<1>3. ASSUME pc' = [pc EXCEPT ![l] = "done"],
             \A j \in Keys : LastsIn(b, j) => j \in Passed(b, l)
      PROVE  ~Walking(l)' /\ promised'[l] \subseteq Range(found'[l])
  <2>1. pc'[l] = "done" /\ ~Walking(l)'
    BY <1>1, <1>3 DEF Walking
  <2>2. promised'[l] \subseteq Range(rows)
    BY <1>3 DEF Behind
  <2> QED
    BY <1>2, <2>1, <2>2
<1>4. ASSUME NEW k \in Keys, pc' = [pc EXCEPT ![l] = "ask"],
             loop' = [loop EXCEPT ![l] = [since |-> t, key |-> k, exists |-> FALSE]],
             k \notin Passed(b, l),
             Passed(book', l) \subseteq Passed(b, l) \cup {k},
             Moved(b, l) \subseteq Moved(book', l),
             Passed(book', l) \cup Moved(book', l) = Passed(b, l) \cup Moved(b, l) \cup {k}
      PROVE  Walk(l)' /\ pc'[l] = "ask"
  <2>1. pc'[l] = "ask" /\ loop'[l].key = k
    BY <1>1, <1>4
  <2>2. \A j \in promised'[l] : j \in Range(rows) \/ j \notin Passed(book', l) \/ j = k
    BY <1>4 DEF Behind
  <2>3. Range(rows) \subseteq Passed(book', l) \cup Moved(book', l)
    BY <1>4 DEF Behind
  <2>4. k \in Range(rows) => k \in Moved(book', l)
    BY <1>4 DEF Behind
  <2> QED
    BY <1>2, <1>4, <2>1, <2>2, <2>3, <2>4 DEF Walk
<1>5. Again(found'[l], Moved(book', l))
  <2>1. Moved(b, l) \subseteq Moved(book', l)
    BY DEF GoesOn
  <2> QED
    BY <1>2, <2>1 DEF Behind, Again
<1> QED
  BY <1>3, <1>4, <1>5 DEF GoesOn
-----------------------------------------------------------------------------
LEMMA ApplyWalBehind ==
  ASSUME KeyInv, NEW l \in Listings, ApplyWal(l)
  PROVE  Behind(RememberAll(book, page[l], now), l, <<>>)
<1> DEFINE b == RememberAll(book, page[l], now)
<1>1. KeyTyped /\ PagesRead /\ SteadyKept /\ Walks /\ steady \subseteq Keys
  BY DEF KeyInv, KeyTyped
<1>2. pc[l] = "walRead" /\ ~Walking(l)
  BY DEF ApplyWal, Walking
<1>3. Passed(book, l) = {}
  BY <1>1, <1>2 DEF KeyTyped, ListsTyped
<1>4. /\ StaysAt(book, b, l)
      /\ \A k \in Keys : LastWord(page[l], k, ForGood(k)) /\ LastsIn(book, k) => LastsIn(b, k)
  BY <1>1, AppliedBook
<1> HIDE DEF b
<1>5. Passed(b, l) = {}
  BY <1>3, <1>4 DEF StaysAt
<1>6. \A k \in steady : LastWord(page[l], k, ForGood(k)) /\ LastsIn(book, k)
  BY <1>1, <1>2 DEF PagesRead, PageRead, SteadyKept
<1>7. \A k \in promised[l] : LastsIn(b, k)
  BY <1>1, <1>4, <1>6 DEF Walks
<1>8. Range(<<>>) = {} /\ \A M : Again(<<>>, M)
  BY DEF Range, Again
<1>9. Behind(b, l, <<>>)
  BY <1>5, <1>7, <1>8 DEF Behind
<1> QED
  BY <1>9 DEF b

LEMMA JudgeBehind ==
  ASSUME KeyInv, NEW l \in Listings, Judge(l)
  PROVE  Behind(JudgedMap(l), l, JudgedRows(l))
<1> DEFINE b == JudgedMap(l)
           rows == JudgedRows(l)
           key == loop[l].key
<1>1. KeyTyped /\ SteadyKept /\ Walks /\ steady \subseteq Keys /\ found[l] \in Seq(Keys)
  BY DEF KeyInv, KeyTyped, ListsTyped
<1>2. pc[l] = "judge" /\ Walking(l) /\ key \in Keys
  BY <1>1, JudgeGoesOn
<1>3. /\ StaysAt(book, b, l)
      /\ \A k \in Keys : (k = key => loop[l].exists) /\ LastsIn(book, k) => LastsIn(b, k)
  BY <1>1, <1>2, JudgedBook DEF JudgedMap
<1>4. /\ loop[l].exists => rows = Append(found[l], key)
      /\ ~loop[l].exists => rows = found[l]
  BY DEF JudgedRows
<1>5. Walk(l) /\ promised[l] \subseteq steady
  BY <1>1, <1>2 DEF Walks
<1>6. \A k \in steady : LastsIn(book, k) /\ (k = key => loop[l].exists)
  <2>1. \A k \in steady : LastsIn(book, k) /\ NotDenied(k)
    BY <1>1, SteadyParts
  <2> QED
    BY <1>2, <2>1 DEF NotDenied
<1> HIDE DEF b, rows
<1>7. /\ Passed(b, l) \subseteq Passed(book, l) /\ Moved(book, l) \subseteq Moved(b, l)
      /\ Passed(b, l) \cup Moved(b, l) = Passed(book, l) \cup Moved(book, l)
  BY <1>3 DEF StaysAt
<1>8. /\ Range(found[l]) \subseteq Range(rows) /\ Range(rows) \subseteq Range(found[l]) \cup {key}
      /\ loop[l].exists => key \in Range(rows)
  <2>1. CASE loop[l].exists
    <3>1. found[l] \in Seq(Keys) /\ key \in Keys /\ rows = Append(found[l], key)
      BY <1>1, <1>2, <1>4, <2>1
    <3>2. Range(rows) = Range(found[l]) \cup {key}
      BY <3>1, RowAppended
    <3> QED
      BY <3>2
  <2>2. CASE ~loop[l].exists
    BY <1>4, <2>2
  <2> QED
    BY <2>1, <2>2
<1>9. \A k \in promised[l] : LastsIn(b, k) /\ (k \in Range(rows) \/ k \notin Passed(b, l))
  BY <1>1, <1>3, <1>5, <1>6, <1>7, <1>8 DEF Walk
<1>10. Range(rows) \subseteq Passed(b, l) \cup Moved(b, l)
  BY <1>5, <1>7, <1>8 DEF Walk
<1>11. Again(found[l], Moved(b, l)) /\ (key \in Range(found[l]) => key \in Moved(b, l))
  BY <1>1, <1>5, <1>7 DEF Walk, Walks, Again
<1>12. Again(rows, Moved(b, l))
  <2>1. CASE ~loop[l].exists
    BY <1>4, <1>11, <2>1
  <2>2. CASE loop[l].exists
    <3> DEFINE n == Len(found[l])
    <3>1. /\ n \in Nat /\ DOMAIN found[l] = 1 .. n
          /\ DOMAIN rows = 1 .. n + 1 /\ rows[n + 1] = key
          /\ \A i \in 1 .. n : rows[i] = found[l][i] /\ found[l][i] \in Range(found[l])
      BY <1>1, <1>2, <1>4, <2>2, RowAppended, RangeMember
    <3> HIDE DEF n, key
    <3> SUFFICES ASSUME NEW i \in 1 .. n + 1, NEW j \in 1 .. n + 1, i # j, rows[i] = rows[j]
                 PROVE  rows[i] \in Moved(b, l)
      BY <3>1 DEF Again
    <3>2. (i = n + 1 \/ i \in 1 .. n) /\ (j = n + 1 \/ j \in 1 .. n)
      BY <3>1
    <3>3. CASE i \in 1 .. n /\ j \in 1 .. n
      BY <1>11, <3>1, <3>3 DEF Again
    <3>4. CASE i = n + 1 \/ j = n + 1
      BY <1>11, <3>1, <3>2, <3>4
    <3> QED
      BY <3>2, <3>3, <3>4
  <2> QED
    BY <2>1, <2>2
<1>13. Behind(b, l, rows)
  BY <1>9, <1>10, <1>12 DEF Behind
<1> QED
  BY <1>13 DEF b, rows

LEMMA NextWalks ==
  ASSUME KeyInv, [Next]_vars
  PROVE  Walks'
<1>1. /\ KeyTyped /\ ListsTyped /\ Walks /\ GoodBook(book) /\ now \in Nat
      /\ pc \in [Listings -> Places]
      /\ loop \in [Listings -> LoopStates \cup {NoLoop}]
      /\ found \in [Listings -> Seq(Keys)]
      /\ promised \in [Listings -> SUBSET Keys]
  BY NowType DEF KeyInv, KeyTyped, ListsTyped
<1>2. \A l \in Listings : /\ promised'[l] \subseteq steady'
                          /\ pc[l] # "idle" => promised'[l] \subseteq promised[l]
  BY <1>1, PromisesKept
<1>3. ASSUME NEW l \in Listings, Follows(l)
      PROVE  /\ Walking(l)' => Walk(l)'
             /\ pc'[l] = "done" => promised'[l] \subseteq Range(found'[l])
             /\ Again(found'[l], Moved(book', l))
  BY <1>1, <1>2, <1>3, WalkFollows
<1>4. ASSUME \A l \in Listings : Follows(l)
      PROVE  Walks'
  BY <1>2, <1>3, <1>4 DEF Walks
<1>5. ASSUME NEW l \in Listings, NEW b, NEW t, NEW rows, GoesOn(b, book', l, t, rows),
             \A m \in Listings : StaysAt(book, b, m), Behind(b, l, rows), pc[l] # "idle"
      PROVE  Walks'
  <2>1. /\ Walking(l)' => Walk(l)'
        /\ pc'[l] = "done" => promised'[l] \subseteq Range(found'[l])
        /\ Again(found'[l], Moved(book', l))
    BY <1>1, <1>2, <1>5, WalkGoesOn
  <2>2. \E p, s : /\ pc' = [pc EXCEPT ![l] = p] /\ loop' = [loop EXCEPT ![l] = s]
                  /\ found' = [found EXCEPT ![l] = rows]
    BY <1>5 DEF GoesOn
  <2>3. ASSUME NEW m \in Listings, m # l
        PROVE  Follows(m)
    <3>1. pc'[m] = pc[m] /\ loop'[m] = loop[m] /\ found'[m] = found[m]
      BY <1>1, <2>2, <2>3
    <3>2. StaysAt(book, book', m)
      BY <1>5, <2>3, StaysTwice DEF GoesOn
    <3> QED
      BY <3>1, <3>2 DEF Follows, Walking
  <2> QED
    BY <1>2, <1>3, <2>1, <2>3 DEF Walks
\* The book changes, or a listing steps outside its loop.
<1>6. ASSUME UNCHANGED listing, \A l \in Listings : StaysAt(book, book', l)
      PROVE  Walks'
  BY <1>4, <1>6 DEF listing, Follows, Walking
<1>7. ASSUME NEW l \in Listings, NEW p, p \in {"rdb", "wal", "rdbRead", "walRead", "failed"},
             pc' = [pc EXCEPT ![l] = p], UNCHANGED <<loop, found>>,
             \A m \in Listings : StaysAt(book, book', m)
      PROVE  Walks'
  <2>1. pc'[l] = p /\ \A m \in Listings : m # l => pc'[m] = pc[m]
    BY <1>1, <1>7
  <2>2. \A m \in Listings : Follows(m)
    BY <1>7, <2>1 DEF Follows, Walking
  <2> QED
    BY <1>4, <2>2
<1>8. ASSUME NEW c \in Calls, Execute(c) \/ Log(c)
      PROVE  Walks'
  BY <1>6, <1>8, StaysThere DEF Execute, Log
<1>9. CASE Write \/ Tick \/ UNCHANGED vars
  <2>1. UNCHANGED <<listing, book>>
    BY <1>9 DEF Write, Tick, vars
  <2> QED
    BY <1>6, <2>1, StaysThere
<1>10. ASSUME NEW c \in Calls, Hear(c)
       PROVE  Walks'
  <2>1. c.line \in Line /\ book' = Remember(book, c.line, now) /\ UNCHANGED listing
    BY <1>10, CallTaken DEF Hear
  <2>2. \A l \in Listings : StaysAt(book, book', l)
    BY <1>1, <2>1, RememberEffect
  <2> QED
    BY <1>6, <2>1, <2>2
<1>11. ASSUME NEW l \in Listings,
              \/ Request(l) \/ ReadPart(l) \/ ReadRdb(l) \/ ReadWal(l) \/ ReadCut(l) \/ ReadFails(l)
       PROVE  Walks'
  <2>1. /\ UNCHANGED <<book, loop, found>>
        /\ \E p \in {"rdb", "wal", "rdbRead", "walRead", "failed"} : pc' = [pc EXCEPT ![l] = p]
    BY <1>1, <1>11, ReadsOn
  <2> QED
    BY <1>7, <2>1, StaysThere
<1>12. ASSUME NEW l \in Listings, ApplyRdb(l)
       PROVE  Walks'
  <2>1. /\ pc' = [pc EXCEPT ![l] = "wal"] /\ UNCHANGED <<loop, found>>
        /\ book' = RememberAll(book, page[l], now)
    BY <1>12 DEF ApplyRdb
  <2>2. \A m \in Listings : StaysAt(book, book', m)
    BY <1>1, <2>1, AppliedBook
  <2> QED
    BY <1>7, <2>1, <2>2
<1>13. ASSUME NEW l \in Listings, ApplyWal(l)
       PROVE  Walks'
  <2>1. GoesOn(RememberAll(book, page[l], now), book', l, now, <<>>) /\ pc[l] # "idle"
    BY <1>1, <1>13, ApplyWalGoesOn
  <2>2. \A m \in Listings : StaysAt(book, RememberAll(book, page[l], now), m)
    BY <1>1, AppliedBook
  <2>3. Behind(RememberAll(book, page[l], now), l, <<>>)
    BY <1>13, ApplyWalBehind
  <2> QED
    BY <1>5, <2>1, <2>2, <2>3
<1>14. ASSUME NEW l \in Listings, Judge(l)
       PROVE  Walks'
  <2>1. /\ GoesOn(JudgedMap(l), book', l, loop[l].since, JudgedRows(l))
        /\ pc[l] # "idle" /\ Walking(l)
    BY <1>1, <1>14, JudgeGoesOn
  <2>2. \A m \in Listings : StaysAt(book, JudgedMap(l), m)
    BY <1>1, <2>1, JudgedBook DEF JudgedMap
  <2>3. Behind(JudgedMap(l), l, JudgedRows(l))
    BY <1>14, JudgeBehind
  <2> QED
    BY <1>5, <2>1, <2>2, <2>3
\* The answer about a key comes.
<1>15. ASSUME NEW l \in Listings, Exists(l) \/ Lose(l)
       PROVE  Walks'
  <2>1. /\ pc[l] = "ask" /\ pc' = [pc EXCEPT ![l] = "judge"] /\ UNCHANGED <<book, found>>
        /\ loop' = loop \/ \E e : loop' = [loop EXCEPT ![l].exists = e]
    BY <1>15 DEF Exists, Lose
  <2>2. pc'[l] = "judge" /\ \A m \in Listings : m # l => pc'[m] = pc[m]
    BY <1>1, <2>1
  <2>3. loop[l] \in LoopStates
    BY <1>1, <2>1 DEF KeyTyped, ListsTyped, Walking
  <2>4. loop'[l].key = loop[l].key /\ \A m \in Listings : m # l => loop'[m] = loop[m]
    <3>1. ASSUME NEW e, loop' = [loop EXCEPT ![l].exists = e]
          PROVE  loop'[l] = [loop[l] EXCEPT !.exists = e] /\ \A m \in Listings : m # l => loop'[m] = loop[m]
      BY <1>1, <3>1
    <3>2. \A e : [loop[l] EXCEPT !.exists = e].key = loop[l].key
      BY <2>3 DEF LoopStates
    <3> QED
      BY <2>1, <3>1, <3>2
  <2>5. \A m \in Listings : Follows(m)
    BY <2>1, <2>2, <2>4, StaysThere DEF Follows, Walking
  <2> QED
    BY <1>4, <2>5
<1>16. CASE Truncate \/ CopyOpen
  <2>1. UNCHANGED <<book, loop, found>>
    BY <1>16 DEF Truncate, CopyOpen
  <2>2. \A l \in Listings : pc'[l] # pc[l] => pc'[l] \in {"rdbCut", "walCut"}
    BY <1>1, <1>16, EmptiedPlaces DEF Truncate, CopyOpen
  <2>3. \A l \in Listings : Follows(l)
    BY <2>1, <2>2, StaysThere DEF Follows, Walking
  <2> QED
    BY <1>4, <2>3
<1> QED
  BY <1>8, <1>9, <1>10, <1>11, <1>12, <1>13, <1>14, <1>15, <1>16 DEF Next

LEMMA NextKeyInv ==
  ASSUME KeyInv, [Next]_vars
  PROVE  KeyInv'
<1>1. KeyTyped /\ MasterLogs
  BY DEF KeyInv
<1>2. KeyTyped' /\ MasterLogs'
  BY <1>1, NextKeyTyped, NextMasterLogs
<1>3. PagesRead' /\ SteadyKept' /\ Walks'
  BY NextPagesRead, NextSteadyKept, NextWalks
<1> QED
  BY <1>2, <1>3 DEF KeyInv

LEMMA KeyInvariance ==
  Spec => []KeyInv
BY KeyInit, NextKeyInv, PTL DEF Spec
-----------------------------------------------------------------------------
\* What the invariant says of the types.
LEMMA KeyTypesHold ==
  KeyInv => TypeOK
<1> SUFFICES ASSUME KeyInv
             PROVE  TypeOK
  OBVIOUS
<1>1. KeyTyped /\ MasterTyped /\ ListsTyped /\ GoodBook(book) /\ now \in Nat
  BY NowType DEF KeyInv, KeyTyped, ListsTyped
<1>2. db \in [Keys -> [by : Calls, until : Int] \cup {Absent}]
  BY <1>1 DEF MasterTyped, Entries
<1>3. /\ book.order \in Seq(Keys) /\ NoDuplicates(book.order)
      /\ book.expires \in [Keys -> Int]
  BY <1>1 DEF GoodBook, Books
<1>4. ASSUME NEW l \in Listings
      PROVE  /\ pc[l] \in {"idle", "rdb", "rdbCut", "rdbRead", "wal", "walCut", "walRead",
                           "ask", "judge", "done", "failed"}
             /\ book.passed[l] \subseteq Tracked(book)
             /\ book.passed[l] # {} => pc[l] \in {"ask", "judge"}
             /\ book.moved[l] # {} => pc[l] \in {"ask", "judge", "done"}
             /\ page[l] \in Seq(Line) /\ found[l] \in Seq(Keys)
  BY <1>1 DEF ListsTyped, GoodBook, Passed, Moved, Walking, Kept, Places
<1>5. ASSUME NEW l \in Listings, pc[l] \in {"ask", "judge"}
      PROVE  loop[l] \in [since : 0 .. now, key : Keys, exists : BOOLEAN]
  <2>1. loop[l] \in LoopStates /\ loop[l].since <= now
    BY <1>1, <1>5 DEF ListsTyped, Walking
  <2>2. loop[l].since \in Nat
    BY <2>1 DEF LoopStates
  <2>3. loop[l].since \in 0 .. now
    BY <1>1, <2>1, <2>2
  <2> QED
    BY <2>1, <2>3 DEF LoopStates
<1>6. ASSUME NEW l \in Listings, pc[l] \notin {"ask", "judge"}
      PROVE  loop[l] = NoLoop
  BY <1>1, <1>6 DEF ListsTyped, Walking
<1> QED
  BY <1>1, <1>2, <1>3, <1>4, <1>5, <1>6 DEF TypeOK, KeyTyped, MasterTyped, ListsTyped

\* Every state has the types TypeOK gives: an iterator exists while its listing
\* loops and has passed only keys of the map, whatever commands and other
\* listings do to the map meanwhile (trackedKeys, server.js).
THEOREM KeyTypeCorrect ==
  Spec => []TypeOK
BY KeyInvariance, KeyTypesHold, PTL

\* A key that was stored without a deadline through the bridge while no listing
\* was under way stays in trackedKeys until it is used again: neither the old
\* lines that hydrateKnownKeys applies, whenever the master cleared or rewrote
\* the files it reads, nor the answers getKeys hears can remove it.
THEOREM SteadyKeysTracked ==
  Spec => []SteadyTracked
<1>1. KeyInv => SteadyTracked
  BY DEF KeyInv, SteadyKept, LastsIn, SteadyTracked
<1> QED
  BY <1>1, KeyInvariance, PTL

\* A listing that ends has a row of every such key that was there before it
\* began, although the loop of getKeys awaits the master between two keys and
\* the map changes under its iterator.
THEOREM ListingsComplete ==
  Spec => []CompleteListing
<1>1. KeyInv => CompleteListing
  BY DEF KeyInv, Walks, CompleteListing
<1> QED
  BY <1>1, KeyInvariance, PTL

\* Only a key that was deleted and entered again while a listing was in its
\* loop can have two rows in it, in the list that is returned as well (getKeys,
\* getKeysForSession).
THEOREM RowsOnce ==
  Spec => []NoKeyTwice
<1>1. KeyInv => NoKeyTwice
  BY DEF KeyInv, Walks, Again, Moved, NoKeyTwice
<1> QED
  BY <1>1, KeyInvariance, PTL
-----------------------------------------------------------------------------
(***************************************************************************)
(* The tabs and the bridge (Tabs).                                         *)
(***************************************************************************)
SessionState == [tcp : {"none", "dialling", "open", "dying", "closing", "closed"},
                 inFlight : 0 .. MaxEvents, count : 0 .. MaxEvents]
ShownStates  == UNION {[S -> Payload] : S \in SUBSET Ids}
PageState    == [phase : {"dialling", "open"}, socket : Ids \cup {NoSession}, id : Ids \cup {NoSession},
                 dot : BOOLEAN, shown : ShownStates, acts : Seq(Entry)]

SessionMaps  == [Ids -> SessionState]
PageMaps     == [Tabs -> PageState]

\* f adds up the commands in flight, session after session.
AddsUp(f, ss) ==
  /\ f \in [0 .. MaxSessions -> Nat] /\ f[0] = 0
  /\ \A s \in Ids : f[s] = f[s - 1] + ss[s].inFlight
  /\ \A j, k \in 0 .. MaxSessions : j <= k => f[j] <= f[k]

\* Every command in flight or recorded was an event, and so was what a session
\* has in flight or has had answered.
EventsCover ==
  /\ \E f : AddsUp(f, sess) /\ recorded + f[MaxSessions] <= events
  /\ \A s \in Ids : sess[s].inFlight + sess[s].count <= events

TabsTyped ==
  /\ up \in BOOLEAN
  /\ sess \in SessionMaps
  /\ ws \in [Ids -> {"none", "open", "left", "closed"}]
  /\ log \in Seq(Entry) /\ Len(log) <= MaxActivity
  /\ tab \in PageMaps
  /\ opened \in 0 .. MaxSessions /\ events \in 0 .. MaxEvents
  /\ recorded \in Nat /\ timeouts \in Nat
  /\ EventsCover

\* An open tab's session has been opened.
SocketsOwned ==
  /\ \A t \in Tabs : tab[t].phase = "open" => tab[t].socket \in 1 .. opened
  /\ \A s \in Ids : s > opened => sess[s].tcp = "none" /\ sess[s].inFlight = 0 /\ ws[s] = "none"

\* The tab's session is in the map and has been greeted.
Greeted(t) == tab[t].phase = "open" /\ sess[tab[t].socket].tcp \in {"open", "dying"}

\* What a greeted tab shows; the list of sessions is old while one of them has
\* not been connected.
TabsTrue ==
  \A t \in Tabs : Greeted(t) =>
    /\ tab[t].id = tab[t].socket
    /\ timeouts = 0 => tab[t].dot
    /\ tab[t].acts = log
    /\ (\A s \in Ids : sess[s].tcp # "dialling") => tab[t].shown = SessionPayload(sess).sessions

TabsInv == TabsTyped /\ SocketsOwned /\ TabsTrue

Lone(s) == {s}

\* What a tab is sent.
TabMessages == [type : {"status"}, connected : BOOLEAN, id : Ids]
                 \cup [type : {"sessions"}, sessions : ShownStates]
                 \cup [type : {"activity"}, activity : Seq(Entry)]
                 \cup [type : {"response"}, ok : BOOLEAN]

\* A page's fields.
PhaseOf(p)  == p.phase
SocketOf(p) == p.socket
IdOf(p)     == p.id
DotOf(p)    == p.dot
PanelOf(p)  == p.shown
ActsOf(p)   == p.acts

\* A message changes what it is about, and the rest of the page stays.
LEMMA PageShown ==
  ASSUME NEW p \in PageState
  PROVE  /\ \A s \in Ids, ok \in BOOLEAN :
              LET q == Shown(p, Status(s, ok))
              IN  DotOf(q) = ok /\ IdOf(q) = s /\ ActsOf(q) = ActsOf(p) /\ PanelOf(q) = PanelOf(p)
         /\ \A e \in Seq(Entry) :
              LET q == Shown(p, Activity(e))
              IN  ActsOf(q) = e /\ DotOf(q) = DotOf(p) /\ IdOf(q) = IdOf(p) /\ PanelOf(q) = PanelOf(p)
         /\ \A ok \in BOOLEAN :
              LET q == Shown(p, Response(ok))
              IN  DotOf(q) = ok /\ IdOf(q) = IdOf(p) /\ ActsOf(q) = ActsOf(p) /\ PanelOf(q) = PanelOf(p)
         /\ \A ss :
              LET q == Shown(p, SessionPayload(ss))
              IN  /\ PanelOf(q) = SessionPayload(ss).sessions /\ DotOf(q) = DotOf(p) /\ IdOf(q) = IdOf(p)
                  /\ ActsOf(q) = ActsOf(p)
<1>1. ASSUME NEW s \in Ids, NEW ok \in BOOLEAN
      PROVE  LET q == Shown(p, Status(s, ok))
             IN  DotOf(q) = ok /\ IdOf(q) = s /\ ActsOf(q) = ActsOf(p) /\ PanelOf(q) = PanelOf(p)
  <2>1. Shown(p, Status(s, ok)) = [p EXCEPT !.dot = ok, !.id = s]
    BY DEF Status, Shown
  <2> QED
    BY <2>1 DEF PageState, PanelOf, DotOf, IdOf, ActsOf
<1>2. ASSUME NEW e \in Seq(Entry)
      PROVE  LET q == Shown(p, Activity(e))
             IN  ActsOf(q) = e /\ DotOf(q) = DotOf(p) /\ IdOf(q) = IdOf(p) /\ PanelOf(q) = PanelOf(p)
  <2>1. Shown(p, Activity(e)) = [p EXCEPT !.acts = e]
    BY DEF Activity, Shown
  <2> QED
    BY <2>1 DEF PageState, PanelOf, DotOf, IdOf, ActsOf
<1>3. ASSUME NEW ok \in BOOLEAN
      PROVE  LET q == Shown(p, Response(ok))
             IN  DotOf(q) = ok /\ IdOf(q) = IdOf(p) /\ ActsOf(q) = ActsOf(p) /\ PanelOf(q) = PanelOf(p)
  <2>1. Shown(p, Response(ok)) = [p EXCEPT !.dot = ok]
    BY DEF Response, Shown
  <2> QED
    BY <2>1 DEF PageState, PanelOf, DotOf, IdOf, ActsOf
<1>4. ASSUME NEW ss
      PROVE  LET q == Shown(p, SessionPayload(ss))
             IN  /\ PanelOf(q) = SessionPayload(ss).sessions /\ DotOf(q) = DotOf(p) /\ IdOf(q) = IdOf(p)
                 /\ ActsOf(q) = ActsOf(p)
  <2> DEFINE pay == SessionPayload(ss).sessions
  <2>1. Shown(p, SessionPayload(ss)) = [p EXCEPT !.shown = pay]
    BY DEF SessionPayload, Shown
  <2> HIDE DEF pay
  <2>2. /\ PanelOf([p EXCEPT !.shown = pay]) = pay /\ DotOf([p EXCEPT !.shown = pay]) = DotOf(p)
        /\ IdOf([p EXCEPT !.shown = pay]) = IdOf(p) /\ ActsOf([p EXCEPT !.shown = pay]) = ActsOf(p)
    BY DEF PageState, PanelOf, DotOf, IdOf, ActsOf
  <2> QED
    BY <2>1, <2>2 DEF pay
<1> QED
  BY <1>1, <1>2, <1>3, <1>4

LEMMA PayloadType ==
  ASSUME NEW ss \in SessionMaps
  PROVE  /\ SessionPayload(ss).sessions \in ShownStates
         /\ SessionPayload(ss) \in TabMessages
         /\ InMap(ss) \subseteq Ids
<1> DEFINE shows == [s \in InMap(ss) |->
                       [connected |-> ss[s].tcp # "dialling",
                        inFlight |-> ss[s].inFlight, count |-> ss[s].count]]
<1>1. InMap(ss) \in SUBSET Ids
  BY DEF InMap
<1>2. \A s \in Ids : ss[s].inFlight \in 0 .. MaxEvents /\ ss[s].count \in 0 .. MaxEvents
  BY DEF SessionState, SessionMaps
<1>3. shows \in [InMap(ss) -> Payload]
  BY <1>1, <1>2 DEF Payload
<1>4. SessionPayload(ss) = [type |-> "sessions", sessions |-> shows]
  BY DEF SessionPayload
<1> HIDE DEF shows
<1>5. shows \in ShownStates
  BY <1>1, <1>3 DEF ShownStates
<1> QED
  BY <1>1, <1>4, <1>5 DEF TabMessages

\* The tabs that are sent what is sent to S.
Addressed(pages, S) == {t \in Tabs : PhaseOf(pages[t]) = "open" /\ SocketOf(pages[t]) \in S}

LEMMA MessageShown ==
  ASSUME NEW p \in PageState, NEW m \in TabMessages
  PROVE  /\ Shown(p, m) \in PageState
         /\ PhaseOf(Shown(p, m)) = PhaseOf(p) /\ SocketOf(Shown(p, m)) = SocketOf(p)
<1>1. CASE m \in [type : {"status"}, connected : BOOLEAN, id : Ids]
  BY <1>1 DEF Shown, PageState, PhaseOf, SocketOf
<1>2. CASE m \in [type : {"sessions"}, sessions : ShownStates]
  BY <1>2 DEF Shown, PageState, PhaseOf, SocketOf
<1>3. CASE m \in [type : {"activity"}, activity : Seq(Entry)]
  BY <1>3 DEF Shown, PageState, PhaseOf, SocketOf
<1>4. CASE m \in [type : {"response"}, ok : BOOLEAN]
  BY <1>4 DEF Shown, PageState, PhaseOf, SocketOf
<1> QED
  BY <1>1, <1>2, <1>3, <1>4 DEF TabMessages

LEMMA MessageSent ==
  ASSUME NEW pages \in PageMaps, NEW S, NEW m \in TabMessages
  PROVE  /\ Send(pages, S, m) \in PageMaps
         /\ \A t \in Tabs :
              /\ PhaseOf(Send(pages, S, m)[t]) = PhaseOf(pages[t])
              /\ SocketOf(Send(pages, S, m)[t]) = SocketOf(pages[t])
              /\ t \in Addressed(pages, S) => Send(pages, S, m)[t] = Shown(pages[t], m)
              /\ t \notin Addressed(pages, S) => Send(pages, S, m)[t] = pages[t]
<1> DEFINE q == Send(pages, S, m)
<1>1. /\ q = [t \in Tabs |-> q[t]]
      /\ \A t \in Tabs :
           /\ t \in Addressed(pages, S) => q[t] = Shown(pages[t], m)
           /\ t \notin Addressed(pages, S) => q[t] = pages[t]
  BY DEF Send, Addressed, PhaseOf, SocketOf
<1>2. \A t \in Tabs : pages[t] \in PageState
  BY DEF PageMaps
<1> HIDE DEF q
<1>3. \A t \in Tabs : q[t] \in PageState /\ PhaseOf(q[t]) = PhaseOf(pages[t]) /\ SocketOf(q[t]) = SocketOf(pages[t])
  BY <1>1, <1>2, MessageShown
<1>4. q \in PageMaps
  BY <1>1, <1>3 DEF PageMaps
<1> QED
  BY <1>1, <1>3, <1>4 DEF q

\* The sessions are broadcast.
LEMMA SessionsSent ==
  ASSUME NEW pages \in PageMaps, NEW S, NEW ss \in SessionMaps
  PROVE  LET q == Send(pages, S, SessionPayload(ss))
         IN /\ q \in PageMaps
            /\ \A t \in Tabs :
                 /\ PhaseOf(q[t]) = PhaseOf(pages[t]) /\ SocketOf(q[t]) = SocketOf(pages[t])
                 /\ IdOf(q[t]) = IdOf(pages[t]) /\ DotOf(q[t]) = DotOf(pages[t])
                 /\ ActsOf(q[t]) = ActsOf(pages[t])
                 /\ t \in Addressed(pages, S) => PanelOf(q[t]) = SessionPayload(ss).sessions
<1> DEFINE m == SessionPayload(ss)
           q == Send(pages, S, m)
<1>1. m \in TabMessages
  BY PayloadType
<1>2. \A t \in Tabs : /\ pages[t] \in PageState /\ PanelOf(Shown(pages[t], m)) = m.sessions
                     /\ DotOf(Shown(pages[t], m)) = DotOf(pages[t]) /\ IdOf(Shown(pages[t], m)) = IdOf(pages[t])
                     /\ ActsOf(Shown(pages[t], m)) = ActsOf(pages[t])
  BY PageShown DEF PageMaps
<1> HIDE DEF m
<1>3. /\ q \in PageMaps
      /\ \A t \in Tabs :
           /\ PhaseOf(q[t]) = PhaseOf(pages[t]) /\ SocketOf(q[t]) = SocketOf(pages[t])
           /\ t \in Addressed(pages, S) => q[t] = Shown(pages[t], m)
           /\ t \notin Addressed(pages, S) => q[t] = pages[t]
  BY <1>1, MessageSent
<1> HIDE DEF q
<1>4. \A t \in Tabs :
        /\ t \in Addressed(pages, S) => /\ PanelOf(q[t]) = m.sessions
                                     /\ IdOf(q[t]) = IdOf(pages[t]) /\ DotOf(q[t]) = DotOf(pages[t])
                                     /\ ActsOf(q[t]) = ActsOf(pages[t])
        /\ t \notin Addressed(pages, S) => /\ IdOf(q[t]) = IdOf(pages[t]) /\ DotOf(q[t]) = DotOf(pages[t])
                                           /\ ActsOf(q[t]) = ActsOf(pages[t])
  BY <1>2, <1>3
<1> QED
  BY <1>3, <1>4 DEF q, m

\* The log is sent.
LEMMA ActivitySent ==
  ASSUME NEW pages \in PageMaps, NEW S, NEW e \in Seq(Entry)
  PROVE  LET q == Send(pages, S, Activity(e))
         IN /\ q \in PageMaps
            /\ \A t \in Tabs :
                 /\ PhaseOf(q[t]) = PhaseOf(pages[t]) /\ SocketOf(q[t]) = SocketOf(pages[t])
                 /\ IdOf(q[t]) = IdOf(pages[t]) /\ DotOf(q[t]) = DotOf(pages[t])
                 /\ PanelOf(q[t]) = PanelOf(pages[t])
                 /\ t \in Addressed(pages, S) => ActsOf(q[t]) = e
                 /\ t \notin Addressed(pages, S) => ActsOf(q[t]) = ActsOf(pages[t])
<1> DEFINE m == Activity(e)
           q == Send(pages, S, m)
<1>1. \A t \in Tabs : /\ pages[t] \in PageState /\ ActsOf(Shown(pages[t], m)) = e
                     /\ DotOf(Shown(pages[t], m)) = DotOf(pages[t]) /\ IdOf(Shown(pages[t], m)) = IdOf(pages[t])
                     /\ PanelOf(Shown(pages[t], m)) = PanelOf(pages[t])
  BY PageShown DEF PageMaps
<1>2. m \in TabMessages
  BY DEF Activity, TabMessages
<1> HIDE DEF m
<1>3. /\ q \in PageMaps
      /\ \A t \in Tabs :
           /\ PhaseOf(q[t]) = PhaseOf(pages[t]) /\ SocketOf(q[t]) = SocketOf(pages[t])
           /\ t \in Addressed(pages, S) => q[t] = Shown(pages[t], m)
           /\ t \notin Addressed(pages, S) => q[t] = pages[t]
  BY <1>2, MessageSent
<1> HIDE DEF q
<1>4. \A t \in Tabs :
        /\ t \in Addressed(pages, S) => /\ ActsOf(q[t]) = e
                                     /\ IdOf(q[t]) = IdOf(pages[t]) /\ DotOf(q[t]) = DotOf(pages[t])
                                     /\ PanelOf(q[t]) = PanelOf(pages[t])
        /\ t \notin Addressed(pages, S) => q[t] = pages[t]
  BY <1>1, <1>3
<1> QED
  BY <1>3, <1>4 DEF q, m

\* A session is told how its connection stands.
LEMMA StatusSent ==
  ASSUME NEW pages \in PageMaps, NEW s \in Ids, NEW ok \in BOOLEAN
  PROVE  LET q == Send(pages, Lone(s), Status(s, ok))
         IN /\ q \in PageMaps
            /\ \A t \in Tabs :
                 /\ PhaseOf(q[t]) = PhaseOf(pages[t]) /\ SocketOf(q[t]) = SocketOf(pages[t])
                 /\ ActsOf(q[t]) = ActsOf(pages[t]) /\ PanelOf(q[t]) = PanelOf(pages[t])
                 /\ t \in Addressed(pages, Lone(s)) => IdOf(q[t]) = s /\ DotOf(q[t]) = ok
                 /\ t \notin Addressed(pages, Lone(s)) => /\ IdOf(q[t]) = IdOf(pages[t])
                                                          /\ DotOf(q[t]) = DotOf(pages[t])
<1> DEFINE m == Status(s, ok)
           q == Send(pages, Lone(s), m)
<1>1. \A t \in Tabs : /\ pages[t] \in PageState /\ DotOf(Shown(pages[t], m)) = ok
                     /\ IdOf(Shown(pages[t], m)) = s /\ ActsOf(Shown(pages[t], m)) = ActsOf(pages[t])
                     /\ PanelOf(Shown(pages[t], m)) = PanelOf(pages[t])
  BY PageShown DEF PageMaps
<1>2. m \in TabMessages
  BY DEF Status, TabMessages
<1> HIDE DEF m
<1>3. /\ q \in PageMaps
      /\ \A t \in Tabs :
           /\ PhaseOf(q[t]) = PhaseOf(pages[t]) /\ SocketOf(q[t]) = SocketOf(pages[t])
           /\ t \in Addressed(pages, Lone(s)) => q[t] = Shown(pages[t], m)
           /\ t \notin Addressed(pages, Lone(s)) => q[t] = pages[t]
  BY <1>2, MessageSent
<1> HIDE DEF q
<1>4. \A t \in Tabs :
        /\ t \in Addressed(pages, Lone(s)) => /\ IdOf(q[t]) = s /\ DotOf(q[t]) = ok
                                       /\ ActsOf(q[t]) = ActsOf(pages[t]) /\ PanelOf(q[t]) = PanelOf(pages[t])
        /\ t \notin Addressed(pages, Lone(s)) => q[t] = pages[t]
  BY <1>1, <1>3
<1> QED
  BY <1>3, <1>4 DEF q, m

\* ... or a command's result.
LEMMA ResponseSent ==
  ASSUME NEW pages \in PageMaps, NEW s \in Ids, NEW ok \in BOOLEAN
  PROVE  LET q == Send(pages, Lone(s), Response(ok))
         IN /\ q \in PageMaps
            /\ \A t \in Tabs :
                 /\ PhaseOf(q[t]) = PhaseOf(pages[t]) /\ SocketOf(q[t]) = SocketOf(pages[t])
                 /\ IdOf(q[t]) = IdOf(pages[t])
                 /\ ActsOf(q[t]) = ActsOf(pages[t]) /\ PanelOf(q[t]) = PanelOf(pages[t])
                 /\ t \in Addressed(pages, Lone(s)) => DotOf(q[t]) = ok
                 /\ t \notin Addressed(pages, Lone(s)) => DotOf(q[t]) = DotOf(pages[t])
<1> DEFINE m == Response(ok)
           q == Send(pages, Lone(s), m)
<1>1. \A t \in Tabs : /\ pages[t] \in PageState /\ DotOf(Shown(pages[t], m)) = ok
                     /\ IdOf(Shown(pages[t], m)) = IdOf(pages[t])
                     /\ ActsOf(Shown(pages[t], m)) = ActsOf(pages[t])
                     /\ PanelOf(Shown(pages[t], m)) = PanelOf(pages[t])
  BY PageShown DEF PageMaps
<1>2. m \in TabMessages
  BY DEF Response, TabMessages
<1> HIDE DEF m
<1>3. /\ q \in PageMaps
      /\ \A t \in Tabs :
           /\ PhaseOf(q[t]) = PhaseOf(pages[t]) /\ SocketOf(q[t]) = SocketOf(pages[t])
           /\ t \in Addressed(pages, Lone(s)) => q[t] = Shown(pages[t], m)
           /\ t \notin Addressed(pages, Lone(s)) => q[t] = pages[t]
  BY <1>2, MessageSent
<1> HIDE DEF q
<1>4. \A t \in Tabs :
        /\ t \in Addressed(pages, Lone(s)) => /\ DotOf(q[t]) = ok /\ IdOf(q[t]) = IdOf(pages[t])
                                       /\ ActsOf(q[t]) = ActsOf(pages[t]) /\ PanelOf(q[t]) = PanelOf(pages[t])
        /\ t \notin Addressed(pages, Lone(s)) => q[t] = pages[t]
  BY <1>1, <1>3
<1> QED
  BY <1>3, <1>4 DEF q, m

\* The commands in flight are counted, one session's number having changed.
LEMMA AddsUpChange ==
  ASSUME NEW ss, NEW tt, NEW f, AddsUp(f, ss), NEW s \in Ids, NEW d \in Int,
         \A u \in Ids : ss[u].inFlight \in Nat, ss[s].inFlight + d \in Nat,
         tt[s].inFlight = ss[s].inFlight + d,
         \A u \in Ids : u # s => tt[u].inFlight = ss[u].inFlight
  PROVE  \E g : AddsUp(g, tt) /\ g[MaxSessions] = f[MaxSessions] + d
<1> DEFINE g == [k \in 0 .. MaxSessions |-> IF k < s THEN f[k] ELSE f[k] + d]
<1>1. /\ MaxSessions \in Nat /\ s \in 1 .. MaxSessions /\ MaxSessions \in 0 .. MaxSessions
      /\ s \in 0 .. MaxSessions /\ s - 1 \in 0 .. MaxSessions
  BY TabBoundAssumption DEF Ids
<1>2. /\ f \in [0 .. MaxSessions -> Nat] /\ f[0] = 0
      /\ \A u \in Ids : f[u] = f[u - 1] + ss[u].inFlight
      /\ \A j, k \in 0 .. MaxSessions : j <= k => f[j] <= f[k]
  BY DEF AddsUp
<1>3. /\ \A k \in 0 .. MaxSessions : g[k] = IF k < s THEN f[k] ELSE f[k] + d
      /\ DOMAIN g = 0 .. MaxSessions /\ g = [k \in 0 .. MaxSessions |-> g[k]]
  OBVIOUS
<1> HIDE DEF g
<1>4. f[s] = f[s - 1] + ss[s].inFlight
  BY <1>2
<1>5. \A k \in 0 .. MaxSessions : f[k] \in Nat
  BY <1>2
<1>6. ASSUME NEW k \in 0 .. MaxSessions, ~(k < s)
      PROVE  f[k] + d >= f[s - 1] /\ f[k] + d \in Nat
  <2>1. f[s] <= f[k]
    BY <1>1, <1>2, <1>6
  <2>2. f[s - 1] \in Nat /\ f[s] \in Nat /\ f[k] \in Nat
    BY <1>1, <1>5
  <2> QED
    BY <1>4, <2>1, <2>2
<1>7. \A k \in 0 .. MaxSessions : g[k] \in Nat
  BY <1>3, <1>5, <1>6
<1>8. g \in [0 .. MaxSessions -> Nat]
  BY <1>3, <1>7
<1>9. g[0] = 0
  <2>1. 0 \in 0 .. MaxSessions /\ 0 < s
    BY <1>1
  <2> QED
    BY <1>2, <1>3, <2>1
<1>10. ASSUME NEW u \in Ids
       PROVE  g[u] = g[u - 1] + tt[u].inFlight
  <2>1. u \in 0 .. MaxSessions /\ u - 1 \in 0 .. MaxSessions /\ u \in Int
    BY <1>1, <1>10 DEF Ids
  <2>2. f[u] = f[u - 1] + ss[u].inFlight /\ f[u - 1] \in Nat
    BY <1>2, <1>5, <1>10, <2>1
  <2>3. CASE u < s
    <3>1. g[u] = f[u] /\ g[u - 1] = f[u - 1]
      BY <1>1, <1>3, <2>1, <2>3
    <3>2. tt[u].inFlight = ss[u].inFlight
      BY <1>1, <2>1, <2>3
    <3> QED
      BY <2>2, <3>1, <3>2
  <2>4. CASE u = s
    <3>1. g[s] = f[s] + d /\ g[s - 1] = f[s - 1]
      BY <1>1, <1>3
    <3>2. f[s - 1] \in Nat
      BY <1>1, <1>5
    <3> QED
      BY <1>4, <2>4, <3>1, <3>2
  <2>5. CASE u > s
    <3>1. g[u] = f[u] + d /\ g[u - 1] = f[u - 1] + d
      BY <1>1, <1>3, <2>1, <2>5
    <3>2. tt[u].inFlight = ss[u].inFlight
      BY <1>1, <2>1, <2>5
    <3>3. ss[u].inFlight \in Nat /\ f[u] \in Nat
      BY <1>5, <2>1
    <3>4. f[u] + d = (f[u - 1] + d) + ss[u].inFlight
      BY <2>2, <3>3
    <3> QED
      BY <3>1, <3>2, <3>4
  <2> QED
    BY <1>1, <2>1, <2>3, <2>4, <2>5
<1>11. ASSUME NEW j \in 0 .. MaxSessions, NEW k \in 0 .. MaxSessions, j <= k
       PROVE  g[j] <= g[k]
  <2>1. f[j] <= f[k] /\ f[j] \in Nat /\ f[k] \in Nat /\ f[s - 1] \in Nat
    BY <1>1, <1>2, <1>5, <1>11
  <2>2. CASE k < s
    <3>1. j < s
      BY <1>1, <1>11, <2>2
    <3> QED
      BY <1>3, <2>1, <2>2, <3>1
  <2>3. CASE ~(j < s)
    <3>1. ~(k < s)
      BY <1>1, <1>11, <2>3
    <3> QED
      BY <1>3, <2>1, <2>3, <3>1
  <2>4. CASE j < s /\ ~(k < s)
    <3>1. g[j] = f[j] /\ g[k] = f[k] + d
      BY <1>3, <2>4
    <3>2. j <= s - 1
      BY <1>1, <2>4
    <3>3. f[j] <= f[s - 1]
      BY <1>1, <1>2, <3>2
    <3>4. f[k] + d >= f[s - 1]
      BY <1>6, <2>4
    <3> QED
      BY <2>1, <3>1, <3>3, <3>4
  <2> QED
    BY <2>2, <2>3, <2>4
<1>12. g[MaxSessions] = f[MaxSessions] + d
  BY <1>1, <1>3
<1>13. AddsUp(g, tt)
  BY <1>8, <1>9, <1>10, <1>11 DEF AddsUp
<1> QED
  BY <1>12, <1>13

LEMMA AddsUpSame ==
  ASSUME NEW ss, NEW tt, NEW f, AddsUp(f, ss), \A u \in Ids : tt[u].inFlight = ss[u].inFlight
  PROVE  AddsUp(f, tt)
BY DEF AddsUp

\* No session has more in flight than there is.
LEMMA AddsUpBound ==
  ASSUME NEW ss, NEW f, AddsUp(f, ss), NEW s \in Ids, ss[s].inFlight \in Nat
  PROVE  ss[s].inFlight <= f[MaxSessions] /\ f[MaxSessions] \in Nat
<1>1. /\ MaxSessions \in Nat /\ s \in 1 .. MaxSessions /\ MaxSessions \in 0 .. MaxSessions
      /\ s \in 0 .. MaxSessions /\ s - 1 \in 0 .. MaxSessions /\ s <= MaxSessions
  BY TabBoundAssumption DEF Ids
<1>2. f[s] = f[s - 1] + ss[s].inFlight /\ f[s] <= f[MaxSessions]
  BY <1>1 DEF AddsUp
<1>3. f[s - 1] \in Nat /\ f[s] \in Nat /\ f[MaxSessions] \in Nat
  BY <1>1 DEF AddsUp
<1> QED
  BY <1>2, <1>3

\* A list of the m newest.
LEMMA JoinedAndCut ==
  ASSUME NEW S, NEW f \in Seq(S), NEW l \in Seq(S), NEW m \in Nat
  PROVE  LET all == f \o l
             cut == SubSeq(all, 1, IF Len(all) < m THEN Len(all) ELSE m)
         IN /\ cut \in Seq(S) /\ Len(cut) <= m
            /\ f = <<>> /\ Len(l) <= m => cut = l
<1> DEFINE all  == f \o l
           most == IF Len(all) < m THEN Len(all) ELSE m
<1>1. all \in Seq(S) /\ Len(all) \in Nat
  OBVIOUS
<1>2. f = <<>> => all = l
  OBVIOUS
<1> HIDE DEF all
<1>3. most \in 0 .. Len(all) /\ most <= m
  BY <1>1
<1>4. Len(all) <= m => most = Len(all)
  BY <1>1
<1> HIDE DEF most
<1>5. SubSeq(all, 1, most) \in Seq(S) /\ Len(SubSeq(all, 1, most)) = most
  BY <1>1, <1>3
<1>6. SubSeq(all, 1, Len(all)) = all
  BY <1>1
<1> QED
  BY <1>2, <1>3, <1>4, <1>5, <1>6 DEF all, most

\* n commands are entered.
LEMMA RecordedType ==
  ASSUME TabsTyped, NEW s \in Ids, NEW n \in Nat, recorded + n <= MaxEvents
  PROVE  /\ Recorded(s, n) \in Seq(Entry) /\ Len(Recorded(s, n)) <= MaxActivity
         /\ n = 0 => Recorded(s, n) = log
<1> DEFINE fresh == [i \in 1 .. n |-> [number |-> recorded + n + 1 - i, session |-> s]]
           all   == fresh \o log
           cut   == SubSeq(all, 1, IF Len(all) < MaxActivity THEN Len(all) ELSE MaxActivity)
<1>1. Recorded(s, n) = cut
  BY DEF Recorded
<1>2. recorded \in Nat /\ log \in Seq(Entry) /\ Len(log) <= MaxActivity /\ MaxEvents \in Nat
  BY TabBoundAssumption DEF TabsTyped
<1>3. \A i \in 1 .. n : recorded + n + 1 - i \in 1 .. MaxEvents
  BY <1>2
<1>4. \A i \in 1 .. n : [number |-> recorded + n + 1 - i, session |-> s] \in Entry
  BY <1>3 DEF Entry
<1>5. fresh \in Seq(Entry) /\ (n = 0 => fresh = <<>>)
  BY <1>4
<1>6. MaxActivity \in Nat
  BY ActivityAssumption
<1> HIDE DEF fresh
<1>7. /\ cut \in Seq(Entry) /\ Len(cut) <= MaxActivity
      /\ fresh = <<>> /\ Len(log) <= MaxActivity => cut = log
  BY <1>2, <1>5, <1>6, JoinedAndCut
<1> HIDE DEF cut
<1> QED
  BY <1>1, <1>2, <1>5, <1>7

\* Which sessions are in the map.
LEMMA InMapMember ==
  ASSUME NEW ss, NEW s \in Ids
  PROVE  s \in InMap(ss) <=> ss[s].tcp \in {"dialling", "open", "dying"}
BY DEF InMap

\* What is sent when a session's connection is made or fails.
LEMMA GreetShows ==
  ASSUME tab \in PageMaps, log \in Seq(Entry), NEW s \in Ids, NEW ok \in BOOLEAN,
         NEW S, NEW ss \in SessionMaps, NEW q, q = Send(Greet(s, ok), S, SessionPayload(ss))
  PROVE     /\ q \in PageMaps
            /\ \A t \in Tabs :
                 /\ PhaseOf(q[t]) = PhaseOf(tab[t]) /\ SocketOf(q[t]) = SocketOf(tab[t])
                 /\ t \in Addressed(tab, Lone(s)) => IdOf(q[t]) = s /\ DotOf(q[t]) = ok /\ ActsOf(q[t]) = log
                 /\ t \notin Addressed(tab, Lone(s)) => /\ IdOf(q[t]) = IdOf(tab[t]) /\ DotOf(q[t]) = DotOf(tab[t])
                                                        /\ ActsOf(q[t]) = ActsOf(tab[t])
                 /\ t \in Addressed(tab, S) => PanelOf(q[t]) = SessionPayload(ss).sessions
<1> DEFINE a == Send(tab, Lone(s), Status(s, ok))
           b == Send(a, Lone(s), Activity(log))
<1>1. q = Send(b, S, SessionPayload(ss))
  BY DEF Greet, Lone
<1>2. /\ a \in PageMaps
      /\ \A t \in Tabs :
           /\ PhaseOf(a[t]) = PhaseOf(tab[t]) /\ SocketOf(a[t]) = SocketOf(tab[t])
           /\ ActsOf(a[t]) = ActsOf(tab[t])
           /\ t \in Addressed(tab, Lone(s)) => IdOf(a[t]) = s /\ DotOf(a[t]) = ok
           /\ t \notin Addressed(tab, Lone(s)) => IdOf(a[t]) = IdOf(tab[t]) /\ DotOf(a[t]) = DotOf(tab[t])
  BY StatusSent
<1> HIDE DEF a
<1>3. /\ b \in PageMaps
      /\ \A t \in Tabs :
           /\ PhaseOf(b[t]) = PhaseOf(a[t]) /\ SocketOf(b[t]) = SocketOf(a[t])
           /\ IdOf(b[t]) = IdOf(a[t]) /\ DotOf(b[t]) = DotOf(a[t])
           /\ t \in Addressed(a, Lone(s)) => ActsOf(b[t]) = log
           /\ t \notin Addressed(a, Lone(s)) => ActsOf(b[t]) = ActsOf(a[t])
  BY <1>2, ActivitySent
<1> HIDE DEF b
<1>4. /\ q \in PageMaps
      /\ \A t \in Tabs :
           /\ PhaseOf(q[t]) = PhaseOf(b[t]) /\ SocketOf(q[t]) = SocketOf(b[t])
           /\ IdOf(q[t]) = IdOf(b[t]) /\ DotOf(q[t]) = DotOf(b[t]) /\ ActsOf(q[t]) = ActsOf(b[t])
           /\ t \in Addressed(b, S) => PanelOf(q[t]) = SessionPayload(ss).sessions
  BY <1>1, <1>3, SessionsSent
<1>5. \A t \in Tabs : /\ t \in Addressed(a, Lone(s)) <=> t \in Addressed(tab, Lone(s))
                      /\ t \in Addressed(b, S) <=> t \in Addressed(tab, S)
  BY <1>2, <1>3 DEF Addressed
<1>6. \A t \in Tabs :
        /\ PhaseOf(q[t]) = PhaseOf(tab[t]) /\ SocketOf(q[t]) = SocketOf(tab[t])
        /\ t \in Addressed(tab, S) => PanelOf(q[t]) = SessionPayload(ss).sessions
  BY <1>2, <1>3, <1>4, <1>5
<1>7. \A t \in Tabs :
        /\ t \in Addressed(tab, Lone(s)) => IdOf(q[t]) = s /\ DotOf(q[t]) = ok /\ ActsOf(q[t]) = log
        /\ t \notin Addressed(tab, Lone(s)) => /\ IdOf(q[t]) = IdOf(tab[t]) /\ DotOf(q[t]) = DotOf(tab[t])
                                               /\ ActsOf(q[t]) = ActsOf(tab[t])
  BY <1>2, <1>3, <1>4, <1>5
<1> QED
  BY <1>4, <1>6, <1>7

LEMMA TabsInitially == TabsInit => TabsInv
<1> SUFFICES ASSUME TabsInit PROVE TabsInv
  OBVIOUS
<1>1. /\ sess \in SessionMaps
      /\ \A s \in Ids : sess[s].inFlight = 0 /\ sess[s].count = 0 /\ sess[s].tcp = "none"
  BY TabBoundAssumption DEF TabsInit, SessionState, SessionMaps
<1>2. EventsCover
  <2> DEFINE f == [k \in 0 .. MaxSessions |-> 0]
  <2>1. MaxSessions \in 0 .. MaxSessions
    BY TabBoundAssumption
  <2>2. f \in [0 .. MaxSessions -> Nat] /\ \A k \in 0 .. MaxSessions : f[k] = 0
    OBVIOUS
  <2>3. \A s \in Ids : s \in 0 .. MaxSessions /\ s - 1 \in 0 .. MaxSessions
    BY TabBoundAssumption DEF Ids
  <2>4. 0 \in 0 .. MaxSessions
    BY TabBoundAssumption
  <2> HIDE DEF f
  <2>5. AddsUp(f, sess)
    BY <1>1, <2>2, <2>3, <2>4 DEF AddsUp
  <2>6. recorded + f[MaxSessions] <= events
    BY <2>1, <2>2 DEF TabsInit
  <2>7. \A s \in Ids : sess[s].inFlight + sess[s].count <= events
    BY <1>1 DEF TabsInit
  <2> QED
    BY <2>5, <2>6, <2>7 DEF EventsCover
<1>3. NewPage \in PageState
  <2>1. <<>> \in Seq(Entry)
    OBVIOUS
  <2>2. <<>> \in ShownStates
    <3>1. <<>> \in [{} -> Payload]
      OBVIOUS
    <3> QED
      BY <3>1 DEF ShownStates
  <2> QED
    BY <2>1, <2>2 DEF NewPage, PageState
<1>4. tab \in PageMaps /\ \A t \in Tabs : tab[t].phase = "dialling"
  BY <1>3 DEF TabsInit, NewPage, PageMaps
<1>5. ws \in [Ids -> {"none", "open", "left", "closed"}] /\ \A s \in Ids : ws[s] = "none"
  BY DEF TabsInit
<1>6. log \in Seq(Entry) /\ Len(log) <= MaxActivity
  BY ActivityAssumption DEF TabsInit
<1>7. TabsTyped
  BY <1>1, <1>2, <1>4, <1>5, <1>6, TabBoundAssumption DEF TabsInit, TabsTyped
<1> QED
  BY <1>1, <1>4, <1>5, <1>7 DEF TabsInv, SocketsOwned, TabsTrue, Greeted

\* What goes from session x, with r recorded and e events, to y with r2 and e2.
Charged(x, y, r, r2, e, e2) == r2 + y.inFlight - (r + x.inFlight) <= e2 - e
Within(x, e)                == x.inFlight + x.count <= e
Fewer(x, y, n)              == y.inFlight = x.inFlight - n

\* A session moved on; its commands in flight and those recorded were events.
LEMMA CoverMoves ==
  ASSUME TabsTyped, NEW s \in Ids,
         NEW ss \in SessionMaps, NEW r \in Nat, NEW e \in Nat,
         \A u \in Ids : u # s => ss[u] = sess[u],
         events <= e,
         Charged(sess[s], ss[s], recorded, r, events, e),
         Within(ss[s], e)
  PROVE  /\ \E g : AddsUp(g, ss) /\ r + g[MaxSessions] <= e
         /\ \A u \in Ids : ss[u].inFlight + ss[u].count <= e
<1>1. /\ \A u \in Ids : sess[u].inFlight \in Nat /\ sess[u].count \in Nat
      /\ \A u \in Ids : ss[u].inFlight \in Nat /\ ss[u].count \in Nat
      /\ recorded \in Nat /\ events \in Nat
  BY TabBoundAssumption DEF TabsTyped, SessionState, SessionMaps
<1>2. PICK f : AddsUp(f, sess) /\ recorded + f[MaxSessions] <= events
  BY DEF TabsTyped, EventsCover
<1> DEFINE d == ss[s].inFlight - sess[s].inFlight
<1>3. d \in Int /\ ss[s].inFlight = sess[s].inFlight + d /\ sess[s].inFlight + d \in Nat
  BY <1>1
<1>4. \A u \in Ids : u # s => ss[u].inFlight = sess[u].inFlight
  OBVIOUS
<1>5. r + d - recorded <= e - events
  <2>1. recorded \in Nat /\ events \in Nat /\ sess[s].inFlight \in Nat /\ ss[s].inFlight \in Nat
    BY <1>1
  <2> QED
    BY <2>1 DEF Charged
<1> HIDE DEF d
<1>6. PICK g : AddsUp(g, ss) /\ g[MaxSessions] = f[MaxSessions] + d
  BY <1>1, <1>2, <1>3, <1>4, AddsUpChange
<1>7. f[MaxSessions] \in Nat
  BY <1>1, <1>2, AddsUpBound
<1>8. r + g[MaxSessions] <= e
  <2> DEFINE total == f[MaxSessions]
  <2>1. total \in Nat /\ g[MaxSessions] = total + d /\ recorded + total <= events
    BY <1>2, <1>6, <1>7
  <2> HIDE DEF total
  <2>2. recorded \in Nat /\ events \in Nat /\ e \in Nat /\ r \in Nat /\ d \in Int
    BY <1>1, <1>3
  <2>3. r + (total + d) <= e
    BY <1>5, <2>1, <2>2
  <2> QED
    BY <2>1, <2>3
<1>9. ASSUME NEW u \in Ids, u # s
      PROVE  ss[u].inFlight + ss[u].count <= e
  <2>1. sess[u].inFlight + sess[u].count <= events
    BY DEF TabsTyped, EventsCover
  <2>2. sess[u].inFlight \in Nat /\ sess[u].count \in Nat /\ events \in Nat /\ ss[u] = sess[u]
    BY <1>1, <1>9
  <2> QED
    BY <2>1, <2>2
<1> QED
  BY <1>6, <1>8, <1>9 DEF Within

\* What is recorded with what is in flight stays within the bound.
LEMMA CoverBounds ==
  ASSUME TabsTyped, NEW s \in Ids
  PROVE  /\ recorded + sess[s].inFlight <= events /\ recorded \in Nat
         /\ sess[s].inFlight \in 0 .. MaxEvents /\ sess[s].count \in 0 .. MaxEvents
         /\ sess[s].inFlight + sess[s].count <= events
         /\ events \in Nat /\ events <= MaxEvents /\ MaxEvents \in Nat
<1>1. /\ sess[s].inFlight \in 0 .. MaxEvents /\ sess[s].count \in 0 .. MaxEvents
      /\ recorded \in Nat /\ events \in 0 .. MaxEvents /\ MaxEvents \in Nat
  BY TabBoundAssumption DEF TabsTyped, SessionState, SessionMaps
<1>2. PICK f : AddsUp(f, sess) /\ recorded + f[MaxSessions] <= events
  BY DEF TabsTyped, EventsCover
<1>3. sess[s].inFlight <= f[MaxSessions] /\ f[MaxSessions] \in Nat
  BY <1>1, <1>2, AddsUpBound
<1>4. sess[s].inFlight + sess[s].count <= events
  BY DEF TabsTyped, EventsCover
<1> QED
  BY <1>1, <1>2, <1>3, <1>4

\* An open tab's socket is a session.
LEMMA SocketIsSession ==
  ASSUME TabsInv, NEW t \in Tabs, tab[t].phase = "open"
  PROVE  tab[t].socket \in Ids /\ tab[t].socket <= opened
BY TabBoundAssumption DEF TabsInv, TabsTyped, SocketsOwned, Ids

LEMMA SessionOpened ==
  ASSUME TabsInv, NEW s \in Ids, sess[s].tcp # "none" \/ sess[s].inFlight # 0 \/ ws[s] # "none"
  PROVE  s <= opened
BY TabBoundAssumption DEF TabsInv, SocketsOwned, TabsTyped, Ids

\* One session moves on, and the sessions are broadcast.
LEMMA SessionStep ==
  ASSUME TabsInv, NEW s \in Ids, s <= opened,
         sess' \in SessionMaps, \A u \in Ids : u # s => sess'[u] = sess[u],
         ws' \in [Ids -> {"none", "open", "left", "closed"}], \A u \in Ids : u # s => ws'[u] = ws[u],
         log' \in Seq(Entry), Len(log') <= MaxActivity,
         tab' \in PageMaps,
         up' = up, opened' = opened,
         events' \in 0 .. MaxEvents, events <= events',
         recorded' \in Nat, timeouts' \in Nat, timeouts <= timeouts',
         Charged(sess[s], sess'[s], recorded, recorded', events, events'),
         Within(sess'[s], events'),
         \A t \in Tabs :
           /\ PhaseOf(tab'[t]) = PhaseOf(tab[t]) /\ SocketOf(tab'[t]) = SocketOf(tab[t])
           /\ \/ t \in Addressed(tab, InMap(sess')) => PanelOf(tab'[t]) = SessionPayload(sess').sessions
              \/ sess' = sess /\ PanelOf(tab'[t]) = PanelOf(tab[t])
           /\ SocketOf(tab[t]) # s => IdOf(tab'[t]) = IdOf(tab[t]) /\ DotOf(tab'[t]) = DotOf(tab[t])
           /\ (SocketOf(tab[t]) # s /\ t \in Addressed(tab, InMap(sess')) /\ ActsOf(tab[t]) = log)
                => ActsOf(tab'[t]) = log',
         sess'[s].tcp \in {"open", "dying"} =>
           \A t \in Tabs : PhaseOf(tab[t]) = "open" /\ SocketOf(tab[t]) = s =>
             /\ IdOf(tab'[t]) = s
             /\ timeouts' = 0 => DotOf(tab'[t])
             /\ ActsOf(tab'[t]) = log'
  PROVE  TabsInv'
<1>1. EventsCover'
  <2>1. events' \in Nat
    BY TabBoundAssumption
  <2> QED
    BY <2>1, CoverMoves DEF TabsInv, EventsCover
<1>2. TabsTyped'
  BY <1>1 DEF TabsInv, TabsTyped
<1>3. SocketsOwned'
  <2>1. \A t \in Tabs : tab'[t].phase = tab[t].phase /\ tab'[t].socket = tab[t].socket
    BY DEF PhaseOf, SocketOf
  <2>2. /\ \A t \in Tabs : tab[t].phase = "open" => tab[t].socket \in 1 .. opened
        /\ \A u \in Ids : u > opened => sess[u].tcp = "none" /\ sess[u].inFlight = 0 /\ ws[u] = "none"
    BY DEF TabsInv, SocketsOwned
  <2>3. \A u \in Ids : u > opened => u # s
    BY TabBoundAssumption DEF TabsInv, TabsTyped, Ids
  <2>4. \A u \in Ids : u > opened => sess'[u].tcp = "none" /\ sess'[u].inFlight = 0 /\ ws'[u] = "none"
    BY <2>2, <2>3
  <2> QED
    BY <2>1, <2>2, <2>4 DEF SocketsOwned
<1>4. ASSUME NEW t \in Tabs, Greeted(t)'
      PROVE  /\ tab'[t].id = tab'[t].socket
             /\ timeouts' = 0 => tab'[t].dot
             /\ tab'[t].acts = log'
             /\ (\A u \in Ids : sess'[u].tcp # "dialling") => tab'[t].shown = SessionPayload(sess').sessions
  <2>1. /\ tab'[t].phase = tab[t].phase /\ tab'[t].socket = tab[t].socket
        /\ \/ t \in Addressed(tab, InMap(sess')) => tab'[t].shown = SessionPayload(sess').sessions
           \/ sess' = sess /\ tab'[t].shown = tab[t].shown
        /\ tab[t].socket # s => tab'[t].id = tab[t].id /\ tab'[t].dot = tab[t].dot
        /\ (tab[t].socket # s /\ t \in Addressed(tab, InMap(sess')) /\ tab[t].acts = log) => tab'[t].acts = log'
    BY DEF PhaseOf, SocketOf, IdOf, DotOf, PanelOf, ActsOf
  <2>2. sess'[s].tcp \in {"open", "dying"} /\ tab[t].phase = "open" /\ tab[t].socket = s =>
           /\ tab'[t].id = s
           /\ timeouts' = 0 => tab'[t].dot
           /\ tab'[t].acts = log'
    BY DEF PhaseOf, SocketOf, IdOf, DotOf, ActsOf
  <2>3. /\ tab[t].phase = "open" /\ tab[t].socket \in Ids /\ tab'[t].socket = tab[t].socket
        /\ sess'[tab[t].socket].tcp \in {"open", "dying"}
    BY <1>4, <2>1, SocketIsSession DEF Greeted
  <2>4. t \in Addressed(tab, InMap(sess'))
    BY <2>3, InMapMember DEF Addressed, PhaseOf, SocketOf
  <2>5. CASE tab[t].socket = s
    <3>1. /\ tab'[t].id = s
          /\ timeouts' = 0 => tab'[t].dot
          /\ tab'[t].acts = log'
      BY <2>2, <2>3, <2>5
    <3>2. sess' = sess => Greeted(t)
      BY <2>3 DEF Greeted
    <3>3. (\A u \in Ids : sess'[u].tcp # "dialling") => tab'[t].shown = SessionPayload(sess').sessions
      BY <2>1, <2>4, <3>2 DEF TabsInv, TabsTrue
    <3> QED
      BY <2>3, <2>5, <3>1, <3>3
  <2>6. CASE tab[t].socket # s
    <3>1. Greeted(t)
      BY <2>3, <2>6 DEF Greeted
    <3>2. /\ tab[t].id = tab[t].socket
          /\ timeouts = 0 => tab[t].dot
          /\ tab[t].acts = log
          /\ (\A u \in Ids : sess[u].tcp # "dialling") => tab[t].shown = SessionPayload(sess).sessions
      BY <3>1 DEF TabsInv, TabsTrue
    <3>3. timeouts' = 0 => timeouts = 0
      BY DEF TabsInv, TabsTyped
    <3>4. tab'[t].acts = log'
      BY <2>1, <2>4, <2>6, <3>2
    <3>5. tab'[t].id = tab'[t].socket /\ (timeouts' = 0 => tab'[t].dot)
      BY <2>1, <2>3, <2>6, <3>2, <3>3
    <3>6. (\A u \in Ids : sess'[u].tcp # "dialling") => tab'[t].shown = SessionPayload(sess').sessions
      BY <2>1, <2>4, <3>2
    <3> QED
      BY <3>4, <3>5, <3>6
  <2> QED
    BY <2>5, <2>6
<1>5. TabsTrue'
  BY <1>4 DEF TabsTrue
<1> QED
  BY <1>2, <1>3, <1>5 DEF TabsInv

LEMMA ConnectStep ==
  ASSUME TabsInv, NEW s \in Ids, Connect(s)
  PROVE  TabsInv'
<1>1. sess \in SessionMaps /\ tab \in PageMaps /\ log \in Seq(Entry)
  BY DEF TabsInv, TabsTyped
<1> DEFINE yes == TRUE
<1>2. /\ sess[s].tcp = "dialling"
      /\ sess' = [sess EXCEPT ![s].tcp = "open"]
      /\ UNCHANGED <<up, ws, log, recorded, opened, events, timeouts>>
  BY DEF Connect, counts
<1>3. tab' = Send(Greet(s, yes), InMap(sess'), SessionPayload(sess'))
  BY DEF Connect
<1>4. yes \in BOOLEAN
  OBVIOUS
<1> HIDE DEF yes
<1>5. /\ sess' \in SessionMaps /\ \A u \in Ids : u # s => sess'[u] = sess[u]
      /\ sess'[s].inFlight = sess[s].inFlight /\ sess'[s].count = sess[s].count /\ sess'[s].tcp = "open"
  BY <1>1, <1>2 DEF SessionState, SessionMaps
<1>6. /\ tab' \in PageMaps
      /\ \A t \in Tabs :
           /\ PhaseOf(tab'[t]) = PhaseOf(tab[t]) /\ SocketOf(tab'[t]) = SocketOf(tab[t])
           /\ t \in Addressed(tab, Lone(s)) => /\ IdOf(tab'[t]) = s /\ DotOf(tab'[t]) = yes
                                               /\ ActsOf(tab'[t]) = log
           /\ t \notin Addressed(tab, Lone(s)) => /\ IdOf(tab'[t]) = IdOf(tab[t]) /\ DotOf(tab'[t]) = DotOf(tab[t])
                                                  /\ ActsOf(tab'[t]) = ActsOf(tab[t])
           /\ t \in Addressed(tab, InMap(sess')) => PanelOf(tab'[t]) = SessionPayload(sess').sessions
  BY <1>4, <1>1, <1>5, <1>3, GreetShows
<1>7. \A t \in Tabs : t \in Addressed(tab, Lone(s)) <=> PhaseOf(tab[t]) = "open" /\ SocketOf(tab[t]) = s
  BY DEF Addressed, PhaseOf, SocketOf, Lone
<1>8. /\ Charged(sess[s], sess'[s], recorded, recorded', events, events')
      /\ Within(sess'[s], events')
  BY <1>2, <1>5, CoverBounds DEF TabsInv, Charged, Within, Fewer
<1>9. /\ events' \in 0 .. MaxEvents /\ events <= events'
      /\ recorded' \in Nat /\ timeouts' \in Nat /\ timeouts <= timeouts'
      /\ Len(log') <= MaxActivity /\ ws' \in [Ids -> {"none", "open", "left", "closed"}]
  <2>1. /\ events' = events /\ recorded' = recorded /\ timeouts' = timeouts /\ log' = log /\ ws' = ws
    BY <1>2
  <2>2. events \in 0 .. MaxEvents /\ recorded \in Nat /\ timeouts \in Nat
    BY DEF TabsInv, TabsTyped
  <2>3. events <= events /\ timeouts <= timeouts
    BY <2>2, TabBoundAssumption
  <2>4. Len(log) <= MaxActivity /\ ws \in [Ids -> {"none", "open", "left", "closed"}]
    BY DEF TabsInv, TabsTyped
  <2> QED
    BY <2>1, <2>2, <2>3, <2>4
<1>10. \A t \in Tabs :
        /\ SocketOf(tab[t]) # s => /\ IdOf(tab'[t]) = IdOf(tab[t]) /\ DotOf(tab'[t]) = DotOf(tab[t])
                                /\ ActsOf(tab'[t]) = ActsOf(tab[t])
        /\ PhaseOf(tab[t]) = "open" /\ SocketOf(tab[t]) = s => /\ IdOf(tab'[t]) = s /\ DotOf(tab'[t])
                                                               /\ ActsOf(tab'[t]) = log
  BY <1>6, <1>7 DEF yes
<1>11. s <= opened
  BY <1>2, SessionOpened
<1>12. /\ log' \in Seq(Entry) /\ up' = up /\ opened' = opened /\ log' = log
       /\ \A u \in Ids : u # s => ws'[u] = ws[u]
  BY <1>1, <1>2
<1>13. \A t \in Tabs :
         /\ PhaseOf(tab'[t]) = PhaseOf(tab[t]) /\ SocketOf(tab'[t]) = SocketOf(tab[t])
         /\ t \in Addressed(tab, InMap(sess')) => PanelOf(tab'[t]) = SessionPayload(sess').sessions
         /\ SocketOf(tab[t]) # s => IdOf(tab'[t]) = IdOf(tab[t]) /\ DotOf(tab'[t]) = DotOf(tab[t])
         /\ (SocketOf(tab[t]) # s /\ t \in Addressed(tab, InMap(sess')) /\ ActsOf(tab[t]) = log)
              => ActsOf(tab'[t]) = log'
  BY <1>6, <1>10, <1>12
<1>14. \A t \in Tabs : PhaseOf(tab[t]) = "open" /\ SocketOf(tab[t]) = s =>
         /\ IdOf(tab'[t]) = s
         /\ timeouts' = 0 => DotOf(tab'[t])
         /\ ActsOf(tab'[t]) = log'
  BY <1>10, <1>12
<1> QED
  BY <1>5, <1>6, <1>8, <1>9, <1>11, <1>12, <1>13, <1>14, SessionStep

LEMMA ConnectFailsStep ==
  ASSUME TabsInv, NEW s \in Ids, ConnectFails(s)
  PROVE  TabsInv'
<1>1. sess \in SessionMaps /\ tab \in PageMaps /\ log \in Seq(Entry)
  BY DEF TabsInv, TabsTyped
<1> DEFINE no == FALSE
           S  == InMap(sess') \cup {s}
<1>2. /\ sess[s].tcp = "dialling"
      /\ sess' = [sess EXCEPT ![s].tcp = "closed"]
      /\ UNCHANGED <<up, ws, log, recorded, opened, events, timeouts>>
  BY DEF ConnectFails, counts
<1>3. tab' = Send(Greet(s, no), S, SessionPayload(sess'))
  BY DEF ConnectFails
<1>4. InMap(sess') \subseteq S /\ no \in BOOLEAN
  OBVIOUS
<1> HIDE DEF S, no
<1>5. /\ sess' \in SessionMaps /\ \A u \in Ids : u # s => sess'[u] = sess[u]
      /\ sess'[s].inFlight = sess[s].inFlight /\ sess'[s].count = sess[s].count /\ sess'[s].tcp = "closed"
  BY <1>1, <1>2 DEF SessionState, SessionMaps
<1>6. /\ tab' \in PageMaps
      /\ \A t \in Tabs :
           /\ PhaseOf(tab'[t]) = PhaseOf(tab[t]) /\ SocketOf(tab'[t]) = SocketOf(tab[t])
           /\ t \notin Addressed(tab, Lone(s)) => /\ IdOf(tab'[t]) = IdOf(tab[t]) /\ DotOf(tab'[t]) = DotOf(tab[t])
                                                  /\ ActsOf(tab'[t]) = ActsOf(tab[t])
           /\ t \in Addressed(tab, S) => PanelOf(tab'[t]) = SessionPayload(sess').sessions
  BY <1>4, <1>1, <1>5, <1>3, GreetShows
<1>7. \A t \in Tabs : /\ t \in Addressed(tab, Lone(s)) <=> PhaseOf(tab[t]) = "open" /\ SocketOf(tab[t]) = s
                      /\ t \in Addressed(tab, InMap(sess')) => t \in Addressed(tab, S)
  BY <1>4 DEF Addressed, PhaseOf, SocketOf, Lone
<1>8. /\ Charged(sess[s], sess'[s], recorded, recorded', events, events')
      /\ Within(sess'[s], events')
  BY <1>2, <1>5, CoverBounds DEF TabsInv, Charged, Within, Fewer
<1>9. /\ events' \in 0 .. MaxEvents /\ events <= events'
      /\ recorded' \in Nat /\ timeouts' \in Nat /\ timeouts <= timeouts'
      /\ Len(log') <= MaxActivity /\ ws' \in [Ids -> {"none", "open", "left", "closed"}]
  BY <1>2, TabBoundAssumption DEF TabsInv, TabsTyped
<1>10. \A t \in Tabs :
        SocketOf(tab[t]) # s => /\ IdOf(tab'[t]) = IdOf(tab[t]) /\ DotOf(tab'[t]) = DotOf(tab[t])
                             /\ ActsOf(tab'[t]) = ActsOf(tab[t])
  BY <1>6, <1>7
<1>11. s <= opened
  BY <1>2, SessionOpened
<1> QED
  BY <1>1, <1>2, <1>5, <1>6, <1>7, <1>8, <1>9, <1>10, <1>11, SessionStep

\* n commands of s are resolved.
LEMMA ResolvedStep ==
  ASSUME TabsInv, NEW s \in Ids, s <= opened,
         NEW n \in Nat, NEW ok \in BOOLEAN, NEW ss \in SessionMaps,
         Resolved(s, n, ok, ss),
         \A u \in Ids : u # s => ss[u] = sess[u],
         UNCHANGED <<up, ws, opened>>,
         Fewer(sess[s], ss[s], n),
         ss[s].tcp \in {"open", "dying"} => ss[s].tcp = sess[s].tcp /\ n # 0,
         events' \in 0 .. MaxEvents, events <= events',
         timeouts' \in Nat, timeouts <= timeouts',
         ~ok /\ ss[s].tcp \in {"open", "dying"} => timeouts' # 0,
         Within(ss[s], events')
  PROVE  TabsInv'
<1>1. sess \in SessionMaps /\ tab \in PageMaps /\ log \in Seq(Entry)
  BY DEF TabsInv, TabsTyped
<1> DEFINE all  == Send(tab, InMap(ss), SessionPayload(ss))
           told == Send(all, Lone(s), Response(ok))
<1>2. /\ sess' = ss /\ log' = Recorded(s, n) /\ recorded' = recorded + n
      /\ tab' = IF n = 0 THEN all ELSE Send(told, InMap(ss), Activity(log'))
  BY DEF Resolved, Lone
<1>3. /\ all \in PageMaps
      /\ \A t \in Tabs :
           /\ PhaseOf(all[t]) = PhaseOf(tab[t]) /\ SocketOf(all[t]) = SocketOf(tab[t])
           /\ IdOf(all[t]) = IdOf(tab[t]) /\ DotOf(all[t]) = DotOf(tab[t]) /\ ActsOf(all[t]) = ActsOf(tab[t])
           /\ t \in Addressed(tab, InMap(ss)) => PanelOf(all[t]) = SessionPayload(ss).sessions
  BY <1>1, SessionsSent
<1> HIDE DEF all
<1>4. ss[s].inFlight \in Nat /\ recorded + n <= MaxEvents
  <2>1. ss[s].inFlight \in Nat
    BY TabBoundAssumption DEF SessionState, SessionMaps
  <2> QED
    BY <2>1, CoverBounds DEF TabsInv, Charged, Within, Fewer
<1>5. /\ log' \in Seq(Entry) /\ Len(log') <= MaxActivity
      /\ n = 0 => log' = log
  BY <1>2, <1>4, RecordedType DEF TabsInv
<1>6. /\ told \in PageMaps
      /\ \A t \in Tabs :
           /\ PhaseOf(told[t]) = PhaseOf(all[t]) /\ SocketOf(told[t]) = SocketOf(all[t])
           /\ IdOf(told[t]) = IdOf(all[t])
           /\ ActsOf(told[t]) = ActsOf(all[t]) /\ PanelOf(told[t]) = PanelOf(all[t])
           /\ t \in Addressed(all, Lone(s)) => DotOf(told[t]) = ok
           /\ t \notin Addressed(all, Lone(s)) => DotOf(told[t]) = DotOf(all[t])
  BY <1>3, ResponseSent
<1> HIDE DEF told
<1> DEFINE after == Send(told, InMap(ss), Activity(log'))
<1>7. /\ after \in PageMaps
      /\ \A t \in Tabs :
           /\ PhaseOf(after[t]) = PhaseOf(told[t]) /\ SocketOf(after[t]) = SocketOf(told[t])
           /\ IdOf(after[t]) = IdOf(told[t]) /\ DotOf(after[t]) = DotOf(told[t])
           /\ PanelOf(after[t]) = PanelOf(told[t])
           /\ t \in Addressed(told, InMap(ss)) => ActsOf(after[t]) = log'
           /\ t \notin Addressed(told, InMap(ss)) => ActsOf(after[t]) = ActsOf(told[t])
  BY <1>5, <1>6, ActivitySent
<1>8. \A t \in Tabs : /\ t \in Addressed(all, Lone(s)) <=> PhaseOf(tab[t]) = "open" /\ SocketOf(tab[t]) = s
                      /\ t \in Addressed(told, InMap(ss)) <=> t \in Addressed(tab, InMap(ss))
  BY <1>3, <1>6 DEF Addressed, PhaseOf, SocketOf, Lone
<1> HIDE DEF after
<1>9. /\ tab' \in PageMaps
      /\ \A t \in Tabs :
           /\ PhaseOf(tab'[t]) = PhaseOf(tab[t]) /\ SocketOf(tab'[t]) = SocketOf(tab[t])
           /\ IdOf(tab'[t]) = IdOf(tab[t])
           /\ t \in Addressed(tab, InMap(ss)) => PanelOf(tab'[t]) = SessionPayload(ss).sessions
           /\ SocketOf(tab[t]) # s => DotOf(tab'[t]) = DotOf(tab[t])
           /\ n # 0 /\ PhaseOf(tab[t]) = "open" /\ SocketOf(tab[t]) = s => DotOf(tab'[t]) = ok
           /\ n # 0 /\ t \in Addressed(tab, InMap(ss)) => ActsOf(tab'[t]) = log'
           /\ n = 0 => ActsOf(tab'[t]) = ActsOf(tab[t])
  <2>1. CASE n = 0
    <3>1. tab' = all
      BY <1>2, <2>1
    <3> QED
      BY <1>3, <2>1, <3>1
  <2>2. CASE n # 0
    <3>1. tab' = after
      BY <1>2, <2>2 DEF after
    <3>2. \A t \in Tabs :
            /\ PhaseOf(after[t]) = PhaseOf(tab[t]) /\ SocketOf(after[t]) = SocketOf(tab[t])
            /\ IdOf(after[t]) = IdOf(tab[t])
            /\ t \in Addressed(tab, InMap(ss)) => PanelOf(after[t]) = SessionPayload(ss).sessions
            /\ t \in Addressed(tab, InMap(ss)) => ActsOf(after[t]) = log'
      BY <1>3, <1>6, <1>7, <1>8
    <3>3. \A t \in Tabs :
            /\ SocketOf(tab[t]) # s => DotOf(after[t]) = DotOf(tab[t])
            /\ PhaseOf(tab[t]) = "open" /\ SocketOf(tab[t]) = s => DotOf(after[t]) = ok
      BY <1>3, <1>6, <1>7, <1>8
    <3> QED
      BY <1>7, <2>2, <3>1, <3>2, <3>3
  <2> QED
    BY <2>1, <2>2
<1>10. ASSUME ss[s].tcp \in {"open", "dying"}, NEW t \in Tabs, PhaseOf(tab[t]) = "open", SocketOf(tab[t]) = s
       PROVE  /\ IdOf(tab'[t]) = s
              /\ timeouts' = 0 => DotOf(tab'[t])
              /\ ActsOf(tab'[t]) = log'
  <2>1. Greeted(t) /\ n # 0
    BY <1>10 DEF Greeted, PhaseOf, SocketOf
  <2>2. t \in Addressed(tab, InMap(ss))
    BY <1>10, InMapMember DEF Addressed, PhaseOf, SocketOf, Lone
  <2>3. IdOf(tab[t]) = s
    BY <1>10, <2>1 DEF TabsInv, TabsTrue, IdOf, SocketOf
  <2>4. DotOf(tab'[t]) = ok
    BY <1>9, <1>10, <2>1
  <2>5. timeouts' = 0 => ok
    BY <1>10
  <2> QED
    BY <1>9, <2>1, <2>2, <2>3, <2>4, <2>5
<1>11. /\ Charged(sess[s], sess'[s], recorded, recorded', events, events')
       /\ Within(sess'[s], events')
       /\ recorded' \in Nat
  BY <1>2, <1>4, CoverBounds DEF TabsInv, Charged, Within, Fewer
<1>12. ws' \in [Ids -> {"none", "open", "left", "closed"}] /\ \A u \in Ids : u # s => ws'[u] = ws[u]
  BY DEF TabsInv, TabsTyped
<1>13. \A t \in Tabs :
         (SocketOf(tab[t]) # s /\ t \in Addressed(tab, InMap(sess')) /\ ActsOf(tab[t]) = log)
           => ActsOf(tab'[t]) = log'
  BY <1>2, <1>5, <1>9
<1>14. \A t \in Tabs :
         /\ PhaseOf(tab'[t]) = PhaseOf(tab[t]) /\ SocketOf(tab'[t]) = SocketOf(tab[t])
         /\ t \in Addressed(tab, InMap(sess')) => PanelOf(tab'[t]) = SessionPayload(sess').sessions
         /\ SocketOf(tab[t]) # s => IdOf(tab'[t]) = IdOf(tab[t]) /\ DotOf(tab'[t]) = DotOf(tab[t])
  BY <1>2, <1>9
<1>15. sess'[s].tcp \in {"open", "dying"} =>
         \A t \in Tabs : PhaseOf(tab[t]) = "open" /\ SocketOf(tab[t]) = s =>
           /\ IdOf(tab'[t]) = s
           /\ timeouts' = 0 => DotOf(tab'[t])
           /\ ActsOf(tab'[t]) = log'
  BY <1>2, <1>10
<1>16. sess' \in SessionMaps /\ \A u \in Ids : u # s => sess'[u] = sess[u]
  BY <1>2
<1>17. tab' \in PageMaps
  BY <1>9
<1> QED
  BY <1>5, <1>11, <1>12, <1>13, <1>14, <1>15, <1>16, <1>17, SessionStep

LEMMA AnswerStep ==
  ASSUME TabsInv, NEW s \in Ids, Answer(s)
  PROVE  TabsInv'
<1> DEFINE ss == [sess EXCEPT ![s].inFlight = @ - 1, ![s].count = @ + 1]
<1>1. /\ sess[s].tcp = "open" /\ sess[s].inFlight > 0
      /\ Resolved(s, 1, TRUE, ss)
      /\ UNCHANGED <<up, ws, opened, events, timeouts>>
  BY DEF Answer, counts
<1>2. /\ sess \in SessionMaps /\ timeouts \in Nat /\ events \in 0 .. MaxEvents
  BY DEF TabsInv, TabsTyped
<1>3. /\ sess[s].inFlight \in 0 .. MaxEvents /\ sess[s].count \in 0 .. MaxEvents
      /\ sess[s].inFlight + sess[s].count <= events /\ events \in Nat
      /\ events <= MaxEvents /\ MaxEvents \in Nat
  BY CoverBounds DEF TabsInv, Charged, Within, Fewer
<1>4. sess[s].inFlight - 1 \in 0 .. MaxEvents /\ sess[s].count + 1 \in 0 .. MaxEvents
  BY <1>1, <1>3
<1>5. /\ ss \in SessionMaps /\ \A u \in Ids : u # s => ss[u] = sess[u]
      /\ ss[s].inFlight = sess[s].inFlight - 1 /\ ss[s].count = sess[s].count + 1
      /\ ss[s].tcp = sess[s].tcp
  BY <1>2, <1>4 DEF SessionState, SessionMaps
<1> HIDE DEF ss
<1>6. Within(ss[s], events')
  BY <1>1, <1>3, <1>5 DEF Within
<1>7. Fewer(sess[s], ss[s], 1)
  BY <1>3, <1>5 DEF Fewer
<1>8. /\ events' \in 0 .. MaxEvents /\ events <= events'
      /\ timeouts' \in Nat /\ timeouts <= timeouts'
  BY <1>1, <1>2, <1>3
<1>9. s <= opened
  BY <1>1, SessionOpened
<1>10. 1 \in Nat /\ TRUE \in BOOLEAN /\ 1 # 0 /\ ~(~TRUE)
  OBVIOUS
<1> QED
  BY <1>1, <1>5, <1>6, <1>8, <1>9, <1>10, <1>7, ResolvedStep

LEMMA TimeoutStep ==
  ASSUME TabsInv, NEW s \in Ids, Timeout(s)
  PROVE  TabsInv'
<1> DEFINE ss == [sess EXCEPT ![s].inFlight = @ - 1]
<1>1. /\ sess[s].inFlight > 0 /\ events < MaxEvents /\ events' = events + 1
      /\ timeouts' = timeouts + 1
      /\ Resolved(s, 1, FALSE, ss)
      /\ UNCHANGED <<up, ws, opened>>
  BY DEF Timeout, Spend
<1>2. /\ sess \in SessionMaps /\ timeouts \in Nat /\ events \in 0 .. MaxEvents
  BY DEF TabsInv, TabsTyped
<1>3. /\ sess[s].inFlight \in 0 .. MaxEvents /\ sess[s].count \in 0 .. MaxEvents
      /\ sess[s].inFlight + sess[s].count <= events /\ events \in Nat
      /\ events <= MaxEvents /\ MaxEvents \in Nat
      /\ recorded + sess[s].inFlight <= events
  BY CoverBounds DEF TabsInv, Charged, Within, Fewer
<1>4. sess[s].inFlight - 1 \in 0 .. MaxEvents
  BY <1>1, <1>3
<1>5. /\ ss \in SessionMaps /\ \A u \in Ids : u # s => ss[u] = sess[u]
      /\ ss[s].inFlight = sess[s].inFlight - 1 /\ ss[s].count = sess[s].count
      /\ ss[s].tcp = sess[s].tcp
  BY <1>2, <1>4 DEF SessionState, SessionMaps
<1> HIDE DEF ss
<1>6. Within(ss[s], events')
  BY <1>1, <1>3, <1>5 DEF Within
<1>7. Fewer(sess[s], ss[s], 1)
  BY <1>3, <1>5 DEF Fewer
<1>8. /\ events' \in 0 .. MaxEvents /\ events <= events'
      /\ timeouts' \in Nat /\ timeouts <= timeouts' /\ timeouts' # 0
  BY <1>1, <1>2, <1>3
<1>9. s <= opened
  BY <1>1, <1>3, SessionOpened
<1>10. 1 \in Nat /\ FALSE \in BOOLEAN /\ 1 # 0
  OBVIOUS
<1> QED
  BY <1>1, <1>5, <1>6, <1>8, <1>9, <1>10, <1>7, ResolvedStep

LEMMA TcpClosedStep ==
  ASSUME TabsInv, NEW s \in Ids, TcpClosed(s)
  PROVE  TabsInv'
<1> DEFINE ss == [sess EXCEPT ![s].tcp = "closed", ![s].inFlight = 0]
<1>1. /\ sess[s].tcp \in {"dying", "closing"}
      /\ Resolved(s, sess[s].inFlight, FALSE, ss)
      /\ UNCHANGED <<up, ws, opened, events, timeouts>>
  BY DEF TcpClosed, counts
<1>2. /\ sess \in SessionMaps /\ timeouts \in Nat /\ events \in 0 .. MaxEvents
  BY DEF TabsInv, TabsTyped
<1>3. /\ sess[s].inFlight \in 0 .. MaxEvents /\ sess[s].count \in 0 .. MaxEvents
      /\ sess[s].inFlight + sess[s].count <= events /\ events \in Nat
      /\ events <= MaxEvents /\ MaxEvents \in Nat
  BY CoverBounds DEF TabsInv, Charged, Within, Fewer
<1>4. 0 \in 0 .. MaxEvents
  BY <1>3
<1>5. /\ ss \in SessionMaps /\ \A u \in Ids : u # s => ss[u] = sess[u]
      /\ ss[s].inFlight = 0 /\ ss[s].count = sess[s].count
      /\ ss[s].tcp = "closed"
  BY <1>2, <1>4 DEF SessionState, SessionMaps
<1> HIDE DEF ss
<1>6. Within(ss[s], events')
  BY <1>1, <1>3, <1>5 DEF Within
<1>7. Fewer(sess[s], ss[s], sess[s].inFlight)
  BY <1>3, <1>5 DEF Fewer
<1>8. /\ events' \in 0 .. MaxEvents /\ events <= events'
      /\ timeouts' \in Nat /\ timeouts <= timeouts' /\ sess[s].inFlight \in Nat
  BY <1>1, <1>2, <1>3
<1>9. s <= opened
  BY <1>1, SessionOpened
<1> QED
  BY <1>1, <1>5, <1>6, <1>8, <1>9, <1>7, ResolvedStep

LEMMA TakeStep ==
  ASSUME TabsInv, NEW s \in Ids, Take(s)
  PROVE  TabsInv'
<1>1. sess \in SessionMaps /\ tab \in PageMaps /\ log \in Seq(Entry)
  BY DEF TabsInv, TabsTyped
<1>2. /\ ws[s] = "open" /\ events < MaxEvents /\ events' = events + 1
      /\ UNCHANGED <<up, ws, opened, timeouts>>
  BY DEF Take, Spend
<1>3. s <= opened
  BY <1>2, SessionOpened
<1>4. /\ sess[s].inFlight \in 0 .. MaxEvents /\ sess[s].count \in 0 .. MaxEvents
      /\ sess[s].inFlight + sess[s].count <= events /\ events \in Nat
      /\ events <= MaxEvents /\ MaxEvents \in Nat
      /\ recorded + sess[s].inFlight <= events /\ recorded \in Nat
  BY CoverBounds DEF TabsInv
<1>5. /\ events' \in 0 .. MaxEvents /\ events <= events' /\ timeouts' \in Nat /\ timeouts <= timeouts'
      /\ ws' \in [Ids -> {"none", "open", "left", "closed"}] /\ \A u \in Ids : u # s => ws'[u] = ws[u]
  BY <1>2, <1>4 DEF TabsInv, TabsTyped
<1>6. CASE Connected(s)
  <2>1. sess' = [sess EXCEPT ![s].inFlight = @ + 1] /\ UNCHANGED <<log, recorded>>
    BY <1>6 DEF Take
  <2>2. tab' = Send(tab, InMap(sess'), SessionPayload(sess'))
    BY <1>6 DEF Take
  <2>3. sess[s].inFlight + 1 \in 0 .. MaxEvents
    BY <1>2, <1>4
  <2>4. /\ sess' \in SessionMaps /\ \A u \in Ids : u # s => sess'[u] = sess[u]
        /\ sess'[s].inFlight = sess[s].inFlight + 1 /\ sess'[s].count = sess[s].count
        /\ sess'[s].tcp = sess[s].tcp
    BY <1>1, <2>1, <2>3 DEF SessionState, SessionMaps
  <2>5. /\ tab' \in PageMaps
        /\ \A t \in Tabs :
             /\ PhaseOf(tab'[t]) = PhaseOf(tab[t]) /\ SocketOf(tab'[t]) = SocketOf(tab[t])
             /\ IdOf(tab'[t]) = IdOf(tab[t]) /\ DotOf(tab'[t]) = DotOf(tab[t])
             /\ ActsOf(tab'[t]) = ActsOf(tab[t])
             /\ t \in Addressed(tab, InMap(sess')) => PanelOf(tab'[t]) = SessionPayload(sess').sessions
    BY <1>1, <2>2, <2>4, SessionsSent
  <2>6. Within(sess'[s], events')
    BY <1>2, <1>4, <2>4 DEF Within
  <2>7. Charged(sess[s], sess'[s], recorded, recorded', events, events')
    BY <1>2, <1>4, <2>1, <2>4 DEF Charged
  <2>8. ASSUME NEW t \in Tabs, sess'[s].tcp \in {"open", "dying"}, PhaseOf(tab[t]) = "open", SocketOf(tab[t]) = s
        PROVE  /\ IdOf(tab'[t]) = s
               /\ timeouts' = 0 => DotOf(tab'[t])
               /\ ActsOf(tab'[t]) = log'
    <3>1. Greeted(t)
      BY <2>4, <2>8 DEF Greeted, PhaseOf, SocketOf
    <3>2. IdOf(tab[t]) = s /\ (timeouts = 0 => DotOf(tab[t])) /\ ActsOf(tab[t]) = log
      BY <2>8, <3>1 DEF TabsInv, TabsTrue, IdOf, DotOf, ActsOf, SocketOf
    <3> QED
      BY <1>2, <2>1, <2>5, <3>2
  <2>9. /\ log' \in Seq(Entry) /\ Len(log') <= MaxActivity /\ recorded' \in Nat /\ log' = log
    BY <2>1 DEF TabsInv, TabsTyped
  <2> QED
    BY <1>2, <1>3, <1>5, <2>4, <2>5, <2>6, <2>7, <2>8, <2>9, SessionStep
<1>7. CASE ~Connected(s)
  <2> DEFINE no   == FALSE
             told == Send(tab, Lone(s), Response(no))
  <2>1. /\ sess' = sess /\ log' = Recorded(s, 1) /\ recorded' = recorded + 1
        /\ tab' = Send(told, InMap(sess), Activity(log'))
    BY <1>7 DEF Take, Lone
  <2>2. recorded + 1 <= MaxEvents
    BY <1>2, <1>4
  <2>3. log' \in Seq(Entry) /\ Len(log') <= MaxActivity
    BY <2>1, <2>2, RecordedType DEF TabsInv
  <2>4. no \in BOOLEAN
    OBVIOUS
  <2> HIDE DEF no
  <2>5. /\ told \in PageMaps
        /\ \A t \in Tabs :
             /\ PhaseOf(told[t]) = PhaseOf(tab[t]) /\ SocketOf(told[t]) = SocketOf(tab[t])
             /\ IdOf(told[t]) = IdOf(tab[t]) /\ PanelOf(told[t]) = PanelOf(tab[t])
             /\ t \notin Addressed(tab, Lone(s)) => DotOf(told[t]) = DotOf(tab[t])
    BY <1>1, <2>4, ResponseSent
  <2> HIDE DEF told
  <2> DEFINE after == Send(told, InMap(sess), Activity(log'))
  <2>6. /\ after \in PageMaps
        /\ \A t \in Tabs :
             /\ PhaseOf(after[t]) = PhaseOf(told[t]) /\ SocketOf(after[t]) = SocketOf(told[t])
             /\ IdOf(after[t]) = IdOf(told[t]) /\ DotOf(after[t]) = DotOf(told[t])
             /\ PanelOf(after[t]) = PanelOf(told[t])
             /\ t \in Addressed(told, InMap(sess)) => ActsOf(after[t]) = log'
    BY <2>3, <2>5, ActivitySent
  <2>7. after = tab'
    BY <2>1
  <2> HIDE DEF after
  <2>8. \A t \in Tabs : /\ t \in Addressed(tab, Lone(s)) <=> PhaseOf(tab[t]) = "open" /\ SocketOf(tab[t]) = s
                        /\ t \in Addressed(told, InMap(sess)) <=> t \in Addressed(tab, InMap(sess))
    BY <2>5 DEF Addressed, Lone
  <2>9. \A t \in Tabs :
          /\ PhaseOf(tab'[t]) = PhaseOf(tab[t]) /\ SocketOf(tab'[t]) = SocketOf(tab[t])
          /\ PanelOf(tab'[t]) = PanelOf(tab[t])
          /\ SocketOf(tab[t]) # s => IdOf(tab'[t]) = IdOf(tab[t]) /\ DotOf(tab'[t]) = DotOf(tab[t])
          /\ t \in Addressed(tab, InMap(sess)) => ActsOf(tab'[t]) = log'
    BY <2>5, <2>6, <2>7, <2>8
  <2>10. /\ sess' \in SessionMaps /\ \A u \in Ids : u # s => sess'[u] = sess[u]
         /\ sess'[s].tcp \notin {"open", "dying"} /\ recorded' \in Nat
    BY <1>1, <1>4, <1>7, <2>1 DEF Connected
  <2>11. Within(sess'[s], events')
    BY <1>2, <1>4, <2>1 DEF Within
  <2>12. Charged(sess[s], sess'[s], recorded, recorded', events, events')
    BY <1>2, <1>4, <2>1 DEF Charged
  <2>13. tab' \in PageMaps
    BY <2>6, <2>7
  <2>14. \A t \in Tabs :
           /\ PhaseOf(tab'[t]) = PhaseOf(tab[t]) /\ SocketOf(tab'[t]) = SocketOf(tab[t])
           /\ \/ t \in Addressed(tab, InMap(sess')) => PanelOf(tab'[t]) = SessionPayload(sess').sessions
              \/ sess' = sess /\ PanelOf(tab'[t]) = PanelOf(tab[t])
           /\ SocketOf(tab[t]) # s => IdOf(tab'[t]) = IdOf(tab[t]) /\ DotOf(tab'[t]) = DotOf(tab[t])
           /\ (SocketOf(tab[t]) # s /\ t \in Addressed(tab, InMap(sess')) /\ ActsOf(tab[t]) = log)
                => ActsOf(tab'[t]) = log'
    BY <2>1, <2>9
  <2> QED
    BY <1>2, <1>3, <1>5, <2>3, <2>10, <2>11, <2>12, <2>13, <2>14, SessionStep
<1> QED
  BY <1>6, <1>7

LEMMA WsClosedStep ==
  ASSUME TabsInv, NEW s \in Ids, WsClosed(s)
  PROVE  TabsInv'
<1>1. sess \in SessionMaps /\ tab \in PageMaps /\ log \in Seq(Entry)
  BY DEF TabsInv, TabsTyped
<1>2. /\ ws[s] = "left" /\ ws' = [ws EXCEPT ![s] = "closed"]
      /\ UNCHANGED <<up, log, recorded, opened, events, timeouts>>
      /\ sess' = [sess EXCEPT ![s].tcp = IF @ = "closed" THEN @ ELSE "closing"]
  BY DEF WsClosed, counts
<1>3. s <= opened
  BY <1>2, SessionOpened
<1>4. /\ sess' \in SessionMaps /\ \A u \in Ids : u # s => sess'[u] = sess[u]
      /\ sess'[s].inFlight = sess[s].inFlight /\ sess'[s].count = sess[s].count
      /\ sess'[s].tcp \in {"closed", "closing"}
  BY <1>1, <1>2 DEF SessionState, SessionMaps
<1>5. tab' = Send(tab, InMap(sess'), SessionPayload(sess'))
  BY DEF WsClosed
<1>6. /\ tab' \in PageMaps
      /\ \A t \in Tabs :
           /\ PhaseOf(tab'[t]) = PhaseOf(tab[t]) /\ SocketOf(tab'[t]) = SocketOf(tab[t])
           /\ IdOf(tab'[t]) = IdOf(tab[t]) /\ DotOf(tab'[t]) = DotOf(tab[t]) /\ ActsOf(tab'[t]) = ActsOf(tab[t])
           /\ t \in Addressed(tab, InMap(sess')) => PanelOf(tab'[t]) = SessionPayload(sess').sessions
  BY <1>1, <1>4, <1>5, SessionsSent
<1>7. /\ Charged(sess[s], sess'[s], recorded, recorded', events, events')
      /\ Within(sess'[s], events')
  BY <1>2, <1>4, CoverBounds DEF TabsInv, Charged, Within
<1>8. /\ events' \in 0 .. MaxEvents /\ events <= events'
      /\ recorded' \in Nat /\ timeouts' \in Nat /\ timeouts <= timeouts'
      /\ log' \in Seq(Entry) /\ Len(log') <= MaxActivity /\ log' = log
  BY <1>2, TabBoundAssumption DEF TabsInv, TabsTyped
<1>9. ws' \in [Ids -> {"none", "open", "left", "closed"}] /\ \A u \in Ids : u # s => ws'[u] = ws[u]
  BY <1>2 DEF TabsInv, TabsTyped
<1>10. up' = up /\ opened' = opened
  BY <1>2
<1>11. sess'[s].tcp \notin {"open", "dying"}
  BY <1>4
<1> QED
  BY <1>3, <1>4, <1>6, <1>7, <1>8, <1>9, <1>10, <1>11, SessionStep

\* Sessions alike in what counts.
LEMMA CoverSame ==
  ASSUME TabsTyped, NEW ss, NEW e \in Nat, events <= e,
         \A u \in Ids : ss[u].inFlight = sess[u].inFlight /\ ss[u].count = sess[u].count
  PROVE  /\ \E g : AddsUp(g, ss) /\ recorded + g[MaxSessions] <= e
         /\ \A u \in Ids : ss[u].inFlight + ss[u].count <= e
<1>1. /\ \A u \in Ids : sess[u].inFlight \in Nat /\ sess[u].count \in Nat
      /\ recorded \in Nat /\ events \in Nat
  BY TabBoundAssumption DEF TabsTyped, SessionState, SessionMaps
<1>2. PICK f : AddsUp(f, sess) /\ recorded + f[MaxSessions] <= events
  BY DEF TabsTyped, EventsCover
<1>3. f[MaxSessions] \in Nat
  BY <1>2, TabBoundAssumption DEF AddsUp
<1>4. AddsUp(f, ss)
  BY <1>2, AddsUpSame
<1>5. recorded + f[MaxSessions] <= e
  BY <1>1, <1>2, <1>3
<1>6. ASSUME NEW u \in Ids
      PROVE  ss[u].inFlight + ss[u].count <= e
  <2>1. sess[u].inFlight + sess[u].count <= events
    BY DEF TabsTyped, EventsCover
  <2> QED
    BY <1>1, <1>6, <2>1
<1> QED
  BY <1>4, <1>5, <1>6

LEMMA StopStep ==
  ASSUME TabsInv, Stop
  PROVE  TabsInv'
<1>1. sess \in SessionMaps
  BY DEF TabsInv, TabsTyped
<1>2. /\ up' = FALSE /\ events < MaxEvents /\ events' = events + 1
      /\ UNCHANGED <<ws, log, tab, recorded, opened, timeouts>>
      /\ sess' = [s \in Ids |-> IF sess[s].tcp = "open" THEN [sess[s] EXCEPT !.tcp = "dying"] ELSE sess[s]]
  BY DEF Stop, Spend
<1>3. /\ sess' \in SessionMaps
      /\ \A u \in Ids :
           /\ sess'[u].inFlight = sess[u].inFlight /\ sess'[u].count = sess[u].count
           /\ sess'[u].tcp = IF sess[u].tcp = "open" THEN "dying" ELSE sess[u].tcp
  BY <1>1, <1>2 DEF SessionState, SessionMaps
<1>4. events' \in Nat /\ events <= events' /\ events' \in 0 .. MaxEvents
  BY <1>2, TabBoundAssumption DEF TabsInv, TabsTyped
<1>5. EventsCover'
  BY <1>2, <1>3, <1>4, CoverSame DEF TabsInv, EventsCover
<1>6. TabsTyped'
  BY <1>2, <1>3, <1>4, <1>5 DEF TabsInv, TabsTyped
<1>7. SocketsOwned'
  BY <1>2, <1>3 DEF TabsInv, SocketsOwned
<1>8. InMap(sess') = InMap(sess)
  BY <1>3 DEF InMap
<1>9. SessionPayload(sess') = SessionPayload(sess)
  <2>1. \A u \in InMap(sess) : u \in Ids
    BY DEF InMap
  <2>2. \A u \in InMap(sess) :
          [connected |-> sess'[u].tcp # "dialling", inFlight |-> sess'[u].inFlight, count |-> sess'[u].count]
          = [connected |-> sess[u].tcp # "dialling", inFlight |-> sess[u].inFlight, count |-> sess[u].count]
    BY <1>3, <2>1
  <2> QED
    BY <1>8, <2>2 DEF SessionPayload
<1>10. ASSUME NEW t \in Tabs, Greeted(t)'
       PROVE  Greeted(t)
  BY <1>2, <1>3, <1>10, SocketIsSession DEF Greeted
<1>11. (\A u \in Ids : sess'[u].tcp # "dialling") => (\A u \in Ids : sess[u].tcp # "dialling")
  BY <1>3
<1>12. TabsTrue'
  BY <1>2, <1>9, <1>10, <1>11 DEF TabsInv, TabsTrue
<1> QED
  BY <1>6, <1>7, <1>12 DEF TabsInv

LEMMA UpgradeStep ==
  ASSUME TabsInv, NEW t \in Tabs, Upgrade(t)
  PROVE  TabsInv'
<1> DEFINE s == opened + 1
<1>1. /\ tab[t].phase = "dialling" /\ opened < MaxSessions /\ opened' = s
      /\ ws' = [ws EXCEPT ![s] = "open"]
      /\ sess' = [sess EXCEPT ![s].tcp = "dialling"]
      /\ tab' = [tab EXCEPT ![t].phase = "open", ![t].socket = s]
      /\ UNCHANGED <<up, log, recorded, events, timeouts>>
  BY DEF Upgrade
<1>2. /\ sess \in SessionMaps /\ tab \in PageMaps /\ opened \in 0 .. MaxSessions /\ events \in 0 .. MaxEvents
      /\ ws \in [Ids -> {"none", "open", "left", "closed"}]
  BY DEF TabsInv, TabsTyped
<1>3. s \in Ids /\ s \in 1 .. s /\ s > opened /\ s \in 0 .. MaxSessions
  BY <1>1, <1>2, TabBoundAssumption DEF Ids
<1> HIDE DEF s
<1>4. /\ sess' \in SessionMaps /\ sess'[s].tcp = "dialling"
      /\ \A u \in Ids : u # s => sess'[u] = sess[u]
      /\ \A u \in Ids : sess'[u].inFlight = sess[u].inFlight /\ sess'[u].count = sess[u].count
  BY <1>1, <1>2, <1>3 DEF SessionState, SessionMaps
<1>5. /\ tab' \in PageMaps /\ tab'[t].socket = s
      /\ \A u \in Tabs : u # t => tab'[u] = tab[u]
  <2> DEFINE p == [tab[t] EXCEPT !.phase = "open", !.socket = s]
  <2>1. tab[t] \in PageState
    BY <1>2 DEF PageMaps
  <2>2. p \in PageState /\ p.socket = s
    BY <1>3, <2>1 DEF PageState
  <2>3. tab' = [tab EXCEPT ![t] = p]
    BY <1>1
  <2> HIDE DEF p
  <2> QED
    BY <1>2, <2>2, <2>3 DEF PageMaps
<1>6. events \in Nat /\ events <= events
  BY <1>2, TabBoundAssumption
<1>7. EventsCover'
  BY <1>1, <1>4, <1>6, CoverSame DEF TabsInv, EventsCover
<1>8. ws' \in [Ids -> {"none", "open", "left", "closed"}] /\ \A u \in Ids : u # s => ws'[u] = ws[u]
  BY <1>1, <1>2
<1>9. TabsTyped'
  BY <1>1, <1>3, <1>4, <1>5, <1>7, <1>8 DEF TabsInv, TabsTyped
<1>10. \A u \in Ids : u > s => u # s /\ u > opened
  BY <1>2, <1>3, TabBoundAssumption DEF Ids, s
<1>11. \A n \in 1 .. opened : n \in 1 .. s /\ n # s /\ n \in Ids
  BY <1>2, <1>3, TabBoundAssumption DEF Ids, s
<1>12. SocketsOwned'
  <2>1. \A u \in Tabs : tab'[u].phase = "open" => tab'[u].socket \in 1 .. s
    BY <1>3, <1>5, <1>11 DEF TabsInv, SocketsOwned
  <2>2. \A u \in Ids : u > s => sess'[u].tcp = "none" /\ sess'[u].inFlight = 0 /\ ws'[u] = "none"
    BY <1>4, <1>8, <1>10 DEF TabsInv, SocketsOwned
  <2> QED
    BY <1>1, <2>1, <2>2 DEF SocketsOwned
<1>13. ASSUME NEW u \in Tabs, Greeted(u)'
       PROVE  Greeted(u) /\ tab'[u] = tab[u]
  <2>1. u # t
    BY <1>4, <1>5, <1>13 DEF Greeted
  <2>2. tab'[u] = tab[u] /\ tab[u].phase = "open"
    BY <1>5, <1>13, <2>1 DEF Greeted
  <2>3. tab[u].socket \in 1 .. opened
    BY <2>2 DEF TabsInv, SocketsOwned
  <2>4. sess'[tab[u].socket] = sess[tab[u].socket]
    BY <1>4, <1>11, <2>3
  <2> QED
    BY <1>13, <2>2, <2>4 DEF Greeted
<1>14. ~(\A u \in Ids : sess'[u].tcp # "dialling")
  BY <1>3, <1>4
<1>15. TabsTrue'
  BY <1>1, <1>13, <1>14 DEF TabsInv, TabsTrue
<1> QED
  BY <1>9, <1>12, <1>15 DEF TabsInv

LEMMA DisconnectStep ==
  ASSUME TabsInv, NEW t \in Tabs, Disconnect(t)
  PROVE  TabsInv'
<1> DEFINE panel == [s \in DOMAIN tab[t].shown |->
                       IF s = tab[t].id THEN [tab[t].shown[s] EXCEPT !.connected = FALSE] ELSE tab[t].shown[s]]
<1>1. /\ tab[t].phase = "open" /\ events < MaxEvents /\ events' = events + 1
      /\ tab' = [tab EXCEPT ![t].phase = "dialling", ![t].dot = FALSE, ![t].shown = panel]
      /\ ws' = [ws EXCEPT ![tab[t].socket] = "left"]
      /\ UNCHANGED <<up, sess, log, recorded, opened, timeouts>>
  BY DEF Disconnect, Spend
<1>2. /\ tab \in PageMaps /\ ws \in [Ids -> {"none", "open", "left", "closed"}] /\ tab[t] \in PageState
  BY DEF TabsInv, TabsTyped, PageMaps
<1>3. panel \in ShownStates
  <2> DEFINE old == tab[t].shown
  <2>1. PICK S \in SUBSET Ids : old \in [S -> Payload]
    BY <1>2 DEF PageState, ShownStates
  <2> HIDE DEF old
  <2>2. \A s \in S : old[s] \in Payload /\ [old[s] EXCEPT !.connected = FALSE] \in Payload
    BY <2>1 DEF Payload
  <2>3. DOMAIN old = S
    BY <2>1
  <2>4. panel = [s \in S |-> IF s = tab[t].id THEN [old[s] EXCEPT !.connected = FALSE] ELSE old[s]]
    BY <2>3 DEF old
  <2>5. panel \in [S -> Payload]
    BY <2>2, <2>4
  <2> QED
    BY <2>5 DEF ShownStates
<1> HIDE DEF panel
<1>4. /\ tab' \in PageMaps /\ tab'[t].phase = "dialling"
      /\ \A u \in Tabs : u # t => tab'[u] = tab[u]
  BY <1>1, <1>2, <1>3 DEF PageState, PageMaps
<1>5. tab[t].socket \in Ids /\ tab[t].socket <= opened /\ tab[t].socket \in 1 .. opened
  BY <1>1, SocketIsSession DEF TabsInv, SocketsOwned
<1>6. ws' \in [Ids -> {"none", "open", "left", "closed"}] /\ \A u \in Ids : u # tab[t].socket => ws'[u] = ws[u]
  BY <1>1, <1>2
<1>7. events' \in Nat /\ events <= events' /\ events' \in 0 .. MaxEvents
  BY <1>1, TabBoundAssumption DEF TabsInv, TabsTyped
<1>8. EventsCover'
  BY <1>1, <1>7, CoverSame DEF TabsInv, EventsCover
<1>9. TabsTyped'
  BY <1>1, <1>4, <1>6, <1>7, <1>8 DEF TabsInv, TabsTyped
<1>10. \A u \in Ids : u > opened => u # tab[t].socket
  BY <1>5, TabBoundAssumption DEF TabsInv, TabsTyped, Ids
<1>11. SocketsOwned'
  <2>1. \A u \in Tabs : tab'[u].phase = "open" => tab'[u] = tab[u]
    BY <1>4
  <2> QED
    BY <1>1, <1>6, <1>10, <2>1 DEF TabsInv, SocketsOwned
<1>12. ASSUME NEW u \in Tabs, Greeted(u)'
       PROVE  Greeted(u) /\ tab'[u] = tab[u]
  <2>1. u # t
    BY <1>4, <1>12 DEF Greeted
  <2> QED
    BY <1>1, <1>4, <1>12, <2>1 DEF Greeted
<1>13. TabsTrue'
  <2>1. TabsTrue /\ UNCHANGED <<sess, log, timeouts>>
    BY <1>1 DEF TabsInv
  <2> QED
    BY <1>12, <2>1 DEF TabsTrue
<1> QED
  BY <1>9, <1>11, <1>13 DEF TabsInv

LEMMA TabsSame ==
  ASSUME TabsInv, UNCHANGED <<sess, ws, log, tab, recorded, opened, events, timeouts>>, up' \in BOOLEAN
  PROVE  TabsInv'
BY DEF TabsInv, TabsTyped, EventsCover, SocketsOwned, TabsTrue, Greeted

LEMMA TabsInvariant == TabsSpec => []TabsInv
<1>1. ASSUME TabsInv, [TabsNext]_tabsVars
      PROVE  TabsInv'
  <2>1. CASE \E t \in Tabs : Upgrade(t)
    BY <1>1, <2>1, UpgradeStep
  <2>2. CASE \E t \in Tabs : Disconnect(t)
    BY <1>1, <2>2, DisconnectStep
  <2>3. CASE \E s \in Ids : Connect(s)
    BY <1>1, <2>3, ConnectStep
  <2>4. CASE \E s \in Ids : ConnectFails(s)
    BY <1>1, <2>4, ConnectFailsStep
  <2>5. CASE \E s \in Ids : Take(s)
    BY <1>1, <2>5, TakeStep
  <2>6. CASE \E s \in Ids : Answer(s)
    BY <1>1, <2>6, AnswerStep
  <2>7. CASE \E s \in Ids : Timeout(s)
    BY <1>1, <2>7, TimeoutStep
  <2>8. CASE \E s \in Ids : TcpClosed(s)
    BY <1>1, <2>8, TcpClosedStep
  <2>9. CASE \E s \in Ids : WsClosed(s)
    BY <1>1, <2>9, WsClosedStep
  <2>10. CASE Stop
    BY <1>1, <2>10, StopStep
  <2>11. CASE Start
    BY <1>1, <2>11, TabsSame DEF Start, counts
  <2>12. CASE UNCHANGED tabsVars
    <3>1. up' \in BOOLEAN
      BY <1>1, <2>12 DEF TabsInv, TabsTyped, tabsVars
    <3> QED
      BY <1>1, <2>12, <3>1, TabsSame DEF tabsVars, counts
  <2> QED
    BY <1>1, <2>1, <2>2, <2>3, <2>4, <2>5, <2>6, <2>7, <2>8, <2>9, <2>10, <2>11, <2>12 DEF TabsNext
<1> QED
  BY <1>1, TabsInitially, PTL DEF TabsSpec

\* The variables stay within their types: the counters of a session, which the
\* bridge counts up and down in different callbacks, stay within the number of
\* commands, and the log within MAX_ACTIVITY.
THEOREM TabsTypeCorrect == TabsSpec => []TabsTypeOK
<1>1. ASSUME TabsInv PROVE TabsTypeOK
  <2>1. sess \in [Ids -> SessionState] /\ \A t \in Tabs : tab[t] \in PageState
    BY <1>1 DEF TabsInv, TabsTyped, SessionMaps, PageMaps
  <2>2. ASSUME NEW p \in PageState
        PROVE  /\ p.phase \in {"dialling", "open"}
               /\ {p.socket, p.id} \subseteq Ids \cup {NoSession}
               /\ p.dot \in BOOLEAN
               /\ DOMAIN p.shown \subseteq Ids
               /\ \A s \in DOMAIN p.shown : p.shown[s] \in Payload
               /\ p.acts \in Seq(Entry)
    <3>1. /\ p.phase \in {"dialling", "open"} /\ p.socket \in Ids \cup {NoSession}
          /\ p.id \in Ids \cup {NoSession}
          /\ p.dot \in BOOLEAN /\ p.shown \in ShownStates /\ p.acts \in Seq(Entry)
      BY <2>2 DEF PageState
    <3>2. PICK S \in SUBSET Ids : p.shown \in [S -> Payload]
      BY <3>1 DEF ShownStates
    <3> QED
      BY <3>1, <3>2
  <2> QED
    BY <1>1, <2>1, <2>2 DEF TabsInv, TabsTyped, TabsTypeOK, SessionState
<1> QED
  BY <1>1, TabsInvariant, PTL

LEMMA AttendedGreeted ==
  ASSUME TabsInv, AtRest, NEW t \in Tabs, Attended(t)
  PROVE  Greeted(t) /\ \A s \in Ids : sess[s].tcp # "dialling"
BY SocketIsSession, InMapMember DEF AtRest, Attended, Greeted

\* When nothing is on its way, every tab whose session lives shows the bridge's
\* sessions with their counters, marks its own, and says that it is connected
\* unless a command timed out (broadcastSessions in server.js, renderSessions in
\* app.js): for every number of tabs, sessions and events, in every order.
THEOREM PanelsTrue == TabsSpec => []PanelTrue
<1>1. ASSUME TabsInv PROVE PanelTrue
  BY <1>1, AttendedGreeted DEF TabsInv, TabsTrue, PanelTrue
<1> QED
  BY <1>1, TabsInvariant, PTL

\* ... and the bridge's activity log: no tab keeps an older or shorter timeline
\* (recordActivity and broadcastActivity in server.js, renderActivity in app.js).
THEOREM TimelinesShared == TabsSpec => []TimelineShared
<1>1. ASSUME TabsInv PROVE TimelineShared
  BY <1>1, AttendedGreeted DEF TabsInv, TabsTrue, TimelineShared
<1> QED
  BY <1>1, TabsInvariant, PTL
-----------------------------------------------------------------------------
(***************************************************************************)
(* The tab and its WebSocket (TabLoop).                                    *)
(***************************************************************************)

\* What a frame can be: the commands typed so far, and the frame for keys.
Known    == Range(typed) \cup {KeysFrame}
LoopReads   == [began : 0 .. version, rest : Seq(Known)]
LoopEntries == {e \in [item : Known, began : Nothing .. version, left : Nat, rest : Seq(Known)] :
                  e.left > 0 => e.item = KeysFrame}
Messages == [type : {"keys"}, began : Nothing .. version]
              \cup [type : {"response"}, command : Range(typed)]
              \cup {ForeignActivity, ErrorMessage}

LoopTyped ==
  /\ connected \in BOOLEAN /\ disabled \in BOOLEAN
  /\ typed \in Seq(Commands) /\ NoDuplicates(typed)
  /\ toBridge \in Seq(Known)
  /\ reading \in Seq(LoopReads)
  /\ queue \in Seq(LoopEntries)
  /\ replies \in 0 .. Len(queue)
  /\ toTab \in Seq(Messages)
  /\ version \in Nat
  /\ foreign \in Nat /\ foreigners \in 0 .. MaxForeign /\ foreign <= foreigners
  /\ failures \in Nat
  /\ newest \in Nothing .. version
  /\ answered \subseteq Range(typed)
  /\ issued \in Seq(Range(typed))
  /\ behind \subseteq Range(typed)

\* When c was typed.
PlaceIn(t, c) == CHOOSE n \in DOMAIN t : t[n] = c
Place(c)      == PlaceIn(typed, c)

\* The frames on their way are in the order in which they were typed, behind
\* all that has arrived; what waits in a rest arrived behind another frame.
InOrder ==
  /\ \A i, j \in DOMAIN toBridge :
       i < j /\ toBridge[i] # KeysFrame /\ toBridge[j] # KeysFrame => Place(toBridge[i]) < Place(toBridge[j])
  /\ \A c \in behind \cup Range(issued) : \A j \in DOMAIN toBridge :
       toBridge[j] # KeysFrame => Place(c) < Place(toBridge[j])
  /\ \A r \in Range(reading) : Range(r.rest) \subseteq behind \cup {KeysFrame}
  /\ \A e \in Range(queue) : Range(e.rest) \subseteq behind \cup {KeysFrame}
  /\ \A i, j \in DOMAIN issued : i < j => Place(issued[i]) < Place(issued[j]) \/ issued[j] \in behind

\* A frame for keys is on its way or waits, or a listing is under way or on
\* its way back.
Asked ==
  \/ KeysFrame \in Range(toBridge)
  \/ Range(reading) # {}
  \/ \E e \in Range(queue) : e.item = KeysFrame \/ KeysFrame \in Range(e.rest)
  \/ \E m \in Range(toTab) : m.type = "keys"

ButtonWaits ==
  failures = 0 /\ disabled => Asked

\* A listing that begins or began after the last write is still to come or on
\* its way to the page, or what will make the page ask for one is.
ListingDue ==
  \/ KeysFrame \in Range(toBridge)
  \/ \E r \in Range(reading) : r.began = version \/ KeysFrame \in Range(r.rest)
  \/ \E e \in Range(queue) :
       e.item # KeysFrame \/ e.began = version \/ KeysFrame \in Range(e.rest)
  \/ \E m \in Range(toTab) :
       m.type \in {"response", "activity"} \/ (m.type = "keys" /\ m.began = version)
  \/ foreign > 0

LastWriteDue ==
  connected /\ failures = 0 => newest = version \/ ListingDue

LoopInv == LoopTyped /\ InOrder /\ ButtonWaits /\ LastWriteDue

\* The definitions that depend on what has been typed and on the version.
LEMMA SameFrames ==
  ASSUME typed' = typed
  PROVE  /\ Known' = Known
         /\ version' = version =>
              Messages' = Messages /\ LoopEntries' = LoopEntries /\ LoopReads' = LoopReads
BY DEF Known, LoopEntries, LoopReads, Messages

\* A write leaves what is under way what it is.
LEMMA LaterVersion ==
  ASSUME LoopTyped, typed' = typed, version' \in Nat, version' >= version
  PROVE  /\ Known' = Known
         /\ reading \in Seq(LoopReads') /\ queue \in Seq(LoopEntries')
         /\ toTab \in Seq(Messages') /\ newest \in Nothing .. version'
<1>1. Known' = Known
  BY SameFrames
<1>2. /\ reading \in Seq(LoopReads) /\ queue \in Seq(LoopEntries) /\ toTab \in Seq(Messages)
      /\ newest \in Nothing .. version /\ version \in Nat
  BY DEF LoopTyped
<1>3. 0 .. version \subseteq 0 .. version' /\ Nothing .. version \subseteq Nothing .. version'
  BY <1>2 DEF Nothing
<1>4. LoopReads \subseteq LoopReads' /\ LoopEntries \subseteq LoopEntries'
  BY <1>1, <1>3 DEF LoopReads, LoopEntries
<1>5. Messages \subseteq Messages'
  BY <1>3 DEF Messages, ForeignActivity, ErrorMessage
<1> QED
  BY <1>1, <1>2, <1>3, <1>4, <1>5, SeqMonotone

LEMMA MessageTypes ==
  ASSUME LoopTyped
  PROVE  /\ \A v \in Nothing .. version : KeysMessage(v) \in Messages
         /\ \A c \in Range(typed) : ResponseMessage(c) \in Messages
         /\ ForeignActivity \in Messages /\ ErrorMessage \in Messages
         /\ Nothing \in Nothing .. version
         /\ \A v : KeysMessage(v).type = "keys" /\ KeysMessage(v).began = v
         /\ \A c : ResponseMessage(c).type = "response"
<1>1. Nothing \in Nothing .. version
  BY DEF LoopTyped, Nothing
<1>2. \A v \in Nothing .. version : KeysMessage(v) \in Messages
  BY DEF Messages, KeysMessage
<1>3. \A c \in Range(typed) : ResponseMessage(c) \in Messages
  BY DEF Messages, ResponseMessage
<1>4. ForeignActivity \in Messages /\ ErrorMessage \in Messages
  BY DEF Messages
<1>5. /\ \A v : KeysMessage(v).type = "keys" /\ KeysMessage(v).began = v
      /\ \A c : ResponseMessage(c).type = "response"
  BY DEF KeysMessage, ResponseMessage
<1> QED
  BY <1>1, <1>2, <1>3, <1>4, <1>5

\* The four kinds of messages.
LEMMA MessageKinds ==
  ASSUME NEW m \in Messages
  PROVE  /\ m.type \in {"keys", "response", "activity", "error"}
         /\ m.type = "keys" => m.began \in Nothing .. version
         /\ m.type = "response" => m.command \in Range(typed)
BY DEF Messages, ForeignActivity, ErrorMessage

LEMMA RefusalsType ==
  ASSUME LoopTyped, NEW frames \in Seq(Known)
  PROVE  /\ Refusals(frames) \in Seq(Messages)
         /\ KeysFrame \in Range(frames) => \E m \in Range(Refusals(frames)) : m.type = "keys"
<1> DEFINE R == Refusals(frames)
<1>1. /\ DOMAIN frames = 1 .. Len(frames) /\ Len(frames) \in Nat
      /\ \A i \in 1 .. Len(frames) : frames[i] \in Known
  OBVIOUS
<1>2. /\ DOMAIN R = 1 .. Len(frames)
      /\ \A i \in 1 .. Len(frames) :
           R[i] = IF frames[i] = KeysFrame THEN KeysMessage(Nothing) ELSE ResponseMessage(frames[i])
      /\ R = [i \in 1 .. Len(frames) |-> R[i]]
  BY <1>1 DEF Refusals
<1> HIDE DEF R
<1>3. \A i \in 1 .. Len(frames) : R[i] \in Messages
  BY <1>1, <1>2, MessageTypes DEF Known
<1>4. R \in Seq(Messages)
  BY <1>1, <1>2, <1>3
<1>5. ASSUME KeysFrame \in Range(frames)
      PROVE  \E m \in Range(R) : m.type = "keys"
  <2>1. PICK i \in 1 .. Len(frames) : frames[i] = KeysFrame
    BY <1>1, <1>5 DEF Range
  <2>2. R[i] \in Range(R) /\ R[i].type = "keys"
    BY <1>2, <2>1, MessageTypes DEF Range
  <2> QED
    BY <2>2
<1> QED
  BY <1>4, <1>5 DEF R

\* Of the entries and results of a lost session.
LEMMA ResultType ==
  ASSUME LoopTyped, NEW e \in LoopEntries
  PROVE  /\ Result(e) \in Messages
         /\ e.item = KeysFrame => Result(e) = KeysMessage(e.began)
         /\ e.item # KeysFrame => Result(e) = ResponseMessage(e.item)
<1>1. e.item \in Known /\ e.began \in Nothing .. version
  BY DEF LoopEntries
<1>2. e.item # KeysFrame => e.item \in Range(typed)
  BY <1>1 DEF Known
<1> QED
  BY <1>1, <1>2, MessageTypes DEF Result

LEMMA LostType ==
  ASSUME LoopTyped
  PROVE  LET results  == [i \in DOMAIN queue |-> Result(queue[i])]
             refusals == FlattenSeq([i \in DOMAIN queue |-> Refusals(queue[i].rest)])
         IN  /\ results \in Seq(Messages) /\ refusals \in Seq(Messages)
             /\ \A e \in Range(queue) :
                  /\ e.item = KeysFrame => \E m \in Range(results) : m.type = "keys"
                  /\ KeysFrame \in Range(e.rest) => \E m \in Range(refusals) : m.type = "keys"
<1> DEFINE results == [i \in DOMAIN queue |-> Result(queue[i])]
           all     == [i \in DOMAIN queue |-> Refusals(queue[i].rest)]
<1>1. /\ DOMAIN queue = 1 .. Len(queue) /\ Len(queue) \in Nat
      /\ \A i \in 1 .. Len(queue) : queue[i] \in LoopEntries
  BY DEF LoopTyped
<1>2. \A i \in 1 .. Len(queue) : queue[i].rest \in Seq(Known)
  BY <1>1 DEF LoopEntries
<1>3. \A e \in LoopEntries : Result(e) \in Messages /\ (e.item = KeysFrame => Result(e).type = "keys")
  BY MessageTypes, ResultType
<1>4. \A i \in 1 .. Len(queue) : results[i] \in Messages
  BY <1>1, <1>3
<1>5. results \in Seq(Messages)
  BY <1>1, <1>4
<1>6. \A i \in 1 .. Len(queue) : all[i] \in Seq(Messages)
  BY <1>1, <1>2, RefusalsType
<1>7. all \in Seq(Seq(Messages)) /\ DOMAIN all = 1 .. Len(queue)
  BY <1>1, <1>6
<1>8. \A i \in 1 .. Len(queue) : all[i] = Refusals(queue[i].rest) /\ results[i] = Result(queue[i])
  BY <1>1
<1>9. DOMAIN results = 1 .. Len(queue)
  BY <1>1
<1> HIDE DEF all, results
<1>10. /\ FlattenSeq(all) \in Seq(Messages)
       /\ \A i \in 1 .. Len(queue) : Range(all[i]) \subseteq Range(FlattenSeq(all))
  BY <1>7, FlattenSeqRange
<1>11. ASSUME NEW e \in Range(queue), e.item = KeysFrame
       PROVE  \E m \in Range(results) : m.type = "keys"
  <2>1. PICK i \in 1 .. Len(queue) : e = queue[i]
    BY <1>1 DEF Range
  <2>2. results[i] \in Range(results)
    BY <1>9 DEF Range
  <2>3. results[i].type = "keys"
    BY <1>1, <1>3, <1>8, <1>11, <2>1
  <2> QED
    BY <2>2, <2>3
<1>12. ASSUME NEW e \in Range(queue), KeysFrame \in Range(e.rest)
       PROVE  \E m \in Range(FlattenSeq(all)) : m.type = "keys"
  <2>1. PICK i \in 1 .. Len(queue) : e = queue[i]
    BY <1>1 DEF Range
  <2>2. \E m \in Range(all[i]) : m.type = "keys"
    BY <1>2, <1>8, <1>12, <2>1, RefusalsType
  <2> QED
    BY <1>10, <2>2
<1> QED
  BY <1>5, <1>10, <1>11, <1>12 DEF all, results

\* A handler that goes on has no frames left, or sends a command, or starts a
\* listing.
BegunNow(rest) == [began |-> version, rest |-> rest]

LEMMA BeginCases ==
  ASSUME LoopTyped, NEW frames \in Seq(Known), NEW q \in Seq(LoopEntries), NEW r \in Seq(LoopReads),
         Begin(frames, q, r)
  PROVE  \/ frames = <<>> /\ queue' = q /\ reading' = r /\ issued' = issued
         \/ /\ frames # <<>> /\ Head(frames) \in Range(typed) /\ Head(frames) # KeysFrame
            /\ CommandEntry(Head(frames), Tail(frames)) \in LoopEntries
            /\ queue' = Append(q, CommandEntry(Head(frames), Tail(frames)))
            /\ reading' = r /\ issued' = Append(issued, Head(frames))
         \/ /\ frames # <<>> /\ Head(frames) = KeysFrame /\ Tail(frames) \in Seq(Known)
            /\ BegunNow(Tail(frames)) \in LoopReads
            /\ queue' = q /\ reading' = Append(r, BegunNow(Tail(frames))) /\ issued' = issued
<1>1. CASE frames = <<>>
  BY <1>1 DEF Begin
<1>2. CASE frames # <<>>
  <2>1. Head(frames) \in Known /\ Tail(frames) \in Seq(Known)
    BY <1>2
  <2>2. CASE Head(frames) = KeysFrame
    <3>1. BegunNow(Tail(frames)) \in LoopReads
      BY <2>1 DEF BegunNow, LoopReads, LoopTyped
    <3> QED
      BY <1>2, <2>1, <2>2, <3>1 DEF Begin, BegunNow
  <2>3. CASE Head(frames) # KeysFrame
    <3>1. Head(frames) \in Range(typed)
      BY <2>1, <2>3 DEF Known
    <3>2. CommandEntry(Head(frames), Tail(frames)) \in LoopEntries
      <4>1. Nothing \in Nothing .. version
        BY MessageTypes
      <4> QED
        BY <2>1, <4>1 DEF LoopEntries, CommandEntry
    <3> QED
      BY <1>2, <2>3, <3>1, <3>2 DEF Begin
  <2> QED
    BY <2>2, <2>3
<1> QED
  BY <1>1, <1>2

LEMMA BeginTyped ==
  ASSUME LoopTyped, NEW frames \in Seq(Known), NEW q \in Seq(LoopEntries), NEW r \in Seq(LoopReads),
         Begin(frames, q, r)
  PROVE  /\ queue' \in Seq(LoopEntries) /\ Len(queue') >= Len(q)
         /\ reading' \in Seq(LoopReads)
         /\ issued' \in Seq(Range(typed))
<1>1. issued \in Seq(Range(typed))
  BY DEF LoopTyped
<1>2. \A e \in LoopEntries : Append(q, e) \in Seq(LoopEntries) /\ Len(Append(q, e)) = Len(q) + 1
  OBVIOUS
<1>3. Len(q) \in Nat
  OBVIOUS
<1>4. CASE frames = <<>> /\ queue' = q /\ reading' = r /\ issued' = issued
  BY <1>1, <1>3, <1>4
<1>5. CASE /\ frames # <<>> /\ Head(frames) \in Range(typed) /\ Head(frames) # KeysFrame
           /\ CommandEntry(Head(frames), Tail(frames)) \in LoopEntries
           /\ queue' = Append(q, CommandEntry(Head(frames), Tail(frames)))
           /\ reading' = r /\ issued' = Append(issued, Head(frames))
  <2>1. Append(issued, Head(frames)) \in Seq(Range(typed))
    BY <1>1, <1>5
  <2>2. queue' \in Seq(LoopEntries) /\ Len(queue') = Len(q) + 1
    BY <1>2, <1>5
  <2> QED
    BY <1>3, <1>5, <2>1, <2>2
<1>6. CASE /\ frames # <<>> /\ Head(frames) = KeysFrame /\ Tail(frames) \in Seq(Known)
           /\ BegunNow(Tail(frames)) \in LoopReads
           /\ queue' = q /\ reading' = Append(r, BegunNow(Tail(frames))) /\ issued' = issued
  <2>1. Append(r, BegunNow(Tail(frames))) \in Seq(LoopReads)
    BY <1>6
  <2> QED
    BY <1>1, <1>3, <1>6, <2>1
<1> QED
  BY <1>4, <1>5, <1>6, BeginCases

\* The frames of a chunk.
LEMMA ChunkType ==
  ASSUME LoopTyped, NEW n \in 1 .. Len(toBridge)
  PROVE  LET frames == SubSeq(toBridge, 1, n)
             later  == SubSeq(toBridge, n + 1, Len(toBridge))
         IN  /\ frames \in Seq(Known) /\ frames # <<>> /\ Tail(frames) \in Seq(Known)
             /\ later \in Seq(Known)
             /\ Head(frames) = toBridge[1]
             /\ Len(later) = Len(toBridge) - n
             /\ \A i \in 1 .. Len(toBridge) - n : later[i] = toBridge[n + i]
             /\ \A c \in Range(Tail(frames)) : \E k \in 2 .. n : c = toBridge[k]
             /\ \A k \in 2 .. n : toBridge[k] \in Range(Tail(frames))
<1> DEFINE frames == SubSeq(toBridge, 1, n)
           later  == SubSeq(toBridge, n + 1, Len(toBridge))
<1>1. toBridge \in Seq(Known) /\ Len(toBridge) \in Nat
  BY DEF LoopTyped
<1>2. /\ frames \in Seq(Known) /\ Len(frames) = n
      /\ \A i \in 1 .. n : frames[i] = toBridge[i]
      /\ later \in Seq(Known) /\ Len(later) = Len(toBridge) - n
      /\ \A i \in 1 .. Len(toBridge) - n : later[i] = toBridge[n + i]
  BY <1>1, Split
<1> HIDE DEF frames, later
<1>3. frames # <<>>
  BY <1>2
<1>4. /\ Tail(frames) \in Seq(Known) /\ Len(Tail(frames)) = n - 1
      /\ \A i \in 1 .. n - 1 : Tail(frames)[i] = frames[i + 1]
      /\ Head(frames) = frames[1]
  BY <1>2, <1>3, HeadAndTail
<1>5. DOMAIN Tail(frames) = 1 .. n - 1
  BY <1>4
<1>6. ASSUME NEW c \in Range(Tail(frames))
      PROVE  \E k \in 2 .. n : c = toBridge[k]
  <2>1. PICK i \in 1 .. n - 1 : c = Tail(frames)[i]
    BY <1>5 DEF Range
  <2>2. i + 1 \in 2 .. n /\ i + 1 \in 1 .. n
    OBVIOUS
  <2> QED
    BY <1>2, <1>4, <2>1, <2>2
<1>7. ASSUME NEW k \in 2 .. n
      PROVE  toBridge[k] \in Range(Tail(frames))
  <2>1. k - 1 \in 1 .. n - 1 /\ (k - 1) + 1 = k /\ k \in 1 .. n
    OBVIOUS
  <2>2. Tail(frames)[k - 1] = toBridge[k]
    BY <1>2, <1>4, <2>1
  <2> QED
    BY <1>5, <2>1, <2>2 DEF Range
<1>8. 1 \in 1 .. n
  OBVIOUS
<1>9. Head(frames) = toBridge[1]
  BY <1>2, <1>4, <1>8
<1> QED
  BY <1>2, <1>3, <1>4, <1>6, <1>7, <1>9 DEF frames, later

\* A waiting entry.
LEMMA QueueHead ==
  ASSUME LoopTyped, replies > 0
  PROVE  /\ queue # <<>> /\ Head(queue) \in LoopEntries /\ Tail(queue) \in Seq(LoopEntries)
         /\ Head(queue).item \in Known /\ Head(queue).rest \in Seq(Known)
         /\ Head(queue).began \in Nothing .. version /\ Head(queue).left \in Nat
         /\ Len(Tail(queue)) = Len(queue) - 1
         /\ replies - 1 \in 0 .. Len(Tail(queue))
<1>1. queue \in Seq(LoopEntries) /\ replies \in 0 .. Len(queue) /\ Len(queue) \in Nat
  BY DEF LoopTyped
<1>2. queue # <<>>
  BY <1>1
<1>3. /\ Head(queue) \in LoopEntries /\ Tail(queue) \in Seq(LoopEntries) /\ Len(Tail(queue)) = Len(queue) - 1
  BY <1>1, <1>2
<1>4. replies - 1 \in 0 .. Len(Tail(queue))
  BY <1>1, <1>3
<1> QED
  BY <1>2, <1>3, <1>4 DEF LoopEntries

LEMMA LookupType ==
  ASSUME LoopTyped, NEW v \in Nothing .. version, NEW n \in Nat, NEW rest \in Seq(Known)
  PROVE  /\ LookupEntry(v, n, rest) \in LoopEntries
         /\ LookupEntry(v, n, rest).item = KeysFrame /\ LookupEntry(v, n, rest).began = v
         /\ LookupEntry(v, n, rest).rest = rest
<1>1. KeysFrame \in Known
  BY DEF Known
<1> QED
  BY <1>1 DEF LoopEntries, LookupEntry

\* A listing that reads files.
LEMMA ReadType ==
  ASSUME LoopTyped, NEW i \in DOMAIN reading
  PROVE  /\ reading[i].rest \in Seq(Known) /\ reading[i].began \in 0 .. version
         /\ reading[i].began \in Nothing .. version
         /\ RemoveAt(reading, i) \in Seq(LoopReads)
         /\ reading[i] \in Range(reading)
         /\ Range(RemoveAt(reading, i)) \subseteq Range(reading)
<1>1. reading \in Seq(LoopReads) /\ version \in Nat
  BY DEF LoopTyped
<1>2. reading[i] \in LoopReads /\ RemoveAt(reading, i) \in Seq(LoopReads)
  BY <1>1, RemoveAtRange
<1>3. reading[i].began \in Nothing .. version
  BY <1>1, <1>2 DEF LoopReads, Nothing
<1>4. reading[i] \in Range(reading)
  BY DEF Range
<1>5. Range(RemoveAt(reading, i)) \subseteq Range(reading)
  BY <1>1, RemoveAtRange
<1> QED
  BY <1>2, <1>3, <1>4, <1>5 DEF LoopReads

LEMMA TypedInit ==
  LoopInit => LoopTyped
<1> SUFFICES ASSUME LoopInit PROVE LoopTyped
  OBVIOUS
<1> USE DEF LoopInit
<1>1. KeysFrame \in Known /\ <<KeysFrame>> \in Seq(Known)
  BY DEF Known
<1>2. typed \in Seq(Commands) /\ NoDuplicates(typed)
  BY DEF NoDuplicates
<1>3. foreigners \in 0 .. MaxForeign
  BY BoundAssumption
<1>4. version \in Nat /\ newest \in Nothing .. version
  BY DEF Nothing
<1>5. /\ reading \in Seq(LoopReads) /\ queue \in Seq(LoopEntries) /\ replies \in 0 .. Len(queue)
      /\ toTab \in Seq(Messages) /\ issued \in Seq(Range(typed))
  OBVIOUS
<1> QED
  BY <1>1, <1>2, <1>3, <1>4, <1>5 DEF LoopTyped

\* What most steps leave alone.
LEMMA TypedFrame ==
  ASSUME LoopTyped, typed' = typed, version' = version,
         connected' \in BOOLEAN, disabled' \in BOOLEAN,
         toBridge' \in Seq(Known), reading' \in Seq(LoopReads), queue' \in Seq(LoopEntries),
         replies' \in 0 .. Len(queue'), toTab' \in Seq(Messages),
         foreign' \in Nat, foreigners' = foreigners, foreign' <= foreign, failures' \in Nat,
         newest' \in Nothing .. version, answered' \subseteq Range(typed),
         issued' \in Seq(Range(typed)), behind' \subseteq Range(typed)
  PROVE  LoopTyped'
<1>1. /\ Known' = Known /\ LoopEntries' = LoopEntries /\ Messages' = Messages
      /\ LoopReads' = LoopReads
  BY SameFrames
<1>2. foreign' <= foreigners' /\ foreigners' \in 0 .. MaxForeign
  BY DEF LoopTyped
<1> QED
  BY <1>1, <1>2 DEF LoopTyped

LEMMA TypedStep ==
  ASSUME LoopTyped, [LoopNext]_loopVars
  PROVE  LoopTyped'
<1> USE DEF bridge, store, pageState, past, tallies
<1>1. /\ connected \in BOOLEAN /\ disabled \in BOOLEAN
      /\ toBridge \in Seq(Known) /\ reading \in Seq(LoopReads) /\ queue \in Seq(LoopEntries)
      /\ replies \in 0 .. Len(queue) /\ Len(queue) \in Nat /\ toTab \in Seq(Messages)
      /\ version \in Nat /\ foreign \in Nat /\ foreign <= foreign /\ failures \in Nat
      /\ newest \in Nothing .. version /\ answered \subseteq Range(typed)
      /\ issued \in Seq(Range(typed)) /\ behind \subseteq Range(typed)
  BY DEF LoopTyped
<1>2. ASSUME NEW n \in 1 .. Len(toBridge), Arrive(n)
      PROVE  LoopTyped'
  <2> DEFINE frames == SubSeq(toBridge, 1, n)
             later  == SubSeq(toBridge, n + 1, Len(toBridge))
  <2>1. /\ frames \in Seq(Known) /\ frames # <<>> /\ Tail(frames) \in Seq(Known)
        /\ later \in Seq(Known)
    BY ChunkType
  <2>2. /\ toBridge' = later
        /\ behind' = behind \cup (Range(Tail(frames)) \ {KeysFrame})
        /\ IF connected THEN Begin(frames, queue, reading) /\ UNCHANGED toTab
           ELSE toTab' = toTab \o Refusals(frames) /\ UNCHANGED <<queue, reading, issued>>
        /\ UNCHANGED <<connected, replies, store, pageState, typed, newest, tallies>>
    BY <1>2 DEF Arrive
  <2> HIDE DEF frames, later
  <2>3. behind' \subseteq Range(typed)
    <3>1. Range(Tail(frames)) \subseteq Known
      BY <2>1, RangeMember
    <3> QED
      BY <1>1, <2>2, <3>1 DEF Known
  <2>4. /\ queue' \in Seq(LoopEntries) /\ Len(queue') >= Len(queue) /\ reading' \in Seq(LoopReads)
        /\ issued' \in Seq(Range(typed)) /\ toTab' \in Seq(Messages)
    <3>1. CASE connected
      <4>1. Begin(frames, queue, reading) /\ toTab' = toTab
        BY <2>2, <3>1
      <4> QED
        BY <1>1, <2>1, <4>1, BeginTyped
    <3>2. CASE ~connected
      <4>1. toTab' = toTab \o Refusals(frames) /\ UNCHANGED <<queue, reading, issued>>
        BY <2>2, <3>2
      <4>2. toTab \o Refusals(frames) \in Seq(Messages)
        BY <1>1, <2>1, RefusalsType, Joined
      <4> QED
        BY <1>1, <4>1, <4>2
    <3> QED
      BY <3>1, <3>2
  <2>5. replies' \in 0 .. Len(queue')
    BY <1>1, <2>2, <2>4
  <2> QED
    BY <1>1, <2>1, <2>2, <2>3, <2>4, <2>5, TypedFrame
<1>3. ASSUME NEW i \in DOMAIN reading, Looked(i)
      PROVE  LoopTyped'
  <2>1. /\ reading[i].rest \in Seq(Known) /\ reading[i].began \in Nothing .. version
        /\ RemoveAt(reading, i) \in Seq(LoopReads)
    BY ReadType
  <2>2. KeysMessage(reading[i].began) \in Messages
    BY <2>1, MessageTypes
  <2>3. Append(toTab, KeysMessage(reading[i].began)) \in Seq(Messages)
    BY <1>1, <2>2
  <2> DEFINE Sound == /\ queue' \in Seq(LoopEntries) /\ Len(queue') >= Len(queue)
                      /\ reading' \in Seq(LoopReads) /\ issued' \in Seq(Range(typed))
                      /\ toTab' \in Seq(Messages)
  <2>4. Sound
    <3>1. ASSUME NEW n \in Lookups, n > 0,
                 queue' = Append(queue, LookupEntry(reading[i].began, n - 1, reading[i].rest)),
                 reading' = RemoveAt(reading, i), UNCHANGED <<toTab, issued>>
          PROVE  Sound
      <4>1. n - 1 \in Nat
        BY <3>1, LookupsAssumption
      <4>2. LookupEntry(reading[i].began, n - 1, reading[i].rest) \in LoopEntries
        BY <2>1, <4>1, LookupType
      <4>3. queue' \in Seq(LoopEntries) /\ Len(queue') = Len(queue) + 1
        BY <1>1, <3>1, <4>2
      <4> QED
        BY <1>1, <2>1, <3>1, <4>3
    <3>2. ASSUME Begin(reading[i].rest, queue, RemoveAt(reading, i)),
                 toTab' = Append(toTab, KeysMessage(reading[i].began))
          PROVE  Sound
      BY <1>1, <2>1, <2>3, <3>2, BeginTyped
    <3>3. ASSUME toTab' = Append(toTab, KeysMessage(reading[i].began)) \o Refusals(reading[i].rest),
                 reading' = RemoveAt(reading, i), UNCHANGED <<queue, issued>>
          PROVE  Sound
      <4>1. toTab' \in Seq(Messages)
        BY <2>1, <2>3, <3>3, RefusalsType, Joined
      <4> QED
        BY <1>1, <2>1, <3>3, <4>1
    <3> QED
      BY <1>3, <3>1, <3>2, <3>3 DEF Looked
  <2>5. replies' \in 0 .. Len(queue')
    BY <1>1, <1>3, <2>4 DEF Looked
  <2> QED
    BY <1>1, <1>3, <2>4, <2>5, TypedFrame DEF Looked
<1>4. ASSUME NEW i \in DOMAIN reading, CannotRead(i)
      PROVE  LoopTyped'
  <2>1. /\ reading[i].rest \in Seq(Known) /\ RemoveAt(reading, i) \in Seq(LoopReads)
    BY ReadType
  <2>2. failures' \in Nat
    BY <1>1, <1>4 DEF CannotRead
  <2>3. Append(toTab, ErrorMessage) \in Seq(Messages)
    BY <1>1, MessageTypes
  <2>4. CASE connected
    <3>1. Begin(reading[i].rest, queue, RemoveAt(reading, i)) /\ toTab' = Append(toTab, ErrorMessage)
      BY <1>4, <2>4 DEF CannotRead
    <3>2. /\ queue' \in Seq(LoopEntries) /\ Len(queue') >= Len(queue) /\ reading' \in Seq(LoopReads)
          /\ issued' \in Seq(Range(typed))
      BY <1>1, <2>1, <3>1, BeginTyped
    <3>3. replies' \in 0 .. Len(queue')
      BY <1>1, <1>4, <3>2 DEF CannotRead
    <3> QED
      BY <1>1, <1>4, <2>2, <2>3, <3>1, <3>2, <3>3, TypedFrame DEF CannotRead
  <2>5. CASE ~connected
    <3>1. /\ toTab' = Append(toTab, ErrorMessage) \o Refusals(reading[i].rest)
          /\ reading' = RemoveAt(reading, i) /\ UNCHANGED <<queue, issued>>
      BY <1>4, <2>5 DEF CannotRead
    <3>2. toTab' \in Seq(Messages)
      BY <2>1, <2>3, <3>1, RefusalsType, Joined
    <3> QED
      BY <1>1, <1>4, <2>1, <2>2, <3>1, <3>2, TypedFrame DEF CannotRead
  <2> QED
    BY <2>4, <2>5
<1>5. CASE Finish
  <2>1. replies > 0 /\ Begin(Head(queue).rest, Tail(queue), reading) /\ replies' = replies - 1
    BY <1>5 DEF Finish
  <2>2. /\ Head(queue) \in LoopEntries /\ Tail(queue) \in Seq(LoopEntries)
        /\ Head(queue).rest \in Seq(Known)
        /\ replies - 1 \in 0 .. Len(Tail(queue)) /\ Len(Tail(queue)) \in Nat
    BY <2>1, QueueHead
  <2>3. /\ queue' \in Seq(LoopEntries) /\ Len(queue') >= Len(Tail(queue)) /\ reading' \in Seq(LoopReads)
        /\ issued' \in Seq(Range(typed))
    BY <1>1, <2>1, <2>2, BeginTyped
  <2>4. Append(toTab, Result(Head(queue))) \in Seq(Messages)
    BY <1>1, <2>2, ResultType
  <2>5. replies' \in 0 .. Len(queue')
    BY <2>1, <2>2, <2>3
  <2> QED
    BY <1>1, <1>5, <2>3, <2>4, <2>5, TypedFrame DEF Finish
<1>6. CASE LookFurther
  <2> DEFINE e == Head(queue)
             new == LookupEntry(e.began, e.left - 1, e.rest)
  <2>1. replies > 0 /\ e.left > 0 /\ queue' = Append(Tail(queue), new) /\ replies' = replies - 1
    BY <1>6 DEF LookFurther
  <2>2. /\ e.rest \in Seq(Known) /\ e.began \in Nothing .. version /\ e.left \in Nat
        /\ Tail(queue) \in Seq(LoopEntries)
        /\ replies - 1 \in 0 .. Len(Tail(queue)) /\ Len(Tail(queue)) \in Nat
    BY <2>1, QueueHead
  <2>3. new \in LoopEntries
    <3>1. e.left - 1 \in Nat
      BY <2>1, <2>2
    <3> QED
      BY <2>2, <3>1, LookupType
  <2> HIDE DEF e, new
  <2>4. queue' \in Seq(LoopEntries) /\ Len(queue') = Len(Tail(queue)) + 1
    BY <2>1, <2>2, <2>3
  <2>5. replies' \in 0 .. Len(queue')
    BY <2>1, <2>2, <2>4
  <2> QED
    BY <1>1, <1>6, <2>4, <2>5, TypedFrame DEF LookFurther
<1>7. CASE LoseSession
  <2> DEFINE results  == [i \in DOMAIN queue |-> Result(queue[i])]
             refusals == FlattenSeq([i \in DOMAIN queue |-> Refusals(queue[i].rest)])
  <2>1. results \in Seq(Messages) /\ refusals \in Seq(Messages)
    BY LostType
  <2>2. toTab' = toTab \o results \o refusals
    BY <1>7 DEF LoseSession
  <2> HIDE DEF results, refusals
  <2>3. toTab \o results \in Seq(Messages)
    BY <1>1, <2>1, Joined
  <2>4. toTab' \in Seq(Messages)
    BY <2>1, <2>2, <2>3, Joined
  <2>5. queue' \in Seq(LoopEntries) /\ replies' \in 0 .. Len(queue')
    BY <1>7 DEF LoseSession
  <2> QED
    BY <1>1, <1>7, <2>4, <2>5, TypedFrame DEF LoseSession
<1>8. CASE RecordForeign
  <2>1. toTab' \in Seq(Messages)
    BY <1>1, <1>8, MessageTypes DEF RecordForeign
  <2>2. foreign' \in Nat /\ foreign' <= foreign
    BY <1>1, <1>8 DEF RecordForeign
  <2> QED
    BY <1>1, <1>8, <2>1, <2>2, TypedFrame DEF RecordForeign
<1>9. CASE Serve
  <2>1. version' \in Nat /\ version' >= version
    BY <1>1, <1>9 DEF Serve
  <2>2. /\ typed' = typed /\ replies' = replies + 1 /\ replies < Len(queue)
        /\ UNCHANGED <<connected, reading, queue, toBridge, toTab, foreign, pageState, past, newest,
                       tallies>>
    BY <1>9 DEF Serve
  <2>3. /\ Known' = Known /\ reading \in Seq(LoopReads') /\ queue \in Seq(LoopEntries')
        /\ toTab \in Seq(Messages') /\ newest \in Nothing .. version'
    BY <2>1, <2>2, LaterVersion
  <2>4. replies' \in 0 .. Len(queue')
    BY <1>1, <2>2
  <2> QED
    BY <1>1, <2>1, <2>2, <2>3, <2>4 DEF LoopTyped
<1>10. CASE ServeForeign
  <2>1. /\ version' = version + 1 /\ foreign' = foreign + 1 /\ foreigners' = foreigners + 1
        /\ foreigners < MaxForeign
        /\ UNCHANGED <<bridge, toBridge, toTab, pageState, past, newest, failures>>
    BY <1>10 DEF ServeForeign
  <2>2. /\ version' \in Nat /\ version' >= version
        /\ foreign' \in Nat /\ foreigners' \in 0 .. MaxForeign /\ foreign' <= foreigners'
    BY <1>1, <2>1, BoundAssumption DEF LoopTyped
  <2>3. /\ Known' = Known /\ reading \in Seq(LoopReads') /\ queue \in Seq(LoopEntries')
        /\ toTab \in Seq(Messages') /\ newest \in Nothing .. version'
    BY <2>1, <2>2, LaterVersion
  <2> QED
    BY <1>1, <2>1, <2>2, <2>3 DEF LoopTyped
<1>11. ASSUME NEW c \in Commands, Type(c)
      PROVE  LoopTyped'
  <2>1. /\ c \notin Range(typed) /\ typed' = Append(typed, c) /\ toBridge' = Append(toBridge, c)
        /\ UNCHANGED <<bridge, toTab, store, pageState, issued, behind, newest, tallies>>
    BY <1>11 DEF Type
  <2>2. typed \in Seq(Commands) /\ NoDuplicates(typed)
    BY DEF LoopTyped
  <2>3. Range(typed') = Range(typed) \cup {c}
    BY <2>1, <2>2, RangeAppend
  <2>4. typed' \in Seq(Commands)
    BY <2>1, <2>2
  <2>5. NoDuplicates(typed')
    <3>1. \A i \in 1 .. Len(typed) : typed[i] # c
      BY <2>1, <2>2, RangeMember
    <3> DEFINE t == Append(typed, c)
    <3>2. /\ Len(t) = Len(typed) + 1 /\ t[Len(typed) + 1] = c /\ Len(typed) \in Nat
          /\ \A i \in 1 .. Len(typed) : t[i] = typed[i]
      BY <2>2
    <3> HIDE DEF t
    <3>3. \A i \in 1 .. Len(typed) + 1 : i \in 1 .. Len(typed) \/ i = Len(typed) + 1
      BY <3>2
    <3>4. NoDuplicates(t)
      BY <2>2, <3>1, <3>2, <3>3 DEF NoDuplicates
    <3> QED
      BY <2>1, <3>4 DEF t
  <2>6. Known \subseteq Known' /\ c \in Known'
    BY <2>3 DEF Known
  <2>7. Seq(Known) \subseteq Seq(Known')
    BY <2>6, SeqMonotone
  <2>8. LoopEntries \subseteq LoopEntries' /\ LoopReads \subseteq LoopReads'
    BY <2>1, <2>6, <2>7 DEF LoopEntries, LoopReads
  <2>9. Messages \subseteq Messages'
    BY <2>1, <2>3 DEF Messages, ForeignActivity, ErrorMessage
  <2>10. toBridge' \in Seq(Known')
    <3>1. toBridge \in Seq(Known')
      BY <1>1, <2>7
    <3> QED
      BY <2>1, <2>6, <3>1
  <2>11. reading' \in Seq(LoopReads')
    BY <1>1, <2>1, <2>8, SeqMonotone
  <2>12. queue' \in Seq(LoopEntries')
    BY <1>1, <2>1, <2>8, SeqMonotone
  <2>13. toTab' \in Seq(Messages')
    BY <1>1, <2>1, <2>9, SeqMonotone
  <2>14. issued' \in Seq(Range(typed'))
    BY <1>1, <2>1, <2>3, SeqMonotone
  <2>15. answered' \subseteq Range(typed') /\ behind' \subseteq Range(typed')
    BY <1>1, <2>1, <2>3
  <2>16. foreigners' \in 0 .. MaxForeign /\ foreign' <= foreigners' /\ newest' \in Nothing .. version'
    BY <1>1, <2>1 DEF LoopTyped
  <2> QED
    BY <1>1, <2>1, <2>4, <2>5, <2>10, <2>11, <2>12, <2>13, <2>14, <2>15, <2>16 DEF LoopTyped
<1>12. CASE Click
  <2>1. Append(toBridge, KeysFrame) \in Seq(Known)
    BY <1>1 DEF Known
  <2> QED
    BY <1>1, <1>12, <2>1, TypedFrame DEF Click, FetchKeys
<1>13. ASSUME toTab # <<>>
       PROVE  Head(toTab) \in Messages /\ Tail(toTab) \in Seq(Messages)
  BY <1>1, <1>13
<1>14. CASE ReceiveKeys
  <2>1. Head(toTab).began \in Nothing .. version
    BY <1>13, <1>14, MessageKinds DEF ReceiveKeys
  <2>2. newest' \in Nothing .. version
    BY <1>1, <1>14, <2>1 DEF ReceiveKeys
  <2> QED
    BY <1>1, <1>13, <1>14, <2>2, TypedFrame DEF ReceiveKeys
<1>15. CASE ReceiveError
  BY <1>1, <1>13, <1>15, TypedFrame DEF ReceiveError
<1>16. CASE ReceiveResponse
  <2>1. Head(toTab).command \in Range(typed)
    BY <1>13, <1>16, MessageKinds DEF ReceiveResponse
  <2>2. Append(toBridge, KeysFrame) \in Seq(Known)
    BY <1>1 DEF Known
  <2> QED
    BY <1>1, <1>13, <1>16, <2>1, <2>2, TypedFrame DEF ReceiveResponse, FetchKeys
<1>17. CASE ReceiveActivity
  <2>1. Append(toBridge, KeysFrame) \in Seq(Known)
    BY <1>1 DEF Known
  <2> QED
    BY <1>1, <1>13, <1>17, <2>1, TypedFrame DEF ReceiveActivity, FetchKeys
<1>18. CASE UNCHANGED loopVars
  BY <1>1, <1>18, TypedFrame DEF loopVars
<1> QED
  BY <1>2, <1>3, <1>4, <1>5, <1>7, <1>8, <1>9, <1>10, <1>11, <1>12, <1>14, <1>15, <1>16, <1>17, <1>18,
     <1>6 DEF LoopNext

LEMMA PlaceUnique ==
  ASSUME LoopTyped, NEW n \in 1 .. Len(typed)
  PROVE  Place(typed[n]) = n
<1>1. DOMAIN typed = 1 .. Len(typed) /\ NoDuplicates(typed)
  BY DEF LoopTyped
<1> QED
  BY <1>1 DEF Place, PlaceIn, NoDuplicates

LEMMA PlaceType ==
  ASSUME LoopTyped, NEW c \in Range(typed)
  PROVE  Place(c) \in 1 .. Len(typed)
<1>1. DOMAIN typed = 1 .. Len(typed)
  BY DEF LoopTyped
<1>2. PICK n \in 1 .. Len(typed) : typed[n] = c
  BY <1>1 DEF Range
<1> QED
  BY <1>2, PlaceUnique

\* The parts of InOrder, for steps that change only one of them.
ArrivesInOrder ==
  \A i, j \in DOMAIN toBridge :
    i < j /\ toBridge[i] # KeysFrame /\ toBridge[j] # KeysFrame => Place(toBridge[i]) < Place(toBridge[j])
ArrivedEarlier ==
  \A c \in behind \cup Range(issued) : \A j \in DOMAIN toBridge :
    toBridge[j] # KeysFrame => Place(c) < Place(toBridge[j])
RestsAreBehind ==
  /\ \A r \in Range(reading) : Range(r.rest) \subseteq behind \cup {KeysFrame}
  /\ \A e \in Range(queue) : Range(e.rest) \subseteq behind \cup {KeysFrame}
IssuedInOrder ==
  \A i, j \in DOMAIN issued : i < j => Place(issued[i]) < Place(issued[j]) \/ issued[j] \in behind

LEMMA InOrderParts ==
  InOrder <=> ArrivesInOrder /\ ArrivedEarlier /\ RestsAreBehind /\ IssuedInOrder
BY DEF InOrder, ArrivesInOrder, ArrivedEarlier, RestsAreBehind, IssuedInOrder

LEMMA InOrderInit ==
  LoopInit => InOrder
<1> SUFFICES ASSUME LoopInit PROVE InOrder
  OBVIOUS
<1> USE DEF LoopInit
<1>1. toBridge = <<KeysFrame>> /\ DOMAIN toBridge = {1} /\ toBridge[1] = KeysFrame
  OBVIOUS
<1>2. Range(reading) = {} /\ Range(queue) = {} /\ Range(issued) = {} /\ DOMAIN issued = {}
  BY DEF Range
<1> QED
  BY <1>1, <1>2 DEF InOrder

\* A handler goes on with frames that are all behind, from q and r that were
\* there before: the order holds on.
LEMMA BeginInOrder ==
  ASSUME LoopTyped, InOrder, NEW frames \in Seq(Known), NEW q \in Seq(LoopEntries), NEW r \in Seq(LoopReads),
         Range(q) \subseteq Range(queue), Range(r) \subseteq Range(reading),
         Range(frames) \subseteq behind \cup {KeysFrame}, Begin(frames, q, r),
         typed' = typed, behind' = behind, toBridge' = toBridge
  PROVE  InOrder'
<1>1. ArrivesInOrder /\ ArrivedEarlier /\ RestsAreBehind /\ IssuedInOrder
  BY InOrderParts
<1>2. \A c : Place(c)' = Place(c)
  BY DEF Place
<1>3. ArrivesInOrder'
  BY <1>1, <1>2 DEF ArrivesInOrder
<1>4. issued \in Seq(Range(typed))
  BY DEF LoopTyped
<1>5. /\ \A x \in Range(r) : Range(x.rest) \subseteq behind \cup {KeysFrame}
      /\ \A e \in Range(q) : Range(e.rest) \subseteq behind \cup {KeysFrame}
  BY <1>1 DEF RestsAreBehind
<1>6. CASE frames = <<>> /\ queue' = q /\ reading' = r /\ issued' = issued
  <2>1. ArrivedEarlier'
    BY <1>1, <1>2, <1>6 DEF ArrivedEarlier
  <2>2. RestsAreBehind'
    BY <1>5, <1>6 DEF RestsAreBehind
  <2>3. IssuedInOrder'
    BY <1>1, <1>2, <1>6 DEF IssuedInOrder
  <2> QED
    BY <1>3, <2>1, <2>2, <2>3, InOrderParts DEF InOrder, ArrivesInOrder, ArrivedEarlier, RestsAreBehind, IssuedInOrder
<1>7. ASSUME frames # <<>>
      PROVE  /\ Head(frames) \in behind \cup {KeysFrame}
             /\ Range(Tail(frames)) \subseteq behind \cup {KeysFrame}
  BY <1>7, HeadAndTail
<1>8. CASE /\ frames # <<>> /\ Head(frames) \in Range(typed) /\ Head(frames) # KeysFrame
           /\ CommandEntry(Head(frames), Tail(frames)) \in LoopEntries
           /\ queue' = Append(q, CommandEntry(Head(frames), Tail(frames)))
           /\ reading' = r /\ issued' = Append(issued, Head(frames))
  <2>1. Head(frames) \in behind
    BY <1>7, <1>8
  <2>2. Range(issued') = Range(issued) \cup {Head(frames)}
    BY <1>4, <1>8, RangeAppend
  <2>3. ArrivedEarlier'
    BY <1>1, <1>2, <2>1, <2>2 DEF ArrivedEarlier
  <2>4. Range(queue') = Range(q) \cup {CommandEntry(Head(frames), Tail(frames))}
    BY <1>8, RangeAppend
  <2>5. RestsAreBehind'
    <3> DEFINE new == CommandEntry(Head(frames), Tail(frames))
    <3>1. Range(new.rest) \subseteq behind \cup {KeysFrame} /\ Range(queue') = Range(q) \cup {new}
      BY <1>7, <1>8, <2>4 DEF CommandEntry
    <3> HIDE DEF new
    <3>2. \A e \in Range(queue') : Range(e.rest) \subseteq behind \cup {KeysFrame}
      BY <1>5, <3>1
    <3> QED
      BY <1>5, <1>8, <3>2 DEF RestsAreBehind
  <2>6. IssuedInOrder'
    <3> DEFINE s == Append(issued, Head(frames))
    <3>1. /\ DOMAIN s = 1 .. Len(issued) + 1 /\ s[Len(issued) + 1] = Head(frames) /\ Len(issued) \in Nat
          /\ \A i \in 1 .. Len(issued) : s[i] = issued[i]
          /\ DOMAIN issued = 1 .. Len(issued)
      BY <1>4
    <3> HIDE DEF s
    <3>2. ASSUME NEW i \in DOMAIN s, NEW j \in DOMAIN s, i < j
          PROVE  Place(s[i]) < Place(s[j]) \/ s[j] \in behind
      <4>1. CASE j = Len(issued) + 1
        BY <2>1, <3>1, <4>1
      <4>2. CASE j # Len(issued) + 1
        <5>1. i \in 1 .. Len(issued) /\ j \in 1 .. Len(issued)
          BY <3>1, <3>2, <4>2
        <5> QED
          BY <1>1, <3>1, <3>2, <5>1 DEF IssuedInOrder
      <4> QED
        BY <4>1, <4>2
    <3>3. issued' = s
      BY <1>8 DEF s
    <3> QED
      BY <1>2, <3>2, <3>3 DEF IssuedInOrder
  <2> QED
    BY <1>3, <2>3, <2>5, <2>6 DEF InOrder, ArrivesInOrder, ArrivedEarlier, RestsAreBehind, IssuedInOrder
<1>9. CASE /\ frames # <<>> /\ Head(frames) = KeysFrame /\ Tail(frames) \in Seq(Known)
           /\ BegunNow(Tail(frames)) \in LoopReads
           /\ queue' = q /\ reading' = Append(r, BegunNow(Tail(frames))) /\ issued' = issued
  <2>1. ArrivedEarlier'
    BY <1>1, <1>2, <1>9 DEF ArrivedEarlier
  <2>2. Range(reading') = Range(r) \cup {BegunNow(Tail(frames))}
    BY <1>9, RangeAppend
  <2>3. RestsAreBehind'
    <3>1. BegunNow(Tail(frames)).rest = Tail(frames)
      BY DEF BegunNow
    <3> QED
      BY <1>5, <1>7, <1>9, <2>2, <3>1 DEF RestsAreBehind
  <2>4. IssuedInOrder'
    BY <1>1, <1>2, <1>9 DEF IssuedInOrder
  <2> QED
    BY <1>3, <2>1, <2>3, <2>4 DEF InOrder, ArrivesInOrder, ArrivedEarlier, RestsAreBehind, IssuedInOrder
<1> QED
  BY <1>6, <1>8, <1>9, BeginCases

\* A chunk arrives: what is behind its first frame was typed after all that
\* arrived before, and before all that has not arrived yet.
LEMMA ArriveInOrder ==
  ASSUME LoopTyped, InOrder, NEW n \in 1 .. Len(toBridge), Arrive(n)
  PROVE  InOrder'
<1> USE DEF store, pageState, tallies
<1> DEFINE frames == SubSeq(toBridge, 1, n)
           later  == SubSeq(toBridge, n + 1, Len(toBridge))
<1>1. /\ frames \in Seq(Known) /\ frames # <<>> /\ Tail(frames) \in Seq(Known)
      /\ later \in Seq(Known) /\ Head(frames) = toBridge[1]
      /\ Len(later) = Len(toBridge) - n
      /\ \A i \in 1 .. Len(toBridge) - n : later[i] = toBridge[n + i]
      /\ \A c \in Range(Tail(frames)) : \E k \in 2 .. n : c = toBridge[k]
  BY ChunkType
<1>2. /\ toBridge' = later /\ typed' = typed
      /\ behind' = behind \cup (Range(Tail(frames)) \ {KeysFrame})
      /\ IF connected THEN Begin(frames, queue, reading)
         ELSE UNCHANGED <<queue, reading, issued>>
  BY DEF Arrive
<1> HIDE DEF frames, later
<1>3. ArrivesInOrder /\ ArrivedEarlier /\ RestsAreBehind /\ IssuedInOrder
  BY InOrderParts
<1>4. \A c : Place(c)' = Place(c)
  BY <1>2 DEF Place
<1>5. /\ toBridge \in Seq(Known) /\ issued \in Seq(Range(typed)) /\ Len(toBridge) \in Nat
      /\ DOMAIN toBridge = 1 .. Len(toBridge) /\ DOMAIN later = 1 .. Len(toBridge) - n
      /\ queue \in Seq(LoopEntries) /\ reading \in Seq(LoopReads)
  <2>1. /\ toBridge \in Seq(Known) /\ issued \in Seq(Range(typed))
        /\ queue \in Seq(LoopEntries) /\ reading \in Seq(LoopReads)
    BY DEF LoopTyped
  <2>2. DOMAIN later = 1 .. Len(toBridge) - n
    BY <1>1
  <2> QED
    BY <2>1, <2>2
<1>6. \A j \in 1 .. Len(toBridge) - n : n + j \in 1 .. Len(toBridge) /\ 1 < n + j /\ \A k \in 2 .. n : k < n + j
  BY <1>5
<1>7. ArrivesInOrder'
  <2> SUFFICES ASSUME NEW i \in 1 .. Len(toBridge) - n, NEW j \in 1 .. Len(toBridge) - n,
                      i < j, later[i] # KeysFrame, later[j] # KeysFrame
               PROVE  Place(later[i]) < Place(later[j])
    BY <1>2, <1>4, <1>5 DEF ArrivesInOrder
  <2>1. n + i < n + j /\ n + i \in DOMAIN toBridge /\ n + j \in DOMAIN toBridge
    BY <1>5, <1>6
  <2>2. later[i] = toBridge[n + i] /\ later[j] = toBridge[n + j]
    BY <1>1
  <2> QED
    BY <1>3, <2>1, <2>2 DEF ArrivesInOrder
<1>8. ASSUME NEW k \in 1 .. n, toBridge[k] # KeysFrame, NEW j \in 1 .. Len(toBridge) - n, later[j] # KeysFrame
      PROVE  Place(toBridge[k]) < Place(later[j])
  <2>1. k \in 1 .. Len(toBridge) /\ k < n + j /\ n + j \in 1 .. Len(toBridge)
    BY <1>5
  <2> QED
    BY <1>1, <1>3, <1>5, <1>8, <2>1 DEF ArrivesInOrder
<1>9. ASSUME NEW c \in behind \cup Range(issued), NEW j \in 1 .. Len(toBridge) - n, later[j] # KeysFrame
      PROVE  Place(c) < Place(later[j])
  BY <1>1, <1>3, <1>5, <1>6, <1>9 DEF ArrivedEarlier
<1>10. ASSUME NEW c \in behind', NEW j \in 1 .. Len(toBridge) - n, later[j] # KeysFrame
       PROVE  Place(c) < Place(later[j])
  <2>1. CASE c \in behind
    BY <1>9, <1>10, <2>1
  <2>2. CASE c \in Range(Tail(frames)) \ {KeysFrame}
    <3>1. PICK k \in 2 .. n : c = toBridge[k]
      BY <1>1, <2>2
    <3>2. k \in 1 .. n
      OBVIOUS
    <3> QED
      BY <1>8, <1>10, <2>2, <3>1, <3>2
  <2> QED
    BY <1>2, <1>10, <2>1, <2>2
<1>11. Range(Tail(frames)) \subseteq behind' \cup {KeysFrame} /\ behind \subseteq behind'
  BY <1>2
<1>12. /\ \A x \in Range(reading) : Range(x.rest) \subseteq behind' \cup {KeysFrame}
       /\ \A e \in Range(queue) : Range(e.rest) \subseteq behind' \cup {KeysFrame}
  BY <1>3, <1>11 DEF RestsAreBehind
<1>13. CASE UNCHANGED <<queue, reading, issued>>
  <2>1. ArrivedEarlier'
    BY <1>2, <1>4, <1>5, <1>9, <1>10, <1>13 DEF ArrivedEarlier
  <2>2. RestsAreBehind'
    BY <1>12, <1>13 DEF RestsAreBehind
  <2>3. IssuedInOrder'
    BY <1>3, <1>4, <1>11, <1>13 DEF IssuedInOrder
  <2> QED
    BY <1>7, <2>1, <2>2, <2>3 DEF InOrder, ArrivesInOrder, ArrivedEarlier, RestsAreBehind, IssuedInOrder
<1>14. CASE /\ Head(frames) \in Range(typed) /\ Head(frames) # KeysFrame
            /\ CommandEntry(Head(frames), Tail(frames)) \in LoopEntries
            /\ queue' = Append(queue, CommandEntry(Head(frames), Tail(frames)))
            /\ reading' = reading /\ issued' = Append(issued, Head(frames))
  <2>1. Range(issued') = Range(issued) \cup {Head(frames)}
    BY <1>5, <1>14, RangeAppend
  <2>2. 1 \in 1 .. n /\ 1 \in 1 .. Len(toBridge)
    BY <1>5
  <2>3. \A j \in 1 .. Len(toBridge) - n : later[j] # KeysFrame => Place(Head(frames)) < Place(later[j])
    BY <1>1, <1>8, <1>14, <2>2
  <2>4. ArrivedEarlier'
    BY <1>2, <1>4, <1>5, <1>9, <1>10, <2>1, <2>3 DEF ArrivedEarlier
  <2>5. Range(queue') = Range(queue) \cup {CommandEntry(Head(frames), Tail(frames))}
    BY <1>5, <1>14, RangeAppend
  <2>6. RestsAreBehind'
    <3> DEFINE new == CommandEntry(Head(frames), Tail(frames))
    <3>1. Range(new.rest) \subseteq behind' \cup {KeysFrame} /\ Range(queue') = Range(queue) \cup {new}
      BY <1>11, <2>5 DEF CommandEntry
    <3> HIDE DEF new
    <3>2. \A e \in Range(queue') : Range(e.rest) \subseteq behind' \cup {KeysFrame}
      BY <1>12, <3>1
    <3> QED
      BY <1>12, <1>14, <3>2 DEF RestsAreBehind
  <2>7. IssuedInOrder'
    <3> DEFINE s == Append(issued, Head(frames))
    <3>1. /\ DOMAIN s = 1 .. Len(issued) + 1 /\ s[Len(issued) + 1] = Head(frames) /\ Len(issued) \in Nat
          /\ \A i \in 1 .. Len(issued) : s[i] = issued[i]
          /\ DOMAIN issued = 1 .. Len(issued)
      BY <1>5
    <3> HIDE DEF s
    <3>2. ASSUME NEW i \in DOMAIN s, NEW j \in DOMAIN s, i < j
          PROVE  Place(s[i]) < Place(s[j]) \/ s[j] \in behind'
      <4>1. CASE j = Len(issued) + 1
        <5>1. i \in 1 .. Len(issued) /\ s[i] = issued[i]
          BY <3>1, <3>2, <4>1
        <5>2. s[i] \in Range(issued)
          BY <3>1, <5>1 DEF Range
        <5>3. s[j] = toBridge[1] /\ toBridge[1] # KeysFrame
          BY <1>1, <1>14, <3>1, <4>1
        <5> QED
          BY <1>3, <1>5, <2>2, <5>2, <5>3 DEF ArrivedEarlier
      <4>2. CASE j # Len(issued) + 1
        <5>1. i \in 1 .. Len(issued) /\ j \in 1 .. Len(issued)
          BY <3>1, <3>2, <4>2
        <5> QED
          BY <1>3, <1>11, <3>1, <3>2, <5>1 DEF IssuedInOrder
      <4> QED
        BY <4>1, <4>2
    <3>3. issued' = s
      BY <1>14 DEF s
    <3> QED
      BY <1>4, <3>2, <3>3 DEF IssuedInOrder
  <2> QED
    BY <1>7, <2>4, <2>6, <2>7 DEF InOrder, ArrivesInOrder, ArrivedEarlier, RestsAreBehind, IssuedInOrder
<1>15. CASE /\ Head(frames) = KeysFrame /\ Tail(frames) \in Seq(Known)
            /\ BegunNow(Tail(frames)) \in LoopReads
            /\ queue' = queue /\ reading' = Append(reading, BegunNow(Tail(frames))) /\ issued' = issued
  <2>1. ArrivedEarlier'
    BY <1>2, <1>4, <1>5, <1>9, <1>10, <1>15 DEF ArrivedEarlier
  <2>2. Range(reading') = Range(reading) \cup {BegunNow(Tail(frames))}
    BY <1>5, <1>15, RangeAppend
  <2>3. RestsAreBehind'
    <3>1. BegunNow(Tail(frames)).rest = Tail(frames)
      BY DEF BegunNow
    <3> QED
      BY <1>11, <1>12, <1>15, <2>2, <3>1 DEF RestsAreBehind
  <2>4. IssuedInOrder'
    BY <1>3, <1>4, <1>11, <1>15 DEF IssuedInOrder
  <2> QED
    BY <1>7, <2>1, <2>3, <2>4 DEF InOrder, ArrivesInOrder, ArrivedEarlier, RestsAreBehind, IssuedInOrder
<1>16. CASE connected
  BY <1>1, <1>2, <1>5, <1>14, <1>15, <1>16, BeginCases
<1> QED
  BY <1>2, <1>13, <1>16

\* Steps that issue nothing; the page may ask for keys.
LEMMA QuietInOrder ==
  ASSUME LoopTyped, InOrder, typed' = typed, behind' = behind, issued' = issued,
         toBridge' \in {toBridge, Append(toBridge, KeysFrame)},
         Range(reading') \subseteq Range(reading),
         \A e \in Range(queue') : Range(e.rest) \subseteq behind \cup {KeysFrame}
  PROVE  InOrder'
<1>1. ArrivesInOrder /\ ArrivedEarlier /\ RestsAreBehind /\ IssuedInOrder
  BY InOrderParts
<1>2. \A c : Place(c)' = Place(c)
  BY DEF Place
<1>3. \A j \in DOMAIN toBridge' : toBridge'[j] # KeysFrame => /\ j \in DOMAIN toBridge
                                                              /\ toBridge'[j] = toBridge[j]
  <2>1. CASE toBridge' = toBridge
    BY <2>1
  <2>2. CASE toBridge' = Append(toBridge, KeysFrame)
    <3> DEFINE t == Append(toBridge, KeysFrame)
    <3>1. /\ DOMAIN t = 1 .. Len(toBridge) + 1 /\ t[Len(toBridge) + 1] = KeysFrame
          /\ DOMAIN toBridge = 1 .. Len(toBridge) /\ Len(toBridge) \in Nat
          /\ \A i \in 1 .. Len(toBridge) : t[i] = toBridge[i]
      BY DEF LoopTyped
    <3> HIDE DEF t
    <3>2. \A j \in 1 .. Len(toBridge) + 1 : j \in 1 .. Len(toBridge) \/ j = Len(toBridge) + 1
      BY <3>1
    <3>3. \A j \in DOMAIN t : t[j] # KeysFrame => j \in DOMAIN toBridge /\ t[j] = toBridge[j]
      BY <3>1, <3>2
    <3> QED
      BY <2>2, <3>3 DEF t
  <2> QED
    BY <2>1, <2>2
<1>4. ArrivesInOrder'
  BY <1>1, <1>2, <1>3 DEF ArrivesInOrder
<1>5. ArrivedEarlier'
  BY <1>1, <1>2, <1>3 DEF ArrivedEarlier
<1>6. RestsAreBehind'
  BY <1>1 DEF RestsAreBehind
<1>7. IssuedInOrder'
  BY <1>1, <1>2 DEF IssuedInOrder
<1> QED
  BY <1>4, <1>5, <1>6, <1>7 DEF InOrder, ArrivesInOrder, ArrivedEarlier, RestsAreBehind, IssuedInOrder

\* What is typed now has a later place than all that was typed before.
LEMMA TypeInOrder ==
  ASSUME LoopTyped, InOrder, NEW c \in Commands, Type(c)
  PROVE  InOrder'
<1> USE DEF bridge, store, pageState, tallies
<1>1. /\ c \notin Range(typed) /\ typed' = Append(typed, c) /\ toBridge' = Append(toBridge, c)
      /\ behind' = behind /\ issued' = issued /\ queue' = queue /\ reading' = reading
  BY DEF Type
<1>2. /\ typed \in Seq(Commands) /\ toBridge \in Seq(Known)
      /\ issued \in Seq(Range(typed)) /\ behind \subseteq Range(typed)
  BY DEF LoopTyped
<1>3. LoopTyped'
  BY TypedStep DEF LoopNext
<1> DEFINE t == Append(typed, c)
<1>4. /\ Len(t) = Len(typed) + 1 /\ t[Len(typed) + 1] = c /\ Len(typed) \in Nat
      /\ DOMAIN t = 1 .. Len(typed) + 1 /\ DOMAIN typed = 1 .. Len(typed)
      /\ \A n \in 1 .. Len(typed) : t[n] = typed[n]
  BY <1>2
<1> HIDE DEF t
<1>5. typed' = t
  BY <1>1 DEF t
<1>6. \A n \in 1 .. Len(typed) + 1 : PlaceIn(t, t[n]) = n
  <2> SUFFICES ASSUME NEW n \in 1 .. Len(typed) + 1
               PROVE  (CHOOSE m \in DOMAIN t : t[m] = t[n]) = n
    BY DEF PlaceIn
  <2>1. \A i, j \in 1 .. Len(t) : t[i] = t[j] => i = j
    BY <1>3, <1>5 DEF LoopTyped, NoDuplicates
  <2> QED
    BY <1>4, <2>1
<1>7. ASSUME NEW d \in Range(typed)
      PROVE  PlaceIn(t, d) = Place(d) /\ Place(d) \in 1 .. Len(typed)
  <2>1. PICK n \in 1 .. Len(typed) : d = typed[n]
    BY <1>4 DEF Range
  <2>2. Place(d) = n
    BY <2>1, PlaceUnique
  <2>3. n \in 1 .. Len(typed) + 1 /\ t[n] = d
    BY <1>4, <2>1
  <2>4. PlaceIn(t, d) = n
    BY <1>6, <2>3
  <2> QED
    BY <2>2, <2>4
<1>8. PlaceIn(t, c) = Len(typed) + 1
  <2>1. Len(typed) + 1 \in 1 .. Len(typed) + 1
    BY <1>4
  <2> QED
    BY <1>4, <1>6, <2>1
<1>9. \A d \in Range(typed) : PlaceIn(t, d) < PlaceIn(t, c)
  BY <1>4, <1>7, <1>8
<1> DEFINE b == Append(toBridge, c)
<1>10. /\ DOMAIN b = 1 .. Len(toBridge) + 1 /\ b[Len(toBridge) + 1] = c
       /\ DOMAIN toBridge = 1 .. Len(toBridge) /\ Len(toBridge) \in Nat
       /\ \A i \in 1 .. Len(toBridge) : b[i] = toBridge[i]
  BY <1>2
<1> HIDE DEF b
<1>11. toBridge' = b
  BY <1>1 DEF b
<1>12. \A j \in 1 .. Len(toBridge) + 1 : j \in 1 .. Len(toBridge) \/ j = Len(toBridge) + 1
  BY <1>10
<1>13. \A i \in 1 .. Len(toBridge) : toBridge[i] # KeysFrame => toBridge[i] \in Range(typed)
  BY <1>2 DEF Known
<1>14. ArrivesInOrder /\ ArrivedEarlier /\ RestsAreBehind /\ IssuedInOrder
  BY InOrderParts
<1>15. ASSUME NEW i \in 1 .. Len(toBridge) + 1, NEW j \in 1 .. Len(toBridge) + 1,
              i < j, b[i] # KeysFrame, b[j] # KeysFrame
       PROVE  PlaceIn(t, b[i]) < PlaceIn(t, b[j])
  <2>1. i \in 1 .. Len(toBridge) /\ b[i] = toBridge[i] /\ toBridge[i] \in Range(typed)
    BY <1>10, <1>13, <1>15
  <2>2. CASE j = Len(toBridge) + 1
    BY <1>9, <1>10, <2>1, <2>2
  <2>3. CASE j \in 1 .. Len(toBridge)
    <3>1. b[j] = toBridge[j] /\ toBridge[j] \in Range(typed)
      BY <1>10, <1>13, <1>15, <2>3
    <3>2. Place(toBridge[i]) < Place(toBridge[j])
      BY <1>10, <1>14, <1>15, <2>1, <2>3, <3>1 DEF ArrivesInOrder
    <3> QED
      BY <1>7, <2>1, <3>1, <3>2
  <2> QED
    BY <1>12, <2>2, <2>3
<1>16. ArrivesInOrder'
  BY <1>5, <1>10, <1>11, <1>15 DEF ArrivesInOrder, Place
<1>17. Range(issued) \subseteq Range(typed)
  BY <1>2, RangeMember
<1>18. ASSUME NEW d \in behind \cup Range(issued), NEW j \in 1 .. Len(toBridge) + 1, b[j] # KeysFrame
       PROVE  PlaceIn(t, d) < PlaceIn(t, b[j])
  <2>1. d \in Range(typed)
    BY <1>2, <1>17
  <2>2. CASE j = Len(toBridge) + 1
    BY <1>9, <1>10, <2>1, <2>2
  <2>3. CASE j \in 1 .. Len(toBridge)
    <3>1. b[j] = toBridge[j] /\ toBridge[j] \in Range(typed)
      BY <1>10, <1>13, <1>18, <2>3
    <3>2. Place(d) < Place(toBridge[j])
      BY <1>10, <1>14, <1>18, <2>3, <3>1 DEF ArrivedEarlier
    <3> QED
      BY <1>7, <2>1, <3>1, <3>2
  <2> QED
    BY <1>12, <2>2, <2>3
<1>19. ArrivedEarlier'
  BY <1>1, <1>5, <1>10, <1>11, <1>18 DEF ArrivedEarlier, Place
<1>20. RestsAreBehind'
  BY <1>1, <1>14 DEF RestsAreBehind
<1>21. IssuedInOrder'
  <2> SUFFICES ASSUME NEW i \in DOMAIN issued, NEW j \in DOMAIN issued, i < j, issued[j] \notin behind
               PROVE  PlaceIn(t, issued[i]) < PlaceIn(t, issued[j])
    BY <1>1, <1>5 DEF IssuedInOrder, Place
  <2>1. Place(issued[i]) < Place(issued[j])
    BY <1>14 DEF IssuedInOrder
  <2>2. issued[i] \in Range(typed) /\ issued[j] \in Range(typed)
    BY <1>2
  <2> QED
    BY <1>7, <2>1, <2>2
<1> QED
  BY <1>16, <1>19, <1>20, <1>21 DEF InOrder, ArrivesInOrder, ArrivedEarlier, RestsAreBehind, IssuedInOrder

LEMMA InOrderStep ==
  ASSUME LoopTyped, InOrder, [LoopNext]_loopVars
  PROVE  InOrder'
<1> USE DEF bridge, store, pageState, past, tallies
<1>1. /\ reading \in Seq(LoopReads) /\ queue \in Seq(LoopEntries)
      /\ \A r \in Range(reading) : Range(r.rest) \subseteq behind \cup {KeysFrame}
      /\ \A e \in Range(queue) : Range(e.rest) \subseteq behind \cup {KeysFrame}
  BY DEF LoopTyped, InOrder
<1>2. ASSUME NEW n \in 1 .. Len(toBridge), Arrive(n)
      PROVE  InOrder'
  BY <1>2, ArriveInOrder
<1>3. ASSUME NEW i \in DOMAIN reading
      PROVE  /\ reading[i].rest \in Seq(Known) /\ RemoveAt(reading, i) \in Seq(LoopReads)
             /\ Range(RemoveAt(reading, i)) \subseteq Range(reading)
             /\ Range(reading[i].rest) \subseteq behind \cup {KeysFrame}
  BY <1>1, ReadType
<1>4. ASSUME NEW i \in DOMAIN reading, Looked(i)
      PROVE  InOrder'
  <2>1. typed' = typed /\ behind' = behind /\ toBridge' = toBridge
    BY <1>4 DEF Looked
  <2>2. ASSUME NEW n, queue' = Append(queue, LookupEntry(reading[i].began, n - 1, reading[i].rest)),
               reading' = RemoveAt(reading, i), issued' = issued
        PROVE  InOrder'
    <3> DEFINE new == LookupEntry(reading[i].began, n - 1, reading[i].rest)
    <3>1. Range(new.rest) \subseteq behind \cup {KeysFrame}
      BY <1>3 DEF LookupEntry
    <3>2. queue' = Append(queue, new)
      BY <2>2
    <3> HIDE DEF new
    <3>3. Range(queue') = Range(queue) \cup {new}
      BY <1>1, <3>2, RangeAppend
    <3>4. \A e \in Range(queue') : Range(e.rest) \subseteq behind \cup {KeysFrame}
      BY <1>1, <3>1, <3>3
    <3> QED
      BY <1>3, <2>1, <2>2, <3>4, QuietInOrder
  <2>3. ASSUME Begin(reading[i].rest, queue, RemoveAt(reading, i))
        PROVE  InOrder'
    BY <1>1, <1>3, <2>1, <2>3, BeginInOrder
  <2>4. ASSUME reading' = RemoveAt(reading, i), queue' = queue, issued' = issued
        PROVE  InOrder'
    BY <1>1, <1>3, <2>1, <2>4, QuietInOrder
  <2> QED
    BY <1>4, <2>2, <2>3, <2>4 DEF Looked
<1>5. ASSUME NEW i \in DOMAIN reading, CannotRead(i)
      PROVE  InOrder'
  <2>1. typed' = typed /\ behind' = behind /\ toBridge' = toBridge
    BY <1>5 DEF CannotRead
  <2>2. CASE connected
    <3>1. Begin(reading[i].rest, queue, RemoveAt(reading, i))
      BY <1>5, <2>2 DEF CannotRead
    <3> QED
      BY <1>1, <1>3, <2>1, <3>1, BeginInOrder
  <2>3. CASE ~connected
    <3>1. reading' = RemoveAt(reading, i) /\ queue' = queue /\ issued' = issued
      BY <1>5, <2>3 DEF CannotRead
    <3> QED
      BY <1>1, <1>3, <2>1, <3>1, QuietInOrder
  <2> QED
    BY <2>2, <2>3
<1>6. ASSUME replies > 0
      PROVE  /\ Tail(queue) \in Seq(LoopEntries) /\ Head(queue).rest \in Seq(Known)
             /\ Range(Head(queue).rest) \subseteq behind \cup {KeysFrame}
             /\ Range(Tail(queue)) \subseteq Range(queue)
  <2>1. /\ queue # <<>> /\ Tail(queue) \in Seq(LoopEntries) /\ Head(queue).rest \in Seq(Known)
    BY <1>6, QueueHead
  <2>2. Range(queue) = {Head(queue)} \cup Range(Tail(queue))
    BY <1>1, <2>1, HeadAndTail
  <2> QED
    BY <1>1, <2>1, <2>2
<1>12. CASE Finish
  <2>1. /\ replies > 0 /\ Begin(Head(queue).rest, Tail(queue), reading)
        /\ typed' = typed /\ behind' = behind /\ toBridge' = toBridge
    BY <1>12 DEF Finish
  <2> QED
    BY <1>1, <1>6, <2>1, BeginInOrder
<1>13. CASE LookFurther
  <2> DEFINE e   == Head(queue)
             new == LookupEntry(e.began, e.left - 1, e.rest)
  <2>1. /\ replies > 0 /\ queue' = Append(Tail(queue), new) /\ reading' = reading
        /\ typed' = typed /\ behind' = behind /\ toBridge' = toBridge /\ issued' = issued
    BY <1>13 DEF LookFurther
  <2>2. Range(new.rest) \subseteq behind \cup {KeysFrame}
    BY <1>6, <2>1 DEF LookupEntry
  <2> HIDE DEF new
  <2>3. Range(queue') = Range(Tail(queue)) \cup {new}
    BY <1>6, <2>1, RangeAppend
  <2>4. \A x \in Range(queue') : Range(x.rest) \subseteq behind \cup {KeysFrame}
    BY <1>1, <1>6, <2>1, <2>2, <2>3
  <2> QED
    BY <1>1, <2>1, <2>4, QuietInOrder
<1>7. CASE LoseSession
  <2>1. /\ queue' = <<>> /\ reading' = reading
        /\ typed' = typed /\ behind' = behind /\ toBridge' = toBridge /\ issued' = issued
    BY <1>7 DEF LoseSession
  <2>2. Range(queue') = {}
    BY <2>1 DEF Range
  <2> QED
    BY <2>1, <2>2, QuietInOrder
<1>8. CASE RecordForeign \/ Serve \/ ServeForeign \/ ReceiveKeys \/ ReceiveError
  <2>1. /\ queue' = queue /\ reading' = reading
        /\ typed' = typed /\ behind' = behind /\ toBridge' = toBridge /\ issued' = issued
    BY <1>8 DEF RecordForeign, Serve, ServeForeign, ReceiveKeys, ReceiveError
  <2> QED
    BY <1>1, <2>1, QuietInOrder
<1>9. CASE Click \/ ReceiveResponse \/ ReceiveActivity
  <2>1. /\ queue' = queue /\ reading' = reading
        /\ typed' = typed /\ behind' = behind /\ toBridge' = Append(toBridge, KeysFrame) /\ issued' = issued
    BY <1>9 DEF Click, ReceiveResponse, ReceiveActivity, FetchKeys
  <2> QED
    BY <1>1, <2>1, QuietInOrder
<1>10. ASSUME NEW c \in Commands, Type(c)
      PROVE  InOrder'
  BY <1>10, TypeInOrder
<1>11. CASE UNCHANGED loopVars
  <2>1. /\ queue' = queue /\ reading' = reading
        /\ typed' = typed /\ behind' = behind /\ toBridge' = toBridge /\ issued' = issued
    BY <1>11 DEF loopVars
  <2> QED
    BY <1>1, <2>1, QuietInOrder
<1> QED
  BY <1>2, <1>4, <1>5, <1>7, <1>8, <1>9, <1>10, <1>11, <1>12, <1>13 DEF LoopNext

\* Whatever a handler goes on with, a frame for keys among it is not lost: if it
\* is the first, a listing begins now.
LEMMA BeginAsks ==
  ASSUME LoopTyped, NEW frames \in Seq(Known), NEW q \in Seq(LoopEntries), NEW r \in Seq(LoopReads),
         Begin(frames, q, r)
  PROVE  /\ Range(q) \subseteq Range(queue') /\ Range(r) \subseteq Range(reading')
         /\ KeysFrame \in Range(frames) =>
              \/ \E x \in Range(reading') : x.began = version
              \/ \E e \in Range(queue') : KeysFrame \in Range(e.rest)
<1>1. CASE frames = <<>> /\ queue' = q /\ reading' = r /\ issued' = issued
  BY <1>1 DEF Range
<1>2. CASE /\ frames # <<>> /\ Head(frames) \in Range(typed) /\ Head(frames) # KeysFrame
           /\ CommandEntry(Head(frames), Tail(frames)) \in LoopEntries
           /\ queue' = Append(q, CommandEntry(Head(frames), Tail(frames)))
           /\ reading' = r /\ issued' = Append(issued, Head(frames))
  <2> DEFINE new == CommandEntry(Head(frames), Tail(frames))
  <2>1. Range(frames) = {Head(frames)} \cup Range(Tail(frames))
    BY <1>2, HeadAndTail
  <2>2. KeysFrame \in Range(frames) => KeysFrame \in Range(new.rest)
    BY <1>2, <2>1 DEF CommandEntry
  <2>3. Range(queue') = Range(q) \cup {new}
    BY <1>2, RangeAppend
  <2> HIDE DEF new
  <2> QED
    BY <1>2, <2>2, <2>3
<1>3. CASE /\ frames # <<>> /\ Head(frames) = KeysFrame /\ Tail(frames) \in Seq(Known)
           /\ BegunNow(Tail(frames)) \in LoopReads
           /\ queue' = q /\ reading' = Append(r, BegunNow(Tail(frames))) /\ issued' = issued
  <2>1. Range(reading') = Range(r) \cup {BegunNow(Tail(frames))}
    BY <1>3, RangeAppend
  <2>2. BegunNow(Tail(frames)).began = version
    BY DEF BegunNow
  <2> QED
    BY <1>3, <2>1, <2>2
<1> QED
  BY <1>1, <1>2, <1>3, BeginCases

\* The frames on their way are those of the chunk and those behind it.
LEMMA ChunkCovers ==
  ASSUME LoopTyped, NEW n \in 1 .. Len(toBridge)
  PROVE  Range(toBridge) \subseteq Range(SubSeq(toBridge, 1, n))
                                   \cup Range(SubSeq(toBridge, n + 1, Len(toBridge)))
<1> DEFINE frames == SubSeq(toBridge, 1, n)
           later  == SubSeq(toBridge, n + 1, Len(toBridge))
<1>1. /\ frames \in Seq(Known) /\ frames # <<>> /\ later \in Seq(Known)
      /\ Head(frames) = toBridge[1] /\ Len(later) = Len(toBridge) - n
      /\ \A i \in 1 .. Len(toBridge) - n : later[i] = toBridge[n + i]
      /\ \A k \in 2 .. n : toBridge[k] \in Range(Tail(frames))
  BY ChunkType
<1> HIDE DEF frames, later
<1>2. Range(frames) = {Head(frames)} \cup Range(Tail(frames))
  BY <1>1, HeadAndTail
<1>3. DOMAIN toBridge = 1 .. Len(toBridge) /\ Len(toBridge) \in Nat
  BY DEF LoopTyped
<1>4. ASSUME NEW i \in 1 .. Len(toBridge)
      PROVE  toBridge[i] \in Range(frames) \cup Range(later)
  <2>1. CASE i = 1
    BY <1>1, <1>2, <2>1
  <2>2. CASE i \in 2 .. n
    BY <1>1, <1>2, <2>2
  <2>3. CASE i > n
    <3>1. i - n \in 1 .. Len(toBridge) - n /\ n + (i - n) = i
      BY <1>3, <2>3
    <3>2. later[i - n] = toBridge[i] /\ DOMAIN later = 1 .. Len(toBridge) - n
      BY <1>1, <3>1
    <3> QED
      BY <3>1, <3>2 DEF Range
  <2> QED
    BY <1>3, <2>1, <2>2, <2>3
<1>5. Range(toBridge) \subseteq Range(frames) \cup Range(later)
  BY <1>3, <1>4 DEF Range
<1> QED
  BY <1>5 DEF frames, later

LEMMA ButtonInit ==
  LoopInit => ButtonWaits
<1> SUFFICES ASSUME LoopInit PROVE KeysFrame \in Range(toBridge)
  BY DEF ButtonWaits, Asked
<1> QED
  BY DEF LoopInit, Range

\* What is added to the messages for the page leaves those on their way.
LEMMA MessagesKept ==
  ASSUME LoopTyped, NEW more \in Seq(Messages)
  PROVE  Range(toTab \o more) = Range(toTab) \cup Range(more)
BY Joined DEF LoopTyped

LEMMA ButtonStep ==
  ASSUME LoopTyped, ButtonWaits, [LoopNext]_loopVars
  PROVE  ButtonWaits'
<1> USE DEF bridge, store, pageState, past, tallies
<1>1. /\ toBridge \in Seq(Known) /\ reading \in Seq(LoopReads) /\ queue \in Seq(LoopEntries)
      /\ toTab \in Seq(Messages) /\ failures \in Nat
  BY DEF LoopTyped
<1>2. ASSUME NEW n \in 1 .. Len(toBridge), Arrive(n)
      PROVE  ButtonWaits'
  <2> SUFFICES ASSUME Asked PROVE Asked'
    BY <1>2 DEF Arrive, ButtonWaits
  <2> DEFINE frames == SubSeq(toBridge, 1, n)
             later  == SubSeq(toBridge, n + 1, Len(toBridge))
  <2>1. frames \in Seq(Known)
    BY ChunkType
  <2>2. /\ toBridge' = later
        /\ IF connected THEN Begin(frames, queue, reading) /\ UNCHANGED toTab
           ELSE toTab' = toTab \o Refusals(frames) /\ UNCHANGED <<queue, reading, issued>>
    BY <1>2 DEF Arrive
  <2>3. Range(toBridge) \subseteq Range(frames) \cup Range(later)
    BY ChunkCovers
  <2> HIDE DEF frames, later
  <2>4. CASE connected
    <3>1. Begin(frames, queue, reading) /\ toTab' = toTab
      BY <2>2, <2>4
    <3>2. /\ Range(queue) \subseteq Range(queue') /\ Range(reading) \subseteq Range(reading')
          /\ KeysFrame \in Range(frames) =>
               Range(reading') # {} \/ \E e \in Range(queue') : KeysFrame \in Range(e.rest)
      BY <1>1, <2>1, <3>1, BeginAsks
    <3> QED
      BY <2>2, <2>3, <3>1, <3>2 DEF Asked
  <2>5. CASE ~connected
    <3>1. toTab' = toTab \o Refusals(frames) /\ queue' = queue /\ reading' = reading
      BY <2>2, <2>5
    <3>2. /\ Refusals(frames) \in Seq(Messages)
          /\ KeysFrame \in Range(frames) => \E m \in Range(Refusals(frames)) : m.type = "keys"
      BY <2>1, RefusalsType
    <3>3. Range(toTab') = Range(toTab) \cup Range(Refusals(frames))
      BY <3>1, <3>2, MessagesKept
    <3> QED
      BY <2>2, <2>3, <3>1, <3>2, <3>3 DEF Asked
  <2> QED
    BY <2>4, <2>5
<1>3. ASSUME NEW i \in DOMAIN reading, Looked(i)
      PROVE  ButtonWaits'
  <2> SUFFICES Asked'
    BY DEF ButtonWaits
  <2> DEFINE keys == KeysMessage(reading[i].began)
  <2>1. /\ reading[i].rest \in Seq(Known) /\ reading[i].began \in Nothing .. version
        /\ keys \in Messages /\ keys.type = "keys"
    BY ReadType, MessageTypes
  <2> HIDE DEF keys
  <2>2. ASSUME NEW n, queue' = Append(queue, LookupEntry(reading[i].began, n - 1, reading[i].rest))
        PROVE  Asked'
    <3> DEFINE new == LookupEntry(reading[i].began, n - 1, reading[i].rest)
    <3>1. queue' = Append(queue, new) /\ new.item = KeysFrame
      BY <2>2 DEF LookupEntry
    <3> HIDE DEF new
    <3>2. new \in Range(queue')
      BY <1>1, <3>1, RangeAppend
    <3> QED
      BY <3>1, <3>2 DEF Asked
  <2>3. ASSUME toTab' = Append(toTab, keys)
        PROVE  Asked'
    <3>1. keys \in Range(toTab')
      BY <1>1, <2>3, RangeAppend
    <3> QED
      BY <2>1, <3>1 DEF Asked
  <2>4. ASSUME toTab' = Append(toTab, keys) \o Refusals(reading[i].rest)
        PROVE  Asked'
    <3> DEFINE t == Append(toTab, keys)
               more == Refusals(reading[i].rest)
    <3>1. t \in Seq(Messages) /\ more \in Seq(Messages) /\ keys \in Range(t)
      BY <1>1, <2>1, RefusalsType, RangeAppend
    <3>2. toTab' = t \o more
      BY <2>4
    <3> HIDE DEF t, more
    <3>3. keys \in Range(toTab')
      BY <3>1, <3>2, Joined
    <3> QED
      BY <2>1, <3>3 DEF Asked
  <2> QED
    BY <1>3, <2>2, <2>3, <2>4 DEF Looked, keys
<1>4. ASSUME NEW i \in DOMAIN reading, CannotRead(i)
      PROVE  ButtonWaits'
  BY <1>1, <1>4 DEF CannotRead, ButtonWaits
<1>5. CASE Finish
  <2> SUFFICES ASSUME Asked PROVE Asked'
    BY <1>5 DEF Finish, ButtonWaits
  <2>1. /\ replies > 0 /\ Begin(Head(queue).rest, Tail(queue), reading)
        /\ toBridge' = toBridge /\ toTab' = Append(toTab, Result(Head(queue)))
    BY <1>5 DEF Finish
  <2>2. /\ queue # <<>> /\ Head(queue) \in LoopEntries /\ Tail(queue) \in Seq(LoopEntries)
        /\ Head(queue).rest \in Seq(Known)
    BY <2>1, QueueHead
  <2>3. Range(queue) = {Head(queue)} \cup Range(Tail(queue))
    BY <1>1, <2>2, HeadAndTail
  <2>4. /\ Range(Tail(queue)) \subseteq Range(queue') /\ Range(reading) \subseteq Range(reading')
        /\ KeysFrame \in Range(Head(queue).rest) =>
             Range(reading') # {} \/ \E e \in Range(queue') : KeysFrame \in Range(e.rest)
    BY <1>1, <2>1, <2>2, BeginAsks
  <2>5. Range(toTab') = Range(toTab) \cup {Result(Head(queue))}
    BY <1>1, <2>1, RangeAppend
  <2>6. Head(queue).item = KeysFrame => Result(Head(queue)).type = "keys"
    BY <2>2, ResultType, MessageTypes
  <2> QED
    BY <2>1, <2>3, <2>4, <2>5, <2>6 DEF Asked
<1>15. CASE LookFurther
  <2> SUFFICES Asked'
    BY DEF ButtonWaits
  <2> DEFINE new == LookupEntry(Head(queue).began, Head(queue).left - 1, Head(queue).rest)
  <2>1. replies > 0 /\ queue' = Append(Tail(queue), new) /\ new.item = KeysFrame
    BY <1>15 DEF LookFurther, LookupEntry
  <2> HIDE DEF new
  <2>2. Tail(queue) \in Seq(LoopEntries)
    BY <2>1, QueueHead
  <2>3. new \in Range(queue')
    BY <2>1, <2>2, RangeAppend
  <2> QED
    BY <2>1, <2>3 DEF Asked
<1>6. CASE LoseSession
  <2> SUFFICES ASSUME Asked PROVE Asked'
    BY <1>6 DEF LoseSession, ButtonWaits
  <2> DEFINE results  == [i \in DOMAIN queue |-> Result(queue[i])]
             refusals == FlattenSeq([i \in DOMAIN queue |-> Refusals(queue[i].rest)])
  <2>1. /\ results \in Seq(Messages) /\ refusals \in Seq(Messages)
        /\ \A e \in Range(queue) :
             /\ e.item = KeysFrame => \E m \in Range(results) : m.type = "keys"
             /\ KeysFrame \in Range(e.rest) => \E m \in Range(refusals) : m.type = "keys"
    BY LostType
  <2>2. toTab' = toTab \o results \o refusals /\ toBridge' = toBridge /\ reading' = reading
    BY <1>6 DEF LoseSession
  <2> HIDE DEF results, refusals
  <2>3. Range(toTab') = Range(toTab) \cup Range(results) \cup Range(refusals)
    BY <1>1, <2>1, <2>2, JoinedThrice
  <2> QED
    BY <2>1, <2>2, <2>3 DEF Asked
<1>7. CASE RecordForeign
  <2>1. toTab' = Append(toTab, ForeignActivity) \/ toTab' = toTab
    BY <1>7 DEF RecordForeign
  <2>2. Range(toTab) \subseteq Range(toTab')
    BY <1>1, <2>1, RangeAppend
  <2> QED
    BY <1>7, <2>2 DEF RecordForeign, ButtonWaits, Asked
<1>8. CASE Serve \/ ServeForeign
  BY <1>8 DEF Serve, ServeForeign, ButtonWaits, Asked
<1>9. Range(Append(toBridge, KeysFrame)) = Range(toBridge) \cup {KeysFrame}
  BY <1>1, RangeAppend
<1>10. ASSUME NEW c \in Commands, Type(c)
      PROVE  ButtonWaits'
  <2>1. toBridge' = Append(toBridge, c)
    BY <1>10 DEF Type
  <2>2. Range(toBridge) \subseteq Range(toBridge')
    BY <1>1, <2>1, RangeAppend
  <2> QED
    BY <1>10, <2>2 DEF Type, ButtonWaits, Asked
<1>11. CASE Click \/ ReceiveResponse \/ ReceiveActivity
  BY <1>9, <1>11 DEF Click, ReceiveResponse, ReceiveActivity, FetchKeys, ButtonWaits, Asked
<1>12. CASE ReceiveKeys
  BY <1>12 DEF ReceiveKeys, ButtonWaits
<1>13. CASE ReceiveError
  <2>1. toTab # <<>> /\ Head(toTab).type = "error" /\ toTab' = Tail(toTab)
    BY <1>13 DEF ReceiveError
  <2>2. Range(toTab) = {Head(toTab)} \cup Range(toTab')
    BY <1>1, <2>1, HeadAndTail
  <2>3. \A m \in Range(toTab) : m.type = "keys" => m \in Range(toTab')
    BY <2>1, <2>2
  <2> QED
    BY <1>13, <2>3 DEF ReceiveError, ButtonWaits, Asked
<1>14. CASE UNCHANGED loopVars
  BY <1>14 DEF loopVars, ButtonWaits, Asked
<1> QED
  BY <1>2, <1>3, <1>4, <1>5, <1>6, <1>7, <1>8, <1>10, <1>11, <1>12, <1>13, <1>14, <1>15 DEF LoopNext

LEMMA DueInit ==
  LoopInit => LastWriteDue
<1> SUFFICES ASSUME LoopInit PROVE KeysFrame \in Range(toBridge)
  BY DEF LastWriteDue, ListingDue
<1> QED
  BY DEF LoopInit, Range

LEMMA DueStep ==
  ASSUME LoopTyped, LastWriteDue, [LoopNext]_loopVars
  PROVE  LastWriteDue'
<1> USE DEF bridge, store, pageState, past, tallies
<1>1. /\ connected \in BOOLEAN /\ toBridge \in Seq(Known) /\ reading \in Seq(LoopReads)
      /\ queue \in Seq(LoopEntries) /\ toTab \in Seq(Messages)
      /\ version \in Nat /\ foreign \in Nat /\ failures \in Nat
      /\ newest \in Nothing .. version
  BY DEF LoopTyped
<1> DEFINE Seen == newest = version
<1>2. ASSUME NEW n \in 1 .. Len(toBridge), Arrive(n)
      PROVE  LastWriteDue'
  <2> SUFFICES ASSUME connected, ListingDue PROVE ListingDue'
    BY <1>2 DEF Arrive, LastWriteDue
  <2> DEFINE frames == SubSeq(toBridge, 1, n)
             later  == SubSeq(toBridge, n + 1, Len(toBridge))
  <2>1. frames \in Seq(Known)
    BY ChunkType
  <2>2. /\ toBridge' = later /\ Begin(frames, queue, reading) /\ toTab' = toTab
        /\ version' = version /\ foreign' = foreign
    BY <1>2 DEF Arrive
  <2>3. Range(toBridge) \subseteq Range(frames) \cup Range(later)
    BY ChunkCovers
  <2> HIDE DEF frames, later
  <2>4. /\ Range(queue) \subseteq Range(queue') /\ Range(reading) \subseteq Range(reading')
        /\ KeysFrame \in Range(frames) =>
             \/ \E x \in Range(reading') : x.began = version
             \/ \E e \in Range(queue') : KeysFrame \in Range(e.rest)
    BY <1>1, <2>1, <2>2, BeginAsks
  <2> QED
    BY <2>2, <2>3, <2>4 DEF ListingDue
<1>3. ASSUME NEW i \in DOMAIN reading, Looked(i)
      PROVE  LastWriteDue'
  <2> SUFFICES ASSUME connected, ListingDue PROVE ListingDue'
    BY <1>3 DEF Looked, LastWriteDue
  <2> DEFINE l == reading[i]
             left == RemoveAt(reading, i)
  <2>1. /\ l.rest \in Seq(Known) /\ l.began \in Nothing .. version
        /\ left \in Seq(LoopReads) /\ Range(reading) \subseteq Range(left) \cup {l}
    <3>1. Range(reading) \subseteq Range(left) \cup {l}
      BY <1>1, RemoveAtRange
    <3> QED
      BY <3>1, ReadType
  <2>2. toBridge' = toBridge /\ version' = version /\ foreign' = foreign
    BY <1>3 DEF Looked
  <2>3. ASSUME NEW n, queue' = Append(queue, LookupEntry(l.began, n - 1, l.rest)),
               reading' = left, toTab' = toTab
        PROVE  ListingDue'
    <3> DEFINE new == LookupEntry(l.began, n - 1, l.rest)
    <3>1. queue' = Append(queue, new) /\ new.began = l.began /\ new.rest = l.rest
      BY <2>3 DEF LookupEntry
    <3> HIDE DEF l, left, new
    <3>2. Range(queue') = Range(queue) \cup {new}
      BY <1>1, <3>1, RangeAppend
    <3> QED
      BY <2>1, <2>2, <2>3, <3>1, <3>2 DEF ListingDue
  <2>4. ASSUME Begin(l.rest, queue, left), toTab' = Append(toTab, KeysMessage(l.began))
        PROVE  ListingDue'
    <3> DEFINE keys == KeysMessage(l.began)
    <3>1. keys.type = "keys" /\ keys.began = l.began /\ toTab' = Append(toTab, keys)
      BY <2>4, MessageTypes
    <3>2. /\ Range(queue) \subseteq Range(queue') /\ Range(left) \subseteq Range(reading')
          /\ KeysFrame \in Range(l.rest) =>
               \/ \E x \in Range(reading') : x.began = version
               \/ \E e \in Range(queue') : KeysFrame \in Range(e.rest)
      BY <1>1, <2>1, <2>4, BeginAsks
    <3> HIDE DEF l, left, keys
    <3>3. Range(toTab') = Range(toTab) \cup {keys}
      BY <1>1, <3>1, RangeAppend
    <3> QED
      BY <2>1, <2>2, <3>1, <3>2, <3>3 DEF ListingDue
  <2> QED
    BY <1>3, <2>3, <2>4 DEF Looked
<1>4. ASSUME NEW i \in DOMAIN reading, CannotRead(i)
      PROVE  LastWriteDue'
  <2>1. failures' # 0
    BY <1>1, <1>4 DEF CannotRead
  <2> QED
    BY <2>1 DEF LastWriteDue
<1>5. CASE Finish
  <2> SUFFICES ASSUME ListingDue PROVE ListingDue'
    BY <1>5 DEF Finish, LastWriteDue
  <2> DEFINE e == Head(queue)
  <2>1. /\ replies > 0 /\ Begin(e.rest, Tail(queue), reading) /\ toTab' = Append(toTab, Result(e))
        /\ toBridge' = toBridge /\ version' = version /\ foreign' = foreign
    BY <1>5 DEF Finish
  <2>2. /\ queue # <<>> /\ e \in LoopEntries /\ Tail(queue) \in Seq(LoopEntries)
        /\ e.rest \in Seq(Known) /\ e.began \in Nothing .. version
    BY <2>1, QueueHead
  <2>3. Range(queue) = {e} \cup Range(Tail(queue))
    BY <1>1, <2>2, HeadAndTail
  <2>4. /\ Range(Tail(queue)) \subseteq Range(queue') /\ Range(reading) \subseteq Range(reading')
        /\ KeysFrame \in Range(e.rest) =>
             \/ \E x \in Range(reading') : x.began = version
             \/ \E d \in Range(queue') : KeysFrame \in Range(d.rest)
    BY <1>1, <2>1, <2>2, BeginAsks
  <2>5. /\ e.item = KeysFrame => Result(e).type = "keys" /\ Result(e).began = e.began
        /\ e.item # KeysFrame => Result(e).type = "response"
    BY <2>2, ResultType, MessageTypes
  <2> HIDE DEF e
  <2>6. Range(toTab') = Range(toTab) \cup {Result(e)}
    BY <1>1, <2>1, RangeAppend
  <2> QED
    BY <2>1, <2>3, <2>4, <2>5, <2>6 DEF ListingDue
<1>6. CASE LookFurther
  <2> SUFFICES ASSUME ListingDue PROVE ListingDue'
    BY <1>6 DEF LookFurther, LastWriteDue
  <2> DEFINE e   == Head(queue)
             new == LookupEntry(e.began, e.left - 1, e.rest)
  <2>1. /\ replies > 0 /\ e.left > 0 /\ queue' = Append(Tail(queue), new)
        /\ UNCHANGED <<toBridge, reading, toTab, version, foreign>>
    BY <1>6 DEF LookFurther
  <2>2. queue # <<>> /\ Tail(queue) \in Seq(LoopEntries)
    BY <2>1, QueueHead
  <2>3. Range(queue) = {e} \cup Range(Tail(queue))
    BY <1>1, <2>2, HeadAndTail
  <2>4. new.began = e.began /\ new.rest = e.rest
    BY DEF LookupEntry
  <2>5. CASE e.item = KeysFrame
    <3> HIDE DEF e, new
    <3>1. Range(queue') = Range(Tail(queue)) \cup {new}
      BY <2>1, <2>2, RangeAppend
    <3> QED
      BY <2>1, <2>3, <2>4, <2>5, <3>1 DEF ListingDue
  <2>6. e.item = KeysFrame
    BY <2>1, QueueHead DEF LoopEntries
  <2> QED
    BY <2>5, <2>6
<1>7. CASE LoseSession
  BY <1>7 DEF LoseSession, LastWriteDue
<1>8. CASE RecordForeign
  <2> SUFFICES ASSUME connected PROVE ListingDue'
    BY <1>8 DEF RecordForeign, LastWriteDue
  <2>1. toTab' = Append(toTab, ForeignActivity) /\ ForeignActivity.type = "activity"
    BY <1>8 DEF RecordForeign, ForeignActivity
  <2>2. ForeignActivity \in Range(toTab')
    BY <1>1, <2>1, RangeAppend
  <2> QED
    BY <2>1, <2>2 DEF ListingDue
<1>9. CASE Serve
  <2> DEFINE e == queue[replies']
  <2>1. /\ version' = IF e.item \in Writes THEN version + 1 ELSE version
        /\ replies' = replies + 1 /\ replies < Len(queue)
        /\ UNCHANGED <<connected, reading, queue, toBridge, toTab, foreign, newest, failures>>
    BY <1>9 DEF Serve
  <2>2. e \in Range(queue)
    <3>1. replies' \in 1 .. Len(queue)
      BY <1>1, <2>1 DEF LoopTyped
    <3> QED
      BY <1>1, <3>1, RangeMember
  <2> HIDE DEF e
  <2>3. CASE e.item \in Writes
    <3>1. e.item # KeysFrame
      BY <2>3, FrameAssumption
    <3> QED
      BY <2>1, <2>2, <3>1 DEF LastWriteDue, ListingDue
  <2>4. CASE e.item \notin Writes
    BY <2>1, <2>4 DEF LastWriteDue, ListingDue
  <2> QED
    BY <2>3, <2>4
<1>10. CASE ServeForeign
  <2>1. foreign' > 0
    BY <1>1, <1>10 DEF ServeForeign
  <2> QED
    BY <2>1 DEF LastWriteDue, ListingDue
<1>11. ASSUME NEW c \in Commands, Type(c)
       PROVE  LastWriteDue'
  <2>1. /\ toBridge' = Append(toBridge, c)
        /\ UNCHANGED <<connected, reading, queue, toTab, version, foreign, newest, failures>>
    BY <1>11 DEF Type
  <2>2. Range(toBridge) \subseteq Range(toBridge')
    BY <1>1, <2>1, RangeAppend
  <2> QED
    BY <2>1, <2>2 DEF LastWriteDue, ListingDue
<1>12. CASE Click \/ ReceiveResponse \/ ReceiveActivity
  <2>1. toBridge' = Append(toBridge, KeysFrame)
    BY <1>12 DEF Click, ReceiveResponse, ReceiveActivity, FetchKeys
  <2>2. KeysFrame \in Range(toBridge')
    BY <1>1, <2>1, RangeAppend
  <2> QED
    BY <2>2 DEF LastWriteDue, ListingDue
<1>13. CASE ReceiveKeys
  <2> DEFINE m == Head(toTab)
  <2>1. /\ toTab # <<>> /\ m.type = "keys" /\ toTab' = Tail(toTab)
        /\ newest' = IF m.began > newest THEN m.began ELSE newest
        /\ UNCHANGED <<connected, toBridge, reading, queue, version, foreign, failures>>
    BY <1>13 DEF ReceiveKeys
  <2>2. Range(toTab) = {m} \cup Range(toTab') /\ m \in Messages
    BY <1>1, <2>1, HeadAndTail
  <2>3. m.began \in Nothing .. version
    BY <2>1, <2>2, MessageKinds
  <2> HIDE DEF m
  <2>4. m.began = version \/ newest = version => newest' = version
    BY <1>1, <2>1, <2>3 DEF Nothing
  <2>5. CASE m.began = version
    BY <2>1, <2>4, <2>5 DEF LastWriteDue
  <2>6. CASE m.began # version
    <3>1. ListingDue => ListingDue'
      BY <2>1, <2>2, <2>6 DEF ListingDue
    <3> QED
      BY <2>1, <2>4, <3>1 DEF LastWriteDue
  <2> QED
    BY <2>5, <2>6
<1>14. CASE ReceiveError
  <2>1. /\ toTab # <<>> /\ Head(toTab).type = "error" /\ toTab' = Tail(toTab)
        /\ UNCHANGED <<connected, toBridge, reading, queue, version, foreign, newest, failures>>
    BY <1>14 DEF ReceiveError
  <2>2. Range(toTab) = {Head(toTab)} \cup Range(toTab')
    BY <1>1, <2>1, HeadAndTail
  <2>3. ListingDue => ListingDue'
    BY <2>1, <2>2 DEF ListingDue
  <2> QED
    BY <2>1, <2>3 DEF LastWriteDue
<1>15. CASE UNCHANGED loopVars
  BY <1>15 DEF loopVars, LastWriteDue, ListingDue
<1> QED
  BY <1>2, <1>3, <1>4, <1>5, <1>6, <1>7, <1>8, <1>9, <1>10, <1>11, <1>12, <1>13, <1>14, <1>15 DEF LoopNext

LEMMA LoopInvariance ==
  LoopSpec => []LoopInv
<1>1. LoopInit => LoopInv
  BY TypedInit, InOrderInit, ButtonInit, DueInit DEF LoopInv
<1>2. LoopInv /\ [LoopNext]_loopVars => LoopInv'
  BY TypedStep, InOrderStep, ButtonStep, DueStep DEF LoopInv
<1> QED
  BY <1>1, <1>2, PTL DEF LoopSpec

\* The types of the tab, its WebSocket and the handlers; what the page has an
\* answer to is what was typed.
THEOREM LoopTypeCorrect ==
  LoopSpec => []LoopTypeOK
<1>1. LoopInv => LoopTypeOK
  <2> SUFFICES ASSUME LoopTyped PROVE LoopTypeOK
    BY DEF LoopInv
  <2>1. Known \subseteq Frames
    <3>1. Range(typed) \subseteq Commands
      BY RangeMember DEF LoopTyped
    <3> QED
      BY <3>1 DEF Known, Frames
  <2>2. Seq(Known) \subseteq Seq(Frames)
    BY <2>1, SeqMonotone
  <2>3. LoopEntries \subseteq [item : Frames, began : Nothing .. version, left : Nat, rest : Seq(Frames)]
    BY <2>1, <2>2 DEF LoopEntries
  <2>4. queue \in Seq([item : Frames, began : Nothing .. version, left : Nat, rest : Seq(Frames)])
    BY <2>3, SeqMonotone DEF LoopTyped
  <2>5. reading \in Seq([began : 0 .. version, rest : Seq(Frames)])
    <3>1. LoopReads \subseteq [began : 0 .. version, rest : Seq(Frames)]
      BY <2>2 DEF LoopReads
    <3> QED
      BY <3>1, SeqMonotone DEF LoopTyped
  <2>6. toBridge \in Seq(Frames)
    BY <2>2 DEF LoopTyped
  <2>7. foreign \in 0 .. MaxForeign
    <3>1. foreign \in Nat /\ foreigners \in 0 .. MaxForeign /\ foreign <= foreigners
      BY DEF LoopTyped
    <3>2. MaxForeign \in Nat
      BY BoundAssumption
    <3> QED
      BY <3>1, <3>2
  <2> QED
    BY <2>4, <2>5, <2>6, <2>7 DEF LoopTyped, LoopTypeOK
<1> QED
  BY <1>1, LoopInvariance, PTL

\* Whatever chunks the frames arrive in and whichever listings fail, a tab's
\* commands are carried out in the order in which they were typed, except those
\* that waited behind another frame of their chunk (the handler of a WebSocket's
\* "data", which awaits each frame, server.js).
THEOREM CommandsInOrder ==
  LoopSpec => []OrderKept
<1>1. LoopInv => OrderKept
  BY DEF LoopInv, InOrder, OrderKept, Place, PlaceIn
<1> QED
  BY <1>1, LoopInvariance, PTL

\* At rest the Refresh button is enabled unless a listing has failed (fetchKeys
\* disables it, the page's "keys" message enables it, app.js).
THEOREM ButtonComesBack ==
  LoopSpec => []ButtonReturns
<1>1. LoopInv => ButtonReturns
  <2> SUFFICES ASSUME LoopTyped, ButtonWaits, Settled, failures = 0, disabled
               PROVE  FALSE
    BY DEF LoopInv, ButtonReturns
  <2>1. Range(toBridge) = {} /\ Range(queue) = {} /\ Range(toTab) = {} /\ Range(reading) = {}
    BY DEF Settled, Range
  <2> QED
    BY <2>1 DEF ButtonWaits, Asked
<1> QED
  BY <1>1, LoopInvariance, PTL

\* At rest the page has been shown a list which the bridge began to make after
\* the last write of any dashboard (runCommand, fetchKeys and the page's
\* "activity" message in app.js).
THEOREM LastWriteIsListed ==
  LoopSpec => []LastWriteListed
<1>1. LoopInv => LastWriteListed
  <2> SUFFICES ASSUME LastWriteDue, Settled, connected, failures = 0
               PROVE  newest = version
    BY DEF LoopInv, LastWriteListed
  <2>1. /\ Range(toBridge) = {} /\ Range(queue) = {} /\ Range(toTab) = {} /\ Range(reading) = {}
        /\ foreign = 0
    BY DEF Settled, Range
  <2> QED
    BY <2>1 DEF LastWriteDue, ListingDue
<1> QED
  BY <1>1, LoopInvariance, PTL
=============================================================================
