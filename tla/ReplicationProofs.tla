-------------------------- MODULE ReplicationProofs --------------------------
(***************************************************************************)
(* Theorems about Replication, for any keys, commands, handlers and        *)
(* sockets.  That a slave is in step needs room in the store for every     *)
(* key: an eviction is not forwarded, and the slave makes its own.         *)
(***************************************************************************)
EXTENDS Replication, StoreOpsProofs

(***************************************************************************)
(* The types.                                                              *)
(***************************************************************************)
StoreTyped == InOrder(kv) /\ \A e \in kv.heap : e[1] # NoExpiry

ThreadsTyped ==
  /\ now \in Int
  /\ at \in [Handlers -> {"idle", "log", "forward"}]
  /\ cmd \in [Handlers -> Command \cup {Nothing}]
  /\ \A h \in Handlers : at[h] # "idle" => cmd[h] \in Command /\ cmd[h].op \in Writes
  /\ issued \in 0 .. MaxCommands

FilesTyped == wal \in Seq(Command) /\ rdb \in Seq(Line)

SaverTyped ==
  saver \in [pc : {"asleep", "truncate", "clock", "copy", "open", "write"},
             clock : Int, copy : [Keys -> Node \cup {Absent}]]

\* What a slave is sent.
Sent == [kind : {"cmd", "line"}, cmd : Fed] \cup [kind : {"start", "end"}, cmd : {Nothing}]

LinksTyped ==
  /\ slaves \in Seq(Sockets)
  /\ stage \in [Sockets -> {"closed", "accepted", "registered", "cut", "read", "synced"}]
  /\ image \in [Sockets -> Seq(Line)]
  /\ link \in [Sockets -> Seq(Sent)]
  /\ loading \in [Sockets -> BOOLEAN]
  /\ replica \in [Sockets -> StoreState]
  /\ \A s \in Sockets : InOrder(replica[s])
  /\ joins \in 0 .. MaxJoins

HistoryTyped ==
  /\ stable \subseteq Keys /\ filed \subseteq Keys /\ clash \subseteq Keys
  /\ based \in [Handlers -> SUBSET Sockets]
  /\ good \in [Sockets -> SUBSET Keys]

Typed ==
  StoreTyped /\ ThreadsTyped /\ FilesTyped /\ SaverTyped /\ LinksTyped /\ HistoryTyped

(***************************************************************************)
(* A slave executes every line and command that arrives: the lines of a    *)
(* snapshot stand between its two markers, and nothing else does.          *)
(***************************************************************************)
Inside(m)  == m.kind \in {"line", "end"}
OpensUp(m) == m.kind \in {"start", "line"}

\* The queue l of a slave that is loading or not.
WellSent(l, busy) ==
  /\ IF l = <<>> THEN ~busy ELSE (busy <=> Inside(l[1])) /\ ~OpensUp(l[Len(l)])
  /\ \A i \in 1 .. Len(l) - 1 : OpensUp(l[i]) <=> Inside(l[i + 1])

Queues == \A s \in Sockets : WellSent(link[s], loading[s])

\* A slave that is registered is in the vector.
Listed ==
  \A s \in Sockets :
    stage[s] \in {"registered", "cut", "read", "synced"} => \E i \in 1 .. Len(slaves) : slaves[i] = s

Inv == Typed /\ Queues /\ Listed
-----------------------------------------------------------------------------
(***************************************************************************)
(* What brings a slave into step.                                          *)
(***************************************************************************)

IsCounter(c) == c.op \in {"INCR", "DECR"}

\* The trace f of k from the message p of the queue l on: f[j] is the entry
\* after message j.
Trace(l, p, f, k) ==
  /\ \A j \in p .. Len(l) : Lasting(f[j])
  /\ \A j \in p + 1 .. Len(l) :
       IF On(l[j], k)
       THEN \/ Replaces(l[j].cmd) /\ f[j] = Left(l[j].cmd)
            \/ IsCounter(l[j].cmd) /\ f[j] = Counted(f[j - 1], Step(l[j].cmd))
       ELSE f[j] = f[j - 1]

\* A slave that has the entry n of k will have m when it has applied l.
Leads(l, n, k, m) ==
  \E p \in 0 .. Len(l) : \E f :
    /\ \/ p = 0 /\ f[0] = n
       \/ p > 0 /\ On(l[p], k) /\ Replaces(l[p].cmd) /\ f[p] = Left(l[p].cmd)
    /\ Trace(l, p, f, k)
    /\ f[Len(l)] = m

\* The lines have n for k.
Holds(lines, k, n) ==
  \/ n = Absent /\ \A i \in 1 .. Len(lines) : lines[i].key # k
  \/ \E i \in 1 .. Len(lines) : /\ lines[i].key = k /\ lines[i].ttl = NoTtl
                                /\ n = [value |-> lines[i].value, expiry |-> NoExpiry]
                                /\ \A j \in i + 1 .. Len(lines) : lines[j].key # k

\* What s has been sent, or is about to be sent, brings it to n.
InStep(s, k, n) ==
  \/ stage[s] = "synced" /\ Leads(link[s], replica[s].store[k], k, n)
  \/ /\ stage[s] = "read" /\ Holds(image[s], k, n)
     /\ n = Absent => Without(s, k)

GoodKept ==
  \A s \in Sockets : \A k \in good[s] : ~Pending(k) /\ InStep(s, k, kv.store[k])

\* A counter that ran alone has counted from where the slave will be.
BaseKept ==
  \A h \in Handlers :
    at[h] # "idle" /\ IsCounter(cmd[h]) /\ cmd[h].key \notin clash =>
      \A s \in based[h] : /\ Lasting(kv.store[cmd[h].key])
                           /\ \E n : /\ InStep(s, cmd[h].key, n)
                                     /\ kv.store[cmd[h].key] = Counted(n, Step(cmd[h]))

\* A command that ran alone has left the store as it is.
RanAlone ==
  \A h \in Handlers :
    at[h] # "idle" /\ cmd[h].key \notin clash =>
      /\ \A g \in Handlers : at[g] # "idle" /\ cmd[g].key = cmd[h].key => g = h
      /\ Replaces(cmd[h]) => kv.store[cmd[h].key] = Left(cmd[h])

\* The snapshot being written has the stable keys, a complete one the filed.
SnapshotKept ==
  /\ saver.pc \notin {"open", "write"} => stable = {}
  /\ \A k \in stable : Lasting(kv.store[k]) /\ saver.copy[k] = kv.store[k]
  /\ saver.pc = "write" =>
       /\ filed = {}
       /\ \A i \in 1 .. Len(rdb) : /\ rdb[i].key \in SavedKeys(saver.copy, saver.clock)
                                   /\ rdb[i] = SavedLine(saver.copy, rdb[i].key, saver.clock)
       /\ \A i, j \in 1 .. Len(rdb) : rdb[i].key = rdb[j].key => i = j
  /\ \A k \in filed : Lasting(kv.store[k]) /\ Holds(rdb, k, kv.store[k])

Following == GoodKept /\ BaseKept /\ RanAlone /\ SnapshotKept
-----------------------------------------------------------------------------
(***************************************************************************)
(* Types.                                                                  *)
(***************************************************************************)
LEMMA InitInv == Init => Inv
<1> SUFFICES ASSUME Init PROVE Inv
  OBVIOUS
<1> USE DEF Init, MasterInit
<1>1. StoreTyped
  BY EmptyInOrder DEF StoreTyped, EmptyStore
<1>2. EmptyStore \in StoreState /\ InOrder(EmptyStore)
  BY EmptyInOrder DEF InOrder
<1>3. ThreadsTyped
  BY ClockAssumption, BoundsAssumption DEF ThreadsTyped, AllIdle
<1>4. FilesTyped
  BY DEF FilesTyped
<1>5. SaverTyped
  BY <1>2, ClockAssumption DEF SaverTyped, NotSaving, StoreState
<1>6. LinksTyped
  BY <1>2, SocketAssumption DEF LinksTyped
<1>7. HistoryTyped
  BY DEF HistoryTyped
<1>8. Queues /\ Listed
  BY DEF Queues, WellSent, Listed
<1> QED
  BY <1>1, <1>3, <1>4, <1>5, <1>6, <1>7, <1>8 DEF Inv, Typed

LEMMA ExecuteTyped ==
  ASSUME StoreTyped, ThreadsTyped, NEW h \in Handlers, NEW c \in Inputs, Execute(h, c)
  PROVE  StoreTyped' /\ ThreadsTyped'
<1>1. c \in Command /\ c \in AnyCommand /\ InOrder(kv) /\ now \in Int
  BY InputsAssumption, CommandIsAny DEF StoreTyped, ThreadsTyped
<1>2. /\ at[h] = "idle" /\ issued < MaxCommands /\ issued' = issued + 1
      /\ kv' = Exec(kv, c, now) /\ UNCHANGED now
  BY DEF Execute
<1>3. StoreTyped'
  <2>1. InOrder(Exec(kv, c, now))
    BY <1>1, ExecInOrder
  <2>2. \A e \in Exec(kv, c, now).heap : e[1] # NoExpiry
    BY <1>1, ExecHeap DEF StoreTyped
  <2> QED
    BY <1>2, <2>1, <2>2 DEF StoreTyped
<1>4. issued' \in 0 .. MaxCommands
  BY <1>2, BoundsAssumption DEF ThreadsTyped
<1>5. CASE ~Recorded(kv, c, now)
  <2>1. UNCHANGED <<at, cmd>>
    BY <1>5 DEF Execute
  <2> QED
    BY <1>2, <1>3, <1>4, <2>1 DEF ThreadsTyped
<1>6. CASE Recorded(kv, c, now)
  <2>1. at' = [at EXCEPT ![h] = "log"] /\ cmd' = [cmd EXCEPT ![h] = c] /\ c.op \in Writes
    BY <1>6 DEF Execute, Recorded
  <2>2. \A g \in Handlers : /\ at'[g] = IF g = h THEN "log" ELSE at[g]
                            /\ cmd'[g] = IF g = h THEN c ELSE cmd[g]
    BY <2>1 DEF ThreadsTyped
  <2> QED
    BY <1>1, <1>2, <1>3, <1>4, <2>1, <2>2 DEF ThreadsTyped
<1> QED
  BY <1>3, <1>5, <1>6

LEMMA LogTyped ==
  ASSUME ThreadsTyped, FilesTyped, NEW h \in Handlers, Log(h)
  PROVE  ThreadsTyped' /\ FilesTyped'
<1>1. /\ at[h] = "log" /\ wal' = Append(wal, cmd[h]) /\ at' = [at EXCEPT ![h] = "forward"]
      /\ UNCHANGED <<now, cmd, issued, rdb>> /\ cmd[h] \in Command
  BY DEF Log, ThreadsTyped
<1>2. ThreadsTyped'
  BY <1>1 DEF ThreadsTyped
<1>3. FilesTyped'
  BY <1>1 DEF FilesTyped
<1> QED
  BY <1>2, <1>3

LEMMA AnswerTyped ==
  ASSUME ThreadsTyped, NEW h \in Handlers, Answer(h)
  PROVE  ThreadsTyped'
<1>1. /\ at' = [at EXCEPT ![h] = "idle"] /\ cmd' = [cmd EXCEPT ![h] = Nothing]
      /\ UNCHANGED <<now, issued>>
  BY DEF Answer
<1>2. \A g \in Handlers : /\ at'[g] = IF g = h THEN "idle" ELSE at[g]
                          /\ cmd'[g] = IF g = h THEN Nothing ELSE cmd[g]
  BY <1>1 DEF ThreadsTyped
<1> QED
  BY <1>1, <1>2 DEF ThreadsTyped

LEMMA SaverStepTyped ==
  ASSUME StoreTyped, ThreadsTyped, FilesTyped, SaverTyped,
         \/ Wake \/ Truncate \/ ReadClock \/ CopyStore \/ OpenFile \/ CloseFile
         \/ \E k \in Keys : WriteLine(k)
  PROVE  FilesTyped' /\ SaverTyped'
<1>1. saver.clock \in Int /\ saver.copy \in [Keys -> Node \cup {Absent}]
  BY DEF SaverTyped
<1>2. CASE Wake \/ CloseFile
  <2>1. EmptyStore.store \in [Keys -> Node \cup {Absent}]
    BY DEF EmptyStore
  <2> QED
    BY <1>2, <2>1, ClockAssumption DEF Wake, CloseFile, NotSaving, Files, FilesTyped, SaverTyped
<1>3. CASE Truncate
  BY <1>3 DEF Truncate, FilesTyped, SaverTyped
<1>4. CASE ReadClock
  BY <1>4 DEF ReadClock, Files, FilesTyped, SaverTyped, ThreadsTyped
<1>5. CASE CopyStore
  BY <1>5 DEF CopyStore, Files, FilesTyped, SaverTyped, StoreTyped, InOrder, StoreState
<1>6. CASE OpenFile
  BY <1>6 DEF OpenFile, FilesTyped, SaverTyped
<1>7. ASSUME NEW k \in Keys, WriteLine(k) PROVE FilesTyped' /\ SaverTyped'
  <2>1. k \in SavedKeys(saver.copy, saver.clock)
    BY <1>7 DEF WriteLine, Unwritten
  <2>2. SavedLine(saver.copy, k, saver.clock) \in Line
    BY <1>1, <2>1, SavedLineType
  <2>3. FilesTyped'
    BY <1>7, <2>2 DEF WriteLine, FilesTyped
  <2> QED
    BY <1>7, <2>3 DEF WriteLine, SaverTyped
<1> QED
  BY <1>2, <1>3, <1>4, <1>5, <1>6, <1>7

LEMMA CleanTyped ==
  ASSUME StoreTyped, ThreadsTyped, Clean
  PROVE  StoreTyped'
<1>1. InOrder(CleanOp(kv, now))
  BY CleanInOrder DEF StoreTyped, ThreadsTyped
<1>2. CleanOp(kv, now).heap \subseteq kv.heap
  BY DEF CleanOp, Erase
<1> QED
  BY <1>1, <1>2 DEF Clean, StoreTyped

(***************************************************************************)
(* The queues.                                                             *)
(***************************************************************************)

LEMMA Joined ==
  ASSUME NEW S, NEW a \in Seq(S), NEW b \in Seq(S)
  PROVE  /\ a \o b \in Seq(S) /\ Len(a \o b) = Len(a) + Len(b)
         /\ Len(a) \in Nat /\ Len(b) \in Nat
         /\ \A i \in 1 .. Len(a) : (a \o b)[i] = a[i]
         /\ \A i \in 1 .. Len(b) : (a \o b)[Len(a) + i] = b[i]
         /\ \A i \in Len(a) + 1 .. Len(a \o b) : \E j \in 1 .. Len(b) : i = Len(a) + j
<1>1. a \o b \in Seq(S) /\ Len(a \o b) = Len(a) + Len(b) /\ Len(a) \in Nat /\ Len(b) \in Nat
  OBVIOUS
<1>2. \A i \in 1 .. Len(a) : (a \o b)[i] = a[i]
  OBVIOUS
<1>3. \A i \in 1 .. Len(b) : (a \o b)[Len(a) + i] = b[i]
  OBVIOUS
<1>4. ASSUME NEW i \in Len(a) + 1 .. Len(a) + Len(b)
      PROVE  i - Len(a) \in 1 .. Len(b) /\ i = Len(a) + (i - Len(a))
  BY <1>1
<1> QED
  BY <1>1, <1>2, <1>3, <1>4

\* Two queues that each end outside a snapshot, one after the other.
LEMMA WellSentConcat ==
  ASSUME NEW S, NEW l \in Seq(S), NEW q \in Seq(S), NEW busy \in BOOLEAN,
         WellSent(l, busy), WellSent(q, FALSE)
  PROVE  WellSent(l \o q, busy)
<1> DEFINE m == l \o q
<1>1. /\ Len(l) \in Nat /\ Len(q) \in Nat /\ Len(m) = Len(l) + Len(q)
      /\ \A i \in 1 .. Len(l) : m[i] = l[i]
      /\ \A i \in 1 .. Len(q) : m[Len(l) + i] = q[i]
      /\ (l = <<>> => m = q) /\ (q = <<>> => m = l)
      /\ (l # <<>> => Len(l) > 0) /\ (q # <<>> => Len(q) > 0)
      /\ (l # <<>> \/ q # <<>> => m # <<>>)
  OBVIOUS
<1> HIDE DEF m
<1>2. CASE l = <<>>
  <2>1. ~busy
    BY <1>2 DEF WellSent
  <2> QED
    BY <1>1, <1>2, <2>1 DEF m
<1>3. CASE q = <<>>
  BY <1>1, <1>3 DEF m
<1>4. CASE l # <<>> /\ q # <<>>
  <2>1. /\ busy <=> Inside(l[1]) 
        /\ ~OpensUp(l[Len(l)])
        /\ ~Inside(q[1]) /\ ~OpensUp(q[Len(q)])
        /\ \A i \in 1 .. Len(l) - 1 : OpensUp(l[i]) <=> Inside(l[i + 1])
        /\ \A i \in 1 .. Len(q) - 1 : OpensUp(q[i]) <=> Inside(q[i + 1])
    BY <1>4 DEF WellSent
  <2>2. m[1] = l[1] /\ m[Len(m)] = q[Len(q)] /\ m # <<>>
    BY <1>1, <1>4
  <2>3. ASSUME NEW i \in 1 .. Len(m) - 1 PROVE OpensUp(m[i]) <=> Inside(m[i + 1])
    <3>1. CASE i < Len(l)
      <4>1. i \in 1 .. Len(l) - 1 /\ m[i] = l[i] /\ m[i + 1] = l[i + 1]
        BY <1>1, <3>1
      <4> QED
        BY <2>1, <4>1
    <3>2. CASE i = Len(l)
      <4>1. m[i] = l[Len(l)] /\ m[i + 1] = q[1]
        BY <1>1, <1>4, <3>2
      <4> QED
        BY <2>1, <4>1 DEF OpensUp, Inside
    <3>3. CASE i > Len(l)
      <4>1. PICK j \in 1 .. Len(q) - 1 : i = Len(l) + j
        <5>1. i - Len(l) \in 1 .. Len(q) - 1 /\ i = Len(l) + (i - Len(l))
          BY <1>1, <3>3
        <5> QED
          BY <5>1
      <4>2. m[i] = q[j] /\ m[i + 1] = q[j + 1]
        BY <1>1, <4>1
      <4> QED
        BY <2>1, <4>2
    <3> QED
      BY <1>1, <3>1, <3>2, <3>3
  <2>4. WellSent(m, busy)
    BY <2>1, <2>2, <2>3 DEF WellSent
  <2> QED
    BY <2>4 DEF m
<1> QED
  BY <1>2, <1>3, <1>4

\* A slave executes the line or the command it takes.
LEMMA WellSentTail ==
  ASSUME NEW l \in Seq(Sent), l # <<>>, NEW busy \in BOOLEAN, WellSent(l, busy)
  PROVE  LET m == Head(l)
             next == IF m.kind \in {"start", "end"} THEN m.kind = "start" ELSE busy
         IN  /\ m = l[1] /\ m \in Sent
             /\ WellSent(Tail(l), next)
             /\ (m.kind = IF busy THEN "line" ELSE "cmd") <=> m.kind \in {"line", "cmd"}
<1> DEFINE m == l[1]
           next == IF m.kind \in {"start", "end"} THEN m.kind = "start" ELSE busy
           q == Tail(l)
<1>1. /\ Len(l) \in Nat \ {0} /\ Head(l) = m /\ m \in Sent
      /\ Len(q) = Len(l) - 1 /\ \A i \in 1 .. Len(q) : q[i] = l[i + 1]
      /\ q = <<>> <=> Len(l) = 1
  <2>1. Len(l) \in Nat /\ Len(l) # 0 /\ Head(l) = m
    OBVIOUS
  <2>2. m \in Sent
    BY <2>1, ElementOf
  <2>3. q \in Seq(Sent) /\ Len(q) = Len(l) - 1 /\ \A i \in 1 .. Len(q) : q[i] = l[i + 1]
    OBVIOUS
  <2>4. \A x \in Seq(Sent) : x = <<>> <=> Len(x) = 0
    OBVIOUS
  <2> HIDE DEF m, q, next
  <2>5. q = <<>> <=> Len(l) = 1
    BY <2>1, <2>3, <2>4
  <2> QED
    BY <2>1, <2>2, <2>3, <2>5
<1>2. m.kind \in {"cmd", "line", "start", "end"}
  BY <1>1 DEF Sent
<1>3. /\ busy <=> Inside(m)
      /\ ~OpensUp(l[Len(l)])
      /\ \A i \in 1 .. Len(l) - 1 : OpensUp(l[i]) <=> Inside(l[i + 1])
  BY DEF WellSent
<1>4. next <=> OpensUp(m)
  BY <1>2, <1>3 DEF Inside, OpensUp
<1>5. (m.kind = IF busy THEN "line" ELSE "cmd") <=> m.kind \in {"line", "cmd"}
  BY <1>2, <1>3 DEF Inside
<1> HIDE DEF q, next, m
<1>6. WellSent(q, next)
  <2>1. CASE q = <<>>
    <3>1. Len(l) = 1 /\ ~OpensUp(m)
      BY <1>1, <1>3, <2>1 DEF m
    <3> QED
      BY <1>1, <1>4, <2>1, <3>1 DEF WellSent
  <2>2. CASE q # <<>>
    <3>1. next <=> Inside(q[1])
      BY <1>1, <1>3, <1>4, <2>2 DEF m
    <3>2. q[Len(q)] = l[Len(l)]
      BY <1>1, <2>2
    <3>3. \A i \in 1 .. Len(q) - 1 : OpensUp(q[i]) <=> Inside(q[i + 1])
      BY <1>1, <1>3
    <3> QED
      BY <1>3, <2>2, <3>1, <3>2, <3>3 DEF WellSent
  <2> QED
    BY <2>1, <2>2
<1> QED
  BY <1>1, <1>5, <1>6 DEF q, next, m

\* The message with a snapshot.
LEMMA MessageShape ==
  ASSUME NEW lines \in Seq(Line)
  PROVE  LET q == Message(lines)
         IN  /\ q \in Seq(Sent) /\ Len(q) = Len(lines) + 2
             /\ q[1] = Msg("start", Nothing) /\ q[Len(lines) + 2] = Msg("end", Nothing)
             /\ \A i \in 1 .. Len(lines) : q[i + 1] = Msg("line", LineCmd(lines[i]))
<1> DEFINE a == <<Msg("start", Nothing)>>
           b == [i \in 1 .. Len(lines) |-> Msg("line", LineCmd(lines[i]))]
           e == <<Msg("end", Nothing)>>
           q == (a \o b) \o e
<1>1. \A l \in Line : LineCmd(l) \in Fed
  BY DEF Line, LineCmd, SetCmd, Fed, Writes
<1>2. /\ \A c \in Fed : Msg("line", c) \in Sent
      /\ Msg("start", Nothing) \in Sent /\ Msg("end", Nothing) \in Sent
  BY DEF Msg, Sent
<1>3. Len(lines) \in Nat /\ \A i \in 1 .. Len(lines) : Msg("line", LineCmd(lines[i])) \in Sent
  BY <1>1, <1>2, ElementOf
<1>4. b \in Seq(Sent) /\ Len(b) = Len(lines)
  BY <1>3
<1>5. /\ a \in Seq(Sent) /\ Len(a) = 1 /\ a[1] = Msg("start", Nothing)
      /\ e \in Seq(Sent) /\ Len(e) = 1 /\ e[1] = Msg("end", Nothing)
  BY <1>2
<1>6. \A i \in 1 .. Len(lines) : b[i] = Msg("line", LineCmd(lines[i]))
  OBVIOUS
<1>7. Message(lines) = q
  BY DEF Message
<1> HIDE DEF a, b, e
<1>joined. \A x, y \in Seq(Sent) :
         /\ x \o y \in Seq(Sent) /\ Len(x \o y) = Len(x) + Len(y)
         /\ \A i \in 1 .. Len(x) : (x \o y)[i] = x[i]
         /\ \A i \in 1 .. Len(y) : (x \o y)[Len(x) + i] = y[i]
  BY Joined
<1> DEFINE ab == a \o b
<1>8. /\ ab \in Seq(Sent) /\ Len(ab) = 1 + Len(lines)
      /\ \A i \in 1 .. 1 : ab[i] = a[i]
      /\ \A i \in 1 .. Len(lines) : ab[1 + i] = b[i]
  <2>1. /\ ab \in Seq(Sent) /\ Len(ab) = Len(a) + Len(b)
        /\ \A i \in 1 .. Len(a) : ab[i] = a[i]
        /\ \A i \in 1 .. Len(b) : ab[Len(a) + i] = b[i]
    BY <1>4, <1>5, <1>joined, Zenon
  <2> HIDE DEF ab
  <2> QED
    BY <1>4, <1>5, <2>1
<1> HIDE DEF ab
<1>9. /\ q \in Seq(Sent) /\ Len(q) = (1 + Len(lines)) + 1
      /\ \A i \in 1 .. 1 + Len(lines) : q[i] = ab[i]
      /\ \A i \in 1 .. 1 : q[(1 + Len(lines)) + i] = e[i]
  <2>1. /\ ab \o e \in Seq(Sent) /\ Len(ab \o e) = Len(ab) + Len(e)
        /\ \A i \in 1 .. Len(ab) : (ab \o e)[i] = ab[i]
        /\ \A i \in 1 .. Len(e) : (ab \o e)[Len(ab) + i] = e[i]
    BY <1>5, <1>8, <1>joined, Zenon
  <2>2. q = ab \o e
    BY DEF ab
  <2> HIDE DEF q
  <2>3. /\ q \in Seq(Sent) /\ Len(q) = Len(ab) + Len(e)
        /\ \A i \in 1 .. Len(ab) : q[i] = ab[i]
        /\ \A i \in 1 .. Len(e) : q[Len(ab) + i] = e[i]
    BY <2>1, <2>2, Zenon
  <2> QED
    BY <1>5, <1>8, <2>3
<1> HIDE DEF ab, q
<1>10. Len(q) = Len(lines) + 2 /\ q[1] = a[1] /\ q[Len(lines) + 2] = e[1]
  BY <1>3, <1>8, <1>9
<1>11. ASSUME NEW i \in 1 .. Len(lines) PROVE q[i + 1] = b[i]
  <2>1. i + 1 = 1 + i /\ 1 + i \in 1 .. 1 + Len(lines)
    BY <1>3
  <2> QED
    BY <1>8, <1>9, <2>1
<1> QED
  BY <1>5, <1>6, <1>7, <1>9, <1>10, <1>11

LEMMA MessageWellSent ==
  ASSUME NEW lines \in Seq(Line)
  PROVE  WellSent(Message(lines), FALSE)
<1>1. PICK q : q = Message(lines)
  OBVIOUS
<1>2. /\ Len(lines) \in Nat /\ q \in Seq(Sent) /\ Len(q) = Len(lines) + 2
      /\ q[1] = Msg("start", Nothing) /\ q[Len(lines) + 2] = Msg("end", Nothing)
      /\ \A i \in 1 .. Len(lines) : q[i + 1] = Msg("line", LineCmd(lines[i]))
  BY <1>1, MessageShape
<1>3. /\ q[1].kind = "start" /\ q[Len(lines) + 2].kind = "end"
      /\ \A i \in 1 .. Len(lines) : q[i + 1].kind = "line"
  <2>1. \A kind, c : Msg(kind, c).kind = kind
    BY DEF Msg
  <2> QED
    BY <1>2, <2>1
<1>4. \A i \in 2 .. Len(lines) + 1 : q[i].kind = "line"
  <2>1. ASSUME NEW i \in 2 .. Len(lines) + 1 PROVE q[i].kind = "line"
    <3>1. i - 1 \in 1 .. Len(lines) /\ (i - 1) + 1 = i
      BY <1>2
    <3>2. q[(i - 1) + 1].kind = "line"
      BY <1>3, <3>1
    <3> QED
      BY <3>1, <3>2
  <2> QED
    BY <2>1
<1>5. ASSUME NEW i \in 1 .. Len(q) - 1 PROVE OpensUp(q[i]) <=> Inside(q[i + 1])
  <2>1. i = 1 \/ i \in 2 .. Len(lines) + 1
    BY <1>2
  <2>2. i + 1 \in 2 .. Len(lines) + 1 \/ i + 1 = Len(lines) + 2
    BY <1>2
  <2>3. q[i].kind \in {"start", "line"} /\ q[i + 1].kind \in {"line", "end"}
    BY <1>3, <1>4, <2>1, <2>2
  <2> QED
    BY <2>3 DEF OpensUp, Inside
<1> QED
  BY <1>1, <1>2, <1>3, <1>5 DEF WellSent, OpensUp, Inside

\* The copies of a command for one slave.
Copies(n, c) == [i \in 1 .. n |-> Msg("cmd", c)]

LEMMA CopiesShape ==
  ASSUME NEW n \in Nat, NEW c \in Fed
  PROVE  /\ Copies(n, c) \in Seq(Sent) /\ Len(Copies(n, c)) = n
         /\ \A i \in 1 .. n : Copies(n, c)[i] = Msg("cmd", c)
         /\ WellSent(Copies(n, c), FALSE)
<1>1. Msg("cmd", c) \in Sent
  BY DEF Msg, Sent
<1>2. Copies(n, c) \in Seq(Sent) /\ Len(Copies(n, c)) = n
  BY <1>1 DEF Copies
<1>3. \A i \in 1 .. n : Copies(n, c)[i] = Msg("cmd", c)
  BY DEF Copies
<1>4. \A i \in 1 .. n : ~OpensUp(Copies(n, c)[i]) /\ ~Inside(Copies(n, c)[i])
  BY <1>3 DEF Msg, OpensUp, Inside
<1>5. WellSent(Copies(n, c), FALSE)
  <2>1. PICK q \in Seq(Sent) : q = Copies(n, c) /\ Len(q) = n
    BY <1>2
  <2>2. \A i \in 1 .. Len(q) : ~OpensUp(q[i]) /\ ~Inside(q[i])
    BY <1>4, <2>1
  <2>3. q # <<>> => 1 \in 1 .. Len(q) /\ Len(q) \in 1 .. Len(q)
    OBVIOUS
  <2>4. \A i \in 1 .. Len(q) - 1 : i \in 1 .. Len(q) /\ i + 1 \in 1 .. Len(q)
    BY <2>1
  <2> QED
    BY <2>1, <2>2, <2>3, <2>4 DEF WellSent
<1> QED
  BY <1>2, <1>3, <1>5

LEMMA TimesType ==
  ASSUME NEW s, slaves \in Seq(Sockets)
  PROVE  /\ Times(s) \in Nat
         /\ (\E i \in 1 .. Len(slaves) : slaves[i] = s) => Times(s) > 0
<1> DEFINE I == {i \in 1 .. Len(slaves) : slaves[i] = s}
<1>1. IsFiniteSet(I)
  BY FS_Interval, FS_Subset
<1>2. Cardinality(I) \in Nat /\ (Cardinality(I) = 0 <=> I = {})
  BY <1>1, FS_CardinalityType, FS_EmptySet
<1> QED
  BY <1>2 DEF Times

\* A piece of a file is made of lines.
LEMMA PieceOfFile ==
  ASSUME NEW lines \in Seq(Line), NEW i \in Nat \ {0}, NEW j \in 0 .. Len(lines)
  PROVE  SubSeq(lines, i, j) \in Seq(Line)
<1>1. \A n \in 1 .. (j - i + 1) : i + n - 1 \in 1 .. Len(lines)
  OBVIOUS
<1>2. SubSeq(lines, i, j) = [n \in 1 .. (j - i + 1) |-> lines[i + n - 1]]
  BY DEF SubSeq
<1>3. \A n \in 1 .. (j - i + 1) : lines[i + n - 1] \in Line
  BY <1>1
<1> QED
  BY <1>2, <1>3

LEMMA MasterSame ==
  ASSUME Typed, UNCHANGED masterVars
  PROVE  StoreTyped' /\ ThreadsTyped' /\ FilesTyped' /\ SaverTyped'
BY DEF Typed, masterVars, StoreTyped, ThreadsTyped, FilesTyped, SaverTyped

(***************************************************************************)
(* A slave's connection keeps the types.                                   *)
(***************************************************************************)
LEMMA HistorySame ==
  ASSUME HistoryTyped, UNCHANGED history
  PROVE  HistoryTyped'
BY DEF HistoryTyped, history

LEMMA ConnectInv ==
  ASSUME Inv, NEW s \in Sockets, Connect(s)
  PROVE  Inv'
<1>1. /\ Typed /\ Queues /\ Listed /\ joins < MaxJoins /\ joins' = joins + 1
      /\ stage' = [stage EXCEPT ![s] = "accepted"]
      /\ UNCHANGED <<slaves, image, link, loading, replica>>
      /\ UNCHANGED masterVars /\ UNCHANGED history
  BY DEF Inv, Connect
<1>2. StoreTyped' /\ ThreadsTyped' /\ FilesTyped' /\ SaverTyped'
  BY <1>1, MasterSame
<1>3. HistoryTyped'
  BY <1>1, HistorySame DEF Typed
<1>4. LinksTyped'
  BY <1>1, SocketAssumption DEF Typed, LinksTyped
<1>5. Queues'
  BY <1>1 DEF Queues
<1>6. Listed'
  BY <1>1 DEF Listed, Typed, LinksTyped
<1> QED
  BY <1>2, <1>3, <1>4, <1>5, <1>6 DEF Inv, Typed

LEMMA RegisterInv ==
  ASSUME Inv, NEW s \in Sockets, Register(s)
  PROVE  Inv'
<1>1. /\ Typed /\ Queues /\ Listed
      /\ slaves' = Append(slaves, s) /\ stage' = [stage EXCEPT ![s] = "registered"]
      /\ UNCHANGED <<image, link, loading, replica, joins>>
      /\ UNCHANGED masterVars /\ UNCHANGED history
  BY DEF Inv, Register
<1>2. StoreTyped' /\ ThreadsTyped' /\ FilesTyped' /\ SaverTyped'
  BY <1>1, MasterSame
<1>3. HistoryTyped'
  BY <1>1, HistorySame DEF Typed
<1>4. LinksTyped'
  BY <1>1 DEF Typed, LinksTyped
<1>5. Queues'
  BY <1>1 DEF Queues
<1>6. Listed'
  <2>1. /\ \A i \in 1 .. Len(slaves) : i \in 1 .. Len(slaves') /\ slaves'[i] = slaves[i]
        /\ Len(slaves) + 1 \in 1 .. Len(slaves') /\ slaves'[Len(slaves) + 1] = s
    BY <1>1 DEF Typed, LinksTyped
  <2>2. \A r \in Sockets : stage'[r] = IF r = s THEN "registered" ELSE stage[r]
    BY <1>1 DEF Typed, LinksTyped
  <2>3. ASSUME NEW r \in Sockets, stage'[r] \in {"registered", "cut", "read", "synced"}
        PROVE  \E i \in 1 .. Len(slaves') : slaves'[i] = r
    <3>1. CASE r = s
      BY <2>1, <3>1
    <3>2. CASE r # s
      BY <1>1, <2>1, <2>2, <2>3, <3>2 DEF Listed
    <3> QED
      BY <3>1, <3>2
  <2> QED
    BY <2>3 DEF Listed
<1> QED
  BY <1>2, <1>3, <1>4, <1>5, <1>6 DEF Inv, Typed

\* A handler reads a part of the file, or what it finds after the file was
\* emptied: the lines it has are lines.
LEMMA ReadPartInv ==
  ASSUME Inv, NEW s \in Sockets, ReadPart(s) \/ ReadCut(s)
  PROVE  Inv'
<1>1. /\ Typed /\ Queues /\ Listed /\ stage[s] \in {"registered", "cut"}
      /\ stage' = stage \/ stage' = [stage EXCEPT ![s] = "read"]
      /\ UNCHANGED <<slaves, link, loading, replica, joins>>
      /\ UNCHANGED masterVars /\ UNCHANGED history
  BY DEF Inv, ReadPart, ReadCut
<1>2. StoreTyped' /\ ThreadsTyped' /\ FilesTyped' /\ SaverTyped'
  BY <1>1, MasterSame
<1>3. HistoryTyped'
  BY <1>1, HistorySame DEF Typed
<1>4. rdb \in Seq(Line) /\ image \in [Sockets -> Seq(Line)]
  BY <1>1 DEF Typed, FilesTyped, LinksTyped
<1>5. image' \in [Sockets -> Seq(Line)]
  <2>1. CASE ReadPart(s)
    <3>1. PICK n \in Len(image[s]) + 1 .. Len(rdb) :
            image' = [image EXCEPT ![s] = SubSeq(rdb, 1, n)]
      BY <2>1 DEF ReadPart
    <3>2. n \in 0 .. Len(rdb)
      BY <1>4, <3>1
    <3>3. SubSeq(rdb, 1, n) \in Seq(Line)
      BY <1>4, <3>2, PieceOfFile
    <3> QED
      BY <1>4, <3>1, <3>3
  <2>2. CASE ReadCut(s)
    <3>1. PICK n \in 0 .. Len(rdb) :
            image' = [image EXCEPT ![s] = @ \o SubSeq(rdb, n + 1, Len(rdb))]
      BY <2>2 DEF ReadCut
    <3>2. n + 1 \in Nat \ {0} /\ Len(rdb) \in 0 .. Len(rdb)
      BY <1>4, <3>1
    <3>3. SubSeq(rdb, n + 1, Len(rdb)) \in Seq(Line)
      BY <1>4, <3>2, PieceOfFile
    <3>4. image[s] \o SubSeq(rdb, n + 1, Len(rdb)) \in Seq(Line)
      BY <1>4, <3>3
    <3>5. image' = [image EXCEPT ![s] = image[s] \o SubSeq(rdb, n + 1, Len(rdb))]
      BY <3>1
    <3> QED
      BY <1>4, <3>4, <3>5
  <2> QED
    BY <2>1, <2>2
<1>6. LinksTyped'
  BY <1>1, <1>5 DEF Typed, LinksTyped
<1>7. Queues'
  BY <1>1 DEF Queues
<1>8. Listed'
  BY <1>1 DEF Listed, Typed, LinksTyped
<1> QED
  BY <1>2, <1>3, <1>6, <1>7, <1>8 DEF Inv, Typed

LEMMA ReadSnapshotInv ==
  ASSUME Inv, NEW s \in Sockets, ReadSnapshot(s)
  PROVE  Inv'
<1>1. /\ Typed /\ Queues /\ Listed /\ stage[s] = "registered"
      /\ image' = [image EXCEPT ![s] = rdb] /\ stage' = [stage EXCEPT ![s] = "read"]
      /\ good' = [good EXCEPT ![s] =
                    {k \in filed : ~Pending(k) /\ (kv.store[k] # Absent \/ Without(s, k))}]
      /\ UNCHANGED <<slaves, link, loading, replica, joins, stable, filed, clash, based>>
      /\ UNCHANGED masterVars
  BY DEF Inv, ReadSnapshot
<1>2. StoreTyped' /\ ThreadsTyped' /\ FilesTyped' /\ SaverTyped'
  BY <1>1, MasterSame
<1>3. HistoryTyped'
  <2>1. \A K : {k \in filed : K = {}} \subseteq Keys
    BY <1>1 DEF Typed, HistoryTyped
  <2>2. good'[s] \in SUBSET Keys /\ \A r \in Sockets : r # s => good'[r] = good[r]
    BY <1>1 DEF Typed, HistoryTyped
  <2>3. good' \in [Sockets -> SUBSET Keys]
    BY <1>1, <2>2 DEF Typed, HistoryTyped
  <2> QED
    BY <1>1, <2>3 DEF Typed, HistoryTyped
<1>4. LinksTyped'
  BY <1>1 DEF Typed, LinksTyped, FilesTyped
<1>5. Queues'
  BY <1>1 DEF Queues
<1>6. Listed'
  BY <1>1 DEF Listed, Typed, LinksTyped
<1> QED
  BY <1>2, <1>3, <1>4, <1>5, <1>6 DEF Inv, Typed

LEMMA SendSnapshotInv ==
  ASSUME Inv, NEW s \in Sockets, SendSnapshot(s)
  PROVE  Inv'
<1>1. /\ Typed /\ Queues /\ Listed /\ stage[s] = "read"
      /\ link' = [link EXCEPT ![s] = @ \o Message(image[s])]
      /\ image' = [image EXCEPT ![s] = <<>>] /\ stage' = [stage EXCEPT ![s] = "synced"]
      /\ UNCHANGED <<slaves, loading, replica, joins>>
      /\ UNCHANGED masterVars /\ UNCHANGED history
  BY DEF Inv, SendSnapshot, history
<1>2. StoreTyped' /\ ThreadsTyped' /\ FilesTyped' /\ SaverTyped'
  BY <1>1, MasterSame
<1>3. HistoryTyped'
  BY <1>1, HistorySame DEF Typed
<1>4. PICK l \in Seq(Sent) : l = link[s] /\ WellSent(l, loading[s])
  BY <1>1 DEF Typed, LinksTyped, Queues
<1>5. PICK q \in Seq(Sent) : q = Message(image[s]) /\ WellSent(q, FALSE)
  <2>1. image[s] \in Seq(Line)
    BY <1>1 DEF Typed, LinksTyped
  <2> QED
    BY <2>1, MessageShape, MessageWellSent
<1>6. /\ link'[s] = l \o q /\ \A r \in Sockets : r # s => link'[r] = link[r]
      /\ l \o q \in Seq(Sent)
  BY <1>1, <1>4, <1>5 DEF Typed, LinksTyped
<1>7. WellSent(l \o q, loading[s])
  <2>1. loading[s] \in BOOLEAN
    BY <1>1 DEF Typed, LinksTyped
  <2> QED
    BY <1>4, <1>5, <2>1, WellSentConcat
<1>8. LinksTyped'
  <2>1. link' \in [Sockets -> Seq(Sent)]
    BY <1>1, <1>6 DEF Typed, LinksTyped
  <2> QED
    BY <1>1, <2>1 DEF Typed, LinksTyped
<1>9. Queues'
  BY <1>1, <1>6, <1>7 DEF Queues
<1>10. Listed'
  BY <1>1 DEF Listed, Typed, LinksTyped
<1> QED
  BY <1>2, <1>3, <1>8, <1>9, <1>10 DEF Inv, Typed

\* What a slave does with the message at the head of its queue.
LEMMA Applied ==
  ASSUME Inv, NEW s \in Sockets, Apply(s)
  PROVE  /\ link[s] \in Seq(Sent) /\ link[s] # <<>> /\ Head(link[s]) = link[s][1]
         /\ link[s][1] \in Sent
         /\ link' = [link EXCEPT ![s] = Tail(@)]
         /\ replica' = [replica EXCEPT ![s] =
                          IF link[s][1].kind \in {"line", "cmd"}
                          THEN Exec(@, link[s][1].cmd, now) ELSE @]
         /\ link[s][1].kind \in {"line", "cmd"} => link[s][1].cmd \in Fed
         /\ loading'[s] \in BOOLEAN /\ WellSent(Tail(link[s]), loading'[s])
         /\ loading' = [loading EXCEPT ![s] = loading'[s]]
         /\ UNCHANGED <<slaves, stage, image, joins>>
         /\ UNCHANGED masterVars /\ UNCHANGED history
<1>1. PICK l \in Seq(Sent) : /\ l = link[s] /\ l # <<>>
                             /\ loading[s] \in BOOLEAN /\ WellSent(l, loading[s])
  BY DEF Inv, Typed, LinksTyped, Queues, Apply
<1>2. PICK busy \in BOOLEAN : busy = loading[s]
  BY <1>1
<1> DEFINE m == Head(l)
           next == IF m.kind \in {"start", "end"} THEN m.kind = "start" ELSE busy
<1>3. /\ m = l[1] /\ m \in Sent
      /\ WellSent(Tail(l), next)
      /\ (m.kind = IF busy THEN "line" ELSE "cmd") <=> m.kind \in {"line", "cmd"}
  BY <1>1, <1>2, WellSentTail
<1>4. m.kind \in {"line", "cmd"} => m.cmd \in Fed
  BY <1>3 DEF Sent
<1>5. /\ loading' = [loading EXCEPT ![s] = next]
      /\ replica' = [replica EXCEPT ![s] =
                       IF m.kind = (IF busy THEN "line" ELSE "cmd")
                       THEN Exec(@, m.cmd, now) ELSE @]
      /\ link' = [link EXCEPT ![s] = Tail(@)]
      /\ UNCHANGED <<slaves, stage, image, joins>>
      /\ UNCHANGED masterVars /\ UNCHANGED history
  BY <1>1, <1>2 DEF Apply, Inv, Typed, LinksTyped
<1>6. next \in BOOLEAN /\ loading'[s] = next
  BY <1>2, <1>5 DEF Inv, Typed, LinksTyped
<1>7. m = link[s][1] /\ Head(link[s]) = m
  BY <1>1, <1>3
<1> HIDE DEF m, next
<1>8. replica' = [replica EXCEPT ![s] =
                    IF m.kind \in {"line", "cmd"} THEN Exec(@, m.cmd, now) ELSE @]
  BY <1>3, <1>5
<1>9. loading' = [loading EXCEPT ![s] = loading'[s]]
  BY <1>5, <1>6
<1>10. loading'[s] \in BOOLEAN /\ WellSent(Tail(link[s]), loading'[s])
  BY <1>1, <1>3, <1>6
<1>11. link[s] \in Seq(Sent) /\ link[s] # <<>>
  BY <1>1
<1> QED
  BY <1>3, <1>4, <1>5, <1>7, <1>8, <1>9, <1>10, <1>11

LEMMA ApplyInv ==
  ASSUME Inv, NEW s \in Sockets, Apply(s)
  PROVE  Inv'
<1>1. Typed /\ Queues /\ Listed /\ link[s] \in Seq(Sent) /\ link[s] # <<>>
  BY Applied DEF Inv
<1>2. PICK m \in Sent : m = link[s][1]
  BY Applied
<1>3. /\ link' = [link EXCEPT ![s] = Tail(@)]
      /\ replica' = [replica EXCEPT ![s] =
                       IF m.kind \in {"line", "cmd"} THEN Exec(@, m.cmd, now) ELSE @]
      /\ m.kind \in {"line", "cmd"} => m.cmd \in Fed
      /\ loading'[s] \in BOOLEAN /\ WellSent(Tail(link[s]), loading'[s])
      /\ loading' = [loading EXCEPT ![s] = loading'[s]]
      /\ UNCHANGED <<slaves, stage, image, joins>>
      /\ UNCHANGED masterVars /\ UNCHANGED history
  BY <1>2, Applied
<1>4. StoreTyped' /\ ThreadsTyped' /\ FilesTyped' /\ SaverTyped'
  BY <1>1, <1>3, MasterSame
<1>5. HistoryTyped'
  BY <1>1, <1>3, HistorySame DEF Typed
<1>6. InOrder(replica[s]) /\ now \in Int
  BY <1>1 DEF Typed, LinksTyped, ThreadsTyped
<1>7. m.kind \in {"line", "cmd"} => InOrder(Exec(replica[s], m.cmd, now))
  <2> SUFFICES ASSUME m.kind \in {"line", "cmd"} PROVE InOrder(Exec(replica[s], m.cmd, now))
    OBVIOUS
  <2>1. m.cmd \in AnyCommand
    BY <1>3, CommandIsAny
  <2> QED
    BY <1>6, <2>1, ExecInOrder
<1>8. InOrder(replica'[s]) /\ \A r \in Sockets : r # s => replica'[r] = replica[r]
  <2>1. replica'[s] = IF m.kind \in {"line", "cmd"} THEN Exec(replica[s], m.cmd, now)
                      ELSE replica[s]
    BY <1>1, <1>3 DEF Typed, LinksTyped
  <2>2. \A r \in Sockets : r # s => replica'[r] = replica[r]
    BY <1>1, <1>3 DEF Typed, LinksTyped
  <2> QED
    BY <1>6, <1>7, <2>1, <2>2
<1>9. Tail(link[s]) \in Seq(Sent)
  BY <1>1
<1>10. LinksTyped'
  <2>1. replica' \in [Sockets -> StoreState] /\ \A r \in Sockets : InOrder(replica'[r])
    <3>1. \A r \in Sockets : InOrder(replica'[r])
      BY <1>1, <1>8 DEF Typed, LinksTyped
    <3>2. \A r \in Sockets : replica'[r] \in StoreState
      BY <3>1 DEF InOrder
    <3>3. replica' = [r \in Sockets |-> replica'[r]]
      BY <1>1, <1>3 DEF Typed, LinksTyped
    <3> QED
      BY <3>1, <3>2, <3>3
  <2>2. link' \in [Sockets -> Seq(Sent)]
    BY <1>1, <1>3, <1>9 DEF Typed, LinksTyped
  <2>3. loading' \in [Sockets -> BOOLEAN]
    BY <1>1, <1>3 DEF Typed, LinksTyped
  <2> QED
    BY <1>1, <1>3, <2>1, <2>2, <2>3 DEF Typed, LinksTyped
<1>11. Queues'
  <2>1. \A r \in Sockets : r # s => link'[r] = link[r] /\ loading'[r] = loading[r]
    BY <1>1, <1>3 DEF Typed, LinksTyped
  <2>2. link'[s] = Tail(link[s])
    BY <1>1, <1>3 DEF Typed, LinksTyped
  <2> QED
    BY <1>1, <1>3, <2>1, <2>2 DEF Queues
<1>12. Listed'
  BY <1>1, <1>3 DEF Listed
<1> QED
  BY <1>4, <1>5, <1>10, <1>11, <1>12 DEF Inv, Typed

LEMMA DisconnectInv ==
  ASSUME Inv, NEW s \in Sockets, Disconnect(s)
  PROVE  Inv'
<1>1. /\ Typed /\ Queues /\ Listed
      /\ stage' = [stage EXCEPT ![s] = "closed"]
      /\ image' = [image EXCEPT ![s] = <<>>]
      /\ link' = [link EXCEPT ![s] = <<>>]
      /\ loading' = [loading EXCEPT ![s] = FALSE]
      /\ replica' = [replica EXCEPT ![s] = EmptyStore]
      /\ good' = [good EXCEPT ![s] = {}]
      /\ based' = [h \in Handlers |-> based[h] \ {s}]
      /\ UNCHANGED <<slaves, joins, stable, filed, clash>>
      /\ UNCHANGED masterVars
  BY DEF Inv, Disconnect
<1>2. StoreTyped' /\ ThreadsTyped' /\ FilesTyped' /\ SaverTyped'
  BY <1>1, MasterSame
<1>3. HistoryTyped'
  BY <1>1 DEF Typed, HistoryTyped
<1>4. LinksTyped'
  <2>1. EmptyStore \in StoreState /\ InOrder(EmptyStore)
    BY EmptyInOrder DEF InOrder
  <2>2. \A r \in Sockets : replica'[r] = IF r = s THEN EmptyStore ELSE replica[r]
    BY <1>1 DEF Typed, LinksTyped
  <2>3. \A r \in Sockets : InOrder(replica'[r])
    BY <1>1, <2>1, <2>2 DEF Typed, LinksTyped
  <2>4. replica' \in [Sockets -> StoreState]
    BY <1>1, <2>1 DEF Typed, LinksTyped
  <2>5. link' \in [Sockets -> Seq(Sent)] /\ image' \in [Sockets -> Seq(Line)]
    BY <1>1 DEF Typed, LinksTyped
  <2> QED
    BY <1>1, <2>3, <2>4, <2>5 DEF Typed, LinksTyped
<1>5. Queues'
  BY <1>1 DEF Queues, WellSent, Typed, LinksTyped
<1>6. Listed'
  BY <1>1 DEF Listed, Typed, LinksTyped
<1> QED
  BY <1>2, <1>3, <1>4, <1>5, <1>6 DEF Inv, Typed
(***************************************************************************)
(* The master's threads keep the types.                                    *)
(***************************************************************************)
LEMMA LinksSame ==
  ASSUME LinksTyped, Queues, Listed, UNCHANGED links
  PROVE  LinksTyped' /\ Queues' /\ Listed'
BY DEF LinksTyped, Queues, Listed, links

LEMMA ExecuteCommandInv ==
  ASSUME Inv, NEW h \in Handlers, NEW c \in Inputs, ExecuteCommand(h, c)
  PROVE  Inv'
<1>1. /\ Typed /\ Queues /\ Listed /\ Execute(h, c) /\ UNCHANGED links
      /\ UNCHANGED <<wal, rdb, saver>> /\ c.key \in Keys
  BY InputsAssumption DEF Inv, ExecuteCommand, Execute, Files, Command
<1>2. StoreTyped' /\ ThreadsTyped'
  BY <1>1, ExecuteTyped DEF Typed
<1>3. FilesTyped' /\ SaverTyped'
  BY <1>1 DEF Typed, FilesTyped, SaverTyped
<1>4. LinksTyped' /\ Queues' /\ Listed'
  BY <1>1, LinksSame DEF Typed
<1>5. HistoryTyped'
  <2>1. CASE c.op \in Writes /\ (Recorded(kv, c, now) \/ kv' # kv)
    <3>1. /\ stable' = stable \ {c.key} /\ filed' = filed \ {c.key}
          /\ good' = [s \in Sockets |-> good[s] \ {c.key}]
          /\ based' = [based EXCEPT ![h] = {s \in Sockets : c.key \in good[s]}]
          /\ clash' \in {clash \cup {c.key}, clash \ {c.key}}
      BY <2>1 DEF ExecuteCommand, Changed
    <3> QED
      BY <1>1, <3>1 DEF Typed, HistoryTyped
  <2>2. CASE ~(c.op \in Writes /\ (Recorded(kv, c, now) \/ kv' # kv))
    BY <1>1, <2>2 DEF ExecuteCommand, Typed, HistoryTyped
  <2> QED
    BY <2>1, <2>2
<1> QED
  BY <1>1, <1>2, <1>3, <1>4, <1>5 DEF Inv, Typed

LEMMA LogCommandInv ==
  ASSUME Inv, NEW h \in Handlers, LogCommand(h)
  PROVE  Inv'
<1>1. /\ Typed /\ Queues /\ Listed /\ Log(h) /\ UNCHANGED links /\ UNCHANGED history
      /\ UNCHANGED <<kv, saver>>
  BY DEF Inv, LogCommand, Log
<1>2. ThreadsTyped' /\ FilesTyped'
  BY <1>1, LogTyped DEF Typed
<1>3. StoreTyped' /\ SaverTyped'
  BY <1>1 DEF Typed, StoreTyped, SaverTyped
<1>4. LinksTyped' /\ Queues' /\ Listed'
  BY <1>1, LinksSame DEF Typed
<1>5. HistoryTyped'
  BY <1>1, HistorySame DEF Typed
<1> QED
  BY <1>1, <1>2, <1>3, <1>4, <1>5 DEF Inv, Typed

\* What the forwarding loop sends to the slaves.
LEMMA Forwarded ==
  ASSUME Inv, NEW h \in Handlers, Forward(h)
  PROVE  /\ cmd[h] \in Fed /\ at[h] = "forward" /\ slaves \in Seq(Sockets)
         /\ \A s \in Sockets :
              /\ link'[s] = IF s \in Gone THEN link[s]
                            ELSE link[s] \o Copies(Times(s), cmd[h])
              /\ Times(s) \in Nat
              /\ stage[s] \in {"registered", "cut", "read", "synced"} => Times(s) > 0
              /\ link'[s] \in Seq(Sent)
         /\ link' = [s \in Sockets |-> link'[s]]
<1>1. /\ Inv /\ at[h] = "forward" /\ slaves \in Seq(Sockets)
      /\ link' = [s \in Sockets |->
                    IF s \in Gone THEN link[s]
                    ELSE link[s] \o [i \in 1 .. Times(s) |-> Msg("cmd", cmd[h])]]
  BY DEF Inv, Typed, LinksTyped, Forward, Answer
<1>2. cmd[h] \in Fed
  <2>1. cmd[h] \in Command /\ cmd[h].op \in Writes
    BY <1>1 DEF Inv, Typed, ThreadsTyped
  <2> QED
    BY <2>1, CommandIsAny
<1>3. \A s \in Sockets :
        link'[s] = IF s \in Gone THEN link[s] ELSE link[s] \o Copies(Times(s), cmd[h])
  BY <1>1 DEF Copies
<1>4. \A s \in Sockets :
        /\ Times(s) \in Nat
        /\ stage[s] \in {"registered", "cut", "read", "synced"} => Times(s) > 0
  BY <1>1, TimesType DEF Inv, Listed
<1>5. ASSUME NEW s \in Sockets PROVE link'[s] \in Seq(Sent)
  <2>1. link[s] \in Seq(Sent)
    BY <1>1 DEF Inv, Typed, LinksTyped
  <2>2. Copies(Times(s), cmd[h]) \in Seq(Sent)
    BY <1>2, <1>4, CopiesShape
  <2>3. link[s] \o Copies(Times(s), cmd[h]) \in Seq(Sent)
    BY <2>1, <2>2
  <2> QED
    BY <1>3, <2>1, <2>3
<1> QED
  BY <1>1, <1>2, <1>3, <1>4, <1>5

LEMMA ForwardInv ==
  ASSUME Inv, NEW h \in Handlers, Forward(h)
  PROVE  Inv'
<1>1. /\ Typed /\ Queues /\ Listed /\ Answer(h)
      /\ slaves' = Sublist(slaves, Sockets \ Gone)
      /\ based' = [based EXCEPT ![h] = {}]
      /\ UNCHANGED <<kv, wal, rdb, saver, stage, image, loading, replica, joins,
                     stable, filed, clash>>
  BY DEF Inv, Forward, Answer, Files
<1>2. /\ cmd[h] \in Fed /\ slaves \in Seq(Sockets)
      /\ link' = [s \in Sockets |-> link'[s]]
      /\ \A s \in Sockets :
           /\ link'[s] = IF s \in Gone THEN link[s] ELSE link[s] \o Copies(Times(s), cmd[h])
           /\ Times(s) \in Nat
           /\ link'[s] \in Seq(Sent)
  BY Forwarded
<1>3. ThreadsTyped'
  BY <1>1, AnswerTyped DEF Typed
<1>4. StoreTyped' /\ FilesTyped' /\ SaverTyped'
  BY <1>1 DEF Typed, StoreTyped, FilesTyped, SaverTyped
<1>5. LinksTyped'
  <2>1. slaves' \in Seq(Sockets)
    BY <1>1, <1>2, SublistSeq
  <2>2. link' \in [Sockets -> Seq(Sent)]
    BY <1>2
  <2> QED
    BY <1>1, <2>1, <2>2 DEF Typed, LinksTyped
<1>6. Queues'
  <2>1. ASSUME NEW s \in Sockets PROVE WellSent(link'[s], loading[s])
    <3>1. CASE s \in Gone
      BY <1>1, <1>2, <3>1 DEF Queues
    <3>2. CASE s \notin Gone
      <4>1. PICK l \in Seq(Sent) : l = link[s] /\ WellSent(l, loading[s]) /\ loading[s] \in BOOLEAN
        BY <1>1 DEF Queues, Typed, LinksTyped
      <4>2. PICK q \in Seq(Sent) : q = Copies(Times(s), cmd[h]) /\ WellSent(q, FALSE)
        BY <1>2, CopiesShape
      <4>3. WellSent(l \o q, loading[s])
        BY <4>1, <4>2, WellSentConcat
      <4> QED
        BY <1>2, <3>2, <4>1, <4>2, <4>3
    <3> QED
      BY <3>1, <3>2
  <2> QED
    BY <1>1, <2>1 DEF Queues
<1>7. Listed'
  <2>1. ASSUME NEW s \in Sockets, stage[s] \in {"registered", "cut", "read", "synced"}
        PROVE  \E i \in 1 .. Len(slaves') : slaves'[i] = s
    <3>1. PICK i \in 1 .. Len(slaves) : slaves[i] = s
      BY <1>1, <2>1 DEF Listed
    <3>2. s \in Range(slaves)
      BY <1>2, <3>1 DEF Range
    <3>3. s \in Sockets \ Gone
      BY <2>1 DEF Gone
    <3>4. s \in Range(slaves')
      BY <1>1, <1>2, <3>2, <3>3, SublistRange
    <3>5. PICK l \in Seq(Sockets) : l = slaves'
      BY <1>5 DEF LinksTyped
    <3>6. \E j \in 1 .. Len(l) : l[j] = s
      BY <3>4, <3>5 DEF Range
    <3> QED
      BY <3>5, <3>6
  <2> QED
    BY <1>1, <2>1 DEF Listed
<1>8. HistoryTyped'
  <2>1. cmd[h].key \in Keys
    BY <1>2 DEF Fed
  <2>2. good' \in [Sockets -> SUBSET Keys]
    BY <1>1, <2>1 DEF Forward, Typed, HistoryTyped
  <2> QED
    BY <1>1, <2>2 DEF Typed, HistoryTyped
<1> QED
  BY <1>3, <1>4, <1>5, <1>6, <1>7, <1>8 DEF Inv, Typed

LEMMA SaveCases ==
  ASSUME SaveCopy \/ SaveOpen \/ SaveClose \/ SaveElse
  PROVE  stage' = stage \/ SaveOpen
BY DEF SaveCopy, SaveClose, SaveElse, links

LEMMA SaveInv ==
  ASSUME Inv, SaveCopy \/ SaveOpen \/ SaveClose \/ SaveElse
  PROVE  Inv'
<1>1. /\ Typed /\ Queues /\ Listed
      /\ UNCHANGED <<slaves, image, link, loading, replica, joins>>
  BY DEF Inv, SaveCopy, SaveOpen, SaveClose, SaveElse, links
<1>2. \/ Wake \/ Truncate \/ ReadClock \/ CopyStore \/ OpenFile \/ CloseFile
      \/ \E k \in Keys : WriteLine(k)
  BY DEF SaveCopy, SaveOpen, SaveClose, SaveElse
<1>3. FilesTyped' /\ SaverTyped'
  BY <1>1, <1>2, SaverStepTyped DEF Typed
<1>4. UNCHANGED <<kv, now, at, cmd, issued>>
  BY <1>2 DEF Wake, Truncate, ReadClock, CopyStore, OpenFile, CloseFile, WriteLine
<1>5. StoreTyped' /\ ThreadsTyped'
  BY <1>1, <1>4 DEF Typed, StoreTyped, ThreadsTyped
<1>6. /\ stage' \in [Sockets -> {"closed", "accepted", "registered", "cut", "read", "synced"}]
      /\ \A s \in Sockets : stage'[s] = stage[s] \/ stage[s] = "registered"
  <2>1. stage \in [Sockets -> {"closed", "accepted", "registered", "cut", "read", "synced"}]
    BY <1>1 DEF Typed, LinksTyped
  <2>2. CASE stage' = stage
    BY <2>1, <2>2
  <2>3. CASE SaveOpen
    <3>1. stage' = [s \in Sockets |->
                      IF stage[s] = "registered" /\ image[s] # <<>> THEN "cut" ELSE stage[s]]
      BY <2>3 DEF SaveOpen
    <3>2. ASSUME NEW s \in Sockets
          PROVE  /\ stage'[s] = stage[s] \/ stage[s] = "registered"
                 /\ stage'[s] \in {"closed", "accepted", "registered", "cut", "read", "synced"}
      <4>1. stage'[s] = IF stage[s] = "registered" /\ image[s] # <<>> THEN "cut" ELSE stage[s]
        BY <3>1
      <4> QED
        BY <2>1, <4>1
    <3> QED
      BY <3>1, <3>2
  <2> QED
    BY <2>2, <2>3, SaveCases
<1>7. LinksTyped' /\ Queues' /\ Listed'
  <2>1. LinksTyped'
    BY <1>1, <1>6 DEF Typed, LinksTyped
  <2>2. Queues'
    BY <1>1 DEF Queues
  <2>3. Listed'
    BY <1>1, <1>6 DEF Listed
  <2> QED
    BY <2>1, <2>2, <2>3
<1>8. HistoryTyped'
  BY <1>1 DEF SaveCopy, SaveOpen, SaveClose, SaveElse, history, Typed, HistoryTyped
<1> QED
  BY <1>3, <1>5, <1>7, <1>8 DEF Inv, Typed

LEMMA HousekeepingInv ==
  ASSUME Inv, Housekeeping
  PROVE  Inv'
<1>1. /\ Typed /\ Queues /\ Listed /\ UNCHANGED links /\ UNCHANGED history
      /\ UNCHANGED <<at, cmd, issued, wal, rdb, saver>>
  BY DEF Inv, Housekeeping, Clean, Tick, Files
<1>2. FilesTyped' /\ SaverTyped'
  BY <1>1 DEF Typed, FilesTyped, SaverTyped
<1>3. CASE Clean
  <2>1. StoreTyped'
    BY <1>1, <1>3, CleanTyped DEF Typed
  <2>2. ThreadsTyped'
    BY <1>1, <1>3 DEF Clean, Typed, ThreadsTyped
  <2> QED
    BY <1>1, <1>2, <2>1, <2>2, LinksSame, HistorySame DEF Inv, Typed
<1>4. CASE Tick
  <2>1. StoreTyped' /\ ThreadsTyped'
    BY <1>1, <1>4 DEF Tick, Typed, StoreTyped, ThreadsTyped
  <2> QED
    BY <1>1, <1>2, <2>1, LinksSame, HistorySame DEF Inv, Typed
<1> QED
  BY <1>3, <1>4 DEF Housekeeping

LEMMA StutterInv ==
  ASSUME Inv, UNCHANGED vars
  PROVE  Inv'
<1>1. UNCHANGED masterVars /\ UNCHANGED links /\ UNCHANGED history
  BY DEF vars
<1> QED
  BY <1>1, MasterSame, LinksSame, HistorySame DEF Inv, Typed

LEMMA NextInv == Inv /\ [Next]_vars => Inv'
<1> SUFFICES ASSUME Inv, [Next]_vars PROVE Inv'
  OBVIOUS
<1>1. ASSUME NEW s \in Sockets,
             \/ Connect(s) \/ Register(s) \/ ReadPart(s) \/ ReadSnapshot(s) \/ ReadCut(s)
             \/ SendSnapshot(s) \/ Apply(s) \/ Disconnect(s)
      PROVE  Inv'
  BY <1>1, ConnectInv, RegisterInv, ReadPartInv, ReadSnapshotInv, SendSnapshotInv, ApplyInv,
     DisconnectInv
<1>2. ASSUME NEW h \in Handlers,
             (\E c \in Inputs : ExecuteCommand(h, c)) \/ LogCommand(h) \/ Forward(h)
      PROVE  Inv'
  BY <1>2, ExecuteCommandInv, LogCommandInv, ForwardInv
<1>3. CASE SaveCopy \/ SaveOpen \/ SaveClose \/ SaveElse
  BY <1>3, SaveInv
<1>4. CASE Housekeeping \/ UNCHANGED vars
  BY <1>4, HousekeepingInv, StutterInv
<1> QED
  BY <1>1, <1>2, <1>3, <1>4 DEF Next

\* The types hold, and every slave is sent nothing between the two markers of
\* a snapshot but its lines (Server.cpp, the handler of SLAVE and the
\* forwarding loop), and a registered slave stays in the vector.
THEOREM Invariance == Spec => []Inv
<1>1. Init => Inv
  BY InitInv
<1> QED
  BY <1>1, NextInv, PTL DEF Spec

\* The types of the master, its files and its slaves hold in every state
\* (Server.cpp, startAsSlave and the handler threads).
THEOREM TypeCorrect == Spec => []TypeOK
<1>1. Inv => TypeOK
  BY DEF Inv, Typed, StoreTyped, ThreadsTyped, FilesTyped, SaverTyped, LinksTyped, TypeOK,
         MasterTypeOK, InOrder, Line
<1> QED
  BY <1>1, Invariance, PTL
-----------------------------------------------------------------------------
(***************************************************************************)
(* What a queue leads to.                                                  *)
(***************************************************************************)
LEMMA LeadsLasting ==
  ASSUME NEW l \in Seq(Sent), NEW n, NEW k, NEW m, Leads(l, n, k, m)
  PROVE  Lasting(m)
<1>1. PICK p \in 0 .. Len(l) : \E f : Trace(l, p, f, k) /\ f[Len(l)] = m
  BY DEF Leads
<1>2. PICK f : Trace(l, p, f, k) /\ f[Len(l)] = m
  BY <1>1
<1>3. Len(l) \in p .. Len(l)
  BY <1>1
<1> QED
  BY <1>2, <1>3 DEF Trace

\* The last message on k says what k will be.
LEMMA LastReplaces ==
  ASSUME NEW l \in Seq(Sent), NEW k, NEW n, NEW p \in 1 .. Len(l),
         On(l[p], k), Replaces(l[p].cmd), \A j \in p + 1 .. Len(l) : ~On(l[j], k)
  PROVE  Leads(l, n, k, Left(l[p].cmd))
<1> DEFINE m == Left(l[p].cmd)
           f == [j \in Int |-> m]
<1>1. Lasting(m)
  BY DEF Left, Lasting
<1>2. \A j \in p .. Len(l) : f[j] = m
  OBVIOUS
<1>3. p \in 0 .. Len(l) /\ p > 0 /\ Len(l) \in p .. Len(l) /\ p \in p .. Len(l)
  OBVIOUS
<1>4. \A j \in p + 1 .. Len(l) : f[j] = f[j - 1]
  OBVIOUS
<1> HIDE DEF f, m
<1>5. Trace(l, p, f, k)
  BY <1>1, <1>2, <1>4 DEF Trace
<1>6. f[p] = m /\ f[Len(l)] = m
  BY <1>2, <1>3
<1>7. Leads(l, n, k, m)
  BY <1>3, <1>5, <1>6 DEF Leads, m
<1> QED
  BY <1>7 DEF m

\* Messages on other keys change nothing.
LEMMA LeadsOn ==
  ASSUME NEW l \in Seq(Sent), NEW q \in Seq(Sent), NEW n, NEW k, NEW m, Leads(l, n, k, m),
         \A i \in 1 .. Len(q) : ~On(q[i], k)
  PROVE  Leads(l \o q, n, k, m)
<1> DEFINE r == l \o q
<1>1. PICK p \in 0 .. Len(l) : \E f :
        /\ \/ p = 0 /\ f[0] = n
           \/ p > 0 /\ On(l[p], k) /\ Replaces(l[p].cmd) /\ f[p] = Left(l[p].cmd)
        /\ Trace(l, p, f, k)
        /\ f[Len(l)] = m
  BY DEF Leads
<1>2. PICK f :
        /\ \/ p = 0 /\ f[0] = n
           \/ p > 0 /\ On(l[p], k) /\ Replaces(l[p].cmd) /\ f[p] = Left(l[p].cmd)
        /\ Trace(l, p, f, k)
        /\ f[Len(l)] = m
  BY <1>1
<1> DEFINE g == [j \in Int |-> IF j <= Len(l) THEN f[j] ELSE m]
<1>3. /\ Len(l) \in Nat /\ Len(r) \in Nat /\ Len(r) = Len(l) + Len(q) /\ Len(q) \in Nat
      /\ \A i \in 1 .. Len(l) : r[i] = l[i]
      /\ \A i \in Len(l) + 1 .. Len(r) : \E j \in 1 .. Len(q) : r[i] = q[j]
  <2>1. /\ Len(r) = Len(l) + Len(q)
        /\ Len(l) \in Nat /\ Len(q) \in Nat
        /\ \A i \in 1 .. Len(l) : r[i] = l[i]
        /\ \A i \in 1 .. Len(q) : r[Len(l) + i] = q[i]
        /\ \A i \in Len(l) + 1 .. Len(r) : \E j \in 1 .. Len(q) : i = Len(l) + j
    BY Joined
  <2> HIDE DEF r
  <2> QED
    BY <2>1
<1> HIDE DEF r
<1>4. /\ \A j \in 0 .. Len(l) : g[j] = f[j]
      /\ \A j \in Len(l) .. Len(r) : g[j] = m
  BY <1>2, <1>3
<1> HIDE DEF g
<1>5. Lasting(m)
  BY LeadsLasting
<1>6. \A j \in p .. Len(r) : Lasting(g[j])
  <2>1. ASSUME NEW j \in p .. Len(r) PROVE Lasting(g[j])
    <3>1. CASE j <= Len(l)
      <4>1. j \in p .. Len(l) /\ j \in 0 .. Len(l)
        BY <1>3, <3>1
      <4> QED
        BY <1>2, <1>4, <4>1 DEF Trace
    <3>2. CASE j > Len(l)
      BY <1>3, <1>4, <1>5, <3>2
    <3> QED
      BY <1>3, <3>1, <3>2
  <2> QED
    BY <2>1
<1>7. ASSUME NEW j \in p + 1 .. Len(r)
      PROVE  IF On(r[j], k)
             THEN \/ Replaces(r[j].cmd) /\ g[j] = Left(r[j].cmd)
                  \/ IsCounter(r[j].cmd) /\ g[j] = Counted(g[j - 1], Step(r[j].cmd))
             ELSE g[j] = g[j - 1]
  <2>1. CASE j <= Len(l)
    <3>1. j \in p + 1 .. Len(l) /\ j \in 1 .. Len(l) /\ j \in 0 .. Len(l) /\ j - 1 \in 0 .. Len(l)
      BY <1>3, <2>1
    <3>2. r[j] = l[j] /\ g[j] = f[j] /\ g[j - 1] = f[j - 1]
      BY <1>3, <1>4, <3>1
    <3> QED
      BY <1>2, <3>1, <3>2 DEF Trace
  <2>2. CASE j > Len(l)
    <3>1. j \in Len(l) + 1 .. Len(r) /\ j \in Len(l) .. Len(r) /\ j - 1 \in Len(l) .. Len(r)
      BY <1>3, <2>2
    <3>2. ~On(r[j], k) /\ g[j] = m /\ g[j - 1] = m
      BY <1>3, <1>4, <3>1
    <3> QED
      BY <3>2
  <2> QED
    BY <1>3, <2>1, <2>2
<1>8. Trace(r, p, g, k)
  BY <1>6, <1>7 DEF Trace
<1>9. p \in 0 .. Len(r) /\ g[Len(r)] = m /\ g[p] = f[p] /\ (p > 0 => r[p] = l[p])
  BY <1>3, <1>4
<1>10. Leads(r, n, k, m)
  BY <1>2, <1>8, <1>9 DEF Leads
<1> QED
  BY <1>10 DEF r

\* One more counter.
LEMMA LeadsCount ==
  ASSUME NEW l \in Seq(Sent), NEW q \in Seq(Sent), Len(q) = 1, NEW n, NEW k, NEW m,
         Leads(l, n, k, m), On(q[1], k), IsCounter(q[1].cmd),
         Lasting(Counted(m, Step(q[1].cmd)))
  PROVE  Leads(l \o q, n, k, Counted(m, Step(q[1].cmd)))
<1> DEFINE r == l \o q
           e == Counted(m, Step(q[1].cmd))
<1>1. PICK p \in 0 .. Len(l) : \E f :
        /\ \/ p = 0 /\ f[0] = n
           \/ p > 0 /\ On(l[p], k) /\ Replaces(l[p].cmd) /\ f[p] = Left(l[p].cmd)
        /\ Trace(l, p, f, k)
        /\ f[Len(l)] = m
  BY DEF Leads
<1>2. PICK f :
        /\ \/ p = 0 /\ f[0] = n
           \/ p > 0 /\ On(l[p], k) /\ Replaces(l[p].cmd) /\ f[p] = Left(l[p].cmd)
        /\ Trace(l, p, f, k)
        /\ f[Len(l)] = m
  BY <1>1
<1> DEFINE g == [j \in Int |-> IF j <= Len(l) THEN f[j] ELSE e]
<1>3. /\ Len(l) \in Nat /\ Len(r) = Len(l) + 1
      /\ \A i \in 1 .. Len(l) : r[i] = l[i]
      /\ r[Len(l) + 1] = q[1]
  <2>1. /\ Len(r) = Len(l) + Len(q) /\ Len(l) \in Nat
        /\ \A i \in 1 .. Len(l) : r[i] = l[i]
        /\ \A i \in 1 .. Len(q) : r[Len(l) + i] = q[i]
    <3>1. \A x, y \in Seq(Sent) :
            /\ Len(x \o y) = Len(x) + Len(y) /\ Len(x) \in Nat
            /\ \A i \in 1 .. Len(x) : (x \o y)[i] = x[i]
            /\ \A i \in 1 .. Len(y) : (x \o y)[Len(x) + i] = y[i]
      BY Joined
    <3> QED
      BY <3>1, Zenon
  <2> HIDE DEF r
  <2> QED
    BY <2>1
<1> HIDE DEF r
<1>4. /\ \A j \in 0 .. Len(l) : g[j] = f[j]
      /\ g[Len(r)] = e
  BY <1>2, <1>3
<1>5. Lasting(e)
  OBVIOUS
<1> HIDE DEF g
<1>6. \A j \in p .. Len(r) : Lasting(g[j])
  <2>1. ASSUME NEW j \in p .. Len(r) PROVE Lasting(g[j])
    <3>1. CASE j <= Len(l)
      <4>1. j \in p .. Len(l) /\ j \in 0 .. Len(l)
        BY <1>3, <3>1
      <4> QED
        BY <1>2, <1>4, <4>1 DEF Trace
    <3>2. CASE j > Len(l)
      <4>1. j = Len(r)
        BY <1>3, <3>2
      <4> QED
        BY <1>4, <1>5, <4>1
    <3> QED
      BY <1>3, <3>1, <3>2
  <2> QED
    BY <2>1
<1>7. ASSUME NEW j \in p + 1 .. Len(r)
      PROVE  IF On(r[j], k)
             THEN \/ Replaces(r[j].cmd) /\ g[j] = Left(r[j].cmd)
                  \/ IsCounter(r[j].cmd) /\ g[j] = Counted(g[j - 1], Step(r[j].cmd))
             ELSE g[j] = g[j - 1]
  <2>1. CASE j <= Len(l)
    <3>1. j \in p + 1 .. Len(l) /\ j \in 1 .. Len(l) /\ j \in 0 .. Len(l) /\ j - 1 \in 0 .. Len(l)
      BY <1>3, <2>1
    <3>2. r[j] = l[j] /\ g[j] = f[j] /\ g[j - 1] = f[j - 1]
      BY <1>3, <1>4, <3>1
    <3> QED
      BY <1>2, <3>1, <3>2 DEF Trace
  <2>2. CASE j > Len(l)
    <3>1. j = Len(r) /\ j - 1 = Len(l) /\ j - 1 \in 0 .. Len(l) /\ j = Len(l) + 1
      BY <1>3, <2>2
    <3>2. r[j] = q[1] /\ g[j] = e /\ g[j - 1] = m
      BY <1>2, <1>3, <1>4, <3>1
    <3> QED
      BY <3>2
  <2> QED
    BY <1>3, <2>1, <2>2
<1>8. Trace(r, p, g, k)
  BY <1>6, <1>7 DEF Trace
<1>9. p \in 0 .. Len(r) /\ g[p] = f[p] /\ (p > 0 => r[p] = l[p])
  BY <1>3, <1>4
<1> HIDE DEF e
<1>10. Leads(r, n, k, e)
  BY <1>2, <1>4, <1>8, <1>9 DEF Leads
<1> QED
  BY <1>10 DEF r, e

\* The slave that had n takes the first message and has e.
LEMMA LeadsTaken ==
  ASSUME NEW l \in Seq(Sent), l # <<>>, NEW n, NEW k, NEW m, Leads(l, n, k, m), NEW e,
         On(l[1], k) /\ Replaces(l[1].cmd) => e = Left(l[1].cmd),
         On(l[1], k) /\ IsCounter(l[1].cmd) /\ Lasting(n) => e = Counted(n, Step(l[1].cmd)),
         ~On(l[1], k) /\ Lasting(n) => e = n
  PROVE  Leads(Tail(l), e, k, m)
<1> DEFINE r == Tail(l)
<1>1. PICK p \in 0 .. Len(l) : \E f :
        /\ \/ p = 0 /\ f[0] = n
           \/ p > 0 /\ On(l[p], k) /\ Replaces(l[p].cmd) /\ f[p] = Left(l[p].cmd)
        /\ Trace(l, p, f, k)
        /\ f[Len(l)] = m
  BY DEF Leads
<1>2. PICK f :
        /\ \/ p = 0 /\ f[0] = n
           \/ p > 0 /\ On(l[p], k) /\ Replaces(l[p].cmd) /\ f[p] = Left(l[p].cmd)
        /\ Trace(l, p, f, k)
        /\ f[Len(l)] = m
  BY <1>1
<1> DEFINE g == [j \in Int |-> f[j + 1]]
<1>3. /\ Len(l) \in Nat \ {0} /\ Len(r) = Len(l) - 1
      /\ \A i \in 1 .. Len(r) : r[i] = l[i + 1]
  <2>1. Len(l) \in Nat /\ Len(l) # 0
    OBVIOUS
  <2>2. Len(r) = Len(l) - 1 /\ \A i \in 1 .. Len(r) : r[i] = l[i + 1]
    OBVIOUS
  <2> QED
    BY <2>1, <2>2
<1> HIDE DEF r
<1>4. \A j \in Int : g[j] = f[j + 1]
  OBVIOUS
<1> HIDE DEF g
<1>5. ASSUME NEW x \in 0 .. Len(r), p <= x + 1
      PROVE  Trace(r, x, g, k)
  <2>1. ASSUME NEW j \in x .. Len(r) PROVE Lasting(g[j])
    <3>1. j + 1 \in p .. Len(l) /\ j \in Int
      BY <1>3, <1>5
    <3> QED
      BY <1>2, <1>4, <3>1 DEF Trace
  <2>2. ASSUME NEW j \in x + 1 .. Len(r)
        PROVE  IF On(r[j], k)
               THEN \/ Replaces(r[j].cmd) /\ g[j] = Left(r[j].cmd)
                    \/ IsCounter(r[j].cmd) /\ g[j] = Counted(g[j - 1], Step(r[j].cmd))
               ELSE g[j] = g[j - 1]
    <3>1. /\ j + 1 \in p + 1 .. Len(l) /\ j \in Int /\ j - 1 \in Int /\ j \in 1 .. Len(r)
          /\ (j - 1) + 1 = j /\ (j + 1) - 1 = j
      BY <1>3, <1>5
    <3>2. r[j] = l[j + 1] /\ g[j] = f[j + 1] /\ g[j - 1] = f[(j + 1) - 1]
      BY <1>3, <1>4, <3>1
    <3> QED
      BY <1>2, <3>1, <3>2 DEF Trace
  <2> QED
    BY <2>1, <2>2 DEF Trace
<1>6. g[Len(r)] = m
  <2>1. Len(r) \in Int /\ Len(r) + 1 = Len(l)
    BY <1>3
  <2> QED
    BY <1>2, <1>4, <2>1
<1>7. CASE p > 1
  <2>1. p - 1 \in 0 .. Len(r) /\ p - 1 > 0 /\ p <= (p - 1) + 1 /\ p - 1 \in Int /\ (p - 1) + 1 = p
    BY <1>3, <1>7
  <2>2. Trace(r, p - 1, g, k)
    BY <1>5, <2>1
  <2>3. r[p - 1] = l[p] /\ g[p - 1] = f[p]
    <3>1. p - 1 \in 1 .. Len(r)
      BY <2>1
    <3>2. r[p - 1] = l[(p - 1) + 1] /\ g[p - 1] = f[(p - 1) + 1]
      BY <1>3, <1>4, <2>1, <3>1
    <3> QED
      BY <2>1, <3>2
  <2>4. On(l[p], k) /\ Replaces(l[p].cmd) /\ f[p] = Left(l[p].cmd)
    BY <1>2, <1>7
  <2>5. Leads(r, e, k, m)
    BY <1>6, <2>1, <2>2, <2>3, <2>4 DEF Leads
  <2> QED
    BY <2>5 DEF r
<1>8. CASE p <= 1
  <2>1. 0 \in 0 .. Len(r) /\ p <= 0 + 1 /\ 0 \in Int /\ 0 + 1 = 1
    BY <1>3, <1>8
  <2>2. Trace(r, 0, g, k)
    BY <1>5, <2>1
  <2>3. g[0] = f[1]
    BY <1>4, <2>1
  <2>4. f[1] = e
    <3>1. CASE p = 1
      BY <1>2, <3>1
    <3>2. CASE p = 0
      <4>1. f[0] = n /\ 0 \in p .. Len(l) /\ 1 \in p + 1 .. Len(l) /\ 1 - 1 = 0
        BY <1>2, <1>3, <3>2
      <4>2. Lasting(n)
        BY <1>2, <4>1 DEF Trace
      <4>3. IF On(l[1], k)
            THEN \/ Replaces(l[1].cmd) /\ f[1] = Left(l[1].cmd)
                 \/ IsCounter(l[1].cmd) /\ f[1] = Counted(f[0], Step(l[1].cmd))
            ELSE f[1] = f[0]
        BY <1>2, <4>1 DEF Trace
      <4> QED
        BY <4>1, <4>2, <4>3
    <3> QED
      BY <1>3, <1>8, <3>1, <3>2
  <2>5. Leads(r, e, k, m)
    BY <1>6, <2>1, <2>2, <2>3, <2>4 DEF Leads
  <2> QED
    BY <2>5 DEF r
<1> QED
  BY <1>7, <1>8

\* Which messages of a snapshot are on k.
LEMMA MessageOn ==
  ASSUME NEW lines \in Seq(Line), NEW k
  PROVE  LET q == Message(lines)
         IN  /\ \A i \in 1 .. Len(lines) : /\ On(q[i + 1], k) <=> lines[i].key = k
                                           /\ q[i + 1].cmd = LineCmd(lines[i])
             /\ ~On(q[1], k) /\ ~On(q[Len(lines) + 2], k)
<1>1. PICK q : q = Message(lines)
  OBVIOUS
<1>2. /\ q[1] = Msg("start", Nothing) /\ q[Len(lines) + 2] = Msg("end", Nothing)
      /\ \A i \in 1 .. Len(lines) : q[i + 1] = Msg("line", LineCmd(lines[i]))
  BY <1>1, MessageShape
<1>3. \A kind, c : Msg(kind, c).kind = kind /\ Msg(kind, c).cmd = c
  BY DEF Msg
<1>4. ~On(q[1], k) /\ ~On(q[Len(lines) + 2], k)
  BY <1>2, <1>3 DEF On
<1>5. ASSUME NEW i \in 1 .. Len(lines)
      PROVE  (On(q[i + 1], k) <=> lines[i].key = k) /\ q[i + 1].cmd = LineCmd(lines[i])
  <2>1. q[i + 1].kind = "line" /\ q[i + 1].cmd = LineCmd(lines[i])
    BY <1>2, <1>3
  <2>2. LineCmd(lines[i]).key = lines[i].key
    BY DEF LineCmd, SetCmd
  <2> QED
    BY <2>1, <2>2 DEF On
<1> QED
  BY <1>1, <1>4, <1>5

\* A slave that is sent a snapshot will have what the snapshot holds.
LEMMA LeadsSnapshot ==
  ASSUME NEW s, NEW k, NEW n, link[s] \in Seq(Sent), image[s] \in Seq(Line),
         Holds(image[s], k, n), n = Absent => Without(s, k)
  PROVE  Leads(link[s] \o Message(image[s]), replica[s].store[k], k, n)
<1>1. PICK l \in Seq(Sent) : l = link[s]
  OBVIOUS
<1>2. PICK lines \in Seq(Line) : lines = image[s]
  OBVIOUS
<1>3. PICK q \in Seq(Sent) : q = Message(lines) /\ Len(q) = Len(lines) + 2
  BY MessageShape
<1>4. PICK e : e = replica[s].store[k]
  OBVIOUS
<1>5. /\ \A i \in 1 .. Len(lines) : /\ On(q[i + 1], k) <=> lines[i].key = k
                                    /\ q[i + 1].cmd = LineCmd(lines[i])
      /\ ~On(q[1], k) /\ ~On(q[Len(lines) + 2], k)
  BY <1>3, MessageOn
<1>6. Len(lines) \in Nat
  OBVIOUS
<1>7. \A j \in 1 .. Len(q) : j = 1 \/ j = Len(lines) + 2
                             \/ (j - 1 \in 1 .. Len(lines) /\ j = (j - 1) + 1)
  BY <1>3, <1>6
<1>8. CASE n = Absent /\ \A i \in 1 .. Len(lines) : lines[i].key # k
  <2>1. \A j \in 1 .. Len(q) : ~On(q[j], k)
    <3>1. ASSUME NEW j \in 1 .. Len(q) PROVE ~On(q[j], k)
      <4>1. CASE j = 1 \/ j = Len(lines) + 2
        BY <1>5, <4>1
      <4>2. CASE j - 1 \in 1 .. Len(lines) /\ j = (j - 1) + 1
        <5>1. On(q[(j - 1) + 1], k) <=> lines[j - 1].key = k
          BY <1>5, <4>2
        <5> QED
          BY <1>8, <4>2, <5>1
      <4> QED
        BY <1>7, <4>1, <4>2
    <3> QED
      BY <3>1
  <2>2. Leads(l, e, k, Absent)
    <3>1. CASE e = Absent /\ \A i \in 1 .. Len(l) : ~On(l[i], k)
      <4> DEFINE f == [j \in Int |-> Absent]
      <4>1. \A j \in 0 .. Len(l) : f[j] = Absent
        OBVIOUS
      <4>2. \A j \in 1 .. Len(l) : f[j] = f[j - 1]
        OBVIOUS
      <4>3. Len(l) \in 0 .. Len(l) /\ 0 \in 0 .. Len(l) /\ 0 + 1 = 1
        OBVIOUS
      <4> HIDE DEF f
      <4>4. Trace(l, 0, f, k)
        BY <3>1, <4>1, <4>2, <4>3 DEF Trace, Lasting
      <4> QED
        BY <3>1, <4>1, <4>3, <4>4 DEF Leads
    <3>2. ASSUME NEW i \in 1 .. Len(l), On(l[i], k), l[i].cmd.op = "DEL",
                 \A j \in i + 1 .. Len(l) : ~On(l[j], k)
          PROVE  Leads(l, e, k, Absent)
      <4>1. Replaces(l[i].cmd) /\ Left(l[i].cmd) = Absent
        BY <3>2 DEF Replaces, Left
      <4>2. Leads(l, e, k, Left(l[i].cmd))
        BY <3>2, <4>1, LastReplaces
      <4> QED
        BY <4>1, <4>2
    <3>3. Without(s, k)
      BY <1>8
    <3> QED
      BY <1>1, <1>4, <3>1, <3>2, <3>3 DEF Without
  <2>3. Leads(l \o q, e, k, Absent)
    BY <2>1, <2>2, LeadsOn
  <2> QED
    BY <1>1, <1>2, <1>3, <1>4, <1>8, <2>3
<1>9. ASSUME NEW i \in 1 .. Len(lines), lines[i].key = k, lines[i].ttl = NoTtl,
             n = [value |-> lines[i].value, expiry |-> NoExpiry],
             \A j \in i + 1 .. Len(lines) : lines[j].key # k
      PROVE  Leads(l \o q, e, k, n)
  <2> DEFINE r == l \o q
             p == Len(l) + (i + 1)
  <2>1. /\ r \in Seq(Sent) /\ Len(r) = Len(l) + Len(q)
        /\ Len(l) \in Nat /\ Len(q) \in Nat
        /\ \A j \in 1 .. Len(q) : r[Len(l) + j] = q[j]
        /\ \A j \in Len(l) + 1 .. Len(r) : \E x \in 1 .. Len(q) : j = Len(l) + x
    BY Joined
  <2> HIDE DEF r
  <2>2. p \in 1 .. Len(r) /\ i + 1 \in 1 .. Len(q)
    BY <1>3, <1>6, <2>1
  <2>3. r[p] = q[i + 1]
    BY <2>1, <2>2
  <2>4. On(r[p], k) /\ r[p].cmd = LineCmd(lines[i])
    BY <1>5, <1>9, <2>3
  <2>5. Replaces(LineCmd(lines[i])) /\ Left(LineCmd(lines[i])) = n
    BY <1>9 DEF Replaces, Left, LineCmd, SetCmd
  <2>6. ASSUME NEW j \in p + 1 .. Len(r) PROVE ~On(r[j], k)
    <3>1. PICK x \in 1 .. Len(q) : j = Len(l) + x
      BY <1>6, <2>1
    <3>2. r[j] = q[x] /\ x > i + 1
      BY <1>6, <2>1, <3>1
    <3>3. CASE x = Len(lines) + 2
      BY <1>5, <3>2, <3>3
    <3>4. CASE x # Len(lines) + 2
      <4>1. x - 1 \in i + 1 .. Len(lines) /\ x - 1 \in 1 .. Len(lines) /\ (x - 1) + 1 = x
        <5>1. x # 1 /\ x \in Nat /\ i \in Nat
          <6>1. x \in Nat /\ i \in Nat /\ i >= 1
            BY <1>6, <2>1
          <6> QED
            BY <3>2, <6>1
        <5>2. x - 1 \in 1 .. Len(lines) /\ x = (x - 1) + 1
          BY <1>7, <3>1, <3>4, <5>1
        <5>3. x - 1 >= i + 1
          BY <3>2, <5>1
        <5> QED
          BY <1>6, <5>1, <5>2, <5>3
      <4>2. On(q[(x - 1) + 1], k) <=> lines[x - 1].key = k
        BY <1>5, <4>1
      <4> QED
        BY <1>9, <3>2, <4>1, <4>2
    <3> QED
      BY <3>3, <3>4
  <2> HIDE DEF p
  <2>7. Leads(r, e, k, Left(r[p].cmd))
    BY <2>1, <2>2, <2>4, <2>5, <2>6, LastReplaces
  <2> QED
    BY <2>4, <2>5, <2>7 DEF r
<1> QED
  BY <1>1, <1>2, <1>3, <1>4, <1>8, <1>9 DEF Holds

LEMMA InStepLasting ==
  ASSUME LinksTyped, NEW s \in Sockets, NEW k, NEW n, InStep(s, k, n)
  PROVE  Lasting(n) /\ stage[s] \in {"synced", "read"}
<1>1. CASE stage[s] = "synced" /\ Leads(link[s], replica[s].store[k], k, n)
  <2>1. link[s] \in Seq(Sent)
    BY DEF LinksTyped
  <2> QED
    BY <1>1, <2>1, LeadsLasting
<1>2. CASE stage[s] = "read" /\ Holds(image[s], k, n)
  BY <1>2 DEF Holds, Lasting
<1> QED
  BY <1>1, <1>2 DEF InStep

\* What InStep depends on.
LEMMA InStepSame ==
  ASSUME NEW s, NEW k, NEW n, InStep(s, k, n),
         stage'[s] = stage[s], link'[s] = link[s], replica'[s] = replica[s], image'[s] = image[s]
  PROVE  InStep(s, k, n)'
<1>1. Without(s, k) => Without(s, k)'
  BY DEF Without
<1> QED
  BY <1>1 DEF InStep

\* A slave that is sent commands on other keys stays in step.
LEMMA InStepOther ==
  ASSUME LinksTyped, NEW s \in Sockets, NEW k, NEW n, InStep(s, k, n),
         NEW q \in Seq(Sent), \A i \in 1 .. Len(q) : ~On(q[i], k),
         link'[s] = link[s] \o q,
         stage'[s] = stage[s], replica'[s] = replica[s], image'[s] = image[s]
  PROVE  InStep(s, k, n)'
<1>1. PICK l \in Seq(Sent) : l = link[s]
  BY DEF LinksTyped
<1>2. CASE stage[s] = "synced" /\ Leads(link[s], replica[s].store[k], k, n)
  <2>1. PICK e : e = replica[s].store[k]
    OBVIOUS
  <2>2. Leads(l \o q, e, k, n)
    BY <1>1, <1>2, <2>1, LeadsOn
  <2> QED
    BY <1>1, <1>2, <2>1, <2>2 DEF InStep
<1>3. CASE stage[s] = "read" /\ Holds(image[s], k, n) /\ (n = Absent => Without(s, k))
  <2>1. ASSUME Without(s, k) PROVE Without(s, k)'
    <3> DEFINE r == l \o q
    <3>1. /\ Len(r) = Len(l) + Len(q) /\ Len(l) \in Nat /\ Len(q) \in Nat
          /\ \A i \in 1 .. Len(l) : r[i] = l[i]
          /\ \A i \in 1 .. Len(q) : r[Len(l) + i] = q[i]
          /\ \A i \in Len(l) + 1 .. Len(r) : \E j \in 1 .. Len(q) : i = Len(l) + j
      BY Joined
    <3>2. link'[s] = r
      BY <1>1
    <3> HIDE DEF r
    <3>3. \A i \in Len(l) + 1 .. Len(r) : ~On(r[i], k)
      BY <3>1
    <3>4. CASE replica[s].store[k] = Absent /\ \A i \in 1 .. Len(l) : ~On(l[i], k)
      <4>1. \A i \in 1 .. Len(r) : i \in 1 .. Len(l) \/ i \in Len(l) + 1 .. Len(r)
        BY <3>1
      <4>2. \A i \in 1 .. Len(r) : ~On(r[i], k)
        BY <3>1, <3>3, <3>4, <4>1
      <4> QED
        BY <3>2, <3>4, <4>2 DEF Without
    <3>5. ASSUME NEW i \in 1 .. Len(l), On(l[i], k), l[i].cmd.op = "DEL",
                 \A j \in i + 1 .. Len(l) : ~On(l[j], k)
          PROVE  Without(s, k)'
      <4>1. \A j \in i + 1 .. Len(r) : \/ j \in i + 1 .. Len(l) /\ j \in 1 .. Len(l)
                                       \/ j \in Len(l) + 1 .. Len(r)
        BY <3>1
      <4>2. \A j \in i + 1 .. Len(r) : ~On(r[j], k)
        BY <3>1, <3>3, <3>5, <4>1
      <4>3. i \in 1 .. Len(r) /\ r[i] = l[i]
        BY <3>1
      <4> QED
        BY <3>2, <3>5, <4>2, <4>3 DEF Without
    <3> QED
      BY <1>1, <2>1, <3>4, <3>5 DEF Without
  <2> QED
    BY <1>3, <2>1 DEF InStep
<1> QED
  BY <1>2, <1>3 DEF InStep

\* Taking a message keeps the slave in step.
LEMMA InStepTaken ==
  ASSUME RoomForAll, Inv, NEW s \in Sockets, Apply(s), NEW k \in Keys, NEW n, InStep(s, k, n)
  PROVE  InStep(s, k, n)'
<1>1. PICK l \in Seq(Sent) : /\ l = link[s] /\ l # <<>> /\ l[1] \in Sent
                             /\ link'[s] = Tail(l)
  BY Applied DEF Inv, Typed, LinksTyped
<1>2. PICK m : m = l[1]
  OBVIOUS
<1>3. /\ replica'[s] = IF m.kind \in {"line", "cmd"} THEN Exec(replica[s], m.cmd, now)
                       ELSE replica[s]
      /\ m.kind \in {"line", "cmd"} => m.cmd \in AnyCommand
      /\ UNCHANGED <<stage, image>>
      /\ InOrder(replica[s]) /\ now \in Int
  BY <1>1, <1>2, Applied, CommandIsAny DEF Inv, Typed, LinksTyped, ThreadsTyped
<1>4. PICK e : e = replica[s].store[k]
  OBVIOUS
<1>5. PICK x : x = replica'[s].store[k]
  OBVIOUS
<1>6. ASSUME On(m, k), Replaces(m.cmd) PROVE x = Left(m.cmd)
  <2>1. replica'[s] = Exec(replica[s], m.cmd, now) /\ m.cmd \in AnyCommand /\ m.cmd.key = k
    BY <1>3, <1>6 DEF On
  <2>2. m.cmd.op = "SET" => Deadline(m.cmd.ttl, now) = NoExpiry
    BY <1>6 DEF Replaces, Deadline
  <2>3. /\ m.cmd.op = "SET" => x = [value |-> m.cmd.value, expiry |-> Deadline(m.cmd.ttl, now)]
        /\ m.cmd.op = "DEL" => x = Absent
    BY <1>3, <1>5, <2>1, ExecOwn
  <2> QED
    BY <1>6, <2>2, <2>3 DEF Replaces, Left
<1>7. ASSUME On(m, k), IsCounter(m.cmd), Lasting(e) PROVE x = Counted(e, Step(m.cmd))
  <2>1. replica'[s] = Exec(replica[s], m.cmd, now) /\ m.cmd \in AnyCommand /\ m.cmd.key = k
    BY <1>3, <1>7 DEF On
  <2> QED
    BY <1>3, <1>4, <1>5, <1>7, <2>1, ExecCounter DEF IsCounter
<1>8. ASSUME ~On(m, k), Lasting(e) PROVE x = e
  <2>1. CASE m.kind \notin {"line", "cmd"}
    BY <1>3, <1>4, <1>5, <2>1
  <2>2. CASE m.kind \in {"line", "cmd"}
    <3>1. replica'[s] = Exec(replica[s], m.cmd, now) /\ m.cmd \in AnyCommand /\ k # m.cmd.key
      BY <1>3, <1>8, <2>2 DEF On
    <3> QED
      BY <1>3, <1>4, <1>5, <1>8, <3>1, ExecOther
  <2> QED
    BY <2>1, <2>2
<1>9. CASE stage[s] = "synced" /\ Leads(link[s], replica[s].store[k], k, n)
  <2>1. Leads(l, e, k, n)
    BY <1>1, <1>4, <1>9
  <2>2. Leads(Tail(l), x, k, n)
    BY <1>1, <1>2, <1>6, <1>7, <1>8, <2>1, LeadsTaken
  <2> QED
    BY <1>1, <1>3, <1>5, <1>9, <2>2 DEF InStep
<1>10. CASE stage[s] = "read" /\ Holds(image[s], k, n) /\ (n = Absent => Without(s, k))
  <2>1. ASSUME Without(s, k) PROVE Without(s, k)'
    <3> DEFINE r == Tail(l)
    <3>1. Len(l) \in Nat \ {0} /\ Len(r) = Len(l) - 1 /\ \A i \in 1 .. Len(r) : r[i] = l[i + 1]
      <4>1. Len(l) \in Nat /\ Len(l) # 0
        BY <1>1
      <4>2. Len(r) = Len(l) - 1 /\ \A i \in 1 .. Len(r) : r[i] = l[i + 1]
        BY <1>1
      <4> QED
        BY <4>1, <4>2
    <3>2. link'[s] = r
      BY <1>1
    <3> HIDE DEF r
    <3>3. CASE e = Absent /\ \A i \in 1 .. Len(l) : ~On(l[i], k)
      <4>1. x = Absent
        BY <1>2, <1>8, <3>1, <3>3 DEF Lasting
      <4>2. \A i \in 1 .. Len(r) : ~On(r[i], k)
        BY <3>1, <3>3
      <4> QED
        BY <1>5, <3>2, <4>1, <4>2 DEF Without
    <3>4. ASSUME NEW i \in 1 .. Len(l), On(l[i], k), l[i].cmd.op = "DEL",
                 \A j \in i + 1 .. Len(l) : ~On(l[j], k)
          PROVE  Without(s, k)'
      <4>1. CASE i = 1
        <5>1. x = Absent
          BY <1>2, <1>6, <3>4, <4>1 DEF Replaces, Left
        <5>2. \A j \in 1 .. Len(r) : ~On(r[j], k)
          BY <3>1, <3>4, <4>1
        <5> QED
          BY <1>5, <3>2, <5>1, <5>2 DEF Without
      <4>2. CASE i # 1
        <5>1. i - 1 \in 1 .. Len(r) /\ (i - 1) + 1 = i
          BY <3>1, <4>2
        <5>2. r[i - 1] = l[i]
          BY <3>1, <5>1
        <5>3. \A j \in (i - 1) + 1 .. Len(r) : ~On(r[j], k)
          BY <3>1, <3>4, <5>1
        <5> QED
          BY <3>2, <3>4, <5>1, <5>2, <5>3 DEF Without
      <4> QED
        BY <4>1, <4>2
    <3> QED
      BY <1>1, <1>4, <2>1, <3>3, <3>4 DEF Without
  <2> QED
    BY <1>3, <1>10, <2>1 DEF InStep
<1> QED
  BY <1>9, <1>10 DEF InStep
-----------------------------------------------------------------------------
(***************************************************************************)
(* Every step keeps the slaves in step.                                    *)
(***************************************************************************)
LEMMA InitFollowing == Init => Following
<1> SUFFICES ASSUME Init PROVE Following
  OBVIOUS
<1>1. /\ at = [h \in Handlers |-> "idle"] /\ saver.pc = "truncate"
      /\ stable = {} /\ filed = {} /\ good = [s \in Sockets |-> {}]
  BY DEF Init, MasterInit, AllIdle, NotSaving
<1> QED
  BY <1>1 DEF Following, GoodKept, BaseKept, RanAlone, SnapshotKept

\* A step of a slave's connection.
LEMMA LinkStep ==
  ASSUME Inv, Following, UNCHANGED masterVars, UNCHANGED <<stable, filed, clash>>,
         \A r \in Sockets : \A k \in good'[r] :
           \/ k \in good[r] /\ \A n : InStep(r, k, n) => InStep(r, k, n)'
           \/ ~Pending(k) /\ InStep(r, k, kv.store[k])',
         \A h \in Handlers : \A r \in based'[h] :
           r \in based[h] /\ \A k \in Keys : \A n : InStep(r, k, n) => InStep(r, k, n)'
  PROVE  Following'
<1>1. UNCHANGED <<kv, now, at, cmd, rdb, saver>>
  BY DEF masterVars
<1>2. \A k : Pending(k)' <=> Pending(k)
  BY <1>1 DEF Pending
<1>3. GoodKept'
  <2>1. ASSUME NEW r \in Sockets, NEW k \in good'[r]
        PROVE  ~Pending(k)' /\ InStep(r, k, kv.store[k])'
    <3>1. CASE ~Pending(k) /\ InStep(r, k, kv.store[k])'
      BY <1>2, <3>1
    <3>2. CASE k \in good[r] /\ \A n : InStep(r, k, n) => InStep(r, k, n)'
      <4>1. ~Pending(k) /\ InStep(r, k, kv.store[k])
        BY <3>2 DEF Following, GoodKept
      <4>2. PICK n : n = kv.store[k]
        OBVIOUS
      <4>3. InStep(r, k, n)'
        BY <3>2, <4>1, <4>2
      <4> QED
        BY <1>1, <1>2, <4>1, <4>2, <4>3
    <3> QED
      BY <3>1, <3>2
  <2> QED
    BY <2>1 DEF GoodKept
<1>4. BaseKept'
  <2>1. ASSUME NEW h \in Handlers, at[h] # "idle", IsCounter(cmd[h]), cmd[h].key \notin clash,
               NEW r \in based'[h], NEW k, k = cmd[h].key
        PROVE  /\ Lasting(kv.store[k])
               /\ \E n : InStep(r, k, n)' /\ kv.store[k] = Counted(n, Step(cmd[h]))
    <3>1. k \in Keys
      BY <2>1 DEF Inv, Typed, ThreadsTyped, Command
    <3>2. Lasting(kv.store[k]) /\ \E n : InStep(r, k, n) /\ kv.store[k] = Counted(n, Step(cmd[h]))
      BY <2>1 DEF Following, BaseKept
    <3> QED
      BY <2>1, <3>1, <3>2
  <2>2. ASSUME NEW h \in Handlers, at'[h] # "idle", IsCounter(cmd'[h]), cmd'[h].key \notin clash',
               NEW r \in based'[h]
        PROVE  /\ Lasting(kv.store[cmd[h].key])'
               /\ (\E n : InStep(r, cmd[h].key, n) /\ kv.store[cmd[h].key] = Counted(n, Step(cmd[h])))'
    <3>1. PICK k : k = cmd[h].key
      OBVIOUS
    <3>2. /\ Lasting(kv.store[k])
          /\ \E n : InStep(r, k, n)' /\ kv.store[k] = Counted(n, Step(cmd[h]))
      BY <1>1, <2>1, <2>2, <3>1
    <3> QED
      BY <1>1, <3>1, <3>2
  <2> QED
    BY <2>2 DEF BaseKept
<1>5. RanAlone'
  BY <1>1 DEF Following, RanAlone
<1>6. SnapshotKept'
  <2>1. SnapshotKept
    BY DEF Following
  <2>2. \A k, n : Holds(rdb, k, n) => Holds(rdb', k, n)
    BY <1>1
  <2> QED
    BY <1>1, <2>1, <2>2 DEF SnapshotKept
<1> QED
  BY <1>3, <1>4, <1>5, <1>6 DEF Following

\* Only a slave whose snapshot has been read is in step.
LEMMA NotYet ==
  ASSUME Inv, Following, NEW s \in Sockets, stage[s] \notin {"read", "synced"}
  PROVE  /\ good[s] = {}
         /\ \A k, n : ~InStep(s, k, n)
<1>1. \A k, n : ~InStep(s, k, n)
  BY DEF InStep
<1>2. \A k \in good[s] : FALSE
  BY <1>1 DEF Following, GoodKept
<1> QED
  BY <1>1, <1>2

LEMMA ConnectFollowing ==
  ASSUME Inv, Following, NEW s \in Sockets, Connect(s) \/ Register(s)
  PROVE  Following'
<1>1. /\ stage[s] \in {"closed", "accepted"} /\ stage'[s] \in {"accepted", "registered"}
      /\ \A r \in Sockets : r # s => stage'[r] = stage[r]
      /\ UNCHANGED <<image, link, replica>>
      /\ UNCHANGED masterVars /\ UNCHANGED history
  BY DEF Connect, Register, Inv, Typed, LinksTyped
<1>2. ASSUME NEW r \in Sockets, NEW k, NEW n, InStep(r, k, n) PROVE InStep(r, k, n)'
  <2>1. r # s
    BY <1>1, <1>2, NotYet
  <2> QED
    BY <1>1, <1>2, <2>1, InStepSame
<1>3. UNCHANGED <<stable, filed, clash, based, good>>
  BY <1>1 DEF history
<1>4. \A h \in Handlers : based[h] \subseteq Sockets
  BY DEF Inv, Typed, HistoryTyped
<1> QED
  BY <1>1, <1>2, <1>3, <1>4, LinkStep

\* Nothing is promised of a slave whose snapshot has not been read to its end,
\* and a file that was emptied while it was read promises nothing.
LEMMA ReadPartFollowing ==
  ASSUME Inv, Following, NEW s \in Sockets, ReadPart(s) \/ ReadCut(s)
  PROVE  Following'
<1>1. /\ stage[s] \in {"registered", "cut"}
      /\ \A r \in Sockets : r # s => stage'[r] = stage[r] /\ image'[r] = image[r]
      /\ UNCHANGED <<link, replica>>
      /\ UNCHANGED masterVars /\ UNCHANGED history
  BY DEF ReadPart, ReadCut, Inv, Typed, LinksTyped
<1>2. ASSUME NEW r \in Sockets, NEW k, NEW n, InStep(r, k, n) PROVE InStep(r, k, n)'
  <2>1. r # s
    BY <1>1, <1>2, NotYet
  <2> QED
    BY <1>1, <1>2, <2>1, InStepSame
<1>3. UNCHANGED <<stable, filed, clash, based, good>>
  BY <1>1 DEF history
<1>4. \A h \in Handlers : based[h] \subseteq Sockets
  BY DEF Inv, Typed, HistoryTyped
<1> QED
  BY <1>1, <1>2, <1>3, <1>4, LinkStep

LEMMA ReadSnapshotFollowing ==
  ASSUME Inv, Following, NEW s \in Sockets, ReadSnapshot(s)
  PROVE  Following'
<1>1. /\ stage[s] = "registered" /\ stage'[s] = "read" /\ image'[s] = rdb
      /\ \A r \in Sockets : r # s => stage'[r] = stage[r] /\ image'[r] = image[r]
      /\ UNCHANGED <<link, replica, stable, filed, clash, based>>
      /\ UNCHANGED masterVars
  BY DEF ReadSnapshot, Inv, Typed, LinksTyped
<1>2. ASSUME NEW r \in Sockets, NEW k, NEW n, InStep(r, k, n) PROVE InStep(r, k, n)'
  <2>1. r # s
    BY <1>1, <1>2, NotYet
  <2> QED
    BY <1>1, <1>2, <2>1, InStepSame
<1>3. \A r \in Sockets : r # s => good'[r] = good[r]
  BY DEF ReadSnapshot, Inv, Typed, HistoryTyped
<1>4. ASSUME NEW k \in good'[s] PROVE ~Pending(k) /\ InStep(s, k, kv.store[k])'
  <2>1. k \in filed /\ ~Pending(k) /\ (kv.store[k] # Absent \/ Without(s, k))
    BY <1>4 DEF ReadSnapshot, Inv, Typed, HistoryTyped
  <2>2. PICK n : n = kv.store[k]
    OBVIOUS
  <2>3. Holds(rdb, k, n)
    BY <2>1, <2>2 DEF Following, SnapshotKept
  <2>4. n = Absent => Without(s, k)'
    BY <1>1, <2>1, <2>2 DEF Without
  <2>5. InStep(s, k, n)'
    BY <1>1, <2>3, <2>4 DEF InStep
  <2>6. n = kv'.store[k]
    BY <1>1, <2>2 DEF masterVars
  <2> QED
    BY <2>1, <2>5, <2>6
<1>5. \A h \in Handlers : based[h] \subseteq Sockets
  BY DEF Inv, Typed, HistoryTyped
<1> QED
  BY <1>1, <1>2, <1>3, <1>4, <1>5, LinkStep

LEMMA SendSnapshotFollowing ==
  ASSUME Inv, Following, NEW s \in Sockets, SendSnapshot(s)
  PROVE  Following'
<1>1. /\ stage[s] = "read" /\ stage'[s] = "synced" /\ link'[s] = link[s] \o Message(image[s])
      /\ \A r \in Sockets :
           r # s => stage'[r] = stage[r] /\ image'[r] = image[r] /\ link'[r] = link[r]
      /\ UNCHANGED <<replica, stable, filed, clash, based, good>>
      /\ UNCHANGED masterVars
  BY DEF SendSnapshot, Inv, Typed, LinksTyped
<1>2. ASSUME NEW r \in Sockets, NEW k, NEW n, InStep(r, k, n) PROVE InStep(r, k, n)'
  <2>1. CASE r # s
    BY <1>1, <1>2, <2>1, InStepSame
  <2>2. CASE r = s
    <3>1. link[s] \in Seq(Sent) /\ image[s] \in Seq(Line)
      BY DEF Inv, Typed, LinksTyped
    <3>2. Holds(image[s], k, n) /\ (n = Absent => Without(s, k))
      BY <1>1, <1>2, <2>2 DEF InStep
    <3>3. Leads(link[s] \o Message(image[s]), replica[s].store[k], k, n)
      BY <3>1, <3>2, LeadsSnapshot
    <3>4. Leads(link'[s], replica'[s].store[k], k, n)
      BY <1>1, <3>3
    <3> QED
      BY <1>1, <2>2, <3>4 DEF InStep
  <2> QED
    BY <2>1, <2>2
<1>3. \A h \in Handlers : based[h] \subseteq Sockets
  BY DEF Inv, Typed, HistoryTyped
<1> QED
  BY <1>1, <1>2, <1>3, LinkStep

LEMMA ApplyFollowing ==
  ASSUME RoomForAll, Inv, Following, NEW s \in Sockets, Apply(s)
  PROVE  Following'
<1>1. /\ \A r \in Sockets : r # s => link'[r] = link[r] /\ replica'[r] = replica[r]
      /\ UNCHANGED <<stage, image>> /\ UNCHANGED masterVars /\ UNCHANGED history
  BY Applied DEF Inv, Typed, LinksTyped
<1>2. ASSUME NEW r \in Sockets, NEW k \in Keys, NEW n, InStep(r, k, n) PROVE InStep(r, k, n)'
  <2>1. CASE r # s
    BY <1>1, <1>2, <2>1, InStepSame
  <2>2. CASE r = s
    BY <1>2, <2>2, InStepTaken
  <2> QED
    BY <2>1, <2>2
<1>3. UNCHANGED <<stable, filed, clash, based, good>>
  BY <1>1 DEF history
<1>4. /\ \A h \in Handlers : based[h] \subseteq Sockets
      /\ \A r \in Sockets : good[r] \subseteq Keys
  BY DEF Inv, Typed, HistoryTyped
<1> QED
  BY <1>1, <1>2, <1>3, <1>4, LinkStep

LEMMA DisconnectFollowing ==
  ASSUME Inv, Following, NEW s \in Sockets, Disconnect(s)
  PROVE  Following'
<1>1. /\ \A r \in Sockets :
           r # s => /\ stage'[r] = stage[r] /\ image'[r] = image[r] /\ link'[r] = link[r]
                    /\ replica'[r] = replica[r] /\ good'[r] = good[r]
      /\ good'[s] = {} /\ \A h \in Handlers : based'[h] = based[h] \ {s}
      /\ UNCHANGED <<stable, filed, clash>>
      /\ UNCHANGED masterVars
  BY DEF Disconnect, Inv, Typed, LinksTyped, HistoryTyped
<1>2. ASSUME NEW r \in Sockets, r # s, NEW k, NEW n, InStep(r, k, n) PROVE InStep(r, k, n)'
  BY <1>1, <1>2, InStepSame
<1>3. \A h \in Handlers : based[h] \subseteq Sockets
  BY DEF Inv, Typed, HistoryTyped
<1>4. \A r \in Sockets : \A k \in good'[r] : k \in good[r] /\ r # s
  BY <1>1
<1>5. \A h \in Handlers : \A r \in based'[h] : r \in based[h] /\ r # s /\ r \in Sockets
  BY <1>1, <1>3
<1> QED
  BY <1>1, <1>2, <1>4, <1>5, LinkStep

LEMMA LinksKeep ==
  ASSUME UNCHANGED links
  PROVE  \A r \in Sockets : \A k, n : InStep(r, k, n) => InStep(r, k, n)'
BY InStepSame DEF links

\* A step that takes no entry that lasts, and neither begins nor ends a command.
LEMMA QuietStep ==
  ASSUME Inv, Following, UNCHANGED <<cmd, clash, based, good>>,
         \A r \in Sockets : \A k, n : InStep(r, k, n) => InStep(r, k, n)',
         \A h \in Handlers : at'[h] # "idle" <=> at[h] # "idle",
         \A x \in Keys : Lasting(kv.store[x]) => kv'.store[x] = kv.store[x]
  PROVE  GoodKept' /\ BaseKept' /\ RanAlone'
<1>1. \A r \in Sockets : \A k, n : InStep(r, k, n) => InStep(r, k, n)'
  OBVIOUS
<1>2. \A k : Pending(k)' <=> Pending(k)
  BY DEF Pending
<1>3. \A h \in Handlers : at[h] # "idle" => cmd[h].key \in Keys
  BY DEF Inv, Typed, ThreadsTyped, Command
<1>4. GoodKept'
  <2>1. ASSUME NEW r \in Sockets, NEW k \in good[r]
        PROVE  ~Pending(k)' /\ InStep(r, k, kv.store[k])'
    <3>1. PICK n : n = kv.store[k]
      OBVIOUS
    <3>2. ~Pending(k) /\ InStep(r, k, n) /\ k \in Keys
      BY <2>1, <3>1 DEF Following, GoodKept, Inv, Typed, HistoryTyped
    <3>3. Lasting(n)
      BY <3>2, InStepLasting DEF Inv, Typed
    <3>4. kv'.store[k] = n
      BY <3>1, <3>2, <3>3
    <3> QED
      BY <1>1, <1>2, <3>2, <3>4
  <2> QED
    BY <2>1 DEF GoodKept
<1>5. BaseKept'
  <2>1. ASSUME NEW h \in Handlers, at[h] # "idle", IsCounter(cmd[h]), cmd[h].key \notin clash,
               NEW r \in based[h]
        PROVE  /\ Lasting(kv.store[cmd[h].key])'
               /\ (\E n : InStep(r, cmd[h].key, n) /\ kv.store[cmd[h].key] = Counted(n, Step(cmd[h])))'
    <3>1. PICK k \in Keys : k = cmd[h].key
      BY <1>3, <2>1
    <3>2. PICK n : InStep(r, k, n) /\ kv.store[k] = Counted(n, Step(cmd[h]))
      BY <2>1, <3>1 DEF Following, BaseKept
    <3>3. Lasting(kv.store[k]) /\ r \in Sockets
      BY <2>1, <3>1 DEF Following, BaseKept, Inv, Typed, HistoryTyped
    <3>4. kv'.store[k] = kv.store[k] /\ InStep(r, k, n)'
      BY <1>1, <3>2, <3>3
    <3> QED
      BY <3>1, <3>2, <3>3, <3>4
  <2> QED
    BY <2>1 DEF BaseKept
<1>6. RanAlone'
  <2>1. ASSUME NEW h \in Handlers, at[h] # "idle", cmd[h].key \notin clash
        PROVE  /\ \A g \in Handlers : at[g] # "idle" /\ cmd[g].key = cmd[h].key => g = h
               /\ Replaces(cmd[h]) => kv'.store[cmd[h].key] = Left(cmd[h])
    <3>1. Lasting(Left(cmd[h]))
      BY DEF Left, Lasting
    <3> QED
      BY <1>3, <2>1, <3>1 DEF Following, RanAlone
  <2> QED
    BY <2>1 DEF RanAlone
<1> QED
  BY <1>4, <1>5, <1>6

LEMMA SnapshotStays ==
  ASSUME Inv, SnapshotKept, UNCHANGED <<saver, rdb>>,
         stable' \subseteq stable, filed' \subseteq filed,
         \A x \in stable' \cup filed' : Lasting(kv.store[x]) => kv'.store[x] = kv.store[x]
  PROVE  SnapshotKept'
<1>1. \A k, n : Holds(rdb, k, n) => Holds(rdb', k, n)
  OBVIOUS
<1>2. \A k \in stable' : /\ Lasting(kv.store[k]) /\ saver.copy[k] = kv.store[k]
                         /\ kv'.store[k] = kv.store[k]
  BY DEF SnapshotKept
<1>3. \A k \in filed' : /\ Lasting(kv.store[k]) /\ Holds(rdb, k, kv.store[k])
                        /\ kv'.store[k] = kv.store[k]
  BY DEF SnapshotKept
<1>4. \A k \in filed' : Holds(rdb', k, kv'.store[k])
  BY <1>1, <1>3
<1>5. saver'.pc = "write" =>
       /\ filed' = {}
       /\ \A i \in 1 .. Len(rdb') : /\ rdb'[i].key \in SavedKeys(saver'.copy, saver'.clock)
                                    /\ rdb'[i] = SavedLine(saver'.copy, rdb'[i].key, saver'.clock)
       /\ \A i, j \in 1 .. Len(rdb') : rdb'[i].key = rdb'[j].key => i = j
  BY DEF SnapshotKept
<1>6. saver'.pc \notin {"open", "write"} => stable' = {}
  BY DEF SnapshotKept
<1> QED
  BY <1>2, <1>3, <1>4, <1>5, <1>6 DEF SnapshotKept

LEMMA LogFollowing ==
  ASSUME Inv, Following, NEW h \in Handlers, LogCommand(h)
  PROVE  Following'
<1>1. /\ at[h] = "log" /\ at' = [at EXCEPT ![h] = "forward"]
      /\ UNCHANGED <<kv, cmd, rdb, saver>> /\ UNCHANGED links /\ UNCHANGED history
  BY DEF LogCommand, Log
<1>2. \A g \in Handlers : at'[g] # "idle" <=> at[g] # "idle"
  BY <1>1 DEF Inv, Typed, ThreadsTyped
<1>3. UNCHANGED <<stable, filed, clash, based, good>>
  BY <1>1 DEF history
<1>4. GoodKept' /\ BaseKept' /\ RanAlone'
  BY <1>1, <1>2, <1>3, LinksKeep, QuietStep
<1>5. SnapshotKept'
  BY <1>1, <1>3, SnapshotStays DEF Following
<1> QED
  BY <1>4, <1>5 DEF Following

LEMMA HousekeepingFollowing ==
  ASSUME Inv, Following, Housekeeping
  PROVE  Following'
<1>1. /\ UNCHANGED <<at, cmd, rdb, saver>> /\ UNCHANGED links /\ UNCHANGED history
      /\ kv' = CleanOp(kv, now) \/ kv' = kv
  BY DEF Housekeeping, Clean, Tick, Files
<1>2. \A x \in Keys : Lasting(kv.store[x]) => kv'.store[x] = kv.store[x]
  BY <1>1, CleanKeeps DEF Inv, Typed, StoreTyped
<1>3. UNCHANGED <<stable, filed, clash, based, good>> /\ stable \subseteq Keys /\ filed \subseteq Keys
  BY <1>1 DEF history, Inv, Typed, HistoryTyped
<1>4. GoodKept' /\ BaseKept' /\ RanAlone'
  BY <1>1, <1>2, <1>3, LinksKeep, QuietStep
<1>5. SnapshotKept'
  BY <1>1, <1>2, <1>3, SnapshotStays DEF Following
<1> QED
  BY <1>4, <1>5 DEF Following

\* The snapshot thread touches neither the store nor the handlers.
LEMMA SaverQuiet ==
  ASSUME Inv, Following, SaveCopy \/ SaveOpen \/ SaveClose \/ SaveElse
  PROVE  /\ GoodKept' /\ BaseKept' /\ RanAlone' /\ SnapshotKept
         /\ kv' = kv /\ kv.store \in [Keys -> Node \cup {Absent}]
         /\ rdb \in Seq(Line) /\ stable \subseteq Keys
<1>1. UNCHANGED <<kv, at, cmd>> /\ UNCHANGED <<clash, based, good>>
  BY DEF SaveCopy, SaveOpen, SaveClose, SaveElse, CopyStore, OpenFile, CloseFile, Wake, Truncate,
         ReadClock, WriteLine, history
<1>2. \A r \in Sockets : \A k, n : InStep(r, k, n) => InStep(r, k, n)'
  <2>1. CASE UNCHANGED links
    BY <2>1, LinksKeep
  <2>2. CASE SaveOpen
    <3>1. /\ UNCHANGED <<image, link, replica>>
          /\ \A r \in Sockets : stage[r] # "registered" => stage'[r] = stage[r]
      BY <2>2 DEF SaveOpen
    <3>2. ASSUME NEW r \in Sockets, NEW k, NEW n, InStep(r, k, n) PROVE InStep(r, k, n)'
      <4>1. stage[r] # "registered"
        BY <3>2, NotYet
      <4> QED
        BY <3>1, <3>2, <4>1, InStepSame
    <3> QED
      BY <3>2
  <2> QED
    BY <2>1, <2>2 DEF SaveCopy, SaveClose, SaveElse
<1>3. GoodKept' /\ BaseKept' /\ RanAlone'
  BY <1>1, <1>2, QuietStep
<1> QED
  BY <1>1, <1>3 DEF Following, Inv, Typed, StoreTyped, InOrder, StoreState, FilesTyped, HistoryTyped

LEMMA SaveCopyFollowing ==
  ASSUME Inv, Following, SaveCopy
  PROVE  Following'
<1>1. /\ GoodKept' /\ BaseKept' /\ RanAlone' /\ SnapshotKept /\ kv' = kv
  BY SaverQuiet
<1>2. /\ saver'.pc = "open" /\ saver'.copy = kv.store
      /\ stable' = {k \in Keys : Plain(k)} /\ UNCHANGED <<rdb, filed>>
  BY DEF SaveCopy, CopyStore, Files, Inv, Typed, SaverTyped
<1>3. \A k \in stable' : Lasting(kv.store[k])
  BY <1>2 DEF Plain, Lasting
<1>4. SnapshotKept'
  BY <1>1, <1>2, <1>3 DEF SnapshotKept
<1> QED
  BY <1>1, <1>4 DEF Following

LEMMA SaveOpenFollowing ==
  ASSUME Inv, Following, SaveOpen
  PROVE  Following'
<1>1. /\ GoodKept' /\ BaseKept' /\ RanAlone' /\ SnapshotKept /\ kv' = kv
  BY SaverQuiet
<1>2. /\ saver'.pc = "write" /\ saver'.copy = saver.copy /\ saver.pc = "open"
      /\ rdb' = <<>> /\ filed' = {} /\ stable' = stable
  BY DEF SaveOpen, OpenFile, Inv, Typed, SaverTyped
<1>3. Len(rdb') = 0
  BY <1>2
<1>4. SnapshotKept'
  BY <1>1, <1>2, <1>3 DEF SnapshotKept
<1> QED
  BY <1>1, <1>4 DEF Following

\* A key that was stable is in the snapshot as it is in the store.
LEMMA SaveCloseFollowing ==
  ASSUME Inv, Following, SaveClose
  PROVE  Following'
<1>1. /\ GoodKept' /\ BaseKept' /\ RanAlone' /\ SnapshotKept /\ kv' = kv
      /\ kv.store \in [Keys -> Node \cup {Absent}] /\ rdb \in Seq(Line) /\ stable \subseteq Keys
  BY SaverQuiet
<1>2. /\ saver'.pc = "asleep" /\ saver.pc = "write"
      /\ \A x \in SavedKeys(saver.copy, saver.clock) : \E i \in 1 .. Len(rdb) : rdb[i].key = x
      /\ rdb' = rdb /\ filed' = stable /\ stable' = {}
  BY DEF SaveClose, CloseFile, Unwritten, NotSaving, Files
<1>3. /\ \A i \in 1 .. Len(rdb) : /\ rdb[i].key \in SavedKeys(saver.copy, saver.clock)
                                  /\ rdb[i] = SavedLine(saver.copy, rdb[i].key, saver.clock)
      /\ \A i, j \in 1 .. Len(rdb) : rdb[i].key = rdb[j].key => i = j
  BY <1>1, <1>2 DEF SnapshotKept
<1>4. ASSUME NEW k \in stable
      PROVE  Lasting(kv.store[k]) /\ Holds(rdb, k, kv.store[k])
  <2>1. Lasting(kv.store[k]) /\ saver.copy[k] = kv.store[k] /\ k \in Keys
    BY <1>1, <1>4 DEF SnapshotKept
  <2>2. CASE kv.store[k] = Absent
    <3>1. k \notin SavedKeys(saver.copy, saver.clock)
      BY <2>1, <2>2 DEF SavedKeys
    <3>2. \A i \in 1 .. Len(rdb) : rdb[i].key # k
      BY <1>3, <3>1
    <3> QED
      BY <2>1, <2>2, <3>2 DEF Holds
  <2>3. CASE kv.store[k] # Absent
    <3>1. kv.store[k] \in Node /\ kv.store[k].expiry = NoExpiry
      BY <1>1, <2>1, <2>3 DEF Lasting
    <3>2. k \in SavedKeys(saver.copy, saver.clock)
      BY <2>1, <2>3, <3>1 DEF SavedKeys
    <3>3. PICK i \in 1 .. Len(rdb) : rdb[i].key = k
      BY <1>2, <3>2
    <3>4. rdb[i] = SavedLine(saver.copy, k, saver.clock)
      BY <1>3, <3>3
    <3>5. rdb[i].ttl = NoTtl /\ rdb[i].value = kv.store[k].value
      BY <2>1, <3>1, <3>4 DEF SavedLine
    <3>6. kv.store[k] = [value |-> rdb[i].value, expiry |-> NoExpiry]
      BY <3>1, <3>5 DEF Node
    <3>7. \A j \in i + 1 .. Len(rdb) : rdb[j].key # k
      <4>1. Len(rdb) \in Nat
        BY <1>1
      <4>2. \A j \in i + 1 .. Len(rdb) : j \in 1 .. Len(rdb) /\ j # i
        BY <4>1
      <4> QED
        BY <1>3, <3>3, <4>2
    <3> QED
      BY <2>1, <3>3, <3>5, <3>6, <3>7 DEF Holds
  <2> QED
    BY <2>2, <2>3
<1>5. SnapshotKept'
  <2>1. \A k \in filed' : Lasting(kv'.store[k]) /\ Holds(rdb', k, kv'.store[k])
    BY <1>1, <1>2, <1>4
  <2> QED
    BY <1>2, <2>1 DEF SnapshotKept
<1> QED
  BY <1>1, <1>5 DEF Following

LEMMA SaveElseFollowing ==
  ASSUME Inv, Following, SaveElse
  PROVE  Following'
<1>1. /\ GoodKept' /\ BaseKept' /\ RanAlone' /\ SnapshotKept /\ kv' = kv
      /\ rdb \in Seq(Line)
  BY SaverQuiet
<1>2. UNCHANGED <<stable, filed>>
  BY DEF SaveElse, history
<1>3. CASE Wake \/ Truncate \/ ReadClock
  <2>1. /\ saver.pc \notin {"open", "write"} /\ saver'.pc \notin {"open", "write"} /\ rdb' = rdb
    <3>1. CASE Wake
      BY <3>1 DEF Wake, NotSaving, Files
    <3>2. CASE Truncate \/ ReadClock
      BY <3>2 DEF Truncate, ReadClock, Files, Inv, Typed, SaverTyped
    <3> QED
      BY <1>3, <3>1, <3>2
  <2>2. stable = {}
    BY <1>1, <2>1 DEF SnapshotKept
  <2>3. \A k, n : Holds(rdb, k, n) => Holds(rdb', k, n)
    BY <2>1
  <2>4. SnapshotKept'
    BY <1>1, <1>2, <2>1, <2>2, <2>3 DEF SnapshotKept
  <2> QED
    BY <1>1, <2>4 DEF Following
<1>4. ASSUME NEW k \in Keys, WriteLine(k) PROVE Following'
  <2> DEFINE line == SavedLine(saver.copy, k, saver.clock)
  <2>1. /\ saver.pc = "write" /\ k \in SavedKeys(saver.copy, saver.clock)
        /\ \A i \in 1 .. Len(rdb) : rdb[i].key # k
        /\ rdb' = Append(rdb, line) /\ saver' = saver
    BY <1>4 DEF WriteLine, Unwritten
  <2>2. line.key = k
    BY DEF SavedLine
  <2> HIDE DEF line
  <2>3. \A i \in 1 .. Len(rdb') : \/ i \in 1 .. Len(rdb) /\ rdb'[i] = rdb[i]
                                  \/ i = Len(rdb) + 1 /\ rdb'[i] = line
    BY <1>1, <2>1
  <2>4. /\ filed = {}
        /\ \A i \in 1 .. Len(rdb) : /\ rdb[i].key \in SavedKeys(saver.copy, saver.clock)
                                    /\ rdb[i] = SavedLine(saver.copy, rdb[i].key, saver.clock)
        /\ \A i, j \in 1 .. Len(rdb) : rdb[i].key = rdb[j].key => i = j
        /\ \A x \in stable : Lasting(kv.store[x]) /\ saver.copy[x] = kv.store[x]
    BY <1>1, <2>1 DEF SnapshotKept
  <2>5. \A i \in 1 .. Len(rdb') : /\ rdb'[i].key \in SavedKeys(saver.copy, saver.clock)
                                  /\ rdb'[i] = SavedLine(saver.copy, rdb'[i].key, saver.clock)
    <3>1. line = SavedLine(saver.copy, line.key, saver.clock)
      BY <2>2 DEF line
    <3> QED
      BY <2>1, <2>2, <2>3, <2>4, <3>1
  <2>6. \A i, j \in 1 .. Len(rdb') : rdb'[i].key = rdb'[j].key => i = j
    BY <2>1, <2>2, <2>3, <2>4
  <2>7. SnapshotKept'
    BY <1>1, <1>2, <2>1, <2>4, <2>5, <2>6 DEF SnapshotKept
  <2> QED
    BY <1>1, <2>7 DEF Following
<1> QED
  BY <1>3, <1>4 DEF SaveElse

\* A write on one key leaves the slaves in step on the others.
LEMMA ExecuteFollowing ==
  ASSUME RoomForAll, Inv, Following, NEW h \in Handlers, NEW c \in Inputs, ExecuteCommand(h, c)
  PROVE  Following'
<1>1. /\ at[h] = "idle" /\ kv' = Exec(kv, c, now)
      /\ UNCHANGED <<rdb, saver>> /\ UNCHANGED links
      /\ c \in Command /\ c \in AnyCommand /\ c.key \in Keys
      /\ InOrder(kv) /\ now \in Int
  BY InputsAssumption, CommandIsAny DEF ExecuteCommand, Execute, Files, Command, Inv, Typed,
     StoreTyped, ThreadsTyped
<1>2. \A r \in Sockets : \A k, n : InStep(r, k, n) => InStep(r, k, n)'
  BY <1>1, InStepSame DEF links
<1>3. CASE ~(c.op \in Writes /\ (Recorded(kv, c, now) \/ kv' # kv))
  <2>1. UNCHANGED <<stable, filed, clash, based, good>> /\ UNCHANGED <<at, cmd>>
    BY <1>3 DEF ExecuteCommand, Execute, Recorded
  <2>2. \A x \in Keys : Lasting(kv.store[x]) => kv'.store[x] = kv.store[x]
    <3>1. CASE c.op \in Writes
      BY <1>3, <3>1
    <3>2. CASE c.op \notin Writes
      <4>1. c.op \in Reads
        BY <1>1, <3>2 DEF Command
      <4> QED
        BY <1>1, <4>1, ExecRead
    <3> QED
      BY <3>1, <3>2
  <2>3. GoodKept' /\ BaseKept' /\ RanAlone'
    BY <1>2, <2>1, <2>2, QuietStep
  <2>4. SnapshotKept'
    BY <1>1, <2>1, <2>2, SnapshotStays DEF Following, Inv, Typed, HistoryTyped
  <2> QED
    BY <2>3, <2>4 DEF Following
<1>4. CASE c.op \in Writes /\ (Recorded(kv, c, now) \/ kv' # kv)
  <2>1. /\ stable' = stable \ {c.key} /\ filed' = filed \ {c.key}
        /\ good' = [s \in Sockets |-> good[s] \ {c.key}]
        /\ based' = [based EXCEPT ![h] = {s \in Sockets : c.key \in good[s]}]
        /\ clash' = IF OthersPending(h, c.key) THEN clash \cup {c.key} ELSE clash \ {c.key}
    BY <1>4 DEF ExecuteCommand, Changed
  <2>2. \A x \in Keys : x # c.key /\ Lasting(kv.store[x]) => kv'.store[x] = kv.store[x]
    BY <1>1, ExecOther
  <2>3. \A g \in Handlers : g # h => at'[g] = at[g] /\ cmd'[g] = cmd[g]
    BY DEF ExecuteCommand, Execute, Inv, Typed, ThreadsTyped
  <2>4. at'[h] # "idle" => cmd'[h] = c
    BY <1>1 DEF ExecuteCommand, Execute, Inv, Typed, ThreadsTyped
  <2>5. \A g \in Handlers : at[g] # "idle" => cmd[g].key \in Keys
    BY DEF Inv, Typed, ThreadsTyped, Command
  \* A command of another handler that ran alone is on another key.
  <2>6. ASSUME NEW g \in Handlers, g # h, at'[g] # "idle", cmd'[g].key \notin clash'
        PROVE  at[g] # "idle" /\ cmd[g].key # c.key /\ cmd[g].key \notin clash
    <3>1. at[g] # "idle" /\ cmd'[g] = cmd[g]
      BY <2>3, <2>6
    <3>2. cmd[g].key # c.key
      BY <2>1, <2>6, <3>1 DEF OthersPending
    <3> QED
      BY <2>1, <2>6, <3>1, <3>2
  <2>7. GoodKept'
    <3>1. ASSUME NEW r \in Sockets, NEW k \in good'[r]
          PROVE  ~Pending(k)' /\ InStep(r, k, kv.store[k])'
      <4>1. PICK n : n = kv.store[k]
        OBVIOUS
      <4>2. k \in good[r] /\ k # c.key
        BY <2>1, <3>1
      <4>3. ~Pending(k) /\ InStep(r, k, n) /\ k \in Keys
        BY <4>1, <4>2 DEF Following, GoodKept, Inv, Typed, HistoryTyped
      <4>4. Lasting(n)
        BY <4>3, InStepLasting DEF Inv, Typed
      <4>5. kv'.store[k] = n
        BY <2>2, <4>1, <4>2, <4>3, <4>4
      <4>6. ~Pending(k)'
        <5>1. ASSUME NEW g \in Handlers, at'[g] # "idle", cmd'[g].key = k PROVE FALSE
          <6>1. CASE g = h
            BY <2>4, <4>2, <5>1, <6>1
          <6>2. CASE g # h
            BY <2>3, <4>3, <5>1, <6>2 DEF Pending
          <6> QED
            BY <6>1, <6>2
        <5> QED
          BY <5>1 DEF Pending
      <4> QED
        BY <1>2, <4>3, <4>5, <4>6
    <3> QED
      BY <3>1 DEF GoodKept
  <2>8. BaseKept'
    <3>1. ASSUME NEW g \in Handlers, at'[g] # "idle", IsCounter(cmd'[g]), cmd'[g].key \notin clash',
                 NEW r \in based'[g], NEW k, k = cmd'[g].key
          PROVE  /\ Lasting(kv'.store[k])
                 /\ \E n : InStep(r, k, n)' /\ kv'.store[k] = Counted(n, Step(cmd'[g]))
      <4>1. CASE g # h
        <5>1. at[g] # "idle" /\ k # c.key /\ k \notin clash /\ cmd'[g] = cmd[g] /\ k = cmd[g].key
          BY <2>3, <2>6, <3>1, <4>1
        <5>2. r \in based[g] /\ r \in Sockets
          BY <2>1, <3>1, <4>1 DEF Inv, Typed, HistoryTyped
        <5>3. Lasting(kv.store[k]) /\ k \in Keys
          BY <2>5, <3>1, <5>1, <5>2 DEF Following, BaseKept
        <5>4. PICK n : InStep(r, k, n) /\ kv.store[k] = Counted(n, Step(cmd[g]))
          BY <3>1, <5>1, <5>2 DEF Following, BaseKept
        <5>5. kv'.store[k] = kv.store[k] /\ InStep(r, k, n)'
          BY <1>2, <2>2, <5>1, <5>2, <5>3, <5>4
        <5> QED
          BY <5>1, <5>3, <5>4, <5>5
      <4>2. CASE g = h
        <5>1. cmd'[h] = c /\ k = c.key /\ c.op \in {"INCR", "DECR"}
          BY <2>4, <3>1, <4>2 DEF IsCounter
        <5>2. r \in Sockets /\ k \in good[r]
          BY <2>1, <3>1, <4>2, <5>1 DEF Inv, Typed, HistoryTyped
        <5>3. PICK n : n = kv.store[k]
          OBVIOUS
        <5>4. InStep(r, k, n)
          BY <5>2, <5>3 DEF Following, GoodKept
        <5>5. Lasting(n)
          BY <5>2, <5>4, InStepLasting DEF Inv, Typed
        <5>6. kv'.store[k] = Counted(n, Step(c)) /\ Lasting(Counted(n, Step(c)))
          BY <1>1, <5>1, <5>3, <5>5, ExecCounter
        <5>7. InStep(r, k, n)'
          BY <1>2, <5>2, <5>4
        <5> QED
          BY <4>2, <5>1, <5>6, <5>7
      <4> QED
        BY <4>1, <4>2
    <3>2. ASSUME NEW g \in Handlers, at'[g] # "idle", IsCounter(cmd'[g]), cmd'[g].key \notin clash',
                 NEW r \in based'[g]
          PROVE  /\ Lasting(kv.store[cmd[g].key])'
                 /\ (\E n : InStep(r, cmd[g].key, n) /\ kv.store[cmd[g].key] = Counted(n, Step(cmd[g])))'
      <4>1. PICK k : k = cmd'[g].key
        OBVIOUS
      <4>2. /\ Lasting(kv'.store[k])
            /\ \E n : InStep(r, k, n)' /\ kv'.store[k] = Counted(n, Step(cmd'[g]))
        BY <3>1, <3>2, <4>1
      <4> QED
        BY <4>1, <4>2
    <3> QED
      BY <3>2 DEF BaseKept
  <2>9. RanAlone'
    <3>1. ASSUME NEW g \in Handlers, at'[g] # "idle", cmd'[g].key \notin clash'
          PROVE  /\ \A f \in Handlers : at'[f] # "idle" /\ cmd'[f].key = cmd'[g].key => f = g
                 /\ Replaces(cmd'[g]) => kv'.store[cmd'[g].key] = Left(cmd'[g])
      <4>1. CASE g # h
        <5>1. at[g] # "idle" /\ cmd[g].key # c.key /\ cmd[g].key \notin clash /\ cmd'[g] = cmd[g]
          BY <2>3, <2>6, <3>1, <4>1
        <5>2. /\ \A f \in Handlers : at[f] # "idle" /\ cmd[f].key = cmd[g].key => f = g
              /\ Replaces(cmd[g]) => kv.store[cmd[g].key] = Left(cmd[g])
          BY <5>1 DEF Following, RanAlone
        <5>3. \A f \in Handlers : at'[f] # "idle" /\ cmd'[f].key = cmd[g].key => f = g
          BY <2>3, <2>4, <5>1, <5>2
        <5>4. Lasting(Left(cmd[g])) /\ cmd[g].key \in Keys
          BY <2>5, <5>1 DEF Left, Lasting
        <5>5. Replaces(cmd[g]) => kv'.store[cmd[g].key] = Left(cmd[g])
          BY <2>2, <5>1, <5>2, <5>4
        <5> QED
          BY <5>1, <5>3, <5>5
      <4>2. CASE g = h
        <5>1. cmd'[h] = c /\ c.key \notin clash'
          BY <2>4, <3>1, <4>2
        <5>2. ~OthersPending(h, c.key)
          BY <2>1, <5>1
        <5>3. \A f \in Handlers : at'[f] # "idle" /\ cmd'[f].key = c.key => f = h
          BY <2>3, <5>2 DEF OthersPending
        <5>4. Replaces(c) => kv'.store[c.key] = Left(c)
          <6>1. /\ c.op = "SET" => kv'.store[c.key] = [value |-> c.value, expiry |-> Deadline(c.ttl, now)]
                /\ c.op = "DEL" => kv'.store[c.key] = Absent
            BY <1>1, ExecOwn
          <6>2. c.ttl = NoTtl => Deadline(c.ttl, now) = NoExpiry
            BY DEF Deadline
          <6> QED
            BY <6>1, <6>2 DEF Replaces, Left
        <5> QED
          BY <4>2, <5>1, <5>3, <5>4
      <4> QED
        BY <4>1, <4>2
    <3> QED
      BY <3>1 DEF RanAlone
  <2>10. SnapshotKept'
    <3>1. stable' \subseteq stable /\ filed' \subseteq filed
          /\ \A x \in stable' \cup filed' : x \in Keys /\ x # c.key
      BY <2>1 DEF Inv, Typed, HistoryTyped
    <3> QED
      BY <1>1, <2>2, <3>1, SnapshotStays DEF Following
  <2> QED
    BY <2>7, <2>8, <2>9, <2>10 DEF Following
<1> QED
  BY <1>3, <1>4

\* A command that ran alone brings the slaves it reaches into step.
LEMMA ForwardFollowing ==
  ASSUME Inv, Following, NEW h \in Handlers, Forward(h)
  PROVE  Following'
<1>1. PICK c \in Fed : c = cmd[h]
  BY Forwarded
<1>2. /\ at[h] = "forward" /\ at'[h] = "idle"
      /\ \A g \in Handlers : g # h => at'[g] = at[g] /\ cmd'[g] = cmd[g]
      /\ UNCHANGED <<kv, rdb, saver, stage, image, replica, stable, filed, clash>>
      /\ based' = [based EXCEPT ![h] = {}]
      /\ c.key \in Keys
  BY <1>1 DEF Forward, Answer, Files, Inv, Typed, ThreadsTyped, Fed
<1>3. \A s \in Sockets :
        /\ link'[s] = IF s \in Gone THEN link[s] ELSE link[s] \o Copies(Times(s), c)
        /\ Times(s) \in Nat
        /\ stage[s] \in {"registered", "cut", "read", "synced"} => Times(s) > 0
        /\ link[s] \in Seq(Sent)
  BY <1>1, Forwarded DEF Inv, Typed, LinksTyped
<1>4. \A s \in Sockets : \A i \in 1 .. Len(Copies(Times(s), c)) :
        Copies(Times(s), c)[i].kind = "cmd" /\ Copies(Times(s), c)[i].cmd = c
  <2>1. ASSUME NEW s \in Sockets
        PROVE  \A i \in 1 .. Len(Copies(Times(s), c)) : Copies(Times(s), c)[i] = Msg("cmd", c)
    BY <1>3, CopiesShape
  <2>2. Msg("cmd", c).kind = "cmd" /\ Msg("cmd", c).cmd = c
    BY DEF Msg
  <2> QED
    BY <2>1, <2>2
\* On another key nothing changes.
<1>5. ASSUME NEW s \in Sockets, NEW k, k # c.key, NEW n, InStep(s, k, n)
      PROVE  InStep(s, k, n)'
  <2>1. s \notin Gone
    BY <1>5 DEF InStep, Gone
  <2>2. PICK q \in Seq(Sent) : q = Copies(Times(s), c)
    BY <1>3, CopiesShape
  <2>3. \A i \in 1 .. Len(q) : ~On(q[i], k)
    BY <1>4, <1>5, <2>2 DEF On
  <2>4. link'[s] = link[s] \o q
    BY <1>3, <2>1, <2>2
  <2> QED
    BY <1>2, <1>5, <2>3, <2>4, InStepOther DEF Inv, Typed
<1>6. \A k : Pending(k)' => Pending(k)
  BY <1>2 DEF Pending
<1>7. Pending(c.key)
  BY <1>1, <1>2 DEF Pending
<1>8. GoodKept'
  <2>1. ASSUME NEW s \in Sockets, NEW k \in good[s]
        PROVE  ~Pending(k)' /\ InStep(s, k, kv.store[k])'
    <3>1. PICK n : n = kv.store[k]
      OBVIOUS
    <3>2. ~Pending(k) /\ InStep(s, k, n)
      BY <2>1, <3>1 DEF Following, GoodKept
    <3>3. InStep(s, k, n)'
      BY <1>5, <1>7, <3>2
    <3> QED
      BY <1>2, <1>6, <3>1, <3>2, <3>3
  <2>2. ASSUME NEW s \in Sockets, stage[s] = "synced", c.key \notin clash,
               \/ Replaces(c)
               \/ c.op \in {"INCR", "DECR"} /\ s \in based[h] /\ Times(s) = 1
        PROVE  ~Pending(c.key)' /\ InStep(s, c.key, kv.store[c.key])'
    <3>1. /\ \A g \in Handlers : at[g] # "idle" /\ cmd[g].key = c.key => g = h
          /\ Replaces(c) => kv.store[c.key] = Left(c)
      BY <1>1, <1>2, <2>2 DEF Following, RanAlone
    <3>2. ~Pending(c.key)'
      BY <1>2, <3>1 DEF Pending
    <3>3. PICK l \in Seq(Sent) : l = link[s]
      BY <1>3
    <3>4. PICK q \in Seq(Sent) : q = Copies(Times(s), c) /\ Len(q) = Times(s)
      BY <1>3, CopiesShape
    <3>5. /\ s \notin Gone /\ link'[s] = l \o q /\ Len(q) > 0
          /\ \A i \in 1 .. Len(q) : On(q[i], c.key) /\ q[i].cmd = c
      BY <1>3, <1>4, <2>2, <3>3, <3>4 DEF Gone, On
    <3>6. PICK e : e = replica[s].store[c.key]
      OBVIOUS
    <3>7. CASE Replaces(c)
      <4> DEFINE r == l \o q
      <4>1. /\ r \in Seq(Sent) /\ Len(r) = Len(l) + Len(q)
            /\ Len(l) \in Nat /\ Len(q) \in Nat
            /\ \A i \in 1 .. Len(q) : r[Len(l) + i] = q[i]
        BY Joined
      <4> HIDE DEF r
      <4>2. PICK p \in 1 .. Len(r) : p = Len(r)
        BY <3>5, <4>1
      <4>3. r[p] = q[Len(q)] /\ Len(q) \in 1 .. Len(q)
        BY <3>5, <4>1, <4>2
      <4>4. On(r[p], c.key) /\ r[p].cmd = c
        BY <3>5, <4>3
      <4>5. \A j \in p + 1 .. Len(r) : ~On(r[j], c.key)
        BY <4>1, <4>2
      <4>6. Leads(r, e, c.key, Left(r[p].cmd))
        BY <3>7, <4>1, <4>4, <4>5, LastReplaces
      <4>7. Leads(link'[s], replica'[s].store[c.key], c.key, kv'.store[c.key])
        BY <1>2, <3>1, <3>5, <3>6, <3>7, <4>4, <4>6 DEF r
      <4> QED
        BY <1>2, <2>2, <3>2, <4>7 DEF InStep
    <3>8. CASE c.op \in {"INCR", "DECR"} /\ s \in based[h] /\ Times(s) = 1
      <4>1. PICK n : /\ InStep(s, c.key, n) /\ Lasting(kv.store[c.key])
                     /\ kv.store[c.key] = Counted(n, Step(c))
        BY <1>1, <1>2, <2>2, <3>8 DEF Following, BaseKept, IsCounter
      <4>2. Leads(l, e, c.key, n)
        BY <2>2, <3>3, <3>6, <4>1 DEF InStep
      <4>3. Len(q) = 1 /\ On(q[1], c.key) /\ q[1].cmd = c
        BY <3>4, <3>5, <3>8
      <4>4. Leads(l \o q, e, c.key, Counted(n, Step(q[1].cmd)))
        BY <3>8, <4>1, <4>2, <4>3, LeadsCount DEF IsCounter
      <4>5. Leads(link'[s], replica'[s].store[c.key], c.key, kv'.store[c.key])
        BY <1>2, <3>5, <3>6, <4>1, <4>3, <4>4
      <4> QED
        BY <1>2, <2>2, <3>2, <4>5 DEF InStep
    <3> QED
      BY <2>2, <3>7, <3>8
  <2>3. ASSUME NEW s \in Sockets, NEW k \in good'[s]
        PROVE  \/ k \in good[s]
               \/ /\ k = c.key /\ stage[s] = "synced" /\ c.key \notin clash
                  /\ \/ Replaces(c)
                     \/ c.op \in {"INCR", "DECR"} /\ s \in based[h] /\ Times(s) = 1
    BY <1>1, <2>3 DEF Forward
  <2>4. ASSUME NEW s \in Sockets, NEW k \in good'[s]
        PROVE  ~Pending(k)' /\ InStep(s, k, kv.store[k])'
    <3>1. CASE k \in good[s]
      BY <2>1, <3>1
    <3>2. CASE k \notin good[s]
      <4>1. /\ k = c.key /\ stage[s] = "synced" /\ c.key \notin clash
            /\ \/ Replaces(c)
               \/ c.op \in {"INCR", "DECR"} /\ s \in based[h] /\ Times(s) = 1
        BY <2>3, <3>2
      <4> QED
        BY <2>2, <4>1
    <3> QED
      BY <3>1, <3>2
  <2> QED
    BY <2>4 DEF GoodKept
<1>9. BaseKept'
  <2>1. ASSUME NEW g \in Handlers, at'[g] # "idle", IsCounter(cmd'[g]), cmd'[g].key \notin clash',
               NEW r \in based'[g]
        PROVE  /\ Lasting(kv.store[cmd[g].key])'
               /\ (\E n : InStep(r, cmd[g].key, n) /\ kv.store[cmd[g].key] = Counted(n, Step(cmd[g])))'
    <3>1. /\ g # h /\ at[g] # "idle" /\ cmd'[g] = cmd[g] /\ r \in based[g] /\ r \in Sockets
          /\ cmd[g].key \notin clash /\ IsCounter(cmd[g])
      BY <1>2, <2>1 DEF Inv, Typed, HistoryTyped
    <3>2. PICK k : k = cmd[g].key
      OBVIOUS
    <3>3. k # c.key
      BY <1>1, <1>2, <3>1, <3>2 DEF Following, RanAlone
    <3>4. PICK n : InStep(r, k, n) /\ kv.store[k] = Counted(n, Step(cmd[g]))
      BY <3>1, <3>2 DEF Following, BaseKept
    <3>5. Lasting(kv.store[k])
      BY <3>1, <3>2 DEF Following, BaseKept
    <3>6. InStep(r, k, n)'
      BY <1>5, <3>1, <3>3, <3>4
    <3> QED
      BY <1>2, <3>1, <3>2, <3>4, <3>5, <3>6
  <2> QED
    BY <2>1 DEF BaseKept
<1>10. RanAlone'
  <2>1. \A g \in Handlers : at'[g] # "idle" => g # h /\ at[g] # "idle" /\ cmd'[g] = cmd[g]
    BY <1>2
  <2> QED
    BY <1>2, <2>1 DEF Following, RanAlone
<1>11. SnapshotKept'
  BY <1>2, SnapshotStays DEF Following
<1> QED
  BY <1>8, <1>9, <1>10, <1>11 DEF Following

LEMMA StutterFollowing ==
  ASSUME Inv, Following, UNCHANGED vars
  PROVE  Following'
<1>1. UNCHANGED masterVars /\ UNCHANGED links /\ UNCHANGED <<stable, filed, clash, based, good>>
  BY DEF vars, history
<1>2. UNCHANGED <<kv, at, cmd, rdb, saver>>
  BY <1>1 DEF masterVars
<1>3. GoodKept' /\ BaseKept' /\ RanAlone'
  BY <1>1, <1>2, LinksKeep, QuietStep
<1>4. SnapshotKept'
  BY <1>1, <1>2, SnapshotStays DEF Following
<1> QED
  BY <1>3, <1>4 DEF Following

LEMMA NextFollowing ==
  ASSUME RoomForAll, Inv, Following, [Next]_vars
  PROVE  Following'
<1>1. ASSUME NEW s \in Sockets,
             \/ Connect(s) \/ Register(s) \/ ReadPart(s) \/ ReadSnapshot(s) \/ ReadCut(s)
             \/ SendSnapshot(s) \/ Apply(s) \/ Disconnect(s)
      PROVE  Following'
  BY <1>1, ConnectFollowing, ReadPartFollowing, ReadSnapshotFollowing, SendSnapshotFollowing,
     ApplyFollowing, DisconnectFollowing
<1>2. ASSUME NEW h \in Handlers,
             (\E c \in Inputs : ExecuteCommand(h, c)) \/ LogCommand(h) \/ Forward(h)
      PROVE  Following'
  BY <1>2, ExecuteFollowing, LogFollowing, ForwardFollowing
<1>3. CASE SaveCopy \/ SaveOpen \/ SaveClose \/ SaveElse
  BY <1>3, SaveCopyFollowing, SaveOpenFollowing, SaveCloseFollowing, SaveElseFollowing
<1>4. CASE Housekeeping \/ UNCHANGED vars
  BY <1>4, HousekeepingFollowing, StutterFollowing
<1> QED
  BY <1>1, <1>2, <1>3, <1>4 DEF Next

\* However the snapshot thread, the handlers, lost connections and new ones
\* on old socket numbers interleave, a slave that has applied what it was
\* sent agrees with the master on the keys that are due to be in step
\* (Server.cpp, the handler of SLAVE, the forwarding loop and startAsSlave;
\* KVStore.cpp, saveSnapshot), if the stores have room for every key.
THEOREM InStepKept ==
  ASSUME RoomForAll
  PROVE  Spec => []SlaveInStep
<1>1. Init => Inv /\ Following
  BY InitInv, InitFollowing
<1>2. Inv /\ Following /\ [Next]_vars => (Inv /\ Following)'
  BY NextInv, NextFollowing
<1>3. Inv /\ Following => SlaveInStep
  <2> SUFFICES ASSUME Following, NEW s \in Sockets, stage[s] = "synced", link[s] = <<>>,
                      NEW k \in good[s]
               PROVE  Agree(s, k)
    BY DEF SlaveInStep
  <2>1. Leads(<<>>, replica[s].store[k], k, kv.store[k])
    BY DEF Following, GoodKept, InStep
  <2>2. Len(<<>>) = 0
    OBVIOUS
  <2>3. replica[s].store[k] = kv.store[k]
    BY <2>1, <2>2 DEF Leads
  <2> QED
    BY <2>3 DEF Agree, Content
<1> QED
  BY <1>1, <1>2, <1>3, PTL DEF Spec
=============================================================================
