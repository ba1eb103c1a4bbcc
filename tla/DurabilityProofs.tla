-------------------------- MODULE DurabilityProofs --------------------------
(***************************************************************************)
(* Theorems about Durability, for any keys, commands, handlers and numbers *)
(* of crashes.  What a restart invents needs no more than the types; what  *)
(* it brings back exactly needs room in the store for every key, because   *)
(* an eviction is recorded in no file.                                     *)
(***************************************************************************)
EXTENDS Durability, StoreOpsProofs

(***************************************************************************)
(* The invariant.                                                          *)
(***************************************************************************)
StoreTyped == InOrder(kv) /\ \A e \in kv.heap : e[1] # NoExpiry

ThreadsTyped ==
  /\ now \in Int
  /\ at \in [Handlers -> {"idle", "log", "forward"}]
  /\ cmd \in [Handlers -> Command \cup {Nothing}]
  /\ \A h \in Handlers : at[h] # "idle" => cmd[h] \in Command /\ cmd[h].op \in Writes
  /\ issued \in 0 .. MaxCommands

FilesTyped ==
  /\ wal \in Seq(Command)
  /\ \A i \in 1 .. Len(wal) : wal[i].op \in Writes
  /\ rdb \in Seq(Line)

SaverTyped ==
  saver \in [pc : {"asleep", "truncate", "clock", "copy", "open", "write"},
             clock : Int, copy : [Keys -> Node \cup {Absent}]]

CrashTyped ==
  /\ phase \in {"up", "boot"}
  /\ script \in Seq(Fed)
  /\ crashes \in 0 .. MaxCrashes
  /\ before \in [store : [Keys -> Node \cup {Absent}], safe : SUBSET Keys, running : SUBSET Keys]

HistoryTyped ==
  /\ safe \subseteq Keys /\ settling \subseteq Keys /\ clash \subseteq Keys
  /\ held \in [Keys -> SUBSET Value]

Typed ==
  StoreTyped /\ ThreadsTyped /\ FilesTyped /\ SaverTyped /\ CrashTyped /\ HistoryTyped

\* Wherever a restart can find a value for a key, the key has had it.
StoreHeld  == \A k \in Keys : kv.store[k] # Absent => kv.store[k].value \in held[k]
CopyHeld   == \A k \in Keys : saver.copy[k] # Absent => saver.copy[k].value \in held[k]
CmdHeld    == \A h \in Handlers : at[h] = "log" /\ cmd[h].op = "SET" => cmd[h].value \in held[cmd[h].key]
LogHeld    == \A i \in 1 .. Len(wal) : wal[i].op = "SET" => wal[i].value \in held[wal[i].key]
LinesHeld  == \A i \in 1 .. Len(rdb) : rdb[i].value \in held[rdb[i].key]
ScriptHeld == \A i \in 1 .. Len(script) : script[i].op = "SET" => script[i].value \in held[script[i].key]

AllHeld == StoreHeld /\ CopyHeld /\ CmdHeld /\ LogHeld /\ LinesHeld /\ ScriptHeld

Inv == Typed /\ AllHeld
-----------------------------------------------------------------------------
(***************************************************************************)
(* What makes a key come back as it was.                                   *)
(***************************************************************************)

On(c, k) == Replayed(c) /\ c.key = k

\* The last command on k of the list l leaves n; there is none.
Ends(l, k, n) ==
  \E i \in 1 .. Len(l) : /\ On(l[i], k) /\ Restores(l[i]) /\ n = Left(l[i])
                         /\ \A j \in i + 1 .. Len(l) : ~On(l[j], k)

Silent(l, k) == \A i \in 1 .. Len(l) : ~On(l[i], k)

\* snapshot.rdb has n for k.
InSnapshot(k, n) ==
  \/ n = Absent /\ \A i \in 1 .. Len(rdb) : rdb[i].key # k
  \/ \E i \in 1 .. Len(rdb) : /\ rdb[i].key = k /\ rdb[i].ttl = NoTtl
                              /\ n = [value |-> rdb[i].value, expiry |-> NoExpiry]
                              /\ \A j \in i + 1 .. Len(rdb) : rdb[j].key # k

\* The two files have n for k.
Kept(k, n) == Ends(wal, k, n) \/ (Silent(wal, k) /\ InSnapshot(k, n))

NoneUnlogged(k) == \A h \in Handlers : ~Unlogged(h, k)

\* The files hold the safe keys; while they are rewritten, data.log does.
SafeKept ==
  /\ phase = "up" => \A k \in safe : Kept(k, kv.store[k]) /\ NoneUnlogged(k)
  /\ phase = "up" /\ Saving => \A k \in safe : Ends(wal, k, kv.store[k])
  /\ phase = "boot" => \A k \in before.safe : Kept(k, before.store[k])

\* A command that ran alone has left the store as it is.
RanAlone ==
  /\ \A g, h \in Handlers :
       \A k \in Keys \ clash : Unlogged(g, k) /\ Unlogged(h, k) => g = h
  /\ \A h \in Handlers :
       \A k \in Keys \ clash :
         Unlogged(h, k) /\ Restores(cmd[h]) => kv.store[k] = Left(cmd[h])

\* The keys the snapshot being written will make safe.
Settled ==
  /\ ~Saving => settling = {}
  /\ \A k \in settling : /\ NoneUnlogged(k) /\ Lasting(kv.store[k])
                         /\ \A i \in 1 .. Len(wal) : wal[i].key # k
  /\ saver.pc \in {"open", "write"} => \A k \in settling : saver.copy[k] = kv.store[k]
  /\ saver.pc = "write" =>
       /\ \A i \in 1 .. Len(rdb) : /\ rdb[i].key \in SavedKeys(saver.copy, saver.clock)
                                   /\ rdb[i] = SavedLine(saver.copy, rdb[i].key, saver.clock)
       /\ \A i, j \in 1 .. Len(rdb) : rdb[i].key = rdb[j].key => i = j

\* A restart has no threads; what it has still to read brings the keys back,
\* or they are back.
Booting ==
  phase = "boot" =>
    /\ \A h \in Handlers : at[h] = "idle"
    /\ saver.pc = "truncate" /\ safe = {} /\ settling = {} /\ clash = {}
    /\ \A k \in before.safe :
         \/ Ends(script, k, before.store[k])
         \/ Silent(script, k) /\ kv.store[k] = before.store[k]

Recoverable == SafeKept /\ RanAlone /\ Settled /\ Booting
-----------------------------------------------------------------------------
(***************************************************************************)
(* Types, and where the values come from.                                  *)
(***************************************************************************)
\* What is in the files and in the script.
LEMMA Elements ==
  ASSUME Typed
  PROVE  /\ \A i \in 1 .. Len(wal) : wal[i] \in Command /\ wal[i].key \in Keys
         /\ \A i \in 1 .. Len(rdb) : rdb[i] \in Line /\ rdb[i].key \in Keys
         /\ \A i \in 1 .. Len(script) : script[i] \in Fed /\ script[i].key \in Keys
<1>1. wal \in Seq(Command) /\ rdb \in Seq(Line) /\ script \in Seq(Fed)
  BY DEF Typed, FilesTyped, CrashTyped
<1>2. /\ \A c \in Command : c.key \in Keys
      /\ \A c \in Line : c.key \in Keys
      /\ \A c \in Fed : c.key \in Keys
  BY DEF Command, Line, Fed
<1>3. \A i \in 1 .. Len(wal) : wal[i] \in Command
  BY <1>1, ElementOf
<1>4. \A i \in 1 .. Len(rdb) : rdb[i] \in Line
  BY <1>1, ElementOf
<1>5. \A i \in 1 .. Len(script) : script[i] \in Fed
  BY <1>1, ElementOf
<1> QED
  BY <1>2, <1>3, <1>4, <1>5

LEMMA InitInv == Init => Inv
<1> SUFFICES ASSUME Init PROVE Inv
  OBVIOUS
<1> USE DEF Init, MasterInit
<1>1. StoreTyped
  BY EmptyInOrder DEF StoreTyped, EmptyStore
<1>2. EmptyStore.store = [k \in Keys |-> Absent]
  BY DEF EmptyStore
<1>3. ThreadsTyped
  BY ClockAssumption, BoundsAssumption DEF ThreadsTyped, AllIdle
<1>4. FilesTyped
  BY DEF FilesTyped
<1>5. SaverTyped
  BY <1>2, ClockAssumption DEF SaverTyped, NotSaving
<1>6. CrashTyped
  BY <1>2, CrashAssumption DEF CrashTyped, NoCrash
<1>7. HistoryTyped
  BY DEF HistoryTyped
<1>8. StoreHeld /\ CopyHeld
  BY <1>2 DEF StoreHeld, CopyHeld, NotSaving
<1>9. CmdHeld /\ LogHeld /\ LinesHeld /\ ScriptHeld
  BY DEF CmdHeld, LogHeld, LinesHeld, ScriptHeld, AllIdle
<1> QED
  BY <1>1, <1>3, <1>4, <1>5, <1>6, <1>7, <1>8, <1>9 DEF Inv, Typed, AllHeld

\* A step of the running server records the values that are in its store, and
\* forgets none.
LEMMA UpHistory ==
  ASSUME Inv, Up, StoreTyped'
  PROVE  /\ CrashTyped' /\ StoreHeld' /\ ScriptHeld'
         /\ held' \in [Keys -> SUBSET Value]
         /\ \A k \in Keys : held[k] \subseteq held'[k]
         /\ UNCHANGED <<at, cmd>> => CmdHeld'
         /\ UNCHANGED wal => LogHeld'
         /\ UNCHANGED rdb => LinesHeld'
         /\ UNCHANGED saver => CopyHeld'
<1>1. /\ Typed /\ AllHeld /\ kv'.store \in [Keys -> Node \cup {Absent}]
      /\ UNCHANGED <<phase, script, crashes, before>>
      /\ held' = [k \in Keys |-> IF kv'.store[k] = Absent THEN held[k]
                                 ELSE held[k] \cup {kv'.store[k].value}]
  BY DEF Inv, Up, StoreTyped, InOrder, StoreState
<1>2. CrashTyped'
  BY <1>1 DEF Typed, CrashTyped
<1>3. held' \in [Keys -> SUBSET Value]
  <2>1. \A k \in Keys : held[k] \in SUBSET Value
    BY <1>1 DEF Typed, HistoryTyped
  <2>2. \A k \in Keys : kv'.store[k] # Absent => kv'.store[k].value \in Value
    BY <1>1 DEF Node
  <2> QED
    BY <1>1, <2>1, <2>2
<1>4. \A k \in Keys : held[k] \subseteq held'[k]
  BY <1>1
<1>5. StoreHeld'
  BY <1>1 DEF StoreHeld
<1>6. ScriptHeld'
  <2>1. \A i \in 1 .. Len(script) : script[i].key \in Keys
    BY <1>1, Elements
  <2> QED
    BY <1>1, <1>4, <2>1 DEF AllHeld, ScriptHeld
<1>7. ASSUME UNCHANGED <<at, cmd>> PROVE CmdHeld'
  <2>1. \A h \in Handlers : at[h] = "log" => cmd[h].key \in Keys
    BY <1>1 DEF Typed, ThreadsTyped, Command
  <2> QED
    BY <1>1, <1>4, <1>7, <2>1 DEF AllHeld, CmdHeld
<1>8. ASSUME UNCHANGED wal PROVE LogHeld'
  <2>1. \A i \in 1 .. Len(wal) : wal[i].key \in Keys
    BY <1>1, Elements
  <2> QED
    BY <1>1, <1>4, <1>8, <2>1 DEF AllHeld, LogHeld
<1>9. ASSUME UNCHANGED rdb PROVE LinesHeld'
  <2>1. \A i \in 1 .. Len(rdb) : rdb[i].key \in Keys
    BY <1>1, Elements
  <2> QED
    BY <1>1, <1>4, <1>9, <2>1 DEF AllHeld, LinesHeld
<1>10. ASSUME UNCHANGED saver PROVE CopyHeld'
  BY <1>1, <1>4, <1>10 DEF AllHeld, CopyHeld
<1> QED
  BY <1>2, <1>3, <1>4, <1>5, <1>6, <1>7, <1>8, <1>9, <1>10

LEMMA ExecuteInv ==
  ASSUME Inv, NEW h \in Handlers, NEW c \in Inputs, UpExecute(h, c)
  PROVE  Inv'
<1>1. /\ Typed /\ AllHeld /\ Up /\ Execute(h, c)
      /\ c \in Command /\ c \in AnyCommand /\ c.key \in Keys
  BY InputsAssumption, CommandIsAny DEF Inv, UpExecute, Command
<1>2. /\ at[h] = "idle" /\ issued < MaxCommands /\ issued' = issued + 1
      /\ kv' = Exec(kv, c, now)
      /\ UNCHANGED <<now, wal, rdb, saver>>
  BY <1>1 DEF Execute, Files
<1>3. StoreTyped'
  <2>1. InOrder(kv) /\ now \in Int /\ \A e \in kv.heap : e[1] # NoExpiry
    BY <1>1 DEF Typed, StoreTyped, ThreadsTyped
  <2>2. InOrder(Exec(kv, c, now))
    BY <1>1, <2>1, ExecInOrder
  <2>3. \A e \in Exec(kv, c, now).heap : e[1] # NoExpiry
    BY <1>1, <2>1, ExecHeap
  <2> QED
    BY <1>2, <2>2, <2>3 DEF StoreTyped
<1>4. /\ CrashTyped' /\ StoreHeld' /\ ScriptHeld' /\ LogHeld' /\ LinesHeld' /\ CopyHeld'
      /\ held' \in [Keys -> SUBSET Value]
      /\ \A k \in Keys : held[k] \subseteq held'[k]
      /\ UNCHANGED <<at, cmd>> => CmdHeld'
  BY <1>1, <1>2, <1>3, UpHistory
<1>5. FilesTyped' /\ SaverTyped'
  BY <1>1, <1>2 DEF Typed, FilesTyped, SaverTyped
<1>6. HistoryTyped'
  BY <1>1, <1>4 DEF UpExecute, Typed, HistoryTyped
<1>7. issued' \in 0 .. MaxCommands
  BY <1>1, <1>2, BoundsAssumption DEF Typed, ThreadsTyped
<1>8. CASE ~Recorded(kv, c, now)
  <2>1. UNCHANGED <<at, cmd>>
    BY <1>1, <1>8 DEF Execute
  <2>2. ThreadsTyped'
    BY <1>1, <1>2, <1>7, <2>1 DEF Typed, ThreadsTyped
  <2> QED
    BY <1>3, <1>4, <1>5, <1>6, <2>1, <2>2 DEF Inv, Typed, AllHeld
<1>9. CASE Recorded(kv, c, now)
  <2>1. at' = [at EXCEPT ![h] = "log"] /\ cmd' = [cmd EXCEPT ![h] = c] /\ c.op \in Writes
    BY <1>1, <1>9 DEF Execute, Recorded
  <2>2. \A g \in Handlers : /\ at'[g] = IF g = h THEN "log" ELSE at[g]
                            /\ cmd'[g] = IF g = h THEN c ELSE cmd[g]
    BY <1>1, <2>1 DEF Typed, ThreadsTyped
  <2>3. ThreadsTyped'
    BY <1>1, <1>2, <1>7, <2>1, <2>2 DEF Typed, ThreadsTyped
  <2>4. CmdHeld'
    <3>1. ASSUME NEW g \in Handlers, at'[g] = "log", cmd'[g].op = "SET"
          PROVE  cmd'[g].value \in held'[cmd'[g].key]
      <4>1. CASE g # h
        <5>1. cmd[g].key \in Keys /\ cmd[g].value \in held[cmd[g].key]
          BY <1>1, <2>2, <3>1, <4>1 DEF Typed, ThreadsTyped, Command, AllHeld, CmdHeld
        <5> QED
          BY <1>4, <2>2, <4>1, <5>1
      <4>2. CASE g = h
        <5>1. c.op = "SET" /\ InOrder(kv) /\ now \in Int
          BY <1>1, <2>2, <3>1, <4>2 DEF Typed, StoreTyped, ThreadsTyped
        <5>2. kv'.store[c.key] = [value |-> c.value, expiry |-> Deadline(c.ttl, now)]
          BY <1>1, <1>2, <5>1, ExecOwn
        <5>3. kv'.store[c.key] # Absent
          <6>1. Deadline(c.ttl, now) \in Int /\ c.value \in Value
            BY <1>1, <5>1, DeadlineType, IntAssumption DEF Command, Ints, IntMin
          <6>2. kv'.store[c.key] \in Node
            BY <5>2, <6>1 DEF Node
          <6> QED
            BY <6>2, AbsentAssumption
        <5>4. kv'.store[c.key].value = c.value
          BY <5>2
        <5> QED
          BY <1>1, <1>4, <2>2, <4>2, <5>3, <5>4 DEF StoreHeld
      <4> QED
        BY <4>1, <4>2
    <3> QED
      BY <3>1 DEF CmdHeld
  <2> QED
    BY <1>3, <1>4, <1>5, <1>6, <2>3, <2>4 DEF Inv, Typed, AllHeld
<1> QED
  BY <1>8, <1>9

LEMMA LogInv ==
  ASSUME Inv, NEW h \in Handlers, UpLog(h)
  PROVE  Inv'
<1>1. /\ Typed /\ AllHeld /\ Up /\ at[h] = "log"
      /\ wal' = Append(wal, cmd[h]) /\ at' = [at EXCEPT ![h] = "forward"]
      /\ UNCHANGED <<kv, now, cmd, issued, rdb, saver, settling>>
      /\ cmd[h] \in Command /\ cmd[h].op \in Writes /\ cmd[h].key \in Keys
  BY DEF Inv, UpLog, Log, Typed, ThreadsTyped, Command
<1>2. StoreTyped' /\ ThreadsTyped' /\ SaverTyped'
  BY <1>1 DEF Typed, StoreTyped, ThreadsTyped, SaverTyped
<1>3. /\ CrashTyped' /\ StoreHeld' /\ ScriptHeld' /\ LinesHeld' /\ CopyHeld'
      /\ held' \in [Keys -> SUBSET Value]
      /\ \A k \in Keys : held[k] \subseteq held'[k]
  BY <1>1, <1>2, UpHistory
<1>4. CmdHeld'
  <2>1. ASSUME NEW g \in Handlers, at'[g] = "log", cmd'[g].op = "SET"
        PROVE  cmd'[g].value \in held'[cmd'[g].key]
    <3>1. at[g] = "log" /\ cmd[g].key \in Keys
      BY <1>1, <2>1 DEF Typed, ThreadsTyped, Command
    <3> QED
      BY <1>1, <1>3, <2>1, <3>1 DEF AllHeld, CmdHeld
  <2> QED
    BY <2>1 DEF CmdHeld
<1>5. \A i \in 1 .. Len(wal') : /\ i \in 1 .. Len(wal) /\ wal'[i] = wal[i]
                                \/ wal'[i] = cmd[h]
  BY <1>1 DEF Typed, FilesTyped
<1>6. FilesTyped'
  <2>1. wal' \in Seq(Command)
    BY <1>1 DEF Typed, FilesTyped
  <2> QED
    BY <1>1, <1>5, <2>1 DEF Typed, FilesTyped
<1>7. LogHeld'
  <2>1. ASSUME NEW i \in 1 .. Len(wal'), wal'[i].op = "SET"
        PROVE  wal'[i].value \in held'[wal'[i].key]
    <3>1. CASE i \in 1 .. Len(wal) /\ wal'[i] = wal[i]
      <4>1. wal[i].key \in Keys
        BY <1>1, <3>1, Elements
      <4> QED
        BY <1>1, <1>3, <2>1, <3>1, <4>1 DEF AllHeld, LogHeld
    <3>2. CASE wal'[i] = cmd[h]
      BY <1>1, <1>3, <2>1, <3>2 DEF AllHeld, CmdHeld
    <3> QED
      BY <1>5, <3>1, <3>2
  <2> QED
    BY <2>1 DEF LogHeld
<1>8. HistoryTyped'
  BY <1>1, <1>3 DEF UpLog, Typed, HistoryTyped
<1> QED
  BY <1>2, <1>3, <1>4, <1>6, <1>7, <1>8 DEF Inv, Typed, AllHeld

LEMMA AnswerInv ==
  ASSUME Inv, NEW h \in Handlers, UpAnswer(h)
  PROVE  Inv'
<1>1. /\ Typed /\ AllHeld /\ Up /\ at[h] = "forward"
      /\ at' = [at EXCEPT ![h] = "idle"] /\ cmd' = [cmd EXCEPT ![h] = Nothing]
      /\ UNCHANGED <<kv, now, issued, wal, rdb, saver, safe, settling, clash>>
  BY DEF Inv, UpAnswer, Answer, Files
<1>2. \A g \in Handlers : at'[g] = IF g = h THEN "idle" ELSE at[g]
  BY <1>1 DEF Typed, ThreadsTyped
<1>3. \A g \in Handlers : cmd'[g] = IF g = h THEN Nothing ELSE cmd[g]
  BY <1>1 DEF Typed, ThreadsTyped
<1>4. StoreTyped' /\ ThreadsTyped' /\ SaverTyped' /\ FilesTyped'
  BY <1>1, <1>2, <1>3 DEF Typed, StoreTyped, ThreadsTyped, SaverTyped, FilesTyped
<1>5. /\ CrashTyped' /\ StoreHeld' /\ ScriptHeld' /\ LogHeld' /\ LinesHeld' /\ CopyHeld'
      /\ held' \in [Keys -> SUBSET Value]
      /\ \A k \in Keys : held[k] \subseteq held'[k]
  BY <1>1, <1>4, UpHistory
<1>6. CmdHeld'
  <2>1. ASSUME NEW g \in Handlers, at'[g] = "log", cmd'[g].op = "SET"
        PROVE  cmd'[g].value \in held'[cmd'[g].key]
    <3>1. at[g] = "log" /\ cmd'[g] = cmd[g] /\ cmd[g].key \in Keys
      BY <1>1, <1>2, <1>3, <2>1 DEF Typed, ThreadsTyped, Command
    <3> QED
      BY <1>1, <1>5, <2>1, <3>1 DEF AllHeld, CmdHeld
  <2> QED
    BY <2>1 DEF CmdHeld
<1>7. HistoryTyped'
  BY <1>1, <1>5 DEF Typed, HistoryTyped
<1> QED
  BY <1>4, <1>5, <1>6, <1>7 DEF Inv, Typed, AllHeld
\* A step of the snapshot thread.
LEMMA SaverInv ==
  ASSUME Inv, Up, UNCHANGED <<kv, now, at, cmd, issued>>,
         FilesTyped', SaverTyped',
         UNCHANGED held => LogHeld' /\ LinesHeld' /\ CopyHeld',
         safe' \subseteq Keys, settling' \subseteq Keys, clash' \subseteq Keys
  PROVE  Inv'
<1>1. Typed /\ AllHeld
  BY DEF Inv
<1>2. StoreTyped' /\ ThreadsTyped'
  BY <1>1 DEF Typed, StoreTyped, ThreadsTyped
<1>3. /\ CrashTyped' /\ StoreHeld' /\ ScriptHeld' /\ CmdHeld'
      /\ held' \in [Keys -> SUBSET Value]
  BY <1>2, UpHistory
<1>4. UNCHANGED held
  <2>1. \A k \in Keys : held'[k] = held[k]
    BY <1>1 DEF Up, AllHeld, StoreHeld
  <2> QED
    BY <1>1, <1>3, <2>1 DEF Typed, HistoryTyped
<1>5. LogHeld' /\ LinesHeld' /\ CopyHeld'
  BY <1>1, <1>4 DEF AllHeld
<1>6. HistoryTyped'
  BY <1>3 DEF HistoryTyped
<1> QED
  BY <1>1, <1>2, <1>3, <1>5, <1>6 DEF Inv, Typed, AllHeld

LEMMA EmptyCopy ==
  /\ EmptyStore.store \in [Keys -> Node \cup {Absent}]
  /\ \A k \in Keys : EmptyStore.store[k] = Absent
  /\ \A pc : NotSaving(pc).pc = pc /\ NotSaving(pc).copy = EmptyStore.store
  /\ \A pc \in {"asleep", "truncate"} :
       NotSaving(pc) \in [pc : {"asleep", "truncate", "clock", "copy", "open", "write"},
                         clock : Int, copy : [Keys -> Node \cup {Absent}]]
BY ClockAssumption DEF EmptyStore, NotSaving

LEMMA WakeInv ==
  ASSUME Inv, UpWake \/ UpCloseFile
  PROVE  Inv'
<1>1. /\ Typed /\ AllHeld /\ Up /\ UNCHANGED <<kv, now, at, cmd, issued, wal, rdb>>
      /\ saver' = NotSaving("truncate") \/ saver' = NotSaving("asleep")
      /\ safe' \subseteq Keys /\ settling' \subseteq Keys /\ clash' \subseteq Keys
  BY DEF Inv, UpWake, UpCloseFile, Wake, CloseFile, Files, Typed, HistoryTyped
<1>2. FilesTyped' /\ SaverTyped'
  BY <1>1, EmptyCopy DEF Typed, FilesTyped, SaverTyped
<1>3. UNCHANGED held => LogHeld' /\ LinesHeld'
  BY <1>1 DEF AllHeld, LogHeld, LinesHeld
<1>4. CopyHeld'
  BY <1>1, EmptyCopy DEF CopyHeld
<1> QED
  BY <1>1, <1>2, <1>3, <1>4, SaverInv

LEMMA TruncateInv ==
  ASSUME Inv, UpTruncate
  PROVE  Inv'
<1>1. /\ Typed /\ AllHeld /\ Up /\ UNCHANGED <<kv, now, at, cmd, issued, rdb>>
      /\ wal' = <<>> /\ saver' = [saver EXCEPT !.pc = "clock"]
      /\ safe' \subseteq Keys /\ settling' \subseteq Keys /\ clash' \subseteq Keys
  BY DEF Inv, UpTruncate, Truncate, Typed, HistoryTyped
<1>2. FilesTyped' /\ LogHeld'
  BY <1>1 DEF Typed, FilesTyped, LogHeld
<1>3. SaverTyped' /\ saver'.copy = saver.copy
  BY <1>1 DEF Typed, SaverTyped
<1>4. UNCHANGED held => LinesHeld' /\ CopyHeld'
  BY <1>1, <1>3 DEF AllHeld, CopyHeld, LinesHeld
<1> QED
  BY <1>1, <1>2, <1>3, <1>4, SaverInv

LEMMA ReadClockInv ==
  ASSUME Inv, UpReadClock
  PROVE  Inv'
<1>1. /\ Typed /\ AllHeld /\ Up /\ UNCHANGED <<kv, now, at, cmd, issued, wal, rdb>>
      /\ saver' = [saver EXCEPT !.pc = "copy", !.clock = now]
      /\ safe' \subseteq Keys /\ settling' \subseteq Keys /\ clash' \subseteq Keys
  BY DEF Inv, UpReadClock, ReadClock, Files, Typed, HistoryTyped
<1>2. FilesTyped' /\ (UNCHANGED held => LogHeld' /\ LinesHeld')
  BY <1>1 DEF Typed, FilesTyped, AllHeld, LogHeld, LinesHeld
<1>3. SaverTyped' /\ saver'.copy = saver.copy
  BY <1>1 DEF Typed, SaverTyped, ThreadsTyped
<1>4. UNCHANGED held => CopyHeld'
  BY <1>1, <1>3 DEF AllHeld, CopyHeld
<1> QED
  BY <1>1, <1>2, <1>3, <1>4, SaverInv

LEMMA CopyStoreInv ==
  ASSUME Inv, UpCopyStore
  PROVE  Inv'
<1>1. /\ Typed /\ AllHeld /\ Up /\ UNCHANGED <<kv, now, at, cmd, issued, wal, rdb>>
      /\ saver' = [saver EXCEPT !.pc = "open", !.copy = kv.store]
      /\ safe' \subseteq Keys /\ settling' \subseteq Keys /\ clash' \subseteq Keys
  BY DEF Inv, UpCopyStore, CopyStore, Files, Typed, HistoryTyped
<1>2. FilesTyped' /\ (UNCHANGED held => LogHeld' /\ LinesHeld')
  BY <1>1 DEF Typed, FilesTyped, AllHeld, LogHeld, LinesHeld
<1>3. SaverTyped' /\ saver'.copy = kv.store
  BY <1>1 DEF Typed, SaverTyped, StoreTyped, InOrder, StoreState
<1>4. UNCHANGED held => CopyHeld'
  BY <1>1, <1>3 DEF AllHeld, CopyHeld, StoreHeld
<1> QED
  BY <1>1, <1>2, <1>3, <1>4, SaverInv

LEMMA OpenFileInv ==
  ASSUME Inv, UpOpenFile
  PROVE  Inv'
<1>1. /\ Typed /\ AllHeld /\ Up /\ UNCHANGED <<kv, now, at, cmd, issued, wal>>
      /\ rdb' = <<>> /\ saver' = [saver EXCEPT !.pc = "write"]
      /\ safe' \subseteq Keys /\ settling' \subseteq Keys /\ clash' \subseteq Keys
  BY DEF Inv, UpOpenFile, OpenFile, Typed, HistoryTyped
<1>2. FilesTyped' /\ LinesHeld'
  BY <1>1 DEF Typed, FilesTyped, LinesHeld
<1>3. SaverTyped' /\ saver'.copy = saver.copy
  BY <1>1 DEF Typed, SaverTyped
<1>4. UNCHANGED held => LogHeld' /\ CopyHeld'
  BY <1>1, <1>3 DEF AllHeld, CopyHeld, LogHeld
<1> QED
  BY <1>1, <1>2, <1>3, <1>4, SaverInv

LEMMA WriteLineInv ==
  ASSUME Inv, NEW k \in Keys, UpWriteLine(k)
  PROVE  Inv'
<1>1. /\ Typed /\ AllHeld /\ Up /\ UNCHANGED <<kv, now, at, cmd, issued, wal, saver>>
      /\ k \in SavedKeys(saver.copy, saver.clock)
      /\ rdb' = Append(rdb, SavedLine(saver.copy, k, saver.clock))
      /\ safe' \subseteq Keys /\ settling' \subseteq Keys /\ clash' \subseteq Keys
  BY DEF Inv, UpWriteLine, WriteLine, Unwritten, Typed, HistoryTyped
<1>2. PICK line \in Line : /\ line = SavedLine(saver.copy, k, saver.clock)
                           /\ line.value \in held[line.key]
  <2>1. saver.copy \in [Keys -> Node \cup {Absent}] /\ saver.clock \in Int
    BY <1>1 DEF Typed, SaverTyped
  <2>2. /\ SavedLine(saver.copy, k, saver.clock) \in Line
        /\ SavedLine(saver.copy, k, saver.clock).key = k
        /\ SavedLine(saver.copy, k, saver.clock).value = saver.copy[k].value
        /\ saver.copy[k] # Absent
    BY <1>1, <2>1, SavedLineType
  <2> QED
    BY <1>1, <2>2 DEF AllHeld, CopyHeld
<1>3. /\ rdb' \in Seq(Line)
      /\ \A i \in 1 .. Len(rdb') : \/ i \in 1 .. Len(rdb) /\ rdb'[i] = rdb[i]
                                  \/ rdb'[i] = line
  BY <1>1, <1>2 DEF Typed, FilesTyped
<1>4. FilesTyped' /\ SaverTyped'
  BY <1>1, <1>3 DEF Typed, FilesTyped, SaverTyped
<1>5. UNCHANGED held => LogHeld' /\ CopyHeld'
  BY <1>1 DEF AllHeld, CopyHeld, LogHeld
<1>6. UNCHANGED held => LinesHeld'
  BY <1>1, <1>2, <1>3 DEF AllHeld, LinesHeld
<1> QED
  BY <1>1, <1>4, <1>5, <1>6, SaverInv

LEMMA CleanInv ==
  ASSUME Inv, UpClean
  PROVE  Inv'
<1>1. /\ Typed /\ AllHeld /\ Up /\ kv' = CleanOp(kv, now)
      /\ UNCHANGED <<now, at, cmd, issued, wal, rdb, saver, safe, settling, clash>>
  BY DEF Inv, UpClean, Clean, Files
<1>2. StoreTyped'
  <2>1. InOrder(kv) /\ now \in Int /\ \A e \in kv.heap : e[1] # NoExpiry
    BY <1>1 DEF Typed, StoreTyped, ThreadsTyped
  <2>2. InOrder(CleanOp(kv, now))
    BY <2>1, CleanInOrder
  <2>3. CleanOp(kv, now).heap \subseteq kv.heap
    BY DEF CleanOp, Erase
  <2> QED
    BY <1>1, <2>1, <2>2, <2>3 DEF StoreTyped
<1>3. ThreadsTyped' /\ FilesTyped' /\ SaverTyped'
  BY <1>1 DEF Typed, ThreadsTyped, FilesTyped, SaverTyped
<1>4. /\ CrashTyped' /\ AllHeld' /\ held' \in [Keys -> SUBSET Value]
  BY <1>1, <1>2, UpHistory DEF AllHeld
<1>5. HistoryTyped'
  BY <1>1, <1>4 DEF Typed, HistoryTyped
<1> QED
  BY <1>2, <1>3, <1>4, <1>5 DEF Inv, Typed

\* What a restart has to read is what is in the files.
LEMMA ScriptOfFiles ==
  ASSUME Typed
  PROVE  /\ LoadScript \in Seq(Fed)
         /\ Len(LoadScript) = Len(rdb) + Len(wal)
         /\ \A i \in 1 .. Len(rdb) : LoadScript[i] = LineCmd(rdb[i])
         /\ \A i \in 1 .. Len(wal) : LoadScript[Len(rdb) + i] = wal[i]
<1> DEFINE a == [i \in 1 .. Len(rdb) |-> LineCmd(rdb[i])]
<1>1. wal \in Seq(Command) /\ rdb \in Seq(Line) /\ Len(wal) \in Nat /\ Len(rdb) \in Nat
  BY DEF Typed, FilesTyped
<1>2. \A i \in 1 .. Len(wal) : wal[i] \in Fed
  BY Elements, CommandIsAny DEF Typed, FilesTyped
<1>3. wal \in Seq(Fed)
  BY <1>1, <1>2, Retyped
<1>4. \A l \in Line : LineCmd(l) \in Fed
  BY DEF Line, LineCmd, SetCmd, Fed, Writes
<1>5. \A i \in 1 .. Len(rdb) : LineCmd(rdb[i]) \in Fed
  BY <1>4, Elements
<1>6. a \in Seq(Fed) /\ Len(a) = Len(rdb)
  BY <1>1, <1>5
<1>7. \A i \in 1 .. Len(rdb) : a[i] = LineCmd(rdb[i])
  OBVIOUS
<1> HIDE DEF a
<1>8. LoadScript = a \o wal
  BY DEF LoadScript, a
<1>9. /\ a \o wal \in Seq(Fed) /\ Len(a \o wal) = Len(a) + Len(wal)
      /\ \A i \in 1 .. Len(a) : (a \o wal)[i] = a[i]
      /\ \A i \in 1 .. Len(wal) : (a \o wal)[Len(a) + i] = wal[i]
  BY <1>3, <1>6
<1> QED
  BY <1>6, <1>7, <1>8, <1>9

LEMMA CrashInv ==
  ASSUME Inv, Crash
  PROVE  Inv'
<1>1. /\ Typed /\ AllHeld /\ crashes < MaxCrashes /\ crashes' = crashes + 1
      /\ phase' = "boot" /\ kv' = EmptyStore /\ script' = LoadScript
      /\ at' = [h \in Handlers |-> "idle"] /\ cmd' = [h \in Handlers |-> Nothing]
      /\ saver' = NotSaving("truncate")
      /\ safe' = {} /\ settling' = {} /\ clash' = {}
      /\ UNCHANGED <<now, issued, wal, rdb, held>>
  BY DEF Inv, Crash, Restart, Files
<1>2. StoreTyped' /\ StoreHeld'
  <2>1. InOrder(EmptyStore) /\ EmptyStore.heap = {}
    BY EmptyInOrder DEF EmptyStore
  <2> QED
    BY <1>1, <2>1, EmptyCopy DEF StoreTyped, StoreHeld
<1>3. ThreadsTyped' /\ FilesTyped' /\ SaverTyped' /\ HistoryTyped'
  BY <1>1, EmptyCopy DEF Typed, ThreadsTyped, FilesTyped, SaverTyped, HistoryTyped
<1>4. CrashTyped'
  <2>1. before' \in [store : [Keys -> Node \cup {Absent}], safe : SUBSET Keys,
                     running : SUBSET Keys]
    BY <1>1 DEF Crash, Typed, CrashTyped, HistoryTyped, StoreTyped, InOrder, StoreState
  <2>2. crashes' \in 0 .. MaxCrashes
    BY <1>1, CrashAssumption DEF Typed, CrashTyped
  <2>3. script' \in Seq(Fed)
    BY <1>1, ScriptOfFiles
  <2> QED
    BY <1>1, <2>1, <2>2, <2>3 DEF CrashTyped
<1>5. CopyHeld' /\ CmdHeld' /\ LogHeld' /\ LinesHeld'
  BY <1>1, EmptyCopy DEF AllHeld, CopyHeld, CmdHeld, LogHeld, LinesHeld
<1>6. ScriptHeld'
  <2>1. ASSUME NEW i \in 1 .. Len(LoadScript), LoadScript[i].op = "SET"
        PROVE  LoadScript[i].value \in held[LoadScript[i].key]
    <3>1. Len(wal) \in Nat /\ Len(rdb) \in Nat
      BY <1>1 DEF Typed, FilesTyped
    <3>2. CASE i \in 1 .. Len(rdb)
      <4>1. LoadScript[i].value = rdb[i].value /\ LoadScript[i].key = rdb[i].key
        <5>1. LoadScript[i] = LineCmd(rdb[i])
          BY <1>1, <3>2, ScriptOfFiles
        <5> QED
          BY <5>1 DEF LineCmd, SetCmd
      <4> QED
        BY <1>1, <3>2, <4>1 DEF AllHeld, LinesHeld
    <3>3. CASE i \notin 1 .. Len(rdb)
      <4>1. i - Len(rdb) \in 1 .. Len(wal) /\ Len(rdb) + (i - Len(rdb)) = i
        BY <1>1, <3>1, <3>3, ScriptOfFiles
      <4>2. LoadScript[i] = wal[i - Len(rdb)]
        BY <1>1, <4>1, ScriptOfFiles
      <4> QED
        BY <1>1, <2>1, <4>1, <4>2 DEF AllHeld, LogHeld
    <3> QED
      BY <3>2, <3>3
  <2> QED
    BY <1>1, <2>1 DEF ScriptHeld
<1> QED
  BY <1>2, <1>3, <1>4, <1>5, <1>6 DEF Inv, Typed, AllHeld

LEMMA LoadInv ==
  ASSUME Inv, Load
  PROVE  Inv'
<1>1. /\ Typed /\ AllHeld /\ script # <<>>
      /\ kv' = IF Replayed(Head(script)) THEN Exec(kv, Head(script), now) ELSE kv
      /\ script' = Tail(script)
      /\ UNCHANGED <<now, at, cmd, issued, wal, rdb, saver, phase, crashes,
                     safe, settling, clash, held, before>>
  BY DEF Inv, Load, Files, history
<1>2. PICK c \in Fed : c = Head(script) /\ (c.op = "SET" => c.value \in held[c.key])
  <2>1. script \in Seq(Fed) /\ 1 \in 1 .. Len(script) /\ Head(script) = script[1]
    BY <1>1 DEF Typed, CrashTyped
  <2> QED
    BY <1>1, <2>1, ElementOf DEF AllHeld, ScriptHeld
<1>3. c \in AnyCommand /\ c.key \in Keys
  BY CommandIsAny DEF Fed
<1>4. InOrder(kv) /\ now \in Int /\ \A e \in kv.heap : e[1] # NoExpiry
  BY <1>1 DEF Typed, StoreTyped, ThreadsTyped
<1>5. StoreTyped'
  <2>1. InOrder(Exec(kv, c, now))
    BY <1>3, <1>4, ExecInOrder
  <2>2. \A e \in Exec(kv, c, now).heap : e[1] # NoExpiry
    BY <1>3, <1>4, ExecHeap
  <2> QED
    BY <1>1, <1>2, <1>4, <2>1, <2>2 DEF StoreTyped
<1>6. StoreHeld'
  <2>1. CASE ~Replayed(c)
    BY <1>1, <1>2, <2>1 DEF AllHeld, StoreHeld
  <2>2. CASE Replayed(c)
    <3>1. kv' = Exec(kv, c, now) /\ c.op \in {"SET", "DEL"}
      BY <1>1, <1>2, <2>2 DEF Replayed
    <3>2. ASSUME NEW x \in Keys, kv'.store[x] # Absent
          PROVE  kv'.store[x].value \in held'[x]
      <4>1. CASE x = c.key
        <5>1. kv'.store[x] = [value |-> c.value, expiry |-> Deadline(c.ttl, now)] /\ c.op = "SET"
          BY <1>3, <1>4, <3>1, <3>2, <4>1, ExecOwn
        <5> QED
          BY <1>1, <1>2, <4>1, <5>1
      <4>2. CASE x # c.key
        <5>1. kv'.store[x] \in {kv.store[x], Absent}
          BY <1>3, <1>4, <3>1, <4>2, ChangeOther
        <5> QED
          BY <1>1, <3>2, <5>1 DEF AllHeld, StoreHeld
      <4> QED
        BY <4>1, <4>2
    <3> QED
      BY <3>2 DEF StoreHeld
  <2> QED
    BY <2>1, <2>2
<1>7. /\ script' \in Seq(Fed)
      /\ \A i \in 1 .. Len(script') : i + 1 \in 1 .. Len(script) /\ script'[i] = script[i + 1]
  BY <1>1 DEF Typed, CrashTyped
<1>8. ThreadsTyped' /\ FilesTyped' /\ SaverTyped' /\ HistoryTyped'
  BY <1>1 DEF Typed, ThreadsTyped, FilesTyped, SaverTyped, HistoryTyped
<1>9. CrashTyped'
  BY <1>1, <1>7 DEF Typed, CrashTyped
<1>10. CopyHeld' /\ CmdHeld' /\ LogHeld' /\ LinesHeld'
  BY <1>1 DEF AllHeld, CopyHeld, CmdHeld, LogHeld, LinesHeld
<1>11. ScriptHeld'
  BY <1>1, <1>7 DEF AllHeld, ScriptHeld
<1> QED
  BY <1>5, <1>6, <1>8, <1>9, <1>10, <1>11 DEF Inv, Typed, AllHeld

LEMMA OtherInv ==
  ASSUME Inv, StartThreads \/ Time \/ UNCHANGED vars
  PROVE  Inv'
<1>1. /\ Typed /\ AllHeld
      /\ UNCHANGED <<kv, at, cmd, issued, wal, rdb, saver, script, crashes,
                     settling, clash, held, before>>
      /\ phase' \in {"up", "boot"} /\ safe' \subseteq Keys /\ now' \in Int
  BY DEF Inv, StartThreads, Time, Tick, Files, vars, masterVars, history,
         Typed, ThreadsTyped, CrashTyped, HistoryTyped
<1>2. StoreTyped' /\ ThreadsTyped' /\ FilesTyped'
  BY <1>1 DEF Typed, StoreTyped, ThreadsTyped, FilesTyped
<1>3. SaverTyped' /\ CrashTyped' /\ HistoryTyped'
  BY <1>1 DEF Typed, SaverTyped, CrashTyped, HistoryTyped
<1>4. AllHeld'
  BY <1>1 DEF AllHeld, StoreHeld, CopyHeld, CmdHeld, LogHeld, LinesHeld, ScriptHeld
<1> QED
  BY <1>2, <1>3, <1>4 DEF Inv, Typed

LEMMA NextInv == Inv /\ [Next]_vars => Inv'
<1> SUFFICES ASSUME Inv, [Next]_vars PROVE Inv'
  OBVIOUS
<1>1. CASE \E h \in Handlers : (\E c \in Inputs : UpExecute(h, c)) \/ UpLog(h) \/ UpAnswer(h)
  BY <1>1, ExecuteInv, LogInv, AnswerInv
<1>2. CASE UpWake \/ UpTruncate \/ UpReadClock \/ UpCopyStore \/ UpOpenFile
  BY <1>2, WakeInv, TruncateInv, ReadClockInv, CopyStoreInv, OpenFileInv
<1>3. CASE (\E k \in Keys : UpWriteLine(k)) \/ UpCloseFile \/ UpClean
  BY <1>3, WriteLineInv, WakeInv, CleanInv
<1>4. CASE Crash \/ Load \/ StartThreads \/ Time \/ UNCHANGED vars
  BY <1>4, CrashInv, LoadInv, OtherInv
<1> QED
  BY <1>1, <1>2, <1>3, <1>4 DEF Next

\* The invariant holds in every reachable state.
THEOREM Invariance == Spec => []Inv
BY InitInv, NextInv, PTL DEF Spec

\* The store, the threads' variables, the two files and what a restart reads
\* of them have their types, in a crash and a restart as well (Server.cpp,
\* handleClient, loadData and saveSnapshot).
THEOREM TypeCorrect == Spec => []TypeOK
<1>1. Inv => TypeOK
  <2> SUFFICES ASSUME Inv PROVE TypeOK
    OBVIOUS
  <2>1. MasterTypeOK
    BY DEF Inv, Typed, StoreTyped, InOrder, ThreadsTyped, FilesTyped, Line, SaverTyped, MasterTypeOK
  <2> QED
    BY <2>1 DEF Inv, Typed, CrashTyped, Fed, HistoryTyped, TypeOK
<1> QED
  BY <1>1, Invariance, PTL

\* A restart gives no key a value it has not had in a running server: replaying
\* data.log on top of a snapshot counts no counter twice (Server.cpp, loadData;
\* KVStore.cpp, saveSnapshot).
THEOREM NothingInvented == Spec => []NoInventedValue
<1>1. Inv => NoInventedValue
  BY DEF Inv, AllHeld, StoreHeld, NoInventedValue
<1> QED
  BY <1>1, Invariance, PTL
-----------------------------------------------------------------------------
(***************************************************************************)
(* Exact recovery.                                                         *)
(***************************************************************************)
LEMMA EndsAppend ==
  ASSUME NEW S, NEW l \in Seq(S), NEW c, NEW k, NEW n
  PROVE  /\ ~On(c, k) /\ Ends(l, k, n) => Ends(Append(l, c), k, n)
         /\ ~On(c, k) /\ Silent(l, k) => Silent(Append(l, c), k)
         /\ On(c, k) /\ Restores(c) => Ends(Append(l, c), k, Left(c))
<1> DEFINE m == Append(l, c)
<1>1. /\ Len(l) \in Nat /\ Len(m) = Len(l) + 1 /\ m[Len(l) + 1] = c
      /\ \A i \in 1 .. Len(l) : m[i] = l[i]
  OBVIOUS
<1> HIDE DEF m
<1>2. ASSUME ~On(c, k), Ends(l, k, n) PROVE Ends(m, k, n)
  <2>1. PICK i \in 1 .. Len(l) : /\ On(l[i], k) /\ Restores(l[i]) /\ n = Left(l[i])
                                 /\ \A j \in i + 1 .. Len(l) : ~On(l[j], k)
    BY <1>2 DEF Ends
  <2>2. i \in 1 .. Len(m) /\ m[i] = l[i]
    BY <1>1
  <2>3. ASSUME NEW j \in i + 1 .. Len(m) PROVE ~On(m[j], k)
    <3>1. (j \in i + 1 .. Len(l) /\ m[j] = l[j]) \/ m[j] = c
      BY <1>1
    <3> QED
      BY <1>2, <2>1, <3>1
  <2> QED
    BY <2>1, <2>2, <2>3 DEF Ends
<1>3. ASSUME ~On(c, k), Silent(l, k) PROVE Silent(m, k)
  <2>1. \A j \in 1 .. Len(m) : (j \in 1 .. Len(l) /\ m[j] = l[j]) \/ m[j] = c
    BY <1>1
  <2> QED
    BY <1>3, <2>1 DEF Silent
<1>4. ASSUME On(c, k), Restores(c) PROVE Ends(m, k, Left(c))
  <2>1. Len(m) \in 1 .. Len(m) /\ m[Len(m)] = c /\ \A j \in Len(m) + 1 .. Len(m) : FALSE
    BY <1>1
  <2> QED
    BY <1>4, <2>1 DEF Ends
<1> QED
  BY <1>2, <1>3, <1>4 DEF m

LEMMA EndsTail ==
  ASSUME NEW S, NEW l \in Seq(S), l # <<>>, NEW k, NEW n
  PROVE  /\ Ends(l, k, n) =>
              \/ Ends(Tail(l), k, n)
              \/ /\ On(Head(l), k) /\ Restores(Head(l)) /\ n = Left(Head(l))
                 /\ Silent(Tail(l), k)
         /\ Silent(l, k) => ~On(Head(l), k) /\ Silent(Tail(l), k)
<1> DEFINE m == Tail(l)
<1>1. /\ Len(l) \in Nat /\ Len(m) = Len(l) - 1 /\ Head(l) = l[1] /\ 1 \in 1 .. Len(l)
      /\ \A i \in 1 .. Len(m) : m[i] = l[i + 1]
  OBVIOUS
<1> HIDE DEF m
<1>2. ASSUME Ends(l, k, n)
      PROVE  \/ Ends(m, k, n)
             \/ On(Head(l), k) /\ Restores(Head(l)) /\ n = Left(Head(l)) /\ Silent(m, k)
  <2>1. PICK i \in 1 .. Len(l) : /\ On(l[i], k) /\ Restores(l[i]) /\ n = Left(l[i])
                                 /\ \A j \in i + 1 .. Len(l) : ~On(l[j], k)
    BY <1>2 DEF Ends
  <2>2. CASE i = 1
    <3>1. \A j \in 1 .. Len(m) : j + 1 \in i + 1 .. Len(l)
      BY <1>1, <2>2
    <3> QED
      BY <1>1, <2>1, <2>2, <3>1 DEF Silent
  <2>3. CASE i # 1
    <3>1. i - 1 \in 1 .. Len(m) /\ m[i - 1] = l[i]
      BY <1>1, <2>3
    <3>2. \A j \in (i - 1) + 1 .. Len(m) : j + 1 \in i + 1 .. Len(l) /\ m[j] = l[j + 1]
      BY <1>1, <2>3
    <3>3. Ends(m, k, n)
      BY <2>1, <3>1, <3>2 DEF Ends
    <3> QED
      BY <3>3
  <2> QED
    BY <2>2, <2>3
<1>3. ASSUME Silent(l, k) PROVE ~On(Head(l), k) /\ Silent(m, k)
  <2>1. \A j \in 1 .. Len(m) : j + 1 \in 1 .. Len(l) /\ m[j] = l[j + 1]
    BY <1>1
  <2> QED
    BY <1>1, <1>3, <2>1 DEF Silent
<1> QED
  BY <1>2, <1>3 DEF m

LEMMA KeptLasts ==
  ASSUME NEW k, NEW n
  PROVE  /\ \A c : Lasting(Left(c))
         /\ \A l : Ends(l, k, n) => Lasting(n)
         /\ Kept(k, n) => Lasting(n)
<1>1. \A c : Lasting(Left(c))
  BY DEF Lasting, Left
<1>2. \A l : Ends(l, k, n) => Lasting(n)
  BY <1>1 DEF Ends
<1>3. InSnapshot(k, n) => Lasting(n)
  BY DEF InSnapshot, Lasting
<1> QED
  BY <1>1, <1>2, <1>3 DEF Kept

\* What the files have, the script of a restart has.
LEMMA ScriptKeeps ==
  ASSUME Typed, NEW k, NEW n, Kept(k, n)
  PROVE  Ends(LoadScript, k, n) \/ (n = Absent /\ Silent(LoadScript, k))
<1> DEFINE l == LoadScript
<1>1. /\ Len(wal) \in Nat /\ Len(rdb) \in Nat
      /\ Len(l) = Len(rdb) + Len(wal)
      /\ \A i \in 1 .. Len(rdb) : l[i] = LineCmd(rdb[i])
      /\ \A i \in 1 .. Len(wal) : l[Len(rdb) + i] = wal[i]
  BY ScriptOfFiles DEF Typed, FilesTyped
<1> HIDE DEF l
<1>2. \A i \in 1 .. Len(rdb) : On(l[i], k) <=> rdb[i].key = k
  <2>1. ASSUME NEW i \in 1 .. Len(rdb) PROVE On(l[i], k) <=> rdb[i].key = k
    <3>1. l[i] = LineCmd(rdb[i])
      BY <1>1
    <3>2. l[i].op = "SET" /\ l[i].key = rdb[i].key
      BY <3>1 DEF LineCmd, SetCmd
    <3> QED
      BY <3>2 DEF On, Replayed
  <2> QED
    BY <2>1
<1>3. \A j \in 1 .. Len(l) : \/ j \in 1 .. Len(rdb)
                             \/ /\ j - Len(rdb) \in 1 .. Len(wal)
                                /\ l[j] = wal[j - Len(rdb)]
  <2>1. ASSUME NEW j \in 1 .. Len(l), j \notin 1 .. Len(rdb)
        PROVE  j - Len(rdb) \in 1 .. Len(wal) /\ l[j] = wal[j - Len(rdb)]
    <3>1. j - Len(rdb) \in 1 .. Len(wal) /\ Len(rdb) + (j - Len(rdb)) = j
      BY <1>1, <2>1
    <3> QED
      BY <1>1, <3>1
  <2> QED
    BY <2>1
<1>4. CASE Ends(wal, k, n)
  <2>1. PICK i \in 1 .. Len(wal) : /\ On(wal[i], k) /\ Restores(wal[i]) /\ n = Left(wal[i])
                                   /\ \A j \in i + 1 .. Len(wal) : ~On(wal[j], k)
    BY <1>4 DEF Ends
  <2>2. Len(rdb) + i \in 1 .. Len(l) /\ l[Len(rdb) + i] = wal[i]
    BY <1>1
  <2>3. ASSUME NEW j \in Len(rdb) + i + 1 .. Len(l) PROVE ~On(l[j], k)
    <3>1. j \in 1 .. Len(l) /\ j \notin 1 .. Len(rdb) /\ j - Len(rdb) \in i + 1 .. Len(wal)
      BY <1>1
    <3> QED
      BY <1>3, <2>1, <3>1
  <2>4. Ends(l, k, n)
    BY <2>1, <2>2, <2>3 DEF Ends
  <2> QED
    BY <2>4 DEF l
<1>5. CASE Silent(wal, k) /\ InSnapshot(k, n)
  <2>1. \A j \in 1 .. Len(l) : j \notin 1 .. Len(rdb) => ~On(l[j], k)
    BY <1>3, <1>5 DEF Silent
  <2>2. CASE n = Absent /\ \A i \in 1 .. Len(rdb) : rdb[i].key # k
    <3>1. Silent(l, k)
      BY <1>2, <2>1, <2>2 DEF Silent
    <3> QED
      BY <2>2, <3>1 DEF l
  <2>3. CASE \E i \in 1 .. Len(rdb) : /\ rdb[i].key = k /\ rdb[i].ttl = NoTtl
                                     /\ n = [value |-> rdb[i].value, expiry |-> NoExpiry]
                                     /\ \A j \in i + 1 .. Len(rdb) : rdb[j].key # k
    <3>1. PICK i \in 1 .. Len(rdb) : /\ rdb[i].key = k /\ rdb[i].ttl = NoTtl
                                     /\ n = [value |-> rdb[i].value, expiry |-> NoExpiry]
                                     /\ \A j \in i + 1 .. Len(rdb) : rdb[j].key # k
      BY <2>3
    <3>2. i \in 1 .. Len(l) /\ l[i] = LineCmd(rdb[i]) /\ On(l[i], k)
      BY <1>1, <1>2, <3>1
    <3>3. Restores(l[i]) /\ n = Left(l[i])
      BY <3>1, <3>2 DEF Restores, Left, LineCmd, SetCmd
    <3>4. ASSUME NEW j \in i + 1 .. Len(l) PROVE ~On(l[j], k)
      <4>1. j \in 1 .. Len(l) /\ (j \in 1 .. Len(rdb) => j \in i + 1 .. Len(rdb))
        BY <1>1
      <4> QED
        BY <1>2, <2>1, <3>1, <4>1
    <3>5. Ends(l, k, n)
      BY <3>2, <3>3, <3>4 DEF Ends
    <3> QED
      BY <3>5 DEF l
  <2> QED
    BY <1>5, <2>2, <2>3 DEF InSnapshot
<1> QED
  BY <1>4, <1>5 DEF Kept

LEMMA InitRecoverable == Init => Recoverable
<1> SUFFICES ASSUME Init PROVE Recoverable
  OBVIOUS
<1>1. /\ phase = "up" /\ wal = <<>> /\ rdb = <<>> /\ settling = {} /\ saver.pc = "truncate"
      /\ \A h \in Handlers : at[h] = "idle"
      /\ \A k \in Keys : kv.store[k] = Absent
      /\ safe = Keys
  BY DEF Init, MasterInit, AllIdle, NotSaving, EmptyStore
<1>2. SafeKept
  BY <1>1 DEF SafeKept, Saving, Kept, Silent, InSnapshot, NoneUnlogged, Unlogged
<1>3. RanAlone /\ Settled /\ Booting
  BY <1>1 DEF RanAlone, Unlogged, Settled, Saving, Booting
<1> QED
  BY <1>2, <1>3 DEF Recoverable

(***************************************************************************)
(* Steps that execute nothing and log nothing.                             *)
(***************************************************************************)
NoneNewUnlogged ==
  \A g \in Handlers : at'[g] = "log" => at[g] = "log" /\ cmd'[g] = cmd[g]

LastingKept == \A k \in Keys : Lasting(kv.store[k]) => kv'.store[k] = kv.store[k]

LEMMA QuietAlone ==
  ASSUME RanAlone, NoneNewUnlogged, LastingKept, UNCHANGED clash
  PROVE  RanAlone'
<1>1. \A g \in Handlers, k \in Keys \ clash : Unlogged(g, k)' => Unlogged(g, k) /\ cmd'[g] = cmd[g]
  BY DEF NoneNewUnlogged, Unlogged
<1>2. \A c : Lasting(Left(c))
  BY KeptLasts
<1>3. \A g, h \in Handlers :
        \A k \in Keys \ clash : Unlogged(g, k)' /\ Unlogged(h, k)' => g = h
  BY <1>1 DEF RanAlone
<1>4. ASSUME NEW h \in Handlers, NEW k \in Keys \ clash, Unlogged(h, k)', Restores(cmd'[h])
      PROVE  kv'.store[k] = Left(cmd'[h])
  <2>1. Unlogged(h, k) /\ cmd'[h] = cmd[h]
    BY <1>1, <1>4
  <2>2. kv.store[k] = Left(cmd[h])
    BY <1>4, <2>1 DEF RanAlone
  <2>3. Lasting(kv.store[k])
    BY <1>2, <2>2
  <2> QED
    BY <2>1, <2>2, <2>3 DEF LastingKept
<1> QED
  BY <1>3, <1>4 DEF RanAlone, Restores, Left

\* The step leaves k alone: no handler has executed a command on it, and the
\* store has it as before.
Spared(k) ==
  /\ NoneUnlogged(k) => NoneUnlogged(k)'
  /\ Lasting(kv.store[k]) => kv'.store[k] = kv.store[k]

LEMMA QuietSpares ==
  ASSUME NoneNewUnlogged, LastingKept, NEW k \in Keys
  PROVE  Spared(k)
BY DEF NoneNewUnlogged, LastingKept, Spared, NoneUnlogged, Unlogged

LEMMA SparedSafe ==
  ASSUME SafeKept, UNCHANGED <<phase, before, wal, rdb>>, Saving' => Saving,
         safe' \subseteq safe, \A k \in safe' : Spared(k)
  PROVE  SafeKept'
<1>1. ASSUME NEW k \in safe', phase = "up"
      PROVE  /\ Kept(k, kv.store[k])' /\ NoneUnlogged(k)'
             /\ Saving' => Ends(wal, k, kv.store[k])'
  <2>1. PICK n : n = kv.store[k]
    OBVIOUS
  <2>2. Kept(k, n) /\ NoneUnlogged(k) /\ (Saving => Ends(wal, k, n))
    BY <1>1, <2>1 DEF SafeKept
  <2>3. Lasting(kv.store[k])
    BY <2>1, <2>2, KeptLasts
  <2>4. kv'.store[k] = n /\ NoneUnlogged(k)'
    BY <1>1, <2>1, <2>2, <2>3 DEF Spared
  <2>5. Kept(k, n)' /\ (Saving' => Ends(wal, k, n)')
    BY <2>2 DEF Kept, Ends, Silent, InSnapshot
  <2> QED
    BY <2>4, <2>5
<1>2. ASSUME NEW k \in before.safe, phase = "boot"
      PROVE  Kept(k, before.store[k])'
  BY <1>2 DEF SafeKept, Kept, Ends, Silent, InSnapshot
<1> QED
  BY <1>1, <1>2 DEF SafeKept

LEMMA SparedSettled ==
  ASSUME Settled, UNCHANGED <<saver, wal, rdb>>,
         settling' \subseteq settling, \A k \in settling' : Spared(k)
  PROVE  Settled'
<1>1. \A k \in settling' : NoneUnlogged(k)' /\ kv'.store[k] = kv.store[k]
  BY DEF Settled, Spared
<1>2. ~Saving' => settling' = {}
  BY DEF Saving, Settled
<1>3. \A k \in settling' : /\ NoneUnlogged(k)' /\ Lasting(kv'.store[k])
                           /\ \A i \in 1 .. Len(wal') : wal'[i].key # k
  BY <1>1 DEF Settled
<1>4. saver'.pc \in {"open", "write"} => \A k \in settling' : saver'.copy[k] = kv'.store[k]
  BY <1>1 DEF Settled
<1>5. saver'.pc = "write" =>
        /\ \A i \in 1 .. Len(rdb') : /\ rdb'[i].key \in SavedKeys(saver'.copy, saver'.clock)
                                     /\ rdb'[i] = SavedLine(saver'.copy, rdb'[i].key, saver'.clock)
        /\ \A i, j \in 1 .. Len(rdb') : rdb'[i].key = rdb'[j].key => i = j
  BY DEF Settled
<1> QED
  BY <1>2, <1>3, <1>4, <1>5 DEF Settled, Lasting, SavedKeys, SavedLine

(***************************************************************************)
(* The actions.                                                            *)
(***************************************************************************)
LEMMA ExecuteRecoverable ==
  ASSUME RoomForAll, Inv, Recoverable, NEW h \in Handlers, NEW c \in Inputs, UpExecute(h, c)
  PROVE  Recoverable'
<1>1. /\ SafeKept /\ RanAlone /\ Settled
      /\ c \in AnyCommand /\ c \in Command /\ c.key \in Keys
      /\ InOrder(kv) /\ now \in Int
      /\ at \in [Handlers -> {"idle", "log", "forward"}]
      /\ cmd \in [Handlers -> Command \cup {Nothing}]
      /\ safe \subseteq Keys /\ settling \subseteq Keys
  BY InputsAssumption, CommandIsAny
     DEF Inv, Typed, StoreTyped, ThreadsTyped, HistoryTyped, Recoverable, Command
<1>2. /\ at[h] = "idle" /\ kv' = Exec(kv, c, now)
      /\ UNCHANGED <<wal, rdb, saver, before>> /\ phase' = phase /\ phase = "up"
  BY DEF UpExecute, Execute, Files, Up
<1>3. /\ safe' = IF Changes(c) THEN safe \ {c.key} ELSE safe
      /\ settling' = IF Changes(c) THEN settling \ {c.key} ELSE settling
      /\ clash' = IF Changes(c) /\ OthersUnlogged(h, c.key) THEN clash \cup {c.key} ELSE clash
  BY DEF UpExecute
<1>4. Recorded(kv, c, now) => Changes(c)
  BY DEF Recorded, Changes
<1>5. \A g \in Handlers :
        /\ at'[g] = IF g = h /\ Recorded(kv, c, now) THEN "log" ELSE at[g]
        /\ cmd'[g] = IF g = h /\ Recorded(kv, c, now) THEN c ELSE cmd[g]
  BY <1>1 DEF UpExecute, Execute
<1>6. ASSUME NEW x \in Keys, x # c.key \/ ~Changes(c)
      PROVE  Spared(x)
  <2>1. NoneUnlogged(x) => NoneUnlogged(x)'
    BY <1>4, <1>5, <1>6 DEF NoneUnlogged, Unlogged
  <2>2. ASSUME Lasting(kv.store[x]) PROVE kv'.store[x] = kv.store[x]
    <3>1. CASE x # c.key
      BY <1>1, <1>2, <2>2, <3>1, ExecOther
    <3>2. CASE ~Changes(c) /\ c.op \in Writes
      BY <3>2 DEF Changes
    <3>3. CASE c.op \notin Writes
      <4>1. c.op \in Reads
        BY <1>1, <3>3 DEF AnyCommand
      <4> QED
        BY <1>1, <1>2, <2>2, <4>1, ExecRead
    <3> QED
      BY <1>6, <3>1, <3>2, <3>3
  <2> QED
    BY <2>1, <2>2 DEF Spared
<1>7. SafeKept'
  <2>1. safe' \subseteq safe /\ \A k \in safe' : Spared(k)
    BY <1>1, <1>3, <1>6
  <2>2. Saving' => Saving
    BY <1>2 DEF Saving
  <2> QED
    BY <1>1, <1>2, <2>1, <2>2, SparedSafe
<1>8. Settled'
  <2>1. settling' \subseteq settling /\ \A k \in settling' : Spared(k)
    BY <1>1, <1>3, <1>6
  <2> QED
    BY <1>1, <1>2, <2>1, SparedSettled
<1>9. RanAlone'
  <2>1. ASSUME NEW f \in Handlers, NEW g \in Handlers, NEW k \in Keys \ clash',
               Unlogged(f, k)', Unlogged(g, k)'
        PROVE  f = g
    BY <1>1, <1>3, <1>4, <1>5, <2>1 DEF RanAlone, Unlogged, OthersUnlogged
  <2>2. ASSUME NEW g \in Handlers, NEW k \in Keys \ clash', Unlogged(g, k)', Restores(cmd'[g])
        PROVE  kv'.store[k] = Left(cmd'[g])
    <3>1. CASE g = h /\ Recorded(kv, c, now)
      <4>1. k = c.key /\ cmd'[g] = c /\ Restores(c)
        BY <1>5, <2>2, <3>1 DEF Unlogged
      <4>2. c.op = "SET" => Deadline(c.ttl, now) = NoExpiry
        BY <4>1 DEF Restores, Deadline
      <4>3. /\ c.op = "SET" => Exec(kv, c, now).store[c.key] =
                                [value |-> c.value, expiry |-> Deadline(c.ttl, now)]
            /\ c.op = "DEL" => Exec(kv, c, now).store[c.key] = Absent
        BY <1>1, ExecOwn
      <4>4. c.op = "SET" \/ c.op = "DEL"
        BY <4>1 DEF Restores
      <4> QED
        BY <1>2, <4>1, <4>2, <4>3, <4>4 DEF Left
    <3>2. CASE ~(g = h /\ Recorded(kv, c, now))
      <4>1. Unlogged(g, k) /\ cmd'[g] = cmd[g] /\ k \notin clash
        BY <1>3, <1>5, <2>2, <3>2 DEF Unlogged
      <4>2. kv.store[k] = Left(cmd[g])
        BY <1>1, <2>2, <4>1 DEF RanAlone
      <4>3. k # c.key \/ ~Changes(c)
        BY <1>2, <1>3, <4>1 DEF OthersUnlogged, Unlogged
      <4>4. Lasting(kv.store[k])
        BY <4>2, KeptLasts
      <4> QED
        BY <1>6, <4>1, <4>2, <4>3, <4>4 DEF Spared
    <3> QED
      BY <3>1, <3>2
  <2> QED
    BY <2>1, <2>2 DEF RanAlone, Restores, Left
<1>10. Booting'
  BY <1>2 DEF Booting
<1> QED
  BY <1>7, <1>8, <1>9, <1>10 DEF Recoverable

LEMMA LogRecoverable ==
  ASSUME Inv, Recoverable, NEW h \in Handlers, UpLog(h)
  PROVE  Recoverable'
<1> DEFINE c == cmd[h]
<1>1. /\ SafeKept /\ RanAlone /\ Settled
      /\ at[h] = "log" /\ c.key \in Keys /\ c.op \in Writes /\ wal \in Seq(Command)
      /\ wal' = Append(wal, c) /\ at' = [at EXCEPT ![h] = "forward"]
      /\ UNCHANGED <<kv, cmd, rdb, saver, settling, before>>
      /\ phase' = phase /\ phase = "up"
      /\ at \in [Handlers -> {"idle", "log", "forward"}]
  BY DEF Inv, Typed, ThreadsTyped, FilesTyped, Recoverable, UpLog, Log, Up, Command
<1>2. /\ safe' = IF Restores(c) /\ c.key \notin clash THEN safe \cup {c.key} ELSE safe
      /\ clash' = IF OthersUnlogged(h, c.key) THEN clash ELSE clash \ {c.key}
  BY DEF UpLog
<1> HIDE DEF c
<1>3. \A g \in Handlers : at'[g] = IF g = h THEN "forward" ELSE at[g]
  BY <1>1
<1>4. Unlogged(h, c.key)
  BY <1>1 DEF Unlogged, c
<1>5. \A g \in Handlers, k \in Keys : Unlogged(g, k)' => g # h /\ Unlogged(g, k)
  BY <1>1, <1>3 DEF Unlogged
<1>6. ASSUME NEW k \in Keys, NoneUnlogged(k)
      PROVE  NoneUnlogged(k)' /\ k # c.key /\ ~On(c, k)
  BY <1>4, <1>5, <1>6 DEF NoneUnlogged, On
<1>7. SafeKept'
  <2>1. ASSUME NEW k \in safe'
        PROVE  /\ Kept(k, kv.store[k])' /\ NoneUnlogged(k)'
               /\ Saving' => Ends(wal, k, kv.store[k])'
    <3>1. PICK n : n = kv.store[k]
      OBVIOUS
    <3>2. CASE k \in safe
      <4>1. Kept(k, n) /\ NoneUnlogged(k) /\ (Saving => Ends(wal, k, n)) /\ k \in Keys
        BY <1>1, <3>1, <3>2 DEF SafeKept, Inv, Typed, HistoryTyped
      <4>2. NoneUnlogged(k)' /\ ~On(c, k)
        BY <1>6, <4>1
      <4>3. /\ Ends(wal, k, n) => Ends(wal', k, n)
            /\ Silent(wal, k) => Silent(wal', k)
        BY <1>1, <4>2, EndsAppend
      <4>4. Kept(k, n)' /\ (Saving' => Ends(wal', k, n))
        BY <1>1, <4>1, <4>3 DEF Kept, InSnapshot, Saving
      <4> QED
        BY <1>1, <3>1, <4>2, <4>4
    <3>3. CASE k \notin safe
      <4>1. k = c.key /\ Restores(c) /\ k \notin clash
        BY <1>2, <2>1, <3>3
      <4>2. n = Left(c)
        BY <1>1, <1>4, <3>1, <4>1 DEF RanAlone, c
      <4>3. On(c, k)
        BY <4>1 DEF On, Restores, Replayed
      <4>4. Ends(wal', k, n)
        BY <1>1, <4>1, <4>2, <4>3, EndsAppend
      <4>5. NoneUnlogged(k)'
        BY <1>1, <1>4, <1>5, <4>1 DEF RanAlone, NoneUnlogged
      <4> QED
        BY <1>1, <3>1, <4>4, <4>5 DEF Kept
    <3> QED
      BY <3>2, <3>3
  <2> QED
    BY <1>1, <2>1 DEF SafeKept
<1>8. RanAlone'
  <2>1. ASSUME NEW g \in Handlers, NEW k \in Keys \ clash', Unlogged(g, k)'
        PROVE  k \notin clash
    BY <1>2, <1>5, <2>1 DEF OthersUnlogged
  <2>2. \A f, g \in Handlers :
          \A k \in Keys \ clash' : Unlogged(f, k)' /\ Unlogged(g, k)' => f = g
    BY <1>1, <1>5, <2>1 DEF RanAlone
  <2>3. \A g \in Handlers :
          \A k \in Keys \ clash' :
            Unlogged(g, k)' /\ Restores(cmd'[g]) => kv'.store[k] = Left(cmd'[g])
    BY <1>1, <1>5, <2>1 DEF RanAlone
  <2> QED
    BY <2>2, <2>3 DEF RanAlone, Restores, Left
<1>9. Settled'
  <2>1. ASSUME NEW k \in settling'
        PROVE  /\ NoneUnlogged(k)' /\ Lasting(kv'.store[k])
               /\ \A i \in 1 .. Len(wal') : wal'[i].key # k
    <3>1. /\ k \in Keys /\ NoneUnlogged(k) /\ Lasting(kv.store[k])
          /\ \A i \in 1 .. Len(wal) : wal[i].key # k
      BY <1>1 DEF Settled, Inv, Typed, HistoryTyped
    <3>2. \A i \in 1 .. Len(wal') : (i \in 1 .. Len(wal) /\ wal'[i] = wal[i]) \/ wal'[i] = c
      BY <1>1
    <3> QED
      BY <1>1, <1>6, <3>1, <3>2
  <2>2. ~Saving' => settling' = {}
    BY <1>1 DEF Saving, Settled
  <2>3. saver'.pc \in {"open", "write"} => \A k \in settling' : saver'.copy[k] = kv'.store[k]
    BY <1>1 DEF Settled
  <2>4. saver'.pc = "write" =>
          /\ \A i \in 1 .. Len(rdb') : /\ rdb'[i].key \in SavedKeys(saver'.copy, saver'.clock)
                                       /\ rdb'[i] = SavedLine(saver'.copy, rdb'[i].key, saver'.clock)
          /\ \A i, j \in 1 .. Len(rdb') : rdb'[i].key = rdb'[j].key => i = j
    BY <1>1 DEF Settled
  <2> QED
    BY <2>1, <2>2, <2>3, <2>4 DEF Settled, Lasting, SavedKeys, SavedLine
<1>10. Booting'
  BY <1>1 DEF Booting
<1> QED
  BY <1>7, <1>8, <1>9, <1>10 DEF Recoverable

LEMMA AnswerRecoverable ==
  ASSUME Inv, Recoverable, NEW h \in Handlers, UpAnswer(h)
  PROVE  Recoverable'
<1>1. /\ SafeKept /\ RanAlone /\ Settled
      /\ UNCHANGED <<kv, wal, rdb, saver, before, safe, settling, clash>>
      /\ phase' = phase /\ phase = "up"
      /\ at' = [at EXCEPT ![h] = "idle"] /\ cmd' = [cmd EXCEPT ![h] = Nothing]
      /\ at \in [Handlers -> {"idle", "log", "forward"}]
      /\ cmd \in [Handlers -> Command \cup {Nothing}]
  BY DEF Inv, Typed, ThreadsTyped, Recoverable, UpAnswer, Answer, Files, Up
<1>2. NoneNewUnlogged
  <2>1. \A g \in Handlers : /\ at'[g] = IF g = h THEN "idle" ELSE at[g]
                            /\ cmd'[g] = IF g = h THEN Nothing ELSE cmd[g]
    BY <1>1
  <2> QED
    BY <2>1 DEF NoneNewUnlogged
<1>3. LastingKept /\ (Saving' => Saving)
  BY <1>1 DEF LastingKept, Saving
<1>4. \A k \in Keys : Spared(k)
  BY <1>2, <1>3, QuietSpares
<1>5. safe' \subseteq safe /\ settling' \subseteq settling /\ safe \subseteq Keys /\ settling \subseteq Keys
  BY <1>1 DEF Inv, Typed, HistoryTyped
<1>6. SafeKept'
  BY <1>1, <1>3, <1>4, <1>5, SparedSafe
<1>7. Settled'
  BY <1>1, <1>4, <1>5, SparedSettled
<1>8. RanAlone'
  BY <1>1, <1>2, <1>3, QuietAlone
<1>9. Booting'
  BY <1>1 DEF Booting
<1> QED
  BY <1>6, <1>7, <1>8, <1>9 DEF Recoverable

LEMMA CleanRecoverable ==
  ASSUME Inv, Recoverable, UpClean
  PROVE  Recoverable'
<1>1. /\ SafeKept /\ RanAlone /\ Settled /\ kv' = CleanOp(kv, now)
      /\ UNCHANGED <<at, cmd, wal, rdb, saver, before, safe, settling, clash>>
      /\ phase' = phase /\ phase = "up"
      /\ \A e \in kv.heap : e[1] # NoExpiry
  BY DEF Inv, Typed, StoreTyped, Recoverable, UpClean, Clean, Files, Up
<1>2. NoneNewUnlogged /\ (Saving' => Saving)
  BY <1>1 DEF NoneNewUnlogged, Saving
<1>3. LastingKept
  BY <1>1, CleanKeeps DEF LastingKept
<1>4. \A k \in Keys : Spared(k)
  BY <1>2, <1>3, QuietSpares
<1>5. safe' \subseteq safe /\ settling' \subseteq settling /\ safe \subseteq Keys /\ settling \subseteq Keys
  BY <1>1 DEF Inv, Typed, HistoryTyped
<1>6. SafeKept'
  BY <1>1, <1>2, <1>4, <1>5, SparedSafe
<1>7. Settled'
  BY <1>1, <1>4, <1>5, SparedSettled
<1>8. RanAlone'
  BY <1>1, <1>2, <1>3, QuietAlone
<1>9. Booting'
  BY <1>1 DEF Booting
<1> QED
  BY <1>6, <1>7, <1>8, <1>9 DEF Recoverable

LEMMA IdleRecoverable ==
  ASSUME Recoverable, Time \/ UNCHANGED vars
  PROVE  Recoverable'
<1>1. UNCHANGED <<kv, at, cmd, wal, rdb, saver, phase, script, safe, settling, clash, before>>
  BY DEF Time, Tick, Files, vars, masterVars, history
<1>2. NoneNewUnlogged /\ LastingKept /\ (Saving' => Saving)
  BY <1>1 DEF NoneNewUnlogged, LastingKept, Saving
<1>3. \A k : Spared(k)
  BY <1>1 DEF Spared, NoneUnlogged, Unlogged
<1>4. SafeKept' /\ Settled' /\ RanAlone'
  BY <1>1, <1>2, <1>3, SparedSafe, SparedSettled, QuietAlone DEF Recoverable
<1>5. Booting'
  BY <1>1 DEF Recoverable, Booting, Ends, Silent
<1> QED
  BY <1>4, <1>5 DEF Recoverable

\* While the files are rewritten, data.log keeps the safe keys.
LEMMA SavingSafe ==
  ASSUME SafeKept, Saving, phase = "up", UNCHANGED <<phase, kv, at, cmd, wal, safe>>
  PROVE  SafeKept'
<1>1. ASSUME NEW k \in safe'
      PROVE  /\ Kept(k, kv.store[k])' /\ NoneUnlogged(k)'
             /\ Saving' => Ends(wal, k, kv.store[k])'
  <2>1. PICK n : n = kv.store[k]
    OBVIOUS
  <2>2. Ends(wal, k, n) /\ NoneUnlogged(k)
    BY <1>1, <2>1 DEF SafeKept
  <2>3. Ends(wal', k, n) /\ NoneUnlogged(k)'
    BY <2>2 DEF Ends, NoneUnlogged, Unlogged
  <2> QED
    BY <2>1, <2>3 DEF Kept
<1> QED
  BY <1>1 DEF SafeKept

LEMMA SaverAlone ==
  ASSUME RanAlone, UNCHANGED <<kv, at, cmd, clash>>
  PROVE  RanAlone'
<1>1. NoneNewUnlogged /\ LastingKept
  BY DEF NoneNewUnlogged, LastingKept
<1> QED
  BY <1>1, QuietAlone

LEMMA WakeRecoverable ==
  ASSUME Recoverable, UpWake
  PROVE  Recoverable'
<1>1. /\ SafeKept /\ RanAlone /\ Settled /\ saver.pc = "asleep" /\ saver'.pc = "truncate"
      /\ UNCHANGED <<kv, at, cmd, wal, rdb, before, safe, settling, clash>>
      /\ phase' = phase /\ phase = "up"
  BY DEF Recoverable, UpWake, Wake, NotSaving, Files, Up
<1>2. ~Saving /\ ~Saving' /\ settling = {}
  BY <1>1 DEF Saving, Settled
<1>3. \A k : Spared(k)
  BY <1>1 DEF Spared, NoneUnlogged, Unlogged
<1>4. SafeKept' /\ RanAlone'
  BY <1>1, <1>2, <1>3, SparedSafe, SaverAlone
<1>5. Settled' /\ Booting'
  BY <1>1, <1>2 DEF Settled, Booting
<1> QED
  BY <1>4, <1>5 DEF Recoverable

LEMMA TruncateRecoverable ==
  ASSUME Inv, Recoverable, UpTruncate
  PROVE  Recoverable'
<1>1. /\ RanAlone /\ saver'.pc = "clock" /\ wal' = <<>> /\ safe' = {}
      /\ UNCHANGED <<kv, at, cmd, clash>>
      /\ phase' = phase /\ phase = "up"
  BY DEF Recoverable, UpTruncate, Truncate, Up, Inv, Typed, SaverTyped
<1>2. \A k \in settling' : NoneUnlogged(k) /\ Lasting(kv.store[k])
  BY DEF UpTruncate, NoneUnlogged, Lasting
<1>3. SafeKept' /\ RanAlone'
  BY <1>1, SaverAlone DEF SafeKept
<1>4. Settled'
  <2>1. Saving' /\ saver'.pc \notin {"open", "write"} /\ Len(wal') = 0
    BY <1>1 DEF Saving
  <2>2. \A k \in settling' : NoneUnlogged(k)' /\ Lasting(kv'.store[k])
    BY <1>1, <1>2 DEF NoneUnlogged, Unlogged
  <2>3. \A k \in settling' : \A i \in 1 .. Len(wal') : wal'[i].key # k
    BY <2>1
  <2> QED
    BY <2>1, <2>2, <2>3 DEF Settled, Lasting
<1>5. Booting'
  BY <1>1 DEF Booting
<1> QED
  BY <1>3, <1>4, <1>5 DEF Recoverable

LEMMA ReadClockRecoverable ==
  ASSUME Inv, Recoverable, UpReadClock
  PROVE  Recoverable'
<1>1. /\ SafeKept /\ RanAlone /\ Settled /\ saver.pc = "clock" /\ saver'.pc = "copy"
      /\ UNCHANGED <<kv, at, cmd, wal, rdb, safe, settling, clash>>
      /\ phase' = phase /\ phase = "up"
  BY DEF Recoverable, UpReadClock, ReadClock, Files, Up, Inv, Typed, SaverTyped
<1>2. Saving /\ Saving'
  BY <1>1 DEF Saving
<1>3. SafeKept' /\ RanAlone'
  BY <1>1, <1>2, SavingSafe, SaverAlone
<1>4. Settled'
  BY <1>1, <1>2 DEF Settled, Lasting, NoneUnlogged, Unlogged
<1>5. Booting'
  BY <1>1 DEF Booting
<1> QED
  BY <1>3, <1>4, <1>5 DEF Recoverable

LEMMA CopyStoreRecoverable ==
  ASSUME Inv, Recoverable, UpCopyStore
  PROVE  Recoverable'
<1>1. /\ SafeKept /\ RanAlone /\ Settled /\ saver.pc = "copy" /\ saver'.pc = "open"
      /\ saver'.copy = kv.store
      /\ UNCHANGED <<kv, at, cmd, wal, rdb, safe, settling, clash>>
      /\ phase' = phase /\ phase = "up"
  BY DEF Recoverable, UpCopyStore, CopyStore, Files, Up, Inv, Typed, SaverTyped
<1>2. Saving /\ Saving'
  BY <1>1 DEF Saving
<1>3. SafeKept' /\ RanAlone'
  BY <1>1, <1>2, SavingSafe, SaverAlone
<1>4. Settled'
  BY <1>1, <1>2 DEF Settled, Lasting, NoneUnlogged, Unlogged
<1>5. Booting'
  BY <1>1 DEF Booting
<1> QED
  BY <1>3, <1>4, <1>5 DEF Recoverable

LEMMA OpenFileRecoverable ==
  ASSUME Inv, Recoverable, UpOpenFile
  PROVE  Recoverable'
<1>1. /\ SafeKept /\ RanAlone /\ Settled /\ saver.pc = "open" /\ saver'.pc = "write"
      /\ saver'.copy = saver.copy /\ rdb' = <<>>
      /\ UNCHANGED <<kv, at, cmd, wal, safe, settling, clash>>
      /\ phase' = phase /\ phase = "up"
  BY DEF Recoverable, UpOpenFile, OpenFile, Up, Inv, Typed, SaverTyped
<1>2. Saving /\ Saving' /\ Len(rdb') = 0
  BY <1>1 DEF Saving
<1>3. SafeKept' /\ RanAlone'
  BY <1>1, <1>2, SavingSafe, SaverAlone
<1>4. Settled'
  BY <1>1, <1>2 DEF Settled, Lasting, NoneUnlogged, Unlogged
<1>5. Booting'
  BY <1>1 DEF Booting
<1> QED
  BY <1>3, <1>4, <1>5 DEF Recoverable

LEMMA WriteLineRecoverable ==
  ASSUME Inv, Recoverable, NEW k \in Keys, UpWriteLine(k)
  PROVE  Recoverable'
<1> DEFINE line == SavedLine(saver.copy, k, saver.clock)
<1>1. /\ SafeKept /\ RanAlone /\ Settled /\ saver.pc = "write"
      /\ k \in SavedKeys(saver.copy, saver.clock)
      /\ \A i \in 1 .. Len(rdb) : rdb[i].key # k
      /\ rdb' = Append(rdb, line) /\ rdb \in Seq(Line)
      /\ UNCHANGED <<saver, kv, at, cmd, wal, safe, settling, clash>>
      /\ phase' = phase /\ phase = "up"
  BY DEF Recoverable, UpWriteLine, WriteLine, Unwritten, Up, Inv, Typed, FilesTyped
<1>2. line.key = k
  BY DEF SavedLine
<1> HIDE DEF line
<1>3. Saving /\ Saving'
  BY <1>1 DEF Saving
<1>4. SafeKept' /\ RanAlone'
  BY <1>1, <1>3, SavingSafe, SaverAlone
<1>5. \A i \in 1 .. Len(rdb') : \/ i \in 1 .. Len(rdb) /\ rdb'[i] = rdb[i]
                                \/ i = Len(rdb) + 1 /\ rdb'[i] = line
  BY <1>1
<1>6. \A i \in 1 .. Len(rdb') : /\ rdb'[i].key \in SavedKeys(saver.copy, saver.clock)
                                /\ rdb'[i] = SavedLine(saver.copy, rdb'[i].key, saver.clock)
  <2>1. \A i \in 1 .. Len(rdb) : /\ rdb[i].key \in SavedKeys(saver.copy, saver.clock)
                                 /\ rdb[i] = SavedLine(saver.copy, rdb[i].key, saver.clock)
    BY <1>1 DEF Settled
  <2>2. line = SavedLine(saver.copy, line.key, saver.clock)
    BY <1>2 DEF line
  <2> QED
    BY <1>1, <1>2, <1>5, <2>1, <2>2
<1>7. \A i, j \in 1 .. Len(rdb') : rdb'[i].key = rdb'[j].key => i = j
  <2>1. \A i, j \in 1 .. Len(rdb) : rdb[i].key = rdb[j].key => i = j
    BY <1>1 DEF Settled
  <2> QED
    BY <1>1, <1>2, <1>5, <2>1
<1>8. Settled'
  <2>1. \A x \in settling' : /\ NoneUnlogged(x)' /\ Lasting(kv'.store[x])
                             /\ \A i \in 1 .. Len(wal') : wal'[i].key # x
                             /\ saver'.copy[x] = kv'.store[x]
    BY <1>1 DEF Settled, NoneUnlogged, Unlogged
  <2> QED
    BY <1>1, <1>3, <1>6, <1>7, <2>1 DEF Settled, Lasting, SavedKeys, SavedLine
<1>9. Booting'
  BY <1>1 DEF Booting
<1> QED
  BY <1>4, <1>8, <1>9 DEF Recoverable

\* A key that settled is in the snapshot as it is in the store.
LEMMA CloseFileRecoverable ==
  ASSUME Inv, Recoverable, UpCloseFile
  PROVE  Recoverable'
<1>1. /\ SafeKept /\ RanAlone /\ Settled /\ saver.pc = "write" /\ saver'.pc = "asleep"
      /\ \A x \in SavedKeys(saver.copy, saver.clock) : \E i \in 1 .. Len(rdb) : rdb[i].key = x
      /\ UNCHANGED <<kv, at, cmd, wal, rdb, clash>>
      /\ safe' = safe \cup settling /\ settling' = {}
      /\ phase' = phase /\ phase = "up"
      /\ kv.store \in [Keys -> Node \cup {Absent}] /\ settling \subseteq Keys
  BY DEF Recoverable, UpCloseFile, CloseFile, Unwritten, NotSaving, Files, Up,
         Inv, Typed, StoreTyped, InOrder, StoreState, HistoryTyped
<1>2. ~Saving'
  BY <1>1 DEF Saving
<1>3. ASSUME NEW k \in settling
      PROVE  Kept(k, kv.store[k]) /\ NoneUnlogged(k)
  <2>1. /\ NoneUnlogged(k) /\ Lasting(kv.store[k]) /\ saver.copy[k] = kv.store[k]
        /\ k \in Keys
        /\ \A i \in 1 .. Len(wal) : wal[i].key # k
    BY <1>1, <1>3 DEF Settled
  <2>2. Silent(wal, k)
    BY <2>1 DEF Silent, On
  <2>3. \A i \in 1 .. Len(rdb) : /\ rdb[i].key \in SavedKeys(saver.copy, saver.clock)
                                 /\ rdb[i] = SavedLine(saver.copy, rdb[i].key, saver.clock)
    BY <1>1 DEF Settled
  <2>4. CASE kv.store[k] = Absent
    <3>1. k \notin SavedKeys(saver.copy, saver.clock)
      BY <2>1, <2>4 DEF SavedKeys
    <3>2. \A i \in 1 .. Len(rdb) : rdb[i].key # k
      BY <2>3, <3>1
    <3> QED
      BY <2>1, <2>2, <2>4, <3>2 DEF Kept, InSnapshot
  <2>5. CASE kv.store[k] # Absent
    <3>1. kv.store[k] \in Node /\ kv.store[k].expiry = NoExpiry
      BY <1>1, <2>1, <2>5 DEF Lasting
    <3>2. k \in SavedKeys(saver.copy, saver.clock)
      BY <2>1, <2>5, <3>1 DEF SavedKeys
    <3>3. PICK i \in 1 .. Len(rdb) : rdb[i].key = k
      BY <1>1, <3>2
    <3>4. rdb[i] = SavedLine(saver.copy, k, saver.clock)
      BY <2>3, <3>3
    <3>5. rdb[i].ttl = NoTtl /\ rdb[i].value = kv.store[k].value
      BY <2>1, <3>1, <3>4 DEF SavedLine
    <3>6. kv.store[k] = [value |-> rdb[i].value, expiry |-> NoExpiry]
      BY <3>1, <3>5 DEF Node
    <3>7. \A j \in i + 1 .. Len(rdb) : rdb[j].key # k
      <4>1. Len(rdb) \in Nat /\ \A a, b \in 1 .. Len(rdb) : rdb[a].key = rdb[b].key => a = b
        BY <1>1 DEF Settled, Inv, Typed, FilesTyped
      <4>2. \A j \in i + 1 .. Len(rdb) : j \in 1 .. Len(rdb) /\ j # i
        BY <4>1
      <4> QED
        BY <3>3, <4>1, <4>2
    <3> QED
      BY <2>1, <2>2, <3>3, <3>5, <3>6, <3>7 DEF Kept, InSnapshot
  <2> QED
    BY <2>4, <2>5
<1>4. SafeKept'
  <2>1. \A k \in safe' : Kept(k, kv.store[k]) /\ NoneUnlogged(k)
    BY <1>1, <1>3 DEF SafeKept
  <2>2. \A k : NoneUnlogged(k) => NoneUnlogged(k)'
    BY <1>1 DEF NoneUnlogged, Unlogged
  <2>3. ASSUME NEW k \in safe' PROVE Kept(k, kv.store[k])'
    <3>1. PICK n : n = kv.store[k]
      OBVIOUS
    <3>2. Kept(k, n)'
      BY <1>1, <2>1, <3>1 DEF Kept, Ends, Silent, InSnapshot
    <3> QED
      BY <1>1, <3>1, <3>2
  <2> QED
    BY <1>1, <1>2, <2>1, <2>2, <2>3 DEF SafeKept
<1>5. RanAlone' /\ Settled' /\ Booting'
  BY <1>1, <1>2, SaverAlone DEF Settled, Booting
<1> QED
  BY <1>4, <1>5 DEF Recoverable

LEMMA CrashRecoverable ==
  ASSUME Inv, Recoverable, Crash
  PROVE  Recoverable'
<1>1. /\ SafeKept /\ Typed
      /\ phase' = "boot" /\ kv' = EmptyStore /\ script' = LoadScript
      /\ at' = [h \in Handlers |-> "idle"] /\ saver' = NotSaving("truncate")
      /\ safe' = {} /\ settling' = {} /\ clash' = {}
      /\ UNCHANGED <<wal, rdb>>
      /\ before' = IF phase = "up"
                   THEN [store   |-> kv.store,
                         safe    |-> safe,
                         running |-> {k \in Keys : \E h \in Handlers : at[h] # "idle" /\ cmd[h].key = k}]
                   ELSE before
      /\ phase \in {"up", "boot"}
  BY DEF Inv, Typed, CrashTyped, Recoverable, Crash, Restart, Files
<1>2. ASSUME NEW k \in before'.safe
      PROVE  Kept(k, before'.store[k]) /\ k \in Keys
  <2>1. CASE phase = "up"
    <3>1. before'.safe = safe /\ before'.store = kv.store
      BY <1>1, <2>1
    <3>2. k \in safe /\ Kept(k, kv.store[k])
      BY <1>1, <1>2, <2>1, <3>1 DEF SafeKept
    <3> QED
      BY <1>1, <3>1, <3>2 DEF Typed, HistoryTyped
  <2>2. CASE phase = "boot"
    <3>1. before' = before
      BY <1>1, <2>2
    <3>2. k \in before.safe /\ Kept(k, before.store[k])
      BY <1>1, <1>2, <2>2, <3>1 DEF SafeKept
    <3> QED
      BY <1>1, <3>1, <3>2 DEF Typed, CrashTyped
  <2> QED
    BY <1>1, <2>1, <2>2
<1>3. \A h \in Handlers : at'[h] = "idle"
  BY <1>1
<1>4. saver'.pc = "truncate"
  BY <1>1 DEF NotSaving
<1>5. RanAlone' /\ Settled'
  <2>1. \A h \in Handlers : \A k : ~Unlogged(h, k)'
    BY <1>3 DEF Unlogged
  <2> QED
    BY <1>1, <1>4, <2>1 DEF RanAlone, Settled
<1>6. SafeKept'
  <2>1. ASSUME NEW k \in before'.safe PROVE Kept(k, before.store[k])'
    <3>1. wal' = wal /\ rdb' = rdb
      BY <1>1
    <3>2. PICK n : n = before'.store[k]
      OBVIOUS
    <3>3. Kept(k, n)
      BY <1>2, <2>1, <3>2
    <3>4. Kept(k, n)'
      BY <3>1, <3>3 DEF Kept, Ends, Silent, InSnapshot
    <3> QED
      BY <3>2, <3>4
  <2> QED
    BY <1>1, <2>1 DEF SafeKept
<1>7. Booting'
  <2>1. ASSUME NEW k \in before'.safe
        PROVE  \/ Ends(script, k, before.store[k])'
               \/ Silent(script, k)' /\ kv'.store[k] = before'.store[k]
    <3>1. PICK n : n = before'.store[k]
      OBVIOUS
    <3>2. Kept(k, n) /\ k \in Keys
      BY <1>2, <2>1, <3>1
    <3>3. Ends(LoadScript, k, n) \/ (n = Absent /\ Silent(LoadScript, k))
      BY <1>1, <3>2, ScriptKeeps
    <3>4. Ends(script, k, n)' \/ (n = Absent /\ Silent(script, k)')
      BY <1>1, <3>3 DEF Ends, Silent
    <3>5. kv'.store[k] = Absent
      BY <1>1, <3>2, EmptyCopy
    <3> QED
      BY <3>1, <3>4, <3>5
  <2> QED
    BY <1>1, <1>3, <1>4, <2>1 DEF Booting
<1> QED
  BY <1>5, <1>6, <1>7 DEF Recoverable

LEMMA LoadRecoverable ==
  ASSUME RoomForAll, Inv, Recoverable, Load
  PROVE  Recoverable'
<1>1. /\ SafeKept /\ Booting /\ phase = "boot" /\ script # <<>> /\ script \in Seq(Fed)
      /\ kv' = IF Replayed(Head(script)) THEN Exec(kv, Head(script), now) ELSE kv
      /\ script' = Tail(script)
      /\ UNCHANGED <<at, cmd, wal, rdb, saver, phase, safe, settling, clash, before>>
      /\ InOrder(kv) /\ now \in Int
      /\ before.safe \subseteq Keys
  BY DEF Inv, Typed, StoreTyped, ThreadsTyped, CrashTyped, Recoverable, Load, Files, history
<1>2. /\ \A h \in Handlers : at[h] = "idle"
      /\ saver.pc = "truncate" /\ safe = {} /\ settling = {} /\ clash = {}
      /\ \A k \in before.safe :
           \/ Ends(script, k, before.store[k])
           \/ Silent(script, k) /\ kv.store[k] = before.store[k]
  BY <1>1 DEF Booting
<1>3. RanAlone' /\ Settled'
  <2>1. \A h \in Handlers : \A k : ~Unlogged(h, k)'
    BY <1>1, <1>2 DEF Unlogged
  <2> QED
    BY <1>1, <1>2, <2>1 DEF RanAlone, Settled
<1>4. SafeKept'
  <2>1. ASSUME NEW k \in before.safe PROVE Kept(k, before.store[k])'
    BY <1>1, <2>1 DEF SafeKept, Kept, Ends, Silent, InSnapshot
  <2> QED
    BY <1>1, <2>1 DEF SafeKept
<1>5. PICK c \in AnyCommand : c = Head(script)
  <2>1. Head(script) \in Fed
    BY <1>1
  <2> QED
    BY <2>1, CommandIsAny
<1>6. ASSUME NEW k \in before.safe
      PROVE  \/ Ends(script', k, before.store[k])
             \/ Silent(script', k) /\ kv'.store[k] = before.store[k]
  <2>1. PICK n : n = before.store[k]
    OBVIOUS
  <2>2. Lasting(n) /\ k \in Keys
    BY <1>1, <1>6, <2>1, KeptLasts DEF SafeKept
  <2>3. CASE Ends(script, k, n)
    <3>1. \/ Ends(script', k, n)
          \/ On(c, k) /\ Restores(c) /\ n = Left(c) /\ Silent(script', k)
      BY <1>1, <1>5, <2>3, EndsTail
    <3>2. ASSUME On(c, k), Restores(c), n = Left(c)
          PROVE  kv'.store[k] = n
      <4>1. kv' = Exec(kv, c, now) /\ c.key = k
        BY <1>1, <1>5, <3>2 DEF On
      <4>2. c.op = "SET" => Deadline(c.ttl, now) = NoExpiry
        BY <3>2 DEF Restores, Deadline
      <4> QED
        BY <1>1, <3>2, <4>1, <4>2, ExecOwn DEF Restores, Left
    <3> QED
      BY <2>1, <3>1, <3>2
  <2>4. CASE Silent(script, k) /\ kv.store[k] = n
    <3>1. ~On(c, k) /\ Silent(script', k)
      BY <1>1, <1>5, <2>4, EndsTail
    <3>2. CASE ~Replayed(c)
      BY <1>1, <1>5, <2>1, <2>4, <3>1, <3>2
    <3>3. CASE Replayed(c)
      <4>1. kv' = Exec(kv, c, now) /\ k # c.key
        BY <1>1, <1>5, <3>1, <3>3 DEF On
      <4>2. kv'.store[k] = kv.store[k]
        BY <1>1, <2>2, <2>4, <4>1, ExecOther
      <4> QED
        BY <2>1, <2>4, <3>1, <4>2
    <3> QED
      BY <3>2, <3>3
  <2> QED
    BY <1>2, <1>6, <2>1, <2>3, <2>4
<1>7. Booting'
  <2>1. ASSUME NEW k \in before.safe
        PROVE  \/ Ends(script, k, before.store[k])'
               \/ Silent(script, k)' /\ kv'.store[k] = before.store[k]
    BY <1>1, <1>6, <2>1
  <2> QED
    BY <1>1, <1>2, <2>1 DEF Booting
<1> QED
  BY <1>3, <1>4, <1>7 DEF Recoverable

LEMMA StartRecoverable ==
  ASSUME Recoverable, StartThreads
  PROVE  Recoverable'
<1>1. /\ SafeKept /\ Booting /\ phase = "boot" /\ script = <<>> /\ phase' = "up"
      /\ safe' = before.safe
      /\ UNCHANGED <<kv, at, cmd, wal, rdb, saver, settling, clash>>
  BY DEF Recoverable, StartThreads, Loaded, masterVars
<1>2. /\ \A h \in Handlers : at[h] = "idle"
      /\ saver.pc = "truncate" /\ settling = {}
      /\ \A k \in before.safe : \/ Ends(<<>>, k, before.store[k])
                                \/ kv.store[k] = before.store[k]
  BY <1>1 DEF Booting
<1>3. \A h \in Handlers : \A k : ~Unlogged(h, k)'
  BY <1>1, <1>2 DEF Unlogged
<1>4. RanAlone' /\ Settled' /\ Booting'
  BY <1>1, <1>2, <1>3 DEF RanAlone, Settled, Booting
<1>5. ~Saving'
  BY <1>1, <1>2 DEF Saving
<1>6. ASSUME NEW k \in safe'
      PROVE  Kept(k, kv.store[k])' /\ NoneUnlogged(k)'
  <2>1. PICK n : n = kv.store[k]
    OBVIOUS
  <2>2. n = before.store[k]
    BY <1>1, <1>2, <1>6, <2>1 DEF Ends
  <2>3. Kept(k, n)
    BY <1>1, <1>6, <2>2 DEF SafeKept
  <2>4. Kept(k, n)'
    BY <1>1, <2>3 DEF Kept, Ends, Silent, InSnapshot
  <2> QED
    BY <1>1, <1>3, <2>1, <2>4 DEF NoneUnlogged
<1>7. SafeKept'
  BY <1>1, <1>5, <1>6 DEF SafeKept
<1> QED
  BY <1>4, <1>7 DEF Recoverable

LEMMA NextRecoverable ==
  ASSUME RoomForAll, Inv, Recoverable, [Next]_vars
  PROVE  Recoverable'
<1>1. CASE \E h \in Handlers : (\E c \in Inputs : UpExecute(h, c)) \/ UpLog(h) \/ UpAnswer(h)
  BY <1>1, ExecuteRecoverable, LogRecoverable, AnswerRecoverable
<1>2. CASE UpWake \/ UpTruncate \/ UpReadClock \/ UpCopyStore \/ UpOpenFile
  BY <1>2, WakeRecoverable, TruncateRecoverable, ReadClockRecoverable, CopyStoreRecoverable,
     OpenFileRecoverable
<1>3. CASE (\E k \in Keys : UpWriteLine(k)) \/ UpCloseFile \/ UpClean
  BY <1>3, WriteLineRecoverable, CloseFileRecoverable, CleanRecoverable
<1>4. CASE Crash \/ Load \/ StartThreads \/ Time \/ UNCHANGED vars
  BY <1>4, CrashRecoverable, LoadRecoverable, StartRecoverable, IdleRecoverable
<1> QED
  BY <1>1, <1>2, <1>3, <1>4 DEF Next

\* Whenever the process dies, during a snapshot or another restart too, and
\* however often, the two files bring a safe key back exactly as it was, or
\* keep it away (Server.cpp, loadData and saveSnapshot's caller; KVStore.cpp,
\* loadSnapshot), if the store has room for every key.
THEOREM ExactlyRecovered ==
  ASSUME RoomForAll
  PROVE  Spec => []ExactRecovery
<1>1. Init => Inv /\ Recoverable
  BY InitInv, InitRecoverable
<1>2. Inv /\ Recoverable /\ [Next]_vars => (Inv /\ Recoverable)'
  BY NextInv, NextRecoverable
<1>3. Inv /\ Recoverable => ExactRecovery
  <2> SUFFICES ASSUME Recoverable, Loaded, NEW k \in before.safe
               PROVE  kv.store[k] = before.store[k]
    BY DEF ExactRecovery
  <2>1. Ends(<<>>, k, before.store[k]) \/ kv.store[k] = before.store[k]
    BY DEF Recoverable, Booting, Loaded
  <2> QED
    BY <2>1 DEF Ends
<1> QED
  BY <1>1, <1>2, <1>3, PTL DEF Spec
=============================================================================
