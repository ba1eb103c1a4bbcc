----------------------------- MODULE Durability -----------------------------
(***************************************************************************)
(* The master with crashes and restarts.  A crash of the process loses the *)
(* store and every thread; what was written to the two files stays.  A     *)
(* restart feeds snapshot.rdb and then data.log to an empty store, and     *)
(* only then starts the threads; it may crash as well.                     *)
(***************************************************************************)
EXTENDS Master

CONSTANT MaxCrashes  \* bound on crashes

ASSUME CrashAssumption == MaxCrashes \in Nat

VARIABLES
  phase,    \* "up", or "boot" from a crash until the threads start
  script,   \* in boot: what is still to be fed to the store
  crashes,  \* crashes so far
  safe,     \* history: keys the files would restore as they are now
  settling, \* history: keys unchanged and fully logged since Truncate
  clash,    \* history: keys with unlogged commands of two handlers
  held,     \* history: held[k]: the values k has had in a running server
  before    \* history: the last crash

history == <<safe, settling, clash, held, before>>
vars == <<masterVars, phase, script, crashes, history>>

NoCrash == [store |-> EmptyStore.store, safe |-> {}, running |-> {}]

Init ==
  /\ MasterInit
  /\ phase = "up"
  /\ script = <<>>
  /\ crashes = 0
  /\ safe = Keys
  /\ settling = {}
  /\ clash = {}
  /\ held = [k \in Keys |-> {}]
  /\ before = NoCrash

Up ==
  /\ phase = "up"
  /\ held' = [k \in Keys |-> IF kv'.store[k] = Absent THEN held[k]
                             ELSE held[k] \cup {kv'.store[k].value}]
  /\ UNCHANGED <<phase, script, crashes, before>>
-----------------------------------------------------------------------------
(***************************************************************************)
(* The running server.  The history variables say for which keys the files *)
(* are good: a key is safe when its last change was a SET without TTL or a *)
(* DEL that is in data.log, run by one handler alone, and again, whatever  *)
(* changed it, when a snapshot began and ended without further changes.    *)
(***************************************************************************)

OthersUnlogged(h, k) == \E g \in Handlers \ {h} : Unlogged(g, k)

\* A command that is refused may have changed the store (a counter that wraps
\* to the error code).
Changes(c) == c.op \in Writes /\ (Recorded(kv, c, now) \/ kv' # kv)

UpExecute(h, c) ==
  /\ Execute(h, c)
  /\ Up
  /\ IF Changes(c)
     THEN /\ safe' = safe \ {c.key}
          /\ settling' = settling \ {c.key}
          /\ clash' = IF OthersUnlogged(h, c.key) THEN clash \cup {c.key} ELSE clash
     ELSE UNCHANGED <<safe, settling, clash>>

\* loadData will bring the key back as this command leaves it.
Restores(c) == c.op = "DEL" \/ (c.op = "SET" /\ c.ttl = NoTtl)

UpLog(h) ==
  /\ Log(h)
  /\ Up
  /\ LET k == cmd[h].key
     IN  /\ safe' = IF Restores(cmd[h]) /\ k \notin clash THEN safe \cup {k} ELSE safe
         /\ clash' = IF OthersUnlogged(h, k) THEN clash ELSE clash \ {k}
  /\ UNCHANGED settling

UpAnswer(h) == Answer(h) /\ Up /\ UNCHANGED <<safe, settling, clash>>

UpWake == Wake /\ Up /\ UNCHANGED <<safe, settling, clash>>

UpTruncate ==
  /\ Truncate
  /\ Up
  /\ safe' = {}
  /\ settling' = {k \in Keys : /\ \A h \in Handlers : ~Unlogged(h, k)
                               /\ \/ kv.store[k] = Absent
                                  \/ kv.store[k].expiry = NoExpiry}
  /\ UNCHANGED clash

UpReadClock == ReadClock /\ Up /\ UNCHANGED <<safe, settling, clash>>
UpCopyStore == CopyStore /\ Up /\ UNCHANGED <<safe, settling, clash>>
UpOpenFile == OpenFile /\ Up /\ UNCHANGED <<safe, settling, clash>>
UpWriteLine(k) == WriteLine(k) /\ Up /\ UNCHANGED <<safe, settling, clash>>

UpCloseFile ==
  /\ CloseFile
  /\ Up
  /\ safe' = safe \cup settling
  /\ settling' = {}
  /\ UNCHANGED clash

UpClean == Clean /\ Up /\ UNCHANGED <<safe, settling, clash>>
-----------------------------------------------------------------------------
(***************************************************************************)
(* Crash and restart.                                                      *)
(***************************************************************************)

\* loadSnapshot, then loadData.
LoadScript == [i \in 1 .. Len(rdb) |-> LineCmd(rdb[i])] \o wal

Restart ==
  /\ phase' = "boot"
  /\ kv' = EmptyStore
  /\ script' = LoadScript
  /\ at' = [h \in Handlers |-> "idle"]
  /\ cmd' = [h \in Handlers |-> Nothing]
  /\ saver' = NotSaving("truncate")
  /\ UNCHANGED <<now, issued, Files>>

Crash ==
  /\ crashes < MaxCrashes
  /\ crashes' = crashes + 1
  /\ Restart
  /\ before' = IF phase = "up"
               THEN [store   |-> kv.store,
                     safe    |-> safe,
                     running |-> {k \in Keys : \E h \in Handlers : at[h] # "idle" /\ cmd[h].key = k}]
               ELSE before
  /\ safe' = {}
  /\ settling' = {}
  /\ clash' = {}
  /\ held' = held

Load ==
  /\ phase = "boot"
  /\ script # <<>>
  /\ kv' = IF Replayed(Head(script)) THEN Exec(kv, Head(script), now) ELSE kv
  /\ script' = Tail(script)
  /\ UNCHANGED <<now, at, cmd, issued, Files, saver, phase, crashes, history>>

Loaded == phase = "boot" /\ script = <<>>

StartThreads ==
  /\ Loaded
  /\ phase' = "up"
  /\ safe' = before.safe
  /\ UNCHANGED <<masterVars, script, crashes, settling, clash, held, before>>

Time == Tick /\ UNCHANGED <<phase, script, crashes, history>>

Next ==
  \/ \E h \in Handlers :
       \/ \E c \in Inputs : UpExecute(h, c)
       \/ UpLog(h)
       \/ UpAnswer(h)
  \/ UpWake
  \/ UpTruncate
  \/ UpReadClock
  \/ UpCopyStore
  \/ UpOpenFile
  \/ \E k \in Keys : UpWriteLine(k)
  \/ UpCloseFile
  \/ UpClean
  \/ Crash
  \/ Load
  \/ StartThreads
  \/ Time

Spec == Init /\ [][Next]_vars

\* Every thread that can take a step of its own takes it in the end; a
\* restart runs to its end.  Nothing is assumed of clients or crashes.
FairSpec ==
  /\ Spec
  /\ \A h \in Handlers : WF_vars(UpLog(h)) /\ WF_vars(UpAnswer(h))
  /\ WF_vars(\/ UpWake \/ UpTruncate \/ UpReadClock \/ UpCopyStore \/ UpOpenFile
             \/ (\E k \in Keys : UpWriteLine(k)) \/ UpCloseFile)
  /\ WF_vars(Load \/ StartThreads)
-----------------------------------------------------------------------------
(***************************************************************************)
(* Properties.                                                             *)
(***************************************************************************)

\* The types of the variables.
TypeOK ==
  /\ MasterTypeOK
  /\ phase \in {"up", "boot"}
  /\ script \in Seq([op : Writes, key : Keys, value : Value, ttl : Int])
  /\ crashes \in 0 .. MaxCrashes
  /\ safe \subseteq Keys /\ settling \subseteq Keys /\ clash \subseteq Keys
  /\ held \in [Keys -> SUBSET Value]
  /\ before \in [store : [Keys -> Node \cup {Absent}], safe : SUBSET Keys,
                 running : SUBSET Keys]

\* What the two files are good for: whenever the process dies, in a snapshot
\* or in a restart too, and however often, a key that is safe comes back
\* exactly as it was, or stays away if it had been deleted.
ExactRecovery ==
  Loaded => \A k \in before.safe : kv.store[k] = before.store[k]

\* Replaying a log on top of a later snapshot repeats changes the snapshot
\* contains.  It may bring back an older value of a key, but never a value
\* the key has not had (a counter counted twice).
NoInventedValue ==
  Loaded => \A k \in Keys : kv.store[k] # Absent => kv.store[k].value \in held[k]

\* When clients and crashes stop, the snapshot thread makes every key without
\* a deadline safe again and again, counters and clashes included.
EventuallyDurable ==
  []<>(\A k \in Keys :
         kv.store[k] = Absent \/ kv.store[k].expiry = NoExpiry => k \in safe)

Content(store, k) == IF store[k] = Absent THEN Absent ELSE store[k].value

\* README:61 "Ensures data durability and enables full recovery after a
\* crash": every key comes back with its value, except those with a command
\* that was still being executed, that is, not yet answered.
FullRecovery ==
  Loaded => \A k \in Keys \ before.running :
              Content(kv.store, k) = Content(before.store, k)
=============================================================================
