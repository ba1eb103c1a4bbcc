------------------------------- MODULE Master -------------------------------
(***************************************************************************)
(* The threads of a running master (Server::start) around its store:       *)
(*                                                                         *)
(*   - one handler thread per connection.  It calls the store, then        *)
(*     appends the line to data.log under `wal_mtx`, then forwards it to   *)
(*     the slaves under `slave_mtx`, then answers.  No lock spans two of   *)
(*     these steps, so other threads run in between;                       *)
(*   - the snapshot thread.  Every ten seconds it truncates data.log, reads*)
(*     the clock, copies the map under `mtx`, reopens snapshot.rdb (which  *)
(*     empties it) and writes the copy line by line;                       *)
(*   - the cleaner thread, which calls cleanExpired.                       *)
(*                                                                         *)
(* Durability and Replication extend this module: they say what a crash,   *)
(* a restart and a slave add to it.                                        *)
(***************************************************************************)
EXTENDS Commands

CONSTANTS
  Handlers,     \* the handler threads
  Inputs,       \* the commands clients send
  Nothing,      \* the command of an idle handler
  MaxCommands,  \* bound on the commands executed
  Epoch,        \* the clock when the exploration starts
  Horizon       \* bound on clock ticks

ASSUME InputsAssumption == Inputs \subseteq Command /\ Nothing \notin Command
ASSUME BoundsAssumption == MaxCommands \in Nat /\ Horizon \in Nat
ASSUME ClockAssumption  == Epoch \in Nat /\ Epoch > IntMax

VARIABLES
  kv,      \* the store
  now,     \* the clock
  at,      \* at[h]: the step handler h takes next
  cmd,     \* cmd[h]: the command h is busy with
  issued,  \* commands executed so far
  wal,     \* data.log, a sequence of commands
  rdb,     \* snapshot.rdb, a sequence of lines; a missing file reads as empty
  saver    \* the snapshot thread: its next step, its clock and its copy

masterVars == <<kv, now, at, cmd, issued, wal, rdb, saver>>

NotSaving(pc) == [pc |-> pc, clock |-> Epoch, copy |-> EmptyStore.store]

AllIdle ==
  /\ at = [h \in Handlers |-> "idle"]
  /\ cmd = [h \in Handlers |-> Nothing]

MasterInit ==
  /\ kv = EmptyStore
  /\ now = Epoch
  /\ AllIdle
  /\ issued = 0
  /\ wal = <<>>
  /\ rdb = <<>>
  /\ saver = NotSaving("truncate")

Files == <<wal, rdb>>
-----------------------------------------------------------------------------
(***************************************************************************)
(* Handlers.                                                               *)
(***************************************************************************)

\* Handler h has executed a command on k that data.log does not have yet.
Unlogged(h, k) == at[h] = "log" /\ cmd[h].key = k

Execute(h, c) ==
  /\ at[h] = "idle"
  /\ issued < MaxCommands
  /\ issued' = issued + 1
  /\ kv' = Exec(kv, c, now)
  /\ IF Recorded(kv, c, now)
     THEN at' = [at EXCEPT ![h] = "log"] /\ cmd' = [cmd EXCEPT ![h] = c]
     ELSE UNCHANGED <<at, cmd>>
  /\ UNCHANGED <<now, Files, saver>>

Log(h) ==
  /\ at[h] = "log"
  /\ wal' = Append(wal, cmd[h])
  /\ at' = [at EXCEPT ![h] = "forward"]
  /\ UNCHANGED <<kv, now, cmd, issued, rdb, saver>>

\* The forwarding loop is left: the client gets its answer.
Answer(h) ==
  /\ at[h] = "forward"
  /\ at' = [at EXCEPT ![h] = "idle"]
  /\ cmd' = [cmd EXCEPT ![h] = Nothing]
  /\ UNCHANGED <<kv, now, issued, Files, saver>>
-----------------------------------------------------------------------------
(***************************************************************************)
(* The snapshot thread and saveSnapshot.                                   *)
(***************************************************************************)

\* (faulty variant: only the first snapshot clears data.log)
WakeNoTruncate ==
  /\ saver.pc = "asleep"
  /\ saver' = NotSaving("clock")
  /\ UNCHANGED <<kv, now, at, cmd, issued, Files>>

Wake ==
  /\ saver.pc = "asleep"
  /\ saver' = NotSaving("truncate")
  /\ UNCHANGED <<kv, now, at, cmd, issued, Files>>

Truncate ==
  /\ saver.pc = "truncate"
  /\ wal' = <<>>
  /\ saver' = [saver EXCEPT !.pc = "clock"]
  /\ UNCHANGED <<kv, now, at, cmd, issued, rdb>>

ReadClock ==
  /\ saver.pc = "clock"
  /\ saver' = [saver EXCEPT !.pc = "copy", !.clock = now]
  /\ UNCHANGED <<kv, now, at, cmd, issued, Files>>

CopyStore ==
  /\ saver.pc = "copy"
  /\ saver' = [saver EXCEPT !.pc = "open", !.copy = kv.store]
  /\ UNCHANGED <<kv, now, at, cmd, issued, Files>>

OpenFile ==
  /\ saver.pc = "open"
  /\ rdb' = <<>>
  /\ saver' = [saver EXCEPT !.pc = "write"]
  /\ UNCHANGED <<kv, now, at, cmd, issued, wal>>

\* The lines still to be written, in the map's iteration order, which is any.
Unwritten ==
  SavedKeys(saver.copy, saver.clock) \ {rdb[i].key : i \in 1 .. Len(rdb)}

WriteLine(k) ==
  /\ saver.pc = "write"
  /\ k \in Unwritten
  /\ rdb' = Append(rdb, SavedLine(saver.copy, k, saver.clock))
  /\ UNCHANGED <<kv, now, at, cmd, issued, wal, saver>>

\* (faulty variant: data.log is cleared when the snapshot is complete, with
\* the lines logged since the copy)
CloseFileClearing ==
  /\ saver.pc = "write"
  /\ Unwritten = {}
  /\ saver' = NotSaving("asleep")
  /\ wal' = <<>>
  /\ UNCHANGED <<kv, now, at, cmd, issued, rdb>>

CloseFile ==
  /\ saver.pc = "write"
  /\ Unwritten = {}
  /\ saver' = NotSaving("asleep")
  /\ UNCHANGED <<kv, now, at, cmd, issued, Files>>

\* Between Truncate and CloseFile the two files do not hold the store.
Saving == saver.pc \in {"clock", "copy", "open", "write"}
-----------------------------------------------------------------------------
Clean ==
  /\ kv' = CleanOp(kv, now)
  /\ UNCHANGED <<now, at, cmd, issued, Files, saver>>

Tick ==
  /\ now < Epoch + Horizon
  /\ now' = now + 1
  /\ UNCHANGED <<kv, at, cmd, issued, Files, saver>>

MasterTypeOK ==
  /\ kv \in StoreState
  /\ now \in Int
  /\ at \in [Handlers -> {"idle", "log", "forward"}]
  /\ cmd \in [Handlers -> Command \cup {Nothing}]
  /\ issued \in 0 .. MaxCommands
  /\ wal \in Seq(Command)
  /\ rdb \in Seq([key : Keys, value : Value, ttl : Int])
  /\ saver \in [pc : {"asleep", "truncate", "clock", "copy", "open", "write"},
                clock : Int, copy : [Keys -> Node \cup {Absent}]]
=============================================================================
