---------------------------- MODULE KeyExplorer ----------------------------
(***************************************************************************)
(* The key explorer of the bridge: `trackedKeys`, which every session and  *)
(* request shares, the commands that enter and remove keys, and listings   *)
(* (getKeys, getKeysForSession), which read the master's files, ask the    *)
(* master about one key after the other and drop the keys it denies.       *)
(*                                                                         *)
(* An action of the bridge is what the event loop runs between two awaits. *)
(* The master is a map with deadlines, a log and a snapshot thread; the    *)
(* details are in Durability.                                              *)
(***************************************************************************)
EXTENDS Sublists

CONSTANTS
  Keys,
  Calls,        \* the commands of all clients, each of them sent once
  Loaded,       \* those the master may have found in snapshot.rdb when it started
  Listings,     \* the listings by tabs and requests, numbered as they begin
  Absent,       \* no entry
  MaxCalls,     \* bound on the commands that are sent
  MaxSaves,     \* bound on snapshots
  MaxLosses,    \* bound on lookups that fail
  Horizon       \* bound on the clock, in seconds

Never == -1     \* no deadline
NoLoop == [since |-> Never]  \* the listing is not in its loop
NoTtl == -1     \* no EX in the line

Line == [op : {"SET", "DEL", "INCR"}, key : Keys, ttl : Nat \cup {NoTtl}]

\* valid: the master accepts the line; the bridge upper-cases the word it
\* looks at and takes "del k" for a DEL, the master does not.  ours: sent
\* through the bridge.
Call == [line : Line, valid : BOOLEAN, ours : BOOLEAN]

ASSUME CallsAssumption ==
  /\ Calls \subseteq Call /\ Loaded \subseteq Calls
  /\ \A c \in Loaded : c.line.op = "SET" /\ c.valid /\ ~c.ours
  /\ \A c, d \in Loaded : c.line.key = d.line.key => c = d
ASSUME ListingsAssumption == Listings \subseteq Nat
ASSUME AbsentAssumption == Absent \notin [by : Calls, until : Int]
ASSUME FiniteAssumption == IsFiniteSet(Keys) /\ IsFiniteSet(Calls)
ASSUME BoundsAssumption == {MaxCalls, MaxSaves, MaxLosses, Horizon} \subseteq Nat

VARIABLES
  db,      \* the master's map: db[k] is Absent or who wrote k and its deadline
  wal,     \* data.log
  rdb,     \* snapshot.rdb
  saver,   \* the snapshot thread: "idle", "cleared" the log, "writing"
  copy,    \* the lines it is to write
  local,   \* the bridge sees the master's files
  now,     \* the clock, in seconds
  sent,    \* sent[c]: "unsent", "executed" on the map, "answered", or "heard" by the bridge
  book,    \* trackedKeys, and where the listings' iterators are in it
  pc,      \* pc[l]: where listing l is
  page,    \* page[l]: the lines l has read
  loop,    \* loop[l]: `now` of the loop, the key l asks about, its answer to EXISTS
  found    \* found[l]: the keys of the rows collected

VARIABLES
  saves, losses,  \* so far
  steady,    \* history: keys that were stored for good and left alone since
  promised   \* history: promised[l]: keys that have been steady since l began

master  == <<db, wal, rdb, saver, copy>>
listing == <<pc, page, loop, found>>
bounds  == <<saves, losses>>
history == <<steady, promised>>
vars    == <<master, local, now, sent, book, listing, bounds, history>>
-----------------------------------------------------------------------------
(***************************************************************************)
(* trackedKeys, a Map: it is iterated in the order in which its keys were  *)
(* entered; setting a key again leaves it in its place, deleting and       *)
(* setting it moves it to the end, in front of iterators that passed it.   *)
(***************************************************************************)

\* (faulty variant: an entry is always made anew)
PutAnew(b, k, e) ==
  [b EXCEPT !.order = Append(Sublist(@, Keys \ {k}), k), !.expires[k] = e,
            !.passed = [l \in Listings |-> @[l] \ {k}]]

\* (faulty variant: a list that takes a key twice)
PutTwice(b, k, e) == [b EXCEPT !.order = Append(@, k), !.expires[k] = e]

\* trackedKeys.set
Put(b, k, e) ==
  [b EXCEPT !.order = IF k \in Range(@) THEN @ ELSE Append(@, k), !.expires[k] = e]

\* trackedKeys.delete; `moved` records the keys deleted behind an iterator.
Drop(b, K) ==
  [order   |-> Sublist(b.order, Keys \ K),
   expires |-> [k \in Keys |-> IF k \in K THEN Never ELSE b.expires[k]],
   passed  |-> [l \in Listings |-> b.passed[l] \ K],
   moved   |-> [l \in Listings |-> b.moved[l] \cup (b.passed[l] \cap K)]]

Tracked(b) == Range(b.order)

\* rememberCommand, at time t.
Remember(b, line, t) ==
  CASE line.op = "SET" -> Put(b, line.key, IF line.ttl = NoTtl THEN Never ELSE t + line.ttl)
    [] line.op = "DEL" -> Drop(b, {line.key})
    [] line.op = "INCR" -> IF line.key \in Tracked(b) THEN b ELSE Put(b, line.key, Never)

\* The lines of a file; those of a snapshot are SETs (rememberSnapshotLine).
RememberAll(b, lines, t) ==
  LET after[n \in 0 .. Len(lines)] ==
        IF n = 0 THEN b ELSE Remember(after[n - 1], lines[n], t)
  IN after[Len(lines)]
-----------------------------------------------------------------------------
Init ==
  /\ \E kept \in SUBSET Loaded :
       /\ db = [k \in Keys |->
                  IF \E c \in kept : c.line.key = k
                  THEN LET c == CHOOSE c \in kept : c.line.key = k IN [by |-> c, until |-> c.line.ttl]
                  ELSE Absent]
       /\ rdb = SetToSeq({c.line : c \in kept})
  /\ wal = <<>> /\ saver = "idle" /\ copy = {}
  /\ local \in BOOLEAN
  /\ now = 0
  /\ sent = [c \in Calls |-> IF c \in Loaded THEN "answered" ELSE "unsent"]
  /\ book = [order   |-> <<>>,
             expires |-> [k \in Keys |-> Never],
             passed  |-> [l \in Listings |-> {}],
             moved   |-> [l \in Listings |-> {}]]
  /\ pc = [l \in Listings |-> "idle"]
  /\ page = [l \in Listings |-> <<>>]
  /\ loop = [l \in Listings |-> NoLoop]
  /\ found = [l \in Listings |-> <<>>]
  /\ saves = 0 /\ losses = 0
  /\ steady = {}
  /\ promised = [l \in Listings |-> {}]

\* From now on the keys of S, and no others, are steady.
Keep(S) ==
  /\ steady' = S
  /\ promised' = [l \in Listings |-> promised[l] \cap S]
-----------------------------------------------------------------------------
(***************************************************************************)
(* The master and the clients.                                             *)
(***************************************************************************)
Live(k) == db[k] # Absent /\ ~(db[k].until # Never /\ now > db[k].until)

Effect(c) ==
  LET k == c.line.key
      Entry(until) == [by |-> c, until |-> until]
  IN CASE c.line.op = "SET"  -> Entry(IF c.line.ttl = NoTtl THEN Never ELSE now + c.line.ttl)
       [] c.line.op = "DEL"  -> Absent
       [] c.line.op = "INCR" -> Entry(IF Live(k) THEN db[k].until ELSE Never)

\* A handler of the master executes a command, or refuses it, ...
Execute(c) ==
  /\ sent[c] = "unsent"
  /\ Cardinality({d \in Calls \ Loaded : sent[d] # "unsent"}) < MaxCalls
  /\ sent' = [sent EXCEPT ![c] = IF c.valid THEN "executed" ELSE "answered"]
  /\ db' = IF c.valid THEN [db EXCEPT ![c.line.key] = Effect(c)] ELSE db
  /\ Keep(steady \ {c.line.key})
  /\ UNCHANGED <<wal, rdb, saver, copy, local, now, book, listing, bounds>>

\* ... then logs and answers it.  Another handler may have executed and logged
\* a command on the same key in between.
Log(c) ==
  /\ sent[c] = "executed"
  /\ sent' = [sent EXCEPT ![c] = "answered"]
  /\ wal' = Append(wal, c.line)
  /\ UNCHANGED <<db, rdb, saver, copy, local, now, book, listing, bounds, history>>

\* The line that stores k for good.
ForGood(k) == [op |-> "SET", key |-> k, ttl |-> NoTtl]

\* The last of the lines about k, if there is one, is `line`.
LastWord(lines, k, line) ==
  \A i \in DOMAIN lines :
    lines[i].key = k /\ (\A j \in DOMAIN lines : j > i => lines[j].key # k) => lines[i] = line

\* The key has been stored without a deadline by c, which had the last word in
\* the log too; no other command on it is still to be logged or heard of, and
\* no listing looks at it meanwhile.
StoredForGood(c) ==
  LET k == c.line.key
  IN /\ c.valid /\ c.line = ForGood(k)
     /\ db[k] # Absent /\ db[k].by = c
     /\ LastWord(wal, k, c.line)
     /\ \A d \in Calls \ {c} : d.line.key = k =>
          sent[d] # "executed" /\ (d.ours => sent[d] # "answered")
     /\ \A l \in Listings : pc[l] \in {"idle", "done", "failed"}

\* The answer to a command of the bridge arrives, to a refused one as well.
Hear(c) ==
  /\ c.ours /\ sent[c] = "answered"
  /\ sent' = [sent EXCEPT ![c] = "heard"]
  /\ book' = Remember(book, c.line, now)
  /\ Keep(IF StoredForGood(c) THEN steady \cup {c.line.key} ELSE steady)
  /\ UNCHANGED <<master, local, now, listing, bounds>>

\* A file is emptied: who has read a part of it is somewhere in what follows.
Emptied(file, cut) ==
  pc' = [l \in Listings |-> IF pc[l] = file /\ page[l] # <<>> THEN cut ELSE pc[l]]

\* The snapshot thread clears the log, ...  (Without access to the files the
\* bridge does not notice.)  Who has read it as far as a DEL will not read the
\* SET behind it.
Truncate ==
  /\ local
  /\ saver = "idle" /\ saves < MaxSaves
  /\ saver' = "cleared"
  /\ saves' = saves + 1
  /\ wal' = <<>>
  /\ Emptied("wal", "walCut")
  /\ Keep({k \in steady : \A l \in Listings : pc[l] = "wal" => LastWord(page[l], k, ForGood(k))})
  /\ UNCHANGED <<db, rdb, copy, local, now, sent, book, page, loop, found, losses>>

\* The line of k; the rest of a second is none.
SavedLine(k) ==
  [op |-> "SET", key |-> k,
   ttl |-> IF db[k].until > now THEN db[k].until - now ELSE NoTtl]

\* ... copies the store and opens, that is empties, the file, ...
CopyOpen ==
  /\ saver = "cleared"
  /\ saver' = "writing"
  /\ copy' = {SavedLine(k) : k \in {k \in Keys : db[k] # Absent /\ ~(db[k].until # Never /\ db[k].until <= now)}}
  /\ rdb' = <<>>
  /\ Emptied("rdb", "rdbCut")
  /\ UNCHANGED <<db, wal, local, now, sent, book, page, loop, found, bounds, history>>

\* ... and writes it.
Write ==
  /\ saver = "writing"
  /\ saver' = "idle"
  /\ rdb' = SetToSeq(copy)
  /\ copy' = {}
  /\ UNCHANGED <<db, wal, local, now, sent, book, listing, bounds, history>>

Tick ==
  /\ now < Horizon
  /\ now' = now + 1
  /\ UNCHANGED <<master, local, sent, book, listing, bounds, history>>
-----------------------------------------------------------------------------
(***************************************************************************)
(* A listing.                                                              *)
(***************************************************************************)

\* The loop, begun at time t, goes on to the next key of b: entries whose
\* deadline has come by then are deleted on the way, without asking the master.
GoOn(b, l, t, rows) ==
  LET Lapsed(k) == b.expires[k] # Never /\ b.expires[k] <= t
      rest      == Sublist(b.order, Keys \ b.passed[l])
      asked     == {i \in DOMAIN rest : ~Lapsed(rest[i])}
      i         == Min(asked)
  IN /\ found' = [found EXCEPT ![l] = rows]
     /\ IF asked = {}
        THEN /\ pc' = [pc EXCEPT ![l] = "done"]
             /\ book' = [Drop(b, Range(rest)) EXCEPT !.passed[l] = {}]
             /\ loop' = [loop EXCEPT ![l] = NoLoop]
        ELSE /\ pc' = [pc EXCEPT ![l] = "ask"]
             /\ book' = [Drop(b, {rest[j] : j \in 1 .. i - 1}) EXCEPT !.passed[l] = @ \cup {rest[i]}]
             /\ loop' = [loop EXCEPT ![l] = [since |-> t, key |-> rest[i], exists |-> FALSE]]

\* getKeys or getKeysForSession is called.
Request(l) ==
  /\ pc[l] = "idle" /\ \A m \in Listings : m < l => pc[m] # "idle"
  /\ pc' = [pc EXCEPT ![l] = "rdb"]
  /\ promised' = [promised EXCEPT ![l] = steady]
  /\ UNCHANGED <<master, local, now, sent, book, page, loop, found, bounds, steady>>

\* The file that is read.
File(l) == IF pc[l] \in {"rdb", "rdbCut"} THEN rdb ELSE wal

\* A part of a large file is read, ...
ReadPart(l) ==
  /\ local /\ pc[l] \in {"rdb", "wal"}
  /\ \E n \in Len(page[l]) + 1 .. Len(File(l)) : page' = [page EXCEPT ![l] = SubSeq(File(l), 1, n)]
  /\ UNCHANGED <<master, local, now, sent, book, pc, loop, found, bounds, history>>

\* ... or all of it; one that does not exist reads as an empty one.
ReadRdb(l) ==
  /\ pc[l] = "rdb"
  /\ pc' = [pc EXCEPT ![l] = "rdbRead"]
  /\ page' = [page EXCEPT ![l] = IF local THEN rdb ELSE <<>>]
  /\ UNCHANGED <<master, local, now, sent, book, loop, found, bounds, history>>

ReadWal(l) ==
  /\ pc[l] = "wal"
  /\ pc' = [pc EXCEPT ![l] = "walRead"]
  /\ page' = [page EXCEPT ![l] = IF local THEN wal ELSE <<>>]
  /\ UNCHANGED <<master, local, now, sent, book, loop, found, bounds, history>>

\* The file was emptied after a part had been read: the rest is that of what is
\* in it now, from any line.
ReadCut(l) ==
  /\ pc[l] \in {"rdbCut", "walCut"}
  /\ pc' = [pc EXCEPT ![l] = IF @ = "rdbCut" THEN "rdbRead" ELSE "walRead"]
  /\ \E n \in 0 .. Len(File(l)) :
       page' = [page EXCEPT ![l] = @ \o SubSeq(File(l), n + 1, Len(File(l)))]
  /\ UNCHANGED <<master, local, now, sent, book, loop, found, bounds, history>>

\* Any other error ends the listing.
ReadFails(l) ==
  /\ pc[l] \in {"rdb", "rdbCut", "wal", "walCut"} /\ losses < MaxLosses
  /\ pc' = [pc EXCEPT ![l] = "failed"]
  /\ losses' = losses + 1
  /\ page' = [page EXCEPT ![l] = <<>>]
  /\ UNCHANGED <<master, local, now, sent, book, loop, found, saves, history>>

\* (faulty variant: the files replace what was heard)
ApplyRdbAfresh(l) ==
  /\ pc[l] = "rdbRead"
  /\ pc' = [pc EXCEPT ![l] = "wal"]
  /\ book' = RememberAll(Drop(book, Tracked(book)), page[l], now)
  /\ page' = [page EXCEPT ![l] = <<>>]
  /\ Keep({k \in steady : book'.expires[k] = Never})
  /\ UNCHANGED <<master, local, now, sent, loop, found, bounds>>

\* The lines are applied; a steady key may get the deadline of an old line.
ApplyRdb(l) ==
  /\ pc[l] = "rdbRead"
  /\ pc' = [pc EXCEPT ![l] = "wal"]
  /\ book' = RememberAll(book, page[l], now)
  /\ page' = [page EXCEPT ![l] = <<>>]
  /\ Keep({k \in steady : book'.expires[k] = Never})
  /\ UNCHANGED <<master, local, now, sent, loop, found, bounds>>

\* The last file; the loop over trackedKeys begins.
ApplyWal(l) ==
  /\ pc[l] = "walRead"
  /\ page' = [page EXCEPT ![l] = <<>>]
  /\ GoOn(RememberAll(book, page[l], now), l, now, <<>>)
  /\ UNCHANGED <<master, local, now, sent, bounds, history>>

\* The master answers EXISTS, ...
Exists(l) ==
  /\ pc[l] = "ask"
  /\ pc' = [pc EXCEPT ![l] = "judge"]
  /\ loop' = [loop EXCEPT ![l].exists = Live(loop[l].key)]
  /\ UNCHANGED <<master, local, now, sent, book, page, found, bounds, history>>

\* ... or the lookup fails: refused, timed out, the session closed.
Lose(l) ==
  /\ pc[l] = "ask" /\ losses < MaxLosses
  /\ pc' = [pc EXCEPT ![l] = "judge"]
  /\ losses' = losses + 1
  /\ Keep(steady \ {loop[l].key})
  /\ UNCHANGED <<master, local, now, sent, book, page, loop, found, saves>>

\* (faulty variant: a key that is denied ends the loop)
JudgeBreak(l) ==
  /\ pc[l] = "judge"
  /\ IF loop[l].exists THEN GoOn(book, l, loop[l].since, Append(found[l], loop[l].key))
                  ELSE /\ pc' = [pc EXCEPT ![l] = "done"]
                       /\ book' = [Drop(book, {loop[l].key}) EXCEPT !.passed[l] = {}]
                       /\ loop' = [loop EXCEPT ![l] = NoLoop]
                       /\ UNCHANGED found
  /\ UNCHANGED <<master, local, now, sent, page, bounds, history>>

\* With the answers to TTL and GET the key is dropped or becomes a row.
Judge(l) ==
  /\ pc[l] = "judge"
  /\ IF loop[l].exists THEN GoOn(book, l, loop[l].since, Append(found[l], loop[l].key))
                  ELSE GoOn(Drop(book, {loop[l].key}), l, loop[l].since, found[l])
  /\ UNCHANGED <<master, local, now, sent, page, bounds, history>>

Next ==
  \/ \E c \in Calls : Execute(c) \/ Log(c) \/ Hear(c)
  \/ Truncate \/ CopyOpen \/ Write \/ Tick
  \/ \E l \in Listings :
       \/ Request(l)
       \/ ReadPart(l) \/ ReadRdb(l) \/ ReadWal(l) \/ ReadCut(l) \/ ReadFails(l) \/ ApplyRdb(l) \/ ApplyWal(l)
       \/ Exists(l) \/ Lose(l) \/ Judge(l)

Spec == Init /\ [][Next]_vars
-----------------------------------------------------------------------------
(***************************************************************************)
(* Properties.                                                             *)
(***************************************************************************)
\* The types of the variables; iterators exist while a listing loops.
TypeOK ==
  /\ db \in [Keys -> [by : Calls, until : Int] \cup {Absent}]
  /\ wal \in Seq(Line) /\ rdb \in Seq(Line) /\ copy \subseteq Line
  /\ saver \in {"idle", "cleared", "writing"}
  /\ local \in BOOLEAN /\ now \in 0 .. Horizon
  /\ sent \in [Calls -> {"unsent", "executed", "answered", "heard"}]
  /\ book.order \in Seq(Keys) /\ NoDuplicates(book.order)
  /\ book.expires \in [Keys -> Int]
  /\ \A l \in Listings :
       /\ pc[l] \in {"idle", "rdb", "rdbCut", "rdbRead", "wal", "walCut", "walRead",
                     "ask", "judge", "done", "failed"}
       /\ book.passed[l] \subseteq Tracked(book)
       /\ book.passed[l] # {} => pc[l] \in {"ask", "judge"}
       /\ book.moved[l] # {} => pc[l] \in {"ask", "judge", "done"}
       /\ IF pc[l] \in {"ask", "judge"}
          THEN loop[l] \in [since : 0 .. now, key : Keys, exists : BOOLEAN]
          ELSE loop[l] = NoLoop
       /\ page[l] \in Seq(Line) /\ found[l] \in Seq(Keys)
  /\ saves \in 0 .. MaxSaves /\ losses \in 0 .. MaxLosses
  /\ steady \subseteq Keys /\ promised \in [Listings -> SUBSET Keys]

\* A key a dashboard stored without a deadline while no listing was under way
\* stays in the explorer until somebody uses the key again: whatever listings
\* run, whichever old lines of log and snapshot they read between the
\* truncation of the one and the writing of the other, and whatever happens to
\* the keys beside it.
SteadyTracked == steady \subseteq Tracked(book)

\* A listing that ends has shown every such key, although the map it walks
\* through is changed by commands and other listings while it waits.
CompleteListing ==
  \A l \in Listings : pc[l] = "done" => promised[l] \subseteq Range(found[l])

\* A key is shown twice only if it was deleted behind the loop and entered
\* again in front of it; of a listing under way and of one that has ended.
NoKeyTwice ==
  \A l \in Listings : \A i, j \in DOMAIN found[l] :
    i # j /\ found[l][i] = found[l][j] => found[l][i] \in book.moved[l]
=============================================================================
