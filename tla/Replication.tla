----------------------------- MODULE Replication -----------------------------
(***************************************************************************)
(* The master and its slaves.  A slave is a process that connects, says    *)
(* SLAVE and applies what it is sent (Server::startAsSlave); the handler   *)
(* of its connection registers the socket in `slave_sockets`, reads        *)
(* snapshot.rdb and sends it; every handler forwards the writes it has     *)
(* executed to all registered sockets.                                     *)
(*                                                                         *)
(* A slave is named by its socket number in the master.  accept() returns  *)
(* the lowest free number, so that a slave that comes back after a lost    *)
(* connection may get the number it had.                                   *)
(***************************************************************************)
EXTENDS Master

CONSTANTS
  Sockets,   \* socket numbers slaves get
  MaxJoins   \* bound on connections made

ASSUME SocketAssumption == IsFiniteSet(Sockets) /\ MaxJoins \in Nat

VARIABLES
  slaves,   \* slave_sockets, a vector
  stage,    \* stage[s]: how far the connection on socket s has come
  image,    \* image[s]: the lines its handler has read from snapshot.rdb
  link,     \* link[s]: what was sent and not yet applied, in order
  loading,  \* loading[s]: loading_snapshot of the slave on s
  replica,  \* replica[s]: its store
  joins,    \* connections made so far
  stable,   \* history: keys unchanged since the snapshot thread's copy
  filed,    \* history: keys snapshot.rdb holds as the store does
  clash,    \* history: keys whose last writes overlapped
  based,    \* history: based[h]: slaves in step on h's key before its command
  good      \* history: good[s]: keys on which s is in step once link[s] is empty

links   == <<slaves, stage, image, link, loading, replica, joins>>
history == <<stable, filed, clash, based, good>>
vars    == <<masterVars, links, history>>

Gone == {s \in Sockets : stage[s] = "closed"}

Init ==
  /\ MasterInit
  /\ slaves = <<>>
  /\ stage = [s \in Sockets |-> "closed"]
  /\ image = [s \in Sockets |-> <<>>]
  /\ link = [s \in Sockets |-> <<>>]
  /\ loading = [s \in Sockets |-> FALSE]
  /\ replica = [s \in Sockets |-> EmptyStore]
  /\ joins = 0
  /\ stable = {}
  /\ filed = {}
  /\ clash = {}
  /\ based = [h \in Handlers |-> {}]
  /\ good = [s \in Sockets |-> {}]
-----------------------------------------------------------------------------
(***************************************************************************)
(* A slave's connection.                                                   *)
(***************************************************************************)

Msg(kind, c) == [kind |-> kind, cmd |-> c]

\* startAsSlave with an empty store; accept() hands out socket s.
Connect(s) ==
  /\ stage[s] = "closed"
  /\ joins < MaxJoins
  /\ joins' = joins + 1
  /\ stage' = [stage EXCEPT ![s] = "accepted"]
  /\ UNCHANGED <<masterVars, slaves, image, link, loading, replica, history>>

\* The handler reads the line SLAVE.
Register(s) ==
  /\ stage[s] = "accepted"
  /\ slaves' = Append(slaves, s)
  /\ stage' = [stage EXCEPT ![s] = "registered"]
  /\ UNCHANGED <<masterVars, image, link, loading, replica, joins, history>>

\* A command on k is executed and not yet forwarded.
Pending(k) == \E g \in Handlers : at[g] # "idle" /\ cmd[g].key = k

On(m, k) == m.kind \in {"line", "cmd"} /\ m.cmd.key = k

\* s is without k once it has applied what it was sent ahead of its snapshot.
\* (A snapshot without k does not take away what a SET with a TTL or a counter
\* forwarded ahead of it has left, when the key has expired on the master.)
Without(s, k) ==
  \/ /\ replica[s].store[k] = Absent
     /\ \A i \in 1 .. Len(link[s]) : ~On(link[s][i], k)
  \/ \E i \in 1 .. Len(link[s]) :
       /\ On(link[s][i], k) /\ link[s][i].cmd.op = "DEL"
       /\ \A j \in i + 1 .. Len(link[s]) : ~On(link[s][j], k)

\* The handler reads snapshot.rdb, without a lock: a part of it, ...
ReadPart(s) ==
  /\ stage[s] = "registered"
  /\ \E n \in Len(image[s]) + 1 .. Len(rdb) : image' = [image EXCEPT ![s] = SubSeq(rdb, 1, n)]
  /\ UNCHANGED <<masterVars, slaves, stage, link, loading, replica, joins, history>>

\* ... or what there is, to its end; a file that does not exist is an empty one.
ReadSnapshot(s) ==
  /\ stage[s] = "registered"
  /\ image' = [image EXCEPT ![s] = rdb]
  /\ stage' = [stage EXCEPT ![s] = "read"]
  /\ good' = [good EXCEPT ![s] =
                {k \in filed : ~Pending(k) /\ (kv.store[k] # Absent \/ Without(s, k))}]
  /\ UNCHANGED <<masterVars, slaves, link, loading, replica, joins,
                 stable, filed, clash, based>>

\* The file was emptied after a part had been read.  The rest is that of the
\* lines of the next snapshot that are there by now, from any line on.
ReadCut(s) ==
  /\ stage[s] = "cut"
  /\ \E n \in 0 .. Len(rdb) : image' = [image EXCEPT ![s] = @ \o SubSeq(rdb, n + 1, Len(rdb))]
  /\ stage' = [stage EXCEPT ![s] = "read"]
  /\ UNCHANGED <<masterVars, slaves, link, loading, replica, joins, history>>

\* (faulty variant: the end marker is not sent)
MessageOpen(lines) ==
  <<Msg("start", Nothing)>>
    \o [i \in 1 .. Len(lines) |-> Msg("line", LineCmd(lines[i]))]

Message(lines) ==
  <<Msg("start", Nothing)>>
    \o [i \in 1 .. Len(lines) |-> Msg("line", LineCmd(lines[i]))]
    \o <<Msg("end", Nothing)>>

SendSnapshot(s) ==
  /\ stage[s] = "read"
  /\ link' = [link EXCEPT ![s] = @ \o Message(image[s])]
  /\ image' = [image EXCEPT ![s] = <<>>]
  /\ stage' = [stage EXCEPT ![s] = "synced"]
  /\ UNCHANGED <<masterVars, slaves, loading, replica, joins,
                 stable, filed, clash, based, good>>

\* The slave takes the next line it was sent.
Apply(s) ==
  /\ link[s] # <<>>
  /\ LET m == Head(link[s])
     IN  /\ loading' = [loading EXCEPT ![s] =
                          IF m.kind \in {"start", "end"} THEN m.kind = "start" ELSE @]
         /\ replica' = [replica EXCEPT ![s] =
                          IF m.kind = (IF loading[s] THEN "line" ELSE "cmd")
                          THEN Exec(@, m.cmd, now) ELSE @]
  /\ link' = [link EXCEPT ![s] = Tail(@)]
  /\ UNCHANGED <<masterVars, slaves, stage, image, joins, history>>

\* The connection is lost: the slave ends, its handler reads 0 bytes and
\* closes the socket.  The vector keeps the number.
Disconnect(s) ==
  /\ stage[s] # "closed"
  /\ stage' = [stage EXCEPT ![s] = "closed"]
  /\ image' = [image EXCEPT ![s] = <<>>]
  /\ link' = [link EXCEPT ![s] = <<>>]
  /\ loading' = [loading EXCEPT ![s] = FALSE]
  /\ replica' = [replica EXCEPT ![s] = EmptyStore]
  /\ good' = [good EXCEPT ![s] = {}]
  /\ based' = [h \in Handlers |-> based[h] \ {s}]
  /\ UNCHANGED <<masterVars, slaves, joins, stable, filed, clash>>
-----------------------------------------------------------------------------
(***************************************************************************)
(* The client handlers.                                                    *)
(***************************************************************************)

\* A command on k is executed and not yet forwarded by some handler but h.
OthersPending(h, k) == \E g \in Handlers \ {h} : at[g] # "idle" /\ cmd[g].key = k

Changed(k) ==
  /\ stable' = stable \ {k}
  /\ filed' = filed \ {k}
  /\ good' = [s \in Sockets |-> good[s] \ {k}]

ExecuteCommand(h, c) ==
  /\ Execute(h, c)
  /\ IF c.op \in Writes /\ (Recorded(kv, c, now) \/ kv' # kv)
     THEN /\ Changed(c.key)
          /\ based' = [based EXCEPT ![h] = {s \in Sockets : c.key \in good[s]}]
          /\ clash' = IF OthersPending(h, c.key) THEN clash \cup {c.key}
                      ELSE clash \ {c.key}
     ELSE UNCHANGED <<stable, filed, good, based, clash>>
  /\ UNCHANGED links

LogCommand(h) == Log(h) /\ UNCHANGED <<links, history>>

Times(s) == Cardinality({i \in 1 .. Len(slaves) : slaves[i] = s})

Replaces(c) == c.op = "DEL" \/ (c.op = "SET" /\ c.ttl = NoTtl)

\* One pass over the vector under `slave_mtx`: a number whose socket is
\* closed is dropped, every other is sent the line.
Forward(h) ==
  /\ Answer(h)
  /\ link' = [s \in Sockets |->
                IF s \in Gone THEN link[s]
                ELSE link[s] \o [i \in 1 .. Times(s) |-> Msg("cmd", cmd[h])]]
  /\ slaves' = Sublist(slaves, Sockets \ Gone)
  /\ LET c == cmd[h]
         reached(s) ==
           /\ stage[s] = "synced" /\ c.key \notin clash
           /\ \/ Replaces(c)
              \/ c.op \in {"INCR", "DECR"} /\ s \in based[h] /\ Times(s) = 1
     IN  /\ good' = [s \in Sockets |->
                       IF reached(s) THEN good[s] \cup {c.key} ELSE good[s]]
  /\ based' = [based EXCEPT ![h] = {}]
  /\ UNCHANGED <<stage, image, loading, replica, joins,
                 stable, filed, clash>>
-----------------------------------------------------------------------------
(***************************************************************************)
(* The snapshot thread, the cleaner and the clock.                         *)
(***************************************************************************)

Plain(k) == kv.store[k] = Absent \/ kv.store[k].expiry = NoExpiry

SaveCopy ==
  /\ CopyStore
  /\ stable' = {k \in Keys : Plain(k)}
  /\ UNCHANGED <<links, filed, clash, based, good>>

SaveOpen ==
  /\ OpenFile
  /\ filed' = {}
  /\ stage' = [s \in Sockets |->
                 IF stage[s] = "registered" /\ image[s] # <<>> THEN "cut" ELSE stage[s]]
  /\ UNCHANGED <<slaves, image, link, loading, replica, joins, stable, clash, based, good>>

SaveClose ==
  /\ CloseFile
  /\ filed' = stable
  /\ stable' = {}
  /\ UNCHANGED <<links, clash, based, good>>

SaveElse ==
  /\ Wake \/ Truncate \/ ReadClock \/ \E k \in Keys : WriteLine(k)
  /\ UNCHANGED <<links, history>>

Housekeeping == (Clean \/ Tick) /\ UNCHANGED <<links, history>>

Next ==
  \/ \E s \in Sockets :
       \/ Connect(s)
       \/ Register(s)
       \/ ReadPart(s) \/ ReadSnapshot(s) \/ ReadCut(s)
       \/ SendSnapshot(s)
       \/ Apply(s)
       \/ Disconnect(s)
  \/ \E h \in Handlers :
       \/ \E c \in Inputs : ExecuteCommand(h, c)
       \/ LogCommand(h)
       \/ Forward(h)
  \/ SaveCopy
  \/ SaveOpen
  \/ SaveClose
  \/ SaveElse
  \/ Housekeeping

Spec == Init /\ [][Next]_vars
-----------------------------------------------------------------------------
(***************************************************************************)
(* Properties.                                                             *)
(***************************************************************************)

Content(store, k) == IF store[k] = Absent THEN Absent ELSE store[k].value

Agree(s, k) == Content(replica[s].store, k) = Content(kv.store, k)

\* The types of the variables.
TypeOK ==
  /\ MasterTypeOK
  /\ slaves \in Seq(Sockets)
  /\ stage \in [Sockets -> {"closed", "accepted", "registered", "cut", "read", "synced"}]
  /\ loading \in [Sockets -> BOOLEAN]
  /\ replica \in [Sockets -> StoreState]
  /\ joins \in 0 .. MaxJoins

\* What replication is good for.  Once a slave has applied what it was sent
\* it agrees with the master on every key whose last write ran alone and was
\* forwarded after the slave's snapshot was sent, and on every key that has
\* not changed since the copy a complete snapshot file was written from.
SlaveInStep ==
  \A s \in Sockets :
    stage[s] = "synced" /\ link[s] = <<>> => \A k \in good[s] : Agree(s, k)
=============================================================================
