---------------------------- MODULE Connections ----------------------------
(***************************************************************************)
(* The life of the master's sockets: the accept loop and its limit, the    *)
(* threads it starts, the handshake, the vector of slave sockets and who   *)
(* closes what.  The threads know their socket by its number only, and the *)
(* kernel gives a closed number to the next connection.                    *)
(*                                                                         *)
(* One thread serves one connection, and both are named by the connection. *)
(***************************************************************************)
EXTENDS Sublists

CONSTANTS
  SlavePeers,   \* connections whose peer says SLAVE
  ClientPeers,  \* connections whose peer says CLIENT
  Fds,          \* the numbers accept() hands out
  MaxClients,   \* MAX_CLIENTS (100 in the source)
  Free          \* the owner of a number that is not open

Conns == SlavePeers \cup ClientPeers

ASSUME PeersAssumption == SlavePeers \cap ClientPeers = {} /\ Free \notin Conns
ASSUME FdsAssumption   == Fds \subseteq Nat /\ IsFiniteSet(Conns)
ASSUME LimitAssumption == MaxClients \in Nat \ {0}

VARIABLES
  peer,      \* peer[c]: the other end: "new", "dialled", "up", "gone"
  owner,     \* owner[f]: the connection open under number f
  accepted,  \* the connection the accept loop has not admitted yet, or Free
  thread,    \* thread[c]: "none", "run", "leaving", "over"
  fd,        \* fd[c]: the number c's thread was started with; 0 before
  count,     \* current_clients
  slaves,    \* slave_sockets
  named,     \* connections whose handshake is done
  strays,    \* history: clients that were sent a forwarded command
  victims    \* history: connections closed by a thread that was not theirs

connVars == <<peer, owner, accepted, thread, fd, count, slaves, named, strays, victims>>

ConnInit ==
  /\ peer = [c \in Conns |-> "new"]
  /\ owner = [f \in Fds |-> Free]
  /\ accepted = Free
  /\ thread = [c \in Conns |-> "none"]
  /\ fd = [c \in Conns |-> 0]
  /\ count = 0
  /\ slaves = <<>>
  /\ named = {}
  /\ strays = {}
  /\ victims = {}

FreeFds == {f \in Fds : owner[f] = Free}

Dial(c) ==
  /\ peer[c] = "new"
  /\ peer' = [peer EXCEPT ![c] = "dialled"]
  /\ UNCHANGED <<owner, accepted, thread, fd, count, slaves, named, strays, victims>>

\* The peer closes its end or dies.
Hangup(c) ==
  /\ peer[c] = "up"
  /\ peer' = [peer EXCEPT ![c] = "gone"]
  /\ UNCHANGED <<owner, accepted, thread, fd, count, slaves, named, strays, victims>>
-----------------------------------------------------------------------------
(***************************************************************************)
(* The accept loop.                                                        *)
(***************************************************************************)

\* accept() returns the lowest free number.
Accept(c) ==
  /\ accepted = Free
  /\ peer[c] = "dialled"
  /\ \E f \in FreeFds :
       /\ \A g \in FreeFds : f <= g
       /\ owner' = [owner EXCEPT ![f] = c]
       /\ fd' = [fd EXCEPT ![c] = f]
  /\ accepted' = c
  /\ peer' = [peer EXCEPT ![c] = "up"]
  /\ UNCHANGED <<thread, count, slaves, named, strays, victims>>

\* (faulty variants: a refused socket is not closed; one client too many)
RefuseOpen ==
  /\ accepted # Free
  /\ count >= MaxClients
  /\ peer' = [peer EXCEPT ![accepted] = "gone"]
  /\ thread' = [thread EXCEPT ![accepted] = "over"]
  /\ accepted' = Free
  /\ UNCHANGED <<owner, fd, count, slaves, named, strays, victims>>

AdmitLate ==
  /\ accepted # Free
  /\ count <= MaxClients
  /\ count' = count + 1
  /\ thread' = [thread EXCEPT ![accepted] = "run"]
  /\ accepted' = Free
  /\ UNCHANGED <<peer, owner, fd, slaves, named, strays, victims>>

\* The limit is reached: "Server busy", close.
Refuse ==
  /\ accepted # Free
  /\ count >= MaxClients
  /\ owner' = [owner EXCEPT ![fd[accepted]] = Free]
  /\ peer' = [peer EXCEPT ![accepted] = "gone"]
  /\ thread' = [thread EXCEPT ![accepted] = "over"]
  /\ accepted' = Free
  /\ UNCHANGED <<fd, count, slaves, named, strays, victims>>

Admit ==
  /\ accepted # Free
  /\ count < MaxClients
  /\ count' = count + 1
  /\ thread' = [thread EXCEPT ![accepted] = "run"]
  /\ accepted' = Free
  /\ UNCHANGED <<peer, owner, fd, slaves, named, strays, victims>>
-----------------------------------------------------------------------------
(***************************************************************************)
(* handleClient.  A thread that is not waiting inside recv reaches         *)
(* whatever connection its number belongs to by then.                      *)
(***************************************************************************)

Running(c) == thread[c] = "run"

\* (faulty variant: every peer is registered)
HandshakeAll(c) ==
  /\ Running(c)
  /\ c \notin named
  /\ owner[fd[c]] = c /\ peer[c] = "up"
  /\ named' = named \cup {c}
  /\ slaves' = Append(slaves, fd[c])
  /\ UNCHANGED <<peer, owner, accepted, thread, fd, count, strays, victims>>

Handshake(c) ==
  /\ Running(c)
  /\ c \notin named
  /\ owner[fd[c]] = c /\ peer[c] = "up"
  /\ named' = named \cup {c}
  /\ slaves' = IF c \in SlavePeers THEN Append(slaves, fd[c]) ELSE slaves
  /\ UNCHANGED <<peer, owner, accepted, thread, fd, count, strays, victims>>

Up(f) == owner[f] # Free /\ peer[owner[f]] = "up"

\* A write of client c is forwarded: the loop sends to every number of the
\* vector, and one it cannot send to is closed and erased.  A send to a peer
\* that has hung up may still succeed.
Forward(c) ==
  /\ Running(c)
  /\ c \in ClientPeers \cap named
  /\ owner[fd[c]] = c /\ peer[c] = "up"
  /\ \E dead \in SUBSET {f \in Range(slaves) : ~Up(f)} :
       /\ {f \in Range(slaves) : owner[f] = Free} \subseteq dead
       /\ owner' = [f \in Fds |-> IF f \in dead THEN Free ELSE owner[f]]
       /\ slaves' = Sublist(slaves, Fds \ dead)
  /\ strays' = strays \cup {owner[f] : f \in {g \in Range(slaves) :
                                 Up(g) /\ owner[g] \in ClientPeers}}
  /\ UNCHANGED <<peer, accepted, thread, fd, count, named, victims>>

\* recv() returns 0 or -1: the peer is gone, or the number was closed under
\* the thread.
Leave(c) ==
  /\ Running(c)
  /\ peer[c] = "gone" \/ owner[fd[c]] # c
  /\ count' = count - 1
  /\ thread' = [thread EXCEPT ![c] = "leaving"]
  /\ UNCHANGED <<peer, owner, accepted, fd, slaves, named, strays, victims>>

\* (faulty variant: the counter is adjusted here, too)
CloseCounting(c) ==
  /\ thread[c] = "leaving"
  /\ owner' = [owner EXCEPT ![fd[c]] = Free]
  /\ victims' = victims \cup ({owner[fd[c]]} \ {c, Free})
  /\ thread' = [thread EXCEPT ![c] = "over"]
  /\ count' = count - 1
  /\ UNCHANGED <<peer, accepted, fd, slaves, named, strays>>

\* close(client_socket), whatever the number stands for by now.
Close(c) ==
  /\ thread[c] = "leaving"
  /\ owner' = [owner EXCEPT ![fd[c]] = Free]
  /\ victims' = victims \cup ({owner[fd[c]]} \ {c, Free})
  /\ thread' = [thread EXCEPT ![c] = "over"]
  /\ UNCHANGED <<peer, accepted, fd, count, slaves, named, strays>>

ConnNext ==
  \/ \E c \in Conns :
       \/ Dial(c)
       \/ Hangup(c)
       \/ Accept(c)
       \/ Handshake(c)
       \/ Forward(c)
       \/ Leave(c)
       \/ Close(c)
  \/ Refuse
  \/ Admit

ConnSpec == ConnInit /\ [][ConnNext]_connVars

\* The accept loop runs on; a thread whose peer is gone gets a 0 from recv.
ConnFairSpec ==
  /\ ConnSpec
  /\ WF_connVars(Admit \/ Refuse) /\ WF_connVars(\E c \in Conns : Accept(c))
  /\ \A c \in Conns : WF_connVars(peer[c] = "gone" /\ Leave(c)) /\ WF_connVars(Close(c))
-----------------------------------------------------------------------------
(***************************************************************************)
(* Properties.                                                             *)
(***************************************************************************)

\* The types of the variables.
ConnTypeOK ==
  /\ peer \in [Conns -> {"new", "dialled", "up", "gone"}]
  /\ owner \in [Fds -> Conns \cup {Free}]
  /\ accepted \in Conns \cup {Free}
  /\ thread \in [Conns -> {"none", "run", "leaving", "over"}]
  /\ fd \in [Conns -> Fds \cup {0}]
  /\ count \in 0 .. Cardinality(Conns)
  /\ slaves \in Seq(Fds)
  /\ named \subseteq Conns /\ strays \subseteq Conns /\ victims \subseteq Conns

\* The counter the limit is checked against is the number of connections
\* being served, through refusals, lost peers and numbers closed twice, and
\* it stays within the limit (README "Enforces maximum client limits").
WithinLimit ==
  /\ count = Cardinality({c \in Conns : Running(c)})
  /\ count <= MaxClients

\* As long as no slave has been lost, every forwarded line goes to a slave
\* and every thread closes its own connection.
SoundWhileSlavesStay ==
  (\A c \in SlavePeers : peer[c] # "gone") => strays = {} /\ victims = {}

\* Whoever dials is served or refused: refusals and departures give their
\* numbers back, so that accept() does not run out of them.
EveryCallAnswered ==
  \A c \in Conns : peer[c] = "dialled" ~> thread[c] # "none"
=============================================================================
