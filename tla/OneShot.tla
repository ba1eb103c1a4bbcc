------------------------------ MODULE OneShot ------------------------------
(***************************************************************************)
(* The bridge's HTTP interface.  A request that needs the master opens a   *)
(* connection of its own, sends one line (sendTcpCommand) or a list of     *)
(* them, each after the reply to the last (sendTcpBatch), and closes it.   *)
(* GET /api/keys does so for one key after the other; a connection that is *)
(* closed counts as a client until the master's thread notices.            *)
(*                                                                         *)
(* An exchange <<q, i>> is the i-th connection of request q.  A reply is   *)
(* the number of its line; a reply that a dying master has sent a part of  *)
(* is the negative number.                                                 *)
(***************************************************************************)
EXTENDS Integers, FiniteSets, SequencesExt

CONSTANTS
  Commands,     \* the requests for one line; GET /api/status is one
  Listings,     \* the requests for the keys
  Writes,       \* the commands isLikelyWrite accepts
  TrackedKeys,  \* how many keys a listing looks up
  LookupLines,  \* how many lines a lookup has
  Slots         \* MAX_CLIENTS

ASSUME RequestAssumption ==
  /\ Writes \subseteq Commands /\ Commands \cap Listings = {}
  /\ TrackedKeys \in Nat \ {0} /\ LookupLines \in Nat \ {0} /\ Slots \in Nat \ {0}

Requests  == Commands \cup Listings
Rounds(q) == IF q \in Listings THEN TrackedKeys ELSE 1
Exchanges == UNION {{q} \X (1 .. Rounds(q)) : q \in Requests}

\* The number of lines of an exchange.
Lines(e) == IF e[1] \in Listings THEN LookupLines ELSE 1

Hello  == 0      \* the handshake "CLIENT"
Busy   == -100   \* the line "Server busy"
Failed == 0      \* a result that is not ok

VARIABLES
  http,        \* http[q]: "none", "received", "running" or the response's status code
  socket,      \* socket[e]: the bridge's end: "none", "dialling", "open", "destroyed"
  results,     \* results[e]: what is reported for the lines so far
  held,        \* held[e]: a part of a reply in the buffer, or Failed
  remembered,  \* the writes rememberCommand was run for
  master,      \* master[e]: the master's end: "backlog", "serving", "left"
  toMaster,    \* toMaster[e]: lines on their way to the master
  toBridge,    \* toBridge[e]: lines on their way back
  executed     \* executed[e]: how many lines the master has carried out

bridge == <<http, socket, results, held, remembered>>
wire   == <<master, toMaster, toBridge, executed>>
vars   == <<bridge, wire>>

Init ==
  /\ http = [q \in Requests |-> "none"]
  /\ socket = [e \in Exchanges |-> "none"]
  /\ results = [e \in Exchanges |-> <<>>]
  /\ held = [e \in Exchanges |-> Failed]
  /\ remembered = {}
  /\ master = [e \in Exchanges |-> "backlog"]
  /\ toMaster = [e \in Exchanges |-> <<>>] /\ toBridge = [e \in Exchanges |-> <<>>]
  /\ executed = [e \in Exchanges |-> 0]

Complete(e) == Len(results[e]) = Lines(e)
-----------------------------------------------------------------------------
(***************************************************************************)
(* Requests.                                                               *)
(***************************************************************************)
Request(q) ==
  /\ http[q] = "none"
  /\ http' = [http EXCEPT ![q] = "received"]
  /\ UNCHANGED <<socket, results, held, remembered, wire>>

\* The body is too large, not JSON or breaks off; or a file cannot be read.
Rejected(q) ==
  /\ http[q] = "received"
  /\ http' = [http EXCEPT ![q] = "500"]
  /\ UNCHANGED <<socket, results, held, remembered, wire>>

\* There is no command in the body.
EmptyCommand(q) ==
  /\ http[q] = "received" /\ q \in Commands
  /\ http' = [http EXCEPT ![q] = "400"]
  /\ UNCHANGED <<socket, results, held, remembered, wire>>

\* The first connection is opened.
Begin(q) ==
  /\ http[q] = "received"
  /\ http' = [http EXCEPT ![q] = "running"]
  /\ socket' = [socket EXCEPT ![<<q, 1>>] = "dialling"]
  /\ UNCHANGED <<results, held, remembered, wire>>
-----------------------------------------------------------------------------
(***************************************************************************)
(* Exchanges.                                                              *)
(***************************************************************************)

\* What follows a finished exchange, s being the sockets: the listing's next
\* lookup, or the response.
GoOn(e, s) ==
  IF e[2] < Rounds(e[1])
  THEN /\ socket' = [s EXCEPT ![<<e[1], e[2] + 1>>] = "dialling"]
       /\ UNCHANGED http
  ELSE /\ socket' = s
       /\ http' = [http EXCEPT ![e[1]] = "200"]

\* (faulty variant: the socket is not destroyed)
FinishOpen(e, rows) ==
  /\ results' = [results EXCEPT ![e] = @ \o rows]
  /\ held' = [held EXCEPT ![e] = Failed]
  /\ toBridge' = [toBridge EXCEPT ![e] = <<>>]
  /\ GoOn(e, socket)

\* finish: the promise is resolved with what was reported and these rows;
\* what still comes is not read.
Finish(e, rows) ==
  /\ results' = [results EXCEPT ![e] = @ \o rows]
  /\ held' = [held EXCEPT ![e] = Failed]
  /\ toBridge' = [toBridge EXCEPT ![e] = <<>>]
  /\ GoOn(e, [socket EXCEPT ![e] = "destroyed"])

\* All lines that have no result get a failure.
Fail(e) == Finish(e, [i \in 1 .. Lines(e) - Len(results[e]) |-> Failed])

Waiting(e) == socket[e] \in {"dialling", "open"} /\ ~Complete(e)

\* (faulty variant: all lines are sent at once)
ConnectedAll(e) ==
  /\ socket[e] = "dialling"
  /\ socket' = [socket EXCEPT ![e] = "open"]
  /\ toMaster' = [toMaster EXCEPT ![e] = <<Hello>> \o [i \in 1 .. Lines(e) |-> i]]
  /\ UNCHANGED <<http, results, held, remembered, master, toBridge, executed>>

\* 'connect': the handshake and the first line.
Connected(e) ==
  /\ socket[e] = "dialling"
  /\ socket' = [socket EXCEPT ![e] = "open"]
  /\ toMaster' = [toMaster EXCEPT ![e] = <<Hello, 1>>]
  /\ UNCHANGED <<http, results, held, remembered, master, toBridge, executed>>

Chunk(e) == socket[e] = "open" /\ ~Complete(e) /\ toBridge[e] # <<>>
Read(e)  == toBridge' = [toBridge EXCEPT ![e] = Tail(@)]

\* 'data' with the reply to the line that is waited for: the next one is sent,
\* if there is one.
Reply(e) ==
  /\ Chunk(e) /\ Head(toBridge[e]) > 0
  /\ remembered' = IF e[1] \in Writes THEN remembered \cup {e} ELSE remembered
  /\ IF Len(results[e]) + 1 = Lines(e)
     THEN /\ Finish(e, <<Head(toBridge[e])>>)
          /\ UNCHANGED toMaster
     ELSE /\ Read(e)
          /\ results' = [results EXCEPT ![e] = Append(@, Head(toBridge[e]))]
          /\ toMaster' = [toMaster EXCEPT ![e] = Append(@, Len(results[e]) + 2)]
          /\ UNCHANGED <<http, socket, held>>
  /\ UNCHANGED <<master, executed>>

\* ... with "Server busy", ...
Refused(e) ==
  /\ Chunk(e) /\ Head(toBridge[e]) = Busy
  /\ Fail(e)
  /\ UNCHANGED <<remembered, master, toMaster, executed>>

\* ... or with the beginning of a line.
Part(e) ==
  /\ Chunk(e) /\ Head(toBridge[e]) < 0 /\ Head(toBridge[e]) # Busy
  /\ Read(e)
  /\ held' = [held EXCEPT ![e] = Head(toBridge[e])]
  /\ UNCHANGED <<http, socket, results, remembered, master, toMaster, executed>>

\* (faulty variant: a line that is late fails alone, the next one is sent)
TimeoutGoesOn(e) ==
  /\ Waiting(e)
  /\ IF Len(results[e]) + 1 = Lines(e) \/ socket[e] = "dialling"
     THEN Fail(e) /\ UNCHANGED toMaster
     ELSE /\ results' = [results EXCEPT ![e] = Append(@, Failed)]
          /\ toMaster' = [toMaster EXCEPT ![e] = Append(@, Len(results[e]) + 2)]
          /\ UNCHANGED <<http, socket, held, toBridge>>
  /\ UNCHANGED <<remembered, master, executed>>

\* (faulty variant: the timeout is set when the connection is there)
TimeoutOpen(e) ==
  /\ Waiting(e) /\ socket[e] = "open"
  /\ Fail(e)
  /\ UNCHANGED <<remembered, master, toMaster, executed>>

\* 'timeout': nothing was heard for TCP_TIMEOUT_MS.
Timeout(e) ==
  /\ Waiting(e)
  /\ Fail(e)
  /\ UNCHANGED <<remembered, master, toMaster, executed>>

\* 'error': there is no master, or it closed with our lines unread.
Error(e) ==
  /\ Waiting(e)
  /\ socket[e] = "open" => master[e] = "left"
  /\ Fail(e)
  /\ master' = [master EXCEPT ![e] = "left"]
  /\ toMaster' = [toMaster EXCEPT ![e] = <<>>]
  /\ UNCHANGED <<remembered, executed>>

\* 'close': all the master sent is read.  A single command takes a part of a
\* reply for the reply.
Closed(e) ==
  /\ Waiting(e) /\ socket[e] = "open" /\ master[e] = "left" /\ toBridge[e] = <<>>
  /\ IF held[e] # Failed /\ e[1] \notin Listings THEN Finish(e, <<held[e]>>) ELSE Fail(e)
  /\ UNCHANGED <<remembered, master, toMaster, executed>>
-----------------------------------------------------------------------------
(***************************************************************************)
(* The master's ends.                                                      *)
(***************************************************************************)
Dialled(e) == socket[e] # "none" /\ master[e] = "backlog"
Clients    == Cardinality({e \in Exchanges : master[e] = "serving"})

\* The accept loop, when there is room and when there is none.
Admit(e) ==
  /\ Dialled(e) /\ Clients < Slots
  /\ master' = [master EXCEPT ![e] = "serving"]
  /\ UNCHANGED <<bridge, toMaster, toBridge, executed>>

Refuse(e) ==
  /\ Dialled(e) /\ Clients >= Slots
  /\ master' = [master EXCEPT ![e] = "left"]
  /\ toBridge' = [toBridge EXCEPT ![e] = Append(@, Busy)]
  /\ UNCHANGED <<bridge, toMaster, executed>>

\* handleClient takes a line: the handshake, which has no reply, or a command.
Serve(e) ==
  /\ master[e] = "serving" /\ toMaster[e] # <<>>
  /\ toMaster' = [toMaster EXCEPT ![e] = Tail(@)]
  /\ IF Head(toMaster[e]) = Hello
     THEN UNCHANGED <<toBridge, executed>>
     ELSE /\ toBridge' = IF socket[e] = "destroyed" THEN toBridge
                          ELSE [toBridge EXCEPT ![e] = Append(@, Head(toMaster[e]))]
          /\ executed' = [executed EXCEPT ![e] = @ + 1]
  /\ UNCHANGED <<bridge, master>>

\* recv returns 0, or an error if the bridge closed with replies unread: then
\* lines on their way are lost.
Gone(e) ==
  /\ master[e] = "serving" /\ socket[e] = "destroyed"
  /\ master' = [master EXCEPT ![e] = "left"]
  /\ toMaster' = [toMaster EXCEPT ![e] = <<>>]
  /\ UNCHANGED <<bridge, toBridge, executed>>

\* The master dies, maybe while it sends a reply.
Die(e) ==
  /\ Dialled(e) \/ master[e] = "serving"
  /\ master' = [master EXCEPT ![e] = "left"]
  /\ \/ UNCHANGED toBridge
     \/ /\ toBridge[e] # <<>>
        /\ toBridge' = [toBridge EXCEPT ![e] = Append(Front(@), -Last(@))]
  /\ toMaster' = [toMaster EXCEPT ![e] = <<>>]
  /\ UNCHANGED <<bridge, executed>>

Next ==
  \/ \E q \in Requests : Request(q) \/ Rejected(q) \/ EmptyCommand(q) \/ Begin(q)
  \/ \E e \in Exchanges :
       \/ Connected(e) \/ Reply(e) \/ Refused(e) \/ Part(e)
       \/ Timeout(e) \/ Error(e) \/ Closed(e)
       \/ Admit(e) \/ Refuse(e) \/ Serve(e) \/ Gone(e) \/ Die(e)

Spec == Init /\ [][Next]_vars

\* The event loop runs what is due, timers among them; a body or a file ends.
\* The accept loop runs, and recv returns for a connection that is closed.
\* Nothing else is assumed of the master.
FairSpec ==
  /\ Spec
  /\ \A q \in Requests : WF_vars(Rejected(q) \/ EmptyCommand(q) \/ Begin(q))
  /\ \A e \in Exchanges :
       /\ WF_vars(Timeout(e))
       /\ WF_vars(Admit(e) \/ Refuse(e)) /\ WF_vars(Gone(e))
-----------------------------------------------------------------------------
(***************************************************************************)
(* Properties.                                                             *)
(***************************************************************************)

\* The types of the variables.
TypeOK ==
  /\ http \in [Requests -> {"none", "received", "running", "200", "400", "500"}]
  /\ socket \in [Exchanges -> {"none", "dialling", "open", "destroyed"}]
  /\ master \in [Exchanges -> {"backlog", "serving", "left"}]
  /\ remembered \subseteq Exchanges
  /\ \A e \in Exchanges :
       /\ executed[e] \in 0 .. Lines(e)
       /\ Len(results[e]) <= Lines(e)
       /\ toMaster[e] \in Seq(0 .. Lines(e))
       /\ toBridge[e] \in Seq((-Lines(e) .. Lines(e)) \cup {Busy})
       /\ held[e] \in -Lines(e) .. 0

\* In contrast to a session's, a result that is ok comes from the reply to its
\* own line, whatever timed out, broke off or was refused before it; so a
\* status "connected", a listing's columns and a remembered write are backed by
\* what the master has carried out for this very request.  Conversely at most
\* one line of an exchange has been carried out without being reported as ok:
\* the one that was waited for last.
ReportsTrue ==
  \A e \in Exchanges :
    LET Ok == {i \in DOMAIN results[e] : results[e][i] # Failed}
    IN /\ \A i \in Ok : results[e][i] \in {i, -i} /\ i <= executed[e]
       /\ e \in remembered => executed[e] = 1
       /\ executed[e] <= Cardinality(Ok) + 1

\* A finished exchange gives its slot back to the master, given up or not,
\* accepted before or after it was given up.
SlotsReturn == \A e \in Exchanges : Complete(e) ~> master[e] = "left"

\* Every request is answered, whether the master is silent, full or dead.
RequestsAnswered ==
  \A q \in Requests : http[q] = "received" ~> http[q] \in {"200", "400", "500"}
=============================================================================
