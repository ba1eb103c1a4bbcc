---------------------------- MODULE BridgeSession ----------------------------
(***************************************************************************)
(* One dashboard session of the Node bridge: a browser tab's commands on   *)
(* their way through one persistent TCP connection to the master.  The     *)
(* protocol carries no identifiers, so the bridge matches a reply line to  *)
(* the oldest command it still waits for, and gives a command up when its  *)
(* timer fires.                                                            *)
(*                                                                         *)
(* Every action of the bridge is one callback of the event loop.  A chunk  *)
(* of several lines is as many Line actions in a row.                      *)
(***************************************************************************)
EXTENDS Sublists

CONSTANTS
  Calls,   \* the commands the tab may submit, each of them once
  Writes,  \* those isLikelyWrite accepts
  Hello,   \* the handshake line "CLIENT"
  Busy     \* the line "Server busy"

ASSUME CallsAssumption ==
  IsFiniteSet(Calls) /\ Writes \subseteq Calls /\ Hello \notin Calls /\ Busy \notin Calls

VARIABLES
  socket,      \* the bridge's socket: "dialling", "open", "ending", "closed"
  connected,   \* this.connected
  closed,      \* this.closed; the session is then out of the sessions map
  queue,       \* this.queue
  inFlight,    \* this.inFlight
  timers,      \* the calls whose timer is running
  state,       \* state[c]: what the promise of c is, "unsaid" before
  answer,      \* answer[c]: the line c was answered with; Hello before
  remembered,  \* the calls rememberCommand was run for
  toMaster,    \* lines on their way to the master
  toBridge,    \* lines on their way back; a reply is named by its command
  master,      \* the master's end: "backlog", "serving", "left"
  identified,  \* handleClient's flag
  sent         \* history: the calls written to the socket, in order

session == <<connected, closed, queue, inFlight, timers, state, answer, remembered>>
wire    == <<toMaster, toBridge, master, identified, sent>>
vars    == <<socket, session, wire>>

Init ==
  /\ socket = "dialling"
  /\ connected = FALSE /\ closed = FALSE
  /\ queue = <<>> /\ inFlight = 0 /\ timers = {}
  /\ state = [c \in Calls |-> "unsaid"]
  /\ answer = [c \in Calls |-> Hello]
  /\ remembered = {}
  /\ toMaster = <<>> /\ toBridge = <<>>
  /\ master = "backlog" /\ identified = FALSE
  /\ sent = <<>>

OneLess(n) == IF n > 0 THEN n - 1 ELSE 0   \* Math.max(0, n - 1)

\* The promises of the calls in C are resolved; a promise keeps its first result.
Resolve(C, result) ==
  state' = [c \in Calls |-> IF c \in C /\ state[c] = "waiting" THEN result ELSE state[c]]
-----------------------------------------------------------------------------
(***************************************************************************)
(* The bridge.                                                             *)
(***************************************************************************)

\* 'connect'.
Connected ==
  /\ socket = "dialling"
  /\ socket' = "open"
  /\ connected' = TRUE
  /\ toMaster' = Append(toMaster, Hello)
  /\ UNCHANGED <<closed, queue, inFlight, timers, state, answer, remembered>>
  /\ UNCHANGED <<toBridge, master, identified, sent>>

\* command(), on a session that is connected and on one that is not.
Submit(c) ==
  /\ state[c] = "unsaid"
  /\ connected /\ ~closed
  /\ state' = [state EXCEPT ![c] = "waiting"]
  /\ timers' = timers \cup {c}
  /\ inFlight' = inFlight + 1
  /\ queue' = Append(queue, c)
  /\ toMaster' = Append(toMaster, c)
  /\ sent' = Append(sent, c)
  /\ UNCHANGED <<socket, connected, closed, answer, remembered>>
  /\ UNCHANGED <<toBridge, master, identified>>

Unconnected(c) ==
  /\ state[c] = "unsaid"
  /\ ~connected \/ closed
  /\ state' = [state EXCEPT ![c] = "failed"]
  /\ UNCHANGED <<socket, connected, closed, queue, inFlight, timers, answer, remembered>>
  /\ UNCHANGED wire

\* (faulty variant: the reply goes to the newest command)
ReplyNewest ==
  /\ socket = "open" /\ toBridge # <<>> /\ queue # <<>> /\ Head(toBridge) # Busy
  /\ LET c == Last(queue)
     IN /\ queue' = Front(queue)
        /\ timers' = timers \ {c}
        /\ Resolve({c}, "answered")
        /\ answer' = [answer EXCEPT ![c] = Head(toBridge)]
        /\ remembered' = remembered \cup ({c} \cap Writes)
  /\ inFlight' = OneLess(inFlight)
  /\ toBridge' = Tail(toBridge)
  /\ UNCHANGED <<socket, connected, closed, toMaster, master, identified, sent>>

\* drainResponses: a line nobody waits for is dropped, ...
Unasked ==
  /\ socket = "open" /\ toBridge # <<>> /\ queue = <<>>
  /\ toBridge' = Tail(toBridge)
  /\ UNCHANGED <<socket, session, toMaster, master, identified, sent>>

\* ... a reply goes to the oldest command, ...
Reply ==
  /\ socket = "open" /\ toBridge # <<>> /\ queue # <<>> /\ Head(toBridge) # Busy
  /\ LET c == Head(queue)
     IN /\ queue' = Tail(queue)
        /\ timers' = timers \ {c}
        /\ Resolve({c}, "answered")
        /\ answer' = [answer EXCEPT ![c] = Head(toBridge)]
        /\ remembered' = remembered \cup ({c} \cap Writes)
  /\ inFlight' = OneLess(inFlight)
  /\ toBridge' = Tail(toBridge)
  /\ UNCHANGED <<socket, connected, closed, toMaster, master, identified, sent>>

\* ... and "Server busy" fails it and closes the session.
TurnedAway ==
  /\ socket = "open" /\ toBridge # <<>> /\ queue # <<>> /\ Head(toBridge) = Busy
  /\ queue' = Tail(queue)
  /\ timers' = timers \ {Head(queue)}
  /\ Resolve({Head(queue)}, "failed")
  /\ inFlight' = OneLess(inFlight)
  /\ toBridge' = Tail(toBridge)
  /\ connected' = FALSE /\ closed' = TRUE
  /\ socket' = "ending"
  /\ UNCHANGED <<answer, remembered, toMaster, master, identified, sent>>

\* (faulty variant: the entry stays in the queue)
ExpireKeeping(c) ==
  /\ c \in timers
  /\ timers' = timers \ {c}
  /\ inFlight' = OneLess(inFlight)
  /\ Resolve({c}, "timedout")
  /\ UNCHANGED <<socket, connected, closed, queue, answer, remembered, wire>>

\* The timer of c fires; the command itself is on its way and stays there.
Expire(c) ==
  /\ c \in timers
  /\ timers' = timers \ {c}
  /\ queue' = Sublist(queue, Calls \ {c})
  /\ inFlight' = OneLess(inFlight)
  /\ Resolve({c}, "timedout")
  /\ UNCHANGED <<socket, connected, closed, answer, remembered, wire>>

\* (faulty variants: the queue is not emptied; the promises are forgotten)
RejectAgain ==
  /\ Resolve(Range(queue), "failed")
  /\ timers' = timers \ Range(queue)
  /\ inFlight' = inFlight - Len(queue)
  /\ UNCHANGED queue

RejectSilently ==
  /\ queue' = <<>>
  /\ timers' = timers \ Range(queue)
  /\ inFlight' = 0
  /\ UNCHANGED state

\* rejectPending.
RejectPending ==
  /\ Resolve(Range(queue), "failed")
  /\ queue' = <<>>
  /\ timers' = timers \ Range(queue)
  /\ inFlight' = IF inFlight > Len(queue) THEN inFlight - Len(queue) ELSE 0

\* 'error': the master cannot be reached, or it closed with our lines unread
\* and what it had sent is lost.
SocketError ==
  /\ socket \in {"dialling", "open"}
  /\ socket = "open" => master = "left"
  /\ socket' = "ending"
  /\ connected' = FALSE
  /\ RejectPending
  /\ master' = "left"
  /\ UNCHANGED <<closed, answer, remembered, toMaster, toBridge, identified, sent>>

\* (faulty variant: the session is not marked closed and stays in the map)
SocketCloseKept ==
  /\ socket = "ending" \/ (socket = "open" /\ master = "left" /\ toBridge = <<>>)
  /\ socket' = "closed"
  /\ connected' = FALSE
  /\ RejectPending
  /\ UNCHANGED <<closed, answer, remembered, wire>>

\* 'close': after an error or a destroy(), or when the master has closed and
\* all of its lines are read.
SocketClose ==
  /\ socket = "ending" \/ (socket = "open" /\ master = "left" /\ toBridge = <<>>)
  /\ socket' = "closed"
  /\ connected' = FALSE /\ closed' = TRUE
  /\ RejectPending
  /\ UNCHANGED <<answer, remembered, wire>>

\* close(): the tab's WebSocket is gone.
CloseSession ==
  /\ ~closed
  /\ closed' = TRUE /\ connected' = FALSE
  /\ socket' = IF socket = "closed" THEN "closed" ELSE "ending"
  /\ UNCHANGED <<queue, inFlight, timers, state, answer, remembered, wire>>
-----------------------------------------------------------------------------
(***************************************************************************)
(* The master's end.                                                       *)
(***************************************************************************)
Admit ==
  /\ master = "backlog"
  /\ master' = "serving"
  /\ UNCHANGED <<socket, session, toMaster, toBridge, identified, sent>>

Refuse ==
  /\ master = "backlog"
  /\ toBridge' = Append(toBridge, Busy)
  /\ master' = "left"
  /\ UNCHANGED <<socket, session, toMaster, identified, sent>>

\* handleClient takes a line: the first one is the handshake and is not
\* answered, every other one is executed and answered.
Serve ==
  /\ master = "serving" /\ toMaster # <<>>
  /\ identified' = TRUE
  /\ toBridge' = IF identified THEN Append(toBridge, Head(toMaster)) ELSE toBridge
  /\ toMaster' = Tail(toMaster)
  /\ UNCHANGED <<socket, session, master, sent>>

\* The master stops or dies, or its thread finds the bridge gone.
Leave ==
  /\ master # "left"
  /\ master' = "left"
  /\ UNCHANGED <<socket, session, toMaster, toBridge, identified, sent>>

Next ==
  \/ Connected \/ Unasked \/ Reply \/ TurnedAway
  \/ SocketError \/ SocketClose \/ CloseSession
  \/ \E c \in Calls : Submit(c) \/ Unconnected(c) \/ Expire(c)
  \/ Admit \/ Refuse \/ Serve \/ Leave

Spec == Init /\ [][Next]_vars

\* The event loop runs the callbacks that are due.
FairSpec ==
  /\ Spec
  /\ WF_vars(Connected \/ (socket = "dialling" /\ SocketError))
  /\ WF_vars(Unasked \/ Reply \/ TurnedAway)
  /\ WF_vars(SocketClose)
  /\ \A c \in Calls : WF_vars(Expire(c))
-----------------------------------------------------------------------------
(***************************************************************************)
(* Properties.                                                             *)
(***************************************************************************)
TimedOut == {c \in Calls : state[c] = "timedout"}

\* The place of a call among those sent.
Place(c) == CHOOSE i \in DOMAIN sent : sent[i] = c

\* The types of the variables.
TypeOK ==
  /\ socket \in {"dialling", "open", "ending", "closed"}
  /\ connected \in BOOLEAN /\ closed \in BOOLEAN /\ identified \in BOOLEAN
  /\ queue \in Seq(Calls) /\ sent \in Seq(Calls)
  /\ inFlight \in 0 .. Cardinality(Calls)
  /\ timers \subseteq Calls /\ remembered \subseteq Calls
  /\ state \in [Calls -> {"unsaid", "waiting", "answered", "failed", "timedout"}]
  /\ answer \in [Calls -> Calls \cup {Hello}]
  /\ toMaster \in Seq(Calls \cup {Hello}) /\ toBridge \in Seq(Calls \cup {Busy})
  /\ master \in {"backlog", "serving", "left"}

\* The session's books agree after any mix of replies, timeouts, errors and
\* closes: the queue holds exactly the unresolved commands, in the order they
\* were sent, each with its timer running, and inFlight counts them.
BooksAgree ==
  /\ Range(queue) = {c \in Calls : state[c] = "waiting"}
  /\ queue = Sublist(sent, Range(queue))
  /\ timers = Range(queue)
  /\ inFlight = Len(queue)

\* How wrong an answer can be: it is the reply to the command itself or to an
\* earlier one, off by no more places than commands before it timed out.  As
\* long as nothing has timed out, every command gets its own reply, and the
\* writes that are remembered are writes the master has carried out.
ShiftedByTimeouts ==
  /\ \A c \in Calls : state[c] = "answered" =>
       LET late == {d \in TimedOut : Place(d) < Place(c)}
       IN Place(c) - Place(answer[c]) \in 0 .. Cardinality(late)
  /\ TimedOut = {} => remembered \cap Range(toMaster) = {}

\* Every command the tab submits is answered, fails or times out, whatever
\* becomes of the master and of the tab.
EveryCallResolved ==
  \A c \in Calls : state[c] = "waiting" ~> state[c] # "waiting"

\* A session whose master is gone leaves the sessions map (the dashboard's
\* list of clients).
DeadSessionLeaves == master = "left" ~> closed
=============================================================================
