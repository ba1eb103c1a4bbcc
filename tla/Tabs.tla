-------------------------------- MODULE Tabs --------------------------------
(***************************************************************************)
(* The dashboard's tabs and the bridge: every tab holds a WebSocket, every *)
(* WebSocket a session with a TCP connection to the master, and the bridge *)
(* pushes the list of sessions and the activity log to the tabs of the     *)
(* sessions it has.  A tab shows what it was sent last: messages arrive in *)
(* the order in which they were sent, and since no page answers one here   *)
(* (TabLoop has the answers), it is shown when it is sent.                 *)
(*                                                                         *)
(* An action is one callback of the bridge's event loop with the promise   *)
(* reactions it triggers, or one event in a browser.  A session's queue is *)
(* BridgeSession's matter; here it is a number.  Of two broadcasts in one  *)
(* callback the second is kept.                                            *)
(***************************************************************************)
EXTENDS Integers, FiniteSets, SequencesExt

CONSTANTS
  Tabs,
  NoSession,    \* a tab's session id before it is told one
  MaxActivity,  \* MAX_ACTIVITY
  MaxSessions,  \* bound on WebSockets ever opened
  MaxEvents     \* bound on commands, timeouts, lost WebSockets and master's stops

ASSUME ActivityAssumption == MaxActivity \in Nat \ {0}
ASSUME TabBoundAssumption == MaxSessions \in Nat /\ MaxEvents \in Nat

Ids == 1 .. MaxSessions

ASSUME NoSessionAssumption == NoSession \notin Ids

VARIABLES
  up,        \* the master accepts connections
  sess,      \* sess[s]: the TCP side of session s, its inFlight and commandCount
  ws,        \* ws[s]: "none", "open", "left" by the tab, "closed"
  log,       \* activityLog, newest first
  tab,       \* tab[t]: the page's state
  opened, recorded, events, timeouts  \* so far

counts   == <<opened, events, timeouts>>
tabsVars == <<up, sess, ws, log, tab, recorded, counts>>

NewPage == [phase |-> "dialling", socket |-> NoSession, id |-> NoSession, dot |-> FALSE,
            shown |-> <<>>, acts |-> <<>>]

TabsInit ==
  /\ up = TRUE
  /\ sess = [s \in Ids |-> [tcp |-> "none", inFlight |-> 0, count |-> 0]]
  /\ ws = [s \in Ids |-> "none"]
  /\ log = <<>>
  /\ tab = [t \in Tabs |-> NewPage]
  /\ opened = 0 /\ recorded = 0 /\ events = 0 /\ timeouts = 0
\* One of the events that MaxEvents bounds.
Spend == events < MaxEvents /\ events' = events + 1
-----------------------------------------------------------------------------
(***************************************************************************)
(* What the bridge sends.                                                  *)
(***************************************************************************)

\* this.connected; the connections of a master that stopped are "dying".
Connected(s) == sess[s].tcp \in {"open", "dying"}

\* The sessions map.
InMap(ss) == {s \in Ids : ss[s].tcp \in {"dialling", "open", "dying"}}

SessionPayload(ss) ==
  [type |-> "sessions",
   sessions |-> [s \in InMap(ss) |->
                   [connected |-> ss[s].tcp # "dialling",
                    inFlight |-> ss[s].inFlight, count |-> ss[s].count]]]

Activity(entries) == [type |-> "activity", activity |-> entries]

Status(s, ok) == [type |-> "status", connected |-> ok, id |-> s]

Response(ok) == [type |-> "response", ok |-> ok]

\* The page receives a message.
Shown(page, m) ==
  CASE m.type = "status"   -> [page EXCEPT !.dot = m.connected, !.id = m.id]
    [] m.type = "sessions" -> [page EXCEPT !.shown = m.sessions]
    [] m.type = "activity" -> [page EXCEPT !.acts = m.activity]
    [] m.type = "response" -> [page EXCEPT !.dot = m.ok]

\* m is sent on every WebSocket of S that is open.
Send(pages, S, m) ==
  [t \in Tabs |-> IF pages[t].phase = "open" /\ pages[t].socket \in S
                  THEN Shown(pages[t], m) ELSE pages[t]]

\* s is told how its connection stands, and the activity log.
Greet(s, ok) == Send(Send(tab, {s}, Status(s, ok)), {s}, Activity(log))

\* (faulty variant: old entries are kept)
RecordedAll(s, n) ==
  [i \in 1 .. n |-> [number |-> recorded + n + 1 - i, session |-> s]] \o log

\* recordActivity, for n commands of s, the last one first.
Recorded(s, n) ==
  LET all == [i \in 1 .. n |-> [number |-> recorded + n + 1 - i, session |-> s]] \o log
  IN  SubSeq(all, 1, IF Len(all) < MaxActivity THEN Len(all) ELSE MaxActivity)

\* (faulty variants: the sessions are broadcast before the books are set
\* right; the log is broadcast before the entry is made)
ResolvedEarly(s, n, ok, ss) ==
  LET all == Send(tab, InMap(ss), SessionPayload(sess))
  IN /\ sess' = ss
     /\ log' = Recorded(s, n)
     /\ recorded' = recorded + n
     /\ tab' = IF n = 0 THEN all
                 ELSE Send(Send(all, {s}, Response(ok)), InMap(ss), Activity(log'))

ResolvedUnlogged(s, n, ok, ss) ==
  LET all == Send(tab, InMap(ss), SessionPayload(ss))
  IN /\ sess' = ss
     /\ log' = Recorded(s, n)
     /\ recorded' = recorded + n
     /\ tab' = IF n = 0 THEN all
                 ELSE Send(Send(all, {s}, Response(ok)), InMap(ss), Activity(log))

\* n commands of s are resolved, and the sessions are as in ss: the sessions
\* are broadcast, s is told its results (for the page, n that are alike are like
\* one), and the activities are broadcast.
Resolved(s, n, ok, ss) ==
  LET all == Send(tab, InMap(ss), SessionPayload(ss))
  IN /\ sess' = ss
     /\ log' = Recorded(s, n)
     /\ recorded' = recorded + n
     /\ tab' = IF n = 0 THEN all
                 ELSE Send(Send(all, {s}, Response(ok)), InMap(ss), Activity(log'))
-----------------------------------------------------------------------------
(***************************************************************************)
(* The bridge.                                                             *)
(***************************************************************************)

\* 'upgrade': the tab's WebSocket opens, and its session is entered.
Upgrade(t) ==
  /\ tab[t].phase = "dialling" /\ opened < MaxSessions
  /\ LET s == opened + 1
     IN /\ opened' = s
        /\ ws' = [ws EXCEPT ![s] = "open"]
        /\ sess' = [sess EXCEPT ![s].tcp = "dialling"]
        /\ tab' = [tab EXCEPT ![t].phase = "open", ![t].socket = s]
  /\ UNCHANGED <<up, log, recorded, events, timeouts>>

\* The session's connection is made, ...
Connect(s) ==
  /\ sess[s].tcp = "dialling" /\ up
  /\ sess' = [sess EXCEPT ![s].tcp = "open"]
  /\ tab' = Send(Greet(s, TRUE), InMap(sess'), SessionPayload(sess'))
  /\ UNCHANGED <<up, ws, log, recorded, counts>>

\* ... or fails: the session leaves the map, and its tab is told once more
\* how things stand.
ConnectFails(s) ==
  /\ sess[s].tcp = "dialling" /\ ~up
  /\ sess' = [sess EXCEPT ![s].tcp = "closed"]
  /\ tab' = Send(Greet(s, FALSE), InMap(sess') \cup {s}, SessionPayload(sess'))
  /\ UNCHANGED <<up, ws, log, recorded, counts>>

\* A command the user types arrives: it is passed on, or fails for want of a
\* connection.
Take(s) ==
  /\ ws[s] = "open" /\ Spend
  /\ IF Connected(s)
     THEN /\ sess' = [sess EXCEPT ![s].inFlight = @ + 1]
          /\ tab' = Send(tab, InMap(sess'), SessionPayload(sess'))
          /\ UNCHANGED <<log, recorded>>
     ELSE /\ UNCHANGED sess
          /\ log' = Recorded(s, 1)
          /\ recorded' = recorded + 1
          /\ tab' = Send(Send(tab, {s}, Response(FALSE)), InMap(sess), Activity(log'))
  /\ UNCHANGED <<up, ws, opened, timeouts>>

\* The oldest command in flight is answered, ...
Answer(s) ==
  /\ sess[s].tcp = "open" /\ sess[s].inFlight > 0
  /\ Resolved(s, 1, TRUE, [sess EXCEPT ![s].inFlight = @ - 1, ![s].count = @ + 1])
  /\ UNCHANGED <<up, ws, counts>>

\* ... or times out.
Timeout(s) ==
  /\ sess[s].inFlight > 0 /\ Spend
  /\ timeouts' = timeouts + 1
  /\ Resolved(s, 1, FALSE, [sess EXCEPT ![s].inFlight = @ - 1])
  /\ UNCHANGED <<up, ws, opened>>

\* 'close' of the TCP socket: what is in flight fails.
TcpClosed(s) ==
  /\ sess[s].tcp \in {"dying", "closing"}
  /\ Resolved(s, sess[s].inFlight, FALSE, [sess EXCEPT ![s].tcp = "closed", ![s].inFlight = 0])
  /\ UNCHANGED <<up, ws, counts>>

\* 'close' or 'error' of the WebSocket: the session is closed.
WsClosed(s) ==
  /\ ws[s] = "left"
  /\ ws' = [ws EXCEPT ![s] = "closed"]
  /\ sess' = [sess EXCEPT ![s].tcp = IF @ = "closed" THEN @ ELSE "closing"]
  /\ tab' = Send(tab, InMap(sess'), SessionPayload(sess'))
  /\ UNCHANGED <<up, log, recorded, counts>>
-----------------------------------------------------------------------------
(***************************************************************************)
(* The master.                                                             *)
(***************************************************************************)
Stop ==
  /\ up /\ Spend
  /\ up' = FALSE
  /\ sess' = [s \in Ids |-> IF sess[s].tcp = "open" THEN [sess[s] EXCEPT !.tcp = "dying"] ELSE sess[s]]
  /\ UNCHANGED <<ws, log, tab, recorded, opened, timeouts>>

Start ==
  /\ ~up
  /\ up' = TRUE
  /\ UNCHANGED <<sess, ws, log, tab, recorded, counts>>
-----------------------------------------------------------------------------
(***************************************************************************)
(* The browser.                                                            *)
(***************************************************************************)

\* The connection is lost: the tab shows it and dials again.  (A tab the user
\* closes is one that does not dial any more.)
Disconnect(t) ==
  /\ tab[t].phase = "open" /\ Spend
  /\ tab' = [tab EXCEPT ![t].phase = "dialling", ![t].dot = FALSE,
                        ![t].shown = [s \in DOMAIN @ |->
                           IF s = tab[t].id THEN [@[s] EXCEPT !.connected = FALSE] ELSE @[s]]]
  /\ ws' = [ws EXCEPT ![tab[t].socket] = "left"]
  /\ UNCHANGED <<up, sess, log, recorded, opened, timeouts>>

TabsNext ==
  \/ \E t \in Tabs : Upgrade(t) \/ Disconnect(t)
  \/ \E s \in Ids : \/ Connect(s) \/ ConnectFails(s) \/ Take(s) \/ Answer(s) \/ Timeout(s)
                    \/ TcpClosed(s) \/ WsClosed(s)
  \/ Stop \/ Start

TabsSpec == TabsInit /\ [][TabsNext]_tabsVars

\* Events arrive and the master answers.  Nothing is assumed of the users, the
\* network and the master's stops and starts.
TabsFairSpec ==
  /\ TabsSpec
  /\ \A s \in Ids :
       /\ WF_tabsVars(Connect(s) \/ ConnectFails(s)) /\ WF_tabsVars(Answer(s))
       /\ WF_tabsVars(TcpClosed(s)) /\ WF_tabsVars(WsClosed(s))
-----------------------------------------------------------------------------
(***************************************************************************)
(* Properties.                                                             *)
(***************************************************************************)
Payload == [connected : BOOLEAN, inFlight : 0 .. MaxEvents, count : 0 .. MaxEvents]
Entry   == [number : 1 .. MaxEvents, session : Ids]

\* The types of the variables.
TabsTypeOK ==
  /\ up \in BOOLEAN
  /\ sess \in [Ids -> [tcp : {"none", "dialling", "open", "dying", "closing", "closed"},
                       inFlight : 0 .. MaxEvents, count : 0 .. MaxEvents]]
  /\ ws \in [Ids -> {"none", "open", "left", "closed"}]
  /\ log \in Seq(Entry) /\ Len(log) <= MaxActivity
  /\ \A t \in Tabs :
       /\ tab[t].phase \in {"dialling", "open"}
       /\ {tab[t].socket, tab[t].id} \subseteq Ids \cup {NoSession}
       /\ tab[t].dot \in BOOLEAN
       /\ DOMAIN tab[t].shown \subseteq Ids
       /\ \A s \in DOMAIN tab[t].shown : tab[t].shown[s] \in Payload
       /\ tab[t].acts \in Seq(Entry)

\* The tab is open and its session is in the map.
Attended(t) == tab[t].phase = "open" /\ tab[t].socket \in InMap(sess)

\* Nothing is on its way, and no command waits.
AtRest ==
  \A s \in Ids : /\ sess[s].inFlight = 0 /\ ws[s] # "left"
                 /\ sess[s].tcp \notin {"dialling", "dying", "closing"}

\* When things have come to rest, every tab whose session lives shows the
\* sessions there are, with their counters, marks its own, and says that it is
\* connected unless a command has timed out; whatever tabs came and went, and
\* in whichever order commands failed.
PanelTrue ==
  AtRest => \A t \in Tabs : Attended(t) =>
    /\ tab[t].shown = SessionPayload(sess).sessions
    /\ tab[t].id = tab[t].socket
    /\ timeouts = 0 => tab[t].dot

\* ... and they all show the same timeline, the bridge's.
TimelineShared == AtRest => \A t \in Tabs : Attended(t) => tab[t].acts = log

\* RUNNING_MANUAL.md:187-194 "Dashboard shows `Disconnected`: Start the C++
\* backend": an open tab that shows it is disconnected shows that it is
\* connected once the master is up and stays up.
StartHelps ==
  \A t \in Tabs : (tab[t].phase = "open" /\ ~tab[t].dot /\ up)
                    ~> (tab[t].dot \/ tab[t].phase # "open" \/ ~up)
=============================================================================
