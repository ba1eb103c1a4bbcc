------------------------------ MODULE TabLoop ------------------------------
(***************************************************************************)
(* One tab of the dashboard and the bridge's end of its WebSocket: what    *)
(* the user types and the page asks for by itself, the chunks in which the *)
(* frames arrive, the handlers that work on them, and the page's answers   *)
(* to what it is sent.                                                     *)
(*                                                                         *)
(* A chunk's handler takes its frames one after the other and awaits each; *)
(* meanwhile the next chunk's handler runs.  A handler that waits is the   *)
(* frame it waits for with the frames behind it, its `rest`.  The store is *)
(* the number of writes it has seen.  A listing reads files and then sends *)
(* some lookups, one after the other; what it finds is in KeyExplorer, and *)
(* timeouts are in BridgeSession.                                          *)
(***************************************************************************)
EXTENDS Integers, FiniteSets, SequencesExt

CONSTANTS
  Commands,     \* what the user types, each of them once
  Writes,       \* those isLikelyWrite accepts
  KeysFrame,         \* the frame that asks for the keys
  Lookups,      \* how many lookups a listing may take
  MaxClicks,    \* bound on clicks on Refresh
  MaxForeign,   \* bound on writes by other tabs
  MaxFailures   \* bound on listings that fail

ASSUME FrameAssumption == Writes \subseteq Commands /\ KeysFrame \notin Commands
ASSUME LookupsAssumption == Lookups \subseteq Nat
ASSUME BoundAssumption == {MaxClicks, MaxForeign, MaxFailures} \subseteq Nat

Nothing == -1   \* no listing was begun

VARIABLES
  connected,  \* session.connected
  toBridge,   \* frames on their way to the bridge
  reading,    \* the listings that read files, with their rests
  queue,      \* session.queue with the rests: commands and lookups, as sent to the master
  replies,    \* how many of the first of them are answered, the replies on their way back
  toTab,      \* messages on their way to the page
  version,    \* writes carried out
  foreign,    \* of other tabs' writes, those not yet in the activity log
  disabled,   \* the Refresh button is disabled
  answered    \* commands whose response the page has seen

VARIABLES
  typed,      \* history: the commands typed, in order
  issued,     \* history: the commands passed to the session, in order
  behind,     \* history: the commands that arrived behind another frame of their chunk
  newest,     \* history: the version at which the youngest listing the page was shown began
  clicks, foreigners, failures  \* so far

bridge  == <<connected, reading, queue, replies>>
store   == <<version, foreign>>
pageState    == <<disabled, answered>>
past == <<typed, issued, behind>>
tallies  == <<clicks, foreigners, failures>>
loopVars    == <<bridge, toBridge, toTab, store, pageState, past, newest, tallies>>

\* The page has been told that its session is connected.
LoopInit ==
  /\ connected = TRUE
  /\ toBridge = <<KeysFrame>> /\ disabled = TRUE
  /\ reading = <<>> /\ queue = <<>> /\ replies = 0 /\ toTab = <<>>
  /\ version = 0 /\ foreign = 0
  /\ newest = Nothing /\ answered = {}
  /\ typed = <<>> /\ issued = <<>> /\ behind = {}
  /\ clicks = 0 /\ foreigners = 0 /\ failures = 0
-----------------------------------------------------------------------------
(***************************************************************************)
(* The bridge.                                                             *)
(***************************************************************************)
KeysMessage(v)   == [type |-> "keys", began |-> v]
ResponseMessage(c)      == [type |-> "response", command |-> c]
ForeignActivity  == [type |-> "activity"]
ErrorMessage     == [type |-> "error"]

\* (faulty variant: nothing is sent for keys)
RefusedCommands(frames) ==
  LET commands == SelectSeq(frames, LAMBDA f : f # KeysFrame)
  IN  [i \in DOMAIN commands |-> ResponseMessage(commands[i])]

\* What is sent for the frames when the session is not connected.
Refusals(frames) ==
  [i \in DOMAIN frames |-> IF frames[i] = KeysFrame THEN KeysMessage(Nothing) ELSE ResponseMessage(frames[i])]

\* A command or the lookup of a listing; `left` lookups are to follow.
CommandEntry(c, rest)       == [item |-> c, began |-> Nothing, left |-> 0, rest |-> rest]
LookupEntry(v, left, rest) == [item |-> KeysFrame, began |-> v, left |-> left, rest |-> rest]

\* A handler goes on with its frames, on a session that is connected: it
\* sends the first one, or reads the files, and waits.  q and r are what the
\* session and the listings have before.
Begin(frames, q, r) ==
  /\ queue'   = IF frames # <<>> /\ Head(frames) # KeysFrame
                THEN Append(q, CommandEntry(Head(frames), Tail(frames))) ELSE q
  /\ reading' = IF frames # <<>> /\ Head(frames) = KeysFrame
                THEN Append(r, [began |-> version, rest |-> Tail(frames)]) ELSE r
  /\ issued'  = IF frames # <<>> /\ Head(frames) # KeysFrame THEN Append(issued, Head(frames)) ELSE issued

\* (faulty variant: a chunk's frames are taken from its end)
ArriveLastFirst(n) ==
  LET frames == Reverse(SubSeq(toBridge, 1, n))
  IN /\ n <= Len(toBridge)
     /\ toBridge' = SubSeq(toBridge, n + 1, Len(toBridge))
     /\ behind' = behind \cup (Range(SubSeq(toBridge, 2, n)) \ {KeysFrame})
     /\ IF connected THEN Begin(frames, queue, reading) /\ UNCHANGED toTab
        ELSE toTab' = toTab \o Refusals(frames) /\ UNCHANGED <<queue, reading, issued>>
     /\ UNCHANGED <<connected, replies, store, pageState, typed, newest, tallies>>

\* A chunk of n frames arrives.
Arrive(n) ==
  LET frames == SubSeq(toBridge, 1, n)
  IN /\ n <= Len(toBridge)
     /\ toBridge' = SubSeq(toBridge, n + 1, Len(toBridge))
     /\ behind' = behind \cup (Range(Tail(frames)) \ {KeysFrame})
     /\ IF connected THEN Begin(frames, queue, reading) /\ UNCHANGED toTab
        ELSE toTab' = toTab \o Refusals(frames) /\ UNCHANGED <<queue, reading, issued>>
     /\ UNCHANGED <<connected, replies, store, pageState, typed, newest, tallies>>

\* A listing has read the files.  It asks the master about the keys it knows;
\* without a connection all lookups fail, and without keys there are none.
Looked(i) ==
  /\ i \in DOMAIN reading
  /\ LET l == reading[i] IN
     \E n \in Lookups :
       \/ /\ connected /\ n > 0
          /\ queue' = Append(queue, LookupEntry(l.began, n - 1, l.rest))
          /\ reading' = RemoveAt(reading, i)
          /\ UNCHANGED <<toTab, issued>>
       \/ /\ connected /\ n = 0
          /\ Begin(l.rest, queue, RemoveAt(reading, i))
          /\ toTab' = Append(toTab, KeysMessage(l.began))
       \/ /\ ~connected
          /\ toTab' = Append(toTab, KeysMessage(l.began)) \o Refusals(l.rest)
          /\ reading' = RemoveAt(reading, i)
          /\ UNCHANGED <<queue, issued>>
  /\ UNCHANGED <<connected, replies, toBridge, store, pageState, typed, behind, newest, tallies>>

\* A file cannot be read: the handler reports it and goes on.
CannotRead(i) ==
  /\ i \in DOMAIN reading /\ failures < MaxFailures
  /\ failures' = failures + 1
  /\ IF connected
     THEN /\ Begin(reading[i].rest, queue, RemoveAt(reading, i))
          /\ toTab' = Append(toTab, ErrorMessage)
     ELSE /\ reading' = RemoveAt(reading, i)
          /\ toTab' = Append(toTab, ErrorMessage) \o Refusals(reading[i].rest)
          /\ UNCHANGED <<queue, issued>>
  /\ UNCHANGED <<connected, replies, toBridge, store, pageState, typed, behind, newest,
                 clicks, foreigners>>

Result(e) == IF e.item = KeysFrame THEN KeysMessage(e.began) ELSE ResponseMessage(e.item)

\* (faulty variant: the handler returns after a listing)
FinishLast ==
  /\ connected /\ replies > 0 /\ Head(queue).left = 0
  /\ replies' = replies - 1
  /\ Begin(IF Head(queue).item = KeysFrame THEN <<>> ELSE Head(queue).rest, Tail(queue), reading)
  /\ toTab' = Append(toTab, Result(Head(queue)))
  /\ UNCHANGED <<connected, toBridge, store, pageState, typed, behind, newest, tallies>>

\* The master's answer to a command or to the last lookup of a listing: the
\* handler sends the result and goes on.
Finish ==
  /\ connected /\ replies > 0 /\ Head(queue).left = 0
  /\ replies' = replies - 1
  /\ Begin(Head(queue).rest, Tail(queue), reading)
  /\ toTab' = Append(toTab, Result(Head(queue)))
  /\ UNCHANGED <<connected, toBridge, store, pageState, typed, behind, newest, tallies>>

\* The answer to another lookup: the listing sends the next one.
LookFurther ==
  /\ connected /\ replies > 0 /\ Head(queue).left > 0
  /\ replies' = replies - 1
  /\ LET e == Head(queue)
     IN queue' = Append(Tail(queue), LookupEntry(e.began, e.left - 1, e.rest))
  /\ UNCHANGED <<connected, reading, toBridge, toTab, store, pageState, past, newest, tallies>>

\* (faulty variant: a line that has been received is kept)
LoseSessionKeeping ==
  /\ connected
  /\ connected' = FALSE
  /\ toTab' = toTab \o [i \in DOMAIN queue |-> Result(queue[i])]
                    \o FlattenSeq([i \in DOMAIN queue |-> Refusals(queue[i].rest)])
  /\ queue' = <<>>
  /\ UNCHANGED <<reading, replies, toBridge, store, pageState, past, newest, tallies>>

\* The session's connection is lost: everything that waits is told, and the
\* handlers go on without a connection.
LoseSession ==
  /\ connected
  /\ connected' = FALSE
  /\ toTab' = toTab \o [i \in DOMAIN queue |-> Result(queue[i])]
                    \o FlattenSeq([i \in DOMAIN queue |-> Refusals(queue[i].rest)])
  /\ queue' = <<>> /\ replies' = 0
  /\ UNCHANGED <<reading, toBridge, store, pageState, past, newest, tallies>>

\* The activity log gets the write of another tab.
RecordForeign ==
  /\ foreign > 0
  /\ foreign' = foreign - 1
  /\ toTab' = IF connected THEN Append(toTab, ForeignActivity) ELSE toTab
  /\ UNCHANGED <<bridge, toBridge, version, pageState, past, newest, tallies>>
-----------------------------------------------------------------------------
(***************************************************************************)
(* The master: it works on the session's commands in order, and on others. *)
(***************************************************************************)
Serve ==
  /\ connected /\ replies < Len(queue)
  /\ replies' = replies + 1
  /\ version' = IF queue[replies'].item \in Writes THEN version + 1 ELSE version
  /\ UNCHANGED <<connected, reading, queue, toBridge, toTab, foreign, pageState, past, newest,
                 tallies>>

ServeForeign ==
  /\ foreigners < MaxForeign
  /\ foreigners' = foreigners + 1
  /\ version' = version + 1
  /\ foreign' = foreign + 1
  /\ UNCHANGED <<bridge, toBridge, toTab, pageState, past, newest, clicks, failures>>
-----------------------------------------------------------------------------
(***************************************************************************)
(* The page.                                                               *)
(***************************************************************************)

\* fetchKeys.
FetchKeys ==
  /\ disabled' = TRUE
  /\ toBridge' = Append(toBridge, KeysFrame)

Click ==
  /\ ~disabled /\ clicks < MaxClicks
  /\ clicks' = clicks + 1
  /\ FetchKeys
  /\ UNCHANGED <<bridge, toTab, store, answered, past, newest, foreigners, failures>>

Type(c) ==
  /\ c \notin Range(typed)
  /\ typed' = Append(typed, c)
  /\ toBridge' = Append(toBridge, c)
  /\ UNCHANGED <<bridge, toTab, store, pageState, issued, behind, newest, tallies>>

ReceiveKeys ==
  /\ toTab # <<>> /\ Head(toTab).type = "keys"
  /\ disabled' = FALSE
  /\ newest' = IF Head(toTab).began > newest THEN Head(toTab).began ELSE newest
  /\ toTab' = Tail(toTab)
  /\ UNCHANGED <<bridge, toBridge, store, answered, past, tallies>>

ReceiveError ==
  /\ toTab # <<>> /\ Head(toTab).type = "error"
  /\ toTab' = Tail(toTab)
  /\ UNCHANGED <<bridge, toBridge, store, pageState, past, newest, tallies>>

ReceiveResponse ==
  /\ toTab # <<>> /\ Head(toTab).type = "response"
  /\ answered' = answered \cup {Head(toTab).command}
  /\ FetchKeys
  /\ toTab' = Tail(toTab)
  /\ UNCHANGED <<bridge, store, past, newest, tallies>>

\* (faulty variant: a page that waits for keys does not ask again)
ReceiveActivityIdle ==
  /\ toTab # <<>> /\ Head(toTab).type = "activity"
  /\ IF disabled THEN UNCHANGED <<disabled, toBridge>> ELSE FetchKeys
  /\ toTab' = Tail(toTab)
  /\ UNCHANGED <<bridge, store, answered, past, newest, tallies>>

\* The activity of another tab; the own one changes nothing but the timeline.
ReceiveActivity ==
  /\ toTab # <<>> /\ Head(toTab).type = "activity"
  /\ FetchKeys
  /\ toTab' = Tail(toTab)
  /\ UNCHANGED <<bridge, store, answered, past, newest, tallies>>

LoopNext ==
  \/ \E n \in 1 .. Len(toBridge) : Arrive(n)
  \/ \E i \in DOMAIN reading : Looked(i) \/ CannotRead(i)
  \/ Finish \/ LookFurther \/ LoseSession \/ RecordForeign
  \/ Serve \/ ServeForeign
  \/ Click \/ \E c \in Commands : Type(c)
  \/ ReceiveKeys \/ ReceiveError \/ ReceiveResponse \/ ReceiveActivity

LoopSpec == LoopInit /\ [][LoopNext]_loopVars

\* Messages arrive, files are read, the master answers.  Nothing is assumed of
\* the users.
LoopFairSpec ==
  /\ LoopSpec
  /\ WF_loopVars(\E n \in 1 .. Len(toBridge) : Arrive(n))
  /\ WF_loopVars(\E i \in DOMAIN reading : Looked(i) \/ CannotRead(i))
  /\ WF_loopVars(Serve) /\ WF_loopVars(Finish \/ LookFurther) /\ WF_loopVars(RecordForeign)
  /\ WF_loopVars(ReceiveKeys \/ ReceiveError \/ ReceiveResponse \/ ReceiveActivity)
-----------------------------------------------------------------------------
(***************************************************************************)
(* Properties.                                                             *)
(***************************************************************************)
Frames == Commands \cup {KeysFrame}

\* The types of the variables.
LoopTypeOK ==
  /\ connected \in BOOLEAN /\ disabled \in BOOLEAN
  /\ toBridge \in Seq(Frames)
  /\ reading \in Seq([began : 0 .. version, rest : Seq(Frames)])
  /\ queue \in Seq([item : Frames, began : Nothing .. version, left : Nat, rest : Seq(Frames)])
  /\ replies \in 0 .. Len(queue)
  /\ version \in Nat /\ foreign \in 0 .. MaxForeign
  /\ newest \in Nothing .. version
  /\ answered \subseteq Range(typed)

Settled ==
  toBridge = <<>> /\ reading = <<>> /\ queue = <<>> /\ toTab = <<>> /\ foreign = 0

\* When things have come to rest, the page has been shown a list which the
\* bridge began to make after the last write of any dashboard, this one's or
\* another's, however many lists were under way when the page heard of the
\* writes; unless a listing failed.  (Of overlapping lists, which is shown
\* last, and what each of them finds, is not said.)
LastWriteListed == Settled /\ connected /\ failures = 0 => newest = version

\* ... and the Refresh button can be clicked.  (A listing that fails leaves it
\* disabled.)
ButtonReturns == Settled /\ failures = 0 => ~disabled

\* A tab's commands are carried out in the order in which they were typed,
\* except that one that waits behind another frame of its chunk is overtaken
\* by later chunks.
OrderKept ==
  \A i, j \in DOMAIN issued : i < j =>
    LET Typed(c) == CHOOSE n \in DOMAIN typed : typed[n] = c
    IN Typed(issued[i]) < Typed(issued[j]) \/ issued[j] \in behind

\* Every command is responded to, whatever waits in front of it and whether or
\* not the session lives: again and again, all that was typed has been.
EveryCommandAnswered == []<>(Range(typed) \subseteq answered)
=============================================================================
