------------------------ MODULE BridgeSessionProofs ------------------------
(***************************************************************************)
(* Theorems about BridgeSession, for any finite set of commands.           *)
(***************************************************************************)
EXTENDS BridgeSession, SublistsProofs

\* The types, without the bound on inFlight that its meaning implies.
Flags == connected \in BOOLEAN /\ closed \in BOOLEAN /\ identified \in BOOLEAN

Typed ==
  /\ socket \in {"dialling", "open", "ending", "closed"}
  /\ queue \in Seq(Calls) /\ sent \in Seq(Calls)
  /\ timers \subseteq Calls /\ remembered \subseteq Calls
  /\ state \in [Calls -> {"unsaid", "waiting", "answered", "failed", "timedout"}]
  /\ answer \in [Calls -> Calls \cup {Hello}]
  /\ toMaster \in Seq(Calls \cup {Hello}) /\ toBridge \in Seq(Calls \cup {Busy})
  /\ master \in {"backlog", "serving", "left"}

Waiting == {c \in Calls : state[c] = "waiting"}

\* The bridge's books: the queue holds the unresolved commands in the order
\* they were sent, each with a timer, and inFlight counts them.
Books ==
  /\ NoDuplicates(sent)
  /\ \A c \in Calls : state[c] \in {"waiting", "answered", "timedout"} => c \in Range(sent)
  /\ \A c \in Range(sent) : state[c] # "unsaid"
  /\ queue = Sublist(sent, Waiting)
  /\ timers = Waiting
  /\ inFlight = Len(queue)
  /\ \A c \in remembered : state[c] = "answered"

\* The number of replies the bridge has taken from the socket.
Heard == IF identified THEN Len(sent) - Len(toMaster) - Len(toBridge) ELSE 0

\* The two streams: what the master has not read yet is the end of what was
\* sent, and what the bridge has not heard yet lies just before it.
Streams ==
  /\ socket = "dialling" => ~identified /\ toMaster = <<>> /\ sent = <<>>
  /\ connected => socket = "open"
  /\ identified =>
       /\ Heard >= 0
       /\ \A i \in 1 .. Len(toMaster) : toMaster[i] = sent[Len(sent) - Len(toMaster) + i]
       /\ \A i \in 1 .. Len(toBridge) : toBridge[i] = sent[Heard + i]
       /\ master # "backlog"
  /\ ~identified =>
       /\ toBridge = <<>> \/ (toBridge = <<Busy>> /\ master = "left")
       /\ \/ toMaster = <<>> /\ sent = <<>> /\ ~connected
          \/ toMaster = <<Hello>> \o sent

\* The places whose calls are in a state, before place i.
Places(s, i) == {h \in 1 .. i - 1 : state[sent[h]] = s}

\* How replies and commands drift apart.  No reply of a command that is still
\* waiting has been heard; every answer used one up; an answer came from an
\* earlier place, but not further back than commands before it have timed out.
Drift ==
  /\ socket = "open" => \A i \in 1 .. Len(sent) : state[sent[i]] # "failed"
  /\ \A i \in 1 .. Len(sent) : state[sent[i]] = "waiting" => Heard < i
  /\ Cardinality(Places("answered", Len(sent) + 1)) <= Heard
  /\ \A i \in 1 .. Len(sent) : state[sent[i]] = "answered" =>
       \E j \in 1 .. Heard : /\ answer[sent[i]] = sent[j]
                             /\ i - j \in 0 .. Cardinality(Places("timedout", i))

Inv == Flags /\ Typed /\ Books /\ Streams /\ Drift
-----------------------------------------------------------------------------
LEMMA InitInv == Init => Inv
<1> SUFFICES ASSUME Init PROVE Inv
  OBVIOUS
<1>1. sent = <<>> /\ Waiting = {} /\ Range(sent) = {} /\ Len(sent) = 0
  BY DEF Init, Waiting, Range
<1>2. Flags /\ Typed
  <2>1. Flags
    BY DEF Init, Flags
  <2>2. Typed
    BY DEF Init, Typed
  <2> QED
    BY <2>1, <2>2
<1>3. Books
  <2>1. Sublist(sent, Waiting) = sent
    BY <1>1, <1>2, SublistWhole DEF Typed
  <2> QED
    BY <1>1, <2>1 DEF Init, Books, NoDuplicates
<1>4. Streams
  BY DEF Init, Streams
<1>5. Drift
  <2>1. Places("answered", Len(sent) + 1) = {}
    BY <1>1 DEF Places
  <2> QED
    BY <1>1, <2>1, FS_EmptySet DEF Init, Drift, Heard
<1> QED
  BY <1>2, <1>3, <1>4, <1>5 DEF Inv

\* The line handleClient takes, once the handshake is done, is a command.
LEMMA ServedWasSent ==
  ASSUME Typed, Streams, identified, toMaster # <<>>
  PROVE  /\ Head(toMaster) \in Calls
         /\ Len(sent) - Len(toMaster) + 1 \in 1 .. Len(sent)
         /\ Head(toMaster) = sent[Len(sent) - Len(toMaster) + 1]
<1>1. /\ Len(toMaster) \in Nat \ {0} /\ Len(toBridge) \in Nat /\ Len(sent) \in Nat
      /\ Head(toMaster) = toMaster[1]
  BY DEF Typed
<1>2. Len(sent) - Len(toMaster) - Len(toBridge) >= 0
  BY DEF Streams, Heard
<1>3. Len(sent) - Len(toMaster) + 1 \in 1 .. Len(sent) /\ 1 \in 1 .. Len(toMaster)
  BY <1>1, <1>2
<1>4. Head(toMaster) = sent[Len(sent) - Len(toMaster) + 1]
  BY <1>1, <1>3 DEF Streams
<1>5. sent[Len(sent) - Len(toMaster) + 1] \in Calls
  BY <1>3 DEF Typed
<1> QED
  BY <1>3, <1>4, <1>5

\* Resolving promises keeps their type.
LEMMA ResolveType ==
  ASSUME Typed, NEW C, NEW result \in {"answered", "failed", "timedout"}, Resolve(C, result)
  PROVE  state' \in [Calls -> {"unsaid", "waiting", "answered", "failed", "timedout"}]
BY DEF Typed, Resolve

LEMMA NextFlags == Flags /\ [Next]_vars => Flags'
<1> SUFFICES ASSUME Flags, [Next]_vars
             PROVE  Flags'
  OBVIOUS
<1> USE DEF Flags, session, wire
<1>1. CASE Connected \/ Unasked \/ Reply \/ TurnedAway \/ CloseSession
  BY <1>1 DEF Connected, Unasked, Reply, TurnedAway, CloseSession
<1>2. CASE SocketError \/ SocketClose
  BY <1>2 DEF SocketError, SocketClose
<1>3. ASSUME NEW c \in Calls, Submit(c) \/ Unconnected(c) \/ Expire(c)
      PROVE  Flags'
  BY <1>3 DEF Submit, Unconnected, Expire
<1>4. CASE Admit \/ Refuse \/ Serve \/ Leave
  BY <1>4 DEF Admit, Refuse, Serve, Leave
<1>5. CASE UNCHANGED vars
  BY <1>5 DEF vars
<1> QED
  BY <1>1, <1>2, <1>3, <1>4, <1>5 DEF Next

LEMMA NextTyped == Inv /\ [Next]_vars => Typed'
<1> SUFFICES ASSUME Typed, Books, Streams, [Next]_vars
             PROVE  Typed'
  BY DEF Inv
<1>1. CASE Connected
  BY <1>1 DEF Typed, Connected
<1>2. CASE Unasked
  BY <1>2 DEF Typed, Unasked, session
<1>3. CASE Reply
  <2> DEFINE c == Head(queue)
  <2>1. /\ c \in Calls /\ Tail(queue) \in Seq(Calls)
        /\ Head(toBridge) \in Calls /\ Tail(toBridge) \in Seq(Calls \cup {Busy})
    BY <1>3 DEF Reply, Typed
  <2>2. Resolve({c}, "answered") /\ answer' = [answer EXCEPT ![c] = Head(toBridge)]
    BY <1>3 DEF Reply
  <2>3. state' \in [Calls -> {"unsaid", "waiting", "answered", "failed", "timedout"}]
    BY <2>2, ResolveType
  <2>4. remembered' \subseteq Calls /\ timers' \subseteq Calls
    BY <1>3, <2>1 DEF Reply, Typed
  <2>5. /\ queue' = Tail(queue) /\ toBridge' = Tail(toBridge)
        /\ UNCHANGED <<socket, toMaster, master, sent>>
    BY <1>3 DEF Reply
  <2>6. answer' \in [Calls -> Calls \cup {Hello}]
    BY <2>1, <2>2 DEF Typed
  <2>7. queue' \in Seq(Calls) /\ toBridge' \in Seq(Calls \cup {Busy})
    BY <2>1, <2>5
  <2> QED
    BY <2>3, <2>4, <2>5, <2>6, <2>7 DEF Typed
<1>4. CASE TurnedAway
  <2>1. state' \in [Calls -> {"unsaid", "waiting", "answered", "failed", "timedout"}]
    BY <1>4, ResolveType DEF TurnedAway
  <2>2. Tail(queue) \in Seq(Calls) /\ Tail(toBridge) \in Seq(Calls \cup {Busy})
    BY <1>4 DEF TurnedAway, Typed
  <2> QED
    BY <1>4, <2>1, <2>2 DEF TurnedAway, Typed
<1>5. CASE SocketError \/ SocketClose
  <2>1. RejectPending
    BY <1>5 DEF SocketError, SocketClose
  <2>2. /\ state' \in [Calls -> {"unsaid", "waiting", "answered", "failed", "timedout"}]
        /\ queue' = <<>> /\ timers' \subseteq timers
    BY <2>1, ResolveType DEF RejectPending
  <2> QED
    BY <1>5, <2>2 DEF SocketError, SocketClose, Typed, wire
<1>6. CASE CloseSession
  BY <1>6 DEF CloseSession, Typed, wire
<1>7. ASSUME NEW c \in Calls, Submit(c)
      PROVE  Typed'
  <2>1. /\ Append(queue, c) \in Seq(Calls) /\ Append(sent, c) \in Seq(Calls)
        /\ Append(toMaster, c) \in Seq(Calls \cup {Hello})
    BY DEF Typed
  <2> QED
    BY <1>7, <2>1 DEF Submit, Typed
<1>8. ASSUME NEW c \in Calls, Unconnected(c)
      PROVE  Typed'
  BY <1>8 DEF Unconnected, Typed, wire
<1>9. ASSUME NEW c \in Calls, Expire(c)
      PROVE  Typed'
  <2>1. state' \in [Calls -> {"unsaid", "waiting", "answered", "failed", "timedout"}]
    BY <1>9, ResolveType DEF Expire
  <2>2. Sublist(queue, Calls \ {c}) \in Seq(Calls)
    BY SublistSeq DEF Typed
  <2> QED
    BY <1>9, <2>1, <2>2 DEF Expire, Typed, wire
<1>10. CASE Admit \/ Refuse \/ Leave
  <2>1. Append(toBridge, Busy) \in Seq(Calls \cup {Busy})
    BY DEF Typed
  <2> QED
    BY <1>10, <2>1 DEF Admit, Refuse, Leave, Typed, session
<1>11. CASE Serve
  <2>1. Tail(toMaster) \in Seq(Calls \cup {Hello})
    BY <1>11 DEF Serve, Typed
  <2>2. ASSUME identified
        PROVE  Append(toBridge, Head(toMaster)) \in Seq(Calls \cup {Busy})
    <3>1. Head(toMaster) \in Calls
      BY <1>11, <2>2, ServedWasSent DEF Serve
    <3> QED
      BY <3>1 DEF Typed
  <2>3. toBridge' \in Seq(Calls \cup {Busy})
    BY <1>11, <2>2 DEF Serve, Typed
  <2> QED
    BY <1>11, <2>1, <2>3 DEF Serve, Typed, session
<1>12. CASE UNCHANGED vars
  BY <1>12 DEF vars, session, wire, Typed
<1> QED
  BY <1>1, <1>2, <1>3, <1>4, <1>5, <1>6, <1>7, <1>8, <1>9, <1>10, <1>11, <1>12 DEF Next
-----------------------------------------------------------------------------
\* What the books say of the queue.
LEMMA QueueOfBooks ==
  ASSUME Typed, Books
  PROVE  /\ queue \in Seq(Calls)
         /\ NoDuplicates(queue)
         /\ Range(queue) = Waiting
         /\ IsFiniteSet(Waiting)
         /\ inFlight = Cardinality(Waiting)
         /\ Len(queue) \in Nat
<1>1. queue \in Seq(Calls) /\ sent \in Seq(Calls) /\ queue = Sublist(sent, Waiting)
  BY DEF Typed, Books
<1>2. NoDuplicates(queue)
  BY <1>1, SublistNoDuplicates DEF Books
<1>3. Range(queue) = Range(sent) \cap Waiting
  BY <1>1, SublistRange
<1>4. Waiting \subseteq Range(sent)
  BY DEF Books, Waiting
<1>5. IsFiniteSet(Range(queue)) /\ Cardinality(Range(queue)) = Len(queue)
  BY <1>1, <1>2, LengthIsCardinality
<1>6. Range(queue) = Waiting
  BY <1>3, <1>4
<1> QED
  BY <1>1, <1>2, <1>5, <1>6 DEF Books

\* Settling some of the waiting calls: they leave the queue, their timers
\* are cleared and the count goes down with them.
LEMMA SettleBooks ==
  ASSUME Typed, Books, NEW C \in SUBSET Calls,
         NEW result \in {"answered", "failed", "timedout"},
         Resolve(C, result), sent' = sent,
         queue' = Sublist(queue, Calls \ C),
         timers' = timers \ C,
         inFlight' = Len(queue'),
         \A c \in remembered' : c \in remembered \/ (c \in C \cap Waiting /\ result = "answered")
  PROVE  Books'
<1>1. sent \in Seq(Calls) /\ state \in [Calls -> {"unsaid", "waiting", "answered", "failed", "timedout"}]
  BY DEF Typed
<1>2. \A c \in Calls : state'[c] = IF c \in C /\ state[c] = "waiting" THEN result ELSE state[c]
  BY DEF Resolve
<1>3. Waiting' = Waiting \ C
  BY <1>2 DEF Waiting
<1>4. queue' = Sublist(sent, Waiting')
  <2>1. Waiting \cap (Calls \ C) = Waiting'
    BY <1>3 DEF Waiting
  <2> QED
    BY <1>1, <2>1, SublistTwice DEF Books
<1>5. Range(sent) \subseteq Calls
  BY <1>1 DEF Range
<1>6. /\ \A c \in Calls : state'[c] \in {"waiting", "answered", "timedout"} => c \in Range(sent)
      /\ \A c \in Range(sent) : state'[c] # "unsaid"
  BY <1>2, <1>5 DEF Books
<1>7. \A c \in remembered' : state'[c] = "answered"
  BY <1>2 DEF Books, Typed, Waiting
<1> QED
  BY <1>3, <1>4, <1>6, <1>7 DEF Books

\* A resolved call costs the count one, a set of them its size.
LEMMA CountOne ==
  ASSUME Typed, Books, NEW c \in Waiting
  PROVE  OneLess(inFlight) = Len(Sublist(queue, Calls \ {c}))
<1> DEFINE m == Sublist(queue, Calls \ {c})
<1>1. m \in Seq(Calls) /\ Range(m) = Range(queue) \cap (Calls \ {c}) /\ NoDuplicates(m)
  BY QueueOfBooks, SublistSeq, SublistRange, SublistNoDuplicates
<1>2. Range(m) = Waiting \ {c}
  BY <1>1, QueueOfBooks DEF Waiting
<1>3. Cardinality(Waiting \ {c}) = Cardinality(Waiting) - 1
  BY QueueOfBooks, FS_RemoveElement
<1>4. Cardinality(Range(m)) = Len(m) /\ Len(m) \in Nat
  BY <1>1, LengthIsCardinality
<1>5. inFlight = Cardinality(Waiting)
  BY QueueOfBooks
<1>6. Len(m) = Cardinality(Waiting) - 1
  BY <1>2, <1>3, <1>4
<1>7. Cardinality(Waiting) \in Nat
  BY QueueOfBooks, FS_CardinalityType
<1> HIDE DEF m
<1>8. OneLess(inFlight) = Len(m)
  BY <1>4, <1>5, <1>6, <1>7 DEF OneLess
<1> QED
  BY <1>8 DEF m

\* The head of the queue is waiting, and dropping it is dropping it by name.
LEMMA HeadWaits ==
  ASSUME Typed, Books, queue # <<>>
  PROVE  /\ Head(queue) \in Waiting
         /\ Tail(queue) = Sublist(queue, Calls \ {Head(queue)})
<1>1. Range(queue) \subseteq Calls
  BY QueueOfBooks DEF Waiting
<1> QED
  BY <1>1, QueueOfBooks, TailErases

LEMMA RejectBooks ==
  ASSUME Typed, Books, RejectPending, sent' = sent, remembered' = remembered
  PROVE  Books'
<1>1. Range(queue) = Waiting /\ Waiting \in SUBSET Calls /\ queue \in Seq(Calls)
  BY QueueOfBooks DEF Waiting
<1>2. inFlight' = 0 /\ queue' = <<>>
  BY QueueOfBooks DEF RejectPending, Books
<1>3. Sublist(queue, Calls \ Waiting) = <<>>
  <2> DEFINE m == Sublist(queue, Calls \ Waiting)
  <2>1. m \in Seq(Calls) /\ Range(m) = Range(queue) \cap (Calls \ Waiting)
    BY <1>1, SublistSeq, SublistRange
  <2>2. Range(m) = {}
    BY <1>1, <2>1
  <2> HIDE DEF m
  <2>3. m = <<>>
    BY <2>1, <2>2 DEF Range
  <2> QED
    BY <2>3 DEF m
<1> QED
  BY <1>1, <1>2, <1>3, SettleBooks DEF RejectPending

LEMMA NextBooks == Inv /\ [Next]_vars => Books'
<1> SUFFICES ASSUME Typed, Books, [Next]_vars
             PROVE  Books'
  BY DEF Inv
<1>1. ASSUME UNCHANGED <<sent, state, queue, timers, inFlight, remembered>>
      PROVE  Books'
  BY <1>1 DEF Books, Waiting
<1>2. CASE \/ Connected \/ Unasked \/ CloseSession
           \/ Admit \/ Refuse \/ Serve \/ Leave \/ UNCHANGED vars
  BY <1>1, <1>2 DEF Connected, Unasked, CloseSession, Admit, Refuse, Serve, Leave,
                    vars, session, wire
<1>3. CASE Reply
  <2> DEFINE c == Head(queue)
  <2>1. c \in Waiting /\ Tail(queue) = Sublist(queue, Calls \ {c}) /\ {c} \in SUBSET Calls
    BY <1>3, HeadWaits DEF Reply, Waiting
  <2>2. /\ Resolve({c}, "answered") /\ sent' = sent /\ queue' = Tail(queue)
        /\ timers' = timers \ {c} /\ inFlight' = OneLess(inFlight)
        /\ remembered' = remembered \cup ({c} \cap Writes)
    BY <1>3 DEF Reply
  <2> HIDE DEF c
  <2>3. inFlight' = Len(queue')
    BY <2>1, <2>2, CountOne
  <2> QED
    BY <2>1, <2>2, <2>3, SettleBooks
<1>4. CASE TurnedAway
  <2> DEFINE c == Head(queue)
  <2>1. c \in Waiting /\ Tail(queue) = Sublist(queue, Calls \ {c}) /\ {c} \in SUBSET Calls
    BY <1>4, HeadWaits DEF TurnedAway, Waiting
  <2>2. /\ Resolve({c}, "failed") /\ sent' = sent /\ queue' = Tail(queue)
        /\ timers' = timers \ {c} /\ inFlight' = OneLess(inFlight)
        /\ remembered' = remembered
    BY <1>4 DEF TurnedAway
  <2> HIDE DEF c
  <2>3. inFlight' = Len(queue')
    BY <2>1, <2>2, CountOne
  <2> QED
    BY <2>1, <2>2, <2>3, SettleBooks
<1>5. ASSUME NEW c \in Calls, Expire(c)
      PROVE  Books'
  <2>1. c \in Waiting /\ {c} \in SUBSET Calls
    BY <1>5 DEF Expire, Books
  <2>2. /\ Resolve({c}, "timedout") /\ sent' = sent
        /\ queue' = Sublist(queue, Calls \ {c})
        /\ timers' = timers \ {c} /\ inFlight' = OneLess(inFlight)
        /\ remembered' = remembered
    BY <1>5 DEF Expire, wire
  <2>3. inFlight' = Len(queue')
    BY <2>1, <2>2, CountOne
  <2> QED
    BY <2>1, <2>2, <2>3, SettleBooks
<1>6. CASE SocketError \/ SocketClose
  BY <1>6, RejectBooks DEF SocketError, SocketClose, wire
<1>7. ASSUME NEW c \in Calls, Unconnected(c)
      PROVE  Books'
  <2>1. /\ state[c] = "unsaid" /\ state' = [state EXCEPT ![c] = "failed"]
        /\ UNCHANGED <<sent, queue, timers, inFlight, remembered>>
    BY <1>7 DEF Unconnected, wire
  <2>2. Waiting' = Waiting
    BY <2>1 DEF Waiting, Typed
  <2>3. Range(sent) \subseteq Calls
    BY DEF Typed, Range
  <2> QED
    BY <2>1, <2>2, <2>3 DEF Books, Typed
<1>8. ASSUME NEW c \in Calls, Submit(c)
      PROVE  Books'
  <2>1. /\ state[c] = "unsaid" /\ state' = [state EXCEPT ![c] = "waiting"]
        /\ timers' = timers \cup {c} /\ inFlight' = inFlight + 1
        /\ queue' = Append(queue, c) /\ sent' = Append(sent, c)
        /\ remembered' = remembered
    BY <1>8 DEF Submit
  <2>2. c \notin Range(sent) /\ sent \in Seq(Calls) /\ queue \in Seq(Calls)
    BY <2>1 DEF Books, Typed
  <2>3. Waiting' = Waiting \cup {c}
    BY <2>1 DEF Waiting, Typed
  <2>4. Sublist(sent', Waiting') = queue'
    <3>1. Sublist(sent', Waiting') = Append(Sublist(sent, Waiting'), c)
      BY <2>1, <2>2, <2>3, SublistAppend
    <3>2. Sublist(sent, Waiting') = Sublist(sent, Waiting)
      BY <2>2, <2>3, SublistSame
    <3> QED
      BY <2>1, <3>1, <3>2 DEF Books
  <2>5. Range(sent') = Range(sent) \cup {c}
    BY <2>1, <2>2, RangeAppend
  <2>6. NoDuplicates(sent')
    <3>1. /\ Len(sent') = Len(sent) + 1 /\ sent'[Len(sent) + 1] = c
          /\ \A i \in 1 .. Len(sent) : sent'[i] = sent[i] /\ sent[i] # c
          /\ Len(sent) \in Nat
      BY <2>1, <2>2 DEF Range
    <3> QED
      BY <3>1 DEF NoDuplicates, Books
  <2>7. timers' = Waiting' /\ inFlight' = Len(queue')
    BY <2>1, <2>2, <2>3 DEF Books
  <2>8. /\ \A d \in Calls : state'[d] \in {"waiting", "answered", "timedout"} => d \in Range(sent')
        /\ \A d \in Range(sent') : state'[d] # "unsaid"
        /\ \A d \in remembered' : state'[d] = "answered"
    <3>1. Range(sent) \subseteq Calls
      BY <2>2 DEF Range
    <3> QED
      BY <2>1, <2>5, <3>1 DEF Books, Typed
  <2> QED
    BY <2>4, <2>6, <2>7, <2>8 DEF Books
<1> QED
  BY <1>2, <1>3, <1>4, <1>5, <1>6, <1>7, <1>8 DEF Next
-----------------------------------------------------------------------------
LEMMA Lengths ==
  ASSUME Typed, Streams
  PROVE  /\ Len(sent) \in Nat /\ Len(toMaster) \in Nat /\ Len(toBridge) \in Nat
         /\ Heard \in Nat /\ Heard <= Len(sent)
         /\ identified => Heard = Len(sent) - Len(toMaster) - Len(toBridge)
<1>1. Len(sent) \in Nat /\ Len(toMaster) \in Nat /\ Len(toBridge) \in Nat
  BY DEF Typed
<1> QED
  BY <1>1 DEF Streams, Heard

\* A line that is not Busy is a reply, one of those not heard yet.
LEMMA HeadIsReply ==
  ASSUME Typed, Streams, toBridge # <<>>, Head(toBridge) # Busy \/ identified
  PROVE  /\ identified
         /\ Heard + 1 \in 1 .. Len(sent)
         /\ Head(toBridge) = sent[Heard + 1]
         /\ Head(toBridge) # Busy
<1>1. Len(toBridge) \in Nat \ {0} /\ Head(toBridge) = toBridge[1]
  BY DEF Typed
<1>2. identified
  BY DEF Streams
<1>3. Heard + 1 \in 1 .. Len(sent) /\ 1 \in 1 .. Len(toBridge)
  BY <1>1, <1>2, Lengths
<1>4. toBridge[1] = sent[Heard + 1]
  BY <1>2, <1>3 DEF Streams
<1>5. sent[Heard + 1] # Busy
  BY <1>3, CallsAssumption DEF Typed
<1> QED
  BY <1>1, <1>2, <1>3, <1>4, <1>5

\* Taking a line from the socket.
LEMMA TakenLine ==
  ASSUME Typed, Streams, toBridge # <<>>, toBridge' = Tail(toBridge),
         UNCHANGED <<toMaster, master, identified, sent>>,
         socket = "open", socket' # "dialling", connected' => connected /\ socket' = "open"
  PROVE  /\ Streams'
         /\ Heard' = IF identified THEN Heard + 1 ELSE Heard
<1>1. /\ Len(toBridge) \in Nat \ {0} /\ Len(toBridge') = Len(toBridge) - 1
      /\ \A i \in 1 .. Len(toBridge') : toBridge'[i] = toBridge[i + 1]
  BY DEF Typed
<1>2. Heard' = IF identified THEN Heard + 1 ELSE Heard
  BY <1>1, Lengths DEF Heard
<1>3. CASE identified
  <2>1. Heard' = Heard + 1
    BY <1>2, <1>3
  <2>2. \A i \in 1 .. Len(toBridge') : toBridge'[i] = sent[Heard' + i]
    <3> SUFFICES ASSUME NEW i \in 1 .. Len(toBridge')
                 PROVE  toBridge'[i] = sent[Heard' + i]
      OBVIOUS
    <3>1. i + 1 \in 1 .. Len(toBridge) /\ toBridge'[i] = toBridge[i + 1]
      BY <1>1
    <3>2. toBridge[i + 1] = sent[Heard + (i + 1)]
      BY <1>3, <3>1 DEF Streams
    <3>3. Heard + (i + 1) = Heard' + i
      BY <2>1, Lengths
    <3> QED
      BY <3>1, <3>2, <3>3
  <2>3. Heard' >= 0
    BY <2>1, Lengths
  <2> HIDE DEF Heard
  <2>4. Streams'
    BY <1>3, <2>2, <2>3 DEF Streams
  <2> QED
    BY <1>2, <2>4
<1>4. CASE ~identified
  <2>1. toBridge = <<Busy>>
    BY <1>4 DEF Streams
  <2>2. toBridge' = <<>>
    BY <2>1
  <2>3. Streams'
    BY <1>4, <2>2 DEF Streams
  <2> QED
    BY <1>2, <2>3
<1> QED
  BY <1>3, <1>4

\* A step that leaves the lines alone.
LEMMA SameLines ==
  ASSUME Typed, Streams, UNCHANGED <<toMaster, toBridge, identified, sent>>,
         socket' = "dialling" => socket = "dialling",
         connected' => connected /\ socket' = "open",
         master' \in {master, "left"} \/ (master' = "serving" /\ master = "backlog")
  PROVE  Streams' /\ Heard' = Heard
<1>1. Heard' = Heard
  BY DEF Heard
<1>2. master' = "backlog" => master = "backlog"
  OBVIOUS
<1>3. master = "left" => master' = "left"
  OBVIOUS
<1> HIDE DEF Heard
<1>4. Streams'
  BY <1>1, <1>2, <1>3 DEF Streams
<1> QED
  BY <1>1, <1>4

LEMMA NextStreams == Inv /\ [Next]_vars => Streams'
<1> SUFFICES ASSUME Typed, Streams, [Next]_vars
             PROVE  Streams'
  BY DEF Inv
<1>1. CASE Connected
  <2>1. ~identified /\ toMaster = <<>> /\ sent = <<>>
    BY <1>1 DEF Connected, Streams
  <2>2. toMaster' = <<Hello>> \o sent'
    BY <1>1, <2>1 DEF Connected
  <2> QED
    BY <1>1, <2>1, <2>2 DEF Connected, Streams
<1>2. CASE Unasked \/ Reply \/ TurnedAway
  BY <1>2, TakenLine DEF Unasked, Reply, TurnedAway, session, Streams
<1>3. CASE SocketError \/ SocketClose \/ CloseSession
  BY <1>3, SameLines DEF SocketError, SocketClose, CloseSession, wire
<1>4. ASSUME NEW c \in Calls, Unconnected(c) \/ Expire(c)
      PROVE  Streams'
  BY <1>4, SameLines DEF Unconnected, Expire, wire, Streams
<1>5. ASSUME NEW c \in Calls, Submit(c)
      PROVE  Streams'
  <2>1. /\ toMaster' = Append(toMaster, c) /\ sent' = Append(sent, c) /\ toBridge' = toBridge
        /\ connected /\ connected' = connected /\ socket' = socket
        /\ identified' = identified /\ master' = master
    BY <1>5 DEF Submit
  <2>2. /\ Len(sent') = Len(sent) + 1 /\ Len(toMaster') = Len(toMaster) + 1
        /\ sent'[Len(sent')] = c /\ toMaster'[Len(toMaster')] = c
        /\ \A i \in 1 .. Len(sent) : sent'[i] = sent[i]
        /\ \A i \in 1 .. Len(toMaster) : toMaster'[i] = toMaster[i]
    BY <2>1, Lengths DEF Typed
  <2>3. socket = "open"
    BY <2>1 DEF Streams
  <2>4. CASE identified
    <3>1. Heard' = Heard
      BY <2>1, <2>2, Lengths DEF Heard
    <3>2. ASSUME NEW i \in 1 .. Len(toMaster')
          PROVE  toMaster'[i] = sent'[Len(sent') - Len(toMaster') + i]
      <4>1. CASE i = Len(toMaster')
        <5>1. Len(sent') - Len(toMaster') + i = Len(sent')
          BY <2>2, <4>1, Lengths
        <5> QED
          BY <2>2, <4>1, <5>1
      <4>2. CASE i # Len(toMaster')
        <5>1. i \in 1 .. Len(toMaster) /\ toMaster'[i] = toMaster[i]
          BY <2>2, <4>2, Lengths
        <5>2. toMaster[i] = sent[Len(sent) - Len(toMaster) + i]
          BY <2>4, <5>1 DEF Streams
        <5>3. /\ Len(sent) - Len(toMaster) + i \in 1 .. Len(sent)
              /\ Len(sent') - Len(toMaster') + i = Len(sent) - Len(toMaster) + i
          BY <2>2, <2>4, <5>1, Lengths
        <5> QED
          BY <2>2, <5>1, <5>2, <5>3
      <4> QED
        BY <4>1, <4>2
    <3>3. ASSUME NEW i \in 1 .. Len(toBridge')
          PROVE  toBridge'[i] = sent'[Heard' + i]
      <4>1. i \in 1 .. Len(toBridge) /\ toBridge'[i] = toBridge[i]
        BY <2>1, <3>3
      <4>2. toBridge[i] = sent[Heard + i]
        BY <2>4, <4>1 DEF Streams
      <4>3. Heard + i \in 1 .. Len(sent)
        BY <2>4, <4>1, Lengths
      <4> QED
        BY <2>2, <3>1, <4>1, <4>2, <4>3
    <3>4. Heard' >= 0
      BY <3>1, Lengths
    <3> HIDE DEF Heard
    <3> QED
      BY <2>1, <2>3, <2>4, <3>2, <3>3, <3>4 DEF Streams
  <2>5. CASE ~identified
    <3>1. toMaster = <<Hello>> \o sent
      BY <2>1, <2>5 DEF Streams
    <3>2. toMaster' = <<Hello>> \o sent'
      BY <2>1, <3>1 DEF Typed
    <3> QED
      BY <2>1, <2>3, <2>5, <3>2 DEF Streams
  <2> QED
    BY <2>4, <2>5
<1>6. CASE Admit \/ Leave
  <2>1. /\ UNCHANGED <<toMaster, toBridge, identified, sent, socket, connected>>
        /\ master' = "left" \/ (master' = "serving" /\ master = "backlog")
    BY <1>6 DEF Admit, Leave, session
  <2>2. connected => socket = "open"
    BY DEF Streams
  <2> QED
    BY <2>1, <2>2, SameLines
<1>7. CASE Refuse
  <2>1. ~identified /\ toBridge = <<>>
    BY <1>7 DEF Refuse, Streams
  <2>2. toBridge' = <<Busy>>
    BY <1>7, <2>1 DEF Refuse
  <2> QED
    BY <1>7, <2>1, <2>2 DEF Refuse, Streams, session
<1>8. CASE Serve
  <2>1. /\ toMaster # <<>> /\ toMaster' = Tail(toMaster) /\ identified' = TRUE
        /\ master = "serving" /\ UNCHANGED <<socket, connected, sent, master>>
        /\ toBridge' = IF identified THEN Append(toBridge, Head(toMaster)) ELSE toBridge
    BY <1>8 DEF Serve, session
  <2>2. /\ Len(toMaster) \in Nat \ {0} /\ Len(toMaster') = Len(toMaster) - 1
        /\ \A i \in 1 .. Len(toMaster') : toMaster'[i] = toMaster[i + 1]
    BY <2>1 DEF Typed
  <2>3. socket # "dialling" /\ (connected => socket = "open")
    BY <2>1 DEF Streams
  <2>4. CASE identified
    <3>1. /\ toBridge' = Append(toBridge, Head(toMaster))
          /\ Len(toBridge') = Len(toBridge) + 1
          /\ toBridge'[Len(toBridge')] = Head(toMaster)
          /\ \A i \in 1 .. Len(toBridge) : toBridge'[i] = toBridge[i]
      BY <2>1, <2>4 DEF Typed
    <3>2. Heard' = Heard /\ Heard' >= 0
      BY <2>1, <2>2, <2>4, <3>1, Lengths DEF Heard
    <3>3. ASSUME NEW i \in 1 .. Len(toMaster')
          PROVE  toMaster'[i] = sent'[Len(sent') - Len(toMaster') + i]
      <4>1. i + 1 \in 1 .. Len(toMaster) /\ toMaster'[i] = toMaster[i + 1]
        BY <2>2
      <4>2. toMaster[i + 1] = sent[Len(sent) - Len(toMaster) + (i + 1)]
        BY <2>4, <4>1 DEF Streams
      <4>3. Len(sent) - Len(toMaster) + (i + 1) = Len(sent') - Len(toMaster') + i
        BY <2>1, <2>2, Lengths
      <4> QED
        BY <2>1, <4>1, <4>2, <4>3
    <3>4. ASSUME NEW i \in 1 .. Len(toBridge')
          PROVE  toBridge'[i] = sent'[Heard' + i]
      <4>1. CASE i = Len(toBridge')
        <5>1. Head(toMaster) = sent[Len(sent) - Len(toMaster) + 1]
          BY <2>1, <2>4, ServedWasSent
        <5>2. Heard' + i = Len(sent) - Len(toMaster) + 1
          BY <2>4, <3>1, <3>2, <4>1, Lengths
        <5> QED
          BY <2>1, <3>1, <4>1, <5>1, <5>2
      <4>2. CASE i # Len(toBridge')
        <5>1. i \in 1 .. Len(toBridge) /\ toBridge'[i] = toBridge[i]
          BY <3>1, <4>2, Lengths
        <5>2. toBridge[i] = sent[Heard + i]
          BY <2>4, <5>1 DEF Streams
        <5> QED
          BY <2>1, <3>2, <5>1, <5>2
      <4> QED
        BY <4>1, <4>2
    <3> HIDE DEF Heard
    <3>5. master' # "backlog"
      BY <2>1
    <3> QED
      BY <2>1, <2>3, <3>2, <3>3, <3>4, <3>5 DEF Streams
  <2>5. CASE ~identified
    <3>1. toBridge' = <<>> /\ toMaster = <<Hello>> \o sent
      BY <2>1, <2>5 DEF Streams
    <3>2. toMaster' = sent'
      BY <2>1, <3>1 DEF Typed
    <3>3. Heard' = 0
      <4>1. Len(toMaster') = Len(sent') /\ Len(toBridge') = 0 /\ Len(sent') \in Nat
        BY <2>1, <3>1, <3>2, Lengths
      <4> QED
        BY <2>1, <4>1 DEF Heard
    <3> HIDE DEF Heard
    <3>4. /\ \A i \in 1 .. Len(toMaster') : toMaster'[i] = sent'[Len(sent') - Len(toMaster') + i]
          /\ \A i \in 1 .. Len(toBridge') : toBridge'[i] = sent'[Heard' + i]
          /\ Heard' >= 0 /\ master' # "backlog"
      BY <2>1, <3>1, <3>2, <3>3, Lengths
    <3> QED
      BY <2>1, <2>3, <3>4 DEF Streams
  <2> QED
    BY <2>4, <2>5
<1>9. CASE UNCHANGED vars
  BY <1>9, SameLines DEF vars, session, wire, Streams
<1> QED
  BY <1>1, <1>2, <1>3, <1>4, <1>5, <1>6, <1>7, <1>8, <1>9 DEF Next
-----------------------------------------------------------------------------
LEMMA PlacesFinite ==
  ASSUME NEW s, NEW i \in Int
  PROVE  IsFiniteSet(Places(s, i)) /\ Cardinality(Places(s, i)) \in Nat
<1>1. IsFiniteSet(1 .. i - 1)
  BY FS_Interval
<1>2. Places(s, i) \in SUBSET (1 .. i - 1)
  BY DEF Places
<1> QED
  BY <1>1, <1>2, FS_Subset, FS_CardinalityType

\* A call that has timed out stays so, and an answer is not taken back.
LEMMA DriftStays ==
  ASSUME Typed, Streams, NEW i \in 1 .. Len(sent),
         \A h \in 1 .. Len(sent) : /\ sent'[h] = sent[h]
                                   /\ state[sent[h]] = "timedout" => state'[sent'[h]] = "timedout",
         NEW j \in 1 .. Heard, answer[sent[i]] = sent[j],
         i - j \in 0 .. Cardinality(Places("timedout", i)),
         answer'[sent'[i]] = answer[sent[i]], Heard' \in Int, Heard <= Heard'
  PROVE  \E g \in 1 .. Heard' : /\ answer'[sent'[i]] = sent'[g]
                                /\ i - g \in 0 .. Cardinality(Places("timedout", i)')
<1>1. Len(sent) \in Nat /\ Heard \in Nat /\ Heard <= Len(sent)
  BY Lengths
<1>2. Places("timedout", i) \in SUBSET Places("timedout", i)'
  BY <1>1 DEF Places
<1>3. /\ IsFiniteSet(Places("timedout", i)')
      /\ Cardinality(Places("timedout", i)') \in Nat
      /\ Cardinality(Places("timedout", i)) \in Nat
  <2>1. Places("timedout", i)' \in SUBSET (1 .. i - 1)
    BY DEF Places
  <2>2. IsFiniteSet(1 .. i - 1)
    BY <1>1, FS_Interval
  <2> QED
    BY <1>1, <2>1, <2>2, FS_Subset, FS_CardinalityType, PlacesFinite
<1>4. Cardinality(Places("timedout", i)) <= Cardinality(Places("timedout", i)')
  BY <1>2, <1>3, FS_Subset
<1>5. j \in 1 .. Heard' /\ j \in 1 .. Len(sent)
  BY <1>1
<1>6. i - j \in 0 .. Cardinality(Places("timedout", i)')
  BY <1>1, <1>3, <1>4
<1>7. answer'[sent'[i]] = sent'[j]
  BY <1>5
<1> QED
  BY <1>5, <1>6, <1>7

\* A step that answers nothing: the drift is what it was.
LEMMA DriftKept ==
  ASSUME Typed, Books, Streams, Drift,
         sent' = sent, answer' = answer, Heard' = Heard,
         \A c \in Range(sent) :
           \/ state'[c] = state[c]
           \/ state[c] = "waiting" /\ state'[c] = "timedout"
           \/ state[c] = "waiting" /\ state'[c] = "failed" /\ socket' # "open",
         socket' = "open" => socket = "open" \/ sent = <<>>
  PROVE  Drift'
<1>1. Len(sent) \in Nat /\ Heard \in Nat /\ Heard <= Len(sent)
  BY Lengths
<1>2. \A i \in 1 .. Len(sent) : sent[i] \in Range(sent) /\ sent'[i] = sent[i]
  BY <1>1 DEF Range, Typed
<1>3. socket' = "open" => \A i \in 1 .. Len(sent') : state'[sent'[i]] # "failed"
  BY <1>1, <1>2 DEF Drift
<1>4. \A i \in 1 .. Len(sent') : state'[sent'[i]] = "waiting" => Heard' < i
  BY <1>2 DEF Drift
<1>5. Places("answered", Len(sent) + 1)' = Places("answered", Len(sent) + 1)
  BY <1>1, <1>2 DEF Places
<1>6. ASSUME NEW i \in 1 .. Len(sent'), state'[sent'[i]] = "answered"
      PROVE  \E j \in 1 .. Heard' : /\ answer'[sent'[i]] = sent'[j]
                                    /\ i - j \in 0 .. Cardinality(Places("timedout", i)')
  <2>1. i \in 1 .. Len(sent) /\ state[sent[i]] = "answered"
    BY <1>2, <1>6
  <2>2. PICK j \in 1 .. Heard : /\ answer[sent[i]] = sent[j]
                                /\ i - j \in 0 .. Cardinality(Places("timedout", i))
    BY <2>1 DEF Drift
  <2>3. \A h \in 1 .. Len(sent) :
          sent'[h] = sent[h] /\ (state[sent[h]] = "timedout" => state'[sent'[h]] = "timedout")
    BY <1>2
  <2>4. answer'[sent'[i]] = answer[sent[i]] /\ Heard' \in Int /\ Heard <= Heard'
    BY <1>1, <1>2
  <2> QED
    BY <2>1, <2>2, <2>3, <2>4, DriftStays
<1> QED
  BY <1>3, <1>4, <1>5, <1>6 DEF Drift

\* The reply that is heard next belongs to the head of the queue, or to a
\* command before it, not further back than commands before it timed out.
LEMMA ReplyDrift ==
  ASSUME Typed, Books, Streams, Drift, Reply
  PROVE  Drift'
<1> DEFINE c == Head(queue)
           N == Len(sent)
<1>1. /\ sent' = sent /\ Resolve({c}, "answered") /\ queue # <<>>
      /\ answer' = [answer EXCEPT ![c] = Head(toBridge)]
      /\ socket = "open" /\ socket' = socket
      /\ toBridge # <<>> /\ Head(toBridge) # Busy
  BY DEF Reply
<1>2. /\ N \in Nat /\ Heard \in Nat /\ Heard <= N
      /\ Heard + 1 \in 1 .. N /\ Head(toBridge) = sent[Heard + 1]
  BY <1>1, Lengths, HeadIsReply
<1>3. Heard' = Heard + 1
  BY <1>1, HeadIsReply, TakenLine DEF Reply, Streams
<1>4. PICK p \in 1 .. N : /\ sent[p] = c
                          /\ \A h \in 1 .. N : state[sent[h]] = "waiting" => p <= h
  <2>1. \E i \in Hits(sent, Waiting) : queue[1] = sent[i] /\ \A h \in Hits(sent, Waiting) : i <= h
    BY <1>1, SublistHead DEF Books, Typed
  <2>2. c = queue[1]
    BY <1>1 DEF Typed
  <2>3. \A h \in 1 .. N : state[sent[h]] = "waiting" => h \in Hits(sent, Waiting)
    BY DEF Hits, Waiting, Typed
  <2> QED
    BY <2>1, <2>2, <2>3 DEF Hits
<1>5. c \in Calls /\ state[c] = "waiting"
  BY <1>1, HeadWaits DEF Waiting
<1> HIDE DEF c
<1>6. \A h \in 1 .. N : /\ sent[h] \in Calls
                        /\ sent[h] = c <=> h = p
                        /\ state'[sent'[h]] = IF h = p THEN "answered" ELSE state[sent[h]]
  BY <1>1, <1>4, <1>5 DEF Resolve, Books, NoDuplicates, Typed
<1>7. Heard < p
  BY <1>4, <1>5 DEF Drift
<1>8. socket' = "open" => \A i \in 1 .. Len(sent') : state'[sent'[i]] # "failed"
  BY <1>1, <1>6 DEF Drift
<1>9. \A i \in 1 .. Len(sent') : state'[sent'[i]] = "waiting" => Heard' < i
  <2> SUFFICES ASSUME NEW i \in 1 .. N, state'[sent'[i]] = "waiting"
               PROVE  Heard' < i
    BY <1>1
  <2>1. i # p /\ p <= i
    BY <1>4, <1>6
  <2> QED
    BY <1>2, <1>3, <1>7, <2>1
<1>10. Cardinality(Places("answered", Len(sent) + 1)') <= Heard'
  <2> DEFINE A == Places("answered", N + 1)
  <2>1. Places("answered", Len(sent) + 1)' = A \cup {p}
    BY <1>1, <1>2, <1>6 DEF Places
  <2>2. IsFiniteSet(A) /\ Cardinality(A) \in Nat /\ Cardinality(A) <= Heard
    BY <1>2, PlacesFinite DEF Drift
  <2> HIDE DEF A
  <2>3. Cardinality(A \cup {p}) <= Cardinality(A) + 1
    BY <2>2, FS_AddElement
  <2>4. Cardinality(A \cup {p}) <= Heard + 1
    <3>1. IsFiniteSet(A \cup {p})
      BY <2>2, FS_AddElement
    <3>2. Cardinality(A \cup {p}) \in Nat
      BY <3>1, FS_CardinalityType
    <3> QED
      BY <1>2, <2>2, <2>3, <3>2
  <2> QED
    BY <1>3, <2>1, <2>4
<1>11. p - (Heard + 1) \in 0 .. Cardinality(Places("timedout", p)')
  <2> DEFINE A == Places("answered", N + 1)
             L == Places("timedout", p)
  <2>1. /\ IsFiniteSet(A) /\ Cardinality(A) \in Nat /\ Cardinality(A) <= Heard
        /\ IsFiniteSet(L) /\ Cardinality(L) \in Nat
    BY <1>2, PlacesFinite DEF Drift
  <2>2. 1 .. p - 1 \subseteq A \cup L
    <3> SUFFICES ASSUME NEW h \in 1 .. p - 1
                 PROVE  state[sent[h]] \in {"answered", "timedout"}
      BY <1>2 DEF Places
    <3>1. h \in 1 .. N /\ ~(p <= h)
      BY <1>2
    <3>2. state[sent[h]] # "waiting" /\ state[sent[h]] # "failed"
      BY <1>1, <1>4, <3>1 DEF Drift
    <3>3. sent[h] \in Calls /\ sent[h] \in Range(sent)
      BY <1>6, <3>1 DEF Range, Typed
    <3> QED
      BY <3>2, <3>3 DEF Books, Typed
  <2>3. /\ IsFiniteSet(A \cup L)
        /\ Cardinality(A \cup L) = Cardinality(A) + Cardinality(L) - Cardinality(A \cap L)
    BY <2>1, FS_Union
  <2>4. Cardinality(A \cap L) \in Nat
    BY <2>1, FS_Intersection, FS_CardinalityType
  <2>5. IsFiniteSet(1 .. p - 1) /\ Cardinality(1 .. p - 1) = p - 1
    BY FS_Interval
  <2>6. p - 1 <= Cardinality(A \cup L) /\ Cardinality(A \cup L) \in Nat
    BY <2>2, <2>3, <2>5, FS_Subset, FS_CardinalityType
  <2>7. Places("timedout", p)' = L
    BY <1>6, <1>2 DEF Places
  <2> HIDE DEF A, L
  <2>8. p - (Heard + 1) \in 0 .. Cardinality(L)
    BY <1>2, <1>7, <2>1, <2>3, <2>4, <2>6
  <2> QED
    BY <2>7, <2>8
<1>12. ASSUME NEW i \in 1 .. N, state'[sent'[i]] = "answered"
       PROVE  \E j \in 1 .. Heard' : /\ answer'[sent'[i]] = sent'[j]
                                     /\ i - j \in 0 .. Cardinality(Places("timedout", i)')
  <2>1. CASE i = p
    <3>1. answer'[sent'[i]] = sent'[Heard + 1]
      BY <1>1, <1>2, <1>4, <1>5, <2>1 DEF Typed
    <3>2. Heard + 1 \in 1 .. Heard'
      BY <1>2, <1>3
    <3> QED
      BY <1>11, <2>1, <3>1, <3>2
  <2>2. CASE i # p
    <3>1. state[sent[i]] = "answered" /\ answer'[sent'[i]] = answer[sent[i]]
      BY <1>1, <1>6, <1>12, <2>2 DEF Typed
    <3>2. PICK j \in 1 .. Heard : /\ answer[sent[i]] = sent[j]
                                  /\ i - j \in 0 .. Cardinality(Places("timedout", i))
      BY <3>1 DEF Drift
    <3>3. \A h \in 1 .. Len(sent) :
            sent'[h] = sent[h] /\ (state[sent[h]] = "timedout" => state'[sent'[h]] = "timedout")
      BY <1>1, <1>4, <1>5, <1>6
    <3>4. Heard' \in Int /\ Heard <= Heard'
      BY <1>2, <1>3
    <3> QED
      BY <3>1, <3>2, <3>3, <3>4, DriftStays
  <2> QED
    BY <2>1, <2>2
<1> QED
  BY <1>1, <1>8, <1>9, <1>10, <1>12 DEF Drift

LEMMA UnaskedDrift ==
  ASSUME Typed, Books, Streams, Drift, Unasked
  PROVE  Drift'
<1>1. /\ UNCHANGED <<socket, sent, answer, state>> /\ queue = <<>>
      /\ Heard \in Nat /\ Heard' \in Int /\ Heard <= Heard'
      /\ Len(sent) \in Nat
  BY TakenLine, Lengths DEF Unasked, session, Streams
<1>2. Waiting = {}
  <2>1. Range(queue) = {}
    BY <1>1 DEF Range
  <2> QED
    BY <2>1, QueueOfBooks
<1>3. \A i \in 1 .. Len(sent) : sent[i] \in Calls /\ state[sent[i]] # "waiting"
  BY <1>2 DEF Waiting, Typed
<1>4. Places("answered", Len(sent) + 1)' = Places("answered", Len(sent) + 1)
  BY <1>1 DEF Places
<1>5. Cardinality(Places("answered", Len(sent) + 1)) \in Nat
  BY <1>1, PlacesFinite
<1>6. Cardinality(Places("answered", Len(sent) + 1)') <= Heard'
  BY <1>1, <1>4, <1>5 DEF Drift
<1>7. ASSUME NEW i \in 1 .. Len(sent'), state'[sent'[i]] = "answered"
      PROVE  \E j \in 1 .. Heard' : /\ answer'[sent'[i]] = sent'[j]
                                    /\ i - j \in 0 .. Cardinality(Places("timedout", i)')
  <2>1. i \in 1 .. Len(sent) /\ state[sent[i]] = "answered"
    BY <1>1, <1>7
  <2>2. PICK j \in 1 .. Heard : /\ answer[sent[i]] = sent[j]
                                /\ i - j \in 0 .. Cardinality(Places("timedout", i))
    BY <2>1 DEF Drift
  <2>3. \A h \in 1 .. Len(sent) :
          sent'[h] = sent[h] /\ (state[sent[h]] = "timedout" => state'[sent'[h]] = "timedout")
    BY <1>1
  <2>4. answer'[sent'[i]] = answer[sent[i]]
    BY <1>1
  <2> QED
    BY <1>1, <2>1, <2>2, <2>3, <2>4, DriftStays
<1> QED
  BY <1>1, <1>3, <1>6, <1>7 DEF Drift

LEMMA SubmitDrift ==
  ASSUME Typed, Books, Streams, Drift, NEW c \in Calls, Submit(c)
  PROVE  Drift'
<1> DEFINE N == Len(sent)
<1>1. /\ state[c] = "unsaid" /\ state' = [state EXCEPT ![c] = "waiting"]
      /\ sent' = Append(sent, c) /\ toMaster' = Append(toMaster, c)
      /\ UNCHANGED <<socket, answer, toBridge, identified>>
      /\ connected
  BY DEF Submit
<1>2. /\ N \in Nat /\ Heard \in Nat /\ Heard <= N /\ Len(sent') = N + 1
      /\ sent'[N + 1] = c
      /\ \A i \in 1 .. N : sent'[i] = sent[i] /\ sent[i] \in Calls /\ sent[i] \in Range(sent)
      /\ Len(toMaster') = Len(toMaster) + 1 /\ Len(toMaster) \in Nat /\ Len(toBridge) \in Nat
  BY <1>1, Lengths DEF Typed, Range
<1>3. Heard' = Heard
  BY <1>1, <1>2 DEF Heard
<1>4. \A i \in 1 .. N : sent'[i] # c /\ state'[sent'[i]] = state[sent[i]]
  BY <1>1, <1>2 DEF Books, Typed
<1>5. state'[sent'[N + 1]] = "waiting"
  BY <1>1, <1>2 DEF Typed
<1>6. \A i \in 1 .. Len(sent') : i \in 1 .. N \/ i = N + 1
  BY <1>2
<1>7. socket' = "open" => \A i \in 1 .. Len(sent') : state'[sent'[i]] # "failed"
  BY <1>1, <1>4, <1>5, <1>6 DEF Drift
<1>8. \A i \in 1 .. Len(sent') : state'[sent'[i]] = "waiting" => Heard' < i
  BY <1>2, <1>3, <1>4, <1>6 DEF Drift
<1>9. Cardinality(Places("answered", Len(sent) + 1)') <= Heard'
  <2>1. Places("answered", Len(sent) + 1)' = Places("answered", N + 1)
    BY <1>2, <1>4, <1>5 DEF Places
  <2> QED
    BY <1>3, <2>1 DEF Drift
<1>10. ASSUME NEW i \in 1 .. Len(sent'), state'[sent'[i]] = "answered"
       PROVE  \E j \in 1 .. Heard' : /\ answer'[sent'[i]] = sent'[j]
                                     /\ i - j \in 0 .. Cardinality(Places("timedout", i)')
  <2>1. i \in 1 .. N /\ state[sent[i]] = "answered" /\ answer'[sent'[i]] = answer[sent[i]]
    BY <1>1, <1>2, <1>4, <1>5, <1>6, <1>10
  <2>2. PICK j \in 1 .. Heard : /\ answer[sent[i]] = sent[j]
                                /\ i - j \in 0 .. Cardinality(Places("timedout", i))
    BY <2>1 DEF Drift
  <2>3. \A h \in 1 .. Len(sent) :
          sent'[h] = sent[h] /\ (state[sent[h]] = "timedout" => state'[sent'[h]] = "timedout")
    BY <1>2, <1>4
  <2>4. Heard' \in Int /\ Heard <= Heard'
    BY <1>2, <1>3
  <2> QED
    BY <2>1, <2>2, <2>3, <2>4, DriftStays
<1> QED
  BY <1>7, <1>8, <1>9, <1>10 DEF Drift

LEMMA RejectDrift ==
  ASSUME Typed, Books, Streams, Drift, SocketError \/ SocketClose
  PROVE  Drift'
<1>1. /\ UNCHANGED <<sent, answer, toMaster, toBridge, identified>>
      /\ socket' # "open" /\ Resolve(Range(queue), "failed")
  BY DEF SocketError, SocketClose, RejectPending, wire
<1>2. Heard' = Heard
  BY <1>1 DEF Heard
<1>3. Range(sent) \subseteq Calls
  BY DEF Range, Typed
<1>4. \A c \in Range(sent) :
        state'[c] = state[c] \/ (state[c] = "waiting" /\ state'[c] = "failed")
  BY <1>1, <1>3 DEF Resolve
<1> QED
  BY <1>1, <1>2, <1>4, DriftKept

LEMMA NextDrift == Inv /\ [Next]_vars => Drift'
<1> SUFFICES ASSUME Typed, Books, Streams, Drift, [Next]_vars
             PROVE  Drift'
  BY DEF Inv
<1>1. ASSUME UNCHANGED <<sent, answer, state>>, Heard' = Heard,
             socket' = "open" => socket = "open" \/ sent = <<>>
      PROVE  Drift'
  BY <1>1, DriftKept
<1>2. Range(sent) \subseteq Calls
  BY DEF Range, Typed
<1>3. CASE Connected
  <2>1. ~identified /\ sent = <<>> /\ UNCHANGED <<sent, answer, state, identified>>
    BY <1>3 DEF Connected, Streams
  <2>2. Heard' = Heard
    BY <2>1 DEF Heard
  <2> QED
    BY <1>1, <2>1, <2>2
<1>4. CASE CloseSession \/ Admit \/ Leave \/ UNCHANGED vars
  <2>1. /\ UNCHANGED <<sent, answer, state, toMaster, toBridge, identified>>
        /\ socket' = "open" => socket = "open"
    BY <1>4 DEF CloseSession, Admit, Leave, vars, session, wire
  <2>2. Heard' = Heard
    BY <2>1 DEF Heard
  <2> QED
    BY <1>1, <2>1, <2>2
<1>5. CASE Refuse
  <2>1. ~identified /\ UNCHANGED <<sent, answer, state, identified, socket>>
    BY <1>5 DEF Refuse, Streams, session
  <2>2. Heard' = Heard
    BY <2>1 DEF Heard
  <2> QED
    BY <1>1, <2>1, <2>2
<1>6. CASE Serve
  <2>1. /\ toMaster # <<>> /\ toMaster' = Tail(toMaster) /\ identified' = TRUE
        /\ UNCHANGED <<sent, answer, state, socket>>
        /\ toBridge' = IF identified THEN Append(toBridge, Head(toMaster)) ELSE toBridge
    BY <1>6 DEF Serve, session
  <2>2. Len(toMaster') = Len(toMaster) - 1
    BY <2>1 DEF Typed
  <2>3. CASE identified
    <3>1. Len(toBridge') = Len(toBridge) + 1
      BY <2>1, <2>3 DEF Typed
    <3>2. Heard' = Heard
      BY <2>1, <2>2, <2>3, <3>1, Lengths DEF Heard
    <3> QED
      BY <1>1, <2>1, <3>2
  <2>4. CASE ~identified
    <3>1. toBridge' = <<>> /\ toMaster = <<Hello>> \o sent
      BY <1>6, <2>1, <2>4 DEF Streams, Serve
    <3>2. Len(toMaster') = Len(sent') /\ Len(toBridge') = 0 /\ Len(sent') \in Nat
      <4>1. Tail(<<Hello>> \o sent) = sent
        BY DEF Typed
      <4>2. toMaster' = sent'
        BY <2>1, <3>1, <4>1
      <4> QED
        BY <2>1, <3>1, <4>2, Lengths
    <3>3. Heard' = Heard
      BY <2>1, <2>4, <3>2 DEF Heard
    <3> QED
      BY <1>1, <2>1, <3>3
  <2> QED
    BY <2>3, <2>4
<1>7. CASE TurnedAway
  <2>1. ~identified
    BY <1>7, HeadIsReply DEF TurnedAway
  <2>2. /\ UNCHANGED <<sent, answer, identified>> /\ socket' # "open"
        /\ Resolve({Head(queue)}, "failed")
    BY <1>7 DEF TurnedAway
  <2>3. Heard' = Heard
    BY <2>1, <2>2 DEF Heard
  <2>4. \A c \in Range(sent) :
          state'[c] = state[c] \/ (state[c] = "waiting" /\ state'[c] = "failed")
    BY <1>2, <2>2 DEF Resolve
  <2> QED
    BY <2>2, <2>3, <2>4, DriftKept
<1>8. ASSUME NEW c \in Calls, Expire(c)
      PROVE  Drift'
  <2>1. /\ UNCHANGED <<sent, answer, identified, toMaster, toBridge, socket>>
        /\ Resolve({c}, "timedout")
    BY <1>8 DEF Expire, wire
  <2>2. Heard' = Heard
    BY <2>1 DEF Heard
  <2>3. \A d \in Range(sent) :
          state'[d] = state[d] \/ (state[d] = "waiting" /\ state'[d] = "timedout")
    BY <1>2, <2>1 DEF Resolve
  <2> QED
    BY <2>1, <2>2, <2>3, DriftKept
<1>9. ASSUME NEW c \in Calls, Unconnected(c)
      PROVE  Drift'
  <2>1. /\ UNCHANGED <<sent, answer, identified, toMaster, toBridge, socket>>
        /\ state[c] = "unsaid" /\ state' = [state EXCEPT ![c] = "failed"]
    BY <1>9 DEF Unconnected, wire
  <2>2. Heard' = Heard
    BY <2>1 DEF Heard
  <2>3. \A d \in Range(sent) : state'[d] = state[d]
    BY <1>2, <2>1 DEF Books, Typed
  <2> QED
    BY <2>1, <2>2, <2>3, DriftKept
<1> QED
  BY <1>3, <1>4, <1>5, <1>6, <1>7, <1>8, <1>9,
     ReplyDrift, UnaskedDrift, SubmitDrift, RejectDrift DEF Next

LEMMA NextInv == Inv /\ [Next]_vars => Inv'
BY NextFlags, NextTyped, NextBooks, NextStreams, NextDrift DEF Inv

\* The session's books, the two streams and their drift stay as described
\* above (server.js, MiniRedisSession).
THEOREM Invariance == Spec => []Inv
BY InitInv, NextInv, PTL DEF Spec

\* Every reachable state is well typed; in particular the count of commands
\* in flight is never negative nor more than what was submitted.
THEOREM TypeCorrect == Spec => []TypeOK
<1>1. Inv => TypeOK
  <2> SUFFICES ASSUME Inv PROVE TypeOK
    OBVIOUS
  <2>1. Waiting \in SUBSET Calls /\ inFlight = Cardinality(Waiting)
    BY QueueOfBooks DEF Waiting, Inv
  <2>2. /\ Cardinality(Waiting) <= Cardinality(Calls)
        /\ Cardinality(Waiting) \in Nat /\ Cardinality(Calls) \in Nat
    BY <2>1, CallsAssumption, FS_Subset, FS_CardinalityType
  <2>3. inFlight \in 0 .. Cardinality(Calls)
    BY <2>1, <2>2
  <2>4. connected \in BOOLEAN /\ closed \in BOOLEAN /\ identified \in BOOLEAN
    BY DEF Inv, Flags
  <2> QED
    BY <2>3, <2>4 DEF Inv, Typed, TypeOK
<1> QED
  BY <1>1, Invariance, PTL

\* Whatever mix of replies, timeouts, errors and closes has happened, queue,
\* timers, inFlight and promises tell the same story (server.js,
\* MiniRedisSession).
THEOREM BooksKept == Spec => []BooksAgree
<1>1. Inv => BooksAgree
  <2> SUFFICES ASSUME Inv PROVE BooksAgree
    OBVIOUS
  <2>1. Range(queue) = Waiting
    BY QueueOfBooks DEF Inv
  <2> QED
    BY <2>1 DEF Inv, Books, BooksAgree, Waiting
<1> QED
  BY <1>1, Invariance, PTL

LEMMA PlaceIs ==
  ASSUME Typed, Books, NEW i \in 1 .. Len(sent)
  PROVE  Place(sent[i]) = i
<1>1. DOMAIN sent = 1 .. Len(sent)
  BY DEF Typed
<1>2. \A j \in 1 .. Len(sent) : sent[j] = sent[i] => j = i
  BY DEF Books, NoDuplicates
<1> QED
  BY <1>1, <1>2 DEF Place

\* An answer is off by no more commands than timed out before, and without
\* timeouts a write the bridge remembers is one the master has carried out
\* (server.js, drainResponses and rememberCommand).
THEOREM DriftBounded == Spec => []ShiftedByTimeouts
<1>1. Inv => ShiftedByTimeouts
  <2> SUFFICES ASSUME Inv PROVE ShiftedByTimeouts
    OBVIOUS
  <2> USE DEF Inv
  <2>1. ASSUME NEW c \in Calls, state[c] = "answered"
        PROVE  \E i \in 1 .. Len(sent), j \in 1 .. Heard :
                  /\ sent[i] = c /\ answer[c] = sent[j]
                  /\ i - j \in 0 .. Cardinality(Places("timedout", i))
    <3>1. PICK i \in 1 .. Len(sent) : sent[i] = c
      BY <2>1 DEF Books, Range, Typed
    <3> QED
      BY <2>1, <3>1 DEF Drift
  <2>2. ASSUME NEW c \in Calls, state[c] = "answered"
        PROVE  LET late == {d \in TimedOut : Place(d) < Place(c)}
               IN  Place(c) - Place(answer[c]) \in 0 .. Cardinality(late)
    <3> DEFINE late == {d \in TimedOut : Place(d) < Place(c)}
    <3>1. PICK i \in 1 .. Len(sent), j \in 1 .. Heard :
            /\ sent[i] = c /\ answer[c] = sent[j]
            /\ i - j \in 0 .. Cardinality(Places("timedout", i))
      BY <2>1, <2>2
    <3> DEFINE P == Places("timedout", i)
               f == [h \in P |-> sent[h]]
    <3>2. j \in 1 .. Len(sent) /\ Len(sent) \in Nat
      BY Lengths
    <3>3. Place(c) = i /\ Place(answer[c]) = j
      BY <3>1, <3>2, PlaceIs
    <3>4. \A h \in P : h \in 1 .. Len(sent) /\ h < i /\ sent[h] \in TimedOut /\ Place(sent[h]) = h
      BY <3>2, PlaceIs DEF Places, TimedOut, Typed
    <3>5. f \in Injection(P, late)
      BY <3>3, <3>4 DEF Injection, IsInjective
    <3>6. IsFiniteSet(late)
      <4>1. late \in SUBSET Calls
        BY DEF TimedOut
      <4> QED
        BY <4>1, CallsAssumption, FS_Subset
    <3> HIDE DEF late, P, f
    <3>7. Cardinality(P) <= Cardinality(late) /\ Cardinality(late) \in Nat
      BY <3>5, <3>6, FS_Injection, FS_CardinalityType
    <3>8. Cardinality(P) \in Nat
      BY <3>2, PlacesFinite DEF P
    <3>9. i - j \in 0 .. Cardinality(P)
      BY <3>1 DEF P
    <3>10. Place(c) - Place(answer[c]) \in 0 .. Cardinality(late)
      BY <3>2, <3>3, <3>7, <3>8, <3>9
    <3> QED
      BY <3>10 DEF late
  <2>3. ASSUME TimedOut = {}, NEW c \in remembered, c \in Range(toMaster)
        PROVE  FALSE
    <3>1. c \in Calls /\ state[c] = "answered"
      BY <2>3 DEF Typed, Books
    <3>2. PICK i \in 1 .. Len(sent), j \in 1 .. Heard :
            sent[i] = c /\ i - j \in 0 .. Cardinality(Places("timedout", i))
      BY <2>1, <3>1
    <3>3. Places("timedout", i) = {}
      BY <2>3, Lengths DEF Places, TimedOut, Typed
    <3>4. i <= Heard /\ identified
      <4>1. Cardinality(Places("timedout", i)) = 0 /\ Heard \in Nat /\ Len(sent) \in Nat
        BY <3>3, FS_EmptySet, Lengths
      <4>2. i <= Heard /\ Heard # 0
        BY <3>2, <4>1
      <4> QED
        BY <4>2 DEF Heard
    <3>5. PICK m \in 1 .. Len(toMaster) : toMaster[m] = c
      BY <2>3 DEF Range, Typed
    <3>6. c = sent[Len(sent) - Len(toMaster) + m]
      BY <3>4, <3>5 DEF Streams
    <3>7. /\ Len(sent) - Len(toMaster) + m \in 1 .. Len(sent)
          /\ Len(sent) - Len(toMaster) + m > Heard
      BY <3>4, Lengths
    <3>8. i = Len(sent) - Len(toMaster) + m
      BY <3>2, <3>6, <3>7 DEF Books, NoDuplicates
    <3> QED
      BY <3>4, <3>7, <3>8, Lengths
  <2> QED
    BY <2>2, <2>3 DEF ShiftedByTimeouts
<1> QED
  BY <1>1, Invariance, PTL
=============================================================================
