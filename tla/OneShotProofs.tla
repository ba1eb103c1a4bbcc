---------------------------- MODULE OneShotProofs ----------------------------
(***************************************************************************)
(* Theorems about OneShot, for any number of requests, of keys, of lines   *)
(* and of slots.                                                           *)
(***************************************************************************)
EXTENDS OneShot, FiniteSetTheorems, TLAPS

\* The types, as far as they are not said line by line below.
Typed ==
  /\ http \in [Requests -> {"none", "received", "running", "200", "400", "500"}]
  /\ socket \in [Exchanges -> {"none", "dialling", "open", "destroyed"}]
  /\ results \in [Exchanges -> Seq(Int)]
  /\ held \in [Exchanges -> Int]
  /\ remembered \subseteq Exchanges
  /\ master \in [Exchanges -> {"backlog", "serving", "left"}]
  /\ toMaster \in [Exchanges -> Seq(Int)]
  /\ toBridge \in [Exchanges -> Seq(Int)]
  /\ executed \in [Exchanges -> Nat]

Following(e) == <<e[1], e[2] + 1>>

\* The connections of a request are opened one after the other.
InTurn ==
  /\ \A e \in Exchanges : http[e[1]] \in {"none", "received"} => socket[e] = "none"
  /\ \A e \in Exchanges : e[2] < Rounds(e[1]) /\ socket[Following(e)] # "none"
                            => socket[e] = "destroyed"

\* The master is sent the line after those it has carried out, and a
\* connection it has not accepted has heard nothing.
OneLineOut(e) ==
  /\ executed[e] <= Lines(e)
  /\ toMaster[e] = <<>> \/ (/\ executed[e] < Lines(e)
                            /\ toMaster[e] \in {<<Hello, executed[e] + 1>>, <<executed[e] + 1>>})
  /\ master[e] = "backlog" => toBridge[e] = <<>>
  /\ toBridge[e] = <<Busy>> => master[e] = "left"

\* Before the connection is there nothing but a refusal can be on its way.
Fresh(e) ==
  /\ results[e] = <<>> /\ toMaster[e] = <<>> /\ held[e] = Failed /\ executed[e] = 0
  /\ toBridge[e] \in {<<>>, <<Busy>>}

\* While it is open all results are replies to their own lines, and the line
\* waited for is on its way, carried out and on its way back, or lost.
Talking(e) ==
  LET n == Len(results[e])
  IN /\ n < Lines(e)
     /\ \A i \in 1 .. n : results[e][i] = i
     /\ \/ /\ executed[e] = n
           /\ toBridge[e] \in {<<>>, <<Busy>>}
           /\ held[e] = Failed
        \/ /\ executed[e] = n + 1
           /\ toMaster[e] = <<>>
           /\ \/ toBridge[e] = <<n + 1>> /\ held[e] = Failed
              \/ toBridge[e] = <<-(n + 1)>> /\ held[e] = Failed /\ master[e] = "left"
              \/ toBridge[e] = <<>> /\ held[e] = -(n + 1) /\ master[e] = "left"

\* When it is over the results are those replies, then failures; a single
\* command may report a part of its reply.  One more line may be carried out.
Reported(e, k) ==
  /\ \A i \in 1 .. k : results[e][i] \in {i, -i}
  /\ \A i \in k + 1 .. Lines(e) : results[e][i] = Failed
  /\ executed[e] \in {k, k + 1}
  /\ executed[e] = k + 1 => toMaster[e] = <<>>

Over(e) ==
  /\ Len(results[e]) = Lines(e)
  /\ toBridge[e] \in {<<>>, <<Busy>>} /\ held[e] = Failed
  /\ \E k \in 0 .. Lines(e) : Reported(e, k)

InStage(e) ==
  /\ OneLineOut(e)
  /\ socket[e] \in {"none", "dialling"} => Fresh(e)
  /\ socket[e] = "none" => master[e] = "backlog"
  /\ socket[e] = "open" => Talking(e)
  /\ socket[e] = "destroyed" => Over(e)
  /\ e \in remembered => socket[e] = "destroyed" /\ Lines(e) = 1 /\ executed[e] = 1

Inv == Typed /\ InTurn /\ \A e \in Exchanges : InStage(e)
-----------------------------------------------------------------------------
LEMMA LinesType == ASSUME NEW e \in Exchanges PROVE Lines(e) \in Nat \ {0}
BY RequestAssumption DEF Lines

LEMMA ExchangeIs ==
  ASSUME NEW e
  PROVE  e \in Exchanges <=> \E q \in Requests : \E i \in 1 .. Rounds(q) : e = <<q, i>>
BY DEF Exchanges

LEMMA RoundsType == ASSUME NEW q PROVE Rounds(q) \in Nat \ {0}
BY RequestAssumption DEF Rounds

LEMMA FollowingType ==
  ASSUME NEW e \in Exchanges, e[2] < Rounds(e[1])
  PROVE  /\ Following(e) \in Exchanges
         /\ Following(e) # e
         /\ Following(e)[1] = e[1]
         /\ \A d \in Exchanges : Following(d) = Following(e) => d = e
<1>0. PICK q \in Requests : \E i \in 1 .. Rounds(q) : e = <<q, i>>
  BY ExchangeIs
<1>1. PICK i \in 1 .. Rounds(q) : e = <<q, i>>
  BY <1>0
<1>2. Rounds(q) \in Nat
  BY RoundsType
<1>3. i + 1 \in 1 .. Rounds(q) /\ Following(e) = <<q, i + 1>>
  BY <1>1, <1>2 DEF Following
<1>4. ASSUME NEW d \in Exchanges, Following(d) = Following(e)
      PROVE  d = e
  <2>0. PICK r \in Requests : \E j \in 1 .. Rounds(r) : d = <<r, j>>
    BY ExchangeIs
  <2>1. PICK j \in 1 .. Rounds(r) : d = <<r, j>>
    BY <2>0
  <2>2. Following(d) = <<r, j + 1>>
    BY <2>1 DEF Following
  <2>3. r = q /\ j + 1 = i + 1
    BY <1>3, <1>4, <2>2
  <2>4. j \in Nat /\ i \in Nat
    BY <1>2, RoundsType
  <2> QED
    BY <1>1, <2>1, <2>3, <2>4
<1>5. Following(e) \in Exchanges
  BY <1>3, ExchangeIs
<1> QED
  BY <1>1, <1>2, <1>3, <1>4, <1>5

LEMMA RequestOf == ASSUME NEW e \in Exchanges PROVE e[1] \in Requests
BY ExchangeIs

LEMMA InitInv == Init => Inv
<1> SUFFICES ASSUME Init PROVE Inv
  OBVIOUS
<1>1. Typed
  BY DEF Init, Typed, Failed
<1>2. InTurn
  <2>1. \A e \in Exchanges : e[2] < Rounds(e[1]) => socket[Following(e)] = "none"
    BY FollowingType DEF Init
  <2> QED
    BY <2>1 DEF Init, InTurn
<1>3. ASSUME NEW e \in Exchanges PROVE InStage(e)
  <2>1. 0 <= Lines(e)
    BY LinesType
  <2> QED
    BY <2>1 DEF Init, InStage, OneLineOut, Fresh, Busy
<1> QED
  BY <1>1, <1>2, <1>3 DEF Inv

\* An exchange a step does not touch.
LEMMA Untouched ==
  ASSUME NEW d \in Exchanges, InStage(d),
         socket'[d] = socket[d], results'[d] = results[d], held'[d] = held[d],
         master'[d] = master[d], toMaster'[d] = toMaster[d], toBridge'[d] = toBridge[d],
         executed'[d] = executed[d], d \in remembered' <=> d \in remembered
  PROVE  InStage(d)'
BY DEF InStage, OneLineOut, Fresh, Talking, Over, Reported

\* An exchange that is dialled next.
LEMMA NewlyDialled ==
  ASSUME NEW d \in Exchanges, InStage(d),
         socket[d] = "none", socket'[d] = "dialling", results'[d] = results[d], held'[d] = held[d],
         master'[d] = master[d], toMaster'[d] = toMaster[d], toBridge'[d] = toBridge[d],
         executed'[d] = executed[d], d \in remembered' <=> d \in remembered
  PROVE  InStage(d)'
BY DEF InStage, OneLineOut, Fresh

\* What finishing an exchange does to it and to the others.
LEMMA Finishing ==
  ASSUME Typed, InTurn, NEW e \in Exchanges, NEW rows \in Seq(Int),
         socket[e] \in {"dialling", "open"}, Finish(e, rows)
  PROVE  /\ http' \in [Requests -> {"none", "received", "running", "200", "400", "500"}]
         /\ socket' \in [Exchanges -> {"none", "dialling", "open", "destroyed"}]
         /\ results' \in [Exchanges -> Seq(Int)]
         /\ held' \in [Exchanges -> Int]
         /\ toBridge' \in [Exchanges -> Seq(Int)]
         /\ socket'[e] = "destroyed" /\ results'[e] = results[e] \o rows
         /\ held'[e] = Failed /\ toBridge'[e] = <<>>
         /\ \A d \in Exchanges \ {e} :
              /\ results'[d] = results[d] /\ held'[d] = held[d] /\ toBridge'[d] = toBridge[d]
              /\ \/ socket'[d] = socket[d]
                 \/ socket[d] = "none" /\ socket'[d] = "dialling"
         /\ InTurn'
<1>1. /\ results' = [results EXCEPT ![e] = @ \o rows]
      /\ held' = [held EXCEPT ![e] = Failed]
      /\ toBridge' = [toBridge EXCEPT ![e] = <<>>]
      /\ GoOn(e, [socket EXCEPT ![e] = "destroyed"])
  BY DEF Finish
<1>2. results[e] \o rows \in Seq(Int) /\ Failed \in Int
  BY DEF Typed, Failed
<1>3. http[e[1]] \notin {"none", "received"}
  BY DEF InTurn
<1> DEFINE Books == /\ results' \in [Exchanges -> Seq(Int)]
                    /\ held' \in [Exchanges -> Int]
                    /\ toBridge' \in [Exchanges -> Seq(Int)]
                    /\ results'[e] = results[e] \o rows
                    /\ held'[e] = Failed /\ toBridge'[e] = <<>>
                    /\ \A d \in Exchanges \ {e} :
                         /\ results'[d] = results[d] /\ held'[d] = held[d]
                         /\ toBridge'[d] = toBridge[d]
<1>6. Books
  BY <1>1, <1>2 DEF Typed
<1> HIDE DEF Books
<1>4. CASE e[2] < Rounds(e[1])
  <2> DEFINE f == Following(e)
  <2>1. f \in Exchanges /\ f # e /\ socket[f] = "none"
    BY <1>4, FollowingType DEF InTurn
  <2>2. http' = http /\ socket' = [[socket EXCEPT ![e] = "destroyed"] EXCEPT ![f] = "dialling"]
    BY <1>1, <1>4 DEF GoOn, Following
  <2>3. \A d \in Exchanges : socket'[d] = IF d = e THEN "destroyed"
                                          ELSE IF d = f THEN "dialling" ELSE socket[d]
    BY <2>1, <2>2 DEF Typed
  <2>4. f[1] = e[1]
    BY <1>4, FollowingType
  <2>5. ASSUME NEW d \in Exchanges, http'[d[1]] \in {"none", "received"}
        PROVE  socket'[d] = "none"
    <3>1. d[1] # e[1]
      BY <1>3, <2>2, <2>5
    <3> QED
      BY <2>2, <2>3, <2>4, <2>5, <3>1 DEF InTurn
  <2>6. ASSUME NEW d \in Exchanges, d[2] < Rounds(d[1]), socket'[Following(d)] # "none"
        PROVE  socket'[d] = "destroyed"
    <3>1. Following(d) \in Exchanges
      BY <2>6, FollowingType
    <3>2. CASE d = e
      BY <2>3, <3>2
    <3>3. CASE d # e /\ Following(d) = e
      <4>1. socket[d] = "destroyed"
        BY <2>6, <3>3 DEF InTurn
      <4> QED
        BY <2>1, <2>3, <4>1
    <3>4. CASE d # e /\ Following(d) # e
      <4>1. Following(d) # f
        BY <1>4, <3>4, FollowingType
      <4>2. socket[Following(d)] # "none"
        BY <2>3, <2>6, <3>1, <3>4, <4>1
      <4>3. socket[d] = "destroyed"
        BY <2>6, <4>2 DEF InTurn
      <4> QED
        BY <2>1, <2>3, <4>3
    <3> QED
      BY <3>2, <3>3, <3>4
  <2> HIDE DEF f
  <2>7. InTurn'
    BY <2>5, <2>6 DEF InTurn
  <2>8. socket' \in [Exchanges -> {"none", "dialling", "open", "destroyed"}]
    BY <2>1, <2>2 DEF Typed
  <2>9. http' \in [Requests -> {"none", "received", "running", "200", "400", "500"}]
    BY <2>2 DEF Typed
  <2>10. \A d \in Exchanges \ {e} : \/ socket'[d] = socket[d]
                                    \/ socket[d] = "none" /\ socket'[d] = "dialling"
    BY <2>1, <2>3
  <2>11. socket'[e] = "destroyed"
    BY <2>3
  <2> QED
    BY <1>6, <2>7, <2>8, <2>9, <2>10, <2>11 DEF Books
<1>5. CASE ~(e[2] < Rounds(e[1]))
  <2>1. /\ socket' = [socket EXCEPT ![e] = "destroyed"]
        /\ http' = [http EXCEPT ![e[1]] = "200"]
    BY <1>1, <1>5 DEF GoOn
  <2>2. \A d \in Exchanges : socket'[d] = IF d = e THEN "destroyed" ELSE socket[d]
    BY <2>1 DEF Typed
  <2>3. ASSUME NEW d \in Exchanges, http'[d[1]] \in {"none", "received"}
        PROVE  socket'[d] = "none"
    <3>1. d[1] # e[1] /\ d[1] \in Requests /\ e[1] \in Requests
      BY <2>1, <2>3, RequestOf DEF Typed
    <3>2. http[d[1]] \in {"none", "received"}
      BY <2>1, <2>3, <3>1 DEF Typed
    <3> QED
      BY <2>2, <3>1, <3>2 DEF InTurn
  <2>4. ASSUME NEW d \in Exchanges, d[2] < Rounds(d[1]), socket'[Following(d)] # "none"
        PROVE  socket'[d] = "destroyed"
    <3>1. Following(d) \in Exchanges
      BY <2>4, FollowingType
    <3>2. socket[Following(d)] # "none"
      BY <2>2, <2>4, <3>1
    <3> QED
      BY <2>2, <2>4, <3>2 DEF InTurn
  <2>5. InTurn'
    BY <2>3, <2>4 DEF InTurn
  <2>6. e[1] \in Requests
    BY RequestOf
  <2>7. /\ http' \in [Requests -> {"none", "received", "running", "200", "400", "500"}]
        /\ socket' \in [Exchanges -> {"none", "dialling", "open", "destroyed"}]
    BY <2>1, <2>6 DEF Typed
  <2> QED
    BY <1>6, <2>2, <2>5, <2>7 DEF Books
<1> QED
  BY <1>4, <1>5

\* An exchange is over when its results are all there.
LEMMA FinishInv ==
  ASSUME Inv, NEW e \in Exchanges, NEW rows \in Seq(Int),
         socket[e] \in {"dialling", "open"}, Finish(e, rows),
         executed' = executed,
         remembered' \in SUBSET Exchanges,
         \A d \in Exchanges \ {e} : d \in remembered' <=> d \in remembered,
         e \in remembered' => Lines(e) = 1 /\ executed[e] = 1,
         master' \in [Exchanges -> {"backlog", "serving", "left"}],
         toMaster' \in [Exchanges -> Seq(Int)],
         \A d \in Exchanges \ {e} : master'[d] = master[d] /\ toMaster'[d] = toMaster[d],
         toMaster'[e] \in {toMaster[e], <<>>},
         Len(results[e] \o rows) = Lines(e),
         NEW k \in 0 .. Lines(e), Reported(e, k)'
  PROVE  Inv'
<1>1. Typed /\ InTurn /\ \A d \in Exchanges : InStage(d)
  BY DEF Inv
<1>2. /\ http' \in [Requests -> {"none", "received", "running", "200", "400", "500"}]
      /\ socket' \in [Exchanges -> {"none", "dialling", "open", "destroyed"}]
      /\ results' \in [Exchanges -> Seq(Int)]
      /\ held' \in [Exchanges -> Int]
      /\ toBridge' \in [Exchanges -> Seq(Int)]
      /\ socket'[e] = "destroyed" /\ results'[e] = results[e] \o rows
      /\ held'[e] = Failed /\ toBridge'[e] = <<>>
      /\ \A d \in Exchanges \ {e} :
           /\ results'[d] = results[d] /\ held'[d] = held[d] /\ toBridge'[d] = toBridge[d]
           /\ \/ socket'[d] = socket[d]
              \/ socket[d] = "none" /\ socket'[d] = "dialling"
      /\ InTurn'
  BY <1>1, Finishing
<1>3. Typed'
  BY <1>1, <1>2 DEF Typed
<1>4. ASSUME NEW d \in Exchanges \ {e}
      PROVE  InStage(d)'
  <2>1. /\ results'[d] = results[d] /\ held'[d] = held[d] /\ toBridge'[d] = toBridge[d]
        /\ master'[d] = master[d] /\ toMaster'[d] = toMaster[d] /\ executed'[d] = executed[d]
        /\ d \in remembered' <=> d \in remembered
    BY <1>2
  <2>2. CASE socket'[d] = socket[d]
    BY <1>1, <2>1, <2>2, Untouched
  <2>3. CASE socket[d] = "none" /\ socket'[d] = "dialling"
    BY <1>1, <2>1, <2>3, NewlyDialled
  <2> QED
    BY <1>2, <2>2, <2>3
<1>5. InStage(e)'
  <2>1. Over(e)'
    BY <1>2 DEF Over
  <2>2. OneLineOut(e)'
    BY <1>1, <1>2 DEF InStage, OneLineOut, Busy
  <2> QED
    BY <1>2, <2>1, <2>2 DEF InStage
<1> QED
  BY <1>2, <1>3, <1>4, <1>5 DEF Inv

LEMMA Concatenated ==
  ASSUME NEW a \in Seq(Int), NEW b \in Seq(Int)
  PROVE  /\ Len(a \o b) = Len(a) + Len(b)
         /\ \A i \in 1 .. Len(a) : (a \o b)[i] = a[i]
         /\ \A i \in Len(a) + 1 .. Len(a) + Len(b) : (a \o b)[i] = b[i - Len(a)]
OBVIOUS

\* A failure is reported for every line that has no result.
LEMMA FailInv ==
  ASSUME Inv, NEW e \in Exchanges, Fail(e),
         socket[e] \in {"dialling", "open"},
         executed' = executed, remembered' = remembered,
         master' \in [Exchanges -> {"backlog", "serving", "left"}],
         toMaster' \in [Exchanges -> Seq(Int)],
         \A d \in Exchanges \ {e} : master'[d] = master[d] /\ toMaster'[d] = toMaster[d],
         toMaster'[e] \in {toMaster[e], <<>>}
  PROVE  Inv'
<1>1. Typed /\ InTurn /\ InStage(e) /\ Lines(e) \in Nat \ {0}
  BY LinesType DEF Inv
<1>2. PICK n \in Nat : n = Len(results[e])
  BY <1>1 DEF Typed
<1>3. /\ results[e] \in Seq(Int) /\ n \in 0 .. Lines(e) - 1
      /\ \A i \in 1 .. n : results[e][i] = i
      /\ executed[e] \in {n, n + 1}
      /\ executed[e] = n + 1 => toMaster[e] = <<>>
  <2>1. results[e] \in Seq(Int)
    BY <1>1 DEF Typed
  <2>2. CASE socket[e] = "dialling"
    <3>1. results[e] = <<>> /\ executed[e] = 0 /\ toMaster[e] = <<>>
      BY <1>1, <2>2 DEF InStage, Fresh
    <3> QED
      BY <1>1, <1>2, <2>1, <3>1
  <2>3. CASE socket[e] = "open"
    <3>1. Talking(e)
      BY <1>1, <2>3 DEF InStage
    <3>2. /\ n < Lines(e) /\ \A i \in 1 .. n : results[e][i] = i
          /\ executed[e] = n \/ (executed[e] = n + 1 /\ toMaster[e] = <<>>)
      BY <1>2, <3>1 DEF Talking
    <3> QED
      BY <1>1, <1>2, <2>1, <3>2
  <2> QED
    BY <2>2, <2>3
<1>4. PICK rows \in Seq(Int) : rows = [i \in 1 .. Lines(e) - n |-> Failed]
  <2>1. Lines(e) - n \in Nat
    BY <1>1, <1>3
  <2>2. [i \in 1 .. Lines(e) - n |-> Failed] \in Seq(Int)
    BY <2>1 DEF Failed
  <2> QED
    BY <2>2
<1>5. /\ Len(rows) = Lines(e) - n
      /\ \A i \in 1 .. Lines(e) - n : rows[i] = Failed
  BY <1>1, <1>3, <1>4
<1>6. Finish(e, rows)
  BY <1>2, <1>4 DEF Fail
<1>7. /\ Len(results[e] \o rows) = Lines(e)
      /\ \A i \in 1 .. n : (results[e] \o rows)[i] = i
      /\ \A i \in n + 1 .. Lines(e) : (results[e] \o rows)[i] = Failed
  <2>1. /\ Len(results[e] \o rows) = n + (Lines(e) - n)
        /\ \A i \in 1 .. n : (results[e] \o rows)[i] = results[e][i]
        /\ \A i \in n + 1 .. n + (Lines(e) - n) : (results[e] \o rows)[i] = rows[i - n]
    <3>1. /\ Len(results[e] \o rows) = Len(results[e]) + Len(rows)
          /\ \A i \in 1 .. Len(results[e]) : (results[e] \o rows)[i] = results[e][i]
          /\ \A i \in Len(results[e]) + 1 .. Len(results[e]) + Len(rows) :
                (results[e] \o rows)[i] = rows[i - Len(results[e])]
      BY <1>3, Concatenated
    <3>2. Len(results[e]) = n /\ Len(rows) = Lines(e) - n
      BY <1>2, <1>5
    <3> QED
      BY <3>1, <3>2
  <2>2. n + (Lines(e) - n) = Lines(e)
    BY <1>1, <1>3
  <2>3. \A i \in n + 1 .. Lines(e) : i - n \in 1 .. Lines(e) - n
    BY <1>1, <1>3
  <2> QED
    BY <1>3, <1>5, <2>1, <2>2, <2>3
<1>8. results'[e] = results[e] \o rows
  BY <1>1, <1>6, Finishing
<1>9. Reported(e, n)'
  BY <1>3, <1>7, <1>8 DEF Reported, Lines
<1>10. n \in 0 .. Lines(e)
  BY <1>1, <1>3
<1>11. e \notin remembered /\ remembered' \in SUBSET Exchanges
  BY <1>1 DEF InStage, Typed
<1> QED
  BY <1>6, <1>7, <1>9, <1>10, <1>11, FinishInv
-----------------------------------------------------------------------------
LEMMA RequestInv ==
  ASSUME Inv, NEW q \in Requests, Request(q) \/ Rejected(q) \/ EmptyCommand(q)
  PROVE  Inv'
<1>1. /\ Typed /\ InTurn /\ \A d \in Exchanges : InStage(d)
      /\ UNCHANGED <<socket, results, held, remembered, wire>>
  BY DEF Inv, Request, Rejected, EmptyCommand
<1>2. Typed'
  BY <1>1 DEF Typed, wire, Request, Rejected, EmptyCommand
<1>3. InTurn'
  <2>1. \A r \in Requests : http'[r] \in {"none", "received"} => http[r] \in {"none", "received"}
    BY <1>1 DEF Typed, Request, Rejected, EmptyCommand
  <2> QED
    BY <1>1, <2>1, RequestOf DEF InTurn
<1>4. \A d \in Exchanges : InStage(d)'
  BY <1>1, Untouched DEF wire
<1> QED
  BY <1>2, <1>3, <1>4 DEF Inv

LEMMA BeginInv ==
  ASSUME Inv, NEW q \in Requests, Begin(q)
  PROVE  Inv'
<1>1. PICK e \in Exchanges : e = <<q, 1>>
  <2>1. 1 \in 1 .. Rounds(q)
    BY RoundsType
  <2> QED
    BY <2>1, ExchangeIs
<1>2. /\ Typed /\ InTurn /\ \A d \in Exchanges : InStage(d)
      /\ UNCHANGED <<results, held, remembered, wire>>
      /\ http[q] = "received" /\ http' = [http EXCEPT ![q] = "running"]
      /\ socket' = [socket EXCEPT ![e] = "dialling"]
  BY <1>1 DEF Inv, Begin
<1>3. /\ socket[e] = "none"
      /\ \A d \in Exchanges : socket'[d] = IF d = e THEN "dialling" ELSE socket[d]
  BY <1>1, <1>2 DEF InTurn, Typed
<1>4. Typed'
  BY <1>2 DEF Typed, wire
<1>5. InTurn'
  <2>1. ASSUME NEW d \in Exchanges, http'[d[1]] \in {"none", "received"}
        PROVE  socket'[d] = "none"
    <3>1. d[1] \in Requests /\ d[1] # q
      BY <1>2, <2>1, RequestOf DEF Typed
    <3>2. http[d[1]] \in {"none", "received"} /\ d # e
      BY <1>1, <1>2, <2>1, <3>1 DEF Typed
    <3> QED
      BY <1>2, <1>3, <3>2 DEF InTurn
  <2>2. ASSUME NEW d \in Exchanges, d[2] < Rounds(d[1]), socket'[Following(d)] # "none"
        PROVE  socket'[d] = "destroyed"
    <3>1. Following(d) \in Exchanges
      BY <2>2, FollowingType
    <3>2. Following(d) # e
      <4>1. PICK r \in Requests : \E j \in 1 .. Rounds(r) : d = <<r, j>>
        BY ExchangeIs
      <4>2. PICK j \in 1 .. Rounds(r) : d = <<r, j>>
        BY <4>1
      <4>3. Following(d) = <<r, j + 1>> /\ j + 1 # 1
        BY <4>2, RoundsType DEF Following
      <4> QED
        BY <1>1, <4>3
    <3>3. socket[d] = "destroyed"
      BY <1>2, <1>3, <2>2, <3>1, <3>2 DEF InTurn
    <3> QED
      BY <1>3, <3>3
  <2> QED
    BY <2>1, <2>2 DEF InTurn
<1>6. ASSUME NEW d \in Exchanges
      PROVE  InStage(d)'
  <2>1. CASE d = e
    BY <1>2, <1>3, <2>1, NewlyDialled DEF wire
  <2>2. CASE d # e
    BY <1>2, <1>3, <2>2, Untouched DEF wire
  <2> QED
    BY <2>1, <2>2
<1> QED
  BY <1>4, <1>5, <1>6 DEF Inv

\* A step of one exchange that opens and closes no connection.
LEMMA OneExchange ==
  ASSUME Inv, NEW e \in Exchanges, Typed', InStage(e)',
         UNCHANGED http,
         socket'[e] = socket[e] \/ (socket[e] = "dialling" /\ socket'[e] = "open"),
         \A d \in Exchanges \ {e} :
           /\ socket'[d] = socket[d] /\ results'[d] = results[d] /\ held'[d] = held[d]
           /\ master'[d] = master[d] /\ toMaster'[d] = toMaster[d]
           /\ toBridge'[d] = toBridge[d] /\ executed'[d] = executed[d]
           /\ d \in remembered' <=> d \in remembered
  PROVE  Inv'
<1>1. Typed /\ InTurn /\ \A d \in Exchanges : InStage(d)
  BY DEF Inv
<1>2. \A d \in Exchanges : /\ socket'[d] = "none" <=> socket[d] = "none"
                           /\ socket'[d] = "destroyed" <=> socket[d] = "destroyed"
  OBVIOUS
<1>3. InTurn'
  BY <1>1, <1>2, FollowingType DEF InTurn
<1>4. \A d \in Exchanges : InStage(d)'
  BY <1>1, Untouched
<1> QED
  BY <1>3, <1>4 DEF Inv

LEMMA ConnectedInv ==
  ASSUME Inv, NEW e \in Exchanges, Connected(e)
  PROVE  Inv'
<1>1. /\ Typed /\ InStage(e) /\ Lines(e) \in Nat \ {0}
      /\ socket[e] = "dialling" /\ socket' = [socket EXCEPT ![e] = "open"]
      /\ toMaster' = [toMaster EXCEPT ![e] = <<Hello, 1>>]
      /\ UNCHANGED <<http, results, held, remembered, master, toBridge, executed>>
  BY LinesType DEF Inv, Connected
<1>2. Typed'
  <2>1. <<Hello, 1>> \in Seq(Int)
    BY DEF Hello
  <2> QED
    BY <1>1, <2>1 DEF Typed
<1>3. /\ results[e] = <<>> /\ held[e] = Failed /\ executed[e] = 0
      /\ toBridge[e] \in {<<>>, <<Busy>>}
      /\ socket'[e] = "open" /\ toMaster'[e] = <<Hello, 1>>
  BY <1>1 DEF InStage, Fresh, Typed
<1>4. OneLineOut(e)'
  BY <1>1, <1>3 DEF OneLineOut, InStage, Lines
<1>5. Talking(e)'
  BY <1>1, <1>3 DEF Talking, Lines
<1>6. InStage(e)'
  BY <1>1, <1>3, <1>4, <1>5 DEF InStage
<1> QED
  BY <1>1, <1>2, <1>6, OneExchange DEF Typed

\* What Talking says of the line that is waited for, with its number named.
LEMMA TalkingIs ==
  ASSUME Inv, NEW e \in Exchanges, socket[e] = "open"
  PROVE  \E n \in Nat :
           /\ n = Len(results[e]) /\ n < Lines(e)
           /\ \A i \in 1 .. n : results[e][i] = i
           /\ \/ executed[e] = n /\ toBridge[e] \in {<<>>, <<Busy>>} /\ held[e] = Failed
              \/ /\ executed[e] = n + 1 /\ toMaster[e] = <<>>
                 /\ \/ toBridge[e] = <<n + 1>> /\ held[e] = Failed
                    \/ toBridge[e] = <<-(n + 1)>> /\ held[e] = Failed /\ master[e] = "left"
                    \/ toBridge[e] = <<>> /\ held[e] = -(n + 1) /\ master[e] = "left"
<1>1. Typed /\ Talking(e)
  BY DEF Inv, InStage
<1>2. Len(results[e]) \in Nat
  BY <1>1 DEF Typed
<1> QED
  BY <1>1, <1>2 DEF Talking

\* The last reply of an exchange ...
LEMMA LastReplyInv ==
  ASSUME Inv, NEW e \in Exchanges, Reply(e), Len(results[e]) + 1 = Lines(e)
  PROVE  Inv'
<1>1. PICK n \in Nat :
           /\ n = Len(results[e]) /\ n < Lines(e)
           /\ \A i \in 1 .. n : results[e][i] = i
           /\ \/ executed[e] = n /\ toBridge[e] \in {<<>>, <<Busy>>} /\ held[e] = Failed
              \/ /\ executed[e] = n + 1 /\ toMaster[e] = <<>>
                 /\ \/ toBridge[e] = <<n + 1>> /\ held[e] = Failed
                    \/ toBridge[e] = <<-(n + 1)>> /\ held[e] = Failed /\ master[e] = "left"
                    \/ toBridge[e] = <<>> /\ held[e] = -(n + 1) /\ master[e] = "left"
  BY TalkingIs DEF Reply, Chunk
<1>2. /\ Typed /\ InTurn /\ InStage(e) /\ Lines(e) \in Nat \ {0}
      /\ socket[e] = "open" /\ Head(toBridge[e]) > 0 /\ toBridge[e] # <<>>
      /\ remembered' = IF e[1] \in Writes THEN remembered \cup {e} ELSE remembered
      /\ Finish(e, <<Head(toBridge[e])>>)
      /\ UNCHANGED <<toMaster, master, executed>>
  BY LinesType DEF Inv, Reply, Chunk
<1>3. executed[e] = n + 1 /\ toMaster[e] = <<>> /\ Head(toBridge[e]) = n + 1
  BY <1>1, <1>2 DEF Busy
<1>4. PICK rows \in Seq(Int) : rows = <<n + 1>>
  <2>1. <<n + 1>> \in Seq(Int)
    OBVIOUS
  <2> QED
    BY <2>1
<1>5. Finish(e, rows) /\ Len(rows) = 1 /\ rows[1] = n + 1
  BY <1>2, <1>3, <1>4
<1>6. n + 1 = Lines(e) /\ results[e] \in Seq(Int)
  BY <1>1, <1>2 DEF Typed
<1>7. /\ Len(results[e] \o rows) = Lines(e)
      /\ \A i \in 1 .. n + 1 : (results[e] \o rows)[i] = i
  <2>1. /\ Len(results[e] \o rows) = Len(results[e]) + Len(rows)
        /\ \A i \in 1 .. Len(results[e]) : (results[e] \o rows)[i] = results[e][i]
        /\ \A i \in Len(results[e]) + 1 .. Len(results[e]) + Len(rows) :
              (results[e] \o rows)[i] = rows[i - Len(results[e])]
    BY <1>6, Concatenated
  <2>2. /\ Len(results[e] \o rows) = n + 1
        /\ \A i \in 1 .. n : (results[e] \o rows)[i] = i
        /\ (results[e] \o rows)[n + 1] = rows[1]
    BY <1>1, <1>5, <2>1
  <2> QED
    BY <1>5, <1>6, <2>2
<1>8. results'[e] = results[e] \o rows
  BY <1>2, <1>5, Finishing
<1>9. PICK k \in 0 .. Lines(e) : k = n + 1
  BY <1>2, <1>6
<1>10. Reported(e, k)'
  <2>1. Lines(e)' = k /\ executed'[e] = k
    BY <1>2, <1>3, <1>6, <1>9 DEF Lines
  <2>2. \A i \in 1 .. k : results'[e][i] = i
    BY <1>7, <1>8, <1>9
  <2>3. \A i \in k + 1 .. k : FALSE
    BY <1>2, <1>9
  <2>4. k # k + 1
    BY <1>2, <1>9
  <2> QED
    BY <2>1, <2>2, <2>3, <2>4 DEF Reported
<1>11. e \in remembered' => Lines(e) = 1 /\ executed[e] = 1
  <2>1. e \notin remembered
    BY <1>2 DEF InStage
  <2>2. e[1] \in Writes => Lines(e) = 1
    BY RequestAssumption DEF Lines
  <2> QED
    BY <1>2, <1>3, <1>6, <2>1, <2>2
<1>12. /\ remembered' \in SUBSET Exchanges
       /\ \A d \in Exchanges \ {e} : d \in remembered' <=> d \in remembered
       /\ master' \in [Exchanges -> {"backlog", "serving", "left"}]
       /\ toMaster' \in [Exchanges -> Seq(Int)]
  BY <1>2 DEF Typed
<1> QED
  BY <1>2, <1>5, <1>7, <1>10, <1>11, <1>12, FinishInv

\* ... and one before the last, after which the next line is sent.
LEMMA NextLineInv ==
  ASSUME Inv, NEW e \in Exchanges, Reply(e), Len(results[e]) + 1 # Lines(e)
  PROVE  Inv'
<1>1. PICK n \in Nat :
           /\ n = Len(results[e]) /\ n < Lines(e)
           /\ \A i \in 1 .. n : results[e][i] = i
           /\ \/ executed[e] = n /\ toBridge[e] \in {<<>>, <<Busy>>} /\ held[e] = Failed
              \/ /\ executed[e] = n + 1 /\ toMaster[e] = <<>>
                 /\ \/ toBridge[e] = <<n + 1>> /\ held[e] = Failed
                    \/ toBridge[e] = <<-(n + 1)>> /\ held[e] = Failed /\ master[e] = "left"
                    \/ toBridge[e] = <<>> /\ held[e] = -(n + 1) /\ master[e] = "left"
  BY TalkingIs DEF Reply, Chunk
<1>2. /\ Typed /\ InStage(e) /\ Lines(e) \in Nat \ {0}
      /\ socket[e] = "open" /\ Head(toBridge[e]) > 0 /\ toBridge[e] # <<>>
      /\ remembered' = IF e[1] \in Writes THEN remembered \cup {e} ELSE remembered
      /\ toBridge' = [toBridge EXCEPT ![e] = Tail(@)]
      /\ results' = [results EXCEPT ![e] = Append(@, Head(toBridge[e]))]
      /\ toMaster' = [toMaster EXCEPT ![e] = Append(@, Len(results[e]) + 2)]
      /\ UNCHANGED <<http, socket, held, master, executed>>
  BY LinesType DEF Inv, Reply, Chunk, Read
<1>3. executed[e] = n + 1 /\ toMaster[e] = <<>> /\ toBridge[e] = <<n + 1>> /\ held[e] = Failed
  BY <1>1, <1>2 DEF Busy
<1>4. e[1] \notin Writes
  <2>1. n + 1 < Lines(e)
    BY <1>1, <1>2
  <2> QED
    BY <2>1, RequestAssumption DEF Lines
<1>5. /\ toBridge'[e] = <<>> /\ toMaster'[e] = <<n + 2>>
      /\ results'[e] = Append(results[e], n + 1) /\ results[e] \in Seq(Int)
  BY <1>1, <1>2, <1>3 DEF Typed
<1>6. Typed'
  <2>1. results'[e] \in Seq(Int) /\ <<>> \in Seq(Int) /\ <<n + 2>> \in Seq(Int)
    BY <1>5
  <2>2. /\ results' = [results EXCEPT ![e] = results'[e]]
        /\ toMaster' = [toMaster EXCEPT ![e] = <<n + 2>>]
        /\ toBridge' = [toBridge EXCEPT ![e] = <<>>]
    BY <1>2, <1>5 DEF Typed
  <2> QED
    BY <1>2, <1>4, <2>1, <2>2 DEF Typed
<1>7. /\ Len(results'[e]) = n + 1 /\ n + 1 < Lines(e)
      /\ \A i \in 1 .. n + 1 : results'[e][i] = i
  BY <1>1, <1>2, <1>5
<1>8. Talking(e)'
  BY <1>2, <1>3, <1>5, <1>7 DEF Talking, Lines
<1>9. OneLineOut(e)'
  <2>1. /\ executed'[e] + 1 = n + 2 /\ executed'[e] < Lines(e)
        /\ executed'[e] <= Lines(e)
    BY <1>2, <1>3, <1>7
  <2> QED
    BY <1>5, <2>1 DEF OneLineOut, Lines, Busy
<1>10. InStage(e)'
  BY <1>2, <1>4, <1>8, <1>9 DEF InStage
<1> QED
  BY <1>2, <1>4, <1>6, <1>10, OneExchange DEF Typed

LEMMA RefusedInv ==
  ASSUME Inv, NEW e \in Exchanges, Refused(e) \/ Timeout(e)
  PROVE  Inv'
<1>1. /\ Fail(e) /\ socket[e] \in {"dialling", "open"}
      /\ UNCHANGED <<remembered, master, toMaster, executed>>
  BY DEF Refused, Chunk, Timeout, Waiting
<1>2. Typed
  BY DEF Inv
<1> QED
  BY <1>1, <1>2, FailInv DEF Typed

LEMMA ErrorInv ==
  ASSUME Inv, NEW e \in Exchanges, Error(e)
  PROVE  Inv'
<1>1. /\ Typed /\ Fail(e) /\ socket[e] \in {"dialling", "open"}
      /\ master' = [master EXCEPT ![e] = "left"]
      /\ toMaster' = [toMaster EXCEPT ![e] = <<>>]
      /\ UNCHANGED <<remembered, executed>>
  BY DEF Error, Waiting, Inv
<1>2. /\ master' \in [Exchanges -> {"backlog", "serving", "left"}]
      /\ toMaster' \in [Exchanges -> Seq(Int)]
      /\ toMaster'[e] = <<>>
      /\ \A d \in Exchanges \ {e} : master'[d] = master[d] /\ toMaster'[d] = toMaster[d]
  BY <1>1 DEF Typed
<1> QED
  BY <1>1, <1>2, FailInv

LEMMA PartInv ==
  ASSUME Inv, NEW e \in Exchanges, Part(e)
  PROVE  Inv'
<1>1. PICK n \in Nat :
           /\ n = Len(results[e]) /\ n < Lines(e)
           /\ \A i \in 1 .. n : results[e][i] = i
           /\ \/ executed[e] = n /\ toBridge[e] \in {<<>>, <<Busy>>} /\ held[e] = Failed
              \/ /\ executed[e] = n + 1 /\ toMaster[e] = <<>>
                 /\ \/ toBridge[e] = <<n + 1>> /\ held[e] = Failed
                    \/ toBridge[e] = <<-(n + 1)>> /\ held[e] = Failed /\ master[e] = "left"
                    \/ toBridge[e] = <<>> /\ held[e] = -(n + 1) /\ master[e] = "left"
  BY TalkingIs DEF Part, Chunk
<1>2. /\ Typed /\ InStage(e) /\ socket[e] = "open"
      /\ toBridge[e] # <<>> /\ Head(toBridge[e]) < 0 /\ Head(toBridge[e]) # Busy
      /\ toBridge' = [toBridge EXCEPT ![e] = Tail(@)]
      /\ held' = [held EXCEPT ![e] = Head(toBridge[e])]
      /\ UNCHANGED <<http, socket, results, remembered, master, toMaster, executed>>
  BY DEF Inv, Part, Chunk, Read
<1>3. /\ executed[e] = n + 1 /\ toMaster[e] = <<>>
      /\ toBridge[e] = <<-(n + 1)>> /\ master[e] = "left"
  BY <1>1, <1>2 DEF Busy
<1>4. toBridge'[e] = <<>> /\ held'[e] = -(n + 1) /\ -(n + 1) \in Int
  BY <1>2, <1>3 DEF Typed
<1>5. Typed'
  <2>1. /\ toBridge' = [toBridge EXCEPT ![e] = <<>>] /\ <<>> \in Seq(Int)
        /\ held' = [held EXCEPT ![e] = -(n + 1)]
    BY <1>2, <1>3, <1>4
  <2> QED
    BY <1>2, <1>4, <2>1 DEF Typed
<1>6. InStage(e)'
  <2>1. Talking(e)'
    BY <1>1, <1>2, <1>3, <1>4 DEF Talking, Lines
  <2>2. OneLineOut(e)'
    <3>1. executed'[e] <= Lines(e)'
      BY <1>2 DEF InStage, OneLineOut, Lines
    <3> QED
      BY <1>2, <1>3, <1>4, <3>1 DEF OneLineOut
  <2> QED
    BY <1>2, <2>1, <2>2 DEF InStage
<1> QED
  BY <1>2, <1>5, <1>6, OneExchange DEF Typed

\* A connection the master closes: a single command may report the part of a
\* reply it holds, everything else fails.
LEMMA ClosedInv ==
  ASSUME Inv, NEW e \in Exchanges, Closed(e)
  PROVE  Inv'
<1>1. /\ Typed /\ InTurn /\ InStage(e) /\ socket[e] = "open"
      /\ UNCHANGED <<remembered, master, toMaster, executed>>
  BY DEF Inv, Closed, Waiting
<1>2. CASE ~(held[e] # Failed /\ e[1] \notin Listings)
  <2>1. Fail(e)
    BY <1>2 DEF Closed
  <2> QED
    BY <1>1, <2>1, FailInv DEF Typed
<1>3. CASE held[e] # Failed /\ e[1] \notin Listings
  <2>1. PICK n \in Nat :
           /\ n = Len(results[e]) /\ n < Lines(e)
           /\ \A i \in 1 .. n : results[e][i] = i
           /\ \/ executed[e] = n /\ toBridge[e] \in {<<>>, <<Busy>>} /\ held[e] = Failed
              \/ /\ executed[e] = n + 1 /\ toMaster[e] = <<>>
                 /\ \/ toBridge[e] = <<n + 1>> /\ held[e] = Failed
                    \/ toBridge[e] = <<-(n + 1)>> /\ held[e] = Failed /\ master[e] = "left"
                    \/ toBridge[e] = <<>> /\ held[e] = -(n + 1) /\ master[e] = "left"
    BY <1>1, TalkingIs
  <2>2. Lines(e) = 1 /\ n = 0 /\ executed[e] = 1 /\ held[e] = -1 /\ results[e] = <<>>
    BY <1>1, <1>3, <2>1 DEF Lines, Typed
  <2>3. PICK rows \in Seq(Int) : rows = <<-1>>
    <3>1. <<-1>> \in Seq(Int)
      OBVIOUS
    <3> QED
      BY <3>1
  <2>4. Finish(e, rows)
    BY <1>3, <2>2, <2>3 DEF Closed
  <2>5. results[e] \o rows = <<-1>>
    BY <2>2, <2>3
  <2>6. results'[e] = <<-1>>
    BY <1>1, <2>4, <2>5, Finishing
  <2>7. Reported(e, 1)'
    BY <1>1, <2>2, <2>6 DEF Reported, Lines
  <2>8. e \notin remembered
    BY <1>1 DEF InStage
  <2>9. Len(results[e] \o rows) = Lines(e) /\ 1 \in 0 .. Lines(e)
    BY <2>2, <2>5
  <2> QED
    BY <1>1, <2>4, <2>7, <2>8, <2>9, FinishInv DEF Typed
<1> QED
  BY <1>2, <1>3
-----------------------------------------------------------------------------
\* A connection the master has not left, or that carries lines for it, is one
\* of these.
LEMMA MasterSide ==
  ASSUME Inv, NEW e \in Exchanges, socket[e] # "none", master[e] # "left"
  PROVE  /\ toBridge[e] # <<Busy>>
         /\ \/ socket[e] = "dialling" /\ Fresh(e) /\ toBridge[e] = <<>>
            \/ /\ socket[e] = "open" /\ Talking(e) /\ held[e] = Failed
               /\ \/ executed[e] = Len(results[e]) /\ toBridge[e] = <<>>
                  \/ /\ executed[e] = Len(results[e]) + 1 /\ toMaster[e] = <<>>
                     /\ toBridge[e] = <<Len(results[e]) + 1>>
            \/ socket[e] = "destroyed" /\ Over(e) /\ toBridge[e] = <<>>
<1>1. Typed /\ InStage(e)
  BY DEF Inv
<1>2. toBridge[e] # <<Busy>>
  BY <1>1 DEF InStage, OneLineOut
<1>3. socket[e] \in {"dialling", "open", "destroyed"}
  BY <1>1 DEF Typed
<1>4. CASE socket[e] = "open"
  BY <1>1, <1>2, <1>4 DEF InStage, Talking
<1> QED
  BY <1>1, <1>2, <1>3, <1>4 DEF InStage, Fresh, Over

LEMMA AdmitInv ==
  ASSUME Inv, NEW e \in Exchanges, Admit(e)
  PROVE  Inv'
<1>1. /\ Typed /\ InStage(e) /\ socket[e] # "none" /\ master[e] = "backlog"
      /\ master' = [master EXCEPT ![e] = "serving"]
      /\ UNCHANGED <<http, socket, results, held, remembered, toMaster, toBridge, executed>>
  BY DEF Inv, Admit, Dialled, bridge
<1>2. master'[e] = "serving" /\ \A d \in Exchanges \ {e} : master'[d] = master[d]
  BY <1>1 DEF Typed
<1>3. Typed'
  BY <1>1 DEF Typed
<1>4. OneLineOut(e)'
  BY <1>1, <1>2, MasterSide DEF OneLineOut, InStage, Lines
<1>5. InStage(e)'
  <2>1. CASE socket[e] = "dialling"
    BY <1>1, <1>2, <1>4, <2>1 DEF InStage, Fresh
  <2>2. CASE socket[e] = "open"
    <3>1. Talking(e)'
      BY <1>1, <1>2, <2>2 DEF InStage, Talking, Lines
    <3> QED
      BY <1>1, <1>2, <1>4, <2>2, <3>1 DEF InStage
  <2>3. CASE socket[e] = "destroyed"
    <3>1. Over(e)'
      BY <1>1, <1>2, <2>3 DEF InStage, Over, Reported, Lines
    <3> QED
      BY <1>1, <1>2, <1>4, <2>3, <3>1 DEF InStage, Lines
  <2> QED
    BY <1>1, <2>1, <2>2, <2>3 DEF Typed
<1> QED
  BY <1>1, <1>2, <1>3, <1>5, OneExchange

\* A connection the master refuses has heard nothing before.
LEMMA RefuseInv ==
  ASSUME Inv, NEW e \in Exchanges, Refuse(e)
  PROVE  Inv'
<1>1. /\ Typed /\ InStage(e) /\ socket[e] # "none" /\ master[e] = "backlog"
      /\ toBridge[e] = <<>>
      /\ master' = [master EXCEPT ![e] = "left"]
      /\ toBridge' = [toBridge EXCEPT ![e] = Append(@, Busy)]
      /\ UNCHANGED <<http, socket, results, held, remembered, toMaster, executed>>
  BY DEF Inv, Refuse, Dialled, bridge, InStage, OneLineOut
<1>2. /\ master'[e] = "left" /\ toBridge'[e] = <<Busy>>
      /\ \A d \in Exchanges \ {e} : master'[d] = master[d] /\ toBridge'[d] = toBridge[d]
  BY <1>1 DEF Typed
<1>3. Typed'
  <2>1. toBridge' = [toBridge EXCEPT ![e] = <<Busy>>] /\ <<Busy>> \in Seq(Int)
    BY <1>1 DEF Busy, Typed
  <2> QED
    BY <1>1, <2>1 DEF Typed
<1>4. OneLineOut(e)'
  BY <1>1, <1>2 DEF OneLineOut, InStage, Lines
<1>5. InStage(e)'
  <2>1. CASE socket[e] = "dialling"
    BY <1>1, <1>2, <1>4, <2>1 DEF InStage, Fresh
  <2>2. CASE socket[e] = "open"
    <3>1. executed[e] = Len(results[e]) /\ held[e] = Failed /\ Talking(e)
      BY <1>1, <2>2, MasterSide
    <3>2. Talking(e)'
      BY <1>1, <1>2, <3>1 DEF Talking, Lines
    <3> QED
      BY <1>1, <1>2, <1>4, <2>2, <3>2 DEF InStage
  <2>3. CASE socket[e] = "destroyed"
    <3>1. Over(e)'
      BY <1>1, <1>2, <2>3 DEF InStage, Over, Reported, Lines
    <3> QED
      BY <1>1, <1>2, <1>4, <2>3, <3>1 DEF InStage, Lines
  <2> QED
    BY <1>1, <2>1, <2>2, <2>3 DEF Typed
<1> QED
  BY <1>1, <1>2, <1>3, <1>5, OneExchange

\* The master takes the handshake ...
LEMMA HandshakeInv ==
  ASSUME Inv, NEW e \in Exchanges, Serve(e), Head(toMaster[e]) = Hello
  PROVE  Inv'
<1>1. /\ Typed /\ InStage(e) /\ master[e] = "serving" /\ toMaster[e] # <<>>
      /\ toMaster' = [toMaster EXCEPT ![e] = Tail(@)]
      /\ UNCHANGED <<http, socket, results, held, remembered, master, toBridge, executed>>
  BY DEF Inv, Serve, bridge
<1>2. /\ executed[e] \in Nat /\ executed[e] < Lines(e) /\ socket[e] # "none"
      /\ toMaster[e] = <<Hello, executed[e] + 1>>
  BY <1>1 DEF InStage, OneLineOut, Typed, Hello
<1>3. /\ toMaster'[e] = <<executed[e] + 1>>
      /\ \A d \in Exchanges \ {e} : toMaster'[d] = toMaster[d]
  BY <1>1, <1>2 DEF Typed
<1>4. Typed'
  <2>1. /\ toMaster' = [toMaster EXCEPT ![e] = <<executed[e] + 1>>]
        /\ <<executed[e] + 1>> \in Seq(Int)
    BY <1>1, <1>2
  <2> QED
    BY <1>1, <2>1 DEF Typed
<1>5. OneLineOut(e)'
  BY <1>1, <1>2, <1>3 DEF OneLineOut, InStage, Lines
<1>6. InStage(e)'
  <2>1. socket[e] # "dialling"
    BY <1>1 DEF InStage, Fresh
  <2>2. CASE socket[e] = "open"
    <3>1. Talking(e)'
      BY <1>1, <2>2 DEF InStage, Talking, Lines
    <3> QED
      BY <1>1, <1>5, <2>2, <3>1 DEF InStage
  <2>3. CASE socket[e] = "destroyed"
    <3>1. Over(e)'
      BY <1>1, <2>3 DEF InStage, Over, Reported, Lines
    <3> QED
      BY <1>1, <1>5, <2>3, <3>1 DEF InStage, Lines
  <2> QED
    BY <1>1, <1>2, <2>1, <2>2, <2>3 DEF Typed
<1> QED
  BY <1>1, <1>3, <1>4, <1>6, OneExchange

\* ... and a command, which it carries out and replies to.
LEMMA CommandInv ==
  ASSUME Inv, NEW e \in Exchanges, Serve(e), Head(toMaster[e]) # Hello
  PROVE  Inv'
<1>1. /\ Typed /\ InStage(e) /\ master[e] = "serving" /\ toMaster[e] # <<>>
      /\ toMaster' = [toMaster EXCEPT ![e] = Tail(@)]
      /\ toBridge' = IF socket[e] = "destroyed" THEN toBridge
                      ELSE [toBridge EXCEPT ![e] = Append(@, Head(toMaster[e]))]
      /\ executed' = [executed EXCEPT ![e] = @ + 1]
      /\ UNCHANGED <<http, socket, results, held, remembered, master>>
  BY DEF Inv, Serve, bridge
<1>2. PICK x \in Nat : x = executed[e]
  BY <1>1 DEF Typed
<1>3. /\ x < Lines(e) /\ socket[e] # "none" /\ Lines(e) \in Nat
      /\ toMaster[e] = <<x + 1>>
  BY <1>1, <1>2, LinesType DEF InStage, OneLineOut, Typed, Hello
<1>4. /\ toMaster'[e] = <<>> /\ executed'[e] = x + 1
      /\ \A d \in Exchanges \ {e} : /\ toMaster'[d] = toMaster[d] /\ executed'[d] = executed[d]
                                    /\ toBridge'[d] = toBridge[d]
  BY <1>1, <1>2, <1>3 DEF Typed
<1>5. toBridge[e] \in Seq(Int) /\ Head(toMaster[e]) = x + 1
  BY <1>1, <1>3 DEF Typed
<1>6. Typed'
  <2>1. /\ toMaster' = [toMaster EXCEPT ![e] = <<>>] /\ <<>> \in Seq(Int)
        /\ executed' = [executed EXCEPT ![e] = x + 1]
    BY <1>1, <1>2, <1>3
  <2>2. toBridge' \in [Exchanges -> Seq(Int)]
    <3>1. Append(toBridge[e], x + 1) \in Seq(Int)
      BY <1>5
    <3> QED
      BY <1>1, <1>5, <3>1 DEF Typed
  <2> QED
    BY <1>1, <2>1, <2>2 DEF Typed
<1>7. socket[e] # "dialling"
  BY <1>1 DEF InStage, Fresh
<1>8. CASE socket[e] = "open"
  <2>1. Talking(e) /\ held[e] = Failed /\ x = Len(results[e]) /\ toBridge[e] = <<>>
    BY <1>1, <1>2, <1>3, <1>8, MasterSide
  <2>2. toBridge'[e] = <<x + 1>>
    BY <1>1, <1>5, <1>8, <2>1 DEF Typed
  <2>3. Talking(e)'
    BY <1>1, <1>4, <2>1, <2>2 DEF Talking, Lines
  <2>4. OneLineOut(e)'
    BY <1>1, <1>3, <1>4, <2>2 DEF OneLineOut, Busy, Lines
  <2>5. InStage(e)'
    BY <1>1, <1>8, <2>3, <2>4 DEF InStage
  <2> QED
    BY <1>1, <1>4, <1>6, <2>5, OneExchange
<1>9. CASE socket[e] = "destroyed"
  <2>1. Over(e) /\ toBridge[e] = <<>> /\ toBridge' = toBridge
    BY <1>1, <1>9, MasterSide
  <2>2. PICK k \in 0 .. Lines(e) : Reported(e, k)
    BY <2>1 DEF Over
  <2>3. x = k
    BY <1>2, <1>3, <2>2 DEF Reported
  <2>4. Reported(e, k)'
    BY <1>1, <1>4, <2>2, <2>3 DEF Reported, Lines
  <2>5. Over(e)'
    BY <1>1, <2>1, <2>2, <2>4 DEF Over, Lines
  <2>6. OneLineOut(e)'
    <3>1. executed'[e] <= Lines(e)'
      BY <1>3, <1>4 DEF Lines
    <3>2. toMaster'[e] = <<>> /\ toBridge'[e] = <<>> /\ master'[e] = "serving"
      BY <1>1, <1>4, <2>1
    <3>3. <<>> # <<Busy>>
      OBVIOUS
    <3> QED
      BY <3>1, <3>2, <3>3 DEF OneLineOut
  <2>7. e \notin remembered
    <3>1. e \in remembered => Lines(e) = 1 /\ executed[e] = 1
      BY <1>1 DEF InStage
    <3> QED
      BY <1>2, <1>3, <3>1
  <2>8. InStage(e)'
    BY <1>1, <1>9, <2>5, <2>6, <2>7 DEF InStage
  <2> QED
    BY <1>1, <1>4, <1>6, <2>8, OneExchange
<1> QED
  BY <1>1, <1>3, <1>7, <1>8, <1>9 DEF Typed

LEMMA GoneInv ==
  ASSUME Inv, NEW e \in Exchanges, Gone(e)
  PROVE  Inv'
<1>1. /\ Typed /\ InStage(e) /\ socket[e] = "destroyed" /\ master[e] = "serving"
      /\ master' = [master EXCEPT ![e] = "left"]
      /\ toMaster' = [toMaster EXCEPT ![e] = <<>>]
      /\ UNCHANGED <<http, socket, results, held, remembered, toBridge, executed>>
  BY DEF Inv, Gone, bridge
<1>2. /\ master'[e] = "left" /\ toMaster'[e] = <<>>
      /\ \A d \in Exchanges \ {e} : master'[d] = master[d] /\ toMaster'[d] = toMaster[d]
  BY <1>1 DEF Typed
<1>3. Typed'
  <2>1. <<>> \in Seq(Int)
    OBVIOUS
  <2> QED
    BY <1>1, <2>1 DEF Typed
<1>4. Over(e)'
  BY <1>1, <1>2 DEF InStage, Over, Reported, Lines
<1>5. OneLineOut(e)'
  BY <1>1, <1>2 DEF OneLineOut, InStage, Lines
<1>6. InStage(e)'
  BY <1>1, <1>4, <1>5 DEF InStage, Lines
<1> QED
  BY <1>1, <1>2, <1>3, <1>6, OneExchange

\* The master dies: the line it was sent is lost, or the reply, or a part of it.
LEMMA DieInv ==
  ASSUME Inv, NEW e \in Exchanges, Die(e)
  PROVE  Inv'
<1>1. /\ Typed /\ InStage(e) /\ socket[e] # "none" /\ master[e] # "left"
      /\ master' = [master EXCEPT ![e] = "left"]
      /\ toMaster' = [toMaster EXCEPT ![e] = <<>>]
      /\ UNCHANGED <<http, socket, results, held, remembered, executed>>
      /\ \/ UNCHANGED toBridge
         \/ /\ toBridge[e] # <<>>
            /\ toBridge' = [toBridge EXCEPT ![e] = Append(Front(@), -Last(@))]
  BY DEF Inv, Die, Dialled, bridge, InStage
<1>2. /\ master'[e] = "left" /\ toMaster'[e] = <<>>
      /\ \A d \in Exchanges \ {e} : /\ master'[d] = master[d] /\ toMaster'[d] = toMaster[d]
                                    /\ toBridge'[d] = toBridge[d]
  BY <1>1 DEF Typed
<1>3. OneLineOut(e)'
  BY <1>1, <1>2 DEF OneLineOut, InStage, Lines
<1>4. /\ master' \in [Exchanges -> {"backlog", "serving", "left"}]
      /\ toMaster' \in [Exchanges -> Seq(Int)]
  <2>1. <<>> \in Seq(Int)
    OBVIOUS
  <2> QED
    BY <1>1, <2>1 DEF Typed
<1>5. CASE UNCHANGED toBridge
  <2>1. Typed'
    BY <1>1, <1>4, <1>5 DEF Typed
  <2>2. InStage(e)'
    <3>1. CASE socket[e] = "dialling"
      BY <1>1, <1>2, <1>3, <1>5, <3>1 DEF InStage, Fresh
    <3>2. CASE socket[e] = "open"
      <4>1. Talking(e)'
        BY <1>1, <1>2, <1>5, <3>2 DEF InStage, Talking, Lines
      <4> QED
        BY <1>1, <1>2, <1>3, <3>2, <4>1 DEF InStage
    <3>3. CASE socket[e] = "destroyed"
      <4>1. Over(e)'
        BY <1>1, <1>2, <1>5, <3>3 DEF InStage, Over, Reported, Lines
      <4> QED
        BY <1>1, <1>2, <1>3, <3>3, <4>1 DEF InStage, Lines
    <3> QED
      BY <1>1, <3>1, <3>2, <3>3 DEF Typed
  <2> QED
    BY <1>1, <1>2, <2>1, <2>2, OneExchange
<1>6. CASE /\ toBridge[e] # <<>>
           /\ toBridge' = [toBridge EXCEPT ![e] = Append(Front(@), -Last(@))]
  <2>1. PICK n \in Nat : n = Len(results[e])
    BY <1>1 DEF Typed
  <2>2. /\ socket[e] = "open" /\ Talking(e) /\ held[e] = Failed
        /\ executed[e] = n + 1 /\ toBridge[e] = <<n + 1>>
    BY <1>1, <1>6, <2>1, MasterSide
  <2>3. Append(Front(<<n + 1>>), -Last(<<n + 1>>)) = <<-(n + 1)>>
    <3>1. PICK s \in Seq(Nat) : s = <<n + 1>>
      <4>1. <<n + 1>> \in Seq(Nat)
        OBVIOUS
      <4> QED
        BY <4>1
    <3>2. Len(s) = 1 /\ s[1] = n + 1
      BY <3>1
    <3>3. SubSeq(s, 1, Len(s) - 1) = <<>>
      BY <3>2
    <3>4. Front(s) = <<>> /\ Last(s) = n + 1
      BY <3>2, <3>3 DEF Front, Last
    <3>5. Append(<<>>, -(n + 1)) = <<-(n + 1)>>
      OBVIOUS
    <3> QED
      BY <3>1, <3>4, <3>5
  <2>4. toBridge' = [toBridge EXCEPT ![e] = <<-(n + 1)>>] /\ <<-(n + 1)>> \in Seq(Int)
    <3>1. <<-(n + 1)>> \in Seq(Int)
      OBVIOUS
    <3>2. toBridge' = [toBridge EXCEPT ![e] = Append(Front(toBridge[e]), -Last(toBridge[e]))]
      BY <1>6
    <3> QED
      BY <2>2, <2>3, <3>1, <3>2
  <2>5. toBridge'[e] = <<-(n + 1)>>
    BY <1>1, <2>4 DEF Typed
  <2>6. Typed'
    BY <1>1, <1>4, <2>4 DEF Typed
  <2>7. Talking(e)'
    BY <1>1, <1>2, <2>1, <2>2, <2>5 DEF Talking, Lines
  <2>8. InStage(e)'
    BY <1>1, <1>2, <1>3, <2>2, <2>7 DEF InStage
  <2> QED
    BY <1>1, <1>2, <2>6, <2>8, OneExchange
<1> QED
  BY <1>1, <1>5, <1>6
-----------------------------------------------------------------------------
LEMMA NextInv == Inv /\ [Next]_vars => Inv'
<1> SUFFICES ASSUME Inv, [Next]_vars PROVE Inv'
  OBVIOUS
<1>1. CASE \E q \in Requests : Request(q) \/ Rejected(q) \/ EmptyCommand(q) \/ Begin(q)
  BY <1>1, RequestInv, BeginInv
<1>2. CASE \E e \in Exchanges : Connected(e) \/ Reply(e) \/ Refused(e) \/ Part(e)
  BY <1>2, ConnectedInv, LastReplyInv, NextLineInv, RefusedInv, PartInv
<1>3. CASE \E e \in Exchanges : Timeout(e) \/ Error(e) \/ Closed(e)
  BY <1>3, RefusedInv, ErrorInv, ClosedInv
<1>4. CASE \E e \in Exchanges : Admit(e) \/ Refuse(e) \/ Serve(e) \/ Gone(e) \/ Die(e)
  BY <1>4, AdmitInv, RefuseInv, HandshakeInv, CommandInv, GoneInv, DieInv
<1>5. CASE UNCHANGED vars
  <2>1. /\ Typed /\ InTurn /\ \A d \in Exchanges : InStage(d)
        /\ UNCHANGED <<http, socket, results, held, remembered, master, toMaster, toBridge, executed>>
    BY <1>5 DEF Inv, vars, bridge, wire
  <2>2. Typed'
    BY <2>1 DEF Typed
  <2>3. InTurn'
    BY <2>1 DEF InTurn
  <2>4. \A d \in Exchanges : InStage(d)'
    BY <2>1, Untouched
  <2> QED
    BY <2>2, <2>3, <2>4 DEF Inv
<1> QED
  BY <1>1, <1>2, <1>3, <1>4, <1>5 DEF Next

\* The invariant holds in every reachable state.
THEOREM Invariance == Spec => []Inv
BY InitInv, NextInv, PTL DEF Spec

LEMMA TypesOfExchange ==
  ASSUME Inv, NEW e \in Exchanges
  PROVE  /\ executed[e] \in 0 .. Lines(e)
         /\ Len(results[e]) <= Lines(e)
         /\ toMaster[e] \in Seq(0 .. Lines(e))
         /\ toBridge[e] \in Seq((-Lines(e) .. Lines(e)) \cup {Busy})
         /\ held[e] \in -Lines(e) .. 0
<1>1. Typed /\ InStage(e) /\ Lines(e) \in Nat \ {0}
  BY LinesType DEF Inv
<1>2. executed[e] \in 0 .. Lines(e)
  BY <1>1 DEF Typed, InStage, OneLineOut
<1>3. toMaster[e] \in Seq(0 .. Lines(e))
  <2>1. CASE toMaster[e] = <<>>
    BY <2>1
  <2>2. PICK x \in Nat : x = executed[e]
    BY <1>2
  <2>3. CASE toMaster[e] # <<>>
    <3>1. x < Lines(e) /\ toMaster[e] \in {<<0, x + 1>>, <<x + 1>>}
      BY <1>1, <2>2, <2>3 DEF InStage, OneLineOut, Hello
    <3>2. x + 1 \in 0 .. Lines(e) /\ 0 \in 0 .. Lines(e)
      BY <1>1, <3>1
    <3>3. <<0, x + 1>> \in Seq(0 .. Lines(e)) /\ <<x + 1>> \in Seq(0 .. Lines(e))
      BY <3>2
    <3> QED
      BY <3>1, <3>3
  <2> QED
    BY <2>1, <2>3
<1> DEFINE Heard == (-Lines(e) .. Lines(e)) \cup {Busy}
<1>4. <<>> \in Seq(Heard) /\ <<Busy>> \in Seq(Heard)
  <2>1. Busy \in Heard
    OBVIOUS
  <2> HIDE DEF Heard
  <2> QED
    BY <2>1
<1>5. ASSUME NEW x \in -Lines(e) .. Lines(e)
      PROVE  <<x>> \in Seq(Heard)
  <2>1. x \in Heard
    OBVIOUS
  <2> HIDE DEF Heard
  <2> QED
    BY <2>1
<1> HIDE DEF Heard
<1> DEFINE Rest == /\ Len(results[e]) <= Lines(e)
                   /\ toBridge[e] \in Seq(Heard)
                   /\ held[e] \in -Lines(e) .. 0
<1>6. ASSUME socket[e] \in {"none", "dialling"} PROVE Rest
  <2>1. /\ Len(results[e]) = 0 /\ toBridge[e] \in {<<>>, <<Busy>>} /\ held[e] = 0
    BY <1>1, <1>6 DEF InStage, Fresh, Failed
  <2>2. 0 <= Lines(e) /\ 0 \in -Lines(e) .. 0
    BY <1>1
  <2> QED
    BY <1>4, <2>1, <2>2
<1>7. ASSUME socket[e] = "open" PROVE Rest
  <2>1. PICK n \in Nat :
           /\ n = Len(results[e]) /\ n < Lines(e)
           /\ \A i \in 1 .. n : results[e][i] = i
           /\ \/ executed[e] = n /\ toBridge[e] \in {<<>>, <<Busy>>} /\ held[e] = Failed
              \/ /\ executed[e] = n + 1 /\ toMaster[e] = <<>>
                 /\ \/ toBridge[e] = <<n + 1>> /\ held[e] = Failed
                    \/ toBridge[e] = <<-(n + 1)>> /\ held[e] = Failed /\ master[e] = "left"
                    \/ toBridge[e] = <<>> /\ held[e] = -(n + 1) /\ master[e] = "left"
    BY <1>7, TalkingIs
  <2>2. n + 1 \in -Lines(e) .. Lines(e) /\ -(n + 1) \in -Lines(e) .. 0
    BY <1>1, <2>1
  <2>3. -(n + 1) \in -Lines(e) .. Lines(e)
    BY <1>1, <2>1
  <2>4. <<n + 1>> \in Seq(Heard) /\ <<-(n + 1)>> \in Seq(Heard)
    BY <1>5, <2>2, <2>3
  <2>5. toBridge[e] \in Seq(Heard)
    BY <1>4, <2>1, <2>4
  <2>6. held[e] \in -Lines(e) .. 0
    BY <1>1, <2>1, <2>2 DEF Failed
  <2> QED
    BY <1>1, <2>1, <2>5, <2>6
<1>8. ASSUME socket[e] = "destroyed" PROVE Rest
  <2>1. /\ Len(results[e]) = Lines(e) /\ toBridge[e] \in {<<>>, <<Busy>>} /\ held[e] = 0
    BY <1>1, <1>8 DEF InStage, Over, Failed
  <2>2. Lines(e) <= Lines(e) /\ 0 \in -Lines(e) .. 0
    BY <1>1
  <2> QED
    BY <1>4, <2>1, <2>2
<1>9. socket[e] \in {"none", "dialling", "open", "destroyed"}
  BY <1>1 DEF Typed
<1>10. Rest
  BY <1>6, <1>7, <1>8, <1>9
<1> QED
  BY <1>2, <1>3, <1>10 DEF Heard

\* The variables have their types: no more is reported than was asked, and
\* the master carries out no line it was not sent or one twice (server.js,
\* sendTcpCommand and sendTcpBatch).
THEOREM TypeCorrect == Spec => []TypeOK
<1>1. Inv => TypeOK
  BY TypesOfExchange DEF Inv, Typed, TypeOK
<1> QED
  BY <1>1, Invariance, PTL

LEMMA Backed ==
  ASSUME NEW s \in Seq(Int), NEW k \in 0 .. Len(s),
         \A i \in 1 .. k : s[i] \in {i, -i},
         \A i \in k + 1 .. Len(s) : s[i] = Failed
  PROVE  LET Ok == {i \in DOMAIN s : s[i] # Failed} IN Ok = 1 .. k /\ Cardinality(Ok) = k
<1> DEFINE Ok == {i \in DOMAIN s : s[i] # Failed}
<1>1. DOMAIN s = 1 .. Len(s) /\ Len(s) \in Nat /\ k \in Nat
  OBVIOUS
<1>2. ASSUME NEW i \in 1 .. k PROVE i \in Ok
  BY <1>1, <1>2 DEF Failed
<1>3. ASSUME NEW i \in Ok PROVE i \in 1 .. k
  <2>1. i \in 1 .. Len(s) /\ i \notin k + 1 .. Len(s)
    BY <1>1, <1>3
  <2> QED
    BY <1>1, <2>1
<1>4. Ok = 1 .. k
  BY <1>2, <1>3
<1>5. Cardinality(1 .. k) = k
  BY <1>1, FS_Interval
<1> QED
  BY <1>4, <1>5

LEMMA ReportTrue ==
  ASSUME Inv, NEW e \in Exchanges
  PROVE  LET Ok == {i \in DOMAIN results[e] : results[e][i] # Failed}
         IN /\ \A i \in Ok : results[e][i] \in {i, -i} /\ i <= executed[e]
            /\ e \in remembered => executed[e] = 1
            /\ executed[e] <= Cardinality(Ok) + 1
<1>1. /\ Typed /\ InStage(e) /\ results[e] \in Seq(Int) /\ executed[e] \in Nat
      /\ Lines(e) \in Nat \ {0}
  BY LinesType DEF Inv, Typed
<1>2. \E k \in 0 .. Len(results[e]) :
        /\ \A i \in 1 .. k : results[e][i] \in {i, -i}
        /\ \A i \in k + 1 .. Len(results[e]) : results[e][i] = Failed
        /\ executed[e] \in {k, k + 1}
  <2>1. CASE socket[e] \in {"none", "dialling"}
    <3>1. results[e] = <<>> /\ executed[e] = 0
      BY <1>1, <2>1 DEF InStage, Fresh
    <3> QED
      BY <3>1
  <2>2. CASE socket[e] = "open"
    <3>1. PICK n \in Nat : /\ n = Len(results[e])
                           /\ \A i \in 1 .. n : results[e][i] = i
                           /\ executed[e] \in {n, n + 1}
      BY <2>2, TalkingIs
    <3>2. n \in 0 .. Len(results[e]) /\ \A i \in n + 1 .. Len(results[e]) : FALSE
      BY <3>1
    <3> QED
      BY <3>1, <3>2
  <2>3. CASE socket[e] = "destroyed"
    BY <1>1, <2>3 DEF InStage, Over, Reported
  <2> QED
    BY <1>1, <2>1, <2>2, <2>3 DEF Typed
<1>3. PICK k \in 0 .. Len(results[e]) :
        /\ \A i \in 1 .. k : results[e][i] \in {i, -i}
        /\ \A i \in k + 1 .. Len(results[e]) : results[e][i] = Failed
        /\ executed[e] \in {k, k + 1}
  BY <1>2
<1> DEFINE Ok == {i \in DOMAIN results[e] : results[e][i] # Failed}
<1>4. Ok = 1 .. k /\ Cardinality(Ok) = k
  BY <1>1, <1>3, Backed
<1>5. e \in remembered => executed[e] = 1
  BY <1>1 DEF InStage
<1> HIDE DEF Ok
<1>6. k \in Nat
  BY <1>1, <1>3
<1>7. \A i \in Ok : results[e][i] \in {i, -i} /\ i <= executed[e]
  <2>1. k <= executed[e] /\ executed[e] \in Int
    BY <1>3, <1>6
  <2>2. \A i \in 1 .. k : i <= executed[e]
    BY <1>6, <2>1
  <2> QED
    BY <1>3, <1>4, <2>2
<1>8. executed[e] <= Cardinality(Ok) + 1
  BY <1>1, <1>3, <1>4, <1>6
<1> QED
  BY <1>5, <1>7, <1>8 DEF Ok

\* A result that is ok is the reply to its own line, which the master has
\* carried out; a remembered write was carried out; and at most the line that
\* was waited for last was carried out without being reported (server.js,
\* sendTcpCommand, sendTcpBatch and rememberCommand).
THEOREM ReportsBacked == Spec => []ReportsTrue
<1>1. Inv => ReportsTrue
  BY ReportTrue DEF ReportsTrue
<1> QED
  BY <1>1, Invariance, PTL
=============================================================================
