------------------------- MODULE HttpConnectionProofs -------------------------
(***************************************************************************)
(* Proofs about HttpConnection, for every set of requests and any number of *)
(* them: the worker and its client stay in step, the answers are those of    *)
(* RequestResponse, and a client that owes nothing is not given up.          *)
(***************************************************************************)
EXTENDS HttpConnection, FiniteSetTheorems, SequenceTheorems, TLAPS

------------------------------------------------------------------------------
(* The unread bytes: what is buffered, what is in the kernel, and what the   *)
(* client has still to send.                                                 *)

Left == Len(buf) + Len(wire)
Unit(j) == IF j <= Len(buf) THEN buf[j] ELSE wire[j - Len(buf)]

\* The unit the client sends next, and the unit the worker reads next.
SendId == IF owed > 0 THEN Len(reqs) ELSE Len(reqs) + 1
SendPlace == IF owed > 0 THEN reqs[Len(reqs)].body - owed + 1 ELSE 0
ReadId == IF Left > 0 THEN Unit(1).id ELSE SendId
ReadPlace == IF Left > 0 THEN Unit(1).place ELSE SendPlace

\* Unit k of request j comes next behind unit p of request i.
Behind(i, p, j, k) ==
  IF p < reqs[i].body THEN j = i /\ k = p + 1 ELSE j = i + 1 /\ k = 0

InStream(u) == u.id \in 1 .. Len(reqs) /\ u.place \in 0 .. reqs[u.id].body

\* What the client owes is a part of the body of its last request.
OwedOK == owed > 0 => reqs # <<>> /\ owed <= reqs[Len(reqs)].body

\* Nothing is missing from the stream, doubled or out of its place.
StreamOK ==
  /\ OwedOK
  /\ \A j \in 1 .. Left :
       /\ InStream(Unit(j))
       /\ j < Left => Behind(Unit(j).id, Unit(j).place,
                             Unit(j + 1).id, Unit(j + 1).place)
       /\ j = Left => Behind(Unit(j).id, Unit(j).place, SendId, SendPlace)

\* Of request i, n body units are unread and all that is behind them.
AtSpot(i, n) ==
  IF n = 0 THEN ReadId = i + 1 /\ ReadPlace = 0
           ELSE ReadId = i /\ ReadPlace = reqs[i].body - n + 1

------------------------------------------------------------------------------
(* The worker.                                                               *)

Reading == pc \notin {"websocket", "spin", "closed", "dead"}
Unanswered == pc \in {"body", "gateway", "appbody", "appwait", "respond"}

\* Header unit i has been read.
Passed(i) == i < ReadId \/ (i = ReadId /\ ReadPlace > 0)

\* A POST to /app whose body do_post() has already taken.
ReadTwice == cur.kind = "postapp" /\ cur.body > 0

KindOK ==
  /\ id > 0 => cur = reqs[id]
  /\ pc \in {"header", "drain"} => connected
  /\ pc = "body" => cur.kind \in {"post", "postapp"} /\ (cur.body > 0 => need > 0)
  /\ pc \in {"gateway", "appbody", "appwait"} => cur.kind \in {"app", "postapp"}
  /\ pc = "gateway" => (consumed <=> cur.kind = "postapp")
  /\ pc \in {"appbody", "appwait"} /\ cur.kind = "postapp" => consumed
  /\ pc \in {"appbody", "drain"} => need > 0
  /\ pc = "respond" =>
       /\ cur.kind = "sock" => status = "101"
       /\ cur.kind \in {"post", "postapp"} => consumed
  /\ Unanswered => cur.kind # "overlong"
  /\ pc = "drain" => cur.kind \notin {"sock", "overlong"}

\* How far the body of the request being served has been read.
Place ==
  connected /\ id > 0 =>
    /\ pc = "body" => AtSpot(id, need) /\ need <= cur.body
    /\ pc = "gateway" /\ ~ReadTwice =>
         AtSpot(id, IF consumed THEN 0 ELSE cur.body)
    /\ pc = "appbody" /\ ~ReadTwice => AtSpot(id, need) /\ need <= cur.body
    /\ pc = "appwait" /\ ~ReadTwice =>
         AtSpot(id, 0) /\ (consumed \/ cur.body = 0)
    /\ pc = "respond" =>
         IF consumed
         THEN \/ AtSpot(id, 0) \/ ReadTwice
              \/ cur.kind = "app" /\ cur.body > 1 /\ status = "502"
         ELSE AtSpot(id, cur.body)
    /\ pc = "drain" => AtSpot(id, need) /\ need <= cur.body

\* A request's own body is read to the end of a unit.
Clean ==
  connected /\ id > 0 /\ (pc \in {"body", "drain"} \/ (Unanswered /\ ~ReadTwice))
    => ~garbled

\* No header block is served twice or out of turn.
HeadsPassed ==
  Reading =>
    /\ id > 0 => Passed(id)
    /\ \A k \in 1 .. Len(responses) :
         responses[k].id > 0 => Passed(responses[k].id)

Rising ==
  /\ \A j, k \in 1 .. Len(responses) :
       j < k /\ responses[j].id > 0 /\ responses[k].id > 0
         => responses[j].id < responses[k].id
  /\ Unanswered /\ id > 0 =>
       \A k \in 1 .. Len(responses) : responses[k].id > 0 => responses[k].id < id

\* Only the last answer may have been the one that ends the connection.
Continuing ==
  /\ \A j, k \in 1 .. Len(responses) :
       j < k => ~EndsConnection(responses[j].req)
  /\ pc = "header" \/ Unanswered =>
       \A k \in 1 .. Len(responses) : ~EndsConnection(responses[k].req)
  /\ pc = "drain" => responses # <<>> /\ responses[Len(responses)].req = cur

\* In step, answer k is that of request k and the next one is being read.
Counting ==
  ~Desynchronised =>
    /\ pc = "header" => ~garbled
    /\ \A k \in 1 .. Len(responses) : responses[k].id = k
    /\ pc = "header" => ReadId = Len(responses) + 1 /\ ReadPlace = 0
    /\ Unanswered => id = Len(responses) + 1
    /\ pc = "drain" => id = Len(responses)

InStepPrefix ==
  /\ \E m \in 0 .. Len(responses) : InStep = 1 .. m
  /\ ~Desynchronised => InStep = 1 .. Len(responses)
  /\ \A k \in InStep : responses[k].id = k

IInv ==
  /\ TypeOK
  /\ OwedOK /\ (Reading => StreamOK)
  /\ KindOK /\ Place /\ Clean /\ HeadsPassed /\ Rising /\ Continuing
  /\ Counting
  /\ InStepPrefix

------------------------------------------------------------------------------
(* The stream.                                                               *)

USE RequestsAssumption

LEMMA StreamTyped ==
  ASSUME TypeOK
  PROVE  /\ Len(reqs) \in Nat /\ Len(buf) \in Nat /\ Len(wire) \in Nat
         /\ Left \in Nat /\ owed \in Nat
         /\ \A j \in 1 .. Len(buf) : buf[j] \in Units
         /\ \A j \in 1 .. Len(wire) : wire[j] \in Units
         /\ \A i \in 1 .. Len(reqs) : reqs[i] \in RequestRecords
<1>1. /\ reqs \in Seq(Requests) /\ buf \in Seq(Units) /\ wire \in Seq(Units)
      /\ owed \in Nat
  BY DEF TypeOK
<1>2. \A i \in 1 .. Len(reqs) : reqs[i] \in Requests
  BY <1>1
<1> QED
  BY <1>1, <1>2 DEF Left

LEMMA UnitTyped ==
  ASSUME TypeOK, NEW j \in 1 .. Left
  PROVE  Unit(j) \in Units /\ Unit(j).id \in Nat /\ Unit(j).place \in Nat
<1>1. Unit(j) \in Units
  <2>1. CASE j <= Len(buf)
    BY <2>1, StreamTyped DEF Unit, Left
  <2>2. CASE ~(j <= Len(buf))
    <3>1. j - Len(buf) \in 1 .. Len(wire)
      BY <2>2, StreamTyped DEF Left
    <3> QED
      BY <2>2, <3>1, StreamTyped DEF Unit
  <2> QED
    BY <2>1, <2>2
<1> QED
  BY <1>1 DEF Units

LEMMA SendTyped ==
  ASSUME TypeOK, StreamOK
  PROVE  SendId \in Nat /\ SendPlace \in Nat /\ SendId \in 1 .. Len(reqs) + 1
<1>1. CASE owed = 0
  BY <1>1, StreamTyped DEF SendId, SendPlace
<1>2. CASE owed > 0
  <2>1. Len(reqs) \in 1 .. Len(reqs)
    BY <1>2, StreamTyped DEF StreamOK, OwedOK
  <2>2. reqs[Len(reqs)].body \in Nat
    BY <2>1, StreamTyped DEF RequestRecords
  <2> QED
    BY <1>2, <2>1, <2>2, StreamTyped DEF SendId, SendPlace, StreamOK, OwedOK
<1> QED
  BY <1>1, <1>2, StreamTyped

LEMMA ReadTyped ==
  ASSUME TypeOK, StreamOK
  PROVE  /\ ReadId \in Nat /\ ReadPlace \in Nat
         /\ Left > 0 => /\ ReadId \in 1 .. Len(reqs)
                        /\ ReadPlace \in 0 .. reqs[ReadId].body
<1>1. CASE Left > 0
  <2>1. 1 \in 1 .. Left
    BY <1>1, StreamTyped
  <2>2. InStream(Unit(1)) /\ Unit(1).id \in Nat /\ Unit(1).place \in Nat
    BY <2>1, UnitTyped DEF StreamOK
  <2>3. ReadId = Unit(1).id /\ ReadPlace = Unit(1).place
    BY <1>1 DEF ReadId, ReadPlace
  <2> QED
    BY <2>2, <2>3 DEF InStream
<1>2. CASE ~(Left > 0)
  BY <1>2, SendTyped DEF ReadId, ReadPlace
<1> QED
  BY <1>1, <1>2

\* What Behind says moves the worker on, never back.
LEMMA PassedOn ==
  ASSUME TypeOK, StreamOK, NEW i \in Nat, Passed(i),
         \/ ReadId' = ReadId /\ ReadPlace' = ReadPlace
         \/ Behind(ReadId, ReadPlace, ReadId', ReadPlace')
  PROVE  Passed(i)'
BY ReadTyped DEF Passed, Behind

\* Nothing is sent or read.
LEMMA StreamSame ==
  ASSUME UNCHANGED <<reqs, owed, wire, buf>>
  PROVE  /\ StreamOK <=> StreamOK'
         /\ ReadId' = ReadId /\ ReadPlace' = ReadPlace
BY DEF StreamOK, OwedOK, ReadId, ReadPlace, SendId, SendPlace, Unit, Left,
       InStream, Behind

\* The worker reads a unit.
LEMMA Popped ==
  ASSUME TypeOK, StreamOK, buf # <<>>, buf' = Tail(buf),
         UNCHANGED <<wire, reqs, owed>>
  PROVE  /\ StreamOK'
         /\ Head(buf).id = ReadId /\ Head(buf).place = ReadPlace
         /\ ReadId \in 1 .. Len(reqs)
         /\ ReadPlace \in 0 .. reqs[ReadId].body
         /\ Behind(ReadId, ReadPlace, ReadId', ReadPlace')
<1>1. /\ Left \in Nat /\ Left > 0 /\ Left' = Left - 1
      /\ Len(buf) \in Nat \ {0} /\ Len(buf') = Len(buf) - 1
      /\ \A j \in 1 .. Len(buf') : buf'[j] = buf[j + 1]
      /\ Head(buf) = buf[1]
  <2>1. buf \in Seq(Units)
    BY DEF TypeOK
  <2>2. /\ Len(buf) \in Nat \ {0} /\ Len(buf') = Len(buf) - 1
        /\ \A j \in 1 .. Len(buf') : buf'[j] = buf[j + 1]
        /\ Head(buf) = buf[1]
    BY <2>1
  <2> QED
    BY <2>2, StreamTyped DEF Left
<1>2. \A j \in 1 .. Left' : Unit(j)' = Unit(j + 1)
  BY <1>1, StreamTyped DEF Unit, Left
<1>3. SendId' = SendId /\ SendPlace' = SendPlace
  BY DEF SendId, SendPlace
<1>4. Unit(1) = Head(buf) /\ ReadId = Unit(1).id /\ ReadPlace = Unit(1).place
  BY <1>1 DEF Unit, ReadId, ReadPlace
<1>5. Behind(ReadId, ReadPlace, ReadId', ReadPlace')
  <2>1. CASE Left = 1
    <3>1. ReadId' = SendId /\ ReadPlace' = SendPlace
      BY <2>1, <1>1, <1>3 DEF ReadId, ReadPlace
    <3> QED
      BY <2>1, <3>1, <1>1, <1>4 DEF StreamOK
  <2>2. CASE Left > 1
    <3>1. 1 \in 1 .. Left' /\ 1 + 1 = 2 /\ Left' > 0 /\ 1 \in 1 .. Left
      BY <2>2, <1>1
    <3>2. Unit(1)' = Unit(2)
      BY <3>1, <1>2
    <3>3. ReadId' = Unit(2).id /\ ReadPlace' = Unit(2).place
      BY <3>1, <3>2 DEF ReadId, ReadPlace
    <3>4. Behind(Unit(1).id, Unit(1).place, Unit(2).id, Unit(2).place)
      BY <2>2, <3>1 DEF StreamOK
    <3> QED
      BY <3>3, <3>4, <1>4
  <2> QED
    BY <2>1, <2>2, <1>1
<1>6. ASSUME NEW j \in 1 .. Left'
      PROVE  /\ InStream(Unit(j)')
             /\ j < Left' => Behind(Unit(j)'.id, Unit(j)'.place,
                                    Unit(j + 1)'.id, Unit(j + 1)'.place)
             /\ j = Left' => Behind(Unit(j)'.id, Unit(j)'.place,
                                    SendId, SendPlace)
  <2>1. j + 1 \in 1 .. Left /\ Unit(j)' = Unit(j + 1)
    BY <1>1, <1>2
  <2>2. CASE j < Left'
    <3>1. j + 1 \in 1 .. Left' /\ j + 1 < Left
      BY <1>1, <2>2
    <3>2. Unit(j + 1)' = Unit((j + 1) + 1)
      BY <1>2, <3>1
    <3> QED
      BY <2>1, <2>2, <3>1, <3>2 DEF StreamOK
  <2>3. CASE j = Left'
    BY <2>1, <2>3, <1>1 DEF StreamOK
  <2> QED
    BY <2>1, <2>2, <2>3, <1>1
<1>7. StreamOK'
  <2>1. \A j \in 1 .. Left' :
          /\ InStream(Unit(j))'
          /\ j < Left' => Behind(Unit(j).id, Unit(j).place,
                                 Unit(j + 1).id, Unit(j + 1).place)'
          /\ j = Left' => Behind(Unit(j).id, Unit(j).place, SendId, SendPlace)'
    BY <1>3, <1>6 DEF InStream, Behind
  <2> QED
    BY <2>1 DEF StreamOK, OwedOK
<1> QED
  BY <1>1, <1>4, <1>5, <1>7, ReadTyped

\* recv() moves units from the kernel to the empty buffer.
LEMMA Received ==
  ASSUME TypeOK, StreamOK, buf = <<>>, NEW k \in 1 .. Len(wire),
         buf' = SubSeq(wire, 1, k),
         wire' = SubSeq(wire, k + 1, Len(wire)),
         UNCHANGED <<reqs, owed>>
  PROVE  StreamOK' /\ ReadId' = ReadId /\ ReadPlace' = ReadPlace
<1>1. /\ Len(buf) = 0 /\ Len(wire) \in Nat
      /\ Len(buf') = k /\ Len(wire') = Len(wire) - k
      /\ \A j \in 1 .. k : buf'[j] = wire[j]
      /\ \A j \in 1 .. Len(wire') : wire'[j] = wire[k + j]
  <2>1. wire \in Seq(Units)
    BY DEF TypeOK
  <2>2. Len(wire) \in Nat /\ k \in Nat /\ 1 <= k /\ k <= Len(wire)
    BY <2>1
  <2>3. Len(buf') = k /\ \A j \in 1 .. k : buf'[j] = wire[j]
    BY <2>1, <2>2
  <2>4. /\ Len(wire') = Len(wire) - k
        /\ \A j \in 1 .. Len(wire') : wire'[j] = wire[k + j]
    BY <2>1, <2>2
  <2> QED
    BY <2>2, <2>3, <2>4
<1>2. Left' = Left
  BY <1>1 DEF Left
<1>3. \A j \in 1 .. Left : Unit(j)' = Unit(j)
  <2> SUFFICES ASSUME NEW j \in 1 .. Left
               PROVE  Unit(j)' = Unit(j)
    OBVIOUS
  <2>1. j \in 1 .. Len(wire) /\ Unit(j) = wire[j]
    BY <1>1 DEF Unit, Left
  <2>2. CASE j <= k
    BY <2>1, <2>2, <1>1 DEF Unit
  <2>3. CASE ~(j <= k)
    <3>1. j - k \in 1 .. Len(wire') /\ k + (j - k) = j
      BY <2>1, <2>3, <1>1
    <3> QED
      BY <2>1, <2>3, <3>1, <1>1 DEF Unit
  <2> QED
    BY <2>2, <2>3
<1>4. SendId' = SendId /\ SendPlace' = SendPlace
  BY DEF SendId, SendPlace
<1>5. ReadId' = ReadId /\ ReadPlace' = ReadPlace
  <2>1. Left > 0 => 1 \in 1 .. Left
    BY StreamTyped
  <2> QED
    BY <2>1, <1>2, <1>3, <1>4 DEF ReadId, ReadPlace
<1>6. ASSUME NEW j \in 1 .. Left'
      PROVE  /\ InStream(Unit(j))'
             /\ j < Left' => Behind(Unit(j).id, Unit(j).place,
                                    Unit(j + 1).id, Unit(j + 1).place)'
             /\ j = Left' => Behind(Unit(j).id, Unit(j).place,
                                    SendId, SendPlace)'
  <2>1. j \in 1 .. Left /\ Unit(j)' = Unit(j)
    BY <1>2, <1>3
  <2>2. j < Left => Unit(j + 1)' = Unit(j + 1)
    BY <1>3, StreamTyped
  <2> QED
    BY <2>1, <2>2, <1>2, <1>4 DEF StreamOK, InStream, Behind
<1> QED
  BY <1>5, <1>6 DEF StreamOK, OwedOK

\* The client sends the unit that is next, and the one behind it is next.
LEMMA Sent ==
  ASSUME TypeOK, StreamOK, NEW u,
         wire' = Append(wire, u), buf' = buf,
         u.id = SendId, u.place = SendPlace,
         Len(reqs') \in Nat, Len(reqs) <= Len(reqs'),
         \A i \in 1 .. Len(reqs) : reqs'[i].body = reqs[i].body,
         owed' > 0 => reqs' # <<>> /\ owed' <= reqs'[Len(reqs')].body,
         SendId \in 1 .. Len(reqs'), SendPlace \in 0 .. reqs'[SendId].body,
         IF SendPlace < reqs'[SendId].body
         THEN SendId' = SendId /\ SendPlace' = SendPlace + 1
         ELSE SendId' = SendId + 1 /\ SendPlace' = 0
  PROVE  StreamOK' /\ ReadId' = ReadId /\ ReadPlace' = ReadPlace
<1>1. /\ Left \in Nat /\ Left' = Left + 1
      /\ Len(buf) \in Nat /\ Len(wire) \in Nat /\ Left = Len(buf) + Len(wire)
      /\ \A j \in 1 .. Len(wire) : wire'[j] = wire[j]
      /\ wire'[Len(wire) + 1] = u
  <2>1. wire \in Seq(Units)
    BY DEF TypeOK
  <2>2. /\ Len(wire') = Len(wire) + 1 /\ wire'[Len(wire) + 1] = u
        /\ \A j \in 1 .. Len(wire) : wire'[j] = wire[j]
    BY <2>1
  <2> QED
    BY <2>2, StreamTyped DEF Left
<1>2. \A j \in 1 .. Left : Unit(j)' = Unit(j)
  <2> SUFFICES ASSUME NEW j \in 1 .. Left
               PROVE  Unit(j)' = Unit(j)
    OBVIOUS
  <2>1. CASE j <= Len(buf)
    BY <2>1, <1>1 DEF Unit
  <2>2. CASE ~(j <= Len(buf))
    <3>1. j - Len(buf) \in 1 .. Len(wire)
      BY <2>2, <1>1
    <3> QED
      BY <2>2, <3>1, <1>1 DEF Unit
  <2> QED
    BY <2>1, <2>2
<1>3. ASSUME NEW j, j = Left + 1
      PROVE  Unit(j)' = u
  <2>1. ~(j <= Len(buf)) /\ j - Len(buf) = Len(wire) + 1
    BY <1>1, <1>3
  <2> QED
    BY <2>1, <1>1 DEF Unit
<1>4. ReadId' = ReadId /\ ReadPlace' = ReadPlace
  <2>1. CASE Left > 0
    <3>1. 1 \in 1 .. Left /\ Left' > 0
      BY <2>1, <1>1
    <3>2. Unit(1)' = Unit(1)
      BY <3>1, <1>2
    <3> QED
      BY <2>1, <3>1, <3>2 DEF ReadId, ReadPlace
  <2>2. CASE Left = 0
    <3>1. Left' > 0 /\ Unit(1)' = u
      BY <2>2, <1>1, <1>3
    <3> QED
      BY <2>2, <3>1, <1>1 DEF ReadId, ReadPlace
  <2> QED
    BY <2>1, <2>2, <1>1
<1>5. ASSUME NEW j \in 1 .. Left
      PROVE  /\ Unit(j)'.id \in 1 .. Len(reqs')
             /\ Unit(j)'.place \in 0 .. reqs'[Unit(j)'.id].body
             /\ IF Unit(j)'.place < reqs'[Unit(j)'.id].body
                THEN /\ Unit(j + 1)'.id = Unit(j)'.id
                     /\ Unit(j + 1)'.place = Unit(j)'.place + 1
                ELSE /\ Unit(j + 1)'.id = Unit(j)'.id + 1
                     /\ Unit(j + 1)'.place = 0
  <2>1. /\ Unit(j)' = Unit(j) /\ InStream(Unit(j))
        /\ reqs'[Unit(j).id].body = reqs[Unit(j).id].body
    BY <1>2, StreamTyped DEF StreamOK, InStream
  <2>2. Unit(j).id \in 1 .. Len(reqs')
    BY <2>1, StreamTyped DEF InStream
  <2>3. Behind(Unit(j).id, Unit(j).place, Unit(j + 1)'.id, Unit(j + 1)'.place)
    <3>1. CASE j < Left
      <4>1. j + 1 \in 1 .. Left
        BY <1>1, <3>1
      <4>2. Unit(j + 1)' = Unit(j + 1)
        BY <1>2, <4>1
      <4> QED
        BY <3>1, <4>2 DEF StreamOK
    <3>2. CASE j = Left
      <4>1. Unit(j + 1)' = u
        BY <1>3, <3>2
      <4> QED
        BY <3>2, <4>1 DEF StreamOK
    <3> QED
      BY <3>1, <3>2, <1>1
  <2> QED
    BY <2>1, <2>2, <2>3 DEF InStream, Behind
<1>6. ASSUME NEW j \in 1 .. Left'
      PROVE  /\ InStream(Unit(j))'
             /\ j < Left' => Behind(Unit(j).id, Unit(j).place,
                                    Unit(j + 1).id, Unit(j + 1).place)'
             /\ j = Left' => Behind(Unit(j).id, Unit(j).place,
                                    SendId, SendPlace)'
  <2>1. CASE j < Left'
    <3>1. j \in 1 .. Left /\ j # Left'
      BY <2>1, <1>1
    <3> QED
      BY <3>1, <1>5 DEF InStream, Behind
  <2>2. CASE j = Left'
    <3>1. Unit(j)' = u /\ ~(j < Left')
      BY <2>2, <1>1, <1>3
    <3> QED
      BY <3>1 DEF InStream, Behind
  <2>3. j < Left' \/ j = Left'
    BY <1>1
  <2> QED
    BY <2>1, <2>2, <2>3
<1> QED
  BY <1>4, <1>6 DEF StreamOK, OwedOK

------------------------------------------------------------------------------
(* What a step leaves alone of the invariant.                                *)

LEMMA WorkerTyped ==
  ASSUME TypeOK
  PROVE  /\ id \in Nat /\ id <= Len(reqs) /\ need \in Nat
         /\ cur \in RequestRecords /\ cur.body \in Nat
         /\ Len(responses) \in Nat
         /\ \A k \in 1 .. Len(responses) :
              responses[k] \in Responses /\ responses[k].id \in Nat
<1>1. /\ id \in 0 .. Len(reqs) /\ need \in Nat /\ cur \in RequestRecords
      /\ responses \in Seq(Responses)
  BY DEF TypeOK
<1>2. /\ Len(responses) \in Nat
      /\ \A k \in 1 .. Len(responses) : responses[k] \in Responses
  BY <1>1
<1>3. cur.body \in Nat /\ \A r \in Responses : r.id \in Nat
  BY <1>1 DEF RequestRecords, Responses
<1> QED
  BY <1>1, <1>2, <1>3, StreamTyped

\* Without a response, what the responses say stays true.
LEMMA SameAnswers ==
  ASSUME responses' = responses
  PROVE  /\ Desynchronised' <=> Desynchronised
         /\ InStep' = InStep
         /\ InStepPrefix' <=> InStepPrefix
BY DEF Desynchronised, InStep, InStepPrefix, LeavesBody

\* A step of the client.
LEMMA ClientFrame ==
  ASSUME IInv, TypeOK',
         UNCHANGED <<connected, pc, serving, garbled, need, status, responses>>,
         Len(reqs) <= Len(reqs'),
         \A i \in 1 .. Len(reqs) : reqs'[i] = reqs[i],
         OwedOK', Reading => StreamOK' /\ ReadId' = ReadId /\ ReadPlace' = ReadPlace
  PROVE  IInv'
<1>1. /\ id' = id /\ cur' = cur /\ consumed' = consumed /\ garbled' = garbled
      /\ need' = need /\ status' = status /\ responses' = responses
      /\ connected' = connected /\ pc' = pc /\ Reading' = Reading
      /\ Unanswered' = Unanswered
  BY DEF serving, Reading, Unanswered
<1>2. id > 0 => id \in 1 .. Len(reqs) /\ reqs'[id] = reqs[id]
  BY WorkerTyped, StreamTyped DEF IInv
<1>3. KindOK'
  BY <1>1, <1>2 DEF IInv, KindOK
<1>4. Place'
  <2>1. ASSUME NEW n, id > 0, AtSpot(id, n), Reading
        PROVE  AtSpot(id, n)'
    BY <1>1, <1>2, <2>1 DEF AtSpot
  <2>2. CASE connected /\ id > 0 /\ Reading
    <3>1. Place /\ ReadTwice' = ReadTwice
      BY <1>1 DEF IInv, ReadTwice
    <3>2. \A n : AtSpot(id, n) => AtSpot(id, n)'
      BY <2>1, <2>2
    <3> QED
      BY <1>1, <2>2, <3>1, <3>2 DEF Place, AtSpot
  <2>3. CASE ~Reading
    BY <1>1, <2>3 DEF Place, Reading
  <2> QED
    BY <1>1, <2>2, <2>3 DEF Place
<1>5. HeadsPassed' /\ Clean'
  BY <1>1 DEF IInv, HeadsPassed, Passed, Clean, ReadTwice
<1>6. Rising' /\ Continuing'
  BY <1>1 DEF IInv, Rising, Continuing, EndsConnection
<1>7. Counting'
  BY <1>1, SameAnswers DEF IInv, Counting, Reading
<1> QED
  BY <1>1, <1>3, <1>4, <1>5, <1>6, <1>7, SameAnswers DEF IInv

\* A step of the worker on the request it is serving, short of its response:
\* what the step must preserve of its own is KindOK, Place and Clean.
LEMMA ServingFrame ==
  ASSUME IInv, TypeOK', StreamOK', KindOK', Place', Clean',
         UNCHANGED <<reqs, owed, id, cur, responses>>,
         Unanswered, Unanswered',
         \/ ReadId' = ReadId /\ ReadPlace' = ReadPlace
         \/ Behind(ReadId, ReadPlace, ReadId', ReadPlace')
  PROVE  IInv'
<1>1. /\ Reading /\ Reading' /\ pc' # "header" /\ pc' # "drain"
      /\ TypeOK /\ StreamOK
  BY DEF Reading, Unanswered, IInv
<1>2. HeadsPassed'
  <2>1. \A i \in Nat : Passed(i) => Passed(i)'
    BY <1>1, PassedOn
  <2> QED
    BY <1>1, <2>1, WorkerTyped DEF IInv, HeadsPassed
<1>3. Rising' /\ Continuing'
  BY <1>1 DEF IInv, Rising, Continuing, EndsConnection
<1>4. Counting'
  BY <1>1, SameAnswers DEF IInv, Counting
<1> QED
  BY <1>1, <1>2, <1>3, <1>4, SameAnswers DEF IInv, OwedOK

\* A step that ends the connection without a response.
LEMMA EndingFrame ==
  ASSUME IInv, TypeOK', ~Reading',
         UNCHANGED <<reqs, owed, id, cur, garbled, responses>>
  PROVE  IInv'
<1>1. pc' \in {"websocket", "spin", "closed", "dead"}
  BY DEF Reading
<1>2. KindOK' /\ Place' /\ HeadsPassed' /\ Clean'
  BY <1>1 DEF IInv, KindOK, Place, HeadsPassed, Clean, Reading, Unanswered
<1>3. Rising' /\ Continuing'
  BY <1>1 DEF IInv, Rising, Continuing, EndsConnection, Unanswered
<1>4. Counting'
  BY <1>1, SameAnswers DEF IInv, Counting, Unanswered
<1> QED
  BY <1>2, <1>3, <1>4, SameAnswers DEF IInv, OwedOK

------------------------------------------------------------------------------
(* Types.                                                                    *)

\* What a step of the worker must show when it sends no response and moves
\* nothing into the buffer.
LEMMA WorkerTypes ==
  ASSUME TypeOK, UNCHANGED <<clientVars, wire, id, cur, responses>>,
         buf' = buf \/ (buf # <<>> /\ buf' = Tail(buf)),
         connected' \in BOOLEAN, pc' \in Places, garbled' \in BOOLEAN,
         consumed' \in BOOLEAN, need' \in Nat, status' \in Statuses
  PROVE  TypeOK'
<1>1. buf' \in Seq(Units)
  <2>1. buf \in Seq(Units)
    BY DEF TypeOK
  <2> QED
    BY <2>1
<1>2. /\ reqs' = reqs /\ owed' = owed /\ client' = client /\ wire' = wire
      /\ id' = id /\ cur' = cur /\ responses' = responses
  BY DEF clientVars
<1> QED
  BY <1>1, <1>2 DEF TypeOK

LEMMA StartTyped ==
  /\ <<>> \in Seq(Requests) /\ <<>> \in Seq(Units) /\ <<>> \in Seq(Responses)
  /\ Len(<<>>) = 0 /\ 0 <= MaxRequests /\ 1 .. 0 = {} /\ 0 \in 0 .. 0
  /\ NoRequest \in RequestRecords
BY DEF NoRequest, RequestRecords, Kinds

LEMMA RouteTyped ==
  ASSUME NEW r \in RequestRecords
  PROVE  /\ Route(r) \in {"body", "gateway", "respond"}
         /\ EarlyStatus(r) \in Statuses
BY DEF Route, EarlyStatus, EarlyStatuses, Statuses

LEMMA MisreadTyped ==
  ASSUME NEW g \in Misread
  PROVE  g \in RequestRecords /\ g.kind # "overlong"
<1>1. NoRequest \in RequestRecords /\ NoRequest.kind # "overlong"
  BY DEF NoRequest, RequestRecords, Kinds
<1> QED
  BY <1>1 DEF Misread

\* A unit is taken.  Where the next one is the request's own body and the worker
\* is at its beginning, exactly that one is.
LEMMA UnitTaken ==
  ASSUME TypeOK, StreamOK, TakeUnit, need > 0,
         UNCHANGED <<wire, reqs, owed>>
  PROVE  /\ need' \in Nat /\ garbled' \in BOOLEAN
         /\ buf' = buf \/ (buf # <<>> /\ buf' = Tail(buf))
         /\ StreamOK'
         /\ \/ ReadId' = ReadId /\ ReadPlace' = ReadPlace
            \/ Behind(ReadId, ReadPlace, ReadId', ReadPlace')
         /\ ~garbled /\ ReadId = id =>
              /\ need' = need - 1 /\ ~garbled'
              /\ Behind(ReadId, ReadPlace, ReadId', ReadPlace')
<1>1. need \in Nat
  BY DEF TypeOK
<1>2. CASE buf # <<>> /\ buf' = Tail(buf)
  <2>1. /\ StreamOK' /\ Head(buf).id = ReadId
        /\ Behind(ReadId, ReadPlace, ReadId', ReadPlace')
    BY <1>2, Popped
  <2>2. /\ need' \in Nat /\ garbled' \in BOOLEAN
        /\ ~garbled /\ ReadId = id => need' = need - 1 /\ ~garbled'
    <3>1. CASE Head(buf).id = id /\ need' = need - 1 /\ garbled' = FALSE
      <4>1. need' \in Nat
        BY <1>1, <3>1
      <4> QED
        BY <3>1, <4>1
    <3>2. CASE /\ Head(buf).id # id /\ need' \in 0 .. need
               /\ garbled' \in BOOLEAN
      BY <1>1, <2>1, <3>2
    <3>3. CASE garbled /\ need' = 0 /\ garbled' \in BOOLEAN
      BY <3>3
    <3> QED
      BY <3>1, <3>2, <3>3 DEF TakeUnit
  <2> QED
    BY <1>2, <2>1, <2>2
<1>3. CASE buf' = buf
  <2>1. StreamOK' /\ ReadId' = ReadId /\ ReadPlace' = ReadPlace
    BY <1>3, StreamSame
  <2>2. garbled /\ need' = 0 /\ garbled' \in BOOLEAN
    <3>1. buf # <<>> => buf' # Tail(buf)
      <4> SUFFICES ASSUME buf # <<>>, buf' = Tail(buf)
                   PROVE  FALSE
        OBVIOUS
      <4>1. buf \in Seq(Units)
        BY DEF TypeOK
      <4>2. Len(Tail(buf)) = Len(buf) - 1 /\ Len(buf) \in Nat
        BY <4>1
      <4> QED
        BY <1>3, <4>2
    <3> QED
      BY <3>1 DEF TakeUnit
  <2> QED
    BY <1>3, <2>1, <2>2
<1> QED
  BY <1>2, <1>3 DEF TakeUnit

LEMMA TypeInvariance ==
  ASSUME IInv, [Next]_vars
  PROVE  TypeOK'
<1>1. /\ TypeOK /\ need \in Nat /\ cur \in RequestRecords /\ cur.body \in Nat
      /\ Len(reqs) \in Nat /\ owed \in Nat /\ pc \in Places
      /\ connected \in BOOLEAN /\ garbled \in BOOLEAN /\ consumed \in BOOLEAN
      /\ status \in Statuses
  BY WorkerTyped, StreamTyped DEF IInv, TypeOK
<1>2. \A u \in {"header", "body", "gateway", "appbody", "appwait", "respond",
                "drain", "websocket", "spin", "closed", "dead"} : u \in Places
  BY DEF Places
<1>3. \A u \in {"none", "done", "101", "400", "refused", "502", "503"} :
        u \in Statuses
  BY DEF Statuses
<1>4. AfterBody \in {"gateway", "respond"} /\ ContentLength \in Nat
  BY <1>1 DEF AfterBody, ContentLength
<1>5. AfterResponse \in {"websocket", "drain", "header", "closed"}
  BY DEF AfterResponse
<1>6. ASSUME NEW r \in Requests, SendHead(r)
      PROVE  TypeOK'
  <2>1. /\ Len(reqs) < MaxRequests /\ reqs' = Append(reqs, r)
        /\ owed' = r.body /\ wire' = Append(wire, HeadUnit(Len(reqs) + 1))
    BY <1>6 DEF SendHead
  <2>2. /\ reqs' \in Seq(Requests) /\ Len(reqs') = Len(reqs) + 1
        /\ Len(reqs') <= MaxRequests
    <3>1. reqs \in Seq(Requests)
      BY DEF IInv, TypeOK
    <3> QED
      BY <1>1, <2>1, <3>1
  <2>3. owed' \in Nat
    BY <2>1 DEF RequestRecords
  <2>4. wire' \in Seq(Units)
    <3>1. HeadUnit(Len(reqs) + 1) \in Units
      BY <1>1, <2>1 DEF HeadUnit, Units
    <3> QED
      BY <2>1, <3>1 DEF IInv, TypeOK
  <2>5. id' \in 0 .. Len(reqs')
    BY <1>6, <2>2, WorkerTyped, <1>1 DEF SendHead, serving
  <2>6. \A k \in 1 .. Len(responses') : responses'[k].id <= Len(reqs')
    <3>1. responses' = responses
      BY <1>6 DEF SendHead
    <3>2. \A k \in 1 .. Len(responses) :
            responses[k].id \in Nat /\ responses[k].id <= Len(reqs)
      BY <1>1, WorkerTyped DEF TypeOK
    <3> QED
      BY <1>1, <2>2, <3>1, <3>2
  <2>7. /\ client' = client /\ buf' = buf /\ connected' = connected /\ pc' = pc
        /\ cur' = cur /\ garbled' = garbled /\ consumed' = consumed
        /\ need' = need /\ status' = status /\ responses' = responses
    BY <1>6 DEF SendHead, serving
  <2> QED
    BY <1>1, <2>2, <2>3, <2>4, <2>5, <2>6, <2>7 DEF TypeOK
<1>7. CASE SendBody
  <2>1. /\ OwedOK /\ owed > 0 /\ owed' = owed - 1
        /\ wire' = Append(wire, BodyUnit(Len(reqs),
                                         reqs[Len(reqs)].body - owed + 1))
    BY <1>7 DEF IInv, SendBody
  <2>2. Len(reqs) \in 1 .. Len(reqs) /\ Len(reqs) <= MaxRequests
    BY <1>1, <2>1 DEF OwedOK, TypeOK
  <2>3. reqs[Len(reqs)].body \in Nat
    BY <1>1, <2>2, StreamTyped DEF RequestRecords
  <2>4. BodyUnit(Len(reqs), reqs[Len(reqs)].body - owed + 1) \in Units
    <3>1. reqs[Len(reqs)].body - owed + 1 \in Nat
      BY <1>1, <2>1, <2>3 DEF OwedOK
    <3>2. Len(reqs) \in 1 .. MaxRequests
      BY <1>1, <2>2
    <3> QED
      BY <3>1, <3>2 DEF BodyUnit, Units
  <2>5. wire' \in Seq(Units) /\ owed' \in Nat
    BY <1>1, <2>1, <2>4 DEF TypeOK
  <2> QED
    BY <1>1, <1>7, <2>5 DEF TypeOK, SendBody, serving
<1>8. ASSUME NEW how \in {"closed", "reset"}, ClientEnds(how)
      PROVE  TypeOK'
  BY <1>1, <1>8 DEF TypeOK, ClientEnds, serving
<1>9. CASE Recv
  <2>1. PICK k \in 1 .. Len(wire) : /\ buf' = SubSeq(wire, 1, k)
                                    /\ wire' = SubSeq(wire, k + 1, Len(wire))
    BY <1>9 DEF Recv
  <2>2. buf' \in Seq(Units) /\ wire' \in Seq(Units)
    <3>1. wire \in Seq(Units)
      BY <1>1 DEF TypeOK
    <3>2. buf' \in Seq(Units)
      BY <2>1, <3>1
    <3>3. wire' \in Seq(Units)
      BY <2>1, <3>1
    <3> QED
      BY <3>2, <3>3
  <2> QED
    BY <1>1, <1>9, <2>2 DEF TypeOK, Recv, serving, clientVars
<1>10. CASE HeaderRecvFails \/ ReadOverlong \/ ReadBodyAsHeader
  BY <1>1, <1>2, <1>10, WorkerTypes
  DEF HeaderRecvFails, ReadOverlong, ReadBodyAsHeader, serving
<1>11. CASE ReadHead
  <2>1. Len(buf) > 0 /\ Head(buf) \in Units /\ buf' \in Seq(Units)
    BY <1>1, <1>11 DEF ReadHead, TypeOK
  <2> DEFINE i == Head(buf).id
  <2>2. i \in 1 .. Len(reqs)
    BY <1>1, <1>11, Popped DEF ReadHead, IInv, Reading, clientVars
  <2>3. reqs[i] \in RequestRecords
    BY <1>1, <2>2, StreamTyped
  <2>4. id' \in 0 .. Len(reqs) /\ cur' \in RequestRecords
    BY <1>1, <1>11, <2>2, <2>3, MisreadTyped DEF ReadHead
  <2>5. pc' \in Places /\ status' \in Statuses /\ need' \in Nat
    BY <1>2, <1>11, <2>4, RouteTyped DEF ReadHead, RequestRecords
  <2> QED
    BY <1>1, <1>11, <2>1, <2>4, <2>5 DEF ReadHead, TypeOK, clientVars
<1>23. CASE ReadMisread
  <2>1. id' = 0 /\ cur' \in RequestRecords
    BY <1>23, MisreadTyped DEF ReadMisread
  <2>2. pc' \in Places /\ status' \in Statuses /\ need' \in Nat
    BY <1>2, <1>23, <2>1, RouteTyped DEF ReadMisread, RequestRecords
  <2> QED
    <3>1. /\ UNCHANGED <<reqs, owed, client, wire, buf, connected, responses>>
          /\ garbled' = FALSE /\ consumed' = FALSE /\ 0 \in 0 .. Len(reqs)
      BY <1>1, <1>23 DEF ReadMisread, clientVars
    <3> QED
      BY <1>1, <2>1, <2>2, <3>1 DEF TypeOK
<1>24. ASSUME pc \in {"body", "appbody", "drain"}, TakeUnit, need > 0,
              UNCHANGED <<clientVars, wire>>
       PROVE  /\ buf' = buf \/ (buf # <<>> /\ buf' = Tail(buf))
              /\ need' \in Nat /\ garbled' \in BOOLEAN
  <2>1. StreamOK
    BY <1>24 DEF IInv, Reading
  <2> QED
    BY <1>1, <1>24, <2>1, UnitTaken DEF clientVars
<1>12. CASE BodyRead
  <2>1. /\ buf' = buf \/ (buf # <<>> /\ buf' = Tail(buf))
        /\ need' \in Nat /\ garbled' \in BOOLEAN
    BY <1>1, <1>12, <1>24 DEF BodyRead
  <2>2. pc' \in Places /\ consumed' \in BOOLEAN
    BY <1>1, <1>2, <1>4, <1>12 DEF BodyRead
  <2> QED
    BY <1>1, <1>12, <2>1, <2>2, WorkerTypes DEF BodyRead
<1>13. CASE BodyRecvFails
  BY <1>1, <1>2, <1>4, <1>13, WorkerTypes DEF BodyRecvFails
<1>14. CASE GatewayFails \/ GatewayStarts \/ GatewayAnswers \/ GatewaySpins
  BY <1>1, <1>2, <1>3, <1>14, WorkerTypes
  DEF GatewayFails, GatewayStarts, GatewayAnswers, GatewaySpins, serving
<1>15. CASE ChunkPassedOn
  <2>1. need > 0
    BY <1>1, <1>15 DEF ChunkPassedOn, IInv, KindOK
  <2> QED
    BY <1>1, <1>2, <1>15, <1>24, <2>1, WorkerTypes DEF ChunkPassedOn
<1>25. CASE ChunkRefused
  <2>1. need > 0
    BY <1>1, <1>25 DEF ChunkRefused, IInv, KindOK
  <2> QED
    BY <1>1, <1>2, <1>3, <1>25, <1>24, <2>1, WorkerTypes DEF ChunkRefused
<1>16. CASE ChunkRecvFails
  BY <1>1, <1>2, <1>3, <1>16, WorkerTypes DEF ChunkRecvFails
<1>17. CASE SendResponse
  <2> DEFINE r == [id |-> id, req |-> cur, status |-> status]
  <2>1. /\ responses' = Append(responses, r) /\ pc' = AfterResponse
        /\ need' \in Nat
        /\ reqs' = reqs /\ owed' = owed /\ client' = client /\ wire' = wire
        /\ buf' = buf /\ connected' = connected /\ id' = id /\ cur' = cur
        /\ consumed' = consumed /\ garbled' = garbled /\ status' = status
    BY <1>1, <1>4, <1>17 DEF SendResponse, clientVars, serving
  <2>2. r \in Responses /\ r.id <= Len(reqs)
    <3>1. id \in 0 .. MaxRequests /\ id <= Len(reqs)
      BY <1>1, WorkerTyped DEF TypeOK
    <3> QED
      BY <1>1, <3>1 DEF Responses
  <2> HIDE DEF r
  <2>3. responses' \in Seq(Responses)
    BY <1>1, <2>1, <2>2 DEF TypeOK
  <2>4. ASSUME NEW k \in 1 .. Len(responses')
        PROVE  responses'[k].id <= Len(reqs')
    <3>1. responses \in Seq(Responses)
      BY <1>1 DEF TypeOK
    <3>2. k \in 1 .. Len(responses) + 1
      BY <2>1, <3>1
    <3>3. CASE k = Len(responses) + 1
      BY <2>1, <2>2, <3>1, <3>3
    <3>4. CASE k \in 1 .. Len(responses)
      <4>1. responses'[k] = responses[k]
        BY <2>1, <3>1, <3>4
      <4> QED
        BY <1>1, <2>1, <3>4, <4>1 DEF TypeOK
    <3> QED
      BY <3>1, <3>2, <3>3, <3>4
  <2> QED
    BY <1>1, <1>2, <1>5, <2>1, <2>3, <2>4 DEF TypeOK
<1>18. CASE Drain
  <2>1. need > 0
    BY <1>1, <1>18 DEF Drain, IInv, KindOK
  <2> QED
    BY <1>1, <1>2, <1>18, <1>24, <2>1, WorkerTypes DEF Drain, serving
<1>19. CASE SendFails \/ DrainRecvFails \/ WebSocketRecvFails \/ ServerDies
  BY <1>1, <1>2, <1>19, WorkerTypes
  DEF SendFails, DrainRecvFails, WebSocketRecvFails, ServerDies, serving
<1>20. CASE WebSocketRecv
  <2>1. wire' \in Seq(Units) /\ pc' \in Places
    BY <1>2, <1>20 DEF WebSocketRecv
  <2> QED
    BY <1>1, <1>20, <2>1 DEF WebSocketRecv, TypeOK, clientVars, serving
<1>21. CASE NextConnection
  BY <1>2, <1>3, <1>21, StartTyped DEF NextConnection, TypeOK
<1>22. CASE UNCHANGED vars
  BY <1>1, <1>22 DEF TypeOK, vars, clientVars, serving
<1> QED
  BY <1>6, <1>7, <1>8, <1>9, <1>10, <1>11, <1>12, <1>13, <1>14, <1>15, <1>16,
     <1>17, <1>18, <1>19, <1>20, <1>21, <1>22, <1>23, <1>25
  DEF Next, Client, Worker

------------------------------------------------------------------------------
(* The steps of the client.                                                  *)

LEMMA ClientSteps ==
  ASSUME IInv, TypeOK', Client
  PROVE  IInv'
<1>1. TypeOK /\ Len(reqs) \in Nat /\ owed \in Nat /\ OwedOK
  BY StreamTyped DEF IInv
<1>2. ASSUME NEW r \in Requests, SendHead(r)
      PROVE  IInv'
  <2>1. /\ owed = 0 /\ owed' = r.body /\ r.body \in Nat
        /\ reqs' = Append(reqs, r) /\ buf' = buf
        /\ wire' = Append(wire, HeadUnit(Len(reqs) + 1))
    BY <1>2 DEF SendHead, RequestRecords
  <2>2. /\ Len(reqs') = Len(reqs) + 1 /\ reqs'[Len(reqs')] = r
        /\ reqs'[Len(reqs) + 1] = r
        /\ \A i \in 1 .. Len(reqs) : reqs'[i] = reqs[i]
    <3>1. reqs \in Seq(Requests)
      BY <1>1 DEF TypeOK
    <3> QED
      BY <2>1, <3>1
  <2>3. OwedOK'
    <3>1. reqs' # <<>>
      BY <1>1, <2>2
    <3> QED
      BY <2>1, <2>2, <3>1 DEF OwedOK
  <2>4. /\ SendId = Len(reqs) + 1 /\ SendPlace = 0
        /\ IF r.body > 0 THEN SendId' = Len(reqs) + 1 /\ SendPlace' = 1
                         ELSE SendId' = Len(reqs) + 2 /\ SendPlace' = 0
    BY <1>1, <2>1, <2>2 DEF SendId, SendPlace
  <2>5. Reading => StreamOK' /\ ReadId' = ReadId /\ ReadPlace' = ReadPlace
    <3> DEFINE u == HeadUnit(Len(reqs) + 1)
    <3>1. u.id = Len(reqs) + 1 /\ u.place = 0
      BY DEF HeadUnit
    <3>2. /\ SendId \in 1 .. Len(reqs') /\ SendPlace \in 0 .. reqs'[SendId].body
          /\ Len(reqs') \in Nat /\ Len(reqs) <= Len(reqs')
          /\ IF SendPlace < reqs'[SendId].body
             THEN SendId' = SendId /\ SendPlace' = SendPlace + 1
             ELSE SendId' = SendId + 1 /\ SendPlace' = 0
      BY <1>1, <2>1, <2>2, <2>4
    <3>3. wire' = Append(wire, u)
      BY <2>1
    <3> HIDE DEF u
    <3>4. /\ \A i \in 1 .. Len(reqs) : reqs'[i].body = reqs[i].body
          /\ owed' > 0 => reqs' # <<>> /\ owed' <= reqs'[Len(reqs')].body
          /\ u.id = SendId /\ u.place = SendPlace
      BY <2>2, <2>3, <2>4, <3>1 DEF OwedOK
    <3> QED
      BY <1>1, <2>1, <3>2, <3>3, <3>4, Sent DEF IInv
  <2>6. Len(reqs) <= Len(reqs')
    BY <1>1, <2>2
  <2> QED
    BY <1>2, <2>2, <2>3, <2>5, <2>6, ClientFrame DEF SendHead
<1>3. CASE SendBody
  <2>1. /\ owed > 0 /\ owed' = owed - 1 /\ reqs' = reqs /\ buf' = buf
        /\ wire' = Append(wire, BodyUnit(Len(reqs),
                                         reqs[Len(reqs)].body - owed + 1))
    BY <1>3 DEF SendBody
  <2>2. /\ Len(reqs) \in 1 .. Len(reqs) /\ reqs[Len(reqs)].body \in Nat
        /\ owed <= reqs[Len(reqs)].body
    <3>1. Len(reqs) \in 1 .. Len(reqs) /\ owed <= reqs[Len(reqs)].body
      BY <1>1, <2>1 DEF OwedOK
    <3> QED
      BY <1>1, <3>1, StreamTyped DEF RequestRecords
  <2>3. OwedOK'
    BY <1>1, <2>1, <2>2 DEF OwedOK
  <2>4. /\ SendId = Len(reqs) /\ SendPlace = reqs[Len(reqs)].body - owed + 1
        /\ IF owed > 1
           THEN SendId' = Len(reqs) /\ SendPlace' = reqs[Len(reqs)].body - owed + 2
           ELSE SendId' = Len(reqs) + 1 /\ SendPlace' = 0
    BY <1>1, <2>1, <2>2 DEF SendId, SendPlace
  <2>5. Reading => StreamOK' /\ ReadId' = ReadId /\ ReadPlace' = ReadPlace
    <3> DEFINE u == BodyUnit(Len(reqs), reqs[Len(reqs)].body - owed + 1)
    <3>1. u.id = SendId /\ u.place = SendPlace
      BY <2>4 DEF BodyUnit
    <3>2. /\ SendId \in 1 .. Len(reqs') /\ SendPlace \in 0 .. reqs'[SendId].body
          /\ Len(reqs') \in Nat /\ Len(reqs) <= Len(reqs')
          /\ IF SendPlace < reqs'[SendId].body
             THEN SendId' = SendId /\ SendPlace' = SendPlace + 1
             ELSE SendId' = SendId + 1 /\ SendPlace' = 0
      BY <1>1, <2>1, <2>2, <2>4
    <3>3. wire' = Append(wire, u)
      BY <2>1
    <3> HIDE DEF u
    <3>4. /\ \A i \in 1 .. Len(reqs) : reqs'[i].body = reqs[i].body
          /\ owed' > 0 => reqs' # <<>> /\ owed' <= reqs'[Len(reqs')].body
      BY <2>1, <2>3 DEF OwedOK
    <3> QED
      BY <1>1, <2>1, <3>1, <3>2, <3>3, <3>4, Sent DEF IInv
  <2> QED
    BY <1>1, <1>3, <2>1, <2>3, <2>5, ClientFrame DEF SendBody
<1>4. ASSUME NEW how \in {"closed", "reset"}, ClientEnds(how)
      PROVE  IInv'
  <2>1. UNCHANGED <<reqs, owed, wire, buf>>
    BY <1>4 DEF ClientEnds
  <2>2. OwedOK'
    BY <1>1, <2>1 DEF OwedOK
  <2>3. Reading => StreamOK'
    BY <2>1, StreamSame DEF IInv
  <2> QED
    BY <1>1, <1>4, <2>1, <2>2, <2>3, StreamSame, ClientFrame DEF ClientEnds
<1> QED
  BY <1>2, <1>3, <1>4 DEF Client

\* The worker receives: nothing else changes.
LEMMA RecvStep ==
  ASSUME IInv, TypeOK', Recv
  PROVE  IInv'
<1>1. /\ TypeOK /\ StreamOK /\ OwedOK /\ Len(reqs) \in Nat /\ buf = <<>>
      /\ reqs' = reqs /\ owed' = owed
  BY StreamTyped DEF IInv, Recv, Waiting, Reading, clientVars
<1>2. StreamOK' /\ ReadId' = ReadId /\ ReadPlace' = ReadPlace
  BY <1>1, Received DEF Recv
<1> QED
  BY <1>1, <1>2, ClientFrame DEF Recv, OwedOK

------------------------------------------------------------------------------
(* The steps of a handler.                                                   *)

\* A unit of the body of request i is read.
LEMMA SpotMoved ==
  ASSUME TypeOK, StreamOK, NEW i \in 1 .. Len(reqs), NEW n \in Nat \ {0},
         n <= reqs[i].body, AtSpot(i, n), reqs' = reqs,
         Behind(ReadId, ReadPlace, ReadId', ReadPlace')
  PROVE  IF n = 1 THEN ReadId' = i + 1 /\ ReadPlace' = 0
         ELSE ReadId' = i /\ ReadPlace' = reqs[i].body - (n - 1) + 1
<1>1. reqs[i].body \in Nat
  BY StreamTyped DEF RequestRecords
<1> QED
  BY <1>1, ReadTyped DEF AtSpot, Behind

LEMMA ServingTyped ==
  ASSUME IInv, Unanswered \/ pc = "drain"
  PROVE  /\ TypeOK /\ StreamOK /\ id \in Nat /\ need \in Nat /\ cur.body \in Nat
         /\ id > 0 => id \in 1 .. Len(reqs) /\ reqs[id] = cur
         /\ KindOK /\ Place
BY WorkerTyped, StreamTyped DEF IInv, Unanswered, Reading, KindOK

LEMMA HandlerSteps ==
  ASSUME IInv, TypeOK',
         \/ BodyRead \/ BodyRecvFails \/ GatewayFails \/ GatewayStarts
         \/ ChunkPassedOn \/ ChunkRefused \/ ChunkRecvFails \/ GatewayAnswers
  PROVE  IInv'
<1>1. Unanswered
  BY DEF Unanswered, BodyRead, BodyRecvFails, GatewayFails, GatewayStarts,
         ChunkPassedOn, ChunkRefused, ChunkRecvFails, GatewayAnswers
<1>2. /\ TypeOK /\ StreamOK /\ id \in Nat /\ need \in Nat /\ cur.body \in Nat
      /\ id > 0 => id \in 1 .. Len(reqs) /\ reqs[id] = cur
      /\ KindOK /\ Place
  BY <1>1, ServingTyped
<1>3. UNCHANGED <<reqs, owed, wire, id, cur, responses>>
  BY DEF BodyRead, BodyRecvFails, GatewayFails, GatewayStarts,
         ChunkPassedOn, ChunkRefused, ChunkRecvFails, GatewayAnswers,
         clientVars, serving
<1>4. ASSUME buf' = buf
      PROVE  StreamOK' /\ ReadId' = ReadId /\ ReadPlace' = ReadPlace
  BY <1>2, <1>3, <1>4, StreamSame
<1>5. ASSUME TakeUnit, need > 0
      PROVE  /\ need' \in Nat /\ garbled' \in BOOLEAN
             /\ buf' = buf \/ (buf # <<>> /\ buf' = Tail(buf))
             /\ StreamOK'
             /\ \/ ReadId' = ReadId /\ ReadPlace' = ReadPlace
                \/ Behind(ReadId, ReadPlace, ReadId', ReadPlace')
             /\ ~garbled /\ ReadId = id =>
                  /\ need' = need - 1 /\ ~garbled'
                  /\ Behind(ReadId, ReadPlace, ReadId', ReadPlace')
  BY <1>2, <1>3, <1>5, UnitTaken
<1>6. ReadTwice' <=> ReadTwice
  BY <1>3 DEF ReadTwice
<1>7. AfterBody = IF cur.kind = "postapp" THEN "gateway" ELSE "respond"
  BY DEF AfterBody
<1>8. CASE BodyRead
  <2>1. pc = "body" /\ cur.kind \in {"post", "postapp"} /\ connected' = connected
        /\ (cur.body > 0 => need > 0) /\ status' = status
    BY <1>2, <1>8 DEF KindOK, BodyRead
  <2>2. \/ need = 0 /\ buf' = buf /\ need' = 0 /\ garbled' = garbled
        \/ need > 0 /\ TakeUnit
    BY <1>2, <1>8 DEF BodyRead
  <2>8. need' \in Nat
    BY <1>5, <2>2
  <2>3. \/ need' = 0 /\ pc' = AfterBody /\ consumed'
        \/ need' > 0 /\ pc' = "body" /\ consumed' = consumed
    BY <1>2, <1>8, <2>8 DEF BodyRead
  <2>4. KindOK'
    BY <1>1, <1>2, <1>3, <1>7, <2>1, <2>3 DEF KindOK, Unanswered
  <2>5. ASSUME connected', id > 0
        PROVE  AtSpot(id, need)' /\ need' <= cur.body /\ ~garbled'
    <3>1. AtSpot(id, need) /\ need <= cur.body
      BY <1>2, <2>1, <2>5 DEF Place
    <3>4. ~garbled
      BY <2>1, <2>5 DEF IInv, Clean
    <3>2. CASE need = 0 /\ buf' = buf /\ need' = 0 /\ garbled' = garbled
      BY <1>2, <1>3, <1>4, <3>1, <3>2, <3>4 DEF AtSpot
    <3>3. CASE need > 0 /\ TakeUnit
      <4>2. ReadId = id
        BY <3>1, <3>3 DEF AtSpot
      <4>3. /\ need' = need - 1 /\ ~garbled'
            /\ Behind(ReadId, ReadPlace, ReadId', ReadPlace')
        BY <1>5, <3>3, <3>4, <4>2
      <4>1. IF need = 1 THEN ReadId' = id + 1 /\ ReadPlace' = 0
            ELSE ReadId' = id /\ ReadPlace' = reqs[id].body - (need - 1) + 1
        BY <1>2, <1>3, <2>5, <3>1, <3>3, <4>3, SpotMoved
      <4> QED
        BY <1>2, <1>3, <3>1, <3>3, <4>1, <4>3 DEF AtSpot
    <3> QED
      BY <2>2, <3>2, <3>3
  <2>6. Place'
    <3>1. pc' = "body" \/ ((pc' = "gateway" \/ pc' = "respond") /\ consumed'
                            /\ need' = 0)
      BY <1>7, <2>3
    <3> QED
      BY <1>3, <2>5, <3>1 DEF Place
  <2>7. Unanswered'
    BY <1>7, <2>3 DEF Unanswered
  <2>9. Clean'
    BY <1>3, <2>5 DEF Clean
  <2> QED
    BY <1>1, <1>3, <1>4, <1>5, <2>2, <2>4, <2>6, <2>7, <2>9, ServingFrame
<1>9. CASE BodyRecvFails
  <2>1. pc = "body" /\ cur.kind \in {"post", "postapp"} /\ ~connected'
        /\ pc' = AfterBody /\ consumed' /\ buf' = buf /\ status' = status
    BY <1>2, <1>9 DEF KindOK, BodyRecvFails
  <2>2. KindOK' /\ Place' /\ Unanswered' /\ Clean'
    BY <1>1, <1>2, <1>3, <1>7, <2>1 DEF KindOK, Place, Unanswered, Clean
  <2> QED
    BY <1>1, <1>3, <1>4, <2>1, <2>2, ServingFrame
<1>10. CASE GatewayFails
  <2>1. pc = "gateway" /\ pc' = "respond" /\ status' \in {"502", "503"}
        /\ connected' = connected /\ consumed' = consumed /\ need' = need
        /\ cur.kind \in {"app", "postapp"} /\ (consumed <=> cur.kind = "postapp")
        /\ buf' = buf /\ garbled' = garbled
    BY <1>2, <1>10 DEF KindOK, GatewayFails, serving
  <2>2. KindOK' /\ Unanswered' /\ Clean'
    BY <1>1, <1>2, <1>3, <1>6, <2>1 DEF KindOK, Unanswered, IInv, Clean
  <2>3. ASSUME connected', id > 0
        PROVE  /\ ReadTwice \/ AtSpot(id, IF consumed THEN 0 ELSE cur.body)
               /\ ReadId' = ReadId /\ ReadPlace' = ReadPlace
    BY <1>2, <1>4, <2>1, <2>3 DEF Place
  <2>4. Place'
    BY <1>2, <1>3, <1>6, <2>1, <2>3 DEF Place, AtSpot, ReadTwice
  <2> QED
    BY <1>1, <1>3, <1>4, <2>1, <2>2, <2>4, ServingFrame
<1>11. CASE GatewayStarts
  <2>1. pc = "gateway" /\ need' = cur.body
        /\ pc' = (IF cur.body > 0 THEN "appbody" ELSE "appwait")
        /\ connected' = connected /\ consumed' = consumed /\ status' = status
        /\ cur.kind \in {"app", "postapp"} /\ (consumed <=> cur.kind = "postapp")
        /\ buf' = buf /\ garbled' = garbled
    BY <1>2, <1>11 DEF KindOK, GatewayStarts, serving
  <2>2. KindOK' /\ Unanswered' /\ Clean'
    BY <1>1, <1>2, <1>3, <1>6, <2>1 DEF KindOK, Unanswered, IInv, Clean
  <2>3. Place'
    BY <1>2, <1>3, <1>4, <1>6, <2>1 DEF Place, AtSpot, ReadTwice
  <2> QED
    BY <1>1, <1>3, <1>4, <2>1, <2>2, <2>3, ServingFrame
<1>12. CASE ChunkPassedOn
  <2>1. pc = "appbody" /\ need > 0 /\ consumed'
        /\ pc' = (IF need' = 0 THEN "appwait" ELSE "appbody")
        /\ connected' = connected /\ status' = status
        /\ cur.kind \in {"app", "postapp"} /\ TakeUnit
    BY <1>2, <1>12 DEF KindOK, ChunkPassedOn
  <2>5. need' \in Nat
    BY <1>5, <2>1
  <2>2. KindOK' /\ Unanswered'
    BY <1>1, <1>2, <1>3, <2>1, <2>5 DEF KindOK, Unanswered
  <2>3. ASSUME connected', id > 0, ~ReadTwice
        PROVE  AtSpot(id, need)' /\ need' <= cur.body /\ ~garbled'
    <3>1. AtSpot(id, need) /\ need <= cur.body
      BY <2>1, <2>3, <1>2 DEF Place
    <3>3. ~garbled /\ ReadId = id
      BY <1>1, <2>1, <2>3, <3>1 DEF IInv, Clean, AtSpot
    <3>4. /\ need' = need - 1 /\ ~garbled'
          /\ Behind(ReadId, ReadPlace, ReadId', ReadPlace')
      BY <1>5, <2>1, <3>3
    <3>2. IF need = 1 THEN ReadId' = id + 1 /\ ReadPlace' = 0
          ELSE ReadId' = id /\ ReadPlace' = reqs[id].body - (need - 1) + 1
      BY <1>2, <1>3, <2>1, <2>3, <3>1, <3>4, SpotMoved
    <3> QED
      BY <1>2, <1>3, <2>1, <3>1, <3>2, <3>4 DEF AtSpot
  <2>4. Place'
    <3>1. (pc' = "appwait" /\ need' = 0) \/ pc' = "appbody"
      BY <2>1
    <3> QED
      BY <1>3, <1>6, <2>1, <2>3, <3>1 DEF Place
  <2>6. Clean'
    BY <1>3, <1>6, <2>1, <2>3 DEF Clean
  <2> QED
    BY <1>1, <1>3, <1>5, <2>1, <2>2, <2>4, <2>6, ServingFrame
<1>13. CASE ChunkRefused
  <2>1. pc = "appbody" /\ need > 0 /\ consumed'
        /\ pc' = "respond" /\ status' = "502" /\ connected' = connected
        /\ cur.kind \in {"app", "postapp"} /\ TakeUnit
    BY <1>2, <1>13 DEF KindOK, ChunkRefused
  <2>2. KindOK' /\ Unanswered'
    BY <1>1, <1>2, <1>3, <2>1 DEF KindOK, Unanswered
  <2>5. ASSUME connected', id > 0, ~ReadTwice
        PROVE  /\ AtSpot(id, need) /\ need <= cur.body /\ ~garbled'
               /\ Behind(ReadId, ReadPlace, ReadId', ReadPlace')
    <3>1. AtSpot(id, need) /\ need <= cur.body
      BY <2>1, <2>5, <1>2 DEF Place
    <3>2. ~garbled /\ ReadId = id
      BY <1>1, <2>1, <2>5, <3>1 DEF IInv, Clean, AtSpot
    <3> QED
      BY <1>5, <2>1, <3>1, <3>2
  <2>3. ASSUME connected', id > 0, ~ReadTwice, ~(cur.kind = "app" /\ cur.body > 1)
        PROVE  AtSpot(id, 0)'
    <3>1. /\ AtSpot(id, need) /\ need <= cur.body
          /\ Behind(ReadId, ReadPlace, ReadId', ReadPlace')
      BY <2>3, <2>5
    <3>2. need = 1
      BY <1>2, <2>1, <2>3, <3>1 DEF ReadTwice
    <3>3. ReadId' = id + 1 /\ ReadPlace' = 0
      BY <1>2, <1>3, <2>1, <2>3, <3>1, <3>2, SpotMoved
    <3> QED
      BY <1>3, <3>3 DEF AtSpot
  <2>4. Place' /\ Clean'
    BY <1>3, <1>6, <2>1, <2>3, <2>5 DEF Place, Clean
  <2> QED
    BY <1>1, <1>3, <1>5, <2>1, <2>2, <2>4, ServingFrame
<1>14. CASE ChunkRecvFails
  <2>1. pc = "appbody" /\ pc' = "respond" /\ consumed' /\ ~connected'
        /\ cur.kind \in {"app", "postapp"} /\ buf' = buf
    BY <1>2, <1>14 DEF KindOK, ChunkRecvFails
  <2>2. KindOK' /\ Place' /\ Unanswered' /\ Clean'
    BY <1>1, <1>2, <1>3, <2>1 DEF KindOK, Place, Unanswered, Clean
  <2> QED
    BY <1>1, <1>3, <1>4, <2>1, <2>2, ServingFrame
<1>15. CASE GatewayAnswers
  <2>1. pc = "appwait" /\ pc' = "respond" /\ connected' = connected
        /\ consumed' = consumed /\ cur.kind \in {"app", "postapp"}
        /\ (cur.kind = "postapp" => consumed) /\ buf' = buf /\ need' = need
        /\ garbled' = garbled
    BY <1>2, <1>15 DEF KindOK, GatewayAnswers, serving
  <2>2. KindOK' /\ Unanswered' /\ Clean'
    BY <1>1, <1>2, <1>3, <1>6, <2>1 DEF KindOK, Unanswered, IInv, Clean
  <2>3. Place'
    BY <1>2, <1>3, <1>4, <1>6, <2>1 DEF Place, AtSpot, ReadTwice
  <2> QED
    BY <1>1, <1>3, <1>4, <2>1, <2>2, <2>3, ServingFrame
<1> QED
  BY <1>8, <1>9, <1>10, <1>11, <1>12, <1>13, <1>14, <1>15

------------------------------------------------------------------------------
(* The other steps of the worker.                                            *)

LEMMA EndingSteps ==
  ASSUME IInv, TypeOK',
         \/ HeaderRecvFails \/ ReadOverlong \/ SendFails \/ DrainRecvFails
         \/ WebSocketRecv \/ WebSocketRecvFails \/ GatewaySpins \/ ServerDies
  PROVE  IInv'
<1>1. UNCHANGED <<reqs, owed, id, cur, garbled, responses>>
  BY DEF HeaderRecvFails, ReadOverlong, SendFails, DrainRecvFails,
         WebSocketRecv, WebSocketRecvFails, GatewaySpins, ServerDies, clientVars,
         serving
<1>2. pc' \in {"websocket", "spin", "closed", "dead"}
  BY DEF HeaderRecvFails, ReadOverlong, SendFails, DrainRecvFails,
         WebSocketRecv, WebSocketRecvFails, GatewaySpins, ServerDies
<1> QED
  BY <1>1, <1>2, EndingFrame DEF Reading

\* A body unit read as header lines: an answer has left it behind.
LEMMA GarbledStep ==
  ASSUME IInv, TypeOK', ReadBodyAsHeader
  PROVE  IInv'
<1>1. /\ pc = "header" /\ pc' = pc /\ buf # <<>> /\ buf' = Tail(buf)
      /\ Head(buf).place # 0 /\ TypeOK /\ StreamOK /\ KindOK
      /\ UNCHANGED <<reqs, owed, wire, id, cur, consumed, connected, need, status,
                     responses>>
  BY DEF ReadBodyAsHeader, IInv, Reading, clientVars, serving
<1>2. /\ StreamOK' /\ ReadPlace # 0
      /\ Behind(ReadId, ReadPlace, ReadId', ReadPlace')
  BY <1>1, Popped
<1>3. Desynchronised
  BY <1>1, <1>2 DEF IInv, Counting
<1>4. HeadsPassed'
  <2>1. \A i \in Nat : Passed(i) => Passed(i)'
    BY <1>1, <1>2, PassedOn
  <2> QED
    BY <1>1, <2>1, WorkerTyped DEF IInv, HeadsPassed, Reading
<1>5. KindOK' /\ Place' /\ Clean'
  BY <1>1 DEF KindOK, Place, Clean, Unanswered
<1>6. Rising' /\ Continuing'
  BY <1>1 DEF IInv, Rising, Continuing, EndsConnection, Unanswered
<1>7. Counting'
  BY <1>1, <1>3, SameAnswers DEF Counting
<1> QED
  BY <1>1, <1>2, <1>4, <1>5, <1>6, <1>7, SameAnswers DEF IInv, StreamOK

\* What Route and EarlyStatus say of a request.
LEMMA Routed ==
  ASSUME NEW r \in RequestRecords
  PROVE  /\ Route(r) = "body" => r.kind \in {"post", "postapp"}
         /\ Route(r) = "gateway" => r.kind = "app"
         /\ Route(r) = "respond" => r.kind \notin {"post", "postapp"}
         /\ r.kind = "sock" => EarlyStatus(r) = "101"
BY DEF Route, EarlyStatus, EarlyStatuses

\* The request made of left-over body: an answer has left it behind.
LEMMA MisreadStep ==
  ASSUME IInv, TypeOK', ReadMisread
  PROVE  IInv'
<1>1. /\ pc = "header" /\ garbled /\ id' = 0 /\ cur' \in Misread
      /\ ~garbled' /\ ~consumed' /\ pc' = Route(cur') /\ need' = cur'.body
      /\ status' = EarlyStatus(cur')
      /\ UNCHANGED <<reqs, owed, wire, buf, connected, responses>>
      /\ TypeOK /\ StreamOK /\ KindOK
  BY DEF ReadMisread, IInv, Reading, clientVars
<1>2. cur' \in RequestRecords /\ cur'.kind # "overlong"
  BY <1>1, MisreadTyped
<1>3. /\ pc' \in {"body", "gateway", "respond"}
      /\ pc' = "body" => cur'.kind \in {"post", "postapp"}
      /\ pc' = "gateway" => cur'.kind = "app"
      /\ pc' = "respond" => cur'.kind \notin {"post", "postapp"}
      /\ cur'.kind = "sock" => status' = "101"
  BY <1>1, <1>2, Routed, RouteTyped
<1>4. StreamOK' /\ ReadId' = ReadId /\ ReadPlace' = ReadPlace
  BY <1>1, StreamSame
<1>5. Desynchronised
  BY <1>1 DEF IInv, Counting
<1>6. KindOK'
  BY <1>1, <1>2, <1>3 DEF KindOK, Unanswered
<1>7. Place' /\ Clean'
  BY <1>1 DEF Place, Clean
<1>8. HeadsPassed'
  BY <1>1, <1>4 DEF IInv, HeadsPassed, Reading, Passed
<1>9. Rising' /\ Continuing'
  BY <1>1, <1>3 DEF IInv, Rising, Continuing, EndsConnection
<1>10. Counting'
  BY <1>1, <1>5, SameAnswers DEF Counting
<1> QED
  BY <1>1, <1>4, <1>6, <1>7, <1>8, <1>9, <1>10, SameAnswers DEF IInv, StreamOK

\* A header block is read: in step, it is that of the next request.
LEMMA HeadStep ==
  ASSUME IInv, TypeOK', ReadHead
  PROVE  IInv'
<1> DEFINE i == Head(buf).id
<1>1. /\ pc = "header" /\ buf # <<>> /\ buf' = Tail(buf) /\ Head(buf).place = 0
      /\ TypeOK /\ StreamOK /\ KindOK /\ connected /\ connected' = connected
      /\ reqs[i].kind # "overlong"
      /\ IF garbled THEN id' = 0 /\ cur' \in Misread
                    ELSE id' = i /\ cur' = reqs[i]
      /\ ~garbled' /\ ~consumed' /\ pc' = Route(cur') /\ need' = cur'.body
      /\ status' = EarlyStatus(cur')
      /\ UNCHANGED <<reqs, owed, wire, responses>>
  BY DEF ReadHead, IInv, Reading, KindOK, clientVars
<1>2. /\ StreamOK' /\ i = ReadId /\ ReadPlace = 0 /\ i \in 1 .. Len(reqs)
      /\ Behind(ReadId, ReadPlace, ReadId', ReadPlace')
  BY <1>1, Popped
<1>3. /\ reqs[i] \in RequestRecords /\ reqs[i].body \in Nat
      /\ cur' \in RequestRecords /\ cur'.kind # "overlong"
  <2>1. reqs[i] \in RequestRecords /\ reqs[i].body \in Nat
    BY <1>1, <1>2, StreamTyped DEF RequestRecords
  <2> QED
    BY <1>1, <2>1, MisreadTyped
<1> HIDE DEF i
<1>4. /\ pc' \in {"body", "gateway", "respond"}
      /\ pc' = "body" => cur'.kind \in {"post", "postapp"}
      /\ pc' = "gateway" => cur'.kind = "app"
      /\ pc' = "respond" => cur'.kind \notin {"post", "postapp"}
      /\ cur'.kind = "sock" => status' = "101"
  BY <1>1, <1>3, Routed, RouteTyped
<1>5. KindOK'
  BY <1>1, <1>2, <1>3, <1>4 DEF KindOK, Unanswered
<1>6. id' > 0 => /\ id' = i /\ cur' = reqs[i]
                 /\ IF reqs[i].body = 0 THEN ReadId' = i + 1 /\ ReadPlace' = 0
                    ELSE ReadId' = i /\ ReadPlace' = 1
  BY <1>1, <1>2, <1>3 DEF Behind
<1>7. Place' /\ Clean'
  BY <1>1, <1>3, <1>4, <1>6 DEF Place, Clean, AtSpot, ReadTwice
<1>8. HeadsPassed'
  <2>1. \A j \in Nat : Passed(j) => Passed(j)'
    BY <1>1, <1>2, PassedOn
  <2>2. id' > 0 => Passed(id)'
    BY <1>2, <1>6 DEF Passed
  <2> QED
    BY <1>1, <2>1, <2>2, WorkerTyped DEF IInv, HeadsPassed, Reading
<1>9. Rising'
  <2>1. \A k \in 1 .. Len(responses) : responses[k].id > 0 => responses[k].id < i
    BY <1>1, <1>2, WorkerTyped DEF IInv, HeadsPassed, Reading, Passed
  <2> QED
    BY <1>1, <1>6, <2>1 DEF IInv, Rising
<1>10. Continuing'
  BY <1>1, <1>4 DEF IInv, Continuing, EndsConnection
<1>11. Counting'
  BY <1>1, <1>2, <1>4, SameAnswers DEF IInv, Counting
<1> QED
  BY <1>1, <1>2, <1>5, <1>7, <1>8, <1>9, <1>10, <1>11, SameAnswers
  DEF IInv, StreamOK

------------------------------------------------------------------------------
(* The response.                                                             *)

\* A response more: it counts as one in step unless an earlier one has left
\* body bytes behind.
LEMMA Answered ==
  ASSUME TypeOK, NEW a, responses' = Append(responses, a)
  PROVE  /\ Len(responses') = Len(responses) + 1
         /\ responses'[Len(responses) + 1] = a
         /\ \A k \in 1 .. Len(responses) : responses'[k] = responses[k]
         /\ Desynchronised' <=> Desynchronised \/ LeavesBody(a)
         /\ Desynchronised => InStep' = InStep
         /\ ~Desynchronised => InStep' = 1 .. Len(responses) + 1
<1>1. /\ Len(responses) \in Nat /\ Len(responses') = Len(responses) + 1
      /\ responses'[Len(responses) + 1] = a
      /\ \A k \in 1 .. Len(responses) : responses'[k] = responses[k]
  <2>1. responses \in Seq(Responses)
    BY DEF TypeOK
  <2> QED
    BY <2>1
<1> DEFINE n == Len(responses)
           Out == {k \in 1 .. n : LeavesBody(responses[k])}
           OutNext == {k \in 1 .. n + 1 : LeavesBody(responses'[k])}
<1>2. /\ InStep = {k \in 1 .. n : \A j \in Out : k <= j}
      /\ InStep' = {k \in 1 .. n + 1 : \A j \in OutNext : k <= j}
      /\ Desynchronised <=> Out # {}
      /\ Desynchronised' <=> OutNext # {}
  BY <1>1 DEF InStep, Desynchronised, LeavesBody
<1>3. OutNext = IF LeavesBody(a) THEN Out \cup {n + 1} ELSE Out
  BY <1>1
<1>4. Out \subseteq 1 .. n
  OBVIOUS
<1> HIDE DEF Out, OutNext
<1>5. CASE Desynchronised
  <2>1. PICK j \in Out : TRUE
    BY <1>2, <1>5
  <2>2. n + 1 \notin InStep'
    BY <1>1, <1>2, <1>3, <1>4, <2>1
  <2>3. ASSUME NEW k \in 1 .. n
        PROVE  k \in InStep' <=> k \in InStep
    BY <1>1, <1>2, <1>3, <1>4
  <2>4. InStep' \subseteq 1 .. n + 1 /\ InStep \subseteq 1 .. n
    BY <1>2
  <2>5. InStep' = InStep
    <3>1. \A k \in 1 .. n + 1 : k \in 1 .. n \/ k = n + 1
      BY <1>1
    <3>2. InStep' \subseteq 1 .. n
      BY <2>2, <2>4, <3>1
    <3> QED
      BY <2>3, <2>4, <3>2
  <2>6. Desynchronised'
    BY <1>2, <1>3, <2>1
  <2> QED
    BY <1>1, <1>5, <2>5, <2>6
<1>6. CASE ~Desynchronised
  <2>1. OutNext = IF LeavesBody(a) THEN {n + 1} ELSE {}
    BY <1>2, <1>3, <1>6
  <2>2. InStep' = 1 .. n + 1
    BY <1>1, <1>2, <2>1
  <2>3. Desynchronised' <=> LeavesBody(a)
    BY <1>2, <2>1
  <2> QED
    BY <1>1, <1>6, <2>2, <2>3
<1> QED
  BY <1>5, <1>6

\* A keep-alive answer that leaves nothing behind is sent at the end of the
\* body, or the rest of the body is drained.
LEMMA ResponseStep ==
  ASSUME IInv, TypeOK', SendResponse
  PROVE  IInv'
<1> DEFINE a == [id |-> id, req |-> cur, status |-> status]
           n == Len(responses)
<1>1. /\ pc = "respond" /\ responses' = Append(responses, a)
      /\ pc' = AfterResponse
      /\ need' = (IF pc' = "drain" THEN ContentLength ELSE need)
      /\ UNCHANGED <<reqs, owed, wire, buf, id, cur, garbled, connected, consumed,
                     status>>
  BY DEF SendResponse, clientVars, serving
<1>2. /\ TypeOK /\ StreamOK /\ id \in Nat /\ need \in Nat /\ cur.body \in Nat
      /\ id > 0 => id \in 1 .. Len(reqs) /\ reqs[id] = cur
      /\ KindOK /\ Place /\ Unanswered
  BY <1>1, ServingTyped DEF Unanswered
<1>3. n \in Nat /\ \A k \in 1 .. n : responses[k].id \in Nat
  BY <1>2, WorkerTyped
<1>4. a.id = id /\ a.req = cur /\ a.status = status
  OBVIOUS
<1> HIDE DEF a, n
<1>5. /\ Len(responses') = n + 1 /\ responses'[n + 1] = a
      /\ \A k \in 1 .. n : responses'[k] = responses[k]
      /\ Desynchronised' <=> Desynchronised \/ LeavesBody(a)
      /\ Desynchronised => InStep' = InStep
      /\ ~Desynchronised => InStep' = 1 .. n + 1
  BY <1>1, <1>2, Answered DEF n
<1>6. StreamOK' /\ ReadId' = ReadId /\ ReadPlace' = ReadPlace
  BY <1>1, <1>2, StreamSame
<1>7. /\ pc' \in {"websocket", "drain", "header", "closed"}
      /\ pc' \in {"drain", "header"} =>
           cur.kind \notin {"sock", "overlong"} /\ connected
      /\ pc' = "drain" =>
           /\ ContentLength > 0 /\ ~consumed
           /\ cur.kind \notin {"badline", "refused"}
      /\ pc' = "header" =>
           /\ ~cur.close /\ cur.kind # "badline"
           /\ consumed \/ cur.kind = "refused" \/ ~(cur.body > 0)
  BY <1>1, <1>2 DEF KindOK, AfterResponse, LeftToDrain, KeepAlive,
     ContentLength, Unanswered
<1>8. pc' = "drain" => need' = cur.body /\ cur.body > 0
  BY <1>1, <1>7 DEF ContentLength
<1>9. KindOK'
  BY <1>1, <1>2, <1>7, <1>8 DEF KindOK, Unanswered
<1>10. Place'
  <2>1. ASSUME connected, id > 0, pc' = "drain"
        PROVE  AtSpot(id, cur.body)
    BY <1>1, <1>2, <1>7, <2>1 DEF Place
  <2> QED
    BY <1>1, <1>2, <1>6, <1>7, <1>8, <2>1 DEF Place, AtSpot
<1>16. Clean'
  <2>1. pc' = "drain" => ~ReadTwice
    BY <1>1, <1>2, <1>7 DEF KindOK, ReadTwice
  <2> QED
    BY <1>1, <1>2, <1>7, <2>1 DEF IInv, Clean, Unanswered
<1>11. HeadsPassed'
  <2>1. ASSUME NEW j \in Nat, Passed(j)
        PROVE  Passed(j)'
    BY <1>6, <2>1 DEF Passed
  <2>2. /\ id > 0 => Passed(id)
        /\ \A k \in 1 .. n : responses[k].id > 0 => Passed(responses[k].id)
    BY <1>1 DEF IInv, HeadsPassed, Reading, n
  <2>3. ASSUME NEW k \in 1 .. n + 1, NEW i, i = responses'[k].id
        PROVE  i > 0 => Passed(i)'
    <3>1. CASE k = n + 1
      BY <1>2, <1>4, <1>5, <2>1, <2>2, <2>3, <3>1
    <3>2. CASE k \in 1 .. n
      BY <1>3, <1>5, <2>1, <2>2, <2>3, <3>2
    <3> QED
      BY <1>3, <3>1, <3>2
  <2>4. id' > 0 => Passed(id)'
    BY <1>1, <1>2, <2>1, <2>2
  <2> QED
    BY <1>5, <2>3, <2>4 DEF HeadsPassed
<1>12. Rising'
  <2>1. \A k \in 1 .. n : id > 0 /\ responses[k].id > 0 => responses[k].id < id
    BY <1>2 DEF IInv, Rising, n
  <2>2. \A j, k \in 1 .. n + 1 :
          j < k /\ responses'[j].id > 0 /\ responses'[k].id > 0
            => responses'[j].id < responses'[k].id
    BY <1>3, <1>4, <1>5, <2>1 DEF IInv, Rising, n
  <2> QED
    BY <1>5, <1>7, <2>2 DEF Rising, Unanswered
<1>13. Continuing'
  <2>1. \A k \in 1 .. n : ~EndsConnection(responses[k].req)
    BY <1>2 DEF IInv, Continuing, n
  <2>2. pc' = "header" => ~EndsConnection(a.req)
    BY <1>4, <1>7 DEF EndsConnection
  <2>3. responses' # <<>>
    BY <1>3, <1>5
  <2> QED
    BY <1>1, <1>3, <1>4, <1>5, <1>7, <2>1, <2>2, <2>3
    DEF Continuing, Unanswered, EndsConnection
<1>14. Counting'
  <2> SUFFICES ASSUME ~Desynchronised'
               PROVE  Counting'
    BY DEF Counting
  <2>1. /\ ~Desynchronised /\ ~LeavesBody(a) /\ id = n + 1
        /\ \A k \in 1 .. n : responses[k].id = k
    BY <1>2, <1>5 DEF IInv, Counting, n
  <2>2. \A k \in 1 .. n + 1 : responses'[k].id = k
    BY <1>3, <1>4, <1>5, <2>1
  <2>3. ASSUME pc' = "header"
        PROVE  ReadId' = n + 2 /\ ReadPlace' = 0 /\ ~garbled'
    <3>1. connected /\ id > 0
      BY <1>3, <1>7, <2>1, <2>3
    <3>2. IF consumed
          THEN \/ AtSpot(id, 0) \/ ReadTwice
               \/ cur.kind = "app" /\ cur.body > 1 /\ status = "502"
          ELSE AtSpot(id, cur.body)
      BY <1>1, <1>2, <3>1 DEF Place
    <3>3. AtSpot(id, 0)
      BY <1>2, <1>4, <1>7, <2>1, <2>3, <3>2 DEF LeavesBody, ReadTwice
    <3>4. ~garbled
      BY <1>2, <1>4, <2>1, <3>1 DEF IInv, Clean, LeavesBody, ReadTwice
    <3> QED
      BY <1>1, <1>3, <1>6, <2>1, <3>3, <3>4 DEF AtSpot
  <2> QED
    BY <1>1, <1>3, <1>5, <1>7, <2>1, <2>2, <2>3 DEF Counting, Unanswered
<1>15. InStepPrefix'
  <2>1. CASE Desynchronised
    <3>1. Desynchronised' /\ InStep' = InStep
      BY <1>5, <2>1
    <3>2. PICK m \in 0 .. n : InStep = 1 .. m
      BY DEF IInv, InStepPrefix, n
    <3>3. m \in 0 .. n + 1 /\ \A k \in InStep : k \in 1 .. n
      BY <1>3, <3>2
    <3>4. \A k \in InStep : responses'[k].id = k
      BY <1>5, <3>3 DEF IInv, InStepPrefix
    <3> QED
      BY <1>5, <3>1, <3>2, <3>3, <3>4 DEF InStepPrefix
  <2>2. CASE ~Desynchronised
    <3>1. InStep' = 1 .. n + 1 /\ n + 1 \in 0 .. n + 1
      BY <1>3, <1>5, <2>2
    <3>2. \A k \in 1 .. n + 1 : responses'[k].id = k
      BY <1>2, <1>3, <1>4, <1>5, <2>2 DEF IInv, Counting, n
    <3> QED
      BY <1>5, <3>1, <3>2 DEF InStepPrefix
  <2> QED
    BY <2>1, <2>2
<1> QED
  BY <1>1, <1>6, <1>9, <1>10, <1>11, <1>12, <1>13, <1>14, <1>15, <1>16
  DEF IInv, StreamOK

\* The last unit of the body drained: the worker is at the next request.
LEMMA DrainStep ==
  ASSUME IInv, TypeOK', Drain
  PROVE  IInv'
<1>1. /\ pc = "drain" /\ TakeUnit
      /\ pc' = (IF need' > 0 THEN "drain"
                ELSE IF KeepAlive THEN "header" ELSE "closed")
      /\ UNCHANGED <<reqs, owed, wire, connected, id, cur, consumed, status,
                     responses>>
  BY DEF Drain, clientVars, serving
<1>2. /\ TypeOK /\ StreamOK /\ id \in Nat /\ need \in Nat /\ cur.body \in Nat
      /\ id > 0 => id \in 1 .. Len(reqs) /\ reqs[id] = cur
      /\ KindOK /\ Place
  BY <1>1, ServingTyped
<1>3. need > 0 /\ connected /\ cur.kind \notin {"sock", "overlong"}
  BY <1>1, <1>2 DEF KindOK
<1>4. /\ need' \in Nat /\ garbled' \in BOOLEAN
      /\ StreamOK'
      /\ \/ ReadId' = ReadId /\ ReadPlace' = ReadPlace
         \/ Behind(ReadId, ReadPlace, ReadId', ReadPlace')
      /\ ~garbled /\ ReadId = id =>
           /\ need' = need - 1 /\ ~garbled'
           /\ Behind(ReadId, ReadPlace, ReadId', ReadPlace')
  BY <1>1, <1>2, <1>3, UnitTaken
<1>5. /\ need' \in Nat
      /\ need' = 0 \/ pc' = "drain"
      /\ pc' = "drain" => need' > 0
      /\ pc' \in {"drain", "header", "closed"}
      /\ pc' = "header" => ~EndsConnection(cur)
  BY <1>1, <1>2, <1>3, <1>4 DEF KeepAlive, EndsConnection
<1>6. KindOK'
  BY <1>1, <1>2, <1>3, <1>5 DEF KindOK, Unanswered
<1>7. ASSUME id > 0
      PROVE  /\ need <= cur.body /\ need' = need - 1 /\ ~garbled'
             /\ IF need = 1 THEN ReadId' = id + 1 /\ ReadPlace' = 0
                ELSE ReadId' = id /\ ReadPlace' = reqs[id].body - (need - 1) + 1
  <2>1. AtSpot(id, need) /\ need <= cur.body
    BY <1>1, <1>2, <1>3, <1>7 DEF Place
  <2>2. ~garbled /\ ReadId = id
    BY <1>1, <1>3, <1>7, <2>1 DEF IInv, Clean, AtSpot
  <2>3. /\ need' = need - 1 /\ ~garbled'
        /\ Behind(ReadId, ReadPlace, ReadId', ReadPlace')
    BY <1>4, <2>2
  <2> QED
    BY <1>1, <1>2, <1>3, <1>7, <2>1, <2>3, SpotMoved
<1>8. Place' /\ Clean'
  BY <1>1, <1>2, <1>5, <1>7 DEF Place, Clean, AtSpot
<1>9. HeadsPassed'
  <2>1. \A i \in Nat : Passed(i) => Passed(i)'
    BY <1>2, <1>4, PassedOn
  <2> QED
    BY <1>1, <1>2, <2>1, WorkerTyped DEF IInv, HeadsPassed, Reading
<1>10. Rising' /\ Continuing'
  <2>1. /\ Len(responses) \in Nat /\ responses # <<>>
        /\ responses[Len(responses)].req = cur
        /\ \A j, k \in 1 .. Len(responses) :
             j < k => ~EndsConnection(responses[j].req)
    BY <1>1, <1>2, WorkerTyped DEF IInv, Continuing
  <2>2. pc' = "header" =>
          \A k \in 1 .. Len(responses) : ~EndsConnection(responses[k].req)
    <3> SUFFICES ASSUME pc' = "header", NEW k \in 1 .. Len(responses)
                 PROVE  ~EndsConnection(responses[k].req)
      OBVIOUS
    <3>1. CASE k = Len(responses)
      BY <1>5, <2>1, <3>1
    <3>2. CASE k < Len(responses)
      <4>1. Len(responses) \in 1 .. Len(responses)
        BY <2>1
      <4> QED
        BY <2>1, <3>2, <4>1
    <3> QED
      BY <2>1, <3>1, <3>2
  <2>3. Continuing'
    BY <1>1, <1>5, <2>1, <2>2 DEF Continuing, Unanswered, EndsConnection
  <2> QED
    BY <1>1, <1>5, <2>3 DEF IInv, Rising, Unanswered
<1>11. Counting'
  <2> SUFFICES ASSUME ~Desynchronised'
               PROVE  Counting'
    BY DEF Counting
  <2>1. /\ id = Len(responses)
        /\ \A k \in 1 .. Len(responses) : responses[k].id = k
    BY <1>1, SameAnswers DEF IInv, Counting
  <2>2. id > 0
    BY <1>1, <1>2, <2>1, WorkerTyped DEF IInv, Continuing
  <2>3. pc' = "header" =>
          ReadId' = Len(responses) + 1 /\ ReadPlace' = 0 /\ ~garbled'
    BY <1>2, <1>3, <1>5, <1>7, <2>1, <2>2
  <2> QED
    BY <1>1, <1>5, <2>1, <2>3 DEF Counting, Unanswered
<1> QED
  BY <1>1, <1>4, <1>6, <1>8, <1>9, <1>10, <1>11, SameAnswers
  DEF IInv, StreamOK

------------------------------------------------------------------------------
(* The invariant.                                                            *)

LEMMA InitIInv == ASSUME Init PROVE IInv
<1>1. TypeOK
  BY StartTyped DEF Init, TypeOK, Places, Statuses
<1>2. OwedOK /\ StreamOK
  BY DEF Init, OwedOK, StreamOK, Left
<1>3. KindOK /\ Place /\ Clean /\ HeadsPassed
  BY DEF Init, KindOK, Place, Clean, HeadsPassed, Unanswered
<1>4. Rising /\ Continuing
  BY DEF Init, Rising, Continuing, Unanswered
<1>5. Counting
  BY DEF Init, Counting, Unanswered, ReadId, ReadPlace, Left, SendId, SendPlace
<1>6. InStepPrefix
  <2>1. InStep = {} /\ Len(responses) = 0 /\ 1 .. 0 = {} /\ 0 \in 0 .. 0
    BY DEF Init, InStep
  <2> QED
    BY <2>1 DEF InStepPrefix
<1> QED
  BY <1>1, <1>2, <1>3, <1>4, <1>5, <1>6 DEF IInv

LEMMA NextConnectionStep == ASSUME TypeOK', NextConnection PROVE IInv'
<1>1. OwedOK' /\ StreamOK'
  BY DEF NextConnection, OwedOK, StreamOK, Left
<1>2. KindOK' /\ Place' /\ Clean' /\ HeadsPassed'
  BY DEF NextConnection, KindOK, Place, Clean, HeadsPassed, Unanswered
<1>3. Rising' /\ Continuing'
  BY DEF NextConnection, Rising, Continuing, Unanswered
<1>4. Counting'
  BY DEF NextConnection, Counting, Unanswered, ReadId, ReadPlace, Left, SendId,
         SendPlace
<1>5. InStepPrefix'
  <2>1. InStep' = {} /\ Len(responses') = 0 /\ 1 .. 0 = {} /\ 0 \in 0 .. 0
    BY DEF NextConnection, InStep
  <2> QED
    BY <2>1 DEF InStepPrefix
<1> QED
  BY <1>1, <1>2, <1>3, <1>4, <1>5 DEF IInv

LEMMA Invariance ==
  ASSUME IInv, [Next]_vars
  PROVE  IInv'
<1>1. TypeOK'
  BY TypeInvariance
<1>2. CASE Client
  BY <1>1, <1>2, ClientSteps
<1>3. CASE Worker
  BY <1>1, <1>3, RecvStep, HandlerSteps, EndingSteps, GarbledStep, HeadStep,
     MisreadStep, ResponseStep, DrainStep DEF Worker
<1>6. CASE ServerDies
  BY <1>1, <1>6, EndingSteps
<1>4. CASE NextConnection
  BY <1>1, <1>4, NextConnectionStep
<1>5. CASE UNCHANGED vars
  <2>1. /\ UNCHANGED <<reqs, owed, wire, buf>>
        /\ UNCHANGED <<connected, pc, serving, garbled, need, status, responses>>
    BY <1>5 DEF vars, clientVars
  <2>2. OwedOK' /\ (Reading => StreamOK') /\ Len(reqs) \in Nat
    BY <2>1, StreamSame, StreamTyped DEF IInv, OwedOK
  <2> QED
    BY <1>1, <2>1, <2>2, StreamSame, ClientFrame
<1> QED
  BY <1>2, <1>3, <1>4, <1>5, <1>6 DEF Next

\* What has been read, what is on its way and what has been answered fit together
\* after every step of the client and of the worker.
THEOREM Invariant == Spec => []IInv
<1>1. Init => IInv
  BY InitIInv
<1>2. IInv /\ [Next]_vars => IInv'
  BY Invariance
<1> QED
  BY <1>1, <1>2, PTL DEF Spec

------------------------------------------------------------------------------
(* The worker and its client stay in step.                                   *)

LEMMA AtHeader ==
  ASSUME IInv, pc = "header", ~Desynchronised
  PROVE  LET rest == buf \o wire
         IN  /\ ~garbled
             /\ rest = <<>> => Len(responses) = Len(reqs) /\ owed = 0
             /\ rest # <<>> => rest[1] = HeadUnit(Len(responses) + 1)
<1>1. /\ TypeOK /\ StreamOK /\ Len(responses) \in Nat /\ ~garbled
      /\ ReadId = Len(responses) + 1 /\ ReadPlace = 0
  BY WorkerTyped DEF IInv, Reading, Counting
<1>2. /\ Len(buf \o wire) = Left /\ Left \in Nat
      /\ Left > 0 => (buf \o wire)[1] = Unit(1)
  <2>1. buf \in Seq(Units) /\ wire \in Seq(Units)
    BY <1>1 DEF TypeOK
  <2> QED
    BY <2>1 DEF Left, Unit
<1>3. CASE Left = 0
  <2>1. SendId = Len(responses) + 1 /\ SendPlace = 0
    BY <1>1, <1>3 DEF ReadId, ReadPlace
  <2>2. ~(owed > 0)
    <3> SUFFICES ASSUME owed > 0
                 PROVE  FALSE
      OBVIOUS
    <3>1. Len(reqs) \in 1 .. Len(reqs) /\ owed <= reqs[Len(reqs)].body
      BY <1>1, StreamTyped DEF StreamOK, OwedOK
    <3>2. reqs[Len(reqs)].body \in Nat
      BY <1>1, <3>1, StreamTyped DEF RequestRecords
    <3> QED
      BY <1>1, <2>1, <3>1, <3>2, StreamTyped DEF SendPlace
  <2>3. owed = 0 /\ Len(responses) = Len(reqs)
    BY <1>1, <2>1, <2>2, StreamTyped DEF SendId
  <2>4. buf \o wire = <<>>
    <3>1. buf \o wire \in Seq(Units)
      BY <1>1 DEF TypeOK
    <3> QED
      BY <1>2, <1>3, <3>1
  <2> QED
    BY <1>1, <2>3, <2>4
<1>4. CASE Left > 0
  <2>1. Unit(1).id = Len(responses) + 1 /\ Unit(1).place = 0
    BY <1>1, <1>4 DEF ReadId, ReadPlace
  <2>2. Unit(1) \in Units
    <3>1. 1 \in 1 .. Left
      BY <1>2, <1>4
    <3> QED
      BY <1>1, <3>1, UnitTyped
  <2>3. Unit(1) = HeadUnit(Len(responses) + 1)
    BY <2>1, <2>2 DEF Units, HeadUnit
  <2>4. buf \o wire # <<>>
    BY <1>2, <1>4
  <2> QED
    BY <1>1, <1>2, <1>4, <2>3, <2>4
<1> QED
  BY <1>2, <1>3, <1>4

\* Whatever the client sends ahead, and however it ends: unless an answer has
\* left body bytes behind, the worker reads the header of the first request it
\* has not answered, and no request is answered twice, out of turn or behind
\* the answer that ended the connection (the loop of HTTP_Thread::run).
THEOREM StaysInStep == Spec => []RequestsInStep
<1>1. IInv => RequestsInStep
  <2> SUFFICES ASSUME IInv
               PROVE  RequestsInStep
    OBVIOUS
  <2>1. Aligned
    BY AtHeader DEF Aligned
  <2>2. OneAnswerEach
    BY DEF IInv, Rising, Continuing, OneAnswerEach
  <2> QED
    BY <2>1, <2>2 DEF IInv, RequestsInStep
<1> QED
  BY <1>1, Invariant, PTL

------------------------------------------------------------------------------
(* HttpConnection implements RequestResponse.                                *)

Answers == [k \in 1 .. Cardinality(InStep) |-> responses[k].id]

LEMMA Counted ==
  ASSUME NEW m \in Nat
  PROVE  Cardinality(1 .. m) = m
<1>1. 1 \in Int /\ m \in Int
  OBVIOUS
<1> QED
  BY <1>1, FS_Interval

LEMMA OneMore ==
  ASSUME NEW m \in Nat
  PROVE  LET s == [k \in 1 .. m |-> k]
         IN  /\ Len(s) = m
             /\ [k \in 1 .. m + 1 |-> k] = Append(s, Len(s) + 1)
<1> DEFINE s == [k \in 1 .. m |-> k]
           t == [k \in 1 .. m + 1 |-> k]
           u == Append(s, m + 1)
<1>1. s \in Seq(Nat) /\ Len(s) = m /\ t \in Seq(Nat) /\ Len(t) = m + 1
  OBVIOUS
<1>2. u \in Seq(Nat) /\ Len(u) = m + 1
  BY <1>1
<1>3. \A k \in 1 .. m + 1 : t[k] = u[k]
  BY <1>1
<1> HIDE DEF t, u
<1>4. t = u
  BY <1>1, <1>2, <1>3, SeqEqual
<1> QED
  BY <1>1, <1>4 DEF t, u

\* The answers in step are those of the requests 1, 2, ...
LEMMA AnswersAre ==
  ASSUME IInv
  PROVE  \E m \in Nat : /\ Answers = [k \in 1 .. m |-> k]
                        /\ ~Desynchronised => m = Len(responses)
<1>1. PICK m \in 0 .. Len(responses) : InStep = 1 .. m
  BY DEF IInv, InStepPrefix
<1>2. m \in Nat /\ Cardinality(InStep) = m /\ Len(responses) \in Nat
  BY <1>1, Counted, WorkerTyped DEF IInv
<1>3. \A k \in 1 .. m : responses[k].id = k
  BY <1>1 DEF IInv, InStepPrefix
<1>4. ~Desynchronised => m = Len(responses)
  BY <1>1, <1>2, Counted, WorkerTyped DEF IInv, InStepPrefix
<1>5. Answers = [k \in 1 .. m |-> k]
  BY <1>2, <1>3 DEF Answers
<1> QED
  BY <1>2, <1>4, <1>5

\* One answer for each request, in the order of the requests and never before
\* the request, until the connection ends: every step of the client and of the
\* worker is one of RequestResponse or changes nothing there.
THEOREM InOrder == Spec => AnswersInOrder
<1>1. Init => Promise!Init
  <2> SUFFICES ASSUME Init
               PROVE  Promise!Init
    OBVIOUS
  <2>1. InStep = {} /\ Len(reqs) = 0 /\ Open = TRUE
    BY DEF Init, InStep, Open
  <2>2. Cardinality(InStep) = 0 /\ 1 .. 0 = {}
    BY <2>1, FS_EmptySet
  <2> QED
    BY <2>1, <2>2 DEF Promise!Init
<1>2. IInv /\ IInv' /\ [Next]_vars => [Promise!Next]_(Promise!vars)
  <2> SUFFICES ASSUME IInv, IInv', [Next]_vars
               PROVE  [Promise!Next]_(Promise!vars)
    OBVIOUS
  <2>1. TypeOK /\ Len(reqs) \in Nat
    BY StreamTyped DEF IInv
  <2>2. responses' = responses => Answers' = Answers
    BY SameAnswers DEF Answers
  <2>3. ASSUME NEW r \in Requests, SendHead(r)
        PROVE  Promise!Ask
    <3>1. Len(reqs') = Len(reqs) + 1
      BY <2>1, <2>3 DEF SendHead, TypeOK
    <3>2. responses' = responses /\ Open' = Open /\ Open
      BY <2>3 DEF SendHead, Open
    <3> QED
      BY <2>2, <3>1, <3>2 DEF Promise!Ask, Answers
  <2>4. CASE NextConnection
    <3>1. /\ Len(reqs') = 0 /\ ~Open /\ Open'
          /\ InStep' = {}
      BY <2>4 DEF NextConnection, InStep, Open
    <3>2. Cardinality(InStep') = 0 /\ 1 .. 0 = {}
      BY <3>1, FS_EmptySet
    <3>3. Answers' = <<>>
      BY <3>2 DEF Answers
    <3>4. Open' = TRUE
      BY <3>1 DEF Open
    <3> QED
      BY <3>1, <3>3, <3>4 DEF Promise!Next, Promise!NextConnection, Answers
  <2>5. ASSUME responses' = responses, reqs' = reqs,
               ~Open => ~Open'
        PROVE  [Promise!Next]_(Promise!vars)
    <3>1. Answers' = Answers /\ Len(reqs') = Len(reqs)
      BY <2>2, <2>5
    <3>4. Open \in BOOLEAN /\ Open' \in BOOLEAN
      BY DEF Open
    <3>2. CASE Open /\ ~Open'
      <4>1. Open' = FALSE
        BY <3>2, <3>4
      <4> QED
        BY <3>1, <3>2, <4>1 DEF Promise!Next, Promise!End, Answers
    <3>3. CASE ~(Open /\ ~Open')
      <4>1. Open' = Open
        BY <2>5, <3>3, <3>4
      <4> QED
        BY <3>1, <4>1 DEF Promise!vars, Answers
    <3> QED
      BY <3>2, <3>3
  <2>6. CASE SendResponse
    <3>1. reqs' = reqs /\ pc = "respond" /\ Open = TRUE /\ Open' \in BOOLEAN
      BY <2>6 DEF SendResponse, clientVars, Open
    <3>2. Len(responses') = Len(responses) + 1 /\ Len(responses) \in Nat
          /\ (Desynchronised => InStep' = InStep /\ Desynchronised')
          /\ (~Desynchronised => InStep' = 1 .. Len(responses) + 1)
          /\ \A k \in 1 .. Len(responses) : responses'[k] = responses[k]
      BY <2>1, <2>6, Answered, WorkerTyped DEF SendResponse
    <3>3. CASE Desynchronised
      <4>1. PICK m \in 0 .. Len(responses) : InStep = 1 .. m
        BY DEF IInv, InStepPrefix
      <4>2. Cardinality(InStep) = m /\ \A k \in 1 .. m : responses'[k] = responses[k]
        BY <3>2, <4>1, Counted
      <4>3. Answers' = Answers
        BY <3>2, <3>3, <4>1, <4>2 DEF Answers
      <4>4. CASE Open' = FALSE
        BY <3>1, <4>3, <4>4 DEF Promise!Next, Promise!End, Answers
      <4>5. CASE Open' = TRUE
        BY <3>1, <4>3, <4>5 DEF Promise!vars, Answers
      <4> QED
        BY <3>1, <4>4, <4>5
    <3>4. CASE ~Desynchronised
      <4> DEFINE n == Len(responses)
      <4>1. Answers = [k \in 1 .. n |-> k]
        BY <3>4, AnswersAre
      <4>2. Answers' = [k \in 1 .. n + 1 |-> k]
        <5>1. InStep' = 1 .. n + 1 /\ n + 1 \in Nat
          BY <3>2, <3>4
        <5>2. Cardinality(InStep') = n + 1
          BY <5>1, Counted
        <5>3. \A k \in InStep' : responses'[k].id = k
          BY DEF IInv, InStepPrefix
        <5> QED
          BY <5>1, <5>2, <5>3 DEF Answers
      <4>3. Answers' = Append(Answers, Len(Answers) + 1) /\ Len(Answers) = n
        BY <3>2, <4>1, <4>2, OneMore
      <4>4. n < Len(reqs)
        BY <2>1, <3>1, <3>2, <3>4, WorkerTyped DEF IInv, Counting, Unanswered
      <4> QED
        BY <3>1, <4>3, <4>4 DEF Promise!Next, Promise!Answer, Answers
    <3> QED
      BY <3>3, <3>4
  <2>7. CASE SendBody \/ (\E how \in {"closed", "reset"} : ClientEnds(how))
    <3>1. responses' = responses /\ Open' = Open
      BY <2>7 DEF SendBody, ClientEnds, Open
    <3>2. reqs' = reqs
      BY <2>7 DEF SendBody, ClientEnds
    <3> QED
      BY <2>5, <3>1, <3>2
  <2>8. CASE (Worker /\ ~SendResponse) \/ ServerDies
    <3>1. responses' = responses /\ reqs' = reqs
      BY <2>8 DEF Worker, Recv, HeaderRecvFails, ReadOverlong, ReadBodyAsHeader,
         ReadHead, ReadMisread, BodyRead, BodyRecvFails, GatewayFails,
         GatewayStarts, ChunkPassedOn, ChunkRefused, ChunkRecvFails,
         GatewayAnswers, GatewaySpins, SendFails, Drain, DrainRecvFails,
         WebSocketRecv, WebSocketRecvFails, ServerDies, clientVars
    <3>2. Open \/ ~Open'
      BY <2>8 DEF Worker, Recv, HeaderRecvFails, ReadOverlong, ReadBodyAsHeader,
         ReadHead, ReadMisread, BodyRead, BodyRecvFails, GatewayFails,
         GatewayStarts, ChunkPassedOn, ChunkRefused, ChunkRecvFails,
         GatewayAnswers, GatewaySpins, SendFails, Drain, DrainRecvFails,
         WebSocketRecv, WebSocketRecvFails, ServerDies, Waiting, Open
    <3> QED
      BY <2>5, <3>1, <3>2
  <2>9. CASE UNCHANGED vars
    BY <2>5, <2>9 DEF vars, clientVars, Open
  <2> QED
    BY <2>3, <2>4, <2>6, <2>7, <2>8, <2>9 DEF Next, Client, Promise!Next
<1> QED
  BY <1>1, <1>2, Invariant, PTL DEF Spec, AnswersInOrder, Promise!Spec

------------------------------------------------------------------------------
(* A client that owes nothing is not given up.                               *)

\* The receive timeout closes the connection of a client that has sent its
\* request only where the body is read twice (do_post() and invoke_fastcgi())
\* or where there is none to read (SocketBuffer::read with nothing to read).
THEOREM NoIdleTimeout == Spec => TimeoutHasCause
<1>1. IInv /\ [Next]_vars =>
        [TimesOutOnWholeRequest =>
           cur.kind = "postapp" \/ (cur.kind = "post" /\ cur.body = 0)]_vars
  <2> SUFFICES ASSUME IInv, [Next]_vars, TimesOutOnWholeRequest
               PROVE  cur.kind = "postapp" \/ (cur.kind = "post" /\ cur.body = 0)
    OBVIOUS
  <2>1. /\ connected /\ ~connected' /\ client = "open" /\ id > 0 /\ Whole(id)
        /\ pc \in {"body", "appbody", "drain"}
    BY DEF TimesOutOnWholeRequest
  <2>2. BodyRecvFails \/ ChunkRecvFails \/ DrainRecvFails
    BY <2>1 DEF Next, Client, SendHead, SendBody, ClientEnds, NextConnection,
       Worker, Recv, HeaderRecvFails, ReadOverlong, ReadBodyAsHeader,
       ReadHead, ReadMisread, BodyRead, GatewayFails, GatewayStarts,
       ChunkPassedOn, ChunkRefused, GatewayAnswers, GatewaySpins, SendResponse,
       SendFails, Drain, WebSocketRecv, WebSocketRecvFails, ServerDies, vars
  <2>3. buf = <<>> /\ wire = <<>>
    BY <2>1, <2>2 DEF BodyRecvFails, ChunkRecvFails, DrainRecvFails, Waiting,
       RecvFails
  <2>4. ReadId = SendId /\ ReadPlace = SendPlace
    BY <2>3 DEF ReadId, ReadPlace, Left
  <2>5. /\ TypeOK /\ StreamOK /\ id \in Nat /\ need \in Nat /\ cur.body \in Nat
        /\ id \in 1 .. Len(reqs) /\ reqs[id] = cur /\ KindOK /\ Place
    BY <2>1, ServingTyped DEF Unanswered
  <2> SUFFICES ASSUME cur.kind # "postapp"
               PROVE  cur.kind = "post" /\ cur.body = 0
    OBVIOUS
  <2>6. AtSpot(id, need) /\ need <= cur.body
    BY <2>1, <2>5 DEF Place, ReadTwice
  <2>7. need = 0
    <3> SUFFICES ASSUME need > 0
                 PROVE  FALSE
      BY <2>5
    <3>1. SendId = id /\ SendPlace = cur.body - need + 1
      BY <2>4, <2>5, <2>6 DEF AtSpot
    <3>2. SendPlace > 0
      BY <2>5, <2>6, <3>1
    <3>3. owed > 0 /\ id = Len(reqs)
      BY <3>1, <3>2 DEF SendId, SendPlace
    <3> QED
      BY <2>1, <2>5, <3>3, StreamTyped DEF Whole
  <2>8. pc = "body" /\ cur.kind \in {"post", "postapp"} /\ ~(cur.body > 0)
    BY <2>1, <2>5, <2>7 DEF KindOK
  <2> QED
    BY <2>5, <2>8
<1> QED
  BY <1>1, Invariant, PTL DEF Spec, TimeoutHasCause

===============================================================================
