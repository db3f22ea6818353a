---------------------------- MODULE WebSocketProofs ----------------------------
(***************************************************************************)
(* Proofs about WebSocket, for every set of frames and all limits: however   *)
(* the network cuts the frames, a client that conforms to RFC 6455 gets back *)
(* its messages, whole and in order, and the server does not break off.      *)
(***************************************************************************)
EXTENDS WebSocket, FiniteSetTheorems, SequenceTheorems, TLAPS

USE WebSocketAssumption

------------------------------------------------------------------------------
(* The inductive invariant, part by part over the values of the variables.   *)

\* Units and reading of the first n frames, where u is their history.
UnitsOf(u, n) == IF n = 0 THEN 0 ELSE u[n].units
ReadingOf(u, n) == IF n = 0 THEN Start ELSE u[n].reading

\* u is the history of the frames s: the reading of n frames is that of those
\* before, gone on with the last.
History(s, u) ==
  /\ Len(u) = Len(s)
  /\ \A n \in 1 .. Len(s) :
       /\ UnitsOf(u, n) = UnitsOf(u, n - 1) + HeaderUnits + s[n].len
       /\ ReadingOf(u, n) = ReadOn(ReadingOf(u, n - 1), n, s[n])

\* feed() has put together the message of the reading s: its data is c, its
\* type is o; between messages it has neither.
Assembled(s, c, o) ==
  /\ s.op = "none" => s.data = <<>>
  /\ s.ok => /\ c = s.data
             /\ o = IF s.op = "none" THEN "cont" ELSE s.op

\* How many of the first i messages of o are to be echoed.
Count(o, i) == Cardinality({j \in 1 .. i : IsData(o[j])})

\* The messages are the replies r and then what o still has to echo.
Echoed(msgs, r, o) ==
  /\ Len(msgs) = Len(r) + Count(o, Len(o))
  /\ \A k \in 1 .. Len(r) : r[k] = msgs[k]
  /\ \A i \in 1 .. Len(o) : IsData(o[i]) => o[i] = msgs[Len(r) + Count(o, i)]

Serving == {"recv", "feed", "send"}

IInv ==
  /\ TypeOK
  /\ History(sent, upto)
  /\ Assembled(ReadingOf(upto, next), current, opcode)
  /\ ReadingOf(upto, next).ok /\ pc \in Serving =>
       Echoed(ReadingOf(upto, next).msgs, replies, out)
  /\ pc = "failed" /\ client = "open" =>
       next < Len(sent) /\ ~ReadingOf(upto, next + 1).ok

LEMMA IInvServes == IInv => ClientServed
<1> SUFFICES ASSUME IInv PROVE EchoesIntact /\ BreaksOffForCause
  BY DEF IInv, ClientServed
<1>1. /\ \A n : Reading(n) = ReadingOf(upto, n)
      /\ \A i : ToEcho(i) = Count(out, i)
  BY DEF Reading, ReadingOf, ToEcho, Count
<1>2. EchoesIntact
  BY <1>1 DEF IInv, EchoesIntact, Echoed, Serving
<1>3. BreaksOffForCause
  BY <1>1 DEF IInv, BreaksOffForCause
<1> QED
  BY <1>2, <1>3

LEMMA Types ==
  TypeOK <=>
    /\ sent \in Seq(Frames) /\ Len(sent) <= MaxFrames
    /\ upto \in Seq([units : Nat, reading : Readings])
    /\ client \in {"open", "deaf", "gone"}
    /\ got \in 0 .. UnitsOf(upto, Len(sent))
    /\ next \in 0 .. Len(sent) /\ UnitsOf(upto, next) <= got
    /\ current \in Seq(Units) /\ Len(current) <= MaxMessage
    /\ opcode \in {"cont", "text", "binary"}
    /\ out \in Seq(Messages) /\ replies \in Seq(Messages)
    /\ pc \in {"recv", "feed", "send", "failed", "closed", "dead"}
BY DEF TypeOK, Total, Before, UnitsOf

LEMMA TypesNext ==
  TypeOK' <=>
    /\ sent' \in Seq(Frames) /\ Len(sent') <= MaxFrames
    /\ upto' \in Seq([units : Nat, reading : Readings])
    /\ client' \in {"open", "deaf", "gone"}
    /\ got' \in 0 .. UnitsOf(upto', Len(sent'))
    /\ next' \in 0 .. Len(sent') /\ UnitsOf(upto', next') <= got'
    /\ current' \in Seq(Units) /\ Len(current') <= MaxMessage
    /\ opcode' \in {"cont", "text", "binary"}
    /\ out' \in Seq(Messages) /\ replies' \in Seq(Messages)
    /\ pc' \in {"recv", "feed", "send", "failed", "closed", "dead"}
BY DEF TypeOK, Total, Before, UnitsOf

------------------------------------------------------------------------------
(* The stream of the client.                                                 *)

LEMMA FrameTyped ==
  ASSUME NEW f \in Frames
  PROVE  f.op \in Ops /\ f.fin \in BOOLEAN /\ f.legal \in BOOLEAN /\ f.len \in Nat
<1>1. f \in [op : Ops, fin : BOOLEAN, legal : BOOLEAN, len : Nat]
  OBVIOUS
<1> QED
  BY <1>1

LEMMA PayloadTyped ==
  ASSUME NEW f \in Frames, NEW n \in 1 .. MaxFrames
  PROVE  PayloadOf(n, f) \in Seq(Units) /\ Len(PayloadOf(n, f)) = f.len
<1>1. f.len \in Nat
  BY FrameTyped
<1>2. \A k \in 1 .. f.len : <<n, k>> \in Units
  BY <1>1 DEF Units
<1> QED
  BY <1>1, <1>2 DEF PayloadOf

LEMMA StartTyped == Start \in Readings /\ Start.ok
<1>1. <<>> \in Seq(Units) /\ <<>> \in Seq(Messages)
  OBVIOUS
<1> QED
  BY <1>1 DEF Start, Readings

\* The three ways of a frame that conforms, and that of one that does not.
LEMMA ReadOnCases ==
  ASSUME NEW s \in Readings, NEW f \in Frames, NEW n
  PROVE  LET r == ReadOn(s, n, f)
             data == s.data \o PayloadOf(n, f)
             op == IF f.op = "cont" THEN s.op ELSE f.op
         IN  /\ ~Conforms(s, n, f) =>
                  /\ ~r.ok
                  /\ r = [ok |-> FALSE, op |-> s.op, data |-> s.data,
                          msgs |-> s.msgs]
             /\ Conforms(s, n, f) /\ IsControl(f) => r = s
             /\ Conforms(s, n, f) /\ ~IsControl(f) /\ f.fin =>
                  r = [ok |-> TRUE, op |-> "none", data |-> <<>>,
                       msgs |-> Append(s.msgs, [op |-> op, data |-> data])]
             /\ Conforms(s, n, f) /\ ~IsControl(f) /\ ~f.fin =>
                  r = [ok |-> s.ok, op |-> op, data |-> data, msgs |-> s.msgs]
<1>1. s = [ok |-> s.ok, op |-> s.op, data |-> s.data, msgs |-> s.msgs]
  BY DEF Readings
<1> QED
  BY <1>1 DEF ReadOn, Start

LEMMA ReadOnTyped ==
  ASSUME NEW s \in Readings, NEW f \in Frames, NEW n \in 1 .. MaxFrames
  PROVE  ReadOn(s, n, f) \in Readings
<1> DEFINE data == s.data \o PayloadOf(n, f)
           op == IF f.op = "cont" THEN s.op ELSE f.op
           m == [op |-> op, data |-> data]
<1>1. /\ s.ok \in BOOLEAN /\ s.op \in {"none", "text", "binary"}
      /\ s.data \in Seq(Units) /\ s.msgs \in Seq(Messages)
  BY DEF Readings
<1>2. data \in Seq(Units)
  BY <1>1, PayloadTyped, ConcatProperties
<1>3. ASSUME Conforms(s, n, f), ~IsControl(f)
      PROVE  op \in {"text", "binary"}
  BY <1>1, <1>3, FrameTyped DEF Conforms, IsControl, Ops
<1>4. ASSUME Conforms(s, n, f), ~IsControl(f)
      PROVE  Append(s.msgs, m) \in Seq(Messages)
  <2>1. m \in Messages
    BY <1>2, <1>3, <1>4 DEF Messages
  <2> QED
    BY <1>1, <2>1, AppendProperties
<1>5. <<>> \in Seq(Units)
  OBVIOUS
<1>6. CASE ~Conforms(s, n, f)
  <2>1. ReadOn(s, n, f) = [ok |-> FALSE, op |-> s.op, data |-> s.data,
                           msgs |-> s.msgs]
    BY <1>6, ReadOnCases
  <2> QED
    BY <1>1, <2>1 DEF Readings
<1>7. CASE Conforms(s, n, f) /\ IsControl(f)
  <2>1. ReadOn(s, n, f) = s
    BY <1>7, ReadOnCases
  <2> QED
    BY <2>1
<1>8. CASE Conforms(s, n, f) /\ ~IsControl(f) /\ f.fin
  <2>1. ReadOn(s, n, f) = [ok |-> TRUE, op |-> "none", data |-> <<>>,
                           msgs |-> Append(s.msgs, m)]
    BY <1>8, ReadOnCases
  <2>2. Append(s.msgs, m) \in Seq(Messages)
    BY <1>4, <1>8
  <2> QED
    BY <1>5, <2>1, <2>2 DEF Readings
<1>9. CASE Conforms(s, n, f) /\ ~IsControl(f) /\ ~f.fin
  <2>1. ReadOn(s, n, f) = [ok |-> s.ok, op |-> op, data |-> data,
                           msgs |-> s.msgs]
    BY <1>9, ReadOnCases
  <2>2. op \in {"none", "text", "binary"}
    BY <1>3, <1>9
  <2> HIDE DEF op, data
  <2> QED
    BY <1>1, <1>2, <2>1, <2>2 DEF Readings
<1> QED
  BY <1>6, <1>7, <1>8, <1>9

LEMMA StreamTyped ==
  ASSUME TypeOK, History(sent, upto)
  PROVE  /\ Len(sent) \in Nat /\ Len(upto) = Len(sent)
         /\ \A n \in 1 .. Len(sent) : sent[n] \in Frames /\ n \in 1 .. MaxFrames
         /\ \A n \in 0 .. Len(sent) :
              UnitsOf(upto, n) \in Nat /\ ReadingOf(upto, n) \in Readings
<1> DEFINE S == [units : Nat, reading : Readings]
<1>1. sent \in Seq(Frames) /\ Len(sent) <= MaxFrames
  BY Types
<1>2. upto \in Seq(S)
  BY Types
<1>3. Len(upto) = Len(sent)
  BY DEF History
<1>4. /\ Len(sent) \in Nat
      /\ \A n \in 1 .. Len(sent) : sent[n] \in Frames /\ n \in 1 .. MaxFrames
  BY <1>1
<1> HIDE DEF S
<1>5. \A n \in 1 .. Len(sent) : upto[n] \in S
  BY <1>2, <1>3, ElementOfSeq
<1>6. \A n \in 1 .. Len(sent) : upto[n].units \in Nat /\ upto[n].reading \in Readings
  BY <1>5 DEF S
<1>7. ASSUME NEW n \in 0 .. Len(sent)
      PROVE  UnitsOf(upto, n) \in Nat /\ ReadingOf(upto, n) \in Readings
  <2>1. n = 0 \/ n \in 1 .. Len(sent)
    BY <1>4
  <2> QED
    BY <1>6, <2>1, StartTyped DEF UnitsOf, ReadingOf
<1> QED
  BY <1>3, <1>4, <1>7

------------------------------------------------------------------------------
(* Counting messages to echo.                                                *)

LEMMA CountNat ==
  ASSUME NEW o, NEW i \in Nat
  PROVE  /\ IsFiniteSet({j \in 1 .. i : IsData(o[j])})
         /\ Count(o, i) \in Nat
<1> DEFINE D == {j \in 1 .. i : IsData(o[j])}
<1>1. IsFiniteSet(1 .. i) /\ D \in SUBSET (1 .. i)
  BY FS_Interval
<1> QED
  BY <1>1, FS_Subset, FS_CardinalityType DEF Count

LEMMA CountZero ==
  ASSUME NEW o
  PROVE  Count(o, 0) = 0
<1>1. {j \in 1 .. 0 : IsData(o[j])} = {}
  OBVIOUS
<1> QED
  BY <1>1, FS_EmptySet DEF Count

LEMMA CountNext ==
  ASSUME NEW o, NEW i \in Nat
  PROVE  Count(o, i + 1) = Count(o, i) + (IF IsData(o[i + 1]) THEN 1 ELSE 0)
<1> DEFINE D(k) == {j \in 1 .. k : IsData(o[j])}
<1>1. 1 .. i + 1 = (1 .. i) \cup {i + 1} /\ i + 1 \notin 1 .. i
  OBVIOUS
<1>2. CASE IsData(o[i + 1])
  <2>1. D(i + 1) = D(i) \cup {i + 1} /\ i + 1 \notin D(i)
    BY <1>1, <1>2
  <2>2. Cardinality(D(i + 1)) = Cardinality(D(i)) + 1
    <3>1. IsFiniteSet(D(i))
      BY CountNat
    <3> HIDE DEF D
    <3> QED
      BY <2>1, <3>1, FS_AddElement
  <2> QED
    BY <1>2, <2>2 DEF Count
<1>3. CASE ~IsData(o[i + 1])
  <2>1. \A j \in 1 .. i + 1 : IsData(o[j]) => j \in 1 .. i
    BY <1>1, <1>3
  <2>2. D(i + 1) = D(i)
    BY <1>1, <2>1
  <2>3. Count(o, i + 1) = Count(o, i)
    BY <2>2 DEF Count
  <2>4. Count(o, i) \in Nat
    BY CountNat
  <2> QED
    BY <1>3, <2>3, <2>4
<1> QED
  BY <1>2, <1>3

\* The count does not look beyond what it counts.
LEMMA CountSame ==
  ASSUME NEW o, NEW p, NEW i \in Nat, \A j \in 1 .. i : o[j] = p[j]
  PROVE  Count(o, i) = Count(p, i)
<1>1. {j \in 1 .. i : IsData(o[j])} = {j \in 1 .. i : IsData(p[j])}
  OBVIOUS
<1> QED
  BY <1>1 DEF Count

\* A message to echo is counted, and no count goes beyond the last one.
LEMMA CountBounds ==
  ASSUME NEW o, NEW n \in Nat, NEW i \in 1 .. n, IsData(o[i])
  PROVE  1 <= Count(o, i) /\ Count(o, i) <= Count(o, n)
<1> DEFINE D(k) == {j \in 1 .. k : IsData(o[j])}
<1>1. /\ i \in Nat /\ IsFiniteSet(D(i)) /\ IsFiniteSet(D(n))
      /\ Cardinality(D(i)) \in Nat /\ Cardinality(D(n)) \in Nat
  BY CountNat DEF Count
<1>2. {i} \in SUBSET D(i) /\ D(i) \in SUBSET D(n)
  OBVIOUS
<1>3. Cardinality({i}) = 1
  BY FS_Singleton
<1>4. Cardinality({i}) <= Cardinality(D(i)) /\ Cardinality(D(i)) <= Cardinality(D(n))
  BY <1>1, <1>2, FS_Subset
<1> QED
  BY <1>3, <1>4 DEF Count

\* Without the first message, the others move up.
LEMMA CountTail ==
  ASSUME NEW o, NEW p, NEW i \in Nat,
         \A j \in 1 .. i : p[j] = o[j + 1]
  PROVE  Count(o, i + 1) = Count(p, i) + (IF IsData(o[1]) THEN 1 ELSE 0)
<1> DEFINE S == {j \in 1 .. i : IsData(p[j])}
           D == {j \in 1 .. i + 1 : IsData(o[j])}
           T == D \ {1}
           f == [j \in S |-> j + 1]
<1>1. f \in Bijection(S, T)
  <2>1. \A j \in S : j \in Nat /\ j + 1 \in T
    OBVIOUS
  <2>2. \A k \in T : k - 1 \in S /\ f[k - 1] = k
    OBVIOUS
  <2>3. f \in [S -> T] /\ \A a, b \in S : f[a] = f[b] => a = b
    BY <2>1
  <2>4. f \in Surjection(S, T)
    BY <2>2, <2>3 DEF Surjection
  <2> QED
    BY <2>3, <2>4 DEF Bijection, Injection, IsInjective
<1>2. IsFiniteSet(S) /\ IsFiniteSet(D)
  <2>1. i + 1 \in Nat
    OBVIOUS
  <2> QED
    BY <2>1, CountNat
<1>3. Cardinality(T) = Cardinality(S)
  BY <1>1, <1>2, FS_Bijection DEF ExistsBijection
<1>4. 1 \in D <=> IsData(o[1])
  OBVIOUS
<1>5. /\ Cardinality(T) = IF 1 \in D THEN Cardinality(D) - 1 ELSE Cardinality(D)
      /\ Cardinality(D) \in Nat
  BY <1>2, FS_RemoveElement, FS_CardinalityType
<1> HIDE DEF S, D, T
<1>6. Cardinality(D) = Cardinality(S) + (IF IsData(o[1]) THEN 1 ELSE 0)
  BY <1>3, <1>4, <1>5
<1> QED
  BY <1>6 DEF Count, S, D

------------------------------------------------------------------------------
(* The steps of the client.                                                  *)

\* A longer history is one of the shorter stream too.
LEMMA SendStep ==
  ASSUME IInv, NEW f \in Frames, Send(f)
  PROVE  IInv'
<1> DEFINE L == Len(sent)
           r == ReadOn(Reading(L), L + 1, f)
           e == [units |-> Total + HeaderUnits + f.len, reading |-> r]
<1>1. /\ TypeOK /\ History(sent, upto) /\ L < MaxFrames
      /\ sent' = Append(sent, f) /\ upto' = Append(upto, e)
      /\ UNCHANGED <<client, got, next, current, opcode, out, replies, pc>>
  BY DEF IInv, Send
<1>2. /\ L \in Nat /\ Len(upto) = L /\ L \in 0 .. L /\ L + 1 \in 1 .. MaxFrames
      /\ Total = UnitsOf(upto, L) /\ Reading(L) = ReadingOf(upto, L)
  <2>1. L \in Nat /\ Len(upto) = L
    BY <1>1, StreamTyped
  <2>2. L \in 0 .. L /\ L + 1 \in 1 .. MaxFrames
    BY <1>1, <2>1
  <2> QED
    BY <2>1, <2>2 DEF Total, Before, UnitsOf, Reading, ReadingOf
<1>3. UnitsOf(upto, L) \in Nat /\ ReadingOf(upto, L) \in Readings /\ f.len \in Nat
  BY <1>1, <1>2, StreamTyped, FrameTyped
<1>4. /\ e \in [units : Nat, reading : Readings]
      /\ e.units = UnitsOf(upto, L) + HeaderUnits + f.len
      /\ e.reading = ReadOn(ReadingOf(upto, L), L + 1, f)
  <2>1. r \in Readings
    BY <1>2, <1>3, ReadOnTyped
  <2>2. Total + HeaderUnits + f.len \in Nat
    BY <1>2, <1>3 DEF HeaderUnits
  <2> HIDE DEF r
  <2>3. e \in [units : Nat, reading : Readings]
    BY <2>1, <2>2
  <2> QED
    BY <1>2, <2>3 DEF r
<1> HIDE DEF r, e
<1>5. /\ sent' \in Seq(Frames) /\ Len(sent') = L + 1 /\ sent'[L + 1] = f
      /\ \A n \in 1 .. L : sent'[n] = sent[n]
  <2>1. sent \in Seq(Frames)
    BY <1>1, Types
  <2> QED
    BY <1>1, <2>1, AppendProperties
<1>6. /\ upto' \in Seq([units : Nat, reading : Readings])
      /\ Len(upto') = L + 1 /\ upto'[L + 1] = e
      /\ \A n \in 1 .. L : upto'[n] = upto[n]
  <2> DEFINE S == [units : Nat, reading : Readings]
  <2>1. upto \in Seq(S) /\ e \in S
    BY <1>1, <1>4, Types
  <2> HIDE DEF S
  <2>2. /\ upto' \in Seq(S) /\ Len(upto') = L + 1 /\ upto'[L + 1] = e
        /\ \A n \in 1 .. L : upto'[n] = upto[n]
    BY <1>1, <1>2, <2>1, AppendProperties
  <2> QED
    BY <2>2 DEF S
<1>L. L \in Nat
  BY <1>2
<1> HIDE DEF L
<1>7. ASSUME NEW n \in 0 .. L
      PROVE  /\ UnitsOf(upto', n) = UnitsOf(upto, n)
             /\ ReadingOf(upto', n) = ReadingOf(upto, n)
  <2>1. n = 0 \/ n \in 1 .. L
    BY <1>L
  <2> QED
    BY <1>6, <2>1 DEF UnitsOf, ReadingOf
<1>8. /\ UnitsOf(upto', L + 1) = UnitsOf(upto, L) + HeaderUnits + f.len
      /\ ReadingOf(upto', L + 1) = ReadOn(ReadingOf(upto, L), L + 1, f)
  <2>1. L + 1 # 0
    BY <1>L
  <2> QED
    BY <1>4, <1>6, <2>1 DEF UnitsOf, ReadingOf
<1>9. History(sent', upto')
  <2>1. ASSUME NEW n \in 1 .. L + 1
        PROVE  /\ UnitsOf(upto', n) =
                    UnitsOf(upto', n - 1) + HeaderUnits + sent'[n].len
               /\ ReadingOf(upto', n) =
                    ReadOn(ReadingOf(upto', n - 1), n, sent'[n])
    <3>1. CASE n \in 1 .. L
      <4>1. n \in 0 .. L /\ n - 1 \in 0 .. L /\ sent'[n] = sent[n]
        BY <1>L, <1>5, <3>1
      <4> QED
        BY <1>1, <1>7, <3>1, <4>1 DEF History, L
    <3>2. CASE n = L + 1
      <4>1. n - 1 = L /\ sent'[n] = f
        BY <1>L, <1>5, <3>2
      <4> QED
        BY <1>2, <1>7, <1>8, <3>2, <4>1
    <3>3. n \in 1 .. L \/ n = L + 1
      BY <1>L
    <3> QED
      BY <3>1, <3>2, <3>3
  <2> QED
    BY <1>5, <1>6, <2>1 DEF History
<1>10. /\ next \in 0 .. L /\ next \in Nat /\ got \in 0 .. UnitsOf(upto, L)
       /\ UnitsOf(upto, next) <= got
  BY <1>1, <1>L, Types DEF L
<1>11. TypeOK'
  <2>1. got' \in 0 .. UnitsOf(upto', Len(sent'))
    BY <1>1, <1>3, <1>5, <1>8, <1>10 DEF HeaderUnits
  <2>2. next' \in 0 .. Len(sent') /\ UnitsOf(upto', next') <= got'
    BY <1>1, <1>L, <1>5, <1>7, <1>10
  <2>3. Len(sent') <= MaxFrames
    BY <1>2, <1>5
  <2> QED
    BY <1>1, <1>5, <1>6, <2>1, <2>2, <2>3, Types, TypesNext
<1>12. ReadingOf(upto', next') = ReadingOf(upto, next)
  BY <1>1, <1>7, <1>10
<1>13. ASSUME pc' = "failed", client' = "open"
       PROVE  next' < Len(sent') /\ ~ReadingOf(upto', next' + 1).ok
  <2>1. next < L /\ ~ReadingOf(upto, next + 1).ok
    BY <1>1, <1>13 DEF IInv, L
  <2>2. next + 1 \in 0 .. L
    BY <1>L, <1>10, <2>1
  <2>3. ReadingOf(upto', next + 1) = ReadingOf(upto, next + 1)
    BY <1>7, <2>2
  <2> QED
    BY <1>1, <1>L, <1>5, <1>10, <2>1, <2>3
<1> QED
  BY <1>1, <1>9, <1>11, <1>12, <1>13 DEF IInv

LEMMA GoneStep ==
  ASSUME IInv, ClientDeaf \/ ClientGone
  PROVE  IInv'
<1>1. /\ client' \in {"deaf", "gone"}
      /\ UNCHANGED <<sent, upto, got, next, current, opcode, out, replies, pc>>
  BY DEF ClientDeaf, ClientGone
<1>2. TypeOK'
  BY <1>1, Types, TypesNext DEF IInv
<1> QED
  BY <1>1, <1>2 DEF IInv

------------------------------------------------------------------------------
(* The steps of the worker that leave what feed() has put together.          *)

LEMMA ServingFrame ==
  ASSUME IInv, TypeOK', pc \in Serving, pc' \in Serving,
         UNCHANGED <<sent, upto, next, current, opcode, out, replies>>
  PROVE  IInv'
BY DEF IInv, Serving

LEMMA EndFrame ==
  ASSUME IInv, TypeOK', pc' \notin Serving,
         UNCHANGED <<sent, upto, next, current, opcode>>,
         pc' = "failed" /\ client' = "open" =>
           next < Len(sent) /\ ~ReadingOf(upto, next + 1).ok
  PROVE  IInv'
BY DEF IInv

LEMMA RecvStep ==
  ASSUME IInv, Recv
  PROVE  IInv'
<1>1. /\ pc = "recv" /\ pc' = "feed" /\ got' \in got + 1 .. Total
      /\ UNCHANGED <<sent, upto, client, next, current, opcode, out, replies>>
  BY DEF Recv, peerVars
<1>2. TypeOK /\ History(sent, upto) /\ Total = UnitsOf(upto, Len(sent))
  BY DEF IInv, Total, Before, UnitsOf
<1>3. /\ got \in 0 .. Total /\ next \in 0 .. Len(sent) /\ Total \in Nat
      /\ Len(sent) \in Nat /\ UnitsOf(upto, next) <= got
  <2>1. Len(sent) \in Nat /\ Len(sent) \in 0 .. Len(sent)
    BY <1>2, StreamTyped
  <2> QED
    BY <1>2, <2>1, Types, StreamTyped
<1>4. UnitsOf(upto, next) \in Nat
  BY <1>2, <1>3, StreamTyped
<1>5. got' \in 0 .. Total /\ UnitsOf(upto, next) <= got'
  BY <1>1, <1>3, <1>4
<1>6. TypeOK'
  BY <1>1, <1>2, <1>5, Types, TypesNext
<1> QED
  BY <1>1, <1>6, ServingFrame DEF Serving

LEMMA RecvFailsStep ==
  ASSUME IInv, RecvFails
  PROVE  IInv'
<1>1. /\ pc' = "closed"
      /\ UNCHANGED <<sent, upto, client, got, next, current, opcode, out, replies>>
  BY DEF RecvFails, peerVars
<1>2. TypeOK'
  BY <1>1, Types, TypesNext DEF IInv
<1> QED
  BY <1>1, <1>2, EndFrame DEF Serving

LEMMA FeedDoneStep ==
  ASSUME IInv, FeedDone
  PROVE  IInv'
<1>1. /\ pc = "feed" /\ pc' = "send"
      /\ UNCHANGED <<sent, upto, client, got, next, current, opcode, out, replies>>
  BY DEF FeedDone, peerVars
<1>2. TypeOK'
  BY <1>1, Types, TypesNext DEF IInv
<1> QED
  BY <1>1, <1>2, ServingFrame DEF Serving

LEMMA HandledStep ==
  ASSUME IInv, Handled
  PROVE  IInv'
<1>1. /\ pc = "send" /\ pc' = "recv"
      /\ UNCHANGED <<sent, upto, client, got, next, current, opcode, out, replies>>
  BY DEF Handled, peerVars
<1>2. TypeOK'
  BY <1>1, Types, TypesNext DEF IInv
<1> QED
  BY <1>1, <1>2, ServingFrame DEF Serving

LEMMA SendFailsStep ==
  ASSUME IInv, SendFails
  PROVE  IInv'
<1>1. /\ pc' = "failed" /\ client # "open" /\ out' = <<>>
      /\ UNCHANGED <<sent, upto, client, got, next, current, opcode, replies>>
  BY DEF SendFails, peerVars
<1>2. <<>> \in Seq(Messages)
  OBVIOUS
<1>3. TypeOK'
  BY <1>1, <1>2, Types, TypesNext DEF IInv
<1> QED
  BY <1>1, <1>3, EndFrame DEF Serving

LEMMA BrokenPipeStep ==
  ASSUME IInv, BrokenPipe
  PROVE  IInv'
<1>1. /\ pc' = "dead"
      /\ UNCHANGED <<sent, upto, client, got, next, current, opcode, out, replies>>
  BY DEF BrokenPipe, peerVars
<1>2. TypeOK'
  BY <1>1, Types, TypesNext DEF IInv
<1> QED
  BY <1>1, <1>2, EndFrame DEF Serving

LEMMA SendCloseStep ==
  ASSUME IInv, SendClose
  PROVE  IInv'
<1> DEFINE m == [op |-> "close", data |-> <<>>]
<1>1. /\ pc' = "closed" /\ replies' \in {Append(replies, m), replies}
      /\ UNCHANGED <<sent, upto, client, got, next, current, opcode, out>>
  BY DEF SendClose, peerVars
<1>2. TypeOK
  BY DEF IInv
<1>3. m \in Messages
  <2>1. <<>> \in Seq(Units)
    OBVIOUS
  <2> QED
    BY <2>1 DEF Messages
<1>4. replies' \in Seq(Messages)
  <2>1. replies \in Seq(Messages)
    BY <1>2, Types
  <2> QED
    BY <1>1, <1>3, <2>1, AppendProperties
<1>5. TypeOK'
  BY <1>1, <1>2, <1>4, Types, TypesNext
<1> QED
  BY <1>1, <1>5, EndFrame DEF Serving

\* At the start of a connection.
LEMMA Fresh ==
  ASSUME sent' = <<>>, upto' = <<>>, client' = "open", got' = 0, next' = 0,
         current' = <<>>, opcode' = "cont", out' = <<>>, replies' = <<>>,
         pc' = "recv"
  PROVE  IInv'
<1>1. /\ <<>> \in Seq(Frames) /\ <<>> \in Seq([units : Nat, reading : Readings])
      /\ <<>> \in Seq(Units) /\ <<>> \in Seq(Messages) /\ Len(<<>>) = 0
  OBVIOUS
<1>2. UnitsOf(<<>>, 0) = 0 /\ ReadingOf(<<>>, 0) = Start
  BY DEF UnitsOf, ReadingOf
<1>3. TypeOK'
  BY <1>1, <1>2, TypesNext
<1>4. History(<<>>, <<>>)
  BY <1>1 DEF History
<1>5. Assembled(Start, <<>>, "cont")
  BY DEF Assembled, Start
<1>6. Echoed(Start.msgs, <<>>, <<>>)
  <2>1. Start.msgs = <<>>
    BY DEF Start
  <2>2. Count(<<>>, Len(<<>>)) = 0
    BY <1>1, CountZero
  <2> QED
    BY <1>1, <2>1, <2>2 DEF Echoed
<1> QED
  BY <1>2, <1>3, <1>4, <1>5, <1>6 DEF IInv

------------------------------------------------------------------------------
(* feed().                                                                   *)

\* What has arrived belongs to a frame the client has sent.
LEMMA FrameArrived ==
  ASSUME TypeOK, History(sent, upto), Available > 0
  PROVE  /\ next \in Nat /\ next < Len(sent) /\ next \in 0 .. Len(sent)
         /\ next + 1 \in 1 .. Len(sent) /\ next + 1 \in 0 .. Len(sent)
         /\ next + 1 \in 1 .. MaxFrames /\ Len(sent) \in Nat
         /\ Frame \in Frames
         /\ ReadingOf(upto, next) \in Readings
         /\ UnitsOf(upto, next) \in Nat /\ got \in Nat
         /\ Available = got - UnitsOf(upto, next)
         /\ UnitsOf(upto, next + 1) = UnitsOf(upto, next) + HeaderUnits + Frame.len
         /\ ReadingOf(upto, next + 1) =
              ReadOn(ReadingOf(upto, next), next + 1, Frame)
<1>1. /\ Len(sent) \in Nat /\ next \in 0 .. Len(sent)
      /\ got \in 0 .. UnitsOf(upto, Len(sent))
      /\ Available = got - UnitsOf(upto, next)
  BY StreamTyped, Types DEF Available, Before, UnitsOf
<1>2. /\ UnitsOf(upto, next) \in Nat /\ ReadingOf(upto, next) \in Readings
      /\ UnitsOf(upto, Len(sent)) \in Nat
  <2>1. Len(sent) \in 0 .. Len(sent)
    BY <1>1
  <2> QED
    BY <1>1, <2>1, StreamTyped
<1>3. next # Len(sent)
  BY <1>1, <1>2
<1>4. next + 1 \in 1 .. Len(sent) /\ (next + 1) - 1 = next
  BY <1>1, <1>3
<1>5. Frame \in Frames /\ next + 1 \in 1 .. MaxFrames
  BY <1>4, StreamTyped DEF Frame
<1>6. /\ UnitsOf(upto, next + 1) = UnitsOf(upto, next) + HeaderUnits + Frame.len
      /\ ReadingOf(upto, next + 1) =
           ReadOn(ReadingOf(upto, next), next + 1, Frame)
  BY <1>4 DEF History, Frame
<1> QED
  BY <1>1, <1>2, <1>3, <1>4, <1>5, <1>6

\* A frame that feed() takes is there as a whole.
LEMMA FrameTaken ==
  ASSUME TypeOK, History(sent, upto), ~Incomplete, ~Refused
  PROVE  /\ Available > 0 /\ UnitsOf(upto, next + 1) <= got
         /\ Frame.legal /\ Frame.len <= MaxMessage /\ ~BadData
<1>1. Available > 0
  BY DEF Incomplete
<1>2. /\ Available = got - UnitsOf(upto, next) /\ got \in Nat
      /\ UnitsOf(upto, next) \in Nat /\ Frame.len \in Nat
      /\ UnitsOf(upto, next + 1) = UnitsOf(upto, next) + HeaderUnits + Frame.len
  BY <1>1, FrameArrived, FrameTyped
<1>3. Available \in Int
  BY <1>2
<1>4. Frame.legal
  BY <1>1 DEF Refused
<1>5. Available >= HeaderUnits
  BY <1>1, <1>4 DEF Incomplete
<1>6. Frame.len <= MaxMessage
  BY <1>1, <1>2, <1>5 DEF Refused
<1>7. Complete /\ ~BadData
  BY <1>1, <1>4, <1>5, <1>6 DEF Incomplete, Refused
<1> QED
  BY <1>1, <1>2, <1>4, <1>6, <1>7 DEF Complete, HeaderUnits

\* feed() refuses no frame a conforming client goes on with.
LEMMA FeedFailsStep ==
  ASSUME IInv, FeedFails
  PROVE  IInv'
<1> DEFINE s == ReadingOf(upto, next)
<1>1. /\ pc' = "failed" /\ out' = <<>> /\ Refused
      /\ UNCHANGED <<sent, upto, client, got, next, current, opcode, replies>>
  BY DEF FeedFails, peerVars
<1>2. /\ TypeOK /\ History(sent, upto) /\ Assembled(s, current, opcode)
      /\ Available > 0
  BY <1>1 DEF IInv, Refused
<1>3. /\ next < Len(sent) /\ Frame \in Frames /\ s \in Readings
      /\ ReadingOf(upto, next + 1) = ReadOn(s, next + 1, Frame)
  BY <1>2, FrameArrived
<1>4. ~Conforms(s, next + 1, Frame)
  <2> SUFFICES ASSUME Conforms(s, next + 1, Frame)
               PROVE  FALSE
    OBVIOUS
  <2>1. /\ s.ok /\ Frame.legal /\ Frame.op \notin {"close", "reserved"}
        /\ Frame.len <= MaxMessage /\ Frame.len \in Nat
        /\ Frame.op \in {"text", "binary"} => s.op = "none"
        /\ Frame.op \in {"ping", "pong"} \/ Len(s.data) + Frame.len <= MaxMessage
    BY <1>3, FrameTyped DEF Conforms, IsControl
  <2>2. current = s.data /\ (s.op = "none" => s.data = <<>>)
    BY <1>2, <2>1 DEF Assembled
  <2>3. ~BadData
    <3>1. Frame.op \in {"text", "binary"} => current = <<>>
      BY <2>1, <2>2
    <3>2. Frame.op \in {"text", "binary", "cont"} =>
            ~(Len(current) + Frame.len > MaxMessage)
      <4>1. current \in Seq(Units) /\ Len(current) \in Nat
        BY <1>2, Types
      <4>2. Frame.op \in {"text", "binary", "cont"} =>
              Len(current) + Frame.len <= MaxMessage
        BY <2>1, <2>2
      <4> QED
        BY <2>1, <4>1, <4>2
    <3> QED
      BY <3>1, <3>2 DEF BadData
  <2>4. ~(Frame.len > MaxMessage)
    BY <2>1
  <2> QED
    BY <1>1, <2>1, <2>3, <2>4 DEF Refused
<1>5. ~ReadingOf(upto, next + 1).ok
  <2>1. ASSUME NEW t \in Readings, NEW f \in Frames, NEW n, ~Conforms(t, n, f)
        PROVE  ~ReadOn(t, n, f).ok
    BY <2>1, ReadOnCases
  <2> QED
    BY <1>3, <1>4, <2>1
<1>6. <<>> \in Seq(Messages)
  OBVIOUS
<1>7. TypeOK'
  BY <1>1, <1>2, <1>6, Types, TypesNext
<1> QED
  BY <1>1, <1>3, <1>5, <1>7, EndFrame DEF Serving

\* A message that is not echoed changes nothing of what is.
LEMMA EchoedControl ==
  ASSUME NEW msgs, NEW r \in Seq(Messages), NEW o \in Seq(Messages),
         NEW m \in Messages, ~IsData(m), Echoed(msgs, r, o)
  PROVE  Echoed(msgs, r, Append(o, m))
<1> DEFINE p == Append(o, m)
<1>1. /\ p \in Seq(Messages) /\ Len(o) \in Nat /\ Len(r) \in Nat
      /\ Len(p) = Len(o) + 1
      /\ p[Len(o) + 1] = m /\ \A i \in 1 .. Len(o) : p[i] = o[i]
  BY AppendProperties
<1> HIDE DEF p
<1>2. ASSUME NEW i \in 0 .. Len(o)
      PROVE  Count(p, i) = Count(o, i)
  BY <1>1, CountSame
<1>3. Count(p, Len(p)) = Count(o, Len(o))
  <2>1. /\ Count(p, Len(o)) = Count(o, Len(o)) /\ Count(o, Len(o)) \in Nat
        /\ Count(p, Len(o) + 1) =
             Count(p, Len(o)) + (IF IsData(p[Len(o) + 1]) THEN 1 ELSE 0)
    <3>1. Len(o) \in 0 .. Len(o)
      BY <1>1
    <3> QED
      BY <1>1, <1>2, <3>1, CountNat, CountNext
  <2>2. ~IsData(p[Len(o) + 1])
    BY <1>1
  <2> QED
    BY <1>1, <2>1, <2>2
<1>4. ASSUME NEW i \in 1 .. Len(p), IsData(p[i])
      PROVE  p[i] = msgs[Len(r) + Count(p, i)]
  <2>1. i \in 1 .. Len(o)
    BY <1>1, <1>4
  <2>2. p[i] = o[i] /\ Count(p, i) = Count(o, i)
    BY <1>1, <1>2, <2>1
  <2> QED
    BY <1>4, <2>1, <2>2 DEF Echoed
<1>5. Echoed(msgs, r, p)
  BY <1>3, <1>4 DEF Echoed
<1> QED
  BY <1>5 DEF p

\* One more message that is whole, and is to be echoed.
LEMMA EchoedData ==
  ASSUME NEW msgs \in Seq(Messages), NEW r \in Seq(Messages),
         NEW o \in Seq(Messages), NEW m \in Messages, IsData(m),
         Echoed(msgs, r, o)
  PROVE  Echoed(Append(msgs, m), r, Append(o, m))
<1> DEFINE p == Append(o, m)
           q == Append(msgs, m)
<1>1. /\ p \in Seq(Messages) /\ Len(o) \in Nat /\ Len(r) \in Nat
      /\ Len(p) = Len(o) + 1
      /\ p[Len(o) + 1] = m /\ \A i \in 1 .. Len(o) : p[i] = o[i]
  BY AppendProperties
<1>2. /\ Len(msgs) \in Nat /\ Len(q) = Len(msgs) + 1 /\ q[Len(msgs) + 1] = m
      /\ \A k \in 1 .. Len(msgs) : q[k] = msgs[k]
  BY AppendProperties
<1> HIDE DEF p, q
<1>3. ASSUME NEW i \in 0 .. Len(o)
      PROVE  Count(p, i) = Count(o, i) /\ Count(o, i) \in Nat
  <2>1. i \in Nat /\ \A j \in 1 .. i : p[j] = o[j]
    BY <1>1
  <2> QED
    BY <2>1, CountSame, CountNat
<1>4. /\ Len(msgs) = Len(r) + Count(o, Len(o)) /\ Count(o, Len(o)) \in Nat
      /\ Count(p, Len(p)) = Count(o, Len(o)) + 1
  <2>1. Count(p, Len(o)) = Count(o, Len(o)) /\ Count(o, Len(o)) \in Nat
    BY <1>1, <1>3
  <2>2. Count(p, Len(o) + 1) =
          Count(p, Len(o)) + (IF IsData(p[Len(o) + 1]) THEN 1 ELSE 0)
    BY <1>1, CountNext
  <2>3. IsData(p[Len(o) + 1])
    BY <1>1
  <2> QED
    BY <1>1, <2>1, <2>2, <2>3 DEF Echoed
<1>5. Len(q) = Len(r) + Count(p, Len(p))
  BY <1>1, <1>2, <1>4
<1>6. ASSUME NEW k \in 1 .. Len(r)
      PROVE  r[k] = q[k]
  <2>1. k \in 1 .. Len(msgs)
    BY <1>1, <1>4
  <2> QED
    BY <1>2, <2>1 DEF Echoed
<1>7. ASSUME NEW i \in 1 .. Len(p), IsData(p[i])
      PROVE  p[i] = q[Len(r) + Count(p, i)]
  <2>1. CASE i \in 1 .. Len(o)
    <3>1. p[i] = o[i] /\ Count(p, i) = Count(o, i) /\ Count(o, i) \in Nat
      BY <1>1, <1>3, <2>1
    <3>2. o[i] = msgs[Len(r) + Count(o, i)]
      BY <1>7, <2>1, <3>1 DEF Echoed
    <3>3. Len(r) + Count(o, i) \in 1 .. Len(msgs)
      <4>1. Count(o, i) >= 1 /\ Count(o, i) <= Count(o, Len(o))
        BY <1>1, <1>7, <2>1, <3>1, CountBounds
      <4> QED
        BY <1>1, <1>4, <3>1, <4>1
    <3> QED
      BY <1>2, <3>1, <3>2, <3>3
  <2>2. CASE i = Len(o) + 1
    BY <1>1, <1>2, <1>4, <2>2
  <2>3. i \in 1 .. Len(o) \/ i = Len(o) + 1
    BY <1>1
  <2> QED
    BY <2>1, <2>2, <2>3
<1>8. Echoed(q, r, p)
  BY <1>5, <1>6, <1>7 DEF Echoed
<1> QED
  BY <1>8 DEF p, q

\* A control frame, wherever it comes, leaves the message begun as it is.
LEMMA AssembledControl ==
  ASSUME NEW s \in Readings, NEW f \in Frames, NEW n, NEW c, NEW o,
         Assembled(s, c, o), IsControl(f)
  PROVE  /\ Assembled(ReadOn(s, n, f), c, o)
         /\ ReadOn(s, n, f).ok => s.ok /\ ReadOn(s, n, f).msgs = s.msgs
<1> DEFINE r == ReadOn(s, n, f)
<1>1. CASE Conforms(s, n, f)
  <2>1. r = s
    BY <1>1, ReadOnCases
  <2> QED
    BY <2>1
<1>2. CASE ~Conforms(s, n, f)
  <2>1. r = [ok |-> FALSE, op |-> s.op, data |-> s.data, msgs |-> s.msgs]
    BY <1>2, ReadOnCases
  <2> HIDE DEF r
  <2>2. ~r.ok /\ r.op = s.op /\ r.data = s.data
    BY <2>1
  <2> QED
    BY <2>2 DEF Assembled, r
<1> QED
  BY <1>1, <1>2

\* A data frame goes on with the message, or is the last of it.
LEMMA AssembledData ==
  ASSUME NEW s \in Readings, NEW f \in Frames, NEW n, NEW c, NEW o,
         Assembled(s, c, o), f.op \in {"cont", "text", "binary"}
  PROVE  LET r == ReadOn(s, n, f)
             op == IF f.op = "cont" THEN o ELSE f.op
             data == c \o PayloadOf(n, f)
         IN  /\ r.ok => s.ok /\ op \in {"text", "binary"}
             /\ f.fin =>
                  /\ Assembled(r, <<>>, "cont")
                  /\ r.ok => r.msgs = Append(s.msgs, [op |-> op, data |-> data])
             /\ ~f.fin =>
                  /\ Assembled(r, data, op)
                  /\ r.ok => r.msgs = s.msgs
<1> DEFINE r == ReadOn(s, n, f)
           op == IF f.op = "cont" THEN o ELSE f.op
           data == c \o PayloadOf(n, f)
<1>1. CASE ~Conforms(s, n, f)
  <2>1. r = [ok |-> FALSE, op |-> s.op, data |-> s.data, msgs |-> s.msgs]
    BY <1>1, ReadOnCases
  <2> HIDE DEF r
  <2>2. ~r.ok /\ r.op = s.op /\ r.data = s.data
    BY <2>1
  <2>3. ~r.ok /\ \A d, q : Assembled(r, d, q)
    BY <2>2 DEF Assembled
  <2> QED
    BY <2>3 DEF r
<1>2. CASE Conforms(s, n, f)
  <2>1. /\ s.ok /\ s.op \in {"none", "text", "binary"} /\ ~IsControl(f)
        /\ f.op = "cont" => s.op # "none"
    BY <1>2 DEF Conforms, IsControl, Readings
  <2>2. c = s.data /\ o = (IF s.op = "none" THEN "cont" ELSE s.op)
    BY <2>1 DEF Assembled
  <2>3. /\ op = (IF f.op = "cont" THEN s.op ELSE f.op)
        /\ op \in {"text", "binary"}
    BY <2>1, <2>2
  <2>4. data = s.data \o PayloadOf(n, f)
    BY <2>2
  <2>5. CASE f.fin
    <3>1. r = [ok |-> TRUE, op |-> "none", data |-> <<>>,
               msgs |-> Append(s.msgs, [op |-> op, data |-> data])]
      <4>1. r = [ok |-> TRUE, op |-> "none", data |-> <<>>,
                 msgs |-> Append(s.msgs,
                            [op   |-> IF f.op = "cont" THEN s.op ELSE f.op,
                             data |-> s.data \o PayloadOf(n, f)])]
        BY <1>2, <2>1, <2>5, ReadOnCases
      <4> QED
        BY <2>3, <2>4, <4>1
    <3> HIDE DEF r
    <3>2. /\ r.op = "none" /\ r.data = <<>>
          /\ r.msgs = Append(s.msgs, [op |-> op, data |-> data])
      BY <3>1
    <3>3. Assembled(r, <<>>, "cont")
      BY <3>2 DEF Assembled
    <3> QED
      BY <2>1, <2>3, <2>5, <3>2, <3>3 DEF r
  <2>6. CASE ~f.fin
    <3>1. r = [ok |-> s.ok, op |-> op, data |-> data, msgs |-> s.msgs]
      BY <1>2, <2>1, <2>3, <2>4, <2>6, ReadOnCases
    <3> HIDE DEF r
    <3>2. r.op = op /\ r.data = data /\ r.msgs = s.msgs
      BY <3>1
    <3>3. Assembled(r, data, op)
      BY <2>3, <3>2 DEF Assembled
    <3> QED
      BY <2>1, <2>3, <2>6, <3>2, <3>3 DEF r
  <2> QED
    BY <2>5, <2>6
<1> QED
  BY <1>1, <1>2

LEMMA FeedControlStep ==
  ASSUME IInv, FeedControl
  PROVE  IInv'
<1> DEFINE s == ReadingOf(upto, next)
           m == [op |-> "pong", data |-> PayloadOf(next + 1, Frame)]
<1>1. /\ pc = "feed" /\ ~Incomplete /\ ~Refused /\ IsControl(Frame)
      /\ next' = next + 1
      /\ UNCHANGED <<sent, upto, client, got, current, opcode, replies, pc>>
  BY DEF FeedControl, peerVars, IsControl
<1>2. out' \in {Append(out, m), out}
  BY DEF FeedControl, Payload, Frame
<1>3. /\ TypeOK /\ History(sent, upto) /\ Assembled(s, current, opcode)
      /\ s.ok => Echoed(s.msgs, replies, out)
  BY <1>1 DEF IInv, Serving
<1>4. Available > 0 /\ UnitsOf(upto, next + 1) <= got
  BY <1>1, <1>3, FrameTaken
<1>5. /\ Frame \in Frames /\ s \in Readings /\ next + 1 \in 1 .. MaxFrames
      /\ next + 1 \in 0 .. Len(sent)
      /\ ReadingOf(upto, next + 1) = ReadOn(s, next + 1, Frame)
  BY <1>3, <1>4, FrameArrived
<1>6. m \in Messages /\ ~IsData(m)
  <2>1. PayloadOf(next + 1, Frame) \in Seq(Units)
    BY <1>5, PayloadTyped
  <2> QED
    BY <2>1 DEF Messages, IsData
<1>7. replies \in Seq(Messages) /\ out \in Seq(Messages)
  BY <1>3, Types
<1>8. out' \in Seq(Messages)
  BY <1>2, <1>6, <1>7, AppendProperties
<1>9. TypeOK'
  BY <1>1, <1>3, <1>4, <1>5, <1>8, Types, TypesNext
<1>10. /\ Assembled(ReadingOf(upto, next + 1), current, opcode)
       /\ ReadingOf(upto, next + 1).ok =>
            s.ok /\ ReadingOf(upto, next + 1).msgs = s.msgs
  BY <1>1, <1>3, <1>5, AssembledControl
<1>11. s.ok => Echoed(s.msgs, replies, out')
  <2> HIDE DEF m, s
  <2> QED
    BY <1>2, <1>3, <1>6, <1>7, EchoedControl
<1> QED
  BY <1>1, <1>3, <1>9, <1>10, <1>11 DEF IInv

LEMMA FeedDataStep ==
  ASSUME IInv, FeedData
  PROVE  IInv'
<1> DEFINE s == ReadingOf(upto, next)
           t == ReadingOf(upto, next + 1)
           op == IF Frame.op = "cont" THEN opcode ELSE Frame.op
           data == current \o PayloadOf(next + 1, Frame)
           m == [op |-> op, data |-> data]
<1>1. /\ pc = "feed" /\ ~Incomplete /\ ~Refused
      /\ Frame.op \in {"cont", "text", "binary"} /\ next' = next + 1
      /\ UNCHANGED <<sent, upto, client, got, replies, pc>>
  BY DEF FeedData, peerVars
<1>2. /\ Frame.fin => /\ out' = Append(out, m)
                      /\ current' = <<>> /\ opcode' = "cont"
      /\ ~Frame.fin => out' = out /\ current' = data /\ opcode' = op
  BY DEF FeedData, Payload, Frame
<1>3. /\ TypeOK /\ History(sent, upto) /\ Assembled(s, current, opcode)
      /\ s.ok => Echoed(s.msgs, replies, out)
  BY <1>1 DEF IInv, Serving
<1>4. /\ Available > 0 /\ UnitsOf(upto, next + 1) <= got
      /\ ~BadData
  BY <1>1, <1>3, FrameTaken
<1>5. /\ Frame \in Frames /\ s \in Readings /\ next + 1 \in 1 .. MaxFrames
      /\ next + 1 \in 0 .. Len(sent) /\ t = ReadOn(s, next + 1, Frame)
  BY <1>3, <1>4, FrameArrived
<1>6. /\ replies \in Seq(Messages) /\ out \in Seq(Messages)
      /\ current \in Seq(Units) /\ opcode \in {"cont", "text", "binary"}
  BY <1>3, Types
<1>7. data \in Seq(Units) /\ Len(data) <= MaxMessage
  <2> DEFINE p == PayloadOf(next + 1, Frame)
  <2>1. p \in Seq(Units) /\ Len(p) = Frame.len /\ Frame.len \in Nat
    BY <1>5, PayloadTyped, FrameTyped
  <2>2. ~(Len(current) + Frame.len > MaxMessage) /\ Len(current) \in Nat
    BY <1>1, <1>4, <1>6 DEF BadData
  <2> HIDE DEF p
  <2>3. current \o p \in Seq(Units) /\ Len(current \o p) = Len(current) + Len(p)
    BY <1>6, <2>1, ConcatProperties
  <2>4. Len(current \o p) <= MaxMessage
    BY <2>1, <2>2, <2>3
  <2> QED
    BY <2>3, <2>4 DEF p
<1>8. op \in {"cont", "text", "binary"}
  BY <1>1, <1>6
<1>9. m \in Messages
  BY <1>7, <1>8 DEF Messages
<1>10. /\ t.ok => s.ok /\ op \in {"text", "binary"}
       /\ Frame.fin => /\ Assembled(t, <<>>, "cont")
                       /\ t.ok => t.msgs = Append(s.msgs, m)
       /\ ~Frame.fin => Assembled(t, data, op) /\ (t.ok => t.msgs = s.msgs)
  <2>1. m = [op |-> op, data |-> data]
    OBVIOUS
  <2> HIDE DEF s, op, data
  <2>2. LET r == ReadOn(s, next + 1, Frame)
        IN  /\ r.ok => s.ok /\ op \in {"text", "binary"}
            /\ Frame.fin =>
                 /\ Assembled(r, <<>>, "cont")
                 /\ r.ok => r.msgs = Append(s.msgs, [op |-> op, data |-> data])
            /\ ~Frame.fin => Assembled(r, data, op) /\ (r.ok => r.msgs = s.msgs)
    BY <1>1, <1>3, <1>5, AssembledData DEF op, data
  <2> QED
    BY <1>5, <2>1, <2>2
<1>11. <<>> \in Seq(Units) /\ Len(<<>>) = 0 /\ s.msgs \in Seq(Messages)
  BY <1>5 DEF Readings
<1>12. op \in {"text", "binary"} => IsData(m)
  BY DEF IsData
<1> HIDE DEF s, t, op, data, m
<1>13. /\ out' \in Seq(Messages) /\ current' \in Seq(Units)
       /\ Len(current') <= MaxMessage /\ opcode' \in {"cont", "text", "binary"}
  <2>1. CASE Frame.fin
    <3>1. Append(out, m) \in Seq(Messages)
      BY <1>6, <1>9, AppendProperties
    <3>2. Len(<<>>) <= MaxMessage
      BY <1>11
    <3> QED
      BY <1>2, <1>11, <2>1, <3>1, <3>2
  <2>2. CASE ~Frame.fin
    BY <1>2, <1>6, <1>7, <1>8, <2>2
  <2> QED
    BY <2>1, <2>2
<1>14. TypeOK'
  BY <1>1, <1>3, <1>4, <1>5, <1>13, Types, TypesNext
<1>15. Assembled(t, current', opcode')
  BY <1>2, <1>10
<1>16. t.ok => Echoed(t.msgs, replies, out')
  <2> SUFFICES ASSUME t.ok PROVE Echoed(t.msgs, replies, out')
    OBVIOUS
  <2>1. s.ok /\ Echoed(s.msgs, replies, out) /\ IsData(m)
    BY <1>3, <1>10, <1>12
  <2>2. CASE Frame.fin
    <3>1. Echoed(Append(s.msgs, m), replies, Append(out, m))
      BY <1>6, <1>9, <1>11, <2>1, EchoedData
    <3> QED
      BY <1>2, <1>10, <2>2, <3>1
  <2>3. CASE ~Frame.fin
    BY <1>2, <1>10, <2>1, <2>3
  <2> QED
    BY <2>2, <2>3
<1>17. t = ReadingOf(upto', next')
  BY <1>1 DEF t
<1> QED
  BY <1>1, <1>3, <1>14, <1>15, <1>16, <1>17 DEF IInv

------------------------------------------------------------------------------
(* The echo.                                                                 *)

LEMMA HandleStep ==
  ASSUME IInv, Handle
  PROVE  IInv'
<1> DEFINE s == ReadingOf(upto, next)
           h == Head(out)
<1>1. /\ pc = "send" /\ out # <<>> /\ out' = Tail(out)
      /\ replies' = IF IsData(h) THEN Append(replies, h) ELSE replies
      /\ UNCHANGED <<sent, upto, client, got, next, current, opcode, pc>>
  BY DEF Handle, peerVars
<1>2. /\ TypeOK /\ History(sent, upto) /\ Assembled(s, current, opcode)
      /\ s.ok => Echoed(s.msgs, replies, out)
  BY <1>1 DEF IInv, Serving
<1>3. replies \in Seq(Messages) /\ out \in Seq(Messages)
  BY <1>2, Types
<1>4. /\ h \in Messages /\ h = out[1] /\ out' \in Seq(Messages)
      /\ Len(out') \in Nat /\ Len(out) = Len(out') + 1
      /\ \A i \in 1 .. Len(out') : out'[i] = out[i + 1]
  BY <1>1, <1>3, HeadTailProperties
<1> DEFINE b == IF IsData(h) THEN 1 ELSE 0
<1>5. b \in {0, 1} /\ (IsData(h) => b = 1) /\ (~IsData(h) => b = 0)
  OBVIOUS
<1> HIDE DEF s, h, b
<1>6. /\ replies' \in Seq(Messages) /\ Len(replies) \in Nat
      /\ Len(replies') = Len(replies) + b
      /\ \A k \in 1 .. Len(replies) : replies'[k] = replies[k]
      /\ IsData(h) => replies'[Len(replies) + 1] = h
  <2>1. CASE IsData(h)
    BY <1>1, <1>3, <1>4, <1>5, <2>1, AppendProperties
  <2>2. CASE ~IsData(h)
    BY <1>1, <1>3, <1>5, <2>2
  <2> QED
    BY <2>1, <2>2
<1>7. TypeOK'
  BY <1>1, <1>2, <1>4, <1>6, Types, TypesNext
<1>8. ASSUME NEW i \in 0 .. Len(out')
      PROVE  Count(out, i + 1) = Count(out', i) + b /\ Count(out', i) \in Nat
  <2>1. i \in Nat /\ \A j \in 1 .. i : out'[j] = out[j + 1]
    BY <1>4
  <2>2. Count(out, i + 1) = Count(out', i) + (IF IsData(out[1]) THEN 1 ELSE 0)
    BY <2>1, CountTail
  <2> QED
    BY <1>4, <2>1, <2>2, CountNat DEF b
<1>9. ASSUME Echoed(s.msgs, replies, out)
      PROVE  Echoed(s.msgs, replies', out')
  <2>1. Len(s.msgs) = Len(replies') + Count(out', Len(out'))
    <3>1. Len(out') \in 0 .. Len(out')
      BY <1>4
    <3>2. /\ Count(out, Len(out)) = Count(out', Len(out')) + b
          /\ Count(out', Len(out')) \in Nat
      BY <1>4, <1>8, <3>1
    <3> QED
      BY <1>5, <1>6, <1>9, <3>2 DEF Echoed
  <2>2. ASSUME IsData(h)
        PROVE  h = s.msgs[Len(replies) + 1]
    <3>1. 1 \in 1 .. Len(out) /\ 0 \in 0 .. Len(out')
      BY <1>4
    <3>2. Count(out', 0) = 0
      BY CountZero
    <3>3. Count(out, 0 + 1) = 0 + b
      BY <1>8, <3>1, <3>2
    <3>4. Count(out, 1) = 1
      BY <1>5, <2>2, <3>3
    <3>5. out[1] = s.msgs[Len(replies) + Count(out, 1)]
      BY <1>4, <1>9, <2>2, <3>1 DEF Echoed
    <3> QED
      BY <1>4, <3>4, <3>5
  <2>3. ASSUME NEW k \in 1 .. Len(replies')
        PROVE  replies'[k] = s.msgs[k]
    <3>1. k \in 1 .. Len(replies) \/ (k = Len(replies) + 1 /\ IsData(h))
      BY <1>5, <1>6
    <3>2. CASE k \in 1 .. Len(replies)
      BY <1>6, <1>9, <3>2 DEF Echoed
    <3>3. CASE k = Len(replies) + 1 /\ IsData(h)
      BY <1>6, <2>2, <3>3
    <3> QED
      BY <3>1, <3>2, <3>3
  <2>4. ASSUME NEW i \in 1 .. Len(out'), IsData(out'[i])
        PROVE  out'[i] = s.msgs[Len(replies') + Count(out', i)]
    <3>1. i \in 0 .. Len(out') /\ i + 1 \in 1 .. Len(out) /\ out'[i] = out[i + 1]
      BY <1>4
    <3>2. out[i + 1] = s.msgs[Len(replies) + Count(out, i + 1)]
      BY <1>9, <2>4, <3>1 DEF Echoed
    <3>3. Count(out, i + 1) = Count(out', i) + b /\ Count(out', i) \in Nat
      BY <1>8, <3>1
    <3>4. Len(replies) + Count(out, i + 1) = Len(replies') + Count(out', i)
      BY <1>5, <1>6, <3>3
    <3> QED
      BY <3>1, <3>2, <3>4
  <2> QED
    BY <2>1, <2>3, <2>4 DEF Echoed
<1>10. s = ReadingOf(upto', next')
  BY <1>1 DEF s
<1> QED
  BY <1>1, <1>2, <1>7, <1>9, <1>10 DEF IInv

------------------------------------------------------------------------------
LEMMA InitInvariant == Init => IInv
<1> SUFFICES ASSUME Init PROVE IInv
  OBVIOUS
<1>1. /\ sent = <<>> /\ upto = <<>> /\ client = "open" /\ got = 0 /\ next = 0
      /\ current = <<>> /\ opcode = "cont" /\ out = <<>> /\ replies = <<>>
      /\ pc = "recv"
  BY DEF Init
<1>2. /\ <<>> \in Seq(Frames) /\ <<>> \in Seq([units : Nat, reading : Readings])
      /\ <<>> \in Seq(Units) /\ <<>> \in Seq(Messages) /\ Len(<<>>) = 0
  OBVIOUS
<1>3. UnitsOf(<<>>, 0) = 0 /\ ReadingOf(<<>>, 0) = Start
  BY DEF UnitsOf, ReadingOf
<1>4. TypeOK
  BY <1>1, <1>2, <1>3, Types
<1>5. History(<<>>, <<>>)
  BY <1>2 DEF History
<1>6. Assembled(Start, <<>>, "cont")
  BY DEF Assembled, Start
<1>7. Echoed(Start.msgs, <<>>, <<>>)
  <2>1. Start.msgs = <<>> /\ Count(<<>>, Len(<<>>)) = 0
    BY <1>2, CountZero DEF Start
  <2> QED
    BY <1>2, <2>1 DEF Echoed
<1> QED
  BY <1>1, <1>3, <1>4, <1>5, <1>6, <1>7 DEF IInv

LEMMA Invariance == IInv /\ [Next]_vars => IInv'
<1> SUFFICES ASSUME IInv, [Next]_vars PROVE IInv'
  OBVIOUS
<1>1. CASE Client
  BY <1>1, GoneStep, SendStep DEF Client
<1>2. CASE Server
  BY <1>2, RecvStep, RecvFailsStep, FeedFailsStep, FeedDoneStep, FeedControlStep,
     FeedDataStep, HandleStep, SendFailsStep, HandledStep, SendCloseStep,
     BrokenPipeStep
  DEF Server, Feed
<1>3. CASE NextConnection
  BY <1>3, Fresh DEF NextConnection
<1>4. CASE UNCHANGED vars
  BY <1>4, Types, TypesNext DEF vars, peerVars, IInv
<1> QED
  BY <1>1, <1>2, <1>3, <1>4 DEF Next

\* A client that conforms to RFC 6455 is served: the messages it sent come back
\* whole, with their types, in order and once, and the server breaks off only
\* before a frame the client should not have sent.
THEOREM Served == Spec => []ClientServed
<1>1. Init => IInv
  BY InitInvariant
<1>2. IInv /\ [Next]_vars => IInv'
  BY Invariance
<1>3. IInv => ClientServed
  BY IInvServes
<1> QED
  BY <1>1, <1>2, <1>3, PTL DEF Spec

===============================================================================
