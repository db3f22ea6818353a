-------------------------- MODULE FcgiExchangeProofs --------------------------
(***************************************************************************)
(* Proofs about FcgiExchange, for every body, answer and socket buffer: the *)
(* answer that is passed on as a success is whole, and the gateway gives a  *)
(* backend up only for one of the named causes.                             *)
(***************************************************************************)
EXTENDS FcgiExchange, FiniteSetTheorems, FunctionTheorems, SequenceTheorems,
        TLAPS

-----------------------------------------------------------------------------
(* The inductive invariant.                                                 *)

Outgoing == {"params", "stdin", "end"}
Incoming == {"stdout", "stderr", "empty stderr", "end"}
Sending == {"params", "body", "chunk", "end"}
Working == {"accept", "serve", "read", "write"}

Types ==
  /\ gw \in Sending \cup {"read", "spin", "dead"} \cup Results
  /\ chunks \in Nat /\ got \in Nat /\ wrote \in Nat
  /\ toApp \in Seq(Outgoing)
  /\ toGw \in Seq(Incoming) /\ outbox \in Seq(Incoming)
  /\ app \in Working \cup {"linger", "closed", "crashed", "hung"}
  /\ finishing \in BOOLEAN /\ eof \in BOOLEAN /\ stderr \in BOOLEAN
  /\ expired \in BOOLEAN

\* How many records of STDOUT are in a queue.
Places(s) == {i \in 1..Len(s) : s[i] = "stdout"}
Stdouts(s) == Cardinality(Places(s))

\* While the gateway's end is open no STDOUT record is lost: it has been taken,
\* is on its way, or is still to be written.
Conserved == Open => got + Stdouts(toGw) + Stdouts(outbox) = wrote

\* END_REQUEST is the last record, and is missing nowhere but where it has been
\* taken or the exchange has failed.
EndLast ==
  /\ \A i \in 1..Len(outbox) : outbox[i] = "end" => i = Len(outbox) /\ finishing
  /\ \A i \in 1..Len(toGw) :
       toGw[i] = "end" => i = Len(toGw) /\ finishing /\ outbox = <<>>
  /\ finishing /\ outbox # <<>> => outbox[Len(outbox)] = "end"
  /\ finishing /\ outbox = <<>> /\ gw \notin Results \cup {"spin", "dead"} =>
       toGw # <<>> /\ toGw[Len(toGw)] = "end"
  /\ finishing => app \in {"write", "linger", "closed"}
  /\ app \in {"linger", "closed"} => finishing /\ outbox = <<>>

\* The request: its parameters come first and the end of its body last, and a
\* backend that has not seen the end has it before it.
RequestInOrder ==
  /\ gw = "params" => toApp = <<>> /\ app \in {"accept", "hung", "crashed"}
  /\ app = "accept" /\ gw # "params" => toApp # <<>> /\ toApp[1] = "params"
  /\ gw \in Sending =>
       ~eof /\ \A i \in 1..Len(toApp) : toApp[i] # "end"
  /\ gw = "read" /\ ~eof /\ app \in Working =>
       toApp # <<>> /\ toApp[Len(toApp)] = "end"
  /\ app = "read" => ~eof

\* A backend closes before the gateway only when the gateway is silent.
ClosedForCause == app = "closed" => ~Open \/ expired \/ gw = "spin"

\* What is to be written is written before anything else is done.
Resting == outbox # <<>> => app = "write"

IInv == /\ Types /\ Resting /\ Conserved /\ EndLast /\ RequestInOrder
        /\ ClosedForCause /\ OkIsWhole

USE ExchangeAssumption

-----------------------------------------------------------------------------
(* Counting the STDOUT records of a queue.                                  *)

LEMMA StdoutsNat ==
  ASSUME NEW s \in Seq(Incoming)
  PROVE  IsFiniteSet(Places(s)) /\ Stdouts(s) \in Nat
<1>1. IsFiniteSet(1..Len(s)) /\ Places(s) \in SUBSET (1..Len(s))
  BY FS_Interval DEF Places
<1> QED
  BY <1>1, FS_Subset, FS_CardinalityType DEF Stdouts

One(r) == IF r = "stdout" THEN 1 ELSE 0

LEMMA StdoutsEmpty == Stdouts(<<>>) = 0
<1>1. Places(<<>>) = {}
  BY DEF Places
<1> QED
  BY <1>1, FS_EmptySet DEF Stdouts

\* A record more counts if it is of STDOUT ...
LEMMA StdoutsAppend ==
  ASSUME NEW s \in Seq(Incoming), NEW r \in Incoming
  PROVE  Stdouts(Append(s, r)) = Stdouts(s) + One(r)
<1>1. Places(Append(s, r)) = IF r = "stdout" THEN Places(s) \cup {Len(s) + 1}
                             ELSE Places(s)
  <2> DEFINE t == Append(s, r)
  <2>1. /\ Len(s) \in Nat /\ Len(t) = Len(s) + 1 /\ t[Len(s) + 1] = r
        /\ \A i \in 1..Len(s) : t[i] = s[i]
    OBVIOUS
  <2>2. 1..Len(t) = (1..Len(s)) \cup {Len(s) + 1}
    BY <2>1
  <2> HIDE DEF t
  <2>3. \A i \in 1..Len(s) : i \in Places(t) <=> i \in Places(s)
    BY <2>1, <2>2 DEF Places
  <2>4. Len(s) + 1 \in Places(t) <=> r = "stdout"
    BY <2>1, <2>2 DEF Places
  <2>5. Places(t) \subseteq 1..Len(t) /\ Places(s) \subseteq 1..Len(s)
    BY DEF Places
  <2>6. \A i : i \in Places(t) <=>
               i \in Places(s) \/ (i = Len(s) + 1 /\ r = "stdout")
    BY <2>2, <2>3, <2>4, <2>5
  <2> QED
    BY <2>6 DEF t
<1>2. Len(s) + 1 \notin Places(s)
  BY DEF Places
<1>3. Cardinality(Places(s) \cup {Len(s) + 1}) = Cardinality(Places(s)) + 1
  BY <1>2, StdoutsNat, FS_AddElement
<1>4. Cardinality(Places(s)) \in Nat
  BY StdoutsNat DEF Stdouts
<1> QED
  BY <1>1, <1>3, <1>4 DEF Stdouts, One

\* ... and one less no longer does: the others move up.
LEMMA StdoutsTail ==
  ASSUME NEW s \in Seq(Incoming), s # <<>>
  PROVE  Stdouts(s) = Stdouts(Tail(s)) + One(Head(s))
<1> DEFINE S == Places(Tail(s))
           T == Places(s) \ {1}
           f == [i \in S |-> i + 1]
<1>1. /\ Tail(s) \in Seq(Incoming) /\ Len(Tail(s)) = Len(s) - 1
      /\ Len(s) \in Nat \ {0}
      /\ \A i \in 1..Len(Tail(s)) : Tail(s)[i] = s[i + 1]
      /\ Head(s) = s[1]
  OBVIOUS
<1>2. f \in Bijection(S, T)
  <2>1. \A i \in S : i \in Nat /\ i + 1 \in T
    BY <1>1 DEF Places
  <2>2. \A j \in T : j - 1 \in S /\ f[j - 1] = j
    BY <1>1 DEF Places
  <2>3. f \in [S -> T] /\ \A a, b \in S : f[a] = f[b] => a = b
    BY <2>1
  <2>4. f \in Surjection(S, T)
    BY <2>2, <2>3 DEF Surjection
  <2> QED
    BY <2>3, <2>4 DEF Bijection, Injection, IsInjective
<1>3. Cardinality(T) = Stdouts(Tail(s))
  BY <1>1, <1>2, StdoutsNat, FS_Bijection DEF ExistsBijection, Stdouts
<1>4. 1 \in Places(s) <=> Head(s) = "stdout"
  BY <1>1 DEF Places
<1>5. Cardinality(T) = IF 1 \in Places(s) THEN Stdouts(s) - 1 ELSE Stdouts(s)
  BY StdoutsNat, FS_RemoveElement DEF Stdouts
<1> QED
  BY <1>3, <1>4, <1>5, StdoutsNat DEF One

-----------------------------------------------------------------------------
(* What a queue is after a step.                                            *)

LEMMA Nothing ==
  ASSUME NEW S
  PROVE  /\ <<>> \in Seq(S) /\ Len(<<>>) = 0
         /\ \A s \in Seq(S) : s = <<>> <=> Len(s) = 0
OBVIOUS

LEMMA Appended ==
  ASSUME NEW S, NEW s \in Seq(S), NEW r \in S
  PROVE  /\ Append(s, r) \in Seq(S) /\ Append(s, r) # <<>>
         /\ Len(s) \in Nat /\ Len(Append(s, r)) = Len(s) + 1
         /\ Append(s, r)[Len(s) + 1] = r
         /\ \A i \in 1..Len(s) : Append(s, r)[i] = s[i]
OBVIOUS

LEMMA Taken ==
  ASSUME NEW S, NEW s \in Seq(S), s # <<>>
  PROVE  /\ Tail(s) \in Seq(S) /\ Head(s) = s[1] /\ Head(s) \in S
         /\ Len(s) \in Nat \ {0} /\ Len(Tail(s)) = Len(s) - 1
         /\ \A i \in 1..Len(Tail(s)) : Tail(s)[i] = s[i + 1]
         /\ (Tail(s) = <<>>) <=> (Len(s) = 1)
<1>1. /\ Tail(s) \in Seq(S) /\ Head(s) = s[1]
      /\ Len(s) \in Nat \ {0} /\ Len(Tail(s)) = Len(s) - 1
      /\ \A i \in 1..Len(Tail(s)) : Tail(s)[i] = s[i + 1]
  OBVIOUS
<1>2. Head(s) \in S
  BY <1>1
<1>3. (Tail(s) = <<>>) <=> (Len(Tail(s)) = 0)
  BY <1>1, Nothing
<1> QED
  BY <1>1, <1>2, <1>3

\* What the backend writes in one go.
Outboxes == {<<"stdout">>, <<"stderr">>, <<"stdout", "end">>, <<"end">>,
             <<"empty stderr", "stdout", "end">>, <<"empty stderr", "end">>}

LEMMA Joined ==
  /\ <<"empty stderr">> \o <<"stdout", "end">> =
       <<"empty stderr", "stdout", "end">>
  /\ <<"empty stderr">> \o <<"end">> = <<"empty stderr", "end">>
<1> DEFINE e == <<"empty stderr">>
           p == <<"stdout", "end">>
           q == <<"end">>
           ep == <<"empty stderr", "stdout", "end">>
           eq == <<"empty stderr", "end">>
<1>1. /\ e \in Seq(Incoming) /\ p \in Seq(Incoming) /\ q \in Seq(Incoming)
      /\ ep \in Seq(Incoming) /\ eq \in Seq(Incoming)
  BY DEF Incoming
<1>2. /\ Len(e) = 1 /\ Len(p) = 2 /\ Len(q) = 1 /\ Len(ep) = 3 /\ Len(eq) = 2
      /\ ep[1] = e[1] /\ ep[2] = p[1] /\ ep[3] = p[2]
      /\ eq[1] = e[1] /\ eq[2] = q[1]
  OBVIOUS
<1> HIDE DEF e, p, q, ep, eq
<1>3. e \o p = ep
  <2>1. /\ e \o p \in Seq(Incoming) /\ Len(e \o p) = 3
        /\ (e \o p)[1] = e[1] /\ (e \o p)[2] = p[1] /\ (e \o p)[3] = p[2]
    <3>1. /\ e \o p \in Seq(Incoming) /\ Len(e \o p) = Len(e) + Len(p)
          /\ \A i \in 1 .. Len(e) + Len(p) : (e \o p)[i] =
               IF i <= Len(e) THEN e[i] ELSE p[i - Len(e)]
      BY <1>1, ConcatProperties, Zenon
    <3>2. Len(e) + Len(p) = 3 /\ 1 .. 3 = {1, 2, 3}
      BY <1>2
    <3> QED
      BY <1>2, <3>1, <3>2
  <2> QED
    BY <1>1, <1>2, <2>1, SeqEqual
<1>4. e \o q = eq
  <2>1. /\ e \o q \in Seq(Incoming) /\ Len(e \o q) = 2
        /\ (e \o q)[1] = e[1] /\ (e \o q)[2] = q[1]
    <3>1. /\ e \o q \in Seq(Incoming) /\ Len(e \o q) = Len(e) + Len(q)
          /\ \A i \in 1 .. Len(e) + Len(q) : (e \o q)[i] =
               IF i <= Len(e) THEN e[i] ELSE q[i - Len(e)]
      BY <1>1, ConcatProperties, Zenon
    <3>2. Len(e) + Len(q) = 2 /\ 1 .. 2 = {1, 2}
      BY <1>2
    <3> QED
      BY <1>2, <3>1, <3>2
  <2> QED
    BY <1>1, <1>2, <2>1, SeqEqual
<1> QED
  BY <1>3, <1>4 DEF e, p, q, ep, eq

LEMMA Filled ==
  /\ Stdouts(<<"stdout">>) = 1 /\ Stdouts(<<"stderr">>) = 0
  /\ Stdouts(<<"stdout", "end">>) = 1 /\ Stdouts(<<"end">>) = 0
  /\ Stdouts(<<"empty stderr", "stdout", "end">>) = 1
  /\ Stdouts(<<"empty stderr", "end">>) = 0
  /\ \A s \in Outboxes :
       /\ s \in Seq(Incoming) /\ s # <<>>
       /\ \A i \in 1..Len(s) : s[i] = "end" => i = Len(s)
<1> DEFINE a == "empty stderr"
<1>1. /\ <<"stdout">> \in Seq(Incoming) /\ <<"stderr">> \in Seq(Incoming)
      /\ <<"end">> \in Seq(Incoming) /\ <<"stdout", "end">> \in Seq(Incoming)
      /\ <<a, "end">> \in Seq(Incoming)
      /\ <<a, "stdout", "end">> \in Seq(Incoming)
  BY DEF Incoming
<1>2. /\ Places(<<"stdout">>) = {1} /\ Places(<<"stderr">>) = {}
      /\ Places(<<"end">>) = {}
  BY DEF Places
<1>3. Places(<<"stdout", "end">>) = {1}
  BY DEF Places
<1>4. Places(<<a, "end">>) = {}
  <2> DEFINE s == <<a, "end">>
  <2>1. /\ Len(s) = 2 /\ 1..2 = {1, 2}
        /\ s[1] # "stdout" /\ s[2] # "stdout"
    OBVIOUS
  <2> HIDE DEF s
  <2>2. Places(s) = {}
    BY <2>1 DEF Places
  <2> QED
    BY <2>2 DEF s
<1>5. Places(<<a, "stdout", "end">>) = {2}
  <2> DEFINE s == <<a, "stdout", "end">>
  <2>1. /\ Len(s) = 3 /\ 1..3 = {1, 2, 3}
        /\ s[1] # "stdout" /\ s[2] = "stdout" /\ s[3] # "stdout"
    OBVIOUS
  <2> HIDE DEF s
  <2>2. Places(s) = {2}
    BY <2>1 DEF Places
  <2> QED
    BY <2>2 DEF s
<1>6. Cardinality({1}) = 1 /\ Cardinality({2}) = 1 /\ Cardinality({}) = 0
  BY FS_Singleton, FS_EmptySet
<1>7. \A s \in Outboxes : s \in Seq(Incoming)
  BY <1>1, Zenon DEF Outboxes
<1>8. \A s \in Outboxes :
        s # <<>> /\ \A i \in 1..Len(s) : s[i] = "end" => i = Len(s)
  <2>1. /\ <<"stdout">> # <<>> /\ <<"stderr">> # <<>> /\ <<"end">> # <<>>
        /\ <<"stdout", "end">> # <<>> /\ <<a, "end">> # <<>>
        /\ <<a, "stdout", "end">> # <<>>
    OBVIOUS
  <2> DEFINE P(s) == \A i \in 1..Len(s) : s[i] = "end" => i = Len(s)
  <2>2. P(<<"stdout">>) /\ P(<<"stderr">>) /\ P(<<"end">>)
    OBVIOUS
  <2>3. P(<<"stdout", "end">>) /\ P(<<a, "end">>)
    <3>1. ASSUME NEW s, Len(s) = 2, s[1] # "end"
          PROVE  P(s)
      BY <3>1
    <3>2. /\ Len(<<"stdout", "end">>) = 2 /\ Len(<<a, "end">>) = 2
          /\ <<"stdout", "end">>[1] # "end" /\ <<a, "end">>[1] # "end"
      OBVIOUS
    <3> HIDE DEF P
    <3> QED
      BY <3>1, <3>2
  <2>4. P(<<a, "stdout", "end">>)
    <3>1. ASSUME NEW s, Len(s) = 3, s[1] # "end", s[2] # "end"
          PROVE  P(s)
      BY <3>1
    <3> DEFINE s == <<a, "stdout", "end">>
    <3>2. Len(s) = 3 /\ s[1] # "end" /\ s[2] # "end"
      OBVIOUS
    <3>3. P(s)
      <4> HIDE DEF P, s
      <4> QED
        BY <3>1, <3>2
    <3> QED
      BY <3>3
  <2> HIDE DEF P
  <2>5. \A s \in Outboxes : s # <<>> /\ P(s)
    BY <2>1, <2>2, <2>3, <2>4, Zenon DEF Outboxes
  <2> QED
    BY <2>5 DEF P
<1> QED
  BY <1>2, <1>3, <1>4, <1>5, <1>6, <1>7, <1>8 DEF Stdouts

-----------------------------------------------------------------------------
(* One lemma for each group of actions.                                     *)

LEMMA InitInvariant == Init => IInv
<1> SUFFICES ASSUME Init PROVE IInv
  OBVIOUS
<1>1. Stdouts(toGw) = 0 /\ Stdouts(outbox) = 0
  BY StdoutsEmpty DEF Init
<1>2. Types
  <2>1. toApp \in Seq(Outgoing) /\ toGw \in Seq(Incoming)
        /\ outbox \in Seq(Incoming)
    BY Nothing DEF Init
  <2> QED
    BY <2>1 DEF Init, Types, Sending, Working
<1>3. EndLast
  <2>1. Len(outbox) = 0 /\ Len(toGw) = 0
    BY Nothing DEF Init
  <2> QED
    BY <2>1 DEF Init, EndLast
<1>4. RequestInOrder /\ ClosedForCause /\ OkIsWhole
  <2>1. Len(toApp) = 0
    BY Nothing DEF Init
  <2> QED
    BY <2>1 DEF Init, RequestInOrder, ClosedForCause, OkIsWhole, Sending
<1>5. Conserved
  BY <1>1 DEF Init, Conserved
<1>6. Resting
  BY DEF Init, Resting
<1> QED
  BY <1>2, <1>3, <1>4, <1>5, <1>6 DEF IInv

\* The gateway sends the request.
LEMMA WritePreserves ==
  ASSUME IInv, WriteParams \/ WriteChunk \/ WriteEnd
  PROVE  IInv'
<1> USE DEF IInv, Writes, backend
<1>1. /\ UNCHANGED <<toGw, outbox, got, wrote>>
      /\ Open /\ Open'
  BY DEF WriteParams, WriteChunk, WriteEnd, Open, Results
<1>2. Types'
  <2>1. toApp' \in Seq(Outgoing)
    <3>1. \E r \in Outgoing : toApp' = Append(toApp, r)
      BY DEF Outgoing, WriteParams, WriteChunk, WriteEnd
    <3>2. toApp \in Seq(Outgoing)
      BY DEF Types
    <3> HIDE DEF IInv
    <3> QED
      BY <3>1, <3>2, Appended
  <2>2. /\ UNCHANGED <<toGw, outbox, got, wrote, app, finishing, eof, stderr,
                       expired>>
        /\ gw' \in {"body", "read"} /\ chunks' \in Nat
    BY DEF Types, WriteParams, WriteChunk, WriteEnd
  <2> QED
    BY <2>1, <2>2 DEF Types, Sending
<1>3. Conserved'
  BY <1>1 DEF Conserved
<1>4. EndLast' /\ ClosedForCause' /\ OkIsWhole'
  BY DEF EndLast, ClosedForCause, OkIsWhole, Results, Open, WriteParams,
         WriteChunk, WriteEnd
<1>5. RequestInOrder'
  <2> USE DEF RequestInOrder, Types, Sending, Working, Outgoing
  <2>1. CASE WriteParams
    BY <2>1 DEF WriteParams
  <2>2. CASE WriteChunk
    BY <2>2 DEF WriteChunk
  <2>3. CASE WriteEnd
    BY <2>3 DEF WriteEnd
  <2> QED
    BY <2>1, <2>2, <2>3
<1>6. Resting'
  BY DEF Resting, WriteParams, WriteChunk, WriteEnd
<1> QED
  BY <1>2, <1>3, <1>4, <1>5, <1>6

\* What it does by itself, and what it finds when it waits.
LEMMA GatewayPreserves ==
  ASSUME IInv,
         ChunkComes \/ BodyFails \/ BodyDone \/ WriteFails \/ ReadFails
         \/ TimesOut
  PROVE  IInv'
<1> USE DEF IInv, backend, ChunkComes, BodyFails, BodyDone, WriteFails,
            ReadFails, TimesOut
<1>1. UNCHANGED <<toApp, toGw, app, outbox, finishing, eof, got, chunks, wrote,
                  stderr, expired>>
  OBVIOUS
<1>2. /\ gw \in {"params", "body", "chunk", "end", "read"}
      /\ gw' \in {"chunk", "end", "400", "502", "dead"}
      /\ gw' \in {"chunk", "end"} => gw = "body"
  OBVIOUS
<1>3. Types'
  BY <1>1, <1>2 DEF Types, Sending, Results
<1>4. Conserved' /\ ClosedForCause' /\ OkIsWhole'
  BY <1>1, <1>2 DEF Conserved, ClosedForCause, OkIsWhole, Open, Results
<1>5. EndLast'
  BY <1>1, <1>2 DEF EndLast, Results
<1>6. RequestInOrder'
  <2>1. gw = "params" => app # "accept" \/ gw' # gw
    BY <1>2
  <2>2. app = "accept" => gw # "params"
    BY DEF RequestInOrder, AppStuck, AppOpen
  <2> QED
    BY <1>1, <1>2, <2>2 DEF RequestInOrder, Sending, Working
<1> QED
  BY <1>1, <1>3, <1>4, <1>5, <1>6 DEF Resting

\* It takes a record of the answer.
LEMMA TakePreserves ==
  ASSUME IInv, TakeRecord
  PROVE  IInv'
<1> USE DEF IInv
<1>1. /\ gw = "read" /\ toGw # <<>> /\ toGw' = Tail(toGw)
      /\ UNCHANGED <<chunks, toApp, app, outbox, finishing, eof, wrote, stderr,
                     expired>>
      /\ toGw \in Seq(Incoming) /\ outbox \in Seq(Incoming)
      /\ got \in Nat /\ wrote \in Nat
  BY DEF TakeRecord, backend, Types
<1> DEFINE r == Head(toGw)
<1>2. /\ r = toGw[1] /\ r \in Incoming
      /\ toGw' \in Seq(Incoming)
      /\ Len(toGw) \in Nat \ {0} /\ Len(toGw') = Len(toGw) - 1
      /\ \A i \in 1..Len(toGw') : toGw'[i] = toGw[i + 1]
      /\ (toGw' = <<>>) <=> (Len(toGw) = 1)
  <2> HIDE DEF IInv
  <2> QED
    BY <1>1, Taken
<1>3. got' = got + One(r) /\ One(r) \in {0, 1}
  <2>1. got' = IF r = "stdout" THEN got + 1 ELSE got
    BY DEF TakeRecord
  <2> QED
    BY <1>1, <2>1 DEF One
<1>4. /\ r = "end" => gw' = "ok"
      /\ r = "empty stderr" => gw' = "spin"
      /\ r \in {"stdout", "stderr"} => gw' = "read"
  <2>1. CASE r = "end"
    BY <2>1 DEF TakeRecord
  <2>2. CASE r = "empty stderr"
    BY <2>2 DEF TakeRecord
  <2>3. CASE r \in {"stdout", "stderr"}
    BY <1>1, <2>3 DEF TakeRecord
  <2> QED
    BY <2>1, <2>2, <2>3
<1>5. gw' \in {"ok", "spin", "read"}
  BY <1>2, <1>4 DEF Incoming
<1>6. Types'
  BY <1>1, <1>2, <1>3, <1>5 DEF Types, Sending, Results
<1>7. Stdouts(toGw) = Stdouts(toGw') + One(r)
  BY <1>1, StdoutsTail
<1>8. /\ Stdouts(toGw') \in Nat /\ Stdouts(toGw) \in Nat
      /\ Stdouts(outbox) \in Nat
  BY <1>1, <1>2, StdoutsNat
<1>9. got' + Stdouts(toGw') + Stdouts(outbox) = wrote
  <2>1. got + Stdouts(toGw) + Stdouts(outbox) = wrote
    BY <1>1 DEF Conserved, Open, Results
  <2> QED
    BY <2>1, <1>1, <1>3, <1>7, <1>8
<1>10. Conserved'
  BY <1>1, <1>9 DEF Conserved
<1>11. EndLast'
  <2> HIDE DEF r
  <2>1. \A i \in 1..Len(toGw') : i + 1 \in 1..Len(toGw)
    BY <1>2
  <2>2. \A i \in 1..Len(toGw') :
          toGw'[i] = "end" => i = Len(toGw') /\ finishing /\ outbox = <<>>
    BY <1>2, <2>1 DEF EndLast
  <2>3. gw' = "read" /\ finishing /\ outbox = <<>> =>
          toGw' # <<>> /\ toGw'[Len(toGw')] = "end"
    <3> SUFFICES ASSUME gw' = "read", finishing, outbox = <<>>
                 PROVE  toGw' # <<>> /\ toGw'[Len(toGw')] = "end"
      OBVIOUS
    <3>1. toGw[Len(toGw)] = "end"
      BY <1>1 DEF EndLast, Results
    <3>2. Len(toGw) # 1
      BY <3>1, <1>2, <1>4
    <3> QED
      BY <3>1, <3>2, <1>2
  <2> QED
    BY <1>1, <1>5, <2>2, <2>3 DEF EndLast, Results
<1>12. RequestInOrder' /\ ClosedForCause'
  BY <1>1, <1>5 DEF RequestInOrder, ClosedForCause, Sending, Working, Open,
                    Results
<1>13. OkIsWhole'
  <2> SUFFICES ASSUME gw' = "ok"
               PROVE  finishing /\ outbox = <<>> /\ got' = wrote
    BY <1>1 DEF OkIsWhole
  <2>1. r = "end"
    BY <1>2, <1>4 DEF Incoming
  <2>2. finishing /\ outbox = <<>> /\ Len(toGw) = 1
    BY <1>2, <2>1 DEF EndLast
  <2>3. Stdouts(toGw') = 0 /\ Stdouts(outbox) = 0
    BY <1>2, <2>2, StdoutsEmpty
  <2>4. got' = wrote
    BY <1>1, <1>3, <1>9, <2>3
  <2> QED
    BY <2>2, <2>4
<1> QED
  BY <1>1, <1>6, <1>10, <1>11, <1>12, <1>13 DEF Resting

\* The backend reads: the request, a record of its body, or what it throws away.
LEMMA ReadPreserves ==
  ASSUME IInv, Accepts \/ Read \/ Linger
  PROVE  IInv'
<1> USE DEF IInv
<1>1. /\ UNCHANGED <<gw, chunks, got, toGw, outbox, finishing, wrote, stderr>>
      /\ UNCHANGED toApp \/ (toApp # <<>> /\ toApp' = Tail(toApp))
      /\ toApp \in Seq(Outgoing)
  BY DEF Accepts, Read, Linger, gateway, Types
<1>2. toApp # <<>> =>
        /\ Head(toApp) = toApp[1] /\ Tail(toApp) \in Seq(Outgoing)
        /\ Len(toApp) \in Nat \ {0} /\ Len(Tail(toApp)) = Len(toApp) - 1
        /\ \A i \in 1..Len(Tail(toApp)) : Tail(toApp)[i] = toApp[i + 1]
        /\ (Tail(toApp) = <<>>) <=> (Len(toApp) = 1)
  <2> HIDE DEF IInv
  <2> QED
    BY <1>1, Taken
<1>3. /\ app \in {"accept", "read", "linger"}
      /\ app' \in {"serve", "linger", "closed"}
      /\ (app = "linger") <=> (app' \in {"linger", "closed"})
      /\ eof' \in BOOLEAN /\ expired' \in BOOLEAN
      /\ app' = "closed" => ~Open \/ expired' \/ gw = "spin"
  <2>1. CASE Accepts
    BY <2>1 DEF Accepts, Types
  <2>2. CASE Read
    BY <2>2 DEF Read, Types, RequestInOrder
  <2>3. CASE Linger
    BY <2>3 DEF Linger, Types
  <2> QED
    BY <2>1, <2>2, <2>3
<1>4. Types'
  BY <1>1, <1>2, <1>3 DEF Types, Working
<1>5. Conserved' /\ OkIsWhole' /\ ClosedForCause'
  BY <1>1, <1>3 DEF Conserved, OkIsWhole, ClosedForCause, Open
<1>6. EndLast'
  BY <1>1, <1>3 DEF EndLast
<1>7. RequestInOrder'
  <2>4. \A i \in 1..Len(toApp') : \E j \in 1..Len(toApp) : toApp'[i] = toApp[j]
    <3>1. CASE UNCHANGED toApp
      BY <3>1
    <3>2. CASE toApp # <<>> /\ toApp' = Tail(toApp)
      <4>1. \A i \in 1..Len(toApp') :
              i + 1 \in 1..Len(toApp) /\ toApp'[i] = toApp[i + 1]
        BY <1>2, <3>2
      <4> QED
        BY <4>1
    <3> QED
      BY <1>1, <3>1, <3>2
  <2>1. CASE Accepts
    BY <1>1, <1>2, <2>1 DEF RequestInOrder, Accepts, Sending, Working
  <2>2. CASE Read
    <3>1. /\ app = "read" /\ app' = "serve" /\ ~eof /\ gw # "params"
          /\ toApp = <<>> => eof'
          /\ toApp # <<>> => eof' = (toApp[1] = "end")
          /\ toApp = <<>> => gw \in Results \cup {"dead"}
      BY <1>2, <2>2 DEF Read, RequestInOrder, Open
    <3>2. gw \in Sending => toApp # <<>> /\ toApp[1] # "end"
      BY <1>2, <3>1 DEF RequestInOrder, Sending, Results
    <3>3. gw \in Sending => ~eof'
      BY <3>1, <3>2
    <3>4. \A i \in 1..Len(toApp') : \E j \in 1..Len(toApp) : toApp'[i] = toApp[j]
      BY <2>4
    <3>5. gw \in Sending => \A i \in 1..Len(toApp') : toApp'[i] # "end"
      BY <3>4 DEF RequestInOrder
    <3>6. gw = "read" /\ ~eof' => toApp' # <<>> /\ toApp'[Len(toApp')] = "end"
      <4> SUFFICES ASSUME gw = "read", ~eof'
                   PROVE  toApp' # <<>> /\ toApp'[Len(toApp')] = "end"
        OBVIOUS
      <4>1. toApp # <<>> /\ toApp[1] # "end" /\ toApp[Len(toApp)] = "end"
        BY <3>1 DEF RequestInOrder, Working, Results
      <4>2. toApp' = Tail(toApp)
        BY <2>2, <4>1 DEF Read
      <4>3. Len(toApp) # 1
        BY <4>1
      <4> QED
        BY <1>2, <4>1, <4>2, <4>3
    <3> QED
      BY <1>1, <3>1, <3>3, <3>5, <3>6 DEF RequestInOrder
  <2>3. CASE Linger
    <3>1. /\ app = "linger" /\ app' \in {"linger", "closed"} /\ eof' = eof
          /\ gw # "params"
      BY <2>3 DEF Linger, RequestInOrder
    <3>2. \A i \in 1..Len(toApp') : \E j \in 1..Len(toApp) : toApp'[i] = toApp[j]
      BY <2>4
    <3> QED
      BY <1>1, <3>1, <3>2 DEF RequestInOrder, Working
  <2> QED
    BY <2>1, <2>2, <2>3
<1>8. Resting'
  BY <1>1, <1>3 DEF Resting
<1> QED
  BY <1>4, <1>5, <1>6, <1>7, <1>8

\* It writes, and finishes: each record goes from the buffers to the outbox and
\* from there to the socket.
LEMMA FillPreserves ==
  ASSUME IInv, CallWrite \/ Finish
  PROVE  IInv'
<1> USE DEF IInv
<1>1. /\ UNCHANGED <<gw, chunks, got, toApp, toGw, eof, expired>>
      /\ app = "serve" /\ app' = "write" /\ finishing = FALSE
      /\ toGw \in Seq(Incoming) /\ outbox \in Seq(Incoming)
      /\ wrote \in Nat /\ got \in Nat
  BY DEF CallWrite, Finish, gateway, Types, EndLast
<1>2. outbox = <<>>
  BY <1>1 DEF Resting
<1>3. /\ outbox' \in Outboxes
      /\ wrote' = wrote + Stdouts(outbox')
      /\ finishing' <=> outbox'[Len(outbox')] = "end"
      /\ finishing' \in BOOLEAN
      /\ stderr' \in BOOLEAN
  <2>3. /\ Stdouts(<<"stdout">>) = 1 /\ Stdouts(<<"stderr">>) = 0
        /\ Stdouts(<<"stdout", "end">>) = 1 /\ Stdouts(<<"end">>) = 0
        /\ Stdouts(<<"empty stderr", "stdout", "end">>) = 1
        /\ Stdouts(<<"empty stderr", "end">>) = 0
    BY Filled
  <2>4. stderr \in BOOLEAN
    BY DEF Types
  <2> HIDE DEF IInv
  <2>1. CASE CallWrite
    <3>1. CASE wrote' = wrote + 1 /\ outbox' = <<"stdout">> /\ UNCHANGED stderr
      <4>1. finishing' = FALSE /\ stderr' \in BOOLEAN
        BY <1>1, <2>1, <2>4, <3>1 DEF CallWrite
      <4>2. outbox' \in Outboxes /\ outbox'[Len(outbox')] # "end"
        BY <3>1 DEF Outboxes
      <4> QED
        BY <2>3, <3>1, <4>1, <4>2
    <3>2. CASE stderr' = TRUE /\ outbox' = <<"stderr">> /\ UNCHANGED wrote
      <4>1. finishing' = FALSE /\ stderr' \in BOOLEAN
        BY <1>1, <2>1, <2>4, <3>2 DEF CallWrite
      <4>2. outbox' \in Outboxes /\ outbox'[Len(outbox')] # "end"
        BY <3>2 DEF Outboxes
      <4>3. wrote + 0 = wrote
        BY <1>1
      <4> QED
        BY <2>3, <3>2, <4>1, <4>2, <4>3
    <3> QED
      BY <2>1, <3>1, <3>2 DEF CallWrite
  <2>2. CASE Finish
    <3>1. CASE stderr /\ wrote < AnswerLen
      <4>1. outbox' = <<"empty stderr", "stdout", "end">>
        BY <2>2, <3>1, Joined DEF Finish
      <4>2. wrote' = wrote + 1 /\ finishing' = TRUE /\ stderr' = stderr
        BY <2>2, <3>1 DEF Finish
      <4>3. outbox' \in Outboxes /\ outbox'[Len(outbox')] = "end"
        BY <4>1 DEF Outboxes
      <4> QED
        BY <1>1, <2>3, <2>4, <4>1, <4>2, <4>3
    <3>2. CASE stderr /\ ~(wrote < AnswerLen)
      <4>1. outbox' = <<"empty stderr", "end">>
        BY <2>2, <3>2, Joined DEF Finish
      <4>2. wrote' = wrote /\ finishing' = TRUE /\ stderr' = stderr
        BY <2>2, <3>2 DEF Finish
      <4>3. outbox' \in Outboxes /\ outbox'[Len(outbox')] = "end"
        BY <4>1 DEF Outboxes
      <4>4. wrote + 0 = wrote
        BY <1>1
      <4> QED
        BY <2>3, <2>4, <4>1, <4>2, <4>3, <4>4
    <3>3. CASE ~stderr /\ wrote < AnswerLen
      <4>1. outbox' = <<"stdout", "end">>
        BY <2>2, <3>3 DEF Finish
      <4>2. wrote' = wrote + 1 /\ finishing' = TRUE /\ stderr' = stderr
        BY <2>2, <3>3 DEF Finish
      <4>3. outbox' \in Outboxes /\ outbox'[Len(outbox')] = "end"
        BY <4>1 DEF Outboxes
      <4> QED
        BY <1>1, <2>3, <2>4, <4>1, <4>2, <4>3
    <3>4. CASE ~stderr /\ ~(wrote < AnswerLen)
      <4>1. outbox' = <<"end">>
        BY <2>2, <3>4 DEF Finish
      <4>2. wrote' = wrote /\ finishing' = TRUE /\ stderr' = stderr
        BY <2>2, <3>4 DEF Finish
      <4>3. outbox' \in Outboxes /\ outbox'[Len(outbox')] = "end"
        BY <4>1 DEF Outboxes
      <4>4. wrote + 0 = wrote
        BY <1>1
      <4> QED
        BY <2>3, <2>4, <4>1, <4>2, <4>3, <4>4
    <3> QED
      BY <3>1, <3>2, <3>3, <3>4
  <2> QED
    BY <2>1, <2>2
<1>4. /\ outbox' \in Seq(Incoming) /\ outbox' # <<>>
      /\ \A i \in 1..Len(outbox') : outbox'[i] = "end" => i = Len(outbox')
  BY <1>3, Filled
<1>5. Stdouts(outbox) = 0 /\ Stdouts(outbox') \in Nat /\ Stdouts(toGw) \in Nat
  BY <1>1, <1>2, <1>4, StdoutsEmpty, StdoutsNat
<1>6. Types'
  BY <1>1, <1>3, <1>4, <1>5 DEF Types, Working
<1>7. Conserved'
  BY <1>1, <1>3, <1>5 DEF Conserved, Open
<1>8. EndLast'
  BY <1>1, <1>2, <1>3, <1>4 DEF EndLast
<1>9. OkIsWhole' /\ ClosedForCause' /\ RequestInOrder' /\ Resting'
  BY <1>1, <1>4 DEF OkIsWhole, ClosedForCause, RequestInOrder, Resting, Working
<1> QED
  BY <1>6, <1>7, <1>8, <1>9

\* write_it_all: a record goes over, or all are lost.
LEMMA PutPreserves ==
  ASSUME IInv, Write
  PROVE  IInv'
<1> USE DEF IInv
<1>1. /\ UNCHANGED <<gw, chunks, got, toApp, app, finishing, eof, wrote, stderr,
                     expired>>
      /\ app = "write" /\ outbox # <<>>
      /\ toGw \in Seq(Incoming) /\ outbox \in Seq(Incoming)
      /\ wrote \in Nat /\ got \in Nat
  BY DEF Write, gateway, Types
<1>2. RequestInOrder' /\ ClosedForCause' /\ Resting' /\ gw # "ok"
  BY <1>1 DEF RequestInOrder, ClosedForCause, Resting, Open, OkIsWhole
<1>3. OkIsWhole'
  BY <1>1, <1>2 DEF OkIsWhole
<1>4. CASE Open /\ toGw' = Append(toGw, Head(outbox)) /\ outbox' = Tail(outbox)
  <2> DEFINE r == Head(outbox)
  <2>1. /\ r = outbox[1] /\ r \in Incoming
        /\ outbox' \in Seq(Incoming)
        /\ Len(outbox) \in Nat \ {0} /\ Len(outbox') = Len(outbox) - 1
        /\ \A i \in 1..Len(outbox') : outbox'[i] = outbox[i + 1]
        /\ (outbox' = <<>>) <=> (Len(outbox) = 1)
    <3> HIDE DEF IInv
    <3> QED
      BY <1>1, <1>4, Taken
  <2>2. /\ toGw' \in Seq(Incoming) /\ toGw' # <<>>
        /\ Len(toGw) \in Nat /\ Len(toGw') = Len(toGw) + 1
        /\ toGw'[Len(toGw) + 1] = r
        /\ \A i \in 1..Len(toGw) : toGw'[i] = toGw[i]
    <3> HIDE DEF IInv, r
    <3>1. toGw' = Append(toGw, r)
      BY <1>4 DEF r
    <3> QED
      BY <1>1, <2>1, <3>1, Appended
  <2>3. Types'
    BY <1>1, <2>1, <2>2 DEF Types
  <2>4. Conserved'
    <3>1. Stdouts(outbox) = Stdouts(outbox') + One(r)
      BY <1>1, <1>4, StdoutsTail
    <3>2. Stdouts(toGw') = Stdouts(toGw) + One(r)
      BY <1>1, <1>4, <2>1, StdoutsAppend
    <3>3. /\ Stdouts(outbox) \in Nat /\ Stdouts(outbox') \in Nat
          /\ Stdouts(toGw) \in Nat /\ Stdouts(toGw') \in Nat
      BY <1>1, <2>1, <2>2, StdoutsNat
    <3>4. One(r) \in {0, 1}
      BY DEF One
    <3> HIDE DEF r
    <3> QED
      BY <1>1, <3>1, <3>2, <3>3, <3>4 DEF Conserved, Open
  <2>5. EndLast'
    <3> HIDE DEF r
    <3>1. \A i \in 1..Len(outbox') :
            outbox'[i] = "end" => i = Len(outbox') /\ finishing
      BY <2>1 DEF EndLast
    <3>2. \A i \in 1..Len(toGw) : toGw[i] # "end"
      BY <1>1 DEF EndLast
    <3>3. r = "end" => finishing /\ outbox' = <<>>
      <4>1. 1 \in 1..Len(outbox)
        BY <2>1
      <4>2. outbox[1] = "end" => 1 = Len(outbox) /\ finishing
        BY <4>1 DEF EndLast
      <4> QED
        BY <2>1, <4>2
    <3>4. \A i \in 1..Len(toGw') :
            toGw'[i] = "end" =>
              i = Len(toGw') /\ finishing /\ outbox' = <<>>
      BY <2>2, <3>2, <3>3
    <3>5. finishing /\ outbox' # <<>> => outbox'[Len(outbox')] = "end"
      BY <1>1, <2>1 DEF EndLast
    <3>6. finishing /\ outbox' = <<>> => toGw'[Len(toGw')] = "end"
      BY <1>1, <2>1, <2>2 DEF EndLast
    <3> QED
      BY <1>1, <2>2, <3>1, <3>4, <3>5, <3>6 DEF EndLast
  <2> QED
    BY <1>2, <1>3, <2>3, <2>4, <2>5
<1>5. CASE ~Open /\ outbox' = <<>> /\ UNCHANGED toGw
  <2>1. outbox' \in Seq(Incoming) /\ Len(outbox') = 0
    BY <1>5, Nothing
  <2>2. Types'
    BY <1>1, <1>5, <2>1 DEF Types
  <2>3. Conserved' /\ EndLast'
    BY <1>1, <1>5, <2>1 DEF Conserved, EndLast, Open
  <2> QED
    BY <1>2, <1>3, <2>2, <2>3
<1> QED
  BY <1>4, <1>5 DEF Write

\* What the backend does by itself.
LEMMA BackendPreserves ==
  ASSUME IInv, CallRead \/ Written \/ AppFails \/ Killed
  PROVE  IInv'
<1> USE DEF IInv
<1>1. UNCHANGED <<gw, chunks, got, toApp, toGw, outbox, finishing, eof, wrote,
                  stderr, expired>>
  BY DEF CallRead, Written, AppFails, Killed, gateway
<1>2. /\ app \in {"accept", "serve", "write", "hung"}
      /\ app' \in {"read", "linger", "serve", "crashed", "hung"}
      /\ app' = "read" => app = "serve" /\ ~eof
      /\ app' = "serve" => app = "write" /\ ~finishing
      /\ app' = "linger" => app = "write" /\ finishing
      /\ finishing => app' = "linger"
      /\ outbox = <<>>
  BY DEF CallRead, Written, AppFails, Killed, EndLast, Resting
<1>3. Types'
  BY <1>1, <1>2 DEF Types, Working
<1>4. Conserved' /\ OkIsWhole' /\ ClosedForCause' /\ Resting'
  BY <1>1, <1>2 DEF Conserved, Open, OkIsWhole, ClosedForCause, Resting
<1>5. EndLast'
  BY <1>1, <1>2 DEF EndLast
<1>6. RequestInOrder'
  BY <1>1, <1>2 DEF RequestInOrder, Working
<1> QED
  BY <1>3, <1>4, <1>5, <1>6

LEMMA Invariance == IInv /\ [Next]_vars => IInv'
<1> SUFFICES ASSUME IInv, [Next]_vars PROVE IInv'
  OBVIOUS
<1>1. CASE GwStep
  BY <1>1, WritePreserves, GatewayPreserves, TakePreserves DEF GwStep
<1>2. CASE LibStep
  BY <1>2, ReadPreserves, PutPreserves, BackendPreserves DEF LibStep
<1>3. CASE AppStep
  BY <1>3, FillPreserves, BackendPreserves DEF AppStep
<1>4. CASE UNCHANGED vars
  BY <1>4 DEF IInv, vars, gateway, backend, Types, Conserved, EndLast,
              RequestInOrder, ClosedForCause, OkIsWhole, Resting, Open
<1> QED
  BY <1>1, <1>2, <1>3, <1>4 DEF Next

-----------------------------------------------------------------------------
(* The theorems.                                                            *)

\* The gateway passes an answer on as a success only when it has taken every
\* record of STDOUT that the application wrote: none is lost in the socket, left
\* in a buffer or overtaken by END_REQUEST.
THEOREM AnswersWhole == Spec => []OkIsWhole
<1>1. IInv => OkIsWhole
  BY DEF IInv
<1> QED
  BY InitInvariant, Invariance, <1>1, PTL DEF Spec

\* The gateway gives a backend up only when it has failed, when it wrote more
\* than the socket holds before it had read the request, or when the body was
\* silent for longer than the backend lingered; and SIGPIPE ends the server
\* nowhere but where the backend crashed or that silence was.
THEOREM NoneGivenUpInVain == Spec => GivenUpForCause
<1>1. ASSUME IInv, GwStep, gw' \in {"502", "dead"}
      PROVE  \/ app = "crashed" \/ expired
             \/ /\ gw' = "502"
                /\ app = "hung" \/ (outbox # <<>> /\ Len(toGw) = CapOut /\ ~eof)
  <2>1. CASE WriteFails
    BY <1>1, <2>1 DEF WriteFails, IInv, ClosedForCause, AppOpen, Open, Results
  <2>2. CASE ReadFails
    BY <1>1, <2>2 DEF ReadFails, IInv, EndLast, Shut, Results
  <2>3. CASE TimesOut
    <3>1. CASE gw \in {"params", "chunk", "end"} /\ Len(toApp) = CapIn
      <4>1. toApp # <<>> /\ ~eof
        BY <1>1, <3>1 DEF IInv, RequestInOrder, Sending
      <4> QED
        BY <2>3, <4>1 DEF TimesOut, AppStuck
    <3>2. CASE gw = "read" /\ toGw = <<>>
      <4>1. ~(app = "read" /\ toApp = <<>>)
        BY <1>1, <3>2 DEF IInv, RequestInOrder, Working
      <4>2. Len(toGw) # CapOut
        BY <3>2
      <4> QED
        BY <2>3, <4>1, <4>2 DEF TimesOut, AppStuck
    <3> QED
      BY <2>3, <3>1, <3>2 DEF TimesOut
  <2>4. CASE TakeRecord
    BY <1>1, <2>4 DEF TakeRecord
  <2>5. CASE WriteParams \/ ChunkComes \/ BodyFails \/ BodyDone \/ WriteChunk
             \/ WriteEnd
    BY <1>1, <2>5 DEF WriteParams, ChunkComes, BodyFails, BodyDone, WriteChunk,
                      WriteEnd, Writes
  <2> QED
    BY <1>1, <2>1, <2>2, <2>3, <2>4, <2>5 DEF GwStep
<1>2. ASSUME LibStep \/ AppStep PROVE UNCHANGED gw
  BY <1>2 DEF LibStep, AppStep, Accepts, Read, Write, Written, Linger,
              CallRead, CallWrite, Finish, AppFails, Killed, gateway
<1>3. IInv /\ [Next]_vars => [GivenUp]_vars
  <2> SUFFICES ASSUME IInv, Next PROVE GivenUp
    OBVIOUS
  <2>1. CASE GwStep
    BY <1>1, <2>1 DEF GivenUp
  <2>2. CASE LibStep \/ AppStep
    BY <1>2, <2>2 DEF GivenUp
  <2> QED
    BY <2>1, <2>2 DEF Next
<1> QED
  BY InitInvariant, Invariance, <1>3, PTL DEF Spec, GivenUpForCause
=============================================================================
