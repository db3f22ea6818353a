--------------------------- MODULE FcgiRecordsProofs ---------------------------
(***************************************************************************)
(* Proofs about FcgiRecords, for every size of the header, every set of      *)
(* records and all limits: however read() cuts the stream, the reader stands *)
(* on the records the backend sent, and what it delivers is their STDOUT.    *)
(***************************************************************************)
EXTENDS FcgiRecords, FiniteSetTheorems, SequenceTheorems, TLAPS

USE RecordsAssumption

------------------------------------------------------------------------------
(* The inductive invariant.                                                  *)

\* Record n begins where those before it end.
StreamOK ==
  /\ Len(upto) = Len(sent)
  /\ \A n \in 1 .. Len(sent) :
       /\ Before(n) = Before(n - 1) + Size(sent[n])
       /\ StdoutBytes(n) =
            StdoutBytes(n - 1) \o (IF sent[n].type = "stdout"
                                   THEN ContentBytes(n, sent[n]) ELSE <<>>)
  /\ \A m, n \in 0 .. Len(sent) :
       /\ m <= n => Before(m) <= Before(n)
       /\ m < n => Before(m) + HeaderSize <= Before(n)

\* The records among the first n that the reader counts.
Taken(n) == {m \in 1 .. n : Filled(sent[m])}

\* The reader has taken n records and stands in the next.
Standing(n) ==
  /\ taken = Before(n) + pos
  /\ out = StdoutBytes(n)
  /\ count = Cardinality(Taken(n)) /\ count <= MaxRecords
  /\ \A m \in 1 .. n : sent[m].type # "end"
  /\ need \notin {0, HeaderSize} =>
       /\ n < Len(sent)
       /\ header = sent[n + 1] /\ need = Size(header)
       /\ Filled(header)

IInv ==
  /\ TypeOK
  /\ StreamOK
  /\ state = "reading" => \E n \in 0 .. Len(sent) : Standing(n)
  /\ Delivered /\ ErrorHasCause

------------------------------------------------------------------------------
(* The stream of the backend.                                                *)

LEMMA SizeTyped ==
  ASSUME NEW r \in Records
  PROVE  /\ r.content \in Nat /\ r.padding \in Nat /\ r.type \in Types
         /\ Size(r) \in Nat /\ HeaderSize \in Nat /\ HeaderSize <= Size(r)
         /\ HeaderSize > 0
         /\ Filled(r) <=> Size(r) > HeaderSize
         /\ ~Filled(r) <=> Size(r) = HeaderSize
<1>1. r \in [type : Types, content : Nat, padding : Nat]
  OBVIOUS
<1> QED
  BY <1>1 DEF Size, Filled

LEMMA StreamTyped ==
  ASSUME TypeOK, StreamOK
  PROVE  /\ Len(sent) \in Nat /\ Total \in Nat
         /\ \A n \in 1 .. Len(sent) : sent[n] \in Records
         /\ \A n \in 0 .. Len(sent) :
              Before(n) \in Nat /\ StdoutBytes(n) \in Seq(Bytes)
<1>1. /\ sent \in Seq(Records)
      /\ upto \in Seq([bytes : Nat, stdout : Seq(Bytes)])
      /\ Len(upto) = Len(sent)
  BY DEF TypeOK, StreamOK
<1>2. Len(sent) \in Nat /\ \A n \in 1 .. Len(sent) : sent[n] \in Records
  BY <1>1
<1>3. ASSUME NEW n \in 1 .. Len(sent)
      PROVE  upto[n] \in [bytes : Nat, stdout : Seq(Bytes)]
  BY <1>1, <1>3, ElementOfSeq
<1>4. \A n \in 1 .. Len(sent) : upto[n].bytes \in Nat /\ upto[n].stdout \in Seq(Bytes)
  BY <1>3
<1>5. ASSUME NEW n \in 0 .. Len(sent)
      PROVE  Before(n) \in Nat /\ StdoutBytes(n) \in Seq(Bytes)
  BY <1>2, <1>4 DEF Before, StdoutBytes
<1> QED
  BY <1>2, <1>5 DEF Total

LEMMA ReaderTyped ==
  ASSUME TypeOK, StreamOK
  PROVE  /\ taken \in Nat /\ taken <= Total /\ need \in Nat /\ pos \in Nat
         /\ pos <= need /\ count \in Nat /\ out \in Seq(Bytes)
         /\ HeaderSize \in Nat /\ HeaderSize > 0
BY StreamTyped DEF TypeOK

\* Byte k of record n is where it should be.
LEMMA ByteFound ==
  ASSUME TypeOK, StreamOK, NEW n \in 0 .. Len(sent), n < Len(sent),
         NEW k \in 1 .. Size(sent[n + 1])
  PROVE  ByteAt(Before(n) + k) = <<n + 1, k>>
<1>1. /\ Len(sent) \in Nat /\ n \in Nat /\ n + 1 \in 1 .. Len(sent)
      /\ \A m \in 0 .. Len(sent) : Before(m) \in Nat
      /\ (n + 1) - 1 = n
  BY StreamTyped
<1>2. /\ Before(n + 1) = Before(n) + Size(sent[n + 1])
      /\ Size(sent[n + 1]) \in Nat
  BY <1>1, StreamTyped, SizeTyped DEF StreamOK
<1> DEFINE i == Before(n) + k
           P(m) == Before(m - 1) < i /\ i <= Before(m)
<1>3. i \in Nat /\ Before(n) < i /\ i <= Before(n + 1)
  BY <1>1, <1>2
<1> HIDE DEF i
<1>4. n + 1 \in 1 .. Len(sent) /\ P(n + 1)
  BY <1>1, <1>3
<1>5. ASSUME NEW m \in 1 .. Len(sent), P(m)
      PROVE  m = n + 1
  <2>1. m \in 0 .. Len(sent) /\ m - 1 \in 0 .. Len(sent) /\ n + 1 \in 0 .. Len(sent)
    BY <1>1
  <2>2. CASE m <= n
    <3>1. Before(m) <= Before(n)
      BY <2>1, <2>2 DEF StreamOK
    <3>2. Before(m) \in Nat /\ Before(n) \in Nat /\ i <= Before(m)
      BY <1>1, <1>5, <2>1
    <3> QED
      BY <1>3, <3>1, <3>2
  <2>3. CASE n + 1 <= m - 1
    <3>1. Before(n + 1) <= Before(m - 1)
      BY <2>1, <2>3 DEF StreamOK
    <3>2. /\ Before(m - 1) \in Nat /\ Before(n + 1) \in Nat
          /\ Before(m - 1) < i
      BY <1>1, <1>5, <2>1
    <3> QED
      BY <1>3, <3>1, <3>2
  <2> QED
    BY <1>1, <2>1, <2>2, <2>3
<1>6. (CHOOSE m \in 1 .. Len(sent) : P(m)) = n + 1
  BY <1>4, <1>5
<1>7. ByteAt(i) = <<n + 1, i - Before((n + 1) - 1)>>
  BY <1>6 DEF ByteAt
<1>8. i - Before((n + 1) - 1) = k
  BY <1>1 DEF i
<1> QED
  BY <1>7, <1>8 DEF i

\* The reader has bytes of a record: the backend has sent that record.
LEMMA InRecord ==
  ASSUME TypeOK, StreamOK, NEW n \in 0 .. Len(sent), Standing(n), pos > 0
  PROVE  /\ n < Len(sent) /\ n + 1 \in 1 .. Len(sent) /\ (n + 1) - 1 = n
         /\ sent[n + 1] \in Records
<1>1. n < Len(sent)
  <2>1. /\ Len(sent) \in Nat /\ n \in Nat /\ Before(n) \in Nat
        /\ taken = Before(n) + pos /\ taken <= Total /\ pos \in Nat
    BY StreamTyped, ReaderTyped DEF Standing
  <2>2. n # Len(sent)
    BY <2>1 DEF Total
  <2> QED
    BY <2>1, <2>2
<1> QED
  BY <1>1, StreamTyped

\* What the reader takes for a header is the header of its record.
LEMMA HeaderRead ==
  ASSUME TypeOK, StreamOK, NEW n \in 0 .. Len(sent), Standing(n), AtHeader
  PROVE  n < Len(sent) /\ Headers = {sent[n + 1]}
<1>1. pos = HeaderSize /\ pos > 0 /\ HeaderSize \in Nat
  BY ReaderTyped DEF AtHeader
<1>2. n < Len(sent) /\ n + 1 \in 1 .. Len(sent) /\ sent[n + 1] \in Records
  BY <1>1, InRecord
<1>3. /\ taken - pos = Before(n) /\ Before(n) \in Nat
      /\ HeaderSize <= Size(sent[n + 1]) /\ Size(sent[n + 1]) \in Nat
  <2>1. Before(n) \in Nat /\ taken = Before(n) + pos /\ pos \in Nat
    BY StreamTyped, ReaderTyped DEF Standing
  <2>2. HeaderSize <= Size(sent[n + 1]) /\ Size(sent[n + 1]) \in Nat
    BY <1>2, SizeTyped
  <2> QED
    BY <2>1, <2>2
<1>4. \A k \in 0 .. HeaderSize - 1 : Tmp(k) = <<n + 1, k + 1>>
  <2> SUFFICES ASSUME NEW k \in 0 .. HeaderSize - 1
               PROVE  Tmp(k) = <<n + 1, k + 1>>
    OBVIOUS
  <2>1. k + 1 \in 1 .. Size(sent[n + 1])
    BY <1>1, <1>3
  <2>2. taken - pos + k + 1 = Before(n) + (k + 1)
    BY <1>3
  <2>3. ByteAt(Before(n) + (k + 1)) = <<n + 1, k + 1>>
    BY <1>2, <2>1, ByteFound
  <2> QED
    BY <2>2, <2>3 DEF Tmp
<1>5. Tmp(0)[1] = n + 1
  BY <1>1, <1>4
<1> QED
  BY <1>2, <1>4, <1>5 DEF Headers

\* What the reader takes for content is the content of its record.
LEMMA ContentRead ==
  ASSUME TypeOK, StreamOK, NEW n \in 0 .. Len(sent), Standing(n),
         need > HeaderSize, pos = need
  PROVE  /\ n < Len(sent) /\ header = sent[n + 1]
         /\ Contents = ContentBytes(n + 1, sent[n + 1])
<1>1. /\ need \in Nat /\ HeaderSize \in Nat /\ HeaderSize > 0 /\ pos > 0
      /\ need \notin {0, HeaderSize}
  BY ReaderTyped
<1>2. /\ n < Len(sent) /\ n + 1 \in 1 .. Len(sent) /\ sent[n + 1] \in Records
      /\ header = sent[n + 1] /\ need = Size(header)
  BY <1>1, InRecord DEF Standing
<1>3. /\ taken - pos = Before(n) /\ Before(n) \in Nat
      /\ header.content \in Nat /\ header.padding \in Nat
      /\ Size(header) = HeaderSize + header.content + header.padding
  <2>1. taken - pos = Before(n) /\ Before(n) \in Nat
    BY StreamTyped, ReaderTyped DEF Standing
  <2>2. header.content \in Nat /\ header.padding \in Nat
    BY <1>2, SizeTyped
  <2> QED
    BY <2>1, <2>2 DEF Size
<1>4. \A k \in 1 .. header.content :
        Tmp(HeaderSize + k - 1) = <<n + 1, HeaderSize + k>>
  <2> SUFFICES ASSUME NEW k \in 1 .. header.content
               PROVE  Tmp(HeaderSize + k - 1) = <<n + 1, HeaderSize + k>>
    OBVIOUS
  <2>1. HeaderSize + k \in 1 .. Size(sent[n + 1])
    BY <1>1, <1>2, <1>3
  <2>2. taken - pos + (HeaderSize + k - 1) + 1 = Before(n) + (HeaderSize + k)
    BY <1>1, <1>3
  <2>3. ByteAt(Before(n) + (HeaderSize + k)) = <<n + 1, HeaderSize + k>>
    BY <1>2, <2>1, ByteFound
  <2> QED
    BY <2>2, <2>3 DEF Tmp
<1> QED
  BY <1>2, <1>4 DEF Contents, ContentBytes

------------------------------------------------------------------------------
(* Counting records.                                                         *)

LEMMA TakenFinite ==
  ASSUME NEW n \in Nat
  PROVE  IsFiniteSet(Taken(n)) /\ Cardinality(Taken(n)) \in Nat
<1>1. IsFiniteSet(1 .. n) /\ Taken(n) \in SUBSET (1 .. n)
  BY FS_Interval DEF Taken
<1> QED
  BY <1>1, FS_Subset, FS_CardinalityType

LEMMA TakenNext ==
  ASSUME NEW n \in Nat
  PROVE  /\ Filled(sent[n + 1]) =>
              Cardinality(Taken(n + 1)) = Cardinality(Taken(n)) + 1
         /\ ~Filled(sent[n + 1]) => Taken(n + 1) = Taken(n)
<1>1. 1 .. n + 1 = (1 .. n) \cup {n + 1} /\ n + 1 \notin 1 .. n
  OBVIOUS
<1>2. CASE Filled(sent[n + 1])
  <2>1. Taken(n + 1) = Taken(n) \cup {n + 1} /\ n + 1 \notin Taken(n)
    BY <1>1, <1>2 DEF Taken
  <2> QED
    BY <1>2, <2>1, TakenFinite, FS_AddElement
<1>3. CASE ~Filled(sent[n + 1])
  <2>1. \A m \in 1 .. n + 1 : Filled(sent[m]) => m \in 1 .. n
    BY <1>1, <1>3
  <2>2. Taken(n + 1) = Taken(n)
    BY <1>1, <2>1 DEF Taken
  <2> QED
    BY <1>3, <2>2
<1> QED
  BY <1>2, <1>3

------------------------------------------------------------------------------
(* The steps of the backend.                                                 *)

LEMMA SendStep ==
  ASSUME IInv, NEW r \in Records, Send(r)
  PROVE  IInv'
<1> DEFINE L == Len(sent)
           e == [bytes  |-> Total + Size(r),
                 stdout |-> StdoutBytes(L) \o
                              (IF r.type = "stdout" THEN ContentBytes(L + 1, r)
                               ELSE <<>>)]
<1>1. /\ TypeOK /\ StreamOK /\ state = "reading" /\ L < MaxSent
      /\ sent' = Append(sent, r) /\ upto' = Append(upto, e)
      /\ UNCHANGED <<taken, pos, need, header, count, out, state>>
      /\ backend' = backend
  BY DEF IInv, Send
<1>2. /\ L \in Nat /\ Total \in Nat /\ Total = Before(L) /\ Len(upto) = L
      /\ StdoutBytes(L) \in Seq(Bytes) /\ Size(r) \in Nat /\ HeaderSize <= Size(r)
      /\ HeaderSize \in Nat /\ HeaderSize > 0
      /\ \A n \in 0 .. L : Before(n) \in Nat
  <2>1. L \in Nat /\ L \in 0 .. L
    BY <1>1, StreamTyped
  <2> QED
    BY <1>1, <2>1, StreamTyped, SizeTyped DEF Total, StreamOK
<1>3. ContentBytes(L + 1, r) \in Seq(Bytes)
  <2>1. r.content \in Nat /\ L + 1 \in Nat
    BY <1>2, SizeTyped
  <2>2. ASSUME NEW k \in 1 .. r.content
        PROVE  <<L + 1, HeaderSize + k>> \in Bytes
    <3>1. HeaderSize + k \in Nat
      BY <1>2, <2>1
    <3> QED
      BY <2>1, <3>1 DEF Bytes
  <2> QED
    BY <2>1, <2>2 DEF ContentBytes
<1>4. e \in [bytes : Nat, stdout : Seq(Bytes)]
  <2>1. e.stdout \in Seq(Bytes)
    <3>1. CASE r.type = "stdout"
      BY <1>2, <1>3, <3>1
    <3>2. CASE r.type # "stdout"
      <4>1. <<>> \in Seq(Bytes)
        OBVIOUS
      <4> QED
        BY <1>2, <3>2, <4>1
    <3> QED
      BY <3>1, <3>2
  <2>2. e.bytes \in Nat
    BY <1>2
  <2> QED
    BY <2>1, <2>2
<1>5. /\ e.bytes = Total + Size(r)
      /\ e.stdout = StdoutBytes(L) \o
                      (IF r.type = "stdout" THEN ContentBytes(L + 1, r) ELSE <<>>)
  OBVIOUS
<1> HIDE DEF e
<1>6. /\ sent' \in Seq(Records) /\ Len(sent') = L + 1 /\ sent'[L + 1] = r
      /\ \A n \in 1 .. L : sent'[n] = sent[n]
  <2>1. sent \in Seq(Records)
    BY <1>1 DEF TypeOK
  <2> QED
    BY <1>1, <2>1
<1>7. /\ upto' \in Seq([bytes : Nat, stdout : Seq(Bytes)])
      /\ Len(upto') = L + 1 /\ upto'[L + 1] = e
      /\ \A n \in 1 .. L : upto'[n] = upto[n]
  <2> DEFINE S == [bytes : Nat, stdout : Seq(Bytes)]
  <2>1. upto \in Seq(S) /\ e \in S
    BY <1>1, <1>4 DEF TypeOK
  <2> HIDE DEF S
  <2>2. /\ upto' \in Seq(S) /\ Len(upto') = L + 1 /\ upto'[L + 1] = e
        /\ \A n \in 1 .. L : upto'[n] = upto[n]
    BY <1>1, <1>2, <2>1, AppendProperties
  <2> QED
    BY <2>2 DEF S
<1>L. L \in Nat
  BY <1>2
<1> HIDE DEF L
<1>8. ASSUME NEW n \in 0 .. L
      PROVE  Before(n)' = Before(n) /\ StdoutBytes(n)' = StdoutBytes(n)
  <2>1. n = 0 \/ n \in 1 .. L
    BY <1>L
  <2>2. n \in 1 .. L => upto'[n] = upto[n]
    BY <1>7
  <2> QED
    BY <2>1, <2>2 DEF Before, StdoutBytes
<1>9. ASSUME NEW n, n = L + 1
      PROVE  /\ Before(n)' = Total + Size(r)
             /\ StdoutBytes(n)' = StdoutBytes(L) \o
                  (IF r.type = "stdout" THEN ContentBytes(n, r) ELSE <<>>)
  <2>1. n # 0 /\ upto'[n] = e
    BY <1>L, <1>7, <1>9
  <2>2. Before(n)' = e.bytes /\ StdoutBytes(n)' = e.stdout
    BY <2>1 DEF Before, StdoutBytes
  <2> QED
    BY <1>5, <1>9, <2>2
<1>10. StreamOK'
  <2>1. ASSUME NEW n \in 1 .. L + 1
        PROVE  /\ Before(n)' = Before(n - 1)' + Size(sent'[n])
               /\ StdoutBytes(n)' =
                    StdoutBytes(n - 1)' \o
                      (IF sent'[n].type = "stdout"
                       THEN ContentBytes(n, sent'[n]) ELSE <<>>)
    <3>1. CASE n \in 1 .. L
      <4>1. n \in 0 .. L /\ n - 1 \in 0 .. L /\ sent'[n] = sent[n]
        BY <1>L, <1>6, <3>1
      <4>2. /\ Before(n)' = Before(n) /\ StdoutBytes(n)' = StdoutBytes(n)
            /\ Before(n - 1)' = Before(n - 1)
            /\ StdoutBytes(n - 1)' = StdoutBytes(n - 1)
        BY <1>8, <4>1
      <4> QED
        BY <1>1, <3>1, <4>1, <4>2 DEF StreamOK, L
    <3>2. CASE n = L + 1
      <4>1. n - 1 = L /\ L \in 0 .. L /\ sent'[n] = r
        BY <1>2, <1>6, <3>2
      <4>2. /\ Before(n - 1)' = Before(n - 1)
            /\ StdoutBytes(n - 1)' = StdoutBytes(n - 1)
        BY <1>2, <1>8, <3>2
      <4> QED
        BY <1>2, <1>9, <3>2, <4>1, <4>2
    <3>3. n \in 1 .. L \/ n = L + 1
      BY <1>L
    <3> QED
      BY <3>1, <3>2, <3>3
  <2>2. ASSUME NEW m \in 0 .. L + 1, NEW n \in 0 .. L + 1
        PROVE  /\ m <= n => Before(m)' <= Before(n)'
               /\ m < n => Before(m)' + HeaderSize <= Before(n)'
    <3>1. CASE n \in 0 .. L /\ m \in 0 .. L
      BY <1>1, <1>8, <3>1 DEF StreamOK, L
    <3>2. CASE n = L + 1 /\ m \in 0 .. L
      <4>1. Before(m) <= Before(L) /\ Before(m) \in Nat
        BY <1>1, <1>2, <3>2 DEF StreamOK, L
      <4>2. Before(m)' = Before(m) /\ Before(n)' = Before(L) + Size(r)
        BY <1>2, <1>8, <1>9, <3>2
      <4> QED
        BY <1>2, <4>1, <4>2
    <3>3. CASE n = L + 1 /\ m = L + 1
      <4>1. Before(n)' = Before(L) + Size(r)
        BY <1>2, <1>9, <3>3
      <4> QED
        BY <1>2, <3>3, <4>1
    <3>4. CASE n \in 0 .. L /\ m = L + 1
      BY <1>2, <3>4
    <3>5. \A i \in 0 .. L + 1 : i \in 0 .. L \/ i = L + 1
      BY <1>L
    <3> QED
      BY <3>1, <3>2, <3>3, <3>4, <3>5
  <2> QED
    BY <1>6, <1>7, <2>1, <2>2 DEF StreamOK, Size, ContentBytes
<1>11. Total <= Total'
  <2>1. Total' = Total + Size(r)
    <3>1. ASSUME NEW n, n = L + 1
          PROVE  Before(n)' = Total + Size(r)
      BY <1>9, <3>1
    <3> QED
      BY <1>6, <3>1 DEF Total
  <2> QED
    BY <1>2, <2>1
<1>12. TypeOK'
  <2>1. taken \in Nat /\ taken <= Total
    BY <1>1, ReaderTyped
  <2>2. Total' \in Nat
    <3>1. \A n : n = L + 1 => Before(n)' = Total + Size(r)
      BY <1>9
    <3>2. Total' = Total + Size(r)
      BY <1>6, <3>1 DEF Total
    <3> QED
      BY <1>2, <3>2
  <2>3. taken' \in 0 .. Total'
    BY <1>1, <1>2, <1>11, <2>1, <2>2
  <2>4. Len(sent') <= MaxSent
    BY <1>1, <1>2, <1>6 DEF L
  <2> QED
    BY <1>1, <1>6, <1>7, <2>3, <2>4 DEF TypeOK
<1>13. \E n \in 0 .. Len(sent') : Standing(n)'
  <2>1. PICK n \in 0 .. L : Standing(n)
    BY <1>1 DEF IInv, L
  <2>2. /\ n \in 0 .. Len(sent') /\ n \in 0 .. L
        /\ \A m \in 1 .. n : sent'[m] = sent[m]
    BY <1>L, <1>6, <2>1
  <2>3. Taken(n)' = Taken(n)
    BY <2>2 DEF Taken
  <2>4. n < L => n < Len(sent') /\ sent'[n + 1] = sent[n + 1]
    BY <1>2, <1>6, <2>1
  <2>5. Standing(n)'
    <3>1. Before(n)' = Before(n) /\ StdoutBytes(n)' = StdoutBytes(n)
      BY <1>8, <2>1
    <3> QED
      BY <1>1, <2>1, <2>2, <2>3, <2>4, <3>1 DEF Standing, L, Size
  <2> QED
    BY <2>2, <2>5
<1>14. Delivered' /\ ErrorHasCause'
  BY <1>1 DEF Delivered, ErrorHasCause
<1> QED
  BY <1>10, <1>12, <1>13, <1>14 DEF IInv

------------------------------------------------------------------------------
(* The steps of the reader.                                                  *)

\* A step that leaves the stream and the reader's place in it.
LEMMA PlaceFrame ==
  ASSUME TypeOK, StreamOK, UNCHANGED <<sent, upto>>
  PROVE  /\ StreamOK' /\ Total' = Total
         /\ \A n \in 0 .. Len(sent) : /\ Before(n)' = Before(n)
                                      /\ StdoutBytes(n)' = StdoutBytes(n)
                                      /\ Taken(n)' = Taken(n)
BY DEF StreamOK, Total, Before, StdoutBytes, Taken, Size, ContentBytes

\* A step of the reader while it goes on reading.
LEMMA ReadingFrame ==
  ASSUME IInv, TypeOK', UNCHANGED <<sent, upto>>, state' = "reading",
         NEW n \in 0 .. Len(sent), Standing(n)'
  PROVE  IInv'
<1>1. StreamOK'
  BY PlaceFrame DEF IInv
<1>2. n \in 0 .. Len(sent')
  OBVIOUS
<1>3. Delivered' /\ ErrorHasCause'
  BY DEF Delivered, ErrorHasCause
<1> QED
  BY <1>1, <1>2, <1>3 DEF IInv

\* A step that ends the reading with an error.
LEMMA ErrorFrame ==
  ASSUME IInv, TypeOK', UNCHANGED <<sent, upto>>, state' = "error",
         ErrorHasCause'
  PROVE  IInv'
BY PlaceFrame DEF IInv, Delivered

\* The types of the reader's variables.
LEMMA ReaderTypes ==
  ASSUME TypeOK, StreamOK, UNCHANGED <<sent, upto, backend>>,
         taken' \in Nat, taken' <= Total, need' \in Nat, pos' \in Nat,
         pos' <= need', header' \in Records \cup {NoHeader},
         count' \in 0 .. MaxRecords + 1, out' \in Seq(Bytes),
         state' \in {"reading", "ended", "error"}
  PROVE  TypeOK'
<1>1. Total' = Total /\ Total \in Nat
  BY PlaceFrame, StreamTyped
<1> QED
  BY <1>1 DEF TypeOK

LEMMA Here ==
  ASSUME IInv, state = "reading"
  PROVE  \E n \in 0 .. Len(sent) :
           /\ Standing(n) /\ TypeOK /\ StreamOK
           /\ Before(n) \in Nat /\ n \in Nat /\ Len(sent) \in Nat
           /\ taken = Before(n) + pos
<1>1. TypeOK /\ StreamOK
  BY DEF IInv
<1>2. PICK n \in 0 .. Len(sent) : Standing(n)
  BY DEF IInv
<1>3. Len(sent) \in Nat /\ Before(n) \in Nat /\ taken = Before(n) + pos
  BY <1>1, <1>2, StreamTyped DEF Standing
<1> QED
  BY <1>1, <1>2, <1>3

LEMMA StartStep ==
  ASSUME IInv, StartRecord
  PROVE  IInv'
<1>1. /\ state = "reading" /\ need = 0 /\ need' = HeaderSize /\ state' = state
      /\ UNCHANGED <<sent, upto, backend, taken, pos, header, count, out>>
  BY DEF StartRecord, stream
<1>2. PICK n \in 0 .. Len(sent) : Standing(n) /\ TypeOK /\ StreamOK
  BY <1>1, Here
<1>3. Standing(n)'
  BY <1>1, <1>2, PlaceFrame DEF Standing
<1>4. TypeOK'
  BY <1>1, <1>2, PlaceFrame, ReaderTyped DEF TypeOK
<1> QED
  BY <1>1, <1>3, <1>4, ReadingFrame

LEMMA ReadStep ==
  ASSUME IInv, ReadBytes
  PROVE  IInv'
<1>1. /\ state = "reading" /\ pos < need
      /\ UNCHANGED <<sent, upto, backend, need, header, count, out>>
      /\ state' = (IF taken' > MaxBytes THEN "error" ELSE state)
  BY DEF ReadBytes, stream
<1>2. PICK k \in 1 .. need - pos : /\ k \in 1 .. Total - taken
                                   /\ pos' = pos + k /\ taken' = taken + k
  BY DEF ReadBytes
<1>3. PICK n \in 0 .. Len(sent) : /\ Standing(n) /\ TypeOK /\ StreamOK
                                  /\ Before(n) \in Nat
                                  /\ taken = Before(n) + pos
  BY <1>1, Here
<1>4. /\ taken \in Nat /\ need \in Nat /\ pos \in Nat /\ Total \in Nat
      /\ k \in Nat
  BY <1>3, ReaderTyped, StreamTyped
<1>5. /\ taken' \in Nat /\ taken' <= Total /\ pos' \in Nat /\ pos' <= need'
      /\ taken' = Before(n) + pos'
  <2>1. /\ pos + k \in Nat /\ pos + k <= need
        /\ taken + k \in Nat /\ taken + k <= Total
    BY <1>2, <1>4
  <2> QED
    BY <1>1, <1>2, <1>3, <1>4, <2>1
<1>6. TypeOK'
  BY <1>1, <1>3, <1>4, <1>5, ReaderTypes DEF TypeOK
<1>7. CASE taken' > MaxBytes
  BY <1>1, <1>6, <1>7, ErrorFrame DEF ErrorHasCause
<1>8. CASE ~(taken' > MaxBytes)
  <2>1. Standing(n)'
    BY <1>1, <1>3, <1>5, PlaceFrame DEF Standing
  <2> QED
    BY <1>1, <1>6, <1>8, <2>1, ReadingFrame
<1> QED
  BY <1>7, <1>8

LEMMA FailStep ==
  ASSUME IInv, ReadFails
  PROVE  IInv'
<1>1. /\ taken = Total /\ state' = "error"
      /\ UNCHANGED <<sent, upto, backend, taken, pos, need, header, count, out>>
  BY DEF ReadFails, stream
<1>2. TypeOK /\ StreamOK
  BY DEF IInv
<1>3. TypeOK' /\ Total' = Total
  BY <1>1, <1>2, PlaceFrame DEF TypeOK
<1> QED
  BY <1>1, <1>3, ErrorFrame DEF ErrorHasCause

\* A header is skipped with its record only when there is no more to the record.
LEMMA EmptyStep ==
  ASSUME IInv, EmptyStdout, NoPaddedEmpty
  PROVE  IInv'
<1>1. /\ AtHeader /\ state = "reading" /\ pos = HeaderSize /\ state' = state
      /\ header' \in Headers /\ header'.type = "stdout" /\ header'.content = 0
      /\ pos' = 0 /\ need' = 0
      /\ UNCHANGED <<sent, upto, backend, taken, count, out>>
  BY DEF EmptyStdout, AtHeader, stream
<1>2. PICK n \in 0 .. Len(sent) : /\ Standing(n) /\ TypeOK /\ StreamOK
                                  /\ Before(n) \in Nat /\ n \in Nat
                                  /\ taken = Before(n) + pos
  BY <1>1, Here
<1> DEFINE r == sent[n + 1]
<1>3. /\ n < Len(sent) /\ header' = r /\ n + 1 \in 1 .. Len(sent) /\ r \in Records
      /\ n + 1 \in 0 .. Len(sent) /\ (n + 1) - 1 = n
  BY <1>1, <1>2, HeaderRead, StreamTyped
<1>4. /\ r.type = "stdout" /\ r.content = 0 /\ r.padding = 0 /\ ~Filled(r)
      /\ Size(r) = HeaderSize
  BY <1>1, <1>3, SizeTyped DEF NoPaddedEmpty, Filled
<1>5. TypeOK'
  BY <1>1, <1>2, <1>3, ReaderTyped, ReaderTypes DEF TypeOK
<1>6. Before(n + 1) = Before(n) + HeaderSize
  BY <1>2, <1>3, <1>4 DEF StreamOK
<1>7. StdoutBytes(n + 1) = StdoutBytes(n)
  <2>1. ContentBytes(n + 1, r) = <<>>
    BY <1>4 DEF ContentBytes
  <2>2. StdoutBytes(n + 1) = StdoutBytes(n) \o <<>>
    BY <1>2, <1>3, <1>4, <2>1 DEF StreamOK
  <2>3. StdoutBytes(n) \in Seq(Bytes)
    BY <1>2, StreamTyped
  <2> QED
    BY <2>2, <2>3
<1>8. Taken(n + 1) = Taken(n)
  BY <1>2, <1>4, TakenNext
<1>9. \A m \in 1 .. n + 1 : sent[m].type # "end"
  BY <1>2, <1>4 DEF Standing
<1>10. ASSUME NEW k \in 0 .. Len(sent), k = n + 1
       PROVE  Standing(k)'
  <2>1. /\ Before(k)' = Before(n) + HeaderSize
        /\ StdoutBytes(k)' = StdoutBytes(n) /\ Taken(k)' = Taken(n)
    BY <1>1, <1>2, <1>6, <1>7, <1>8, <1>10, PlaceFrame
  <2> QED
    BY <1>1, <1>2, <1>9, <1>10, <2>1, ReaderTyped DEF Standing
<1> QED
  BY <1>1, <1>3, <1>5, <1>10, ReadingFrame

LEMMA ParseStep ==
  ASSUME IInv, ParseHeader
  PROVE  IInv'
<1>1. /\ AtHeader /\ state = "reading" /\ pos = HeaderSize
      /\ header' \in Headers /\ need' = Size(header')
      /\ state' = (IF need' > MaxBytes THEN "error" ELSE state)
      /\ UNCHANGED <<sent, upto, backend, taken, pos, count, out>>
  BY DEF ParseHeader, AtHeader, stream
<1>2. PICK n \in 0 .. Len(sent) : /\ Standing(n) /\ TypeOK /\ StreamOK
                                  /\ n \in Nat
  BY <1>1, Here
<1>3. /\ n < Len(sent) /\ header' = sent[n + 1] /\ header' \in Records
  BY <1>1, <1>2, HeaderRead, StreamTyped
<1>4. /\ need' \in Nat /\ HeaderSize <= need' /\ pos' <= need'
      /\ need' # HeaderSize => Filled(header')
  BY <1>1, <1>3, SizeTyped
<1>5. TypeOK'
  BY <1>1, <1>2, <1>3, <1>4, ReaderTyped, ReaderTypes DEF TypeOK
<1>6. CASE need' > MaxBytes
  BY <1>1, <1>5, <1>6, ErrorFrame DEF ErrorHasCause
<1>7. CASE ~(need' > MaxBytes)
  <2>1. Standing(n)'
    BY <1>1, <1>2, <1>3, <1>4, PlaceFrame DEF Standing, Size
  <2> QED
    BY <1>1, <1>5, <1>7, <2>1, ReadingFrame
<1> QED
  BY <1>6, <1>7

\* A record is taken: the reader stands on the first byte of the next.
LEMMA TakeStep ==
  ASSUME IInv, TakeRecord
  PROVE  IInv'
<1>1. /\ state = "reading" /\ pos = need /\ need > HeaderSize
      /\ count' = count + 1
      /\ UNCHANGED <<sent, upto, backend, taken, header>>
  BY DEF TakeRecord, stream
<1>2. PICK n \in 0 .. Len(sent) : /\ Standing(n) /\ TypeOK /\ StreamOK
                                  /\ Before(n) \in Nat /\ n \in Nat
                                  /\ Len(sent) \in Nat
                                  /\ taken = Before(n) + pos
  BY <1>1, Here
<1>3. /\ n < Len(sent) /\ header = sent[n + 1]
      /\ Contents = ContentBytes(n + 1, sent[n + 1])
  BY <1>1, <1>2, ContentRead
<1>4. /\ n + 1 \in 1 .. Len(sent) /\ n + 1 \in 0 .. Len(sent) /\ (n + 1) - 1 = n
      /\ sent[n + 1] \in Records
  BY <1>2, <1>3, StreamTyped
<1>5. /\ HeaderSize \in Nat /\ HeaderSize > 0 /\ need \in Nat /\ count \in Nat
      /\ need \notin {0, HeaderSize}
  BY <1>1, <1>2, ReaderTyped
<1>6. /\ need = Size(sent[n + 1]) /\ Filled(sent[n + 1])
      /\ count = Cardinality(Taken(n)) /\ count <= MaxRecords
      /\ out = StdoutBytes(n)
      /\ \A m \in 1 .. n : sent[m].type # "end"
  BY <1>2, <1>3, <1>5 DEF Standing
<1>7. taken = Before(n + 1)
  BY <1>1, <1>2, <1>4, <1>6 DEF StreamOK
<1>8. Cardinality(Taken(n + 1)) = count'
  BY <1>1, <1>2, <1>6, TakenNext
<1>9. StdoutBytes(n + 1) = StdoutBytes(n) \o (IF sent[n + 1].type = "stdout"
                                              THEN Contents ELSE <<>>)
  BY <1>2, <1>3, <1>4 DEF StreamOK
<1>10. /\ \A m \in 0 .. Len(sent) : /\ Before(m)' = Before(m)
                                    /\ StdoutBytes(m)' = StdoutBytes(m)
                                    /\ Taken(m)' = Taken(m)
       /\ Total' = Total
  BY <1>1, <1>2, PlaceFrame
<1>11. /\ count' \in 0 .. MaxRecords + 1 /\ taken \in Nat /\ taken <= Total
       /\ header \in Records \cup {NoHeader} /\ pos \in Nat /\ pos <= need
       /\ out \in Seq(Bytes)
  <2>1. count' \in 0 .. MaxRecords + 1
    BY <1>1, <1>5, <1>6
  <2> QED
    BY <1>2, <2>1, ReaderTyped DEF TypeOK
<1>12. CASE count' > MaxRecords
  <2>1. state' = "error" /\ UNCHANGED <<out, pos, need>>
    BY <1>12 DEF TakeRecord
  <2>2. TypeOK'
    BY <1>1, <1>2, <1>5, <1>11, <2>1, ReaderTypes
  <2> DEFINE S == {m \in 1 .. Len(sent) : Before(m) <= taken /\ Filled(sent[m])}
  <2>3. IsFiniteSet(S)
    <3>1. IsFiniteSet(1 .. Len(sent)) /\ S \in SUBSET (1 .. Len(sent))
      BY <1>2, FS_Interval
    <3> QED
      BY <3>1, FS_Subset
  <2>4. Taken(n + 1) \in SUBSET S
    <3> SUFFICES ASSUME NEW m \in Taken(n + 1)
                 PROVE  m \in S
      OBVIOUS
    <3>1. m \in 1 .. n + 1 /\ Filled(sent[m])
      BY DEF Taken
    <3>2. m \in 0 .. Len(sent) /\ m \in 1 .. Len(sent) /\ m <= n + 1
      BY <1>2, <1>3, <3>1
    <3>3. Before(m) <= Before(n + 1)
      BY <1>2, <1>4, <3>2 DEF StreamOK
    <3> QED
      BY <1>7, <3>1, <3>2, <3>3
  <2>5. Cardinality(S) > MaxRecords
    <3>1. Cardinality(Taken(n + 1)) <= Cardinality(S) /\ Cardinality(S) \in Nat
      BY <2>3, <2>4, FS_Subset, FS_CardinalityType
    <3> QED
      BY <1>1, <1>5, <1>8, <1>12, <3>1
  <2>6. S = {m \in 1 .. Len(sent') : Before(m)' <= taken' /\ Filled(sent'[m])}
    BY <1>1, <1>2, <1>10
  <2> HIDE DEF S
  <2>7. ErrorHasCause'
    BY <2>5, <2>6 DEF ErrorHasCause, Filled
  <2> QED
    BY <1>1, <2>1, <2>2, <2>7, ErrorFrame
<1>13. CASE ~(count' > MaxRecords) /\ header.type = "end"
  <2>1. state' = "ended" /\ UNCHANGED <<out, pos, need>>
    BY <1>13 DEF TakeRecord
  <2>2. TypeOK'
    BY <1>1, <1>2, <1>5, <1>11, <2>1, ReaderTypes
  <2>3. out = StdoutBytes(n + 1)
    <3>1. StdoutBytes(n) \in Seq(Bytes)
      BY <1>2, StreamTyped
    <3>2. StdoutBytes(n + 1) = StdoutBytes(n) \o <<>>
      BY <1>3, <1>9, <1>13
    <3> QED
      BY <1>6, <3>1, <3>2
  <2>4. ASSUME NEW k \in 1 .. Len(sent), k = n + 1
        PROVE  /\ sent'[k].type = "end"
               /\ \A m \in 1 .. k - 1 : sent'[m].type # "end"
               /\ taken' = Before(k)' /\ out' = StdoutBytes(k)'
    <3>1. /\ Before(k)' = Before(n + 1) /\ StdoutBytes(k)' = StdoutBytes(n + 1)
          /\ k - 1 = n
      BY <1>4, <1>10, <2>4
    <3> QED
      BY <1>1, <1>3, <1>6, <1>7, <1>13, <2>1, <2>3, <2>4, <3>1
  <2>5. Delivered'
    <3>1. \E k \in 1 .. Len(sent') :
            /\ sent'[k].type = "end"
            /\ \A m \in 1 .. k - 1 : sent'[m].type # "end"
            /\ taken' = Before(k)' /\ out' = StdoutBytes(k)'
      BY <1>1, <1>4, <2>4
    <3> QED
      BY <3>1 DEF Delivered
  <2>6. StreamOK' /\ ErrorHasCause'
    BY <1>1, <1>2, <2>1, PlaceFrame DEF ErrorHasCause
  <2> QED
    BY <2>1, <2>2, <2>5, <2>6 DEF IInv
<1>14. CASE ~(count' > MaxRecords) /\ header.type # "end"
  <2>1. /\ out' = (IF header.type = "stdout" THEN out \o Contents ELSE out)
        /\ pos' = 0 /\ need' = 0 /\ state' = "reading"
    BY <1>1, <1>14 DEF TakeRecord
  <2>2. out' = StdoutBytes(n + 1) /\ out' \in Seq(Bytes)
    <3>1. StdoutBytes(n) \in Seq(Bytes) /\ StdoutBytes(n + 1) \in Seq(Bytes)
      BY <1>2, <1>4, StreamTyped
    <3>2. StdoutBytes(n) \o <<>> = StdoutBytes(n)
      BY <3>1
    <3> QED
      BY <1>3, <1>6, <1>9, <2>1, <3>1, <3>2
  <2>3. TypeOK'
    BY <1>1, <1>2, <1>11, <2>1, <2>2, ReaderTypes
  <2>4. ASSUME NEW k \in 0 .. Len(sent), k = n + 1
        PROVE  Standing(k)'
    <3>1. /\ Before(k)' = Before(n + 1) /\ StdoutBytes(k)' = StdoutBytes(n + 1)
          /\ Taken(k)' = Taken(n + 1)
      BY <1>10, <2>4
    <3>2. \A m \in 1 .. n + 1 : sent'[m].type # "end"
      BY <1>1, <1>2, <1>3, <1>6, <1>14
    <3>3. count' <= MaxRecords /\ taken' = Before(n + 1) + pos'
      BY <1>1, <1>2, <1>4, <1>5, <1>7, <1>14, <2>1, StreamTyped
    <3> QED
      BY <1>8, <2>1, <2>2, <2>4, <3>1, <3>2, <3>3 DEF Standing
  <2> QED
    BY <1>1, <1>4, <2>1, <2>3, <2>4, ReadingFrame
<1> QED
  BY <1>12, <1>13, <1>14

------------------------------------------------------------------------------
(* The theorem.                                                              *)

LEMMA StartTyped ==
  /\ <<>> \in Seq(Records) /\ <<>> \in Seq([bytes : Nat, stdout : Seq(Bytes)])
  /\ <<>> \in Seq(Bytes)
  /\ Len(<<>>) = 0 /\ 1 .. 0 = {} /\ 0 .. 0 = {0} /\ Cardinality({}) = 0
BY FS_EmptySet

LEMMA InitIInv == ASSUME Init PROVE IInv
<1>1. Total = 0 /\ TypeOK
  BY StartTyped DEF Init, TypeOK, Total, Before
<1>2. StreamOK
  BY StartTyped DEF Init, StreamOK, Before
<1>3. Standing(0) /\ 0 \in 0 .. Len(sent)
  BY StartTyped DEF Init, Standing, Before, StdoutBytes, Taken
<1> QED
  BY <1>1, <1>2, <1>3 DEF Init, IInv, Delivered, ErrorHasCause

LEMMA NextRequestStep == ASSUME NextRequest PROVE IInv'
<1>1. Total' = 0 /\ TypeOK'
  BY StartTyped DEF NextRequest, TypeOK, Total, Before
<1>2. StreamOK'
  BY StartTyped DEF NextRequest, StreamOK, Before
<1>3. Standing(0)' /\ 0 \in 0 .. Len(sent')
  BY StartTyped DEF NextRequest, Standing, Before, StdoutBytes, Taken
<1> QED
  BY <1>1, <1>2, <1>3 DEF NextRequest, IInv, Delivered, ErrorHasCause

LEMMA QuietStep ==
  ASSUME IInv, UNCHANGED <<sent, upto, taken, pos, need, header, count, out, state>>,
         backend' \in {"open", "closed"}
  PROVE  IInv'
<1>1. TypeOK /\ StreamOK
  BY DEF IInv
<1>2. /\ StreamOK' /\ Total' = Total
      /\ \A n \in 0 .. Len(sent) : /\ Before(n)' = Before(n)
                                   /\ StdoutBytes(n)' = StdoutBytes(n)
                                   /\ Taken(n)' = Taken(n)
  BY <1>1, PlaceFrame
<1>3. TypeOK'
  BY <1>1, <1>2 DEF TypeOK
<1>4. \A n \in 0 .. Len(sent) : Standing(n) => Standing(n)'
  BY <1>2 DEF Standing, Size, Filled
<1>5. Delivered' /\ ErrorHasCause'
  BY <1>1, <1>2 DEF IInv, Delivered, ErrorHasCause, Before, StdoutBytes, Filled
<1> QED
  BY <1>2, <1>3, <1>4, <1>5 DEF IInv

LEMMA Invariance ==
  ASSUME NoPaddedEmpty, IInv, [Next]_vars
  PROVE  IInv'
<1>1. CASE Reader
  BY <1>1, StartStep, ReadStep, FailStep, EmptyStep, ParseStep, TakeStep DEF Reader
<1>2. CASE Close \/ UNCHANGED vars
  <2>1. backend' \in {"open", "closed"}
    BY <1>2 DEF Close, vars, IInv, TypeOK
  <2> QED
    BY <1>2, <2>1, QuietStep DEF Close, vars, stream
<1>3. CASE \E r \in Records : Send(r)
  BY <1>3, SendStep
<1>4. CASE NextRequest
  BY <1>4, NextRequestStep
<1> QED
  BY <1>1, <1>2, <1>3, <1>4 DEF Next, Backend

\* However read() cuts what the backend sends: the reader is never between two
\* records but on a boundary, delivers exactly the STDOUT content up to the
\* first END_REQUEST, and gives up only an answer that stops or passes a limit
\* (the record loop of invoke_fastcgi), of a backend that pads no empty STDOUT.
THEOREM Recovered ==
  ASSUME NoPaddedEmpty
  PROVE  Spec => []AnswerRecovered
<1>1. Init => IInv
  BY InitIInv
<1>2. IInv /\ [Next]_vars => IInv'
  BY Invariance
<1>3. IInv => AnswerRecovered
  <2> SUFFICES ASSUME IInv
               PROVE  AnswerRecovered
    OBVIOUS
  <2>1. Aligned
    <3> SUFFICES ASSUME state = "reading", pos = 0
                 PROVE  \E n \in 0 .. Len(sent) : taken = Before(n)
      BY DEF Aligned
    <3>1. PICK n \in 0 .. Len(sent) : Before(n) \in Nat /\ taken = Before(n) + pos
      BY Here
    <3> QED
      BY <3>1
  <2> QED
    BY <2>1 DEF IInv, AnswerRecovered
<1> QED
  BY <1>1, <1>2, <1>3, PTL DEF Spec

===============================================================================
