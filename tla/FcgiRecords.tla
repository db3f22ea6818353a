----------------------------- MODULE FcgiRecords -----------------------------
(***************************************************************************)
(* The loop in which invoke_fastcgi (serv/main.cpp) reads a backend's       *)
(* answer: a stream of FastCGI records, each a header of HeaderSize bytes,  *)
(* its content and its padding, that read() cuts anywhere.                  *)
(*                                                                          *)
(* A byte is the pair <<r, k>>: byte k of the r-th record the backend sent. *)
(* The reader does not see r: it takes whatever HeaderSize bytes it stands  *)
(* on for a header.  When they are not one, the header it makes of them is  *)
(* any of the headers there are.                                            *)
(***************************************************************************)
EXTENDS Integers, Sequences, FiniteSets

CONSTANTS HeaderSize,  \* sizeof(FCGI_Header), 8
          Records,     \* the records a backend may send
          MaxSent,     \* bound: records one backend sends
          MaxBytes,    \* FCGI_MAX_RESPONSE_BYTES
          MaxRecords   \* FCGI_MAX_RECORDS

Types == {"stdout", "stderr", "end"}

ASSUME RecordsAssumption ==
  /\ HeaderSize \in Nat \ {0}
  /\ Records \subseteq [type : Types, content : Nat, padding : Nat]
  /\ MaxSent \in Nat /\ MaxBytes \in Nat /\ MaxRecords \in Nat

VARIABLES
  sent,     \* the records the backend has sent
  upto,     \* the stream: the bytes of the first n records, and of them STDOUT
  backend,  \* "open" or "closed"
  taken,    \* bytes read() has returned (total_received)
  pos,      \* bytes of the current record in tmp
  need,     \* bytes of it the loop is reading up to
  header,   \* its header
  count,    \* record_count
  out,      \* raw_stdout: the bytes, in order
  state     \* "reading", "ended" (got_end_request) or "error"

stream == <<sent, upto>>
vars == <<stream, backend, taken, pos, need, header, count, out, state>>

NoHeader == [type |-> "end", content |-> 0, padding |-> 0]

Init ==
  /\ sent = <<>> /\ upto = <<>> /\ backend = "open"
  /\ taken = 0 /\ pos = 0 /\ need = 0
  /\ header = NoHeader
  /\ count = 0
  /\ out = <<>>
  /\ state = "reading"

------------------------------------------------------------------------------
(* The stream.                                                              *)

Size(r) == HeaderSize + r.content + r.padding

\* The bytes of the first n records, how many they are and, in order, those of
\* them that are the content of STDOUT records.
Before(n) == IF n = 0 THEN 0 ELSE upto[n].bytes
StdoutBytes(n) == IF n = 0 THEN <<>> ELSE upto[n].stdout

Total == Before(Len(sent))

\* The content of r, sent as the n-th record.
ContentBytes(n, r) == [k \in 1 .. r.content |-> <<n, HeaderSize + k>>]

\* Byte number i of the stream, from 1.
ByteAt(i) ==
  LET r == CHOOSE n \in 1 .. Len(sent) : Before(n - 1) < i /\ i <= Before(n)
  IN  <<r, i - Before(r - 1)>>

\* tmp[k] for k < pos, from 0: the last pos bytes read.
Tmp(k) == ByteAt(taken - pos + k + 1)

Send(r) ==
  /\ state = "reading" /\ backend = "open"
  /\ Len(sent) < MaxSent
  /\ sent' = Append(sent, r)
  /\ upto' = Append(upto,
       [bytes  |-> Total + Size(r),
        stdout |-> StdoutBytes(Len(sent)) \o
                     (IF r.type = "stdout" THEN ContentBytes(Len(sent) + 1, r)
                      ELSE <<>>)])
  /\ UNCHANGED <<backend, taken, pos, need, header, count, out, state>>

Close ==
  /\ state = "reading" /\ backend = "open"
  /\ backend' = "closed"
  /\ UNCHANGED <<stream, taken, pos, need, header, count, out, state>>

------------------------------------------------------------------------------
(* The reader.                                                              *)

\* The top of the loop, need == 0.
StartRecord ==
  /\ state = "reading" /\ need = 0
  /\ need' = HeaderSize
  /\ UNCHANGED <<stream, backend, taken, pos, header, count, out, state>>

\* read() returns some of the bytes asked for.
ReadBytes ==
  /\ state = "reading" /\ pos < need
  /\ \E n \in 1 .. need - pos :
       /\ n \in 1 .. Total - taken
       /\ pos' = pos + n
       /\ taken' = taken + n
  /\ state' = IF taken' > MaxBytes THEN "error" ELSE state
  /\ UNCHANGED <<stream, backend, need, header, count, out>>

\* Mutant of ReadFails: the backend's socket has no timeout.
ReadFailsNoTimeout ==
  /\ state = "reading" /\ pos < need
  /\ taken = Total /\ backend = "closed"
  /\ state' = "error"
  /\ UNCHANGED <<stream, backend, taken, pos, need, header, count, out>>

\* read() returns 0, an error, or times out.
ReadFails ==
  /\ state = "reading" /\ pos < need
  /\ taken = Total
  /\ state' = "error"
  /\ UNCHANGED <<stream, backend, taken, pos, need, header, count, out>>

\* The header in tmp, or what the bytes there are taken for.
Headers ==
  IF \A k \in 0 .. HeaderSize - 1 : Tmp(k) = <<Tmp(0)[1], k + 1>>
  THEN {sent[Tmp(0)[1]]}
  ELSE Records

AtHeader == state = "reading" /\ pos = need /\ pos = HeaderSize

\* An empty STDOUT record: back to the next header.
EmptyStdout ==
  /\ AtHeader
  /\ header' \in {h \in Headers : h.type = "stdout" /\ h.content = 0}
  /\ pos' = 0 /\ need' = 0
  /\ UNCHANGED <<stream, backend, taken, count, out, state>>

\* Any other header: the loop goes on to read content and padding.  When there
\* is neither, need is HeaderSize still, the loop is where it was, and comes
\* back to this step for ever without counting a record.
ParseHeader ==
  /\ AtHeader
  /\ header' \in {h \in Headers : ~(h.type = "stdout" /\ h.content = 0)}
  /\ need' = Size(header')
  /\ state' = IF need' > MaxBytes THEN "error" ELSE state
  /\ UNCHANGED <<stream, backend, taken, pos, count, out>>

\* Mutant of Contents: everything behind the header.
ContentsPadded ==
  [k \in 1 .. header.content + header.padding |-> Tmp(HeaderSize + k - 1)]

Contents == [k \in 1 .. header.content |-> Tmp(HeaderSize + k - 1)]

\* The record is complete.
TakeRecord ==
  /\ state = "reading" /\ pos = need /\ need > HeaderSize
  /\ count' = count + 1
  /\ IF count' > MaxRecords
     THEN state' = "error" /\ UNCHANGED <<out, pos, need>>
     ELSE IF header.type = "end"
     THEN state' = "ended" /\ UNCHANGED <<out, pos, need>>
     ELSE /\ out' = IF header.type = "stdout" THEN out \o Contents ELSE out
          /\ pos' = 0 /\ need' = 0
          /\ UNCHANGED state
  /\ UNCHANGED <<stream, backend, taken, header>>

\* disconnect(); the next request has its own backend.
NextRequest ==
  /\ state # "reading"
  /\ sent' = <<>> /\ upto' = <<>> /\ backend' = "open"
  /\ taken' = 0 /\ pos' = 0 /\ need' = 0
  /\ header' = NoHeader
  /\ count' = 0 /\ out' = <<>>
  /\ state' = "reading"

Backend == Close \/ \E r \in Records : Send(r)
Reader == StartRecord \/ ReadBytes \/ ReadFails \/ EmptyStdout \/ ParseHeader
            \/ TakeRecord

Next == Backend \/ Reader \/ NextRequest

Spec == Init /\ [][Next]_vars

\* The thread is scheduled and the backend's socket has a receive timeout.
FairSpec == Spec /\ WF_vars(Reader)

------------------------------------------------------------------------------
(* Properties                                                               *)

Bytes == Nat \X Nat

TypeOK ==
  /\ sent \in Seq(Records) /\ Len(sent) <= MaxSent
  /\ backend \in {"open", "closed"}
  /\ upto \in Seq([bytes : Nat, stdout : Seq(Bytes)]) /\ out \in Seq(Bytes)
  /\ taken \in 0 .. Total
  /\ need \in Nat /\ pos \in 0 .. need
  /\ header \in Records \cup {NoHeader}
  /\ count \in 0 .. MaxRecords + 1
  /\ state \in {"reading", "ended", "error"}

\* Between two records the reader stands on the first byte of one.
Aligned ==
  state = "reading" /\ pos = 0 => \E n \in 0 .. Len(sent) : taken = Before(n)

\* An answer is delivered only up to the backend's first END_REQUEST, and it is
\* every STDOUT byte before it, in order, no header, padding or STDERR in it.
Delivered ==
  state = "ended" =>
    \E n \in 1 .. Len(sent) :
      /\ sent[n].type = "end"
      /\ \A m \in 1 .. n - 1 : sent[m].type # "end"
      /\ taken = Before(n)
      /\ out = StdoutBytes(n)

Filled(r) == r.content + r.padding > 0

\* A backend that answers within the limits, END_REQUEST included, is not given
\* up for them: an error means it fell silent or went past a limit.
ErrorHasCause ==
  state = "error" =>
    \/ taken = Total
    \/ taken > MaxBytes \/ need > MaxBytes
    \/ Cardinality({n \in 1 .. Len(sent) :
                      Before(n) <= taken /\ Filled(sent[n])}) > MaxRecords

\* An empty STDOUT record is skipped with its header: padding behind it would be
\* taken for a header.  libfcgi closes a stream without any (fcgiapp.c:1340).
NoPaddedEmpty ==
  \A r \in Records : r.type = "stdout" /\ r.content = 0 => r.padding = 0

\* An answer within the limits is recovered.
AnswerRecovered == TypeOK /\ Aligned /\ Delivered /\ ErrorHasCause

\* The loop stands on a record, not STDOUT, that ends with its header.
Spinning ==
  AtHeader /\ \E h \in Headers : h.type # "stdout" /\ Size(h) = HeaderSize

\* However the backend's records come, or do not, reading its answer comes to an
\* end, unless there is an empty record other than STDOUT.
Terminates == state = "reading" ~> state # "reading" \/ Spinning

\* FCGI_MAX_RECORDS is there "to bound loop iterations" (main.cpp:812): the loop
\* ends, whatever records the backend sends.
LoopBounded == state = "reading" ~> state # "reading"
===============================================================================
