----------------------------- MODULE FcgiLibrary -----------------------------
(***************************************************************************)
(* libfcgi (fcgi/libfcgi/fcgiapp.c), the library through which a backend    *)
(* serves requests: FCGX_Accept_r, the reader of a connection and the       *)
(* writers of an answer, one request at a time in one thread.               *)
(*                                                                          *)
(* The bytes of a connection are numbered from 1, so that the reader's      *)
(* pointers rdNext, stop and buffStop are numbers, and OS_Read moves        *)
(* buffStop on.  The reader does not see where a record begins: it takes    *)
(* the HeaderSize bytes it stands on for a header.  When they are not one,  *)
(* the header it makes of them is any of those there are, or a bad one.     *)
(*                                                                          *)
(* The web server sends a connection's records in batches, the next batch   *)
(* when the request of the last one has been finished.                      *)
(***************************************************************************)
EXTENDS Integers, Sequences, SequencesExt

CONSTANTS HeaderSize,   \* sizeof(FCGI_Header), 8
          BeginSize,    \* sizeof(FCGI_BeginRequestBody), 8
          InSize,       \* bufflen of the reader, 8192
          OutSize,      \* content a writer's buffer has room for
          Scripts,      \* what a web server may send: sequences of batches
          MaxConns,     \* bound: connections
          MaxPuts       \* bound: characters written to a stream

Writers == {"stdout", "stderr"}

\* A record that a web server sends.
Sent == [type : STRING, id : Nat, content : Seq(0 .. 255), padding : Nat]

ASSUME LibraryAssumption ==
  /\ HeaderSize \in Nat \ {0} /\ BeginSize \in Nat \ {0}
  /\ InSize \in Nat \ {0} /\ OutSize \in Nat \ {0}
  /\ MaxConns \in Nat /\ MaxPuts \in Nat
  /\ Scripts \subseteq Seq(Seq(Sent)) \ {<<>>}

VARIABLES
  conns,   \* how many connections have been accepted
  conn,    \* the connection: open, its batches to come, the records sent
  peer,    \* the web server: "open", "closed", or "gone" (OS_Read has said so)
  stage,   \* "accept", "begin", "params", "serve" or "getchar"
  fill,    \* FillBuffProc: "no", "loop" or "header" (in ProcessHeader)
  in,      \* the reader
  inner,   \* what ProcessHeader reads with eorStop: a body, the values asked
  req,     \* FCGX_Request
  pair,    \* the bytes of the name-value pair that ReadParams is in
  params,  \* paramsPtr
  body,    \* the characters the application has read, STDIN and DATA
  out,     \* the writers
  records  \* the records written since the last FCGX_Accept

connection == <<conns, conn, peer>>
request == <<req, pair, params, body>>
answer == <<out, records>>
libraryVars == <<connection, stage, fill, in, inner, request, answer>>

Least(a, b) == IF a <= b THEN a ELSE b

NoError == "none"
Outer == [kind |-> "none", got |-> <<>>, names |-> <<>>]

\* NewReader on a connection of which `at' bytes have been read.
NewReader(at) ==
  [rdNext |-> at, stop |-> at, buffStop |-> at, stopUnget |-> at,
   type |-> "none", eorStop |-> FALSE, skip |-> FALSE, contentLen |-> 0,
   paddingLen |-> 0, headerLen |-> 0, isClosed |-> FALSE, errno |-> NoError]

SetReaderType(s, type) ==
  [s EXCEPT !.type = type, !.eorStop = FALSE, !.skip = FALSE, !.stop = s.rdNext,
            !.contentLen = 0, !.paddingLen = 0, !.isClosed = FALSE]

\* NewWriter: nothing in the buffer.  puts: characters the application wrote.
NewWriter == [buf |-> <<>>, puts |-> 0, written |-> FALSE, closed |-> FALSE,
              isClosed |-> FALSE, errno |-> NoError]

\* Of a reader or a writer.
SetError(s, e) ==
  [s EXCEPT !.errno = IF @ = NoError THEN e ELSE @, !.isClosed = TRUE]

NoConn == [open |-> FALSE, script |-> <<>>, wire |-> <<>>]

\* FCGX_InitRequest.  start: the record that began the request, 0: none of
\* those the web server sent.
LibraryInit ==
  /\ conns = 0 /\ conn = NoConn /\ peer = "closed"
  /\ stage = "accept" /\ fill = "no"
  /\ in = NewReader(0) /\ inner = Outer
  /\ req = [id |-> 0, keep |-> FALSE, role |-> 0, begun |-> FALSE,
            nWriters |-> 0, start |-> 0]
  /\ pair = <<>> /\ params = <<>>
  /\ body = [stdin |-> <<>>, data |-> <<>>]
  /\ out = [w \in Writers |-> NewWriter] /\ records = <<>>

------------------------------------------------------------------------------
(* The connection.                                                          *)

RecordSize(r) == HeaderSize + Len(r.content) + r.padding

\* Bytes of the first n records.
BytesBefore ==
  LET f[n \in 0 .. Len(conn.wire)] ==
        IF n = 0 THEN 0 ELSE f[n - 1] + RecordSize(conn.wire[n])
  IN  f

Total == BytesBefore[Len(conn.wire)]

\* Where byte i is: <<record, offset in it>>.
Where(i) ==
  LET b == BytesBefore
      r == CHOOSE n \in 1 .. Len(conn.wire) : b[n - 1] < i /\ i <= b[n]
  IN  <<r, i - b[r - 1]>>

\* The value of byte i: a header or padding byte that is taken for content
\* is 0.
Byte(i) ==
  LET r == conn.wire[Where(i)[1]]
      k == Where(i)[2] - HeaderSize
  IN  IF k \in 1 .. Len(r.content) THEN r.content[k] ELSE 0

\* The record whose header the reader has just read, 0 for none.
RecordRead ==
  LET first == in.rdNext - HeaderSize + 1
  IN  IF Where(first)[2] = 1 THEN Where(first)[1] ELSE 0

HeaderOf(r) == [type |-> r.type, id |-> r.id, version |-> 1,
                contentLen |-> Len(r.content), paddingLen |-> r.padding]

Headers ==
  IF RecordRead # 0 THEN {HeaderOf(conn.wire[RecordRead])}
  ELSE {HeaderOf(conn.wire[r]) : r \in 1 .. Len(conn.wire)}
         \cup {[HeaderOf(conn.wire[1]) EXCEPT !.version = 0]}

PeerCloses ==
  /\ peer = "open"
  /\ peer' = "closed"
  /\ UNCHANGED <<conns, conn, stage, fill, in, inner, request, answer>>

\* No write has failed.
Unbroken == \A w \in Writers : out[w].errno = NoError

\* write_it_all: once the web server is gone a write may fail, and then all do.
Sends(recs) ==
  /\ Unbroken
  /\ records' = records \o recs
WriteFails == peer # "open" /\ UNCHANGED records

------------------------------------------------------------------------------
(* FillBuffProc.                                                            *)

\* The reader that has skipped what it has of a record not to be delivered.
\* `skip' is reset at the end of its content, if it has content.
AfterContent(s) ==
  LET c == Least(s.contentLen, s.buffStop - s.rdNext)
  IN  [s EXCEPT !.contentLen = @ - c, !.rdNext = @ + c,
                !.skip = @ /\ (s.contentLen = 0 \/ c < s.contentLen)]

AfterPadding(s) ==
  LET p == Least(s.paddingLen, s.buffStop - s.rdNext)
  IN  [s EXCEPT !.paddingLen = @ - p, !.rdNext = @ + p]

AfterHeader(s) ==
  LET h == Least(HeaderSize - s.headerLen, s.buffStop - s.rdNext)
  IN  [s EXCEPT !.headerLen = @ + h, !.rdNext = @ + h]

Delivered(s) ==
  LET c == Least(s.contentLen, s.buffStop - s.rdNext)
  IN  [s EXCEPT !.contentLen = @ - c, !.stop = s.rdNext + c,
                !.stopUnget = s.rdNext]

\* One turn of the loop, from the content on, with the stream s.
Turn(s) ==
  LET skipped == AfterContent(s)
      padded == AfterPadding(skipped)
      headed == AfterHeader(padded)
  IN  \/ /\ s.contentLen > 0 /\ ~s.skip
         /\ in' = Delivered(s) /\ fill' = "no"
      \/ /\ s.contentLen = 0 \/ s.skip
         /\ \/ skipped.contentLen > 0 /\ in' = skipped /\ UNCHANGED fill
            \/ /\ skipped.contentLen = 0
               /\ \/ padded.paddingLen > 0 /\ in' = padded /\ UNCHANGED fill
                  \/ /\ padded.paddingLen = 0 /\ padded.eorStop
                     /\ in' = [padded EXCEPT !.stop = padded.rdNext,
                                             !.isClosed = TRUE]
                     /\ fill' = "no"
                  \/ /\ padded.paddingLen = 0 /\ ~padded.eorStop
                     /\ headed.headerLen < HeaderSize
                     /\ in' = headed /\ UNCHANGED fill
                  \/ /\ padded.paddingLen = 0 /\ ~padded.eorStop
                     /\ headed.headerLen = HeaderSize
                     /\ in' = [headed EXCEPT !.headerLen = 0,
                                             !.stop = headed.rdNext]
                     /\ fill' = "header"

\* OS_Read returns some of the bytes there are, when the buffer is used up.
FillLoop ==
  /\ fill = "loop"
  /\ \/ in.rdNext # in.buffStop /\ Turn(in)
     \/ /\ in.rdNext = in.buffStop /\ peer # "gone"
        /\ \E n \in 1 .. Least(InSize, Total - in.buffStop) :
             Turn([in EXCEPT !.buffStop = @ + n])
  /\ UNCHANGED <<connection, stage, inner, request, answer>>

\* OS_Read returns 0 or an error.
ReadFails ==
  /\ fill = "loop" /\ in.rdNext = in.buffStop /\ peer # "open"
  /\ peer' = "gone"
  /\ in' = [SetError(in, "protocol") EXCEPT !.headerLen = 0]
  /\ fill' = "no"
  /\ UNCHANGED <<conns, conn, stage, inner, request, answer>>

------------------------------------------------------------------------------
(* ProcessHeader.                                                           *)

\* The stream that has the header h.
With(h) ==
  [in EXCEPT !.contentLen = h.contentLen, !.paddingLen = h.paddingLen]

\* A status below 0.
Broken(s, e) == in' = SetError(s, e) /\ fill' = "no"

\* ProcessHeader reads the record itself, up to its end.
ReadsRecord(s, kind) ==
  /\ in' = [s EXCEPT !.eorStop = TRUE]
  /\ inner' = [Outer EXCEPT !.kind = kind]
  /\ fill' = "no"

BadHeader(h) ==
  /\ \/ h.version # 1 /\ Broken(in, "version")
     \/ /\ h.version = 1 /\ h.type = "begin"
        /\ h.id = 0 \/ h.contentLen # BeginSize
        /\ Broken(With(h), "protocol")
     \/ /\ h.version = 1 /\ h.type # "begin"
        /\ h.id # 0 /\ h.id = req.id /\ h.type # in.type
        /\ Broken(With(h), "protocol")
  /\ UNCHANGED <<inner, req, records>>

BeginRequest(h) ==
  /\ h.version = 1 /\ h.type = "begin"
  /\ h.id # 0 /\ h.contentLen = BeginSize /\ ~req.begun
  /\ req' = [req EXCEPT !.id = h.id, !.start = RecordRead]
  /\ ReadsRecord(With(h), "begin")
  /\ UNCHANGED records

CantMultiplex(h) ==
  /\ h.version = 1 /\ h.type = "begin"
  /\ h.id # 0 /\ h.contentLen = BeginSize /\ req.begun
  /\ \/ /\ Sends(<<[type |-> "refused", id |-> h.id, content |-> <<>>]>>)
        /\ in' = [With(h) EXCEPT !.skip = TRUE] /\ fill' = "loop"
     \/ WriteFails /\ Broken(With(h), "os")
  /\ UNCHANGED <<inner, req>>

ManagementRecord(h) ==
  /\ h.version = 1 /\ h.type # "begin" /\ h.id = 0
  /\ \/ h.type = "values" /\ ReadsRecord(With(h), "values") /\ UNCHANGED records
     \/ /\ h.type # "values"
        /\ \/ /\ Sends(<<[type |-> "unknown", id |-> 0, content |-> <<>>]>>)
              /\ in' = With(h) /\ fill' = "loop"
           \/ WriteFails /\ Broken(With(h), "os")
        /\ UNCHANGED inner
  /\ UNCHANGED req

\* Mutant of SkippedRecord: the records of another request are not skipped.
SkippedRecordNot(h) ==
  /\ h.version = 1 /\ h.type # "begin" /\ h.id # 0 /\ h.id # req.id
  /\ in' = With(h) /\ fill' = "loop"
  /\ UNCHANGED <<inner, req, records>>

SkippedRecord(h) ==
  /\ h.version = 1 /\ h.type # "begin" /\ h.id # 0 /\ h.id # req.id
  /\ in' = [With(h) EXCEPT !.skip = TRUE] /\ fill' = "loop"
  /\ UNCHANGED <<inner, req, records>>

\* An empty record ends the stream.
StreamRecord(h) ==
  /\ h.version = 1 /\ h.type # "begin" /\ h.id # 0
  /\ h.id = req.id /\ h.type = in.type
  /\ IF h.contentLen = 0
     THEN /\ in' = [With(h) EXCEPT !.stop = in.rdNext, !.isClosed = TRUE]
          /\ fill' = "no"
     ELSE in' = With(h) /\ fill' = "loop"
  /\ UNCHANGED <<inner, req, records>>

ProcessHeader ==
  /\ fill = "header"
  /\ \E h \in Headers :
       \/ BadHeader(h) \/ BeginRequest(h) \/ CantMultiplex(h)
       \/ ManagementRecord(h) \/ SkippedRecord(h) \/ StreamRecord(h)
  /\ UNCHANGED <<connection, stage, pair, params, body, out>>

------------------------------------------------------------------------------
(* FCGX_GetChar and FCGX_GetStr, in the library and in the application.     *)

Reading ==
  fill = "no" /\ (inner.kind # "none" \/ stage \in {"params", "getchar"})

NeedFill ==
  /\ Reading /\ ~in.isClosed /\ in.rdNext = in.stop
  /\ fill' = "loop"
  /\ UNCHANGED <<connection, stage, in, inner, request, answer>>

\* The next character, c; the record below says who takes it.
Takes(c) ==
  /\ Reading /\ ~in.isClosed /\ in.rdNext # in.stop
  /\ c = Byte(in.rdNext + 1)

Taken == [in EXCEPT !.rdNext = @ + 1]

\* The length fields of a pair: 1 byte, or 4 when the first has its high bit.
FieldSize(s) == IF s # <<>> /\ s[1] >= 128 THEN 4 ELSE 1
Field(s) ==
  IF FieldSize(s) = 1 THEN s[1]
  ELSE (s[1] - 128) * 2^24 + s[2] * 2^16 + s[3] * 2^8 + s[4]

\* How many bytes a pair has, as far as its first bytes s tell.
PairSize(s) ==
  LET n == FieldSize(s)
      rest == SubSeq(s, n + 1, Len(s))
      m == FieldSize(rest)
  IN  IF Len(s) < n + m THEN n + m ELSE n + m + Field(s) + Field(rest)

PairOf(s) ==
  LET n == FieldSize(s)
      m == FieldSize(SubSeq(s, n + 1, Len(s)))
      value == n + m + Field(s) + 1
  IN  [name |-> SubSeq(s, n + m + 1, value - 1),
       value |-> SubSeq(s, value, Len(s))]

\* The body of BEGIN_REQUEST; its last byte stands for the role and for the
\* flag FCGI_KEEP_CONN.
BeginByte(c) ==
  /\ inner.kind = "begin" /\ Takes(c)
  /\ IF Len(inner.got) + 1 < BeginSize
     THEN inner' = [inner EXCEPT !.got = Append(@, c)] /\ in' = Taken
          /\ UNCHANGED req
     ELSE /\ req' = [req EXCEPT !.keep = c % 2 = 1, !.role = c \div 2,
                                !.begun = TRUE]
          /\ inner' = Outer
          /\ in' = [Taken EXCEPT !.eorStop = FALSE]
  /\ UNCHANGED <<connection, stage, fill, pair, params, body, answer>>

\* ReadParams, of the environment and of the values asked for.
ParamByte(c) ==
  /\ inner.kind = "none" /\ stage = "params" /\ Takes(c)
  /\ LET s == Append(pair, c)
     IN  IF Len(s) < PairSize(s)
         THEN pair' = s /\ UNCHANGED params
         ELSE pair' = <<>> /\ params' = Append(params, PairOf(s))
  /\ in' = Taken
  /\ UNCHANGED <<connection, stage, fill, inner, req, body, answer>>

ValueByte(c) ==
  /\ inner.kind = "values" /\ Takes(c)
  /\ LET s == Append(inner.got, c)
     IN  inner' = IF Len(s) < PairSize(s) THEN [inner EXCEPT !.got = s]
                  ELSE [inner EXCEPT !.got = <<>>,
                                     !.names = Append(@, PairOf(s).name)]
  /\ in' = Taken
  /\ UNCHANGED <<connection, stage, fill, request, answer>>

GetChar(c) ==
  /\ inner.kind = "none" /\ stage = "getchar" /\ Takes(c)
  /\ stage' = "serve" /\ in' = Taken
  /\ body' = [body EXCEPT ![in.type] = Append(@, c)]
  /\ UNCHANGED <<connection, fill, inner, req, pair, params, answer>>

TakeByte ==
  Reading /\ in.rdNext # in.stop
    /\ LET c == Byte(in.rdNext + 1)
       IN  BeginByte(c) \/ ParamByte(c) \/ ValueByte(c) \/ GetChar(c)

\* The end of a stream, or an error.
Eof == Reading /\ in.isClosed

\* ProcessBeginRecord finds no body.
BeginCutOff ==
  /\ Eof /\ inner.kind = "begin"
  /\ in' = [SetError(in, "protocol") EXCEPT !.eorStop = FALSE]
  /\ inner' = Outer
  /\ UNCHANGED <<connection, stage, fill, request, answer>>

\* The answer to FCGI_GET_VALUES names those it knows (the names whose bytes
\* are below 128; which they are makes no difference here).
ValuesEnd ==
  /\ Eof /\ inner.kind = "values"
  /\ inner' = Outer
  /\ LET opened == [in EXCEPT !.eorStop = FALSE, !.isClosed = FALSE]
         bad == in.errno # NoError \/ in.contentLen # 0 \/ inner.got # <<>>
     IN  \/ bad /\ Broken(opened, "protocol") /\ UNCHANGED records
         \/ /\ ~bad
            /\ Sends(<<[type |-> "values", id |-> 0,
                        content |-> inner.names]>>)
            /\ in' = opened /\ fill' = "loop"
         \/ ~bad /\ WriteFails /\ Broken(opened, "os")
  /\ UNCHANGED <<connection, stage, request, out>>

\* FCGX_GetChar returns EOF.
GetEof ==
  /\ Eof /\ inner.kind = "none" /\ stage = "getchar"
  /\ stage' = "serve"
  /\ UNCHANGED <<connection, fill, in, inner, request, answer>>

------------------------------------------------------------------------------
(* FCGX_Accept_r.                                                           *)

\* A new reader, on a new connection or on the one that was kept.
Accept_r ==
  /\ stage = "accept"
  /\ IF conn.open
     THEN /\ conn' = [conn EXCEPT !.wire = conn.wire \o (IF conn.script = <<>>
                                       THEN <<>> ELSE Head(conn.script)),
                                  !.script = IF @ = <<>> THEN @ ELSE Tail(@)]
          /\ in' = NewReader(in.buffStop)
          /\ UNCHANGED <<conns, peer>>
     ELSE /\ conns < MaxConns /\ conns' = conns + 1
          /\ \E s \in Scripts : conn' = [open |-> TRUE, script |-> Tail(s),
                                         wire |-> Head(s)]
          /\ peer' = "open" /\ in' = NewReader(0)
  /\ stage' = "begin" /\ fill' = "loop" /\ inner' = Outer
  /\ req' = [req EXCEPT !.begun = FALSE, !.start = 0]
  /\ pair' = <<>> /\ params' = <<>>
  /\ body' = [stdin |-> <<>>, data |-> <<>>]
  /\ out' = [w \in Writers |-> NewWriter] /\ records' = <<>>

\* TryAgain: FCGX_Free closes the connection.
TryAgain ==
  /\ conn' = NoConn /\ peer' = "closed" /\ in' = NewReader(0)
  /\ stage' = "accept"
  /\ UNCHANGED <<conns, fill, inner, request, answer>>

Responder == 1
Authorizer == 2
Filter == 3
Roles == {Responder, Authorizer, Filter}

\* FillBuffProc has returned.
BeginRead ==
  /\ stage = "begin" /\ fill = "no" /\ inner.kind = "none"
  /\ req.begun /\ req.role \in Roles
  /\ in' = SetReaderType(in, "params") /\ stage' = "params"
  /\ UNCHANGED <<connection, fill, inner, request, answer>>

BeginFails ==
  /\ stage = "begin" /\ fill = "no" /\ inner.kind = "none"
  /\ ~(req.begun /\ req.role \in Roles)
  /\ TryAgain

\* Mutant of ParamsRead: the reader is not opened again for STDIN.
ParamsReadAsIs ==
  /\ Eof /\ inner.kind = "none" /\ stage = "params" /\ pair = <<>>
  /\ in' = [in EXCEPT !.type = "stdin"] /\ stage' = "serve"
  /\ req' = [req EXCEPT !.nWriters = 2]
  /\ UNCHANGED <<connection, fill, inner, pair, params, body, answer>>

\* ReadParams returns 0 at the end of the stream, whatever ended it, if it is
\* not within a pair.
ParamsRead ==
  /\ Eof /\ inner.kind = "none" /\ stage = "params" /\ pair = <<>>
  /\ in' = SetReaderType(in, "stdin") /\ stage' = "serve"
  /\ req' = [req EXCEPT !.nWriters = 2]
  /\ UNCHANGED <<connection, fill, inner, pair, params, body, answer>>

ParamsFail ==
  /\ Eof /\ inner.kind = "none" /\ stage = "params" /\ pair # <<>>
  /\ TryAgain

------------------------------------------------------------------------------
(* The application.                                                         *)

CallGetChar ==
  /\ stage = "serve"
  /\ stage' = "getchar"
  /\ UNCHANGED <<connection, fill, in, inner, request, answer>>

\* FCGX_UnGetChar of the character just read.
UnGetChar ==
  /\ stage = "serve" /\ ~in.isClosed /\ in.rdNext # in.stopUnget
  /\ in.type \in DOMAIN body /\ body[in.type] # <<>>
  /\ in' = [in EXCEPT !.rdNext = @ - 1]
  /\ body' = [body EXCEPT ![in.type] = Front(@)]
  /\ UNCHANGED <<connection, stage, fill, inner, req, pair, params, answer>>

StartFilterData ==
  /\ stage = "serve"
  /\ in' = IF req.role = Filter /\ in.isClosed /\ in.type = "stdin"
           THEN SetReaderType(in, "data") ELSE SetError(in, "sequence")
  /\ UNCHANGED <<connection, stage, fill, inner, request, answer>>

\* EmptyBuffProc without doClose: the buffer as one record.
Content(w) ==
  IF out[w].buf = <<>> THEN <<>>
  ELSE <<[type |-> w, id |-> req.id, content |-> out[w].buf]>>

Record(type) == [type |-> type, id |-> req.id, content |-> <<>>]

\* Mutant of WriteCloseRecords: the first writer to close ends the request.
WriteCloseRecordsFirst(w, n) ==
  Content(w)
    \o (IF w = "stderr" /\ out[w].buf = <<>> /\ ~out[w].written
        THEN <<>> ELSE <<Record(w)>>)
    \o (IF n = 2 THEN <<Record("end")>> ELSE <<>>)

\* EmptyBuffProc with doClose, when n writers are open: STDERR to which nothing
\* was written has no end, and the last writer ends the request.
WriteCloseRecords(w, n) ==
  Content(w)
    \o (IF w = "stderr" /\ out[w].buf = <<>> /\ ~out[w].written
        THEN <<>> ELSE <<Record(w)>>)
    \o (IF n = 1 THEN <<Record("end")>> ELSE <<>>)

\* FCGX_PutChar of the next character.  FCGX_FClose leaves no room.
PutChar(w) ==
  /\ stage = "serve" /\ out["stdout"].puts + out["stderr"].puts < MaxPuts
  /\ LET c == out[w].puts + 1
         room == ~out[w].closed /\ Len(out[w].buf) < OutSize
     IN  \/ /\ room
            /\ out' = [out EXCEPT ![w].buf = Append(@, c), ![w].puts = c]
            /\ UNCHANGED records
         \/ /\ ~room /\ ~out[w].isClosed
            /\ Sends(Content(w))
            /\ out' = [out EXCEPT ![w].buf = <<c>>, ![w].puts = c,
                                  ![w].written = TRUE]
         \/ /\ ~room /\ ~out[w].isClosed
            /\ WriteFails
            /\ out' = [out EXCEPT ![w] = SetError(@, "os")]
  /\ UNCHANGED <<connection, stage, fill, in, inner, request>>

FFlush(w) ==
  /\ stage = "serve" /\ ~out[w].isClosed /\ out[w].buf # <<>>
  /\ \/ /\ Sends(Content(w))
        /\ out' = [out EXCEPT ![w].buf = <<>>, ![w].written = TRUE]
     \/ /\ WriteFails
        /\ out' = [out EXCEPT ![w] = SetError(@, "os")]
  /\ UNCHANGED <<connection, stage, fill, in, inner, request>>

\* The writer w after FCGX_FClose, e its error.
ClosedWriter(w, e) ==
  [out[w] EXCEPT !.closed = TRUE, !.isClosed = TRUE,
                 !.buf = IF e = NoError THEN <<>> ELSE @,
                 !.errno = IF @ = NoError THEN e ELSE @]

FClose(w) ==
  /\ stage = "serve" /\ ~out[w].closed
  /\ LET recs == WriteCloseRecords(w, req.nWriters)
     IN  \/ /\ Sends(recs)
            /\ out' = [out EXCEPT ![w] = ClosedWriter(w, NoError)]
         \/ /\ recs # <<>> /\ WriteFails
            /\ out' = [out EXCEPT ![w] = ClosedWriter(w, "os")]
         \/ /\ recs = <<>> /\ ~Unbroken /\ UNCHANGED records
            /\ out' = [out EXCEPT ![w] = ClosedWriter(w, NoError)]
  /\ req' = [req EXCEPT !.nWriters = @ - 1]
  /\ UNCHANGED <<connection, stage, fill, in, inner, pair, params, body>>

\* FCGX_Finish_r: FClose(err), FClose(out), FCGX_Free.  A writer that is closed
\* already writes nothing and still has its error.
Finish ==
  /\ stage = "serve"
  /\ LET errRecs == IF out["stderr"].closed THEN <<>>
                    ELSE WriteCloseRecords("stderr", req.nWriters)
         left == IF out["stderr"].closed THEN req.nWriters
                 ELSE req.nWriters - 1
         outRecs == IF out["stdout"].closed THEN <<>>
                    ELSE WriteCloseRecords("stdout", left)
         Closed(e, o) == [stderr |-> ClosedWriter("stderr", e),
                          stdout |-> ClosedWriter("stdout", o)]
     IN  \/ Sends(errRecs \o outRecs) /\ out' = Closed(NoError, NoError)
         \/ /\ peer # "open" /\ outRecs # <<>>
            /\ Sends(errRecs) /\ out' = Closed(NoError, "os")
         \/ /\ (errRecs \o outRecs = <<>> => ~Unbroken) /\ WriteFails
            /\ out' = Closed(IF errRecs = <<>> THEN NoError ELSE "os",
                             IF outRecs = <<>> THEN NoError ELSE "os")
  /\ req' = [req EXCEPT !.nWriters = 0]
  /\ IF req.keep /\ in.errno = NoError
          /\ \A w \in Writers : out'[w].errno = NoError
     THEN UNCHANGED <<conn, peer>>
     ELSE conn' = NoConn /\ peer' = "closed"
  /\ stage' = "accept"
  /\ UNCHANGED <<conns, fill, in, inner, pair, params, body>>

Library ==
  \/ FillLoop \/ ReadFails \/ ProcessHeader
  \/ NeedFill \/ TakeByte \/ BeginCutOff \/ ValuesEnd \/ GetEof
  \/ Accept_r \/ BeginRead \/ BeginFails \/ ParamsRead \/ ParamsFail

Application ==
  \/ CallGetChar \/ UnGetChar \/ StartFilterData \/ Finish
  \/ \E w \in Writers : PutChar(w) \/ FFlush(w) \/ FClose(w)

LibraryNext == PeerCloses \/ Library \/ Application

LibrarySpec == LibraryInit /\ [][LibraryNext]_libraryVars

------------------------------------------------------------------------------
(* Properties                                                               *)

TypeOK ==
  /\ conns \in 0 .. MaxConns /\ peer \in {"open", "closed", "gone"}
  /\ stage \in {"accept", "begin", "params", "serve", "getchar"}
  /\ fill \in {"no", "loop", "header"}
  /\ in.rdNext <= in.stop \/ fill = "loop" \/ in.isClosed
  /\ in.rdNext <= in.buffStop /\ in.stopUnget <= in.rdNext
  /\ conn.open => in.stop <= in.buffStop /\ in.buffStop <= Total
  /\ in.contentLen >= 0 /\ in.paddingLen >= 0
  /\ in.headerLen \in 0 .. HeaderSize - 1
  /\ inner.kind \in {"none", "begin", "values"}
  /\ inner.kind # "none" <=> in.eorStop
  /\ req.nWriters \in 0 .. 2
  /\ \A w \in Writers : Len(out[w].buf) <= OutSize

\* The records of the request that is served, from the record `from' on.
Own(type, from) ==
  {n \in from + 1 .. Len(conn.wire) :
     conn.wire[n].type = type /\ conn.wire[n].id = req.id}

EndOf(type, from) ==
  LET ends == {n \in Own(type, from) : conn.wire[n].content = <<>>}
  IN  IF ends = {} THEN Len(conn.wire) + 1
      ELSE CHOOSE n \in ends : \A m \in ends : n <= m

\* The content of a stream of its.
Chars(type, from) ==
  FlattenSeq([n \in 1 .. EndOf(type, from) - 1 |->
                IF n \in Own(type, from) THEN conn.wire[n].content ELSE <<>>])

\* The whole pairs in a sequence of bytes.
PairsOf(bytes) ==
  LET f[i \in 1 .. Len(bytes) + 1] ==
        LET s == SubSeq(bytes, i, Len(bytes))
            n == PairSize(s)
        IN  IF n > Len(s) THEN <<>>
            ELSE <<PairOf(SubSeq(s, 1, n))>> \o f[i + n]
  IN  f[1]

\* What the library takes for granted of the web server: the records that begin
\* the request and end its streams are not padded, an unknown management record
\* is empty, a record of another request is not.
Plain ==
  /\ conn.wire[req.start].padding = 0
  /\ \A n \in req.start + 1 .. Len(conn.wire) :
       LET r == conn.wire[n]
       IN  /\ r.content = <<>> => r.id \in {0, req.id}
           /\ r.content = <<>> /\ r.id = req.id => r.padding = 0
           /\ r.id = 0 /\ r.type # "values" => r.content = <<>>

Serving == stage \in {"serve", "getchar"} /\ req.start # 0 /\ Plain

\* The parameters that the web server sent.
Environment == PairsOf(Chars("params", req.start))

\* What the application is given is what the web server sent, however reads cut
\* it and whatever records of other requests are among it: all of the
\* parameters, or some and an error to find; and unless there is an error to
\* find, a part of each stream, and all of it at its end.
RequestIntact ==
  Serving =>
    LET end == EndOf("params", req.start)
    IN  /\ IsPrefix(params, Environment)
        /\ in.errno = NoError =>
             /\ params = Environment
             /\ \A type \in DOMAIN body :
                  /\ IsPrefix(body[type], Chars(type, end))
                  /\ in.type = type /\ in.isClosed /\ inner.kind = "none" =>
                       body[type] = Chars(type, end)

\* The request is intact, and the reader's pointers and counts are in bounds.
RequestArrives == TypeOK /\ RequestIntact

SentOn(w) ==
  FlattenSeq([n \in 1 .. Len(records) |->
                IF records[n].type = w THEN records[n].content ELSE <<>>])

\* Every character written is sent or in the buffer, once and in order, until a
\* write fails; the request is ended when both writers are closed, not before,
\* and nothing of it follows.
AnswerIntact ==
  Unbroken /\ stage \in {"serve", "accept"} =>
    LET ends == {n \in 1 .. Len(records) : records[n].type = "end"}
    IN  /\ \A w \in Writers :
             SentOn(w) \o out[w].buf = [n \in 1 .. out[w].puts |-> n]
        /\ ends # {} <=> \A w \in Writers : out[w].closed
        /\ \A n \in ends : \A m \in n + 1 .. Len(records) :
             records[m].type \notin Writers \cup {"end"}

\* A connection on which the application has read a request to the end of the
\* last stream is kept with the reader behind that end: between two requests,
\* if it is the last record that was sent.
NextRequestFound ==
  stage = "accept" /\ conn.open /\ in.isClosed /\ req.start # 0 /\ Plain =>
    LET n == EndOf(in.type, EndOf("params", req.start))
    IN  /\ n <= Len(conn.wire) /\ in.rdNext = BytesBefore[n]
        /\ n = Len(conn.wire) => in.buffStop = Total
===============================================================================
