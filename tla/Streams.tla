------------------------------- MODULE Streams -------------------------------
(***************************************************************************)
(* How an application reads and writes the streams of libfcgi: FCGX_Get... *)
(* and FCGX_Put... of fcgi/libfcgi/fcgiapp.c on the buffer of a stream,    *)
(* and FCGI_fread and FCGI_fwrite of fcgi_stdio.c on top of them.          *)
(*                                                                         *)
(* FillBuffProc and EmptyBuffProc, the subject of FcgiLibrary, are what    *)
(* they are to these calls: the one delivers the next part of the content, *)
(* or ends the stream, the other sends the buffer, or fails.  The reader   *)
(* and the writer share nothing; one of them is taken (side).              *)
(***************************************************************************)
EXTENDS Integers, Sequences, SequencesExt

CONSTANTS
  Contents,    \* what may be read
  Newline, Pushed,   \* the end of a line; a character that is pushed back
  MaxPart,     \* bound on what FillBuffProc delivers
  MaxCount,    \* bound on the counts in calls
  WriterRoom,  \* buffer of a writer
  MaxWritten   \* bound on what is written

ASSUME StreamAssumption ==
  /\ Contents \subseteq Seq(STRING) /\ Newline \in STRING /\ Pushed \in STRING
  /\ {MaxPart, MaxCount, WriterRoom, MaxWritten} \subseteq Nat

VARIABLES
  side,        \* "reader" or "writer"
  unread,      \* content that is not in the buffer yet
  memory,      \* the buffer, from stopUnget to stop
  rd,          \* rdNext, as the number of characters in front of it
  isClosed,
  call,        \* the call that runs: its kind, its count and what it has moved
  answer,      \* what the last call returned, and what it should have
  ideal,       \* what a reader should find from here on
  pushable,    \* a character was read, and none pushed back or missed since
  wire,        \* what has been sent
  broken       \* nothing more can be sent

streamVars ==
  <<side, unread, memory, rd, isClosed, call, answer, ideal, pushable, wire,
    broken>>
writing == <<unread, rd, ideal, pushable>>

NoCall == [kind |-> "none", n |-> 0, size |-> 1, moved |-> <<>>]
NoAnswer == [kind |-> "none", n |-> 0, items |-> 0, got |-> <<>>,
             expected |-> <<>>]
Least(a, b) == IF a < b THEN a ELSE b

\* NewReader, NewWriter
StreamInit ==
  /\ side \in {"reader", "writer"}
  /\ IF side = "reader" THEN unread \in Contents ELSE unread = <<>>
  /\ memory = <<>> /\ rd = 0 /\ isClosed = FALSE
  /\ call = NoCall /\ answer = NoAnswer
  /\ ideal = unread /\ pushable = FALSE /\ wire = <<>> /\ broken = FALSE

Call(kind, n, size) ==
  /\ call = NoCall
  /\ call' = [kind |-> kind, n |-> n, size |-> size, moved |-> <<>>]
  /\ answer' = NoAnswer

-----------------------------------------------------------------------------
(* Reading.                                                                *)

\* FCGX_GetChar, FCGX_GetStr or FCGI_fread, FCGX_GetLine with room for n - 1.
CallRead ==
  /\ side = "reader"
  /\ \/ Call("char", 1, 1)
     \/ \E n \in 1..MaxCount, size \in {1, 2} : Call("str", n * size, size)
     \/ \E n \in 1..MaxCount : Call("line", n - 1, 1)
  /\ UNCHANGED <<side, unread, memory, rd, isClosed, ideal, pushable, wire,
                 broken>>

Available == Len(memory) - rd
Wanted == call.n - Len(call.moved)
Satisfied ==
  \/ Wanted <= 0
  \/ call.kind = "line" /\ call.moved # <<>> /\ Last(call.moved) = Newline

\* Mutant of Part: what is wanted still is taken for what was wanted at first.
PartAll == IF call.kind = "str" THEN Least(call.n, Available) ELSE 1

\* As much as there is, for a string; a character at a time otherwise.
Part == IF call.kind = "str" THEN Least(Wanted, Available) ELSE 1

Move ==
  /\ call.kind \in {"char", "str", "line"} /\ ~Satisfied /\ Available > 0
  /\ call' = [call EXCEPT !.moved = @ \o SubSeq(memory, rd + 1, rd + Part)]
  /\ rd' = rd + Part /\ pushable' = TRUE
  /\ UNCHANGED <<side, unread, memory, isClosed, answer, ideal, wire, broken>>

\* fillBuffProc: what is delivered is what can be pushed back.
Fill ==
  /\ call.kind \in {"char", "str", "line"} /\ ~Satisfied
  /\ Available = 0 /\ ~isClosed
  /\ \/ \E k \in 1..Least(MaxPart, Len(unread)) :
          /\ memory' = SubSeq(unread, 1, k) /\ rd' = 0
          /\ unread' = SubSeq(unread, k + 1, Len(unread))
          /\ UNCHANGED <<isClosed, pushable>>
     \/ /\ isClosed' = TRUE /\ pushable' = FALSE   \* the end, or an error
        /\ UNCHANGED <<unread, memory, rd>>
  /\ UNCHANGED <<side, call, answer, ideal, wire, broken>>

Return ==
  LET n == Len(call.moved)
  IN  /\ call.kind \in {"char", "str", "line"}
      /\ Satisfied \/ (Available = 0 /\ isClosed)
      /\ answer' = [kind |-> call.kind, n |-> call.n,
                    items |-> n \div call.size, got |-> call.moved,
                    expected |-> SubSeq(ideal, 1, n)]
      /\ ideal' = SubSeq(ideal, n + 1, Len(ideal))
      /\ call' = NoCall
      /\ UNCHANGED <<side, unread, memory, rd, isClosed, pushable, wire,
                     broken>>

\* FCGX_UnGetChar, of any character.
UnGetChar ==
  /\ side = "reader" /\ call = NoCall
  /\ ~isClosed /\ rd > 0
  /\ \E c \in {memory[rd], Pushed} :
       /\ memory' = [memory EXCEPT ![rd] = c] /\ ideal' = <<c>> \o ideal
  /\ rd' = rd - 1 /\ pushable' = FALSE /\ answer' = NoAnswer
  /\ UNCHANGED <<side, unread, isClosed, call, wire, broken>>

-----------------------------------------------------------------------------
(* Writing: characters are numbered in their order.  For a writer, memory  *)
(* is the buffer up to wrNext, unread what calls have claimed to write.    *)

CallWrite ==
  /\ side = "writer"
  /\ \E n \in 1..MaxCount : Len(unread) + n <= MaxWritten /\ Call("put", n, 1)
  /\ UNCHANGED <<side, unread, memory, rd, isClosed, ideal, pushable, wire,
                 broken>>

\* FCGX_PutStr, which FCGX_PutS, FCGX_FPrintF and FCGI_fwrite end in.
PutStr ==
  LET m == Least(Wanted, WriterRoom - Len(memory))
      first == Len(unread) + Len(call.moved)
      part == [i \in 1..m |-> first + i]
  IN  /\ call.kind = "put" /\ Wanted > 0 /\ m > 0
      /\ memory' = memory \o part
      /\ call' = [call EXCEPT !.moved = @ \o part]
      /\ UNCHANGED <<side, answer, isClosed, writing, wire, broken>>

\* emptyBuffProc: a full buffer has no padding; where it fails it stays full.
Empty ==
  /\ call.kind = "put" /\ Wanted > 0 /\ Len(memory) = WriterRoom /\ ~isClosed
  /\ \/ ~broken /\ wire' = wire \o memory /\ memory' = <<>>
        /\ UNCHANGED <<isClosed, broken>>
     \/ isClosed' = TRUE /\ broken' = TRUE /\ UNCHANGED <<wire, memory>>
  /\ UNCHANGED <<side, call, answer, writing>>

\* -1 when the stream is closed, which FCGI_fwrite makes a huge number of.
PutReturns ==
  /\ call.kind = "put"
  /\ \/ Wanted = 0 /\ unread' = unread \o call.moved
        /\ answer' = [NoAnswer EXCEPT !.kind = "put", !.items = call.n,
                                      !.n = call.n]
     \/ /\ Wanted > 0 /\ Len(memory) = WriterRoom /\ isClosed
        /\ answer' = [NoAnswer EXCEPT !.kind = "put", !.items = -1,
                                      !.n = call.n]
        /\ UNCHANGED unread
  /\ call' = NoCall
  /\ UNCHANGED <<side, memory, rd, isClosed, ideal, pushable, wire, broken>>

\* FCGX_FFlush.  What fails to be sent stays in the buffer, padded.
FFlush ==
  /\ side = "writer" /\ call = NoCall /\ ~isClosed /\ memory # <<>>
  /\ \/ ~broken /\ wire' = wire \o memory /\ memory' = <<>>
        /\ UNCHANGED <<isClosed, broken>>
     \/ isClosed' = TRUE /\ broken' = TRUE /\ UNCHANGED <<wire, memory>>
  /\ answer' = [NoAnswer EXCEPT !.kind = "flush",
                                !.items = IF isClosed' THEN -1 ELSE 0]
  /\ UNCHANGED <<side, call, writing>>

StreamNext ==
  \/ CallRead \/ Move \/ Fill \/ Return \/ UnGetChar
  \/ CallWrite \/ PutStr \/ Empty \/ PutReturns \/ FFlush

StreamSpec == StreamInit /\ [][StreamNext]_streamVars

-----------------------------------------------------------------------------

\* Whatever calls it takes, a reader finds the content, and what was pushed
\* back; never more than it asked for, less at the end only; and one character
\* can be pushed back after every read.
ReadFaithful ==
  /\ answer.got = answer.expected /\ Len(answer.got) <= answer.n
  /\ answer.kind \in {"char", "str"} /\ Len(answer.got) < answer.n => isClosed
  /\ answer.kind = "line" =>
       /\ \A i \in 1..(Len(answer.got) - 1) : answer.got[i] # Newline
       /\ \/ Len(answer.got) = answer.n \/ isClosed
          \/ answer.got # <<>> /\ Last(answer.got) = Newline
  /\ call = NoCall /\ side = "reader" =>
       ideal = SubSeq(memory, rd + 1, Len(memory)) \o unread
  /\ call = NoCall /\ pushable => rd > 0

\* Until something failed, what was sent and what is in the buffer is what
\* calls have written, in their order; later it begins with what was sent.
PutFaithful ==
  side = "writer" =>
    /\ \A i \in 1..Len(wire) : wire[i] = i
    /\ call = NoCall /\ ~broken => wire \o memory = unread
    /\ answer.kind = "put" /\ answer.items < answer.n => broken

\* What is read and written through a libfcgi stream keeps its order, and a
\* short count means what it says.
StreamsFaithful == ReadFaithful /\ PutFaithful

=============================================================================
