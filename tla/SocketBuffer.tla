----------------------------- MODULE SocketBuffer -----------------------------
(***************************************************************************)
(* struct SocketBuffer (serv/httpserver.h, serv/httpserver.cpp): the buffer *)
(* between recv() and the worker thread that reads requests from it.        *)
(*                                                                          *)
(* One step is one turn of the loop in readline() or read(), up to and      *)
(* including the recv() it ends in: only the owning worker touches the      *)
(* buffer, so the peer cannot see anything between two recv() calls.  The   *)
(* buffer is an array with its stale bytes, not a sequence: the memmove()s  *)
(* and the offsets are what could be wrong.                                 *)
(*                                                                          *)
(* The local variable line_start is not kept: it equals offset whenever the *)
(* loop tests it (both start equal and every turn resets both to 0).        *)
(***************************************************************************)
EXTENDS Integers, Sequences

CONSTANTS Byte,         \* the bytes told apart
          NL,           \* '\n'
          Space,        \* the bytes isspace() accepts
          Zero,         \* what vector::resize fills new elements with
          LineInitial,  \* size readline() gives an empty buffer (1024)
          ReadInitial,  \* size read() gives an empty buffer (4096)
          MaxLine,      \* max_line_length (8192)
          MaxSent,      \* bound: bytes one peer sends on a connection
          ReadLengths   \* the maxlen arguments callers pass to read()

ASSUME ByteAssumption ==
  /\ NL \in Byte /\ Zero \in Byte
  /\ Space \subseteq Byte

ASSUME SizeAssumption ==
  /\ MaxLine \in Nat /\ MaxSent \in Nat
  /\ LineInitial \in 1 .. MaxLine
  /\ ReadInitial \in 1 .. MaxLine
  /\ ReadLengths \subseteq Nat

VARIABLES
  sent,       \* every byte the peer has sent on this connection
  peer,       \* "open", "closed" (FIN) or "reset" (RST)
  received,   \* how many of them recv() has returned
  size,       \* buffer.size()
  buffer,     \* buffer[0 .. size-1]
  length,     \* end of the data in buffer
  offset,     \* start of the data in buffer not given to the caller yet
  connected,
  op,         \* the call the worker is in: "idle", "readline" or "read"
  maxlen,     \* read()'s argument, what is left of it
  result,     \* the line returned, or the block built in *out
  taken       \* history: how many bytes the caller has been given

peerVars == <<sent, peer>>
dataVars == <<size, buffer, length, offset>>
vars == <<sent, peer, received, size, buffer, length, offset, connected, op,
          maxlen, result, taken>>

Init ==
  /\ sent = <<>>
  /\ peer = "open"
  /\ received = 0
  /\ size = 0
  /\ buffer = <<>>
  /\ length = 0
  /\ offset = 0
  /\ connected = TRUE
  /\ op = "idle"
  /\ maxlen = 0
  /\ result = <<>>
  /\ taken = 0

------------------------------------------------------------------------------
(* The peer and the kernel's socket.                                        *)

PeerSend(b) ==
  /\ peer = "open"
  /\ Len(sent) < MaxSent
  /\ sent' = Append(sent, b)
  /\ UNCHANGED <<peer, received, dataVars, connected, op, maxlen, result, taken>>

PeerEnd(how) ==
  /\ peer = "open"
  /\ peer' = how
  /\ UNCHANGED <<sent, received, dataVars, connected, op, maxlen, result, taken>>

\* recv() copies l of the bytes waiting in the kernel to position `at' of an
\* array of n bytes: at least one, and no more than fit.
Received(data, at, n, l) ==
  [i \in 0 .. n - 1 |->
     IF i \in at .. at + l - 1 THEN sent[received + (i - at) + 1] ELSE data[i]]

\* Mutant of RecvFails: the socket has no receive timeout.
RecvFailsNoTimeout == peer = "reset" \/ (peer = "closed" /\ received = Len(sent))

\* recv() returns 0 or -1: end of stream, a reset, or RECV_TIMEOUT_SEC without
\* a byte (set_socket_timeout).
RecvFails == peer = "reset" \/ received = Len(sent)

------------------------------------------------------------------------------
(* readline()                                                               *)

\* vector::resize(n): the elements stay, new ones are Zero.
Resized(n) == [i \in 0 .. n - 1 |-> IF i < size THEN buffer[i] ELSE Zero]

StartReadline ==
  /\ op = "idle"
  /\ connected
  /\ op' = "readline"
  /\ result' = <<>>
  /\ maxlen' = 0
  /\ IF size = 0
     THEN size' = LineInitial /\ buffer' = Resized(LineInitial)
     ELSE UNCHANGED <<size, buffer>>
  /\ UNCHANGED <<peerVars, received, length, offset, connected, taken>>

NoNewline == \A i \in offset .. length - 1 : buffer[i] # NL

\* memchr() finds a newline: the line up to it, its trailing white space
\* stripped, is returned and offset moves behind the newline.
LineFound ==
  /\ op = "readline"
  /\ \E nl \in offset .. length - 1 : \E right \in offset .. nl :
       /\ buffer[nl] = NL
       /\ \A i \in offset .. nl - 1 : buffer[i] # NL
       /\ \A i \in right .. nl - 1 : buffer[i] \in Space
       /\ right > offset => buffer[right - 1] \notin Space
       /\ result' = [k \in 1 .. right - offset |-> buffer[offset + k - 1]]
       /\ offset' = nl + 1
       /\ taken' = taken + (nl + 1 - offset)
  /\ op' = "idle"
  /\ UNCHANGED <<peerVars, received, size, buffer, length, connected, maxlen>>

\* Mutant of LineTooLong: the limit is applied to everything in the buffer.
LineTooLongWhole ==
  /\ op = "readline"
  /\ NoNewline
  /\ length >= MaxLine
  /\ connected' = FALSE
  /\ op' = "idle"
  /\ UNCHANGED <<peerVars, received, dataVars, maxlen, result, taken>>

\* The line is longer than max_line_length: the connection is given up.
LineTooLong ==
  /\ op = "readline"
  /\ NoNewline
  /\ length - offset >= MaxLine
  /\ connected' = FALSE
  /\ op' = "idle"
  /\ UNCHANGED <<peerVars, received, dataVars, maxlen, result, taken>>

\* The pending bytes move to the front of the buffer ...
Pending == length - offset

Compacted == [i \in 0 .. size - 1 |->
                IF i < Pending THEN buffer[offset + i] ELSE buffer[i]]

\* Mutant of GrownSize: the cap is missing.
GrownSizeNoCap == IF Pending < size THEN size ELSE 2 * size

\* ... which doubles, up to max_line_length, when they fill it.
GrownSize ==
  IF Pending < size THEN size
  ELSE IF 2 * size > MaxLine THEN MaxLine ELSE 2 * size
Grown == [i \in 0 .. GrownSize - 1 |-> IF i < size THEN Compacted[i] ELSE Zero]

WantsMore == op = "readline" /\ NoNewline /\ Pending < MaxLine

LineRecv ==
  /\ WantsMore
  /\ \E l \in 1 .. GrownSize - Pending :
       /\ l \in 1 .. Len(sent) - received
       /\ buffer' = Received(Grown, Pending, GrownSize, l)
       /\ received' = received + l
       /\ length' = Pending + l
  /\ size' = GrownSize
  /\ offset' = 0
  /\ UNCHANGED <<peerVars, connected, op, maxlen, result, taken>>

LineRecvFails ==
  /\ WantsMore
  /\ RecvFails
  /\ buffer' = Grown
  /\ size' = GrownSize
  /\ length' = Pending
  /\ offset' = 0
  /\ connected' = FALSE
  /\ op' = "idle"
  /\ UNCHANGED <<peerVars, received, maxlen, result, taken>>

------------------------------------------------------------------------------
(* read(out, maxlen)                                                        *)

StartRead(n) ==
  /\ op = "idle"
  /\ connected
  /\ op' = "read"
  /\ result' = <<>>
  /\ maxlen' = n
  /\ IF size = 0
     THEN size' = ReadInitial /\ buffer' = Resized(ReadInitial)
     ELSE UNCHANGED <<size, buffer>>
  /\ UNCHANGED <<peerVars, received, length, offset, connected, taken>>

\* maxlen is 0 and the buffer is not empty: the loop breaks with nothing.
ReadNothing ==
  /\ op = "read"
  /\ offset < length
  /\ maxlen = 0
  /\ op' = "idle"
  /\ UNCHANGED <<peerVars, received, dataVars, connected, maxlen, result, taken>>

\* The block gets what the buffer holds, up to maxlen; the rest moves to the
\* front.  The call returns when the block is full.
ReadTake ==
  /\ op = "read"
  /\ offset < length
  /\ maxlen > 0
  /\ LET n == IF Pending >= maxlen THEN maxlen ELSE Pending
     IN  /\ result' = result \o [k \in 1 .. n |-> buffer[offset + k - 1]]
         /\ taken' = taken + n
         /\ maxlen' = maxlen - n
         /\ buffer' = [i \in 0 .. size - 1 |->
                         IF i < Pending - n THEN buffer[offset + n + i]
                                            ELSE buffer[i]]
         /\ length' = Pending - n
         /\ offset' = 0
         /\ op' = IF Pending >= maxlen THEN "idle" ELSE "read"
  /\ UNCHANGED <<peerVars, received, size, connected>>

\* The buffer is empty: recv() is called, whatever maxlen is.
ReadRecv ==
  /\ op = "read"
  /\ offset >= length
  /\ \E l \in 1 .. size :
       /\ l \in 1 .. Len(sent) - received
       /\ buffer' = Received(buffer, 0, size, l)
       /\ received' = received + l
       /\ length' = l
  /\ offset' = 0
  /\ UNCHANGED <<peerVars, size, connected, op, maxlen, result, taken>>

ReadRecvFails ==
  /\ op = "read"
  /\ offset >= length
  /\ RecvFails
  /\ length' = 0
  /\ offset' = 0
  /\ connected' = FALSE
  /\ op' = "idle"
  /\ UNCHANGED <<peerVars, received, size, buffer, maxlen, result, taken>>

------------------------------------------------------------------------------
\* The worker closes the socket, accepts its next connection and calls clear().
NextConnection ==
  /\ op = "idle"
  /\ sent' = <<>>
  /\ peer' = "open"
  /\ received' = 0
  /\ size' = 0
  /\ buffer' = <<>>
  /\ length' = 0
  /\ offset' = 0
  /\ connected' = TRUE
  /\ maxlen' = 0
  /\ result' = <<>>
  /\ taken' = 0
  /\ UNCHANGED op

Peer == \/ \E b \in Byte : PeerSend(b)
        \/ \E how \in {"closed", "reset"} : PeerEnd(how)

Readline == LineFound \/ LineTooLong \/ LineRecv \/ LineRecvFails
Read == ReadNothing \/ ReadTake \/ ReadRecv \/ ReadRecvFails

Next ==
  \/ Peer
  \/ StartReadline
  \/ Readline
  \/ \E n \in ReadLengths : StartRead(n)
  \/ Read
  \/ NextConnection

Spec == Init /\ [][Next]_vars

\* A worker inside a call keeps running: its thread is scheduled, and recv()
\* returns after RECV_TIMEOUT_SEC at the latest.
FairSpec == Spec /\ WF_vars(Readline) /\ WF_vars(Read)

------------------------------------------------------------------------------
(* Properties                                                               *)

TypeOK ==
  /\ sent \in Seq(Byte)
  /\ peer \in {"open", "closed", "reset"}
  /\ received \in Nat /\ received <= Len(sent)
  /\ size \in Nat
  /\ buffer \in [0 .. size - 1 -> Byte]
  /\ length \in Nat /\ offset \in Nat
  /\ connected \in BOOLEAN
  /\ op \in {"idle", "readline", "read"}
  /\ maxlen \in Nat
  /\ result \in Seq(Byte)
  /\ taken \in Nat

\* Every index the two loops form lies inside the vector: the data never
\* starts behind its end, the end is never behind the vector, recv() always
\* has room (a length of 0 would be read as "connection closed"), and growth
\* stops at max_line_length.
InBounds ==
  /\ offset <= length
  /\ length <= size
  /\ size <= MaxLine
  /\ op # "idle" => size > 0
  /\ WantsMore => GrownSize > Pending

\* The bytes waiting in the buffer are exactly those received and not yet
\* given to the caller, in the order the peer sent them: no memmove(), growth
\* or partial block loses, repeats or reorders one.
StreamIntact ==
  /\ received = taken + (length - offset)
  /\ \A i \in offset .. length - 1 : buffer[i] = sent[taken + (i - offset) + 1]

\* What the caller sees is the peer's stream, cut into lines and blocks: this
\* buffer implements ByteStream.
Stream == INSTANCE ByteStream WITH need <- maxlen
ImplementsStream == Stream!Spec

\* A call ends: it returns a line or a block, or gives the connection up.
CallsEnd == op # "idle" ~> op = "idle"
===============================================================================
