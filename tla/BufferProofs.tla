----------------------------- MODULE BufferProofs -----------------------------
(***************************************************************************)
(* Proofs about the two buffers between a stream and its reader:           *)
(*                                                                         *)
(*  - SocketBuffer, for every size of the buffer, every limit and every    *)
(*    stream of bytes: the invariant Inv below is inductive, and with it   *)
(*    every step of the buffer is a step of ByteStream;                    *)
(*  - Streams, the buffer of a stream of libfcgi, for every content, size  *)
(*    of the buffer and sequence of calls.                                 *)
(***************************************************************************)
EXTENDS SocketBuffer, Streams, SequenceTheorems, TLAPS

Inv == TypeOK /\ InBounds /\ StreamIntact

\* A turn of recv() in readline() keeps the invariant whichever of the two
\* outcomes it has: what it hides is the array after compaction and growth.
LEMMA GrownBuffer ==
  ASSUME Inv, WantsMore
  PROVE  /\ GrownSize \in Nat
         /\ size <= GrownSize /\ GrownSize <= MaxLine /\ Pending < GrownSize
         /\ Pending \in Nat
         /\ Grown \in [0 .. GrownSize - 1 -> Byte]
         /\ \A i \in 0 .. Pending - 1 : Grown[i] = sent[taken + i + 1]
<1> USE SizeAssumption, ByteAssumption DEF Inv, TypeOK, InBounds, StreamIntact
<1>1. /\ GrownSize \in Nat /\ Pending \in Nat
      /\ size <= GrownSize /\ GrownSize <= MaxLine /\ Pending < GrownSize
  BY DEF GrownSize, Pending, WantsMore
<1>2. Pending <= size
  BY DEF Pending
<1>3. Compacted \in [0 .. size - 1 -> Byte]
  BY DEF Compacted, Pending
<1>4. Grown \in [0 .. GrownSize - 1 -> Byte]
  BY <1>1, <1>3 DEF Grown
<1>5. ASSUME NEW i \in 0 .. Pending - 1
      PROVE  Grown[i] = sent[taken + i + 1]
  <2>1. Grown[i] = buffer[offset + i]
    BY <1>1, <1>2 DEF Grown, Compacted
  <2>2. offset + i \in offset .. length - 1
    BY DEF Pending
  <2>3. buffer[offset + i] = sent[taken + ((offset + i) - offset) + 1]
    BY <2>2
  <2> QED
    BY <2>1, <2>3
<1> QED
  BY <1>1, <1>4, <1>5

------------------------------------------------------------------------------
(* The invariant.                                                            *)

LEMMA InitInv == Init => Inv
BY SizeAssumption DEF Init, Inv, TypeOK, InBounds, StreamIntact, WantsMore

\* Turns of readline().
LEMMA ReadlineInv == Inv /\ Readline => Inv'
<1> SUFFICES ASSUME Inv, Readline PROVE Inv'
  OBVIOUS
<1> USE SizeAssumption, ByteAssumption DEF Inv, TypeOK, InBounds, StreamIntact
<1>1. CASE LineFound
  <2>0. PICK nl \in offset .. length - 1 : \E right \in offset .. nl :
          /\ result' = [k \in 1 .. right - offset |-> buffer[offset + k - 1]]
          /\ offset' = nl + 1
          /\ taken' = taken + (nl + 1 - offset)
    BY <1>1 DEF LineFound
  <2>1. PICK right \in offset .. nl :
          /\ result' = [k \in 1 .. right - offset |-> buffer[offset + k - 1]]
          /\ offset' = nl + 1
          /\ taken' = taken + (nl + 1 - offset)
    BY <2>0
  <2>2. result' \in Seq(Byte)
    <3>1. \A k \in 1 .. right - offset : buffer[offset + k - 1] \in Byte
      OBVIOUS
    <3> QED
      BY <2>1, <3>1
  <2>3. TypeOK'
    BY <1>1, <2>1, <2>2 DEF LineFound, peerVars
  <2>4. InBounds'
    BY <1>1, <2>1 DEF LineFound, peerVars, WantsMore
  <2>5. StreamIntact'
    BY <1>1, <2>1 DEF LineFound, peerVars
  <2> QED
    BY <2>3, <2>4, <2>5
<1>2. CASE LineTooLong
  BY <1>2 DEF LineTooLong, peerVars, dataVars, WantsMore
<1>3. CASE LineRecv
  <2>1. PICK l \in 1 .. GrownSize - Pending :
          /\ l \in 1 .. Len(sent) - received
          /\ buffer' = Received(Grown, Pending, GrownSize, l)
          /\ received' = received + l
          /\ length' = Pending + l
    BY <1>3 DEF LineRecv
  <2>2. /\ size' = GrownSize /\ offset' = 0 /\ WantsMore
        /\ UNCHANGED <<sent, peer, connected, op, maxlen, result, taken>>
    BY <1>3 DEF LineRecv, peerVars
  <2>3. /\ GrownSize \in Nat
        /\ size <= GrownSize /\ GrownSize <= MaxLine /\ Pending < GrownSize
        /\ Pending \in Nat
        /\ Grown \in [0 .. GrownSize - 1 -> Byte]
        /\ \A i \in 0 .. Pending - 1 : Grown[i] = sent[taken + i + 1]
    BY <2>2, GrownBuffer
  <2>4. buffer' \in [0 .. size' - 1 -> Byte]
    <3>1. \A i \in Pending .. Pending + l - 1 :
            sent[received + (i - Pending) + 1] \in Byte
      BY <2>1, <2>3
    <3> QED
      BY <2>1, <2>2, <2>3, <3>1 DEF Received
  <2>5. TypeOK'
    <3>1. received' \in Nat /\ received' <= Len(sent') /\ length' \in Nat
      BY <2>1, <2>2, <2>3
    <3>2. UNCHANGED <<connected, op, maxlen, result, taken, sent, peer>>
      BY <2>2
    <3> QED
      BY <2>2, <2>3, <2>4, <3>1, <3>2
  <2>6. InBounds'
    BY <2>1, <2>2, <2>3 DEF WantsMore, GrownSize, Pending
  <2>7. StreamIntact'
    <3>1. received' = taken' + (length' - offset')
      BY <2>1, <2>2, <2>3 DEF Pending
    <3>2. ASSUME NEW i \in offset' .. length' - 1
          PROVE  buffer'[i] = sent'[taken' + (i - offset') + 1]
      <4>1. i \in 0 .. Pending + l - 1 /\ i \in 0 .. GrownSize - 1
        BY <2>1, <2>2, <2>3
      <4>2. CASE i < Pending
        BY <2>1, <2>2, <2>3, <4>1, <4>2 DEF Received
      <4>3. CASE i >= Pending
        <5>1. buffer'[i] = sent[received + (i - Pending) + 1]
          BY <2>1, <2>3, <4>1, <4>3 DEF Received
        <5>2. received + (i - Pending) + 1 = taken + i + 1
          BY <2>3, <4>1 DEF Pending
        <5> QED
          BY <2>2, <5>1, <5>2, <4>1
      <4> QED
        BY <4>1, <4>2, <4>3, <2>3
    <3> QED
      BY <3>1, <3>2
  <2> QED
    BY <2>5, <2>6, <2>7
<1>4. CASE LineRecvFails
  <2>1. /\ buffer' = Grown /\ size' = GrownSize /\ length' = Pending
        /\ offset' = 0 /\ connected' = FALSE /\ op' = "idle" /\ WantsMore
        /\ UNCHANGED <<sent, peer, received, maxlen, result, taken>>
    BY <1>4 DEF LineRecvFails, peerVars
  <2>2. /\ GrownSize \in Nat
        /\ size <= GrownSize /\ GrownSize <= MaxLine /\ Pending < GrownSize
        /\ Pending \in Nat
        /\ Grown \in [0 .. GrownSize - 1 -> Byte]
        /\ \A i \in 0 .. Pending - 1 : Grown[i] = sent[taken + i + 1]
    BY <2>1, GrownBuffer
  <2>3. TypeOK' /\ InBounds'
    BY <2>1, <2>2 DEF WantsMore
  <2>4. StreamIntact'
    BY <2>1, <2>2 DEF Pending
  <2> QED
    BY <2>3, <2>4
<1> QED
  BY <1>1, <1>2, <1>3, <1>4 DEF Readline

\* Turns of read().
LEMMA ReadInv == Inv /\ Read => Inv'
<1> SUFFICES ASSUME Inv, Read PROVE Inv'
  OBVIOUS
<1> USE SizeAssumption, ByteAssumption DEF Inv, TypeOK, InBounds, StreamIntact
<1>1. CASE ReadNothing
  BY <1>1 DEF ReadNothing, peerVars, dataVars, WantsMore
<1>2. CASE ReadTake
  <2> DEFINE n == IF Pending >= maxlen THEN maxlen ELSE Pending
             block == [k \in 1 .. n |-> buffer[offset + k - 1]]
  <2>1. /\ result' = result \o block
        /\ taken' = taken + n /\ maxlen' = maxlen - n
        /\ buffer' = [i \in 0 .. size - 1 |->
                        IF i < Pending - n THEN buffer[offset + n + i]
                                           ELSE buffer[i]]
        /\ length' = Pending - n /\ offset' = 0
        /\ op' = IF Pending >= maxlen THEN "idle" ELSE "read"
        /\ op = "read" /\ offset < length
        /\ UNCHANGED <<sent, peer, received, size, connected>>
    BY <1>2 DEF ReadTake, peerVars
  <2>2. n \in Nat /\ n <= Pending /\ n <= maxlen /\ Pending = length - offset
    BY <2>1 DEF Pending
  <2>3. result' \in Seq(Byte)
    <3>1. block \in Seq(Byte)
      BY <2>2
    <3> QED
      BY <2>1, <3>1, ConcatProperties
  <2>4. buffer' \in [0 .. size' - 1 -> Byte]
    BY <2>1, <2>2
  <2>5. TypeOK'
    BY <2>1, <2>2, <2>3, <2>4
  <2>6. InBounds'
    BY <2>1, <2>2 DEF WantsMore
  <2>7. StreamIntact'
    <3>1. received' = taken' + (length' - offset')
      BY <2>1, <2>2
    <3>2. ASSUME NEW i \in offset' .. length' - 1
          PROVE  buffer'[i] = sent'[taken' + (i - offset') + 1]
      <4>1. i \in 0 .. Pending - n - 1 /\ i \in 0 .. size - 1
        BY <2>1, <2>2
      <4>2. buffer'[i] = buffer[offset + n + i]
        BY <2>1, <2>2, <4>1
      <4>3. buffer[offset + n + i]
              = sent[taken + ((offset + n + i) - offset) + 1]
        BY <2>2, <4>1
      <4>4. taken + ((offset + n + i) - offset) + 1
              = taken' + (i - offset') + 1
        BY <2>1, <2>2, <4>1
      <4> QED
        BY <2>1, <4>2, <4>3, <4>4
    <3> QED
      BY <3>1, <3>2
  <2> QED
    BY <2>5, <2>6, <2>7
<1>3. CASE ReadRecv
  <2>1. PICK l \in 1 .. size :
          /\ l \in 1 .. Len(sent) - received
          /\ buffer' = Received(buffer, 0, size, l)
          /\ received' = received + l
          /\ length' = l
    BY <1>3 DEF ReadRecv
  <2>2. /\ offset' = 0 /\ offset = length /\ op = "read"
        /\ UNCHANGED <<sent, peer, size, connected, op, maxlen, result, taken>>
    BY <1>3 DEF ReadRecv, peerVars
  <2>3. buffer' \in [0 .. size' - 1 -> Byte]
    <3>1. \A i \in 0 .. l - 1 : sent[received + (i - 0) + 1] \in Byte
      BY <2>1
    <3> QED
      BY <2>1, <2>2, <3>1 DEF Received
  <2>4. TypeOK'
    BY <2>1, <2>2, <2>3
  <2>5. InBounds'
    BY <2>1, <2>2 DEF WantsMore
  <2>6. StreamIntact'
    BY <2>1, <2>2 DEF Received
  <2> QED
    BY <2>4, <2>5, <2>6
<1>4. CASE ReadRecvFails
  <2>1. /\ length' = 0 /\ offset' = 0 /\ offset = length
        /\ connected' = FALSE /\ op' = "idle"
        /\ UNCHANGED <<sent, peer, received, size, buffer, maxlen, result, taken>>
    BY <1>4 DEF ReadRecvFails, peerVars
  <2>2. TypeOK'
    BY <2>1
  <2>3. InBounds'
    BY <2>1 DEF WantsMore
  <2>4. StreamIntact'
    BY <2>1
  <2> QED
    BY <2>2, <2>3, <2>4
<1> QED
  BY <1>1, <1>2, <1>3, <1>4 DEF Read

LEMMA NextInv == Inv /\ [Next]_vars => Inv'
<1> SUFFICES ASSUME Inv, [Next]_vars PROVE Inv'
  OBVIOUS
<1> USE SizeAssumption, ByteAssumption DEF Inv, TypeOK, InBounds, StreamIntact
<1>1. ASSUME NEW b \in Byte, PeerSend(b) PROVE Inv'
  <2>1. /\ sent' = Append(sent, b)
        /\ UNCHANGED <<peer, received, size, buffer, length, offset, connected,
                       op, maxlen, result, taken>>
    BY <1>1 DEF PeerSend, dataVars
  <2>2. /\ sent' \in Seq(Byte) /\ Len(sent') = Len(sent) + 1
        /\ \A i \in 1 .. Len(sent) : sent'[i] = sent[i]
    BY <2>1, AppendProperties
  <2>3. TypeOK'
    BY <2>1, <2>2
  <2>4. InBounds'
    BY <2>1 DEF WantsMore, NoNewline, GrownSize, Pending
  <2>5. StreamIntact'
    BY <2>1, <2>2
  <2> QED
    BY <2>3, <2>4, <2>5
<1>2. ASSUME NEW how \in {"closed", "reset"}, PeerEnd(how) PROVE Inv'
  BY <1>2 DEF PeerEnd, dataVars, WantsMore, NoNewline, GrownSize, Pending
<1>3. CASE StartReadline
  <2>1. TypeOK'
    BY <1>3 DEF StartReadline, peerVars, Resized
  <2>2. StreamIntact'
    BY <1>3 DEF StartReadline, peerVars, Resized
  <2>3. InBounds'
    BY <1>3 DEF StartReadline, peerVars, WantsMore, GrownSize, Pending
  <2> QED
    BY <2>1, <2>2, <2>3
<1>4. ASSUME NEW n \in ReadLengths, StartRead(n) PROVE Inv'
  <2>1. TypeOK'
    BY <1>4 DEF StartRead, peerVars, Resized
  <2>2. StreamIntact'
    BY <1>4, SMTT(20) DEF StartRead, peerVars, Resized
  <2>3. InBounds'
    BY <1>4 DEF StartRead, peerVars, WantsMore
  <2> QED
    BY <2>1, <2>2, <2>3
<1>5. CASE Readline
  BY <1>5, ReadlineInv
<1>6. CASE Read
  BY <1>6, ReadInv
<1>7. CASE NextConnection
  BY <1>7 DEF NextConnection, WantsMore
<1>8. CASE UNCHANGED vars
  BY <1>8 DEF vars, WantsMore, NoNewline, GrownSize, Pending
<1> QED
  BY <1>1, <1>2, <1>3, <1>4, <1>5, <1>6, <1>7, <1>8 DEF Next, Peer

\* Types, bounds and the equation between sent, taken and buffered bytes hold in
\* every state (httpserver.cpp:119-212).
THEOREM Invariance == Spec => []Inv
<1>1. QED
  BY InitInv, NextInv, PTL DEF Spec

\* The vector, its indices and what the calls return keep their types
\* (httpserver.h:22-46).
THEOREM TypesHold == Spec => []TypeOK
<1>1. Inv => TypeOK
  BY DEF Inv
<1> QED
  BY <1>1, Invariance, PTL

\* No index leaves the vector, whatever the peer sends and however it is cut
\* into segments (httpserver.cpp:119-212).
THEOREM BoundsHold == Spec => []InBounds
<1>1. Inv => InBounds
  BY DEF Inv
<1> QED
  BY <1>1, Invariance, PTL

\* No byte is lost, repeated or reordered between recv() and the caller.
THEOREM StreamHolds == Spec => []StreamIntact
<1>1. Inv => StreamIntact
  BY DEF Inv
<1> QED
  BY <1>1, Invariance, PTL

------------------------------------------------------------------------------
(* The refinement.  A turn that only fills the buffer is a stutter of        *)
(* ByteStream; a turn that gives the caller something, or gives up, is the   *)
(* step of the same name there.                                              *)

LEMMA RefineInit == Init => Stream!Init
BY DEF Init, Stream!Init

\* The line cut out of the array is the next line of the stream.
LEMMA LineFoundTakesLine == Inv /\ LineFound => Stream!TakeLine
<1> SUFFICES ASSUME Inv, LineFound PROVE Stream!TakeLine
  OBVIOUS
<1> USE SizeAssumption, ByteAssumption DEF Inv, TypeOK, InBounds, StreamIntact
<1>1. PICK nl \in offset .. length - 1 : \E right \in offset .. nl :
        /\ buffer[nl] = NL
        /\ \A i \in offset .. nl - 1 : buffer[i] # NL
        /\ \A i \in right .. nl - 1 : buffer[i] \in Space
        /\ right > offset => buffer[right - 1] \notin Space
        /\ result' = [k \in 1 .. right - offset |-> buffer[offset + k - 1]]
        /\ taken' = taken + (nl + 1 - offset)
  BY DEF LineFound
<1>2. PICK right \in offset .. nl :
        /\ buffer[nl] = NL
        /\ \A i \in offset .. nl - 1 : buffer[i] # NL
        /\ \A i \in right .. nl - 1 : buffer[i] \in Space
        /\ right > offset => buffer[right - 1] \notin Space
        /\ result' = [k \in 1 .. right - offset |-> buffer[offset + k - 1]]
        /\ taken' = taken + (nl + 1 - offset)
  BY <1>1
<1> DEFINE snl == taken + (nl - offset) + 1
           last == taken + (right - offset)
<1>3. /\ snl \in taken + 1 .. Len(sent) /\ last \in taken .. snl - 1
      /\ taken' = snl
  BY <1>2
\* Position j of the stream is element offset + (j - taken - 1) of the array.
<1>4. ASSUME NEW j \in taken + 1 .. snl
      PROVE  /\ offset + (j - taken - 1) \in offset .. nl
             /\ sent[j] = buffer[offset + (j - taken - 1)]
  <2>1. offset + (j - taken - 1) \in offset .. length - 1
    BY <1>3, <1>4
  <2>2. taken + ((offset + (j - taken - 1)) - offset) + 1 = j
    BY <1>3, <1>4
  <2> QED
    BY <1>3, <1>4, <2>1, <2>2
<1>5. Stream!NextNewline(snl)
  <2>1. sent[snl] = NL
    BY <1>2, <1>3, <1>4
  <2>2. ASSUME NEW i \in taken + 1 .. snl - 1 PROVE sent[i] # NL
    <3>1. offset + (i - taken - 1) \in offset .. nl - 1
      BY <1>3
    <3> QED
      BY <1>2, <1>3, <1>4, <3>1
  <2> QED
    BY <1>3, <2>1, <2>2 DEF Stream!NextNewline
<1>6. Stream!Trimmed(snl, last)
  <2>1. ASSUME NEW i \in last + 1 .. snl - 1 PROVE sent[i] \in Space
    <3>1. offset + (i - taken - 1) \in right .. nl - 1
      BY <1>3
    <3> QED
      BY <1>2, <1>3, <1>4, <3>1
  <2>2. ASSUME last > taken PROVE sent[last] \notin Space
    <3>1. right > offset /\ offset + (last - taken - 1) = right - 1
      BY <1>3, <2>2
    <3>2. sent[last] = buffer[right - 1]
      BY <1>3, <1>4, <2>2, <3>1
    <3> QED
      BY <1>2, <3>1, <3>2
  <2> QED
    BY <1>3, <2>1, <2>2 DEF Stream!Trimmed
<1>7. result' = [k \in 1 .. last - taken |-> sent[taken + k]]
  <2>1. last - taken = right - offset
    BY <1>2
  <2>2. ASSUME NEW k \in 1 .. right - offset
        PROVE  buffer[offset + k - 1] = sent[taken + k]
    <3>1. taken + k \in taken + 1 .. snl /\ offset + ((taken + k) - taken - 1) = offset + k - 1
      BY <1>3
    <3> QED
      BY <1>4, <3>1
  <2> QED
    BY <1>2, <2>1, <2>2
<1>8. op = "readline" /\ op' = "idle" /\ UNCHANGED <<sent, peer, maxlen, connected>>
  BY DEF LineFound, peerVars
<1> HIDE DEF snl, last
<1> QED
  BY <1>3, <1>5, <1>6, <1>7, <1>8 DEF Stream!TakeLine

\* A readline that gives up has seen no newline in what it is owed: all the
\* peer sent, or max_line_length bytes of it.
LEMMA ReadlineGivesUp == Inv /\ (LineTooLong \/ LineRecvFails) => Stream!GiveUp
<1> SUFFICES ASSUME Inv, LineTooLong \/ LineRecvFails PROVE Stream!GiveUp
  OBVIOUS
<1> USE SizeAssumption, ByteAssumption DEF Inv, TypeOK, InBounds, StreamIntact
<1>1. /\ op = "readline" /\ op' = "idle" /\ connected' = FALSE /\ NoNewline
      /\ UNCHANGED <<sent, peer, taken, maxlen, result>>
  BY DEF LineTooLong, LineRecvFails, WantsMore, peerVars, dataVars
<1>2. ASSUME NEW i \in taken + 1 .. received PROVE sent[i] # NL
  <2>1. offset + (i - taken - 1) \in offset .. length - 1
    OBVIOUS
  <2>2. taken + ((offset + (i - taken - 1)) - offset) + 1 = i
    OBVIOUS
  <2>3. buffer[offset + (i - taken - 1)] = sent[i]
    BY <2>1, <2>2
  <2> QED
    BY <1>1, <2>1, <2>3 DEF NoNewline
<1>3. CASE LineTooLong
  <2>1. length - offset >= MaxLine
    BY <1>3 DEF LineTooLong
  <2>2. Stream!Overlong
    BY <1>1, <1>2, <2>1 DEF Stream!Overlong
  <2> QED
    BY <1>1, <2>2 DEF Stream!GiveUp
<1>4. CASE LineRecvFails
  <2>1. peer = "reset" \/ received = Len(sent)
    BY <1>4 DEF LineRecvFails, RecvFails
  <2>2. received = Len(sent) => Stream!Starved
    BY <1>1, <1>2 DEF Stream!Starved
  <2> QED
    BY <1>1, <2>1, <2>2 DEF Stream!GiveUp
<1> QED
  BY <1>3, <1>4

\* What read() copies into the block is the next bytes of the stream.
LEMMA ReadTakesBytes == Inv /\ (ReadNothing \/ ReadTake) => Stream!TakeBytes
<1> SUFFICES ASSUME Inv, ReadNothing \/ ReadTake PROVE Stream!TakeBytes
  OBVIOUS
<1> USE SizeAssumption, ByteAssumption DEF Inv, TypeOK, InBounds, StreamIntact
<1>1. CASE ReadNothing
  <2>1. /\ op = "read" /\ op' = "idle" /\ maxlen = 0
        /\ UNCHANGED <<sent, peer, taken, connected, result, maxlen>>
    BY <1>1 DEF ReadNothing, peerVars, dataVars
  <2>2. result' = result \o [j \in 1 .. 0 |-> sent[taken + j]]
    <3>1. [j \in 1 .. 0 |-> sent[taken + j]] = <<>>
      OBVIOUS
    <3> QED
      BY <2>1, <3>1, ConcatEmptySeq
  <2>3. /\ 0 \in 0 .. maxlen /\ 0 \in 0 .. Len(sent) - taken
        /\ taken' = taken + 0 /\ maxlen' = maxlen - 0
        /\ op' = IF 0 = maxlen THEN "idle" ELSE "read"
    BY <2>1
  <2> QED
    BY <2>1, <2>2, <2>3 DEF Stream!TakeBytes
<1>2. CASE ReadTake
  <2> DEFINE n == IF Pending >= maxlen THEN maxlen ELSE Pending
  <2>1. /\ result' = result \o [k \in 1 .. n |-> buffer[offset + k - 1]]
        /\ taken' = taken + n /\ maxlen' = maxlen - n
        /\ op' = IF Pending >= maxlen THEN "idle" ELSE "read"
        /\ op = "read" /\ offset < length /\ maxlen > 0
        /\ UNCHANGED <<sent, peer, connected>>
    BY <1>2 DEF ReadTake, peerVars
  <2>2. /\ n \in 0 .. maxlen /\ n \in 0 .. Len(sent) - taken
        /\ n <= length - offset
        /\ op' = IF n = maxlen THEN "idle" ELSE "read"
        /\ n \in Nat
    BY <2>1 DEF Pending
  <2>3. ASSUME NEW k \in 1 .. n
        PROVE  buffer[offset + k - 1] = sent[taken + k]
    <3> HIDE DEF n
    <3>0. k \in Nat /\ k >= 1 /\ k <= length - offset
      BY <2>2
    <3>1. offset + k - 1 \in offset .. length - 1
      BY <3>0
    <3>2. taken + ((offset + k - 1) - offset) + 1 = taken + k
      BY <3>0
    <3> QED
      BY <3>1, <3>2
  <2>4. result' = result \o [k \in 1 .. n |-> sent[taken + k]]
    BY <2>1, <2>3
  <2> HIDE DEF n
  <2> QED
    BY <2>1, <2>2, <2>4 DEF Stream!TakeBytes
<1> QED
  BY <1>1, <1>2

LEMMA ReadGivesUp == Inv /\ ReadRecvFails => Stream!GiveUp
<1> SUFFICES ASSUME Inv, ReadRecvFails PROVE Stream!GiveUp
  OBVIOUS
<1> USE SizeAssumption DEF Inv, TypeOK, InBounds, StreamIntact
<1>1. /\ op = "read" /\ op' = "idle" /\ connected' = FALSE /\ offset >= length
      /\ peer = "reset" \/ received = Len(sent)
      /\ UNCHANGED <<sent, peer, taken, maxlen, result>>
  BY DEF ReadRecvFails, RecvFails, peerVars
<1>2. received = Len(sent) => Stream!Starved
  BY <1>1 DEF Stream!Starved
<1> QED
  BY <1>1, <1>2 DEF Stream!GiveUp

LEMMA RefineNext == Inv /\ [Next]_vars => [Stream!Next]_(Stream!vars)
<1> SUFFICES ASSUME Inv, [Next]_vars PROVE [Stream!Next]_(Stream!vars)
  OBVIOUS
<1>1. ASSUME NEW b \in Byte, PeerSend(b) PROVE Stream!Next
  BY <1>1 DEF PeerSend, Stream!PeerSend, Stream!Next
<1>2. ASSUME NEW how \in {"closed", "reset"}, PeerEnd(how) PROVE Stream!Next
  BY <1>2 DEF PeerEnd, Stream!PeerEnd, Stream!Next
<1>3. CASE StartReadline
  BY <1>3 DEF StartReadline, peerVars, Stream!Begin, Stream!Next
<1>4. ASSUME NEW n \in ReadLengths, StartRead(n) PROVE Stream!Next
  BY <1>4, SizeAssumption DEF StartRead, peerVars, Stream!Begin, Stream!Next
<1>5. CASE Readline
  <2>1. CASE LineFound
    BY <2>1, LineFoundTakesLine DEF Stream!Next
  <2>2. CASE LineTooLong \/ LineRecvFails
    BY <2>2, ReadlineGivesUp DEF Stream!Next
  <2>3. CASE LineRecv
    BY <2>3 DEF LineRecv, peerVars, Stream!vars
  <2> QED
    BY <1>5, <2>1, <2>2, <2>3 DEF Readline
<1>6. CASE Read
  <2>1. CASE ReadNothing \/ ReadTake
    BY <2>1, ReadTakesBytes DEF Stream!Next
  <2>2. CASE ReadRecv
    BY <2>2 DEF ReadRecv, peerVars, Stream!vars
  <2>3. CASE ReadRecvFails
    BY <2>3, ReadGivesUp DEF Stream!Next
  <2> QED
    BY <1>6, <2>1, <2>2, <2>3 DEF Read
<1>7. CASE NextConnection
  BY <1>7 DEF NextConnection, Stream!NextConnection, Stream!Next
<1>8. CASE UNCHANGED vars
  BY <1>8 DEF vars, Stream!vars
<1> QED
  BY <1>1, <1>2, <1>3, <1>4, <1>5, <1>6, <1>7, <1>8 DEF Next, Peer

\* The caller of readline() and read() sees the peer's bytes cut into lines and
\* blocks, and loses its connection only when it is starved, the line is longer
\* than max_line_length, or the peer reset the connection.
THEOREM Refinement == Spec => ImplementsStream
<1>1. QED
  BY Invariance, RefineInit, RefineNext, PTL
     DEF Spec, ImplementsStream, Stream!Spec

------------------------------------------------------------------------------
(* Streams: the invariant.                                                  *)

\* Characters of a text, and the numbers that stand for those of a writer.
Chars == STRING \cup Int
Chains == Seq(Chars)

Reads == {"char", "str", "line"}

StreamTypes ==
  /\ side \in {"reader", "writer"}
  /\ unread \in Chains /\ memory \in Chains /\ ideal \in Chains
  /\ wire \in Chains /\ rd \in 0 .. Len(memory)
  /\ isClosed \in BOOLEAN /\ pushable \in BOOLEAN /\ broken \in BOOLEAN
  /\ call \in [kind : {"none", "put"} \cup Reads, n : Nat, size : Nat \ {0},
               moved : Chains]
  /\ call.kind = "none" => call = NoCall
  /\ answer.got \in Chains /\ answer.n \in Nat

\* What a call has moved, the buffer and the content are what should be found;
\* whoever has read can push back, but for the moment between Fill and Move.
ReaderInv ==
  /\ call.kind # "put"
  /\ ideal = call.moved \o (SubSeq(memory, rd + 1, Len(memory)) \o unread)
  /\ Len(call.moved) <= call.n
  /\ call.kind = "line" =>
       \A i \in 1 .. Len(call.moved) - 1 : call.moved[i] # Newline
  /\ pushable =>
       rd > 0 \/ (call.kind \in Reads /\ ~Satisfied /\ Available > 0)

\* The characters that calls claim to have written are numbered without a gap,
\* and until something fails they are sent or in the buffer.
WriterInv ==
  /\ call.kind \in {"none", "put"} /\ ~pushable /\ rd = 0
  /\ Len(call.moved) <= call.n
  /\ \A i \in 1 .. Len(unread) : unread[i] = i
  /\ \A i \in 1 .. Len(call.moved) : call.moved[i] = Len(unread) + i
  /\ \A i \in 1 .. Len(wire) : wire[i] = i
  /\ ~broken => wire \o memory = unread \o call.moved
  /\ isClosed => broken
  /\ answer.kind = "put" /\ answer.items < answer.n => broken

\* What the last call returned.
Answered ==
  /\ answer.got = answer.expected /\ Len(answer.got) <= answer.n
  /\ answer.kind \in {"char", "str"} /\ Len(answer.got) < answer.n => isClosed
  /\ answer.kind = "line" =>
       /\ \A i \in 1 .. Len(answer.got) - 1 : answer.got[i] # Newline
       /\ \/ Len(answer.got) = answer.n \/ isClosed
          \/ answer.got # <<>> /\ Last(answer.got) = Newline

StreamInv ==
  /\ StreamTypes /\ Answered
  /\ side = "reader" => ReaderInv
  /\ side = "writer" => WriterInv

------------------------------------------------------------------------------
(* Pieces of a sequence.                                                    *)

LEMMA Slice ==
  ASSUME NEW s \in Chains, NEW m \in 1 .. Len(s) + 1, NEW n \in m - 1 .. Len(s)
  PROVE  /\ SubSeq(s, m, n) \in Chains /\ Len(SubSeq(s, m, n)) = n - m + 1
         /\ \A i \in 1 .. n - m + 1 : SubSeq(s, m, n)[i] = s[m + i - 1]
<1>1. Len(s) \in Nat /\ \A i \in m .. n : s[i] \in Chars
  BY DEF Chains
<1>2. m \in Int /\ n \in Int
  BY <1>1
<1>3. /\ SubSeq(s, m, n) \in Seq(Chars)
      /\ Len(SubSeq(s, m, n)) = IF m <= n THEN n - m + 1 ELSE 0
      /\ \A i \in 1 .. n - m + 1 : SubSeq(s, m, n)[i] = s[m + i - 1]
  BY <1>1, <1>2, SubSeqProperties
<1> QED BY <1>1, <1>3 DEF Chains

LEMMA Chain ==
  ASSUME NEW x \in Chains, NEW y \in Chains
  PROVE  /\ x \o y \in Chains /\ Len(x \o y) = Len(x) + Len(y)
         /\ Len(x) \in Nat /\ Len(y) \in Nat
         /\ \A i \in 1 .. Len(x) : (x \o y)[i] = x[i]
         /\ \A i \in 1 .. Len(y) : (x \o y)[Len(x) + i] = y[i]
<1>1. /\ x \o y \in Seq(Chars) /\ Len(x \o y) = Len(x) + Len(y)
      /\ Len(x) \in Nat /\ Len(y) \in Nat
      /\ \A i \in 1 .. Len(x) + Len(y) :
           (x \o y)[i] = IF i <= Len(x) THEN x[i] ELSE y[i - Len(x)]
  BY ConcatProperties DEF Chains
<1>2. ASSUME NEW i \in 1 .. Len(x) PROVE (x \o y)[i] = x[i]
  <2>1. i \in 1 .. Len(x) + Len(y) /\ i <= Len(x)
    BY <1>1
  <2> QED BY <1>1, <2>1
<1>3. ASSUME NEW i \in 1 .. Len(y) PROVE (x \o y)[Len(x) + i] = y[i]
  <2> DEFINE j == Len(x) + i
  <2>1. j \in 1 .. Len(x) + Len(y) /\ ~(j <= Len(x)) /\ j - Len(x) = i
    BY <1>1
  <2> HIDE DEF j
  <2>2. (x \o y)[j] = y[i]
    BY <1>1, <2>1
  <2> QED BY <2>2 DEF j
<1> QED BY <1>1, <1>2, <1>3 DEF Chains

LEMMA Regrouped ==
  ASSUME NEW x \in Chains, NEW y \in Chains, NEW z \in Chains
  PROVE  (x \o y) \o z = x \o (y \o z)
BY ConcatAssociative DEF Chains

LEMMA NothingYet ==
  /\ <<>> \in Chains /\ Len(<<>>) = 0
  /\ \A x \in Chains : <<>> \o x = x /\ x \o <<>> = x
  /\ \A f, i \in 1 .. Len(<<>>) - 1 : f[i] # Newline
BY ConcatEmptySeq DEF Chains

\* A sequence is cut into two.
LEMMA Cut ==
  ASSUME NEW s \in Chains, NEW r \in 0 .. Len(s), NEW k \in 0 .. Len(s) - r
  PROVE  SubSeq(s, r + 1, r + k) \o SubSeq(s, r + k + 1, Len(s))
           = SubSeq(s, r + 1, Len(s))
<1> DEFINE m == r + 1
           l == r + k
<1>1. /\ s \in Seq(Chars) /\ Len(s) \in Nat /\ m \in 1 .. Len(s) + 1
      /\ l \in m - 1 .. Len(s) /\ Len(s) \in l .. Len(s)
  BY DEF Chains
<1> HIDE DEF m, l
<1>2. SubSeq(s, m, l) \o SubSeq(s, l + 1, Len(s)) = SubSeq(s, m, Len(s))
  BY <1>1, ConcatAdjacentSubSeq
<1> QED BY <1>2 DEF m, l

\* What was put in front, and what is behind it.
LEMMA Ends ==
  ASSUME NEW x \in Chains, NEW y \in Chains
  PROVE  /\ SubSeq(x \o y, 1, Len(x)) = x
         /\ SubSeq(x \o y, Len(x) + 1, Len(x \o y)) = y
<1> DEFINE s == x \o y
           n == Len(x)
<1>1. /\ s \in Chains /\ Len(s) = n + Len(y) /\ n \in Nat /\ Len(y) \in Nat
      /\ \A i \in 1 .. n : s[i] = x[i]
      /\ \A i \in 1 .. Len(y) : s[n + i] = y[i]
  BY Chain
<1> HIDE DEF s
<1>2. SubSeq(s, 1, n) = x
  <2> DEFINE t == SubSeq(s, 1, n)
  <2>1. t \in Chains /\ Len(t) = n /\ \A i \in 1 .. n : t[i] = x[i]
    <3>1. 1 \in 1 .. Len(s) + 1 /\ n \in 1 - 1 .. Len(s)
      BY <1>1
    <3>2. t \in Chains /\ Len(t) = n - 1 + 1
          /\ \A i \in 1 .. n - 1 + 1 : t[i] = s[1 + i - 1]
      BY <1>1, <3>1, Slice
    <3> HIDE DEF t
    <3> QED BY <1>1, <3>2
  <2> HIDE DEF t
  <2>2. t = x
    BY <2>1, SeqEqual DEF Chains
  <2> QED BY <2>2 DEF t
<1>3. SubSeq(s, n + 1, Len(s)) = y
  <2> DEFINE m == n + 1
             t == SubSeq(s, m, Len(s))
  <2>1. t \in Chains /\ Len(t) = Len(y) /\ \A i \in 1 .. Len(y) : t[i] = y[i]
    <3>1. m \in 1 .. Len(s) + 1 /\ Len(s) \in m - 1 .. Len(s)
      BY <1>1
    <3>2. t \in Chains /\ Len(t) = Len(s) - m + 1
          /\ \A i \in 1 .. Len(s) - m + 1 : t[i] = s[m + i - 1]
      <4> HIDE DEF m
      <4> QED BY <1>1, <3>1, Slice
    <3>3. Len(s) - m + 1 = Len(y) /\ \A i \in 1 .. Len(y) : m + i - 1 = n + i
      BY <1>1
    <3> HIDE DEF t
    <3> QED BY <1>1, <3>2, <3>3
  <2> HIDE DEF t
  <2>2. t = y
    BY <2>1, SeqEqual DEF Chains
  <2> QED BY <2>2 DEF t
<1> QED BY <1>2, <1>3 DEF s

\* A character in front of the rest is replaced, and belongs to the rest then.
LEMMA PutBack ==
  ASSUME NEW s \in Chains, NEW r \in 1 .. Len(s), NEW c \in Chars
  PROVE  LET t == [s EXCEPT ![r] = c]
         IN  /\ t \in Chains /\ Len(t) = Len(s) /\ <<c>> \in Chains
             /\ SubSeq(t, r, Len(t)) = <<c>> \o SubSeq(s, r + 1, Len(s))
<1> DEFINE t == [s EXCEPT ![r] = c]
           n == Len(s)
           m == r + 1
           a == SubSeq(t, m, n)
           b == SubSeq(s, m, n)
<1>1. /\ t \in Seq(Chars) /\ Len(t) = n
      /\ \A j \in 1 .. n : t[j] = IF j = r THEN c ELSE s[j]
  BY ExceptSeq DEF Chains
<1> HIDE DEF t
<1>2. /\ n \in Nat /\ r \in 1 .. Len(t) /\ n \in r .. Len(t)
      /\ m \in 1 .. n + 1 /\ n \in m - 1 .. n
  BY <1>1 DEF Chains
<1>3. SubSeq(t, r, n) = <<t[r]>> \o a
  BY <1>1, <1>2, SubSeqRecursiveFirst
<1> HIDE DEF m
<1>4. /\ a \in Chains /\ Len(a) = n - m + 1
      /\ \A i \in 1 .. n - m + 1 : a[i] = t[m + i - 1]
  BY <1>1, <1>2, Slice DEF Chains
<1>5. /\ b \in Chains /\ Len(b) = n - m + 1
      /\ \A i \in 1 .. n - m + 1 : b[i] = s[m + i - 1]
  BY <1>2, Slice
<1>6. \A i \in 1 .. n - m + 1 : m + i - 1 \in 1 .. n /\ m + i - 1 # r
  BY <1>2 DEF m
<1> HIDE DEF a, b
<1>7. a = b
  <2>1. \A i \in 1 .. Len(a) : a[i] = b[i]
    BY <1>1, <1>4, <1>5, <1>6
  <2> QED BY <1>4, <1>5, <2>1, SeqEqual DEF Chains
<1>8. <<c>> \in Chains
  BY DEF Chains
<1>9. t[r] = c
  BY <1>1, <1>2
<1> QED BY <1>1, <1>3, <1>7, <1>8, <1>9 DEF Chains, t, a, b, m

------------------------------------------------------------------------------
(* Every step of a stream keeps the invariant.                              *)

LEMMA StreamInvInit == StreamInit => StreamInv
<1> SUFFICES ASSUME StreamInit PROVE StreamInv
  OBVIOUS
<1>1. /\ <<>> \in Chains /\ Len(<<>>) = 0 /\ SubSeq(<<>>, 1, 0) = <<>>
  BY SubSeqEmpty DEF Chains
<1>2. unread \in Chains
  <2>1. side = "reader" => unread \in Seq(STRING)
    BY StreamAssumption DEF StreamInit
  <2>2. unread \in Seq(STRING) => unread \in Chains
    BY SeqMonotonic DEF Chains, Chars
  <2> QED BY <1>1, <2>1, <2>2 DEF StreamInit
<1>3. StreamTypes /\ Answered
  <2>1. call = NoCall /\ answer = NoAnswer
    BY DEF StreamInit
  <2>2. /\ NoCall \in [kind : {"none", "put"} \cup Reads, n : Nat,
                       size : Nat \ {0}, moved : Chains]
        /\ NoAnswer.got \in Chains /\ NoAnswer.n \in Nat
    BY <1>1 DEF NoCall, NoAnswer
  <2>3. Answered
    BY <1>1, <2>1 DEF Answered, NoAnswer
  <2>4. /\ memory = <<>> /\ Len(memory) = 0 /\ rd = 0 /\ wire = <<>> /\ ideal = unread
        /\ isClosed = FALSE /\ pushable = FALSE /\ broken = FALSE
        /\ side \in {"reader", "writer"}
    BY <1>1 DEF StreamInit
  <2>5. rd \in 0 .. Len(memory)
    BY <2>4
  <2>6. call \in [kind : {"none", "put"} \cup Reads, n : Nat, size : Nat \ {0},
                 moved : Chains]
        /\ answer.got \in Chains /\ answer.n \in Nat
    BY <2>1, <2>2, Zenon
  <2>7. StreamTypes
    <3>1. isClosed \in BOOLEAN /\ pushable \in BOOLEAN /\ broken \in BOOLEAN
      BY <2>4
    <3> QED BY <1>1, <1>2, <2>1, <2>4, <2>5, <2>6, <3>1, Zenon DEF StreamTypes
  <2> QED BY <2>3, <2>7
<1>4. side = "reader" => ReaderInv
  <2>1. <<>> \o (<<>> \o unread) = unread
    BY <1>2, ConcatEmptySeq DEF Chains
  <2>2. SubSeq(memory, rd + 1, Len(memory)) = <<>>
    BY <1>1 DEF StreamInit
  <2>3. call = NoCall /\ ideal = unread /\ pushable = FALSE
    BY DEF StreamInit
  <2>4. call.moved = <<>> /\ call.kind = "none" /\ call.n = 0 /\ Len(call.moved) = 0
    BY <1>1, <2>3 DEF NoCall
  <2>5. ideal = call.moved \o (SubSeq(memory, rd + 1, Len(memory)) \o unread)
    BY <2>1, <2>2, <2>3, <2>4, Zenon
  <2>6. Len(call.moved) <= call.n
    BY <2>4
  <2> QED BY <2>3, <2>4, <2>5, <2>6 DEF ReaderInv
<1>5. side = "writer" => WriterInv
  BY <1>1 DEF StreamInit, WriterInv, NoCall, NoAnswer
<1> QED BY <1>3, <1>4, <1>5 DEF StreamInv

LEMMA CallReadKeeps == StreamInv /\ CallRead => StreamInv'
<1> SUFFICES ASSUME StreamInv, CallRead PROVE StreamInv'
  OBVIOUS
<1>1. /\ side = "reader" /\ call = NoCall /\ answer' = NoAnswer
      /\ UNCHANGED <<side, unread, memory, rd, isClosed, ideal, pushable, wire,
                     broken>>
  BY DEF CallRead, Call
<1>2. PICK kind \in Reads, n \in Nat, unit \in Nat \ {0} :
        call' = [kind |-> kind, n |-> n, size |-> unit, moved |-> <<>>]
  <2>1. CASE Call("char", 1, 1)
    BY <2>1 DEF Call, Reads
  <2>2. CASE \E n \in 1..MaxCount, unit \in {1, 2} : Call("str", n * unit, unit)
    <3>1. PICK n \in 1..MaxCount, unit \in {1, 2} : Call("str", n * unit, unit)
      BY <2>2
    <3>2. n * unit \in Nat /\ unit \in Nat \ {0}
      BY StreamAssumption
    <3> QED BY <3>1, <3>2 DEF Call, Reads
  <2>3. CASE \E n \in 1..MaxCount : Call("line", n - 1, 1)
    <3>1. PICK n \in 1..MaxCount : Call("line", n - 1, 1)
      BY <2>3
    <3>2. n - 1 \in Nat
      BY StreamAssumption
    <3> QED BY <3>1, <3>2 DEF Call, Reads
  <2> QED BY <2>1, <2>2, <2>3 DEF CallRead
<1>3. <<>> \in Chains /\ Len(<<>>) = 0
  BY DEF Chains
<1>4. StreamTypes' /\ Answered'
  BY <1>1, <1>2, <1>3 DEF StreamInv, StreamTypes, Answered, NoAnswer, Reads
<1>5. ReaderInv'
  <2>1. /\ ideal = <<>> \o (SubSeq(memory, rd + 1, Len(memory)) \o unread)
        /\ pushable => rd > 0
    BY <1>1 DEF StreamInv, ReaderInv, NoCall, Reads
  <2>2. call'.moved = <<>> /\ call'.n \in Nat /\ call'.kind # "put"
    BY <1>2 DEF Reads
  <2> QED BY <1>1, <1>3, <2>1, <2>2 DEF ReaderInv
<1> QED BY <1>1, <1>4, <1>5 DEF StreamInv

LEMMA MoveKeeps == StreamInv /\ Move => StreamInv'
<1> SUFFICES ASSUME StreamInv, Move PROVE StreamInv'
  OBVIOUS
<1> DEFINE n == Len(call.moved)
           m == Len(memory)
           a == SubSeq(memory, rd + 1, rd + Part)
           b == SubSeq(memory, rd + Part + 1, m)
<1>1. /\ call.kind \in Reads /\ ~Satisfied /\ Available > 0 /\ pushable' = TRUE
      /\ call' = [call EXCEPT !.moved = call.moved \o a] /\ rd' = rd + Part
      /\ UNCHANGED <<side, unread, memory, isClosed, answer, ideal, wire, broken>>
  BY DEF Move, Reads
<1>2. /\ call.moved \in Chains /\ n \in Nat /\ call.n \in Nat /\ n < call.n
      /\ memory \in Chains /\ m \in Nat /\ rd \in 0 .. m /\ unread \in Chains
      /\ side \in {"reader", "writer"}
  BY <1>1 DEF StreamInv, StreamTypes, Chains, Satisfied, Wanted
<1>3. side = "reader" /\ ReaderInv
  BY <1>1, <1>2 DEF StreamInv, WriterInv, Reads
<1>4. /\ Part \in 1 .. m - rd /\ Part <= call.n - n
      /\ call.kind = "line" => Part = 1
  BY <1>1, <1>2 DEF Part, Least, Available, Wanted
<1>5. a \in Chains /\ Len(a) = Part /\ b \in Chains
  <2>1. /\ rd + 1 \in 1 .. m + 1 /\ rd + Part \in (rd + 1) - 1 .. m
        /\ (rd + Part) - (rd + 1) + 1 = Part
    BY <1>2, <1>4
  <2>2. a \in Chains /\ Len(a) = Part
    BY <1>2, <2>1, Slice
  <2>3. rd + Part + 1 \in 1 .. m + 1 /\ m \in (rd + Part + 1) - 1 .. m
    BY <1>2, <1>4
  <2>4. b \in Chains
    BY <1>2, <2>3, Slice
  <2> QED BY <2>2, <2>4
<1>6. a \o b = SubSeq(memory, rd + 1, m)
  BY <1>2, <1>4, Cut
<1> HIDE DEF a
<1>7. /\ call.moved \o a \in Chains /\ Len(call.moved \o a) = n + Part
      /\ \A i \in 1 .. n : (call.moved \o a)[i] = call.moved[i]
  BY <1>2, <1>5, Chain
<1>8. /\ call'.moved = call.moved \o a /\ call'.kind = call.kind
      /\ call'.n = call.n /\ call'.size = call.size
      /\ call' \in [kind : {"none", "put"} \cup Reads, n : Nat, size : Nat \ {0},
                    moved : Chains]
  BY <1>1, <1>7 DEF StreamInv, StreamTypes
<1>9. ideal = (call.moved \o a) \o (b \o unread)
  <2>1. ideal = call.moved \o ((a \o b) \o unread)
    BY <1>3, <1>6 DEF ReaderInv
  <2> HIDE DEF b
  <2>2. (a \o b) \o unread = a \o (b \o unread)
    BY <1>2, <1>5, Regrouped
  <2>3. b \o unread \in Chains
    BY <1>2, <1>5, Chain
  <2>4. call.moved \o (a \o (b \o unread)) = (call.moved \o a) \o (b \o unread)
    BY <1>2, <1>5, <2>3, Regrouped
  <2> QED BY <2>1, <2>2, <2>4
<1>10. ASSUME call.kind = "line", NEW i \in 1 .. n PROVE call.moved[i] # Newline
  <2>1. CASE i < n
    BY <1>2, <1>3, <1>10, <2>1 DEF ReaderInv
  <2>2. CASE i = n
    <3>1. call.moved # <<>>
      BY <1>2, <2>2, <1>10
    <3>2. Last(call.moved) # Newline
      BY <1>1, <1>10, <3>1 DEF Satisfied
    <3> QED BY <2>2, <3>2 DEF Last
  <2> QED BY <1>2, <2>1, <2>2
<1>11. StreamTypes'
  <2>1. rd' \in 0 .. Len(memory')
    BY <1>1, <1>2, <1>4
  <2>2. call'.kind # "none"
    BY <1>1, <1>8 DEF Reads
  <2> QED BY <1>1, <1>8, <2>1, <2>2 DEF StreamInv, StreamTypes
<1>12. Answered'
  BY <1>1 DEF StreamInv, Answered
<1>13. ReaderInv'
  <2>1. SubSeq(memory', rd' + 1, Len(memory')) = b
    BY <1>1
  <2> HIDE DEF b
  <2>2. ideal' = call'.moved \o (SubSeq(memory', rd' + 1, Len(memory')) \o unread')
    BY <1>1, <1>8, <1>9, <2>1
  <2>3. Len(call'.moved) = n + Part /\ Len(call'.moved) <= call'.n
    BY <1>2, <1>4, <1>7, <1>8
  <2>4. call'.kind = "line" =>
          \A i \in 1 .. Len(call'.moved) - 1 : call'.moved[i] # Newline
    <3> SUFFICES ASSUME call.kind = "line", NEW i \in 1 .. Len(call'.moved) - 1
                 PROVE  call'.moved[i] # Newline
      BY <1>8
    <3>1. i \in 1 .. n
      BY <1>2, <1>4, <2>3
    <3>2. call'.moved[i] = call.moved[i]
      BY <1>7, <1>8, <3>1
    <3> QED BY <1>10, <3>1, <3>2
  <2>5. rd' > 0 /\ call'.kind # "put"
    BY <1>1, <1>2, <1>4, <1>8 DEF Reads
  <2> QED BY <2>2, <2>3, <2>4, <2>5 DEF ReaderInv
<1> QED BY <1>1, <1>3, <1>11, <1>12, <1>13 DEF StreamInv

LEMMA FillKeeps == StreamInv /\ Fill => StreamInv'
<1> SUFFICES ASSUME StreamInv, Fill PROVE StreamInv'
  OBVIOUS
<1>1. /\ call.kind \in Reads /\ ~Satisfied /\ Available = 0
      /\ UNCHANGED <<side, call, answer, ideal, wire, broken>>
  BY DEF Fill, Reads
<1>2. /\ memory \in Chains /\ Len(memory) \in Nat /\ rd = Len(memory)
      /\ unread \in Chains /\ Len(unread) \in Nat
      /\ side = "reader" /\ ReaderInv
  <2>1. Len(memory) \in Nat /\ Len(unread) \in Nat /\ rd \in 0 .. Len(memory)
        /\ memory \in Chains /\ unread \in Chains
    BY DEF StreamInv, StreamTypes, Chains
  <2>2. side = "reader" /\ ReaderInv
    BY <1>1 DEF StreamInv, StreamTypes, WriterInv, Reads
  <2> QED BY <1>1, <2>1, <2>2 DEF Available
<1>3. Satisfied' = Satisfied
  BY <1>1 DEF Satisfied, Wanted
<1>4. CASE \E k \in 1..Least(MaxPart, Len(unread)) :
             /\ memory' = SubSeq(unread, 1, k) /\ rd' = 0
             /\ unread' = SubSeq(unread, k + 1, Len(unread))
             /\ UNCHANGED <<isClosed, pushable>>
  <2>1. PICK k \in 1..Least(MaxPart, Len(unread)) :
          /\ memory' = SubSeq(unread, 1, k) /\ rd' = 0
          /\ unread' = SubSeq(unread, k + 1, Len(unread))
          /\ UNCHANGED <<isClosed, pushable>>
    BY <1>4
  <2>2. k \in 1 .. Len(unread)
    BY <1>2, StreamAssumption DEF Least
  <2>3. memory' \in Chains /\ Len(memory') = k
    <3>1. 1 \in 1 .. Len(unread) + 1 /\ k \in 1 - 1 .. Len(unread) /\ k - 1 + 1 = k
      BY <1>2, <2>2
    <3> QED BY <1>2, <2>1, <3>1, Slice
  <2>4. unread' \in Chains
    <3>1. /\ k + 1 \in 1 .. Len(unread) + 1
          /\ Len(unread) \in (k + 1) - 1 .. Len(unread)
      BY <1>2, <2>2
    <3> QED BY <1>2, <2>1, <3>1, Slice
  <2>5. memory' \o unread' = unread
    <3>1. /\ 0 \in 0 .. Len(unread) /\ k \in 0 .. Len(unread) - 0
          /\ 0 + 1 = 1 /\ 0 + k = k
      BY <1>2, <2>2
    <3>2. SubSeq(unread, 0 + 1, 0 + k) \o SubSeq(unread, 0 + k + 1, Len(unread))
            = SubSeq(unread, 0 + 1, Len(unread))
      BY <1>2, <3>1, Cut
    <3>3. SubSeq(unread, 1, Len(unread)) = unread
      BY <1>2, SubSeqFull DEF Chains
    <3> QED BY <2>1, <3>1, <3>2, <3>3
  <2>6. SubSeq(memory', rd' + 1, Len(memory')) = memory'
    <3>1. SubSeq(memory', 1, Len(memory')) = memory'
      BY <2>3, SubSeqFull DEF Chains
    <3> QED BY <2>1, <3>1
  <2>7. SubSeq(memory, rd + 1, Len(memory)) = <<>>
    BY <1>2, SubSeqEmpty
  <2>8. ideal = call.moved \o unread
    BY <1>2, <2>7, NothingYet DEF ReaderInv
  <2>9. rd' \in 0 .. Len(memory') /\ Available' > 0
    BY <2>1, <2>2, <2>3 DEF Available
  <2>10. StreamTypes' /\ Answered'
    BY <1>1, <2>1, <2>3, <2>4, <2>9 DEF StreamInv, StreamTypes, Answered
  <2>11. ReaderInv'
    <3>1. ideal' = call'.moved \o (SubSeq(memory', rd' + 1, Len(memory')) \o unread')
      BY <1>1, <2>5, <2>6, <2>8
    <3> QED BY <1>1, <1>2, <1>3, <2>9, <3>1 DEF ReaderInv
  <2> QED BY <1>1, <1>2, <2>10, <2>11 DEF StreamInv
<1>5. CASE isClosed' = TRUE /\ pushable' = FALSE /\ UNCHANGED <<unread, memory, rd>>
  <2>1. StreamTypes' /\ Answered'
    BY <1>1, <1>5 DEF StreamInv, StreamTypes, Answered
  <2>2. ReaderInv'
    BY <1>1, <1>2, <1>5 DEF ReaderInv
  <2> QED BY <1>1, <1>2, <2>1, <2>2 DEF StreamInv
<1> QED BY <1>4, <1>5 DEF Fill

LEMMA ReturnKeeps == StreamInv /\ Return => StreamInv'
<1> SUFFICES ASSUME StreamInv, Return PROVE StreamInv'
  OBVIOUS
<1> DEFINE m == call.moved
           n == Len(m)
           rest == SubSeq(memory, rd + 1, Len(memory)) \o unread
<1>1. /\ call.kind \in Reads /\ (Satisfied \/ (Available = 0 /\ isClosed))
      /\ answer' = [kind |-> call.kind, n |-> call.n,
                    items |-> n \div call.size, got |-> m,
                    expected |-> SubSeq(ideal, 1, n)]
      /\ ideal' = SubSeq(ideal, n + 1, Len(ideal))
      /\ call' = NoCall
      /\ UNCHANGED <<side, unread, memory, rd, isClosed, pushable, wire, broken>>
  BY DEF Return, Reads
<1>2. /\ m \in Chains /\ n \in Nat /\ call.n \in Nat /\ unread \in Chains
      /\ memory \in Chains /\ Len(memory) \in Nat /\ rd \in 0 .. Len(memory)
      /\ side = "reader" /\ ReaderInv
  <2>1. m \in Chains /\ call.n \in Nat /\ unread \in Chains /\ memory \in Chains
        /\ rd \in 0 .. Len(memory)
    BY DEF StreamInv, StreamTypes
  <2>2. n \in Nat /\ Len(memory) \in Nat
    BY <2>1 DEF Chains
  <2>3. side = "reader" /\ ReaderInv
    BY <1>1 DEF StreamInv, StreamTypes, WriterInv, Reads
  <2> QED BY <2>1, <2>2, <2>3
<1>3. rest \in Chains /\ ideal = m \o rest
  <2>1. /\ rd + 1 \in 1 .. Len(memory) + 1
        /\ Len(memory) \in (rd + 1) - 1 .. Len(memory)
    BY <1>2
  <2>2. SubSeq(memory, rd + 1, Len(memory)) \in Chains
    BY <1>2, <2>1, Slice
  <2>3. rest \in Chains
    BY <1>2, <2>2, Chain
  <2> QED BY <1>2, <2>3 DEF ReaderInv
<1>4. ideal' = rest /\ answer'.expected = m
  <2> HIDE DEF rest
  <2>1. SubSeq(m \o rest, 1, Len(m)) = m
        /\ SubSeq(m \o rest, Len(m) + 1, Len(m \o rest)) = rest
    BY <1>2, <1>3, Ends
  <2> QED BY <1>1, <1>3, <2>1
<1>5. /\ answer'.got = m /\ answer'.n = call.n /\ answer'.kind = call.kind
  BY <1>1
<1>6. n <= call.n
  BY <1>2 DEF ReaderInv
<1>7. Satisfied => n = call.n \/ (call.kind = "line" /\ m # <<>> /\ Last(m) = Newline)
  BY <1>2, <1>6 DEF Satisfied, Wanted
<1>8. StreamTypes'
  <2>1. NoCall \in [kind : {"none", "put"} \cup Reads, n : Nat,
                    size : Nat \ {0}, moved : Chains]
    BY NothingYet DEF NoCall
  <2> QED BY <1>1, <1>2, <1>3, <1>4, <1>5, <2>1 DEF StreamInv, StreamTypes
<1>9. Answered'
  <2>1. call.kind = "line" => \A i \in 1 .. n - 1 : m[i] # Newline
    BY <1>2 DEF ReaderInv
  <2>2. call.kind # "line" /\ n < call.n => isClosed
    BY <1>1, <1>2, <1>7
  <2>3. n = call.n \/ isClosed \/ (m # <<>> /\ Last(m) = Newline)
    BY <1>1, <1>7
  <2>4. isClosed' = isClosed
    BY <1>1
  <2> HIDE DEF m
  <2> QED BY <1>4, <1>5, <1>6, <2>1, <2>2, <2>3, <2>4 DEF Answered
<1>10. ReaderInv'
  <2>1. call'.kind = "none" /\ call'.moved = <<>> /\ call'.n = 0
    BY <1>1 DEF NoCall
  <2>2. ideal' = call'.moved \o (SubSeq(memory', rd' + 1, Len(memory')) \o unread')
    <3>1. rest' = rest
      BY <1>1
    <3>2. <<>> \o rest = rest
      <4> HIDE DEF rest
      <4> QED BY <1>3, NothingYet
    <3> QED BY <1>4, <2>1, <3>1, <3>2
  <2>3. pushable => rd > 0
    BY <1>1, <1>2 DEF ReaderInv
  <2>4. Len(call'.moved) = 0
    BY <2>1, NothingYet
  <2>5. Len(call'.moved) <= call'.n /\ call'.kind # "line" /\ call'.kind # "put"
    BY <2>1, <2>4
  <2> QED BY <1>1, <2>2, <2>3, <2>5 DEF ReaderInv
<1> QED BY <1>1, <1>2, <1>8, <1>9, <1>10 DEF StreamInv

LEMMA UnGetCharKeeps == StreamInv /\ UnGetChar => StreamInv'
<1> SUFFICES ASSUME StreamInv, UnGetChar PROVE StreamInv'
  OBVIOUS
<1>1. /\ side = "reader" /\ call = NoCall /\ rd > 0 /\ rd' = rd - 1
      /\ pushable' = FALSE /\ answer' = NoAnswer
      /\ UNCHANGED <<side, unread, isClosed, call, wire, broken>>
  BY DEF UnGetChar
<1>2. PICK c \in {memory[rd], Pushed} :
        memory' = [memory EXCEPT ![rd] = c] /\ ideal' = <<c>> \o ideal
  BY DEF UnGetChar
<1>3. /\ memory \in Chains /\ Len(memory) \in Nat /\ rd \in 1 .. Len(memory)
      /\ unread \in Chains /\ ideal \in Chains
  <2>1. memory \in Chains /\ rd \in 0 .. Len(memory) /\ unread \in Chains
        /\ ideal \in Chains
    BY DEF StreamInv, StreamTypes
  <2>2. Len(memory) \in Nat
    BY <2>1 DEF Chains
  <2> QED BY <1>1, <2>1, <2>2
<1>4. c \in Chars
  <2>1. memory[rd] \in Chars
    BY <1>3 DEF Chains
  <2>2. Pushed \in Chars
    BY StreamAssumption DEF Chars
  <2> QED BY <2>1, <2>2
<1> DEFINE tail == SubSeq(memory, rd + 1, Len(memory))
           first == <<c>>
<1>5. /\ memory' \in Chains /\ Len(memory') = Len(memory) /\ first \in Chains
      /\ SubSeq(memory', rd, Len(memory')) = first \o tail
  BY <1>2, <1>3, <1>4, PutBack
<1>6. tail \in Chains
  <2>1. /\ rd + 1 \in 1 .. Len(memory) + 1
        /\ Len(memory) \in (rd + 1) - 1 .. Len(memory)
    BY <1>3
  <2> QED BY <1>3, <2>1, Slice
<1>7. call.moved = <<>> /\ call.kind = "none" /\ call.n = 0
  BY <1>1 DEF NoCall
<1>8. ideal = tail \o unread
  <2>1. ideal = call.moved \o (tail \o unread)
    BY <1>1 DEF StreamInv, ReaderInv
  <2> HIDE DEF tail
  <2>2. tail \o unread \in Chains
    BY <1>3, <1>6, Chain
  <2> QED BY <1>7, <2>1, <2>2, NothingYet
<1>9. ideal' = first \o ideal
  BY <1>2
<1>10. rd' + 1 = rd /\ rd' \in 0 .. Len(memory')
  BY <1>1, <1>3, <1>5
<1> HIDE DEF tail, first
<1>11. /\ ideal' \in Chains
       /\ ideal' = call'.moved \o (SubSeq(memory', rd' + 1, Len(memory')) \o unread')
  <2>1. (first \o tail) \o unread = first \o (tail \o unread)
    <3>1. first \in Chains /\ tail \in Chains /\ unread \in Chains
      BY <1>3, <1>5, <1>6
    <3> QED BY <3>1, Regrouped, Zenon
  <2>2. ideal' \in Chains
    BY <1>3, <1>5, <1>9, Chain
  <2>3. <<>> \o ideal' = ideal'
    BY <2>2, NothingYet
  <2>4. unread' = unread /\ call'.moved = <<>>
    BY <1>1, <1>7
  <2> QED BY <1>5, <1>8, <1>9, <1>10, <2>1, <2>2, <2>3, <2>4, Zenon
<1>12. StreamTypes' /\ Answered'
  <2>1. NoAnswer.got \in Chains /\ NoAnswer.n \in Nat
    BY NothingYet DEF NoAnswer
  <2>2. Answered'
    BY <1>1, NothingYet DEF Answered, NoAnswer
  <2> QED BY <1>1, <1>5, <1>10, <1>11, <2>1, <2>2 DEF StreamInv, StreamTypes
<1>13. ReaderInv'
  <2>1. Len(call'.moved) <= call'.n /\ call'.kind # "line" /\ call'.kind # "put"
    BY <1>1, <1>7, NothingYet
  <2> QED BY <1>1, <1>11, <2>1 DEF ReaderInv
<1> QED BY <1>1, <1>12, <1>13 DEF StreamInv

\* What calls claim to have written, with what the call that runs has moved, is
\* numbered without a gap.
LEMMA Numbered ==
  ASSUME NEW x \in Chains, NEW y \in Chains,
         \A i \in 1 .. Len(x) : x[i] = i,
         \A i \in 1 .. Len(y) : y[i] = Len(x) + i
  PROVE  \A i \in 1 .. Len(x \o y) : (x \o y)[i] = i
<1>1. /\ Len(x \o y) = Len(x) + Len(y) /\ Len(x) \in Nat /\ Len(y) \in Nat
      /\ \A i \in 1 .. Len(x) : (x \o y)[i] = x[i]
      /\ \A i \in 1 .. Len(y) : (x \o y)[Len(x) + i] = y[i]
  BY Chain
<1> DEFINE z == x \o y
<1> HIDE DEF z
<1>2. ASSUME NEW i \in 1 .. Len(z) PROVE z[i] = i
  <2>1. CASE i <= Len(x)
    BY <1>1, <1>2, <2>1 DEF z
  <2>2. CASE i > Len(x)
    <3> DEFINE j == i - Len(x)
    <3>1. j \in 1 .. Len(y) /\ Len(x) + j = i
      BY <1>1, <1>2, <2>2 DEF z
    <3>2. z[Len(x) + j] = y[j] /\ y[j] = Len(x) + j
      BY <1>1, <3>1 DEF z
    <3> QED BY <3>1, <3>2
  <2> QED BY <1>1, <2>1, <2>2
<1> QED BY <1>2 DEF z

LEMMA CallWriteKeeps == StreamInv /\ CallWrite => StreamInv'
<1> SUFFICES ASSUME StreamInv, CallWrite PROVE StreamInv'
  OBVIOUS
<1>1. /\ side = "writer" /\ call = NoCall /\ answer' = NoAnswer
      /\ UNCHANGED <<side, unread, memory, rd, isClosed, ideal, pushable, wire,
                     broken>>
  BY DEF CallWrite, Call
<1>2. PICK n \in Nat :
        call' = [kind |-> "put", n |-> n, size |-> 1, moved |-> <<>>]
  BY StreamAssumption DEF CallWrite, Call
<1>3. call'.kind = "put" /\ call'.n \in Nat /\ call'.moved = <<>>
  BY <1>2
<1>4. StreamTypes' /\ Answered'
  <2>1. NoAnswer.got \in Chains /\ NoAnswer.n \in Nat
    BY NothingYet DEF NoAnswer
  <2>2. Answered'
    BY <1>1, NothingYet DEF Answered, NoAnswer
  <2>3. call' \in [kind : {"none", "put"} \cup Reads, n : Nat,
                   size : Nat \ {0}, moved : Chains]
    BY <1>2, NothingYet
  <2> QED BY <1>1, <1>3, <2>1, <2>2, <2>3 DEF StreamInv, StreamTypes
<1>5. WriterInv'
  <2>1. WriterInv /\ call.moved = <<>>
    BY <1>1 DEF StreamInv, NoCall
  <2>2. answer'.kind = "none"
    BY <1>1 DEF NoAnswer
  <2>3. Len(call'.moved) = 0 /\ call'.moved = call.moved
    BY <1>3, <2>1, NothingYet
  <2> QED BY <1>1, <1>3, <2>1, <2>2, <2>3 DEF WriterInv
<1> QED BY <1>1, <1>4, <1>5 DEF StreamInv

LEMMA PutStrKeeps == StreamInv /\ PutStr => StreamInv'
<1> SUFFICES ASSUME StreamInv, PutStr PROVE StreamInv'
  OBVIOUS
<1> DEFINE m == Least(Wanted, WriterRoom - Len(memory))
           first == Len(unread) + Len(call.moved)
           part == [i \in 1..m |-> first + i]
<1>1. /\ call.kind = "put" /\ Wanted > 0 /\ m > 0
      /\ memory' = memory \o part
      /\ call' = [call EXCEPT !.moved = call.moved \o part]
      /\ UNCHANGED <<side, answer, isClosed, unread, rd, ideal, pushable, wire,
                     broken>>
  BY DEF PutStr, writing
<1>2. /\ side = "writer" /\ WriterInv
      /\ memory \in Chains /\ unread \in Chains /\ wire \in Chains
      /\ call.moved \in Chains /\ call.n \in Nat /\ Len(memory) \in Nat
      /\ Len(unread) \in Nat /\ Len(call.moved) \in Nat
  <2>1. side = "writer" /\ WriterInv
    BY <1>1 DEF StreamInv, StreamTypes, ReaderInv
  <2>2. memory \in Chains /\ unread \in Chains /\ wire \in Chains
        /\ call.moved \in Chains /\ call.n \in Nat
    BY DEF StreamInv, StreamTypes
  <2> QED BY <2>1, <2>2 DEF Chains
<1>3. m \in Nat /\ m <= call.n - Len(call.moved) /\ first \in Nat
  <2>1. call.n - Len(call.moved) \in Int /\ WriterRoom - Len(memory) \in Int
    BY <1>2, StreamAssumption
  <2>2. m \in Int /\ m <= call.n - Len(call.moved)
    BY <2>1 DEF Least, Wanted
  <2>3. m \in Nat
    BY <1>1, <2>2
  <2> QED BY <1>2, <2>2, <2>3
<1> HIDE DEF m, first
<1>4. /\ part \in Chains /\ Len(part) = m
      /\ \A i \in 1 .. m : part[i] = first + i
  BY <1>3 DEF Chains, Chars
<1> HIDE DEF part
<1>5. /\ memory' \in Chains /\ Len(memory') = Len(memory) + m
      /\ call.moved \o part \in Chains
      /\ Len(call.moved \o part) = Len(call.moved) + m
      /\ \A i \in 1 .. Len(call.moved) : (call.moved \o part)[i] = call.moved[i]
      /\ \A i \in 1 .. m : (call.moved \o part)[Len(call.moved) + i] = part[i]
  BY <1>1, <1>2, <1>4, Chain
<1>6. /\ call'.moved = call.moved \o part /\ call'.n = call.n
      /\ call'.kind = "put"
      /\ call' \in [kind : {"none", "put"} \cup Reads, n : Nat,
                    size : Nat \ {0}, moved : Chains]
  BY <1>1, <1>5 DEF StreamInv, StreamTypes
<1>7. StreamTypes' /\ Answered'
  <2>1. rd' \in 0 .. Len(memory')
    BY <1>1, <1>2, <1>3, <1>5 DEF WriterInv
  <2>2. StreamTypes'
    BY <1>1, <1>5, <1>6, <2>1 DEF StreamInv, StreamTypes
  <2>3. Answered'
    BY <1>1 DEF StreamInv, Answered
  <2> QED BY <2>2, <2>3
<1>8. WriterInv'
  <2>1. ~broken => wire' \o memory' = unread' \o call'.moved
    <3> SUFFICES ASSUME ~broken PROVE wire \o (memory \o part) = unread \o (call.moved \o part)
      BY <1>1, <1>6
    <3>1. wire \o (memory \o part) = (wire \o memory) \o part
      BY <1>2, <1>4, Regrouped
    <3>2. unread \o (call.moved \o part) = (unread \o call.moved) \o part
      BY <1>2, <1>4, Regrouped
    <3>3. wire \o memory = unread \o call.moved
      BY <1>2 DEF WriterInv
    <3> QED BY <3>1, <3>2, <3>3
  <2>2. \A i \in 1 .. Len(call'.moved) : call'.moved[i] = Len(unread') + i
    <3> SUFFICES ASSUME NEW i \in 1 .. Len(call.moved) + m
                 PROVE  (call.moved \o part)[i] = Len(unread) + i
      BY <1>1, <1>5, <1>6
    <3>1. CASE i <= Len(call.moved)
      <4>1. i \in 1 .. Len(call.moved)
        BY <1>2, <3>1
      <4> QED BY <1>2, <1>5, <4>1 DEF WriterInv
    <3>2. CASE i > Len(call.moved)
      <4> DEFINE j == i - Len(call.moved)
      <4>1. j \in 1 .. m /\ Len(call.moved) + j = i /\ first + j = Len(unread) + i
        <5> DEFINE k == Len(call.moved)
                   u == Len(unread)
        <5>1. /\ k \in Nat /\ u \in Nat /\ m \in Nat /\ first = u + k
              /\ i \in 1 .. k + m /\ i > k /\ j = i - k
          BY <1>2, <1>3, <3>2 DEF first
        <5> HIDE DEF k, u, j
        <5>2. j \in 1 .. m /\ k + j = i /\ first + j = u + i
          BY <5>1
        <5> QED BY <5>2 DEF k, u
      <4> HIDE DEF j
      <4> QED BY <1>4, <1>5, <4>1
    <3>3. i <= Len(call.moved) \/ i > Len(call.moved)
      <4> DEFINE k == Len(call.moved)
      <4>1. k \in Nat /\ m \in Nat /\ i \in 1 .. k + m
        BY <1>2, <1>3
      <4> HIDE DEF k
      <4>2. i <= k \/ i > k
        BY <4>1
      <4> QED BY <4>2 DEF k
    <3> QED BY <3>1, <3>2, <3>3
  <2>3. Len(call'.moved) <= call'.n
    BY <1>2, <1>3, <1>5, <1>6
  <2> QED BY <1>1, <1>2, <1>6, <2>1, <2>2, <2>3 DEF WriterInv
<1> QED BY <1>1, <1>2, <1>7, <1>8 DEF StreamInv

\* The buffer is sent, or nothing can be sent any more.
LEMMA SendingKeeps ==
  ASSUME StreamInv, side = "writer", UNCHANGED <<side, call, writing>>,
         \/ ~broken /\ wire' = wire \o memory /\ memory' = <<>>
            /\ UNCHANGED <<isClosed, broken>>
         \/ isClosed' = TRUE /\ broken' = TRUE /\ UNCHANGED <<wire, memory>>,
         \/ UNCHANGED answer
         \/ answer'.kind = "flush" /\ answer'.got = <<>> /\ answer'.expected = <<>>
            /\ answer'.n = 0
  PROVE  StreamInv'
<1>1. WriterInv /\ UNCHANGED <<side, call, unread, rd, ideal, pushable>>
  BY DEF StreamInv, writing
<1>2. /\ memory \in Chains /\ unread \in Chains /\ wire \in Chains
      /\ call.moved \in Chains
  BY DEF StreamInv, StreamTypes
<1>3. /\ memory' \in Chains /\ wire' \in Chains /\ rd' \in 0 .. Len(memory')
      /\ \A i \in 1 .. Len(wire') : wire'[i] = i
      /\ ~broken' => wire' \o memory' = unread' \o call'.moved
      /\ isClosed' => broken' /\ isClosed' \in BOOLEAN /\ broken' \in BOOLEAN
      /\ broken => broken'
      /\ isClosed => isClosed'
  <2>1. CASE ~broken /\ wire' = wire \o memory /\ memory' = <<>>
             /\ UNCHANGED <<isClosed, broken>>
    <3>1. wire' \in Chains /\ memory' \in Chains /\ Len(memory') = 0
          /\ wire' \o memory' = wire'
      BY <1>2, <2>1, Chain, NothingYet
    <3>2. wire' = unread \o call.moved
      BY <1>1, <2>1 DEF WriterInv
    <3>3. \A i \in 1 .. Len(wire') : wire'[i] = i
      BY <1>1, <1>2, <3>2, Numbered DEF WriterInv
    <3> QED BY <1>1, <2>1, <3>1, <3>2, <3>3 DEF StreamInv, StreamTypes, WriterInv
  <2>2. CASE isClosed' = TRUE /\ broken' = TRUE /\ UNCHANGED <<wire, memory>>
    BY <1>1, <1>2, <2>2 DEF StreamInv, StreamTypes, WriterInv
  <2> QED BY <2>1, <2>2
<1>4. answer'.got \in Chains /\ answer'.n \in Nat /\ Answered'
  <2>1. CASE UNCHANGED answer
    <3>1. isClosed => isClosed'
      BY <1>3
    <3> QED BY <2>1, <3>1 DEF StreamInv, StreamTypes, Answered
  <2>2. CASE answer'.kind = "flush" /\ answer'.got = <<>>
             /\ answer'.expected = <<>> /\ answer'.n = 0
    BY <2>2, NothingYet DEF Answered
  <2> QED BY <2>1, <2>2
<1>5. StreamTypes'
  BY <1>1, <1>3, <1>4 DEF StreamInv, StreamTypes
<1>6. WriterInv'
  <2>1. answer'.kind = "put" /\ answer'.items < answer'.n => broken'
    BY <1>1, <1>3 DEF WriterInv
  <2> QED BY <1>1, <1>3, <2>1 DEF WriterInv
<1> QED BY <1>1, <1>4, <1>5, <1>6 DEF StreamInv

LEMMA EmptyKeeps == StreamInv /\ Empty => StreamInv'
<1> SUFFICES ASSUME StreamInv, Empty PROVE StreamInv'
  OBVIOUS
<1>1. side = "writer"
  BY DEF StreamInv, StreamTypes, ReaderInv, Empty
<1>2. UNCHANGED <<side, call, writing>> /\ UNCHANGED answer
  BY DEF Empty
<1>3. \/ ~broken /\ wire' = wire \o memory /\ memory' = <<>>
         /\ UNCHANGED <<isClosed, broken>>
      \/ isClosed' = TRUE /\ broken' = TRUE /\ UNCHANGED <<wire, memory>>
  BY DEF Empty
<1> QED BY <1>1, <1>2, <1>3, SendingKeeps

LEMMA FlushKeeps == StreamInv /\ FFlush => StreamInv'
<1> SUFFICES ASSUME StreamInv, FFlush PROVE StreamInv'
  OBVIOUS
<1>1. side = "writer" /\ UNCHANGED <<side, call, writing>>
  BY DEF FFlush
<1>2. answer'.kind = "flush" /\ answer'.got = <<>> /\ answer'.expected = <<>>
      /\ answer'.n = 0
  BY DEF FFlush, NoAnswer
<1>3. \/ ~broken /\ wire' = wire \o memory /\ memory' = <<>>
         /\ UNCHANGED <<isClosed, broken>>
      \/ isClosed' = TRUE /\ broken' = TRUE /\ UNCHANGED <<wire, memory>>
  BY DEF FFlush
<1> QED BY <1>1, <1>2, <1>3, SendingKeeps

LEMMA PutReturnsKeeps == StreamInv /\ PutReturns => StreamInv'
<1> SUFFICES ASSUME StreamInv, PutReturns PROVE StreamInv'
  OBVIOUS
<1>1. /\ call.kind = "put" /\ call' = NoCall
      /\ UNCHANGED <<side, memory, rd, isClosed, ideal, pushable, wire, broken>>
      /\ \/ Wanted = 0 /\ unread' = unread \o call.moved /\ answer'.items = call.n
         \/ unread' = unread /\ isClosed
      /\ answer'.kind = "put" /\ answer'.n = call.n
      /\ answer'.got = <<>> /\ answer'.expected = <<>>
  BY DEF PutReturns, NoAnswer
<1>2. /\ side = "writer" /\ WriterInv
      /\ memory \in Chains /\ unread \in Chains /\ wire \in Chains
      /\ call.moved \in Chains /\ call.n \in Nat
  <2>1. side = "writer" /\ WriterInv
    BY <1>1 DEF StreamInv, StreamTypes, ReaderInv
  <2> QED BY <2>1 DEF StreamInv, StreamTypes
<1>3. /\ unread' \in Chains /\ \A i \in 1 .. Len(unread') : unread'[i] = i
      /\ ~broken => wire \o memory = unread'
      /\ answer'.items < answer'.n => broken
  <2>1. CASE Wanted = 0 /\ unread' = unread \o call.moved /\ answer'.items = call.n
    <3>1. unread' \in Chains /\ \A i \in 1 .. Len(unread') : unread'[i] = i
      BY <1>2, <2>1, Chain, Numbered DEF WriterInv
    <3>2. ~broken => wire \o memory = unread'
      BY <1>2, <2>1 DEF WriterInv
    <3>3. ~(answer'.items < answer'.n)
      BY <1>1, <1>2, <2>1
    <3> QED BY <3>1, <3>2, <3>3
  <2>2. CASE unread' = unread /\ isClosed
    BY <1>2, <2>2 DEF WriterInv
  <2> QED BY <1>1, <2>1, <2>2
<1>4. call'.kind = "none" /\ call'.moved = <<>> /\ call'.n = 0
  BY <1>1 DEF NoCall
<1>5. StreamTypes' /\ Answered'
  <2>1. NoCall \in [kind : {"none", "put"} \cup Reads, n : Nat,
                    size : Nat \ {0}, moved : Chains]
    BY NothingYet DEF NoCall
  <2>2. Answered'
    BY <1>1, <1>2, NothingYet DEF Answered
  <2> QED BY <1>1, <1>2, <1>3, <2>1, <2>2, NothingYet DEF StreamInv, StreamTypes
<1>6. WriterInv'
  <2>1. Len(call'.moved) = 0 /\ unread' \o call'.moved = unread'
    BY <1>3, <1>4, NothingYet
  <2> QED BY <1>1, <1>2, <1>3, <1>4, <2>1 DEF WriterInv
<1> QED BY <1>1, <1>2, <1>5, <1>6 DEF StreamInv

LEMMA StreamInvNext == StreamInv /\ [StreamNext]_streamVars => StreamInv'
<1> SUFFICES ASSUME StreamInv, [StreamNext]_streamVars PROVE StreamInv'
  OBVIOUS
<1>1. CASE UNCHANGED streamVars
  BY <1>1 DEF streamVars, StreamInv, StreamTypes, Answered, ReaderInv, WriterInv,
              Satisfied, Wanted, Available
<1>2. CASE CallRead \/ Move \/ Fill \/ Return \/ UnGetChar
  BY <1>2, CallReadKeeps, MoveKeeps, FillKeeps, ReturnKeeps, UnGetCharKeeps
<1>3. CASE CallWrite \/ PutStr \/ Empty \/ PutReturns \/ FFlush
  BY <1>3, CallWriteKeeps, PutStrKeeps, EmptyKeeps, PutReturnsKeeps, FlushKeeps
<1> QED BY <1>1, <1>2, <1>3 DEF StreamNext

LEMMA StreamInvFaithful == StreamInv => StreamsFaithful
<1> SUFFICES ASSUME StreamInv PROVE StreamsFaithful
  OBVIOUS
<1>1. CASE side = "reader"
  <2>1. ReaderInv /\ Answered
    BY <1>1 DEF StreamInv
  <2>2. ASSUME call = NoCall
        PROVE  /\ ideal = SubSeq(memory, rd + 1, Len(memory)) \o unread
               /\ pushable => rd > 0
    <3>1. call.moved = <<>> /\ call.kind \notin Reads
      BY <2>2 DEF NoCall, Reads
    <3>2. /\ memory \in Chains /\ Len(memory) \in Nat /\ rd \in 0 .. Len(memory)
          /\ unread \in Chains
      BY DEF StreamInv, StreamTypes, Chains
    <3> DEFINE tail == SubSeq(memory, rd + 1, Len(memory))
    <3>3. tail \o unread \in Chains
      <4>1. /\ rd + 1 \in 1 .. Len(memory) + 1
            /\ Len(memory) \in (rd + 1) - 1 .. Len(memory)
        BY <3>2
      <4>2. tail \in Chains
        BY <3>2, <4>1, Slice
      <4> QED BY <3>2, <4>2, Chain
    <3>4. ideal = call.moved \o (tail \o unread)
      BY <2>1 DEF ReaderInv
    <3> HIDE DEF tail
    <3>5. ideal = tail \o unread
      BY <3>1, <3>3, <3>4, NothingYet
    <3> QED BY <2>1, <3>1, <3>5 DEF ReaderInv, tail
  <2> QED BY <1>1, <2>1, <2>2 DEF StreamsFaithful, ReadFaithful, PutFaithful, Answered
<1>2. CASE side = "writer"
  <2>1. WriterInv /\ Answered
    BY <1>2 DEF StreamInv
  <2>2. ReadFaithful
    BY <1>2, <2>1 DEF ReadFaithful, Answered, WriterInv
  <2>3. ASSUME call = NoCall, ~broken PROVE wire \o memory = unread
    <3>1. unread \in Chains /\ call.moved = <<>>
      BY <2>3 DEF StreamInv, StreamTypes, NoCall
    <3> QED BY <2>1, <2>3, <3>1, NothingYet DEF WriterInv
  <2> QED BY <2>1, <2>2, <2>3 DEF StreamsFaithful, PutFaithful, WriterInv
<1> QED BY <1>1, <1>2 DEF StreamInv, StreamTypes

(* Whatever calls an application makes on a stream of libfcgi, and wherever   *)
(* its buffer ends: what it reads is the content with what it pushed back,    *)
(* what it writes is sent in its order, and a short count means what it says. *)
(* FCGX_GetStr, FCGX_GetLine, FCGX_UnGetChar, FCGX_PutStr, FCGX_FFlush.       *)
THEOREM StreamFaithful == StreamSpec => []StreamsFaithful
BY StreamInvInit, StreamInvNext, StreamInvFaithful, PTL DEF StreamSpec

===============================================================================
