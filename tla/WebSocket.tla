------------------------------ MODULE WebSocket ------------------------------
(***************************************************************************)
(* A connection after its upgrade (serv/httpserver.cpp): the loop of        *)
(* HTTP_Thread::run that reads the socket, WebSocket::feed, which cuts what *)
(* arrives into frames and puts messages together, and the echo.            *)
(*                                                                          *)
(* A frame is 2 + len units that the network may cut between any two: the   *)
(* first two bytes, the rest of the header, and each unit of the payload.   *)
(* A payload unit is named by its place, <<frame, unit>>.                   *)
(***************************************************************************)
EXTENDS Integers, Sequences, FiniteSets

CONSTANTS Frames,     \* the frames the client sends
          MaxFrames,  \* bound: frames on one connection
          MaxMessage  \* MAX_WEBSOCKET_MESSAGE_SIZE, in payload units

Ops == {"cont", "text", "binary", "close", "ping", "pong", "reserved"}

\* legal: masked, reserved bits zero.
ASSUME WebSocketAssumption ==
  /\ Frames \subseteq [op : Ops, fin : BOOLEAN, legal : BOOLEAN, len : Nat]
  /\ MaxFrames \in Nat /\ MaxMessage \in Nat

VARIABLES
  sent,     \* the frames the client has sent
  upto,     \* what the first n of them are: units, and messages by RFC 6455
  client,   \* "open", "deaf" (it reads no more) or "gone"
  got,      \* units received
  next,     \* frames decoded and erased from buffer
  current,  \* current_message
  opcode,   \* message_opcode
  out,      \* messages of this read that are still to be handled
  replies,  \* frames the server has sent
  pc        \* where the worker is; "dead" when the server has died

peerVars == <<sent, upto, client>>
vars == <<peerVars, got, next, current, opcode, out, replies, pc>>

Init ==
  /\ sent = <<>> /\ upto = <<>> /\ client = "open"
  /\ got = 0 /\ next = 0
  /\ current = <<>> /\ opcode = "cont"
  /\ out = <<>> /\ replies = <<>>
  /\ pc = "recv"

------------------------------------------------------------------------------
(* The stream.                                                              *)

HeaderUnits == 2

\* Units of the first n frames.
Before(n) == IF n = 0 THEN 0 ELSE upto[n].units

Total == Before(Len(sent))

\* The payload of f, sent as the n-th frame.
PayloadOf(n, f) == [k \in 1 .. f.len |-> <<n, k>>]
Payload(n) == PayloadOf(n, sent[n])

\* What the first n frames are by RFC 6455: whether they make messages at all,
\* the message begun last (its type and data so far), and the whole ones.
Start == [ok |-> TRUE, op |-> "none", data |-> <<>>, msgs |-> <<>>]
Reading(n) == IF n = 0 THEN Start ELSE upto[n].reading

IsControl(f) == f.op \in {"ping", "pong"}

\* A client that has sent s may go on with f, as its n-th frame.
Conforms(s, n, f) ==
  /\ s.ok /\ f.legal /\ f.op \notin {"close", "reserved"}
  /\ f.len <= MaxMessage
  /\ f.op = "cont" => s.op # "none"
  /\ f.op \in {"text", "binary"} => s.op = "none"
  /\ IsControl(f) \/ Len(s.data) + f.len <= MaxMessage

ReadOn(s, n, f) ==
  LET data == s.data \o PayloadOf(n, f)
      op == IF f.op = "cont" THEN s.op ELSE f.op
  IN  IF ~Conforms(s, n, f) THEN [s EXCEPT !.ok = FALSE]
      ELSE IF IsControl(f) THEN s
      ELSE IF f.fin
      THEN [Start EXCEPT !.msgs = Append(s.msgs, [op |-> op, data |-> data])]
      ELSE [s EXCEPT !.op = op, !.data = data]

Send(f) ==
  /\ client # "gone" /\ pc \notin {"closed", "dead"}
  /\ Len(sent) < MaxFrames
  /\ sent' = Append(sent, f)
  /\ upto' = Append(upto,
       [units   |-> Total + HeaderUnits + f.len,
        reading |-> ReadOn(Reading(Len(sent)), Len(sent) + 1, f)])
  /\ UNCHANGED <<client, got, next, current, opcode, out, replies, pc>>

ClientDeaf ==
  /\ client = "open"
  /\ client' = "deaf"
  /\ UNCHANGED <<sent, upto, got, next, current, opcode, out, replies, pc>>

ClientGone ==
  /\ client # "gone"
  /\ client' = "gone"
  /\ UNCHANGED <<sent, upto, got, next, current, opcode, out, replies, pc>>

------------------------------------------------------------------------------
(* read() on the socket.                                                    *)

Recv ==
  /\ pc = "recv"
  /\ got' \in got + 1 .. Total
  /\ pc' = "feed"
  /\ UNCHANGED <<peerVars, next, current, opcode, out, replies>>

\* Mutant of RecvFails: no receive timeout.
RecvFailsNoTimeout ==
  /\ pc = "recv"
  /\ client = "gone"
  /\ pc' = "closed"
  /\ UNCHANGED <<peerVars, got, next, current, opcode, out, replies>>

\* End of stream, an error or RECV_TIMEOUT_SEC: closed without a Close frame.
RecvFails ==
  /\ pc = "recv"
  /\ got = Total \/ client = "gone"
  /\ pc' = "closed"
  /\ UNCHANGED <<peerVars, got, next, current, opcode, out, replies>>

------------------------------------------------------------------------------
(* feed(): one frame after the other, as long as buffer has a whole one.    *)

Available == got - Before(next)
Frame == sent[next + 1]
Complete == Available >= HeaderUnits + Frame.len

\* The buffer ends within a frame, or a header, that is not refused yet.
Incomplete ==
  Available > 0 =>
    Frame.legal /\ (Available >= HeaderUnits =>
                      Frame.len <= MaxMessage /\ ~Complete)

\* A message begins before the last one, of which something has arrived, has
\* ended, or a message grows too long.
BadData ==
  \/ Frame.op \in {"text", "binary"} /\ current # <<>>
  \/ Frame.op \in {"text", "binary", "cont"}
       /\ Len(current) + Frame.len > MaxMessage

\* feed() returns false.
Refused ==
  /\ Available > 0
  /\ \/ ~Frame.legal
     \/ Available >= HeaderUnits /\ Frame.len > MaxMessage
     \/ Complete /\ (Frame.op \in {"close", "reserved"} \/ BadData)

\* The messages of this read have no receiver any more.
FeedFails ==
  /\ pc = "feed"
  /\ Refused
  /\ out' = <<>>
  /\ pc' = "failed"
  /\ UNCHANGED <<peerVars, got, next, current, opcode, replies>>

FeedDone ==
  /\ pc = "feed"
  /\ Incomplete
  /\ pc' = "send"
  /\ UNCHANGED <<peerVars, got, next, current, opcode, out, replies>>

\* A ping comes out as a message 0xa; its payload stays masked.
FeedControl ==
  /\ pc = "feed" /\ ~Incomplete /\ ~Refused
  /\ Frame.op \in {"ping", "pong"}
  /\ next' = next + 1
  /\ out' = IF Frame.op = "ping"
            THEN Append(out, [op |-> "pong", data |-> Payload(next')]) ELSE out
  /\ UNCHANGED <<peerVars, got, current, opcode, replies, pc>>

\* Mutant of FeedData: a message has the type of its last frame.
FeedDataLastType ==
  /\ pc = "feed" /\ ~Incomplete /\ ~Refused
  /\ Frame.op \in {"cont", "text", "binary"}
  /\ next' = next + 1
  /\ LET op == IF Frame.op = "cont" THEN opcode ELSE Frame.op
         data == current \o Payload(next')
     IN  IF Frame.fin
         THEN /\ out' = Append(out, [op |-> Frame.op, data |-> data])
              /\ current' = <<>> /\ opcode' = "cont"
         ELSE /\ current' = data /\ opcode' = op
              /\ UNCHANGED out
  /\ UNCHANGED <<peerVars, got, replies, pc>>

FeedData ==
  /\ pc = "feed" /\ ~Incomplete /\ ~Refused
  /\ Frame.op \in {"cont", "text", "binary"}
  /\ next' = next + 1
  /\ LET op == IF Frame.op = "cont" THEN opcode ELSE Frame.op
         data == current \o Payload(next')
     IN  IF Frame.fin
         THEN /\ out' = Append(out, [op |-> op, data |-> data])
              /\ current' = <<>> /\ opcode' = "cont"
         ELSE /\ current' = data /\ opcode' = op
              /\ UNCHANGED out
  /\ UNCHANGED <<peerVars, got, replies, pc>>

------------------------------------------------------------------------------
(* The answers.                                                             *)

IsData(m) == m.op \in {"text", "binary"}

\* Text and binary messages are echoed.  There is an answer for messages 0x9
\* too, but feed() makes none; 0xa and 0x0 are dropped.
Handle ==
  /\ pc = "send" /\ out # <<>>
  /\ replies' = IF IsData(Head(out)) THEN Append(replies, Head(out))
                ELSE replies
  /\ out' = Tail(out)
  /\ UNCHANGED <<peerVars, got, next, current, opcode, pc>>

\* send() fails with an error: SEND_TIMEOUT_SEC with a client that does not
\* read, or the client has reset the connection.
SendFails ==
  /\ pc = "send" /\ out # <<>> /\ IsData(Head(out))
  /\ client # "open"
  /\ out' = <<>>
  /\ pc' = "failed"
  /\ UNCHANGED <<peerVars, got, next, current, opcode, replies>>

Handled ==
  /\ pc = "send" /\ out = <<>>
  /\ pc' = "recv"
  /\ UNCHANGED <<peerVars, got, next, current, opcode, out, replies>>

\* Close, status 1000, if it can be sent.
SendClose ==
  /\ pc = "failed"
  /\ \/ replies' = Append(replies, [op |-> "close", data |-> <<>>])
     \/ client # "open" /\ UNCHANGED replies
  /\ pc' = "closed"
  /\ UNCHANGED <<peerVars, got, next, current, opcode, out>>

\* send() to a client that is gone raises SIGPIPE, which nothing in the server
\* ignores: the process dies, with all workers.
BrokenPipe ==
  /\ pc = "failed" \/ (pc = "send" /\ out # <<>> /\ IsData(Head(out)))
  /\ client = "gone"
  /\ pc' = "dead"
  /\ UNCHANGED <<peerVars, got, next, current, opcode, out, replies>>

\* Another client upgrades its connection.
NextConnection ==
  /\ pc = "closed"
  /\ sent' = <<>> /\ upto' = <<>> /\ client' = "open"
  /\ got' = 0 /\ next' = 0
  /\ current' = <<>> /\ opcode' = "cont"
  /\ out' = <<>> /\ replies' = <<>>
  /\ pc' = "recv"

Client == ClientDeaf \/ ClientGone \/ \E f \in Frames : Send(f)
Feed == FeedFails \/ FeedDone \/ FeedControl \/ FeedData
Server ==
  \/ Recv \/ RecvFails \/ Feed
  \/ Handle \/ SendFails \/ Handled \/ SendClose \/ BrokenPipe

Next == Client \/ Server \/ NextConnection

Spec == Init /\ [][Next]_vars

\* The thread is scheduled; the socket has timeouts both ways.
FairSpec == Spec /\ WF_vars(Server)

------------------------------------------------------------------------------
(* Properties                                                               *)

Units == (1 .. MaxFrames) \X Nat
Messages == [op : {"cont", "text", "binary", "pong", "close"}, data : Seq(Units)]
Readings == [ok : BOOLEAN, op : {"none", "text", "binary"}, data : Seq(Units),
             msgs : Seq(Messages)]

TypeOK ==
  /\ sent \in Seq(Frames) /\ Len(sent) <= MaxFrames
  /\ upto \in Seq([units : Nat, reading : Readings])
  /\ client \in {"open", "deaf", "gone"}
  /\ got \in 0 .. Total
  /\ next \in 0 .. Len(sent) /\ Before(next) <= got
  /\ current \in Seq(Units) /\ Len(current) <= MaxMessage
  /\ opcode \in {"cont", "text", "binary"}
  /\ out \in Seq(Messages) /\ replies \in Seq(Messages)
  /\ pc \in {"recv", "feed", "send", "failed", "closed", "dead"}

\* How many of the first i messages of out are to be echoed.
ToEcho(i) == Cardinality({j \in 1 .. i : IsData(out[j])})

\* What is echoed, and about to be, are the messages of the client: each one
\* whole, with its type, in order, once, however the network cut the frames
\* and whatever control frames came between the fragments.
EchoesIntact ==
  Reading(next).ok /\ pc \in {"recv", "feed", "send"} =>
    LET msgs == Reading(next).msgs
    IN  /\ Len(msgs) = Len(replies) + ToEcho(Len(out))
        /\ \A k \in 1 .. Len(replies) : replies[k] = msgs[k]
        /\ \A i \in 1 .. Len(out) :
             IsData(out[i]) => out[i] = msgs[Len(replies) + ToEcho(i)]

\* The server breaks off only when the next frame is not one a conforming
\* client sends on, or cannot be answered.
BreaksOffForCause ==
  pc = "failed" /\ client = "open" =>
    next < Len(sent) /\ ~Reading(next + 1).ok

\* A client that conforms to RFC 6455 is served.
ClientServed == TypeOK /\ EchoesIntact /\ BreaksOffForCause

\* An open WebSocket does not keep the worker: silence ends it too, and a client
\* that reads no more; a client that goes away at the wrong moment ends the
\* server.
SessionEnds == []<>(pc \in {"closed", "dead"})

===============================================================================
