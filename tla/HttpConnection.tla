---------------------------- MODULE HttpConnection ----------------------------
(***************************************************************************)
(* One worker thread (HTTP_Thread::run, serv/httpserver.cpp) serving one    *)
(* connection after another: header, body, handler, response, drain,        *)
(* keep-alive.  The client may send its requests ahead of the answers, stop *)
(* in the middle of one, close or reset.                                    *)
(*                                                                          *)
(* The byte stream is a sequence of units: the header block of request i    *)
(* and its body units.  SocketBuffer is what justifies it: lines and blocks *)
(* come out in the order they were sent, whatever the segments.  A body     *)
(* unit is a piece of a body with an empty line at its end or with none, no *)
(* longer than what one FCGI_STDIN record holds (65535 bytes).              *)
(*                                                                          *)
(*   "page"     GET of anything but /app and /sock, or an unknown method    *)
(*   "app"      GET /app, passed to the FastCGI gateway                     *)
(*   "post"     POST of anything but /app                                   *)
(*   "postapp"  POST /app                                                   *)
(*   "sock"     GET /sock with a valid WebSocket handshake                  *)
(*   "badline"  a request line of fewer than three words                    *)
(*   "refused"  refused before its Content-Length is stored: Host,          *)
(*              Transfer-Encoding, Expect or Content-Length itself          *)
(*   "overlong" a header block longer than max_header_total_length          *)
(***************************************************************************)
EXTENDS Integers, Sequences, FiniteSets

CONSTANTS Requests,    \* the requests the client chooses from
          MaxRequests  \* bound: requests on one connection

Kinds == {"page", "app", "post", "postapp", "sock", "badline", "refused",
          "overlong"}

\* close: "Connection: close", or HTTP/1.0 without "Connection: keep-alive".
RequestRecords == [kind : Kinds, body : Nat, close : BOOLEAN]

ASSUME RequestsAssumption ==
  /\ Requests \subseteq RequestRecords
  /\ MaxRequests \in Nat

VARIABLES
  reqs,      \* the requests whose header block the client has sent
  owed,      \* body units of the last one it has not sent
  client,    \* "open", "closed" or "reset"
  wire,      \* units in the kernel's receive buffer
  buf,       \* units in sockbuff_
  connected, \* sockbuff_.connected
  pc,        \* where the worker is
  id,        \* the request being served; 0 when body was read as its header
  cur,       \* its record
  garbled,   \* the worker is within a unit that it reads as something else
  need,      \* units the current read still wants
  consumed,  \* request.content_consumed
  status,    \* status of the response to come
  responses  \* the responses sent, oldest first

clientVars == <<reqs, owed, client>>
serving == <<id, cur, consumed>>
vars == <<clientVars, wire, buf, connected, pc, serving, garbled, need, status,
          responses>>

NoRequest == [kind |-> "badline", body |-> 0, close |-> TRUE]

Init ==
  /\ reqs = <<>> /\ owed = 0 /\ client = "open"
  /\ wire = <<>> /\ buf = <<>>
  /\ connected = TRUE
  /\ pc = "header"
  /\ id = 0 /\ cur = NoRequest /\ consumed = FALSE
  /\ garbled = FALSE /\ need = 0 /\ status = "none"
  /\ responses = <<>>

\* The connection is there: the worker has not closed it nor the server died.
Open == pc \notin {"closed", "dead"}

------------------------------------------------------------------------------
(* The client.                                                              *)

\* A unit's place in its request: 0 for the header block, then the body's.
HeadUnit(i) == [id |-> i, place |-> 0]
BodyUnit(i, k) == [id |-> i, place |-> k]

SendHead(r) ==
  /\ client = "open" /\ Open
  /\ owed = 0 /\ Len(reqs) < MaxRequests
  /\ reqs' = Append(reqs, r)
  /\ owed' = r.body
  /\ wire' = Append(wire, HeadUnit(Len(reqs) + 1))
  /\ UNCHANGED <<client, buf, connected, pc, serving, garbled, need, status,
                 responses>>

SendBody ==
  /\ client = "open" /\ Open
  /\ owed > 0
  /\ owed' = owed - 1
  /\ wire' = Append(wire, BodyUnit(Len(reqs), reqs[Len(reqs)].body - owed + 1))
  /\ UNCHANGED <<reqs, client, buf, connected, pc, serving, garbled, need,
                 status, responses>>

\* What a closing client has sent stays to be read; a reset may discard it.
ClientEnds(how) ==
  /\ client = "open"
  /\ client' = how
  /\ UNCHANGED <<reqs, owed, wire, buf, connected, pc, serving, garbled, need,
                 status, responses>>

------------------------------------------------------------------------------
(* recv().  Every wait of the worker on its client is one.                   *)

\* readline() and read() call recv() when sockbuff_ is empty; read(out, 0),
\* for a request without a body, does too.
Waiting == pc \in {"header", "body", "appbody", "drain"} /\ buf = <<>>

Recv ==
  /\ Waiting
  /\ \E k \in 1 .. Len(wire) :
       /\ buf' = SubSeq(wire, 1, k)
       /\ wire' = SubSeq(wire, k + 1, Len(wire))
  /\ UNCHANGED <<clientVars, connected, pc, serving, garbled, need, status,
                 responses>>

\* Mutant of RecvFails: no receive timeout on the socket.
RecvFailsNoTimeout ==
  client = "reset" \/ (client = "closed" /\ wire = <<>>)

\* End of stream, a reset, or RECV_TIMEOUT_SEC without data.
RecvFails == wire = <<>> \/ client = "reset"

------------------------------------------------------------------------------
(* Header lines, up to the empty line.                                      *)

\* Mutant of HeaderRecvFails: the response is not guarded by connected.
HeaderRecvFailsAnswers ==
  /\ pc = "header" /\ Waiting /\ RecvFails
  /\ connected' = FALSE
  /\ pc' = "respond"
  /\ status' = "400"
  /\ UNCHANGED <<clientVars, wire, buf, serving, garbled, need, responses>>

\* The connection is dropped: status is 400, but only a connected socket is
\* sent a response.
HeaderRecvFails ==
  /\ pc = "header" /\ Waiting /\ RecvFails
  /\ connected' = FALSE
  /\ pc' = "closed"
  /\ UNCHANGED <<clientVars, wire, buf, serving, garbled, need, status,
                 responses>>

\* Lines longer than max_header_total_length before an empty one: a block that
\* is, or left-over body.
ReadOverlong ==
  /\ pc = "header" /\ buf # <<>>
  /\ Head(buf).place = 0 /\ ~garbled => reqs[Head(buf).id].kind = "overlong"
  /\ connected' = FALSE
  /\ pc' = "closed"
  /\ buf' = Tail(buf)
  /\ UNCHANGED <<clientVars, wire, serving, garbled, need, status, responses>>

\* A body unit in the place of a header is read as header lines; empty lines in
\* front of the first are skipped.
ReadBodyAsHeader ==
  /\ pc = "header" /\ buf # <<>>
  /\ Head(buf).place # 0
  /\ garbled' \in {garbled, TRUE}
  /\ buf' = Tail(buf)
  /\ UNCHANGED <<clientVars, wire, connected, pc, serving, need, status,
                 responses>>

\* What header lines make that begin with somebody's body: a line of too few
\* words, or any request there is.
Misread == {r \in Requests : r.kind # "overlong"} \cup {NoRequest}

Route(r) == IF r.kind \in {"post", "postapp"} THEN "body"
            ELSE IF r.kind = "app" THEN "gateway" ELSE "respond"

\* The status decided before or without a handler that reads the body.
EarlyStatuses == [badline |-> "400", refused |-> "refused", sock |-> "101"]
EarlyStatus(r) ==
  IF r.kind \in DOMAIN EarlyStatuses THEN EarlyStatuses[r.kind] ELSE "done"

ReadHead ==
  /\ pc = "header" /\ buf # <<>>
  /\ Head(buf).place = 0
  /\ LET i == Head(buf).id
     IN  /\ reqs[i].kind # "overlong"
         /\ IF garbled
            THEN id' = 0 /\ cur' \in Misread
            ELSE id' = i /\ cur' = reqs[i]
  /\ buf' = Tail(buf)
  /\ garbled' = FALSE
  /\ consumed' = FALSE
  /\ pc' = Route(cur')
  /\ need' = cur'.body
  /\ status' = EarlyStatus(cur')
  /\ UNCHANGED <<clientVars, wire, connected, responses>>

\* The empty line was at the end of what was read as header lines.
ReadMisread ==
  /\ pc = "header" /\ garbled
  /\ id' = 0 /\ cur' \in Misread
  /\ garbled' = FALSE
  /\ consumed' = FALSE
  /\ pc' = Route(cur')
  /\ need' = cur'.body
  /\ status' = EarlyStatus(cur')
  /\ UNCHANGED <<clientVars, wire, buf, connected, responses>>

------------------------------------------------------------------------------
(* Reading a body.                                                           *)

\* A unit of the request's own body is taken whole.  One of somebody else's, or
\* the rest of one, may be less than what is wanted, or more.
TakeUnit ==
  \/ /\ buf # <<>> /\ Head(buf).id = id
     /\ buf' = Tail(buf) /\ need' = need - 1 /\ garbled' = FALSE
  \/ /\ buf # <<>> /\ Head(buf).id # id
     /\ buf' = Tail(buf) /\ need' \in 0 .. need /\ garbled' \in BOOLEAN
  \/ /\ garbled
     /\ buf' = buf /\ need' = 0 /\ garbled' \in BOOLEAN

(* do_post() reads the body before it looks at the path.                     *)

AfterBody == IF cur.kind = "postapp" THEN "gateway" ELSE "respond"

\* read_content(): the last unit, or none to read and something buffered.
BodyRead ==
  /\ pc = "body"
  /\ IF need > 0 THEN TakeUnit
                 ELSE buf # <<>> /\ UNCHANGED <<buf, need, garbled>>
  /\ IF need' = 0 THEN pc' = AfterBody /\ consumed' = TRUE
                  ELSE UNCHANGED <<pc, consumed>>
  /\ UNCHANGED <<clientVars, wire, connected, id, cur, status, responses>>

\* The handler goes on with what it got; the response is still sent.
BodyRecvFails ==
  /\ pc = "body" /\ Waiting /\ RecvFails
  /\ connected' = FALSE
  /\ consumed' = TRUE
  /\ pc' = AfterBody
  /\ UNCHANGED <<clientVars, wire, buf, id, cur, garbled, need, status,
                 responses>>

------------------------------------------------------------------------------
(* invoke_fastcgi(), seen from the connection.                               *)

\* 503: no backend; 502: the begin or params record cannot be written.
GatewayFails ==
  /\ pc = "gateway"
  /\ status' \in {"502", "503"}
  /\ pc' = "respond"
  /\ UNCHANGED <<clientVars, wire, buf, connected, serving, garbled, need,
                 responses>>

\* The body is read, again for a POST, in chunks of one STDIN record.
GatewayStarts ==
  /\ pc = "gateway"
  /\ need' = cur.body
  /\ pc' = IF cur.body > 0 THEN "appbody" ELSE "appwait"
  /\ UNCHANGED <<clientVars, wire, buf, connected, serving, garbled, status,
                 responses>>

ChunkPassedOn ==
  /\ pc = "appbody"
  /\ TakeUnit
  /\ consumed' = TRUE
  /\ pc' = IF need' = 0 THEN "appwait" ELSE "appbody"
  /\ UNCHANGED <<clientVars, wire, connected, id, cur, status, responses>>

\* The backend does not take the record: 502, whatever is left of the body.
ChunkRefused ==
  /\ pc = "appbody"
  /\ TakeUnit
  /\ consumed' = TRUE
  /\ status' = "502"
  /\ pc' = "respond"
  /\ UNCHANGED <<clientVars, wire, connected, id, cur, responses>>

\* client_body_error
ChunkRecvFails ==
  /\ pc = "appbody" /\ Waiting /\ RecvFails
  /\ connected' = FALSE
  /\ consumed' = TRUE
  /\ status' = "400"
  /\ pc' = "respond"
  /\ UNCHANGED <<clientVars, wire, buf, id, cur, garbled, need, responses>>

\* The answer, or 502 when there is none; the records of the request may still
\* fail to be written.
GatewayAnswers ==
  /\ pc = "appwait"
  /\ status' \in {"done", "502"}
  /\ pc' = "respond"
  /\ UNCHANGED <<clientVars, wire, buf, connected, serving, garbled, need,
                 responses>>

\* A record that is not STDOUT, without content or padding: its header is looked
\* at for ever (FcgiRecords).
GatewaySpins ==
  /\ pc = "appwait"
  /\ pc' = "spin"
  /\ UNCHANGED <<clientVars, wire, buf, connected, serving, garbled, need, status,
                 responses>>

------------------------------------------------------------------------------
(* The response and what follows it.                                        *)

\* request.content_length: not stored when the request line or an earlier
\* check failed.
ContentLength == IF cur.kind \in {"badline", "refused"} THEN 0 ELSE cur.body

\* Mutant of KeepAlive: the Connection header is not looked at.
KeepAliveAnyway == cur.kind # "badline"

KeepAlive == ~cur.close /\ cur.kind # "badline"

\* Mutant of LeftToDrain: content_consumed is not looked at.
DrainAnyway == ContentLength > 0 /\ connected

\* The rest of a body that no handler has touched is drained.
LeftToDrain == ContentLength > 0 /\ ~consumed /\ connected

AfterResponse ==
  IF status = "101" THEN "websocket"
  ELSE IF LeftToDrain THEN "drain"
  ELSE IF KeepAlive /\ connected THEN "header" ELSE "closed"

SendResponse ==
  /\ pc = "respond"
  /\ responses' = Append(responses,
                         [id |-> id, req |-> cur, status |-> status])
  /\ pc' = AfterResponse
  /\ need' = IF pc' = "drain" THEN ContentLength ELSE need
  /\ UNCHANGED <<clientVars, wire, buf, connected, serving, garbled, status>>

\* send() fails with an error: SEND_TIMEOUT_SEC with a client that does not read,
\* or the client has reset the connection.
SendFails ==
  /\ pc = "respond"
  /\ connected' = FALSE
  /\ pc' = "closed"
  /\ UNCHANGED <<clientVars, wire, buf, serving, garbled, need, status,
                 responses>>

Drain ==
  /\ pc = "drain"
  /\ TakeUnit
  /\ pc' = IF need' > 0 THEN "drain"
           ELSE IF KeepAlive THEN "header" ELSE "closed"
  /\ UNCHANGED <<clientVars, wire, connected, serving, status, responses>>

DrainRecvFails ==
  /\ pc = "drain" /\ Waiting /\ RecvFails
  /\ connected' = FALSE
  /\ pc' = "closed"
  /\ UNCHANGED <<clientVars, wire, buf, serving, garbled, need, status,
                 responses>>

\* After a 101 the socket is read directly, past sockbuff_, until the client
\* or a frame ends it.
WebSocketRecv ==
  /\ pc = "websocket" /\ wire # <<>>
  /\ wire' = <<>>
  /\ pc' \in {"websocket", "closed"}
  /\ UNCHANGED <<clientVars, buf, connected, serving, garbled, need, status,
                 responses>>

WebSocketRecvFails ==
  /\ pc = "websocket" /\ RecvFails
  /\ pc' = "closed"
  /\ UNCHANGED <<clientVars, wire, buf, connected, serving, garbled, need,
                 status, responses>>

\* SIGPIPE: nothing in the server ignores it.  This worker has written to a
\* client or a backend that is gone, or another one of the process has.
ServerDies ==
  /\ pc # "dead"
  /\ pc' = "dead"
  /\ UNCHANGED <<clientVars, wire, buf, connected, serving, garbled, need, status,
                 responses>>

\* shutdown(), close(), and the next accept().
NextConnection ==
  /\ pc = "closed"
  /\ reqs' = <<>> /\ owed' = 0 /\ client' = "open"
  /\ wire' = <<>> /\ buf' = <<>>
  /\ connected' = TRUE
  /\ pc' = "header"
  /\ id' = 0 /\ cur' = NoRequest /\ consumed' = FALSE
  /\ garbled' = FALSE /\ need' = 0 /\ status' = "none"
  /\ responses' = <<>>

Client ==
  \/ \E r \in Requests : SendHead(r)
  \/ SendBody
  \/ \E how \in {"closed", "reset"} : ClientEnds(how)

Worker ==
  \/ Recv
  \/ HeaderRecvFails \/ ReadOverlong \/ ReadBodyAsHeader \/ ReadHead
  \/ ReadMisread
  \/ BodyRead \/ BodyRecvFails
  \/ GatewayFails \/ GatewayStarts \/ ChunkPassedOn \/ ChunkRefused
  \/ ChunkRecvFails \/ GatewayAnswers \/ GatewaySpins
  \/ SendResponse \/ SendFails
  \/ Drain \/ DrainRecvFails
  \/ WebSocketRecv \/ WebSocketRecvFails

Next == Client \/ Worker \/ ServerDies \/ NextConnection

Spec == Init /\ [][Next]_vars

\* The thread is scheduled; recv() and send() have timeouts, and so have the
\* reads and writes of the gateway.
FairSpec == Spec /\ WF_vars(Worker)

------------------------------------------------------------------------------
(* Properties                                                               *)

Places == {"header", "body", "gateway", "appbody", "appwait", "respond",
           "drain", "websocket", "spin", "closed", "dead"}
Statuses == {"none", "done", "101", "400", "refused", "502", "503"}
Units == [id : 1 .. MaxRequests, place : Nat]
Responses == [id : 0 .. MaxRequests, req : RequestRecords, status : Statuses]

TypeOK ==
  /\ reqs \in Seq(Requests) /\ Len(reqs) <= MaxRequests
  /\ owed \in Nat
  /\ client \in {"open", "closed", "reset"}
  /\ wire \in Seq(Units) /\ buf \in Seq(Units)
  /\ connected \in BOOLEAN
  /\ pc \in Places
  /\ id \in 0 .. Len(reqs) /\ cur \in RequestRecords
  /\ garbled \in BOOLEAN /\ consumed \in BOOLEAN
  /\ need \in Nat
  /\ status \in Statuses
  /\ responses \in Seq(Responses)
  /\ \A k \in 1 .. Len(responses) : responses[k].id <= Len(reqs)

\* Request i has arrived completely.
Whole(i) == i < Len(reqs) \/ owed = 0

\* Three answers leave body bytes behind: a request refused before its
\* Content-Length was stored, a body the backend stopped taking half-way, and
\* a POST to /app, whose body is read twice (into the next request).
LeavesBody(a) ==
  \/ a.req.kind = "refused" /\ a.req.body > 0
  \/ a.req.kind = "app" /\ a.req.body > 1 /\ a.status = "502"
  \/ a.req.kind = "postapp" /\ a.req.body > 0

\* The responses up to the first of them, that one included.
InStep ==
  LET out == {k \in 1 .. Len(responses) : LeavesBody(responses[k])}
  IN  {k \in 1 .. Len(responses) : \A j \in out : k <= j}
Desynchronised == \E k \in 1 .. Len(responses) : LeavesBody(responses[k])

\* Between two requests the worker stands exactly at the header of the first
\* request it has not answered: no handler reads less than the body it was
\* sent, none reads into the next request, except behind those three answers.
Aligned ==
  pc = "header" /\ ~Desynchronised =>
    LET rest == buf \o wire
    IN  /\ ~garbled
        /\ rest = <<>> => Len(responses) = Len(reqs) /\ owed = 0
        /\ rest # <<>> => rest[1] = HeadUnit(Len(responses) + 1)

\* The client's view: one answer per request, in order, as long as no answer
\* has left body bytes behind.
Promise == INSTANCE RequestResponse
             WITH asked   <- Len(reqs),
                  answers <- [k \in 1 .. Cardinality(InStep) |->
                                responses[k].id],
                  open    <- Open
AnswersInOrder == Promise!Spec

\* The worker gives up a client that still owes it nothing.
TimesOutOnWholeRequest ==
  /\ connected /\ ~connected' /\ client = "open" /\ id > 0
  /\ pc \in {"body", "appbody", "drain"}
  /\ Whole(id)

\* It holds for all but a POST without a body and a POST to /app.
TimeoutHasCause ==
  [][ TimesOutOnWholeRequest =>
        cur.kind = "postapp" \/ (cur.kind = "post" /\ cur.body = 0) ]_vars

EndsConnection(r) == r.close \/ r.kind \in {"badline", "sock", "overlong"}

\* Nothing is answered behind an answer that closed the connection, and no
\* request is answered twice or out of turn, desynchronised or not.
OneAnswerEach ==
  \A j, k \in 1 .. Len(responses) :
    j < k => /\ ~EndsConnection(responses[j].req)
             /\ responses[j].id > 0 /\ responses[k].id > 0
                  => responses[j].id < responses[k].id

\* A client that falls silent, or does not read, does not hold the worker: it
\* comes back to accept(), unless a backend's record has it spin or the server
\* dies of SIGPIPE.
WorkerReturns == []<>(pc \in {"closed", "spin", "dead"})

\* The worker and its client stay in step.
RequestsInStep == TypeOK /\ Aligned /\ OneAnswerEach

===============================================================================
