------------------------------- MODULE Endpoints ------------------------------
(***************************************************************************)
(* One request and its answer, from the request line to what is sent:      *)
(* HTTP_Thread::run() and http_process_request() of                        *)
(* src/serv/httpserver.cpp, and do_get() and do_post() of main.cpp with    *)
(* what they call.  A client of the MCP endpoint writes its JSON with the  *)
(* writer of jstream.h; the server reads it one event at a time.           *)
(*                                                                         *)
(* The reading of bytes from the socket is the subject of HttpConnection,  *)
(* and the exchange with the application that of FcgiGateway and           *)
(* FcgiExchange: here a request is there, and so is what the application   *)
(* wrote.                                                                  *)
(*                                                                         *)
(* Every name of a path is one character: /a is /app, /s /sock, /m /mcp,   *)
(* /h /hello, and /i the file index.html.                                  *)
(***************************************************************************)
EXTENDS Mcp, Encodings

CONSTANTS
  Requests,   \* requests, with what the application answers to each
  Documents,  \* JSON documents a client of the MCP endpoint sends
  Names,      \* names in the documents it makes up
  MaxCalls,   \* bound on the calls that write such a document
  MaxNest,    \* bound on the loops nested in one another that read it
  DocumentRoot,
              \* of static files, a path
  Kind,       \* the files of the system: "whole", "short" (shrinks while it
              \* is read) or "large"
  Hash,       \* external: SHA-1 of each WebSocket key with the fixed text
  KeyLength, KeyBytes, \* characters of such a key, and bytes it stands for
  Known       \* the statuses in httpstatus.txt

ASSUME EndpointsAssumption ==
  /\ DocumentRoot \in Seq(STRING)
  /\ \A req \in Requests : req.uri \in Seq(STRING)

VARIABLES
  stage,      \* "client", "reading", "dispatch", "assemble", "done"
  request,
  calls,      \* what the client has written of its document
  reader,     \* the server's reader of it
  events,     \* the events that next() returned
  mcp,        \* the McpRequest
  opened,     \* the file the server has opened
  params,     \* what the application gets as its environment
  answer,     \* status and content that the handler has left
  wire        \* what is sent

handled == <<opened, params, answer, wire>>
endpointsVars == <<stage, request, calls, reader, events, mcp,
                    opened, params, answer, wire>>

-----------------------------------------------------------------------------
(* What the server's thread looks at first.                                *)

RequestHeader(req, n) == header_value(req.header, n)
Count(req, n) == Len(SelectSeq(req.header, LAMBDA u : u.n = n))

\* The tokens of a Connection header.
Tokens(v) == IF v = "keep-alive, Upgrade" THEN {"keep-alive", "Upgrade"}
             ELSE {v}

KeepAlive(req) ==
  LET tokens == Tokens(RequestHeader(req, "Connection"))
  IN  /\ req.words >= 3
      /\ "close" \notin tokens
      /\ "keep-alive" \in tokens \/ req.minor >= 1

\* The status of a request that no handler sees, 0 for one that a handler does.
Refused(req) ==
  CASE req.words < 3 -> 400
    [] Count(req, "Host") > 1 -> 400
    [] req.minor >= 1 /\ Count(req, "Host") # 1 -> 400
    [] RequestHeader(req, "Transfer-Encoding") # "" -> 501
    [] RequestHeader(req, "Expect") # "" -> 417
    [] /\ RequestHeader(req, "Content-Length") # ""
       /\ Count(req, "Content-Length") > 1 -> 400
    [] RequestHeader(req, "Content-Length") = "bad" -> 413
    [] req.method \notin {"GET", "POST"} -> 405
    [] ~validate_url(req.uri) -> 400
    [] OTHER -> 0

-----------------------------------------------------------------------------
(* The handlers.                                                           *)

Plain(status) == Answer(status, <<>>, <<>>)

\* invoke_fastcgi() behind the exchange; <<>> is an exchange that failed.
FromApp(req) ==
  LET passed == sanitize(req.app, Known)
  IN  IF req.app = <<>> \/ passed.status = 0 THEN Plain(502)
      ELSE Answer(passed.status, passed.content, <<>>)

Environment(req) ==
  makeEnvironment(req.method, "HTTP", req.uri,
                  RequestHeader(req, "Content-Type"),
                  RequestHeader(req, "Content-Length"))

Accepted(key) ==
  Header("Upgrade", "websocket") \o Header("Connection", "Upgrade")
    \o Header("Sec-WebSocket-Accept", base64_encode(Hash[key])) \o Blank

Sock(req) ==
  CASE \/ RequestHeader(req, "Upgrade") # "websocket"
       \/ "Upgrade" \notin Tokens(RequestHeader(req, "Connection")) ->
         Plain(400)
    [] RequestHeader(req, "Sec-WebSocket-Version") # "13" ->
         Answer(426, Header("Sec-WebSocket-Version", "13") \o Blank, <<>>)
    [] ~valid_websocket_key(req.key, KeyLength, KeyBytes) -> Plain(400)
    [] OTHER -> Answer(101, Accepted(req.key), <<>>)

Hello == Header("Content-Type", "text/plain") \o Header("Connection", "close")
           \o Blank \o <<Text("Hello")>>

\* serve_static_file(): what it has written stays when the file ends early.
Static(file) ==
  LET kind == IF file \in DOMAIN Kind THEN Kind[file] ELSE "absent"
      header == Header("Content-Type", "of the file") \o Blank
  IN  CASE kind = "whole" -> Answer(200, header \o <<Text("file")>>, <<>>)
        [] kind = "short" -> Answer(404, header \o <<Text("part")>>, <<>>)
        [] OTHER -> Plain(404)

ToApp(req) ==
  /\ Refused(req) = 0
  /\ <<"/", "a">> = IF req.method = "GET" THEN GetPath(req.uri)
                    ELSE PostPath(req.uri)

\* The file that a request has the server open, <<>> for none.
Opens(req) ==
  IF /\ Refused(req) = 0 /\ req.method = "GET"
     /\ GetPath(req.uri) \notin {<<"/", x>> : x \in {"a", "s", "m", "h"}}
  THEN FileOf(DocumentRoot, GetPath(req.uri)) ELSE <<>>

do_get(req) ==
  LET to == GetPath(req.uri)
  IN  CASE to = <<"/", "a">> -> FromApp(req)
        [] to = <<"/", "s">> -> Sock(req)
        [] to = <<"/", "m">> -> Plain(400)
        [] to = <<"/", "h">> -> Answer(200, Hello, <<>>)
        [] OTHER -> Static(Opens(req))

do_post(req) ==
  LET to == PostPath(req.uri)
  IN  CASE to = <<"/", "a">> -> FromApp(req)
        [] to = <<"/", "m">> ->
             Post(mcp, req.origin, RequestHeader(req, "mcp-session-id"))
        [] OTHER -> Plain(405)

-----------------------------------------------------------------------------
(* The answer is put together.                                             *)

Filled(a) == IF a.status >= 400 /\ a.content = <<>>
             THEN Header("Content-Type", "text/plain") \o Blank
                    \o <<Text("status")>>
             ELSE a.content

\* Whether the handler has switched the connection to the WebSocket protocol.
Switches(a) ==
  \E i \in DOMAIN a.content : a.content[i] = Line("Upgrade", "websocket")

\* Nothing is sent when there is no content: only a status below 400 is left.
Assembled(a, keep) ==
  LET parsed == parse_header(Filled(a))
      length == IF \/ header_value(parsed.header, "Transfer-Encoding")
                        = "chunked"
                   \/ a.status = 101
                THEN <<>>
                ELSE <<Line("Content-Length", ToString(Len(parsed.content)))>>
      alive == IF keep THEN <<Line("Connection", "keep-alive")>> ELSE <<>>
  IN  IF Filled(a) = <<>> THEN [sent |-> FALSE, keeps |-> keep]
      ELSE [sent |-> TRUE, keeps |-> keep, status |-> a.status,
            header |-> Deduped(parsed.header \o length \o alive),
            body |-> IF a.status = 101 THEN <<>> ELSE parsed.content]

-----------------------------------------------------------------------------
(* Steps.                                                                  *)

ToMcp(req) == /\ Refused(req) = 0
              /\ req.method = "POST" /\ PostPath(req.uri) = <<"/", "m">>
              /\ mcp_origin_allowed(req.origin)

EndpointsInit ==
  /\ request \in Requests
  /\ stage = IF ToMcp(request) THEN "client" ELSE "dispatch"
  /\ calls = <<>>
  /\ reader = NewReader(<<>>)
  /\ events = <<>>
  /\ mcp = NoRequest
  /\ opened = <<>>
  /\ params = <<>>
  /\ answer = Plain(0)
  /\ wire = [sent |-> FALSE]

\* What a client may write next: a value or a container, with a name in an
\* object, or the end of the container.
Possible(open) ==
  LET names == IF open # <<>> /\ Last(open) = "{" THEN Names ELSE {""}
      values == IF open = <<>> THEN {}
                ELSE {Value(v[1], n, v[2]) :
                        n \in names, v \in {<<"string", "text">>,
                                            <<"number", "1">>,
                                            <<"word", "null">>}}
  IN  values \cup {Start(b, n) : b \in {"{", "["}, n \in names}
             \cup (IF open = <<>> THEN {} ELSE {End})

EventOf(d) == [s |-> state(d), open |-> path(d).open, key |-> path(d).key,
               v |-> IF is_constant(d) THEN d.string ELSE ""]

Send(document) ==
  /\ stage' = "reading"
  /\ calls' = document
  /\ reader' = NewReader(Written(document))
  /\ UNCHANGED <<request, events, mcp, handled>>

Write(c) ==
  LET written == Append(calls, c)
  IN  /\ stage = "client" /\ request.free
      /\ c \in Possible(OpenBrackets(calls))
      /\ Len(written) + Len(OpenBrackets(written)) <= MaxCalls
      /\ IF OpenBrackets(written) = <<>> THEN Send(written)
         ELSE calls' = written /\ UNCHANGED <<stage, request, reader, events,
                                            mcp, handled>>

SendDocument == /\ stage = "client" /\ calls = <<>>
                /\ \E d \in Documents : Send(d)

\* One turn of the loop in mcp_parse_request(): it ends when next() has no
\* event.  A nested loop ends as well, and the loop around it goes on.
Read ==
  /\ stage = "reading"
  /\ reader' = next(reader)
  /\ IF reader'.event
     THEN /\ events' = Append(events, EventOf(reader'))
          /\ mcp' = Take(mcp, reader')
          /\ stage' = stage
     ELSE /\ stage' = IF reader'.hold THEN stage ELSE "dispatch"
          /\ UNCHANGED <<events, mcp>>
  /\ UNCHANGED <<request, calls, handled>>

\* A caller of the reader that starts a loop of its own for a container.
Nest ==
  /\ stage = "reading" /\ request.free
  /\ reader.event /\ state(reader) \in {"StartObject", "StartArray"}
  /\ Len(reader.depth_stack) < MaxNest
  /\ \A i \in DOMAIN reader.depth_stack :
       reader.depth_stack[i] < Len(reader.depth)
  /\ reader' = nest(reader)
  /\ UNCHANGED <<stage, request, calls, events, mcp, handled>>

\* The handler, for a request that is not refused before.
Dispatch ==
  /\ stage = "dispatch"
  /\ stage' = "assemble"
  /\ answer' = CASE Refused(request) # 0 -> Plain(Refused(request))
                 [] request.method = "GET" -> do_get(request)
                 [] OTHER -> do_post(request)
  /\ opened' = Opens(request)
  /\ params' = IF ToApp(request) THEN write_fcgi_params(Environment(request))
               ELSE <<>>
  /\ UNCHANGED <<request, calls, reader, events, mcp, wire>>

Assemble ==
  /\ stage = "assemble"
  /\ stage' = "done"
  /\ wire' = Assembled(answer, KeepAlive(request) /\ ~Switches(answer))
  /\ UNCHANGED <<request, calls, reader, events, mcp, opened, params,
                 answer>>

EndpointsNext ==
  \/ \E c \in Possible(OpenBrackets(calls)) : Write(c)
  \/ SendDocument
  \/ Read
  \/ Nest
  \/ Dispatch
  \/ Assemble

EndpointsSpec == EndpointsInit /\ [][EndpointsNext]_endpointsVars

-----------------------------------------------------------------------------
(* What is promised.                                                       *)

\* The events that reading the document must give, and its values and ends of
\* containers, each with the containers around it and its key.
Meaning(document) ==
  FoldLeft(LAMBDA acc, c :
      LET top == Last(acc.at)
          outer == Front(acc.at)
          name == IF c.op = "end" THEN top.key ELSE c.name
          inner == Append(acc.at, [key |-> name, b |-> c.op])
          keyed == IF c.op = "end" \/ name = "" THEN <<>>
                   ELSE <<[s |-> "Key", open |-> acc.at, key |-> name,
                            v |-> ""]>>
          Ends(b) == IF b = "{" THEN "EndObject" ELSE "EndArray"
          Scalar == CASE c.op = "string" -> "String"
                      [] c.op = "number" -> "Number"
                      [] OTHER -> WordState[c.v]
          kind == CASE c.op = "end" -> Ends(top.b)
                    [] c.op = "{" -> "StartObject"
                    [] c.op = "[" -> "StartArray"
                    [] OTHER -> Scalar
          at == CASE c.op = "end" -> outer
                  [] c.op \in {"{", "["} -> inner
                  [] OTHER -> acc.at
          key == IF c.op \in {"{", "["} THEN "" ELSE name
      IN  [at |-> at,
           events |-> acc.events \o keyed
                        \o <<[s |-> kind, open |-> at, key |-> key,
                               v |-> c.v]>>,
           set |-> Append(acc.set, [s |-> kind, key |-> name, v |-> c.v,
                                    open |-> IF c.op = "end" THEN outer
                                             ELSE acc.at])],
    [at |-> <<>>, events |-> <<>>, set |-> <<>>], document)


\* One call of next() in that loop.
Onward(acc, d) ==
  IF acc.over THEN acc
  ELSE [d |-> d, over |-> ~d.event,
        events |-> IF d.event THEN Append(acc.events, EventOf(d))
                   ELSE acc.events]

ReadAll(document) ==
  FoldLeft(LAMBDA acc, k : Onward(acc, next(acc.d)),
           [d |-> NewReader(document), over |-> FALSE, events |-> <<>>],
           [k \in 1..(Len(document) + 1) |-> k])

\* What the writer has written the reader reads: every container, key and value
\* where it belongs, in order, without an error, in one loop or in nested ones.
\* This holds for the documents of clients and for those of the answers.
RoundTrip ==
  /\ (stage \in {"dispatch", "assemble", "done"} /\ calls # <<>>) =>
       (events = Meaning(calls).events /\ reader.errors = 0)
  /\ (stage = "done" /\ answer.calls # <<>>) =>
       \E read \in {ReadAll(Written(answer.calls))} :
         read.events = Meaning(answer.calls).events /\ read.d.errors = 0

\* The request that the MCP endpoint acts on is the one the client sent: every
\* field has the last value at its place in the document, an argument is a
\* member of params.arguments and of nothing else, and the answer's id is the
\* client's.  (A structure where a text belongs counts as "", and one among the
\* arguments as its own name.)
RequestUnderstood ==
  stage \in {"dispatch", "assemble", "done"} /\ calls # <<>> =>
    LET set == Meaning(calls).set
        LastAt(open, key, kinds, none) ==
          LET at == {i \in DOMAIN set : /\ set[i].open = open
                                        /\ set[i].key = key
                                        /\ set[i].s \in kinds}
          IN  IF at = {} THEN none ELSE set[Max(at)]
        arguments == SelectSeq(set, LAMBDA a :
                       /\ a.open = Params \o <<In("arguments")>>
                       /\ a.s \notin {"EndObject", "EndArray"})
        id == LastAt(Root, "id", DOMAIN IdKind, [s |-> "none"])
    IN  /\ \A f \in TextFields :
             mcp[f.f] = LastAt(f.open, f.key,
                              Constants \cup {"EndObject", "EndArray"},
                              [v |-> ""]).v
        /\ mcp.arguments = [i \in DOMAIN arguments |->
             [name |-> arguments[i].key,
              v |-> IF arguments[i].s \in Constants THEN arguments[i].v
                    ELSE arguments[i].key]]
        /\ mcp.id = IF id.s = "none" THEN NoRequest.id
                    ELSE [kind |-> IdKind[id.s], v |-> id.v]

NoBody == {101, 204, 304}

\* What a client decodes of a chunked body: its units, and whether it ended.
Dechunked(body) ==
  LET decode[i \in 1..(Len(body) + 1)] ==
        IF \/ i + 2 > Len(body)
           \/ body[i].t # "size" \/ SubSeq(body, i + 1, i + 2) # Blank
        THEN [ok |-> FALSE, rest |-> body]
        ELSE LET after == i + 3 + body[i].v
             IN  CASE \/ after + 1 > Len(body)
                      \/ SubSeq(body, after, after + 1) # Blank ->
                        [ok |-> FALSE, rest |-> body]
                   [] body[i].v = 0 ->
                        [ok |-> TRUE,
                         rest |-> SubSeq(body, after + 2, Len(body))]
                   [] OTHER -> decode[after + 2]
  IN  decode[1]

\* Every request is answered, and the client can tell where the answer ends: a
\* chunked body is complete and nothing follows it, any other body has the
\* length that the header says, and a status that allows no body has none.  (An
\* application that gives such a status and writes a body breaks this.)
Delimited ==
  stage = "done" =>
    /\ wire.sent
    /\ CASE wire.status \in NoBody -> wire.body = <<>> \/ ToApp(request)
         [] header_value(wire.header, "Transfer-Encoding") # "" ->
              Dechunked(wire.body) = [ok |-> TRUE, rest |-> <<>>]
         [] OTHER -> header_value(wire.header, "Content-Length")
                       = ToString(Len(wire.body))

\* An answer says that the connection stays open if and only if the server keeps
\* it open, whatever the handler or the application wrote about it.
ConnectionHonest ==
  stage = "done" /\ wire.sent =>
    (header_value(wire.header, "Connection") = "keep-alive") = wire.keeps

\* No request has the server open a file outside the document root: below it the
\* path never leaves the directory it started in.
StaysInside ==
  opened # <<>> =>
    /\ IsPrefix(DocumentRoot \o <<"/">>, opened)
    /\ Walk(Parts(SubSeq(opened, Len(DocumentRoot) + 1, Len(opened)))).ok

\* The answer of an application arrives as it was written: its end-to-end
\* headers, of several with one name the last, and its body.  The headers about
\* the connection and the length are the server's own.
AppHeaders ==
  stage = "done" /\ ToApp(request) /\ answer.status # 502 =>
    LET split == split_header_block(request.app)
        Own(u) == \/ u = Line("Content-Length", ToString(Len(wire.body)))
                  \/ u = Line("Connection", "keep-alive")
        Final(u) == header_value(Reverse(split.lines), u.n) = u.v
        passed == {u \in ToSet(split.lines) :
                     u.n \notin HopByHop \cup {"Status"} /\ Final(u)}
    IN  /\ {u \in ToSet(wire.header) : ~Own(u)} = passed
        /\ \A i, j \in DOMAIN wire.header :
             wire.header[i].n = wire.header[j].n => i = j
        /\ wire.status # 101 => wire.body = split.content

\* A WebSocket connection is only opened for a key that stands for enough bytes,
\* with padding nowhere but at its end, and the client gets the hash of its key.
Handshake ==
  stage = "done" /\ wire.keeps = FALSE /\ Switches(answer) =>
    /\ Len(request.key) = KeyLength
    /\ Len(base64_decode(request.key)) >= KeyBytes
    /\ base64_decode(header_value(wire.header, "Sec-WebSocket-Accept"))
         = Hash[request.key]

\* What an application reads of its environment, and what it finds there under
\* a name.
EnvRead == FCGX_ReadParams(params)
Told(name) == {p.v : p \in {q \in ToSet(EnvRead) : q.name = Chars(<<name>>)}}

\* The one value of a text, none of an empty one.
ValueOf(text) == IF text = "" THEN {} ELSE {<<Char(text)>>}

\* An application reads what the client asked for, a value whose length takes
\* four bytes included, and no name twice.  What follows the first question mark
\* is the query; a length of 0 is not told.  Nothing is said of HTTP_HOST,
\* HTTP_USER_AGENT, SCRIPT_NAME and PATH_INFO, which test/basic.sh:27-30 looks for:
\* makeEnvironment makes the first three with empty values, and the last not at all.
EnvironmentArrives ==
  params # <<>> =>
    /\ \A i, j \in DOMAIN EnvRead : EnvRead[i].name = EnvRead[j].name => i = j
    /\ Told("REQUEST_METHOD") = ValueOf(request.method)
    /\ Told("REQUEST_URI") = {Chars(request.uri)}
    /\ \E k \in 0..Len(request.uri) :
         /\ "?" \notin ToSet(SubSeq(request.uri, 1, k))
         /\ k < Len(request.uri) => request.uri[k + 1] = "?"
         /\ Told("QUERY_STRING")
              = {Chars(SubSeq(request.uri, k + 2, Len(request.uri)))}
    /\ Told("CONTENT_TYPE") = ValueOf(RequestHeader(request, "Content-Type"))
    /\ RequestHeader(request, "Content-Length") # "0" =>
         Told("CONTENT_LENGTH") = ValueOf(RequestHeader(request, "Content-Length"))

\* What is written as JSON is read as it was written, the client's requests by
\* the MCP endpoint, the endpoint's answers by the client.
DocumentsUnderstood == RoundTrip /\ RequestUnderstood

\* An answer says how long it is and what becomes of the connection: kept, closed,
\* or handed to the WebSocket handler after a handshake the client can verify.
AnswerFramed == Delimited /\ ConnectionHonest /\ Handshake

\* What the client asked for and what the application answered pass between them
\* unchanged.
AppExchange == EnvironmentArrives /\ AppHeaders

=============================================================================
