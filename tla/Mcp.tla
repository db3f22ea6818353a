---------------------------------- MODULE Mcp ---------------------------------
(***************************************************************************)
(* The MCP endpoint: what mcp_parse_request() makes of the events of a     *)
(* JSON reader, and what do_post() and the on_mcp_... handlers of          *)
(* src/serv/main.cpp answer, with src/serv/mcp.cpp.                        *)
(*                                                                         *)
(* An answer is its status, the units of the response's content (see       *)
(* HttpText), and the calls that write its JSON text.  Text("data") stands *)
(* for that text.  The sum that the tool "add" computes is the pair of its *)
(* arguments.                                                              *)
(***************************************************************************)
EXTENDS Json, HttpText

\* The calls of the writer: an object or array with its name, the end of one,
\* and values.
Start(bracket, name) == [op |-> bracket, name |-> name, v |-> ""]
End == [op |-> "end", name |-> "", v |-> ""]
Value(type, name, text) == [op |-> type, name |-> name, v |-> text]

OpenBrackets(calls) ==
  FoldLeft(LAMBDA open, c : CASE c.op = "end" -> Front(open)
                              [] c.op \in {"{", "["} -> Append(open, c.op)
                              [] OTHER -> open,
           <<>>, calls)

Call(w, c, open) ==
  CASE c.op = "end" -> EndBlock(w, IF open = "{" THEN "}" ELSE "]")
    [] c.op \in {"{", "["} -> PrintStart(w, c.name, c.op)
    [] OTHER -> PrintValue(w, c.name, Token(c.op, c.v))

\* The document that these calls write.
Written(calls) ==
  FoldLeft(LAMBDA acc, c :
             LET open == OpenBrackets(acc.done)
             IN  [done |-> Append(acc.done, c),
                  w |-> Call(acc.w, c, IF open = <<>> THEN "" ELSE Last(open))],
           [done |-> <<>>, w |-> NewWriter], calls).w.out

-----------------------------------------------------------------------------
(* The request.                                                            *)

In(key) == [key |-> key, b |-> "{"]
Root == <<In("")>>
Params == Root \o <<In("params")>>

Field(f, open, key) == [f |-> f, open |-> open, key |-> key]

TextFields == {
  Field("jsonrpc", Root, "jsonrpc"), Field("method", Root, "method"),
  Field("version", Params, "protocolVersion"), Field("name", Params, "name"),
  Field("client", Params \o <<In("clientInfo")>>, "name")}

NoRequest ==
  [jsonrpc |-> "", method |-> "", version |-> "", name |-> "", client |-> "",
   id |-> [kind |-> "missing", v |-> "0"], arguments |-> <<>>]

IdKind == [String |-> "string", Number |-> "number", Null |-> "word"]

\* Mutant of Take: the parameters' level is not looked at.
TakeAnyLevel(req, d) ==
  LET text == {f \in TextFields : is_value(d) /\ f.key = d.key}
  IN  CASE text # {} ->
             [req EXCEPT ![(CHOOSE f \in text : TRUE).f] = d.string]
        [] match(d, Params \o <<In("arguments")>>, "*") ->
             [req EXCEPT !.arguments =
                Append(@, [name |-> d.key, v |-> d.string])]
        [] match(d, Root, "id") /\ state(d) \in DOMAIN IdKind ->
             [req EXCEPT !.id = [kind |-> IdKind[state(d)], v |-> d.string]]
        [] OTHER -> req

\* One turn of the loop in mcp_parse_request().
Take(req, d) ==
  LET text == {f \in TextFields : match(d, f.open, f.key)}
  IN  CASE text # {} ->
             [req EXCEPT ![(CHOOSE f \in text : TRUE).f] = d.string]
        [] match(d, Params \o <<In("arguments")>>, "*") ->
             [req EXCEPT !.arguments =
                Append(@, [name |-> d.key, v |-> d.string])]
        [] match(d, Root, "id") /\ state(d) \in DOMAIN IdKind ->
             [req EXCEPT !.id = [kind |-> IdKind[state(d)], v |-> d.string]]
        [] OTHER -> req

\* find_argument(): the first of this name, "" when there is none.
Argument(req, name) ==
  LET found == {i \in DOMAIN req.arguments : req.arguments[i].name = name}
  IN  IF found = {} THEN "" ELSE req.arguments[Min(found)].v

-----------------------------------------------------------------------------
(* The answers.                                                            *)

mcp_write_id(id) == IF id.kind = "missing" THEN Value("number", "id", id.v)
                    ELSE Value(id.kind, "id", id.v)

Object(name, calls) == <<Start("{", name)>> \o calls \o <<End>>
List(name, calls) == <<Start("[", name)>> \o calls \o <<End>>

Reply(id, name, calls) ==
  Object("", <<Value("string", "jsonrpc", "2.0"), mcp_write_id(id)>>
             \o Object(name, calls))

ErrorReply(id, code) ==
  Reply(id, "error", <<Value("number", "code", code),
                       Value("string", "message", "text")>>)

Unchanging(name) == Object(name, <<Value("word", "listChanged", "false")>>)

InitializeReply(id) ==
  Reply(id, "result",
        <<Value("string", "protocolVersion", "2025-11-25")>>
        \o Object("capabilities", Object("experimental", <<>>)
                                  \o Unchanging("prompts")
                                  \o Unchanging("tools"))
        \o Object("serverInfo", <<Value("string", "name", "Demo2")>>))

make_tools_list_json(id) ==
  LET Schema(kind, names) ==
        Object(kind,
               Object("properties",
                      FoldLeft(LAMBDA c, n :
                                 c \o Object(n, <<Value("string", "type",
                                                        "number")>>),
                               <<>>, names))
               \o List("required", [i \in DOMAIN names |->
                                      Value("string", "", names[i])])
               \o <<Value("string", "type", "object")>>)
  IN  Reply(id, "result",
            List("tools", Object("", <<Value("string", "name", "add")>>
                                     \o Schema("inputSchema", <<"a", "b">>)
                                     \o Schema("outputSchema", <<"result">>))))

Sum(req) == Argument(req, "a") \o "+" \o Argument(req, "b")

CallReply(req) ==
  Reply(req.id, "result",
        List("content", Object("", <<Value("string", "type", "text"),
                                     Value("string", "text", Sum(req))>>))
        \o Object("structuredContent",
                  <<Value("string", "result", Sum(req))>>)
        \o <<Value("word", "isError", "false")>>)

Event == <<Text("event: message")>> \o Blank \o <<Text("data")>>
         \o Blank \o Blank

\* make_chunk(), and the last chunk.
Size(n) == [t |-> "size", v |-> n]
Chunk(units) == <<Size(Len(units))>> \o Blank \o units

\* Mutant of LastChunk: nothing ends the first chunk.
LastChunkOnly == <<Size(0)>> \o Blank \o Blank

LastChunk == Blank \o <<Size(0)>> \o Blank \o Blank

EventStream == Header("Content-Type", "text/event-stream")
Session(id) == IF id = "" THEN <<>> ELSE Header("mcp-session-id", id)

Answer(status, content, calls) ==
  [status |-> status, content |-> content, calls |-> calls]

Message(session, calls) ==
  Answer(200, EventStream \o Session(session) \o Blank \o Event, calls)

WellFormedIds == {"a1", "new"}

\* The host is what stands before the next colon or slash.
mcp_origin_allowed(origin) ==
  LET rest == IF Len(origin) > 1 /\ origin[2] = "://"
              THEN SubSeq(origin, 3, Len(origin)) ELSE origin
  IN  origin = <<>>
      \/ Before(rest, {":", "/"}) \in {<<"localhost">>, <<"127.0.0.1">>}

\* The part of do_post() behind tools_.find(): a request that has been read.
Post(req, origin, session) ==
  CASE ~mcp_origin_allowed(origin) -> Answer(403, <<>>, <<>>)
    [] req.jsonrpc # "2.0" \/ req.method = "" ->
         Message("", ErrorReply(req.id, "-32600"))
    [] req.method = "initialize" ->
         IF req.version = "" THEN Message("", ErrorReply(req.id, "-32602"))
         ELSE Answer(200, EventStream \o Session("new")
                          \o Header("Transfer-Encoding", "chunked") \o Blank
                          \o Chunk(Event) \o LastChunk,
                     InitializeReply(req.id))
    [] session \notin WellFormedIds -> Answer(400, EventStream, <<>>)
    [] req.method = "notifications/initialized" ->
         Answer(202, EventStream \o Blank, <<>>)
    [] req.method = "tools/list" ->
         Message(session, make_tools_list_json(req.id))
    [] req.method = "tools/call" ->
         Message(session, IF req.name = "add" THEN CallReply(req)
                          ELSE ErrorReply(req.id, "-32602"))
    [] OTHER -> Message(session, ErrorReply(req.id, "-32601"))

=============================================================================
