------------------------------ MODULE MCEndpoints -----------------------------
(***************************************************************************)
(* Requests for every way through the server: each handler, what stops a   *)
(* request before it, answers of an application that are right, odd and    *)
(* refused, and documents for each MCP method.                             *)
(***************************************************************************)
EXTENDS Endpoints

Host == Line("Host", "host")

Get(uri) ==
  [words |-> 3, method |-> "GET", uri |-> uri, minor |-> 1,
   header |-> <<Host>>, origin |-> <<>>, key |-> <<>>, app |-> <<>>,
   free |-> FALSE]
With(r, lines) == [r EXCEPT !.header = @ \o lines]
PostTo(uri, lines) == [With(Get(uri), lines) EXCEPT !.method = "POST"]

Keep == Line("Connection", "keep-alive")
Shut == Line("Connection", "close")

-----------------------------------------------------------------------------
(* What stops a request, and when the connection stays open.               *)

HelloUri == <<"/", "h">>

Connections ==
  {With(r, lines) :
     r \in {Get(HelloUri), [Get(HelloUri) EXCEPT !.minor = 0]},
     lines \in {<<>>, <<Keep>>, <<Shut>>}}

Stopped ==
  {[Get(HelloUri) EXCEPT !.words = 2],
   [Get(HelloUri) EXCEPT !.header = <<>>],
   [Get(HelloUri) EXCEPT !.method = "PUT"],
   Get(<<"x">>), Get(<<"/", "\\", "i">>)}
  \cup {With(Get(HelloUri), lines) :
          lines \in {<<Host>>, <<Line("Transfer-Encoding", "chunked")>>,
                     <<Line("Expect", "100-continue")>>,
                     <<Line("Content-Length", "bad")>>,
                     <<Line("Content-Length", "1"),
                       Line("Content-Length", "1")>>}}

-----------------------------------------------------------------------------
(* Files.  Below the root /r stand i, d/f and s; /x stands outside.        *)

McRoot == <<"/", "r">>
McKind ==
  [f \in {<<"/", "r", "/", "i">>, <<"/", "r", "/", "d", "/", "f">>} |->
     "whole"]
  @@ [f \in {<<"/", "r", "/", "c">>} |-> "short"]
  @@ [f \in {<<"/", "r", "/", "l">>} |-> "large"]
  @@ [f \in {<<"/", "x">>, <<"/", "r", "/", ".", ".", "/", "x">>} |-> "whole"]

Files ==
  {Get(uri) : uri \in
     {<<"/">>, <<"/", "i">>, <<"/", "/", "i", "/">>, <<"/", "i", "?", "/">>,
      <<"/", ".", "/", "d", "/", "f", "#">>, <<"/", "d", "/">>,
      <<"/", "c">>, <<"/", "l">>, <<"/", "n">>,
      <<"/", ".", ".", "/", "x">>,
      <<"/", "d", "/", ".", ".", "/", ".", ".", "/", "x">>,
      <<"/", "\"", ".", ".", "/", "x", "\"">>}}

-----------------------------------------------------------------------------
(* The application.                                                        *)

AppUri == <<"/", "a">>
McKnown == {101, 200, 204, 302, 404}
Type == Header("Content-Type", "text/html")
Body == <<Text("body")>>

AppAnswers ==
  {<<>>,
   Type \o Blank \o Body,
   Blank \o Blank \o Body,
   Header("Set-Cookie", "1") \o Type \o Header("Set-Cookie", "2") \o Blank,
   Header("Status", 404) \o Type \o Blank \o Body \o Blank \o Body,
   Header("Transfer-Encoding", "chunked") \o Header("Connection", "close")
     \o Header("Content-Length", "9") \o Type \o Blank \o Body,
   <<Line("Content-Type", "text/html"), LF, LF>> \o Body,
   <<Line("Status", 302), LF, Line("Location", "there"), LF, LF>>,
   Header("Status", 204) \o Blank \o Body,
   Header("Status", 101) \o Blank \o Body,
   Header("Status", 999) \o Blank \o Body,
   Type \o Body,
   Body \o Blank \o Blank}

Long == AppUri \o <<"?">> \o [i \in 1..128 |-> "q"]

AppRequests ==
  {[r EXCEPT !.app = raw] : r \in {Get(AppUri), With(Get(AppUri), <<Shut>>)},
                            raw \in AppAnswers}
  \cup {[r EXCEPT !.app = Type \o Blank \o Body] :
          r \in {Get(Long), Get(<<"/", ".", "/", "a", "/", "?", "q">>),
                 PostTo(AppUri, <<Line("Content-Type", "text/plain"),
                                  Line("Content-Length", "4")>>),
                 PostTo(AppUri \o <<"?", "q", "?", "q">>, <<>>),
                 PostTo(<<"/">> \o AppUri, <<>>)}}

-----------------------------------------------------------------------------
(* WebSocket keys: 16 bytes, 18, and what is no key.                       *)

Sixes(n) == [i \in 1..n |-> (7 * i) % 64]
Good == Sixes(22) \o <<Pad, Pad>>
Keys == {Good, Sixes(24), Sixes(23) \o <<Pad>>, Sixes(20) \o <<Pad, Pad>>,
         Sixes(10) \o <<Pad, Pad>> \o Sixes(12),
         Sixes(10) \o <<Pad, 5>> \o Sixes(10) \o <<Pad, Pad>>,
         Sixes(21) \o <<Other, Pad, Pad>>, <<>>}
McHash == [k \in Keys |-> [i \in 1..20 |-> (37 * i + 11 * Len(k)) % 256]]

Upgrade == <<Line("Upgrade", "websocket")>>
Version == <<Line("Sec-WebSocket-Version", "13")>>
Both == <<Line("Connection", "keep-alive, Upgrade")>>

SockUri == <<"/", "s">>
Sockets ==
  {[With(Get(SockUri), Upgrade \o Both \o Version) EXCEPT !.key = k] :
     k \in Keys}
  \cup {[With(Get(SockUri), lines) EXCEPT !.key = Good] :
          lines \in {Both \o Version, Upgrade \o Version,
                     Upgrade \o Both,
                     Upgrade \o <<Line("Connection", "Upgrade")>> \o Version}}

-----------------------------------------------------------------------------
(* The MCP endpoint.                                                       *)

McpUri == <<"/", "m">>
SessionOf(id) == Line("mcp-session-id", id)

McpRequests ==
  {[PostTo(McpUri, <<>>) EXCEPT !.free = TRUE],
   PostTo(McpUri, <<SessionOf("a1")>>),
   PostTo(McpUri, <<SessionOf("zz")>>),
   With(PostTo(McpUri, <<>>), <<Shut>>),
   [PostTo(McpUri, <<SessionOf("a1")>>) EXCEPT
      !.origin = <<"http", "://", "localhost", ":", "1">>],
   [PostTo(McpUri, <<>>) EXCEPT !.origin = <<"http", "://", "other">>],
   [PostTo(McpUri, <<>>) EXCEPT !.origin = <<"[", ":", ":", "1", "]">>],
   PostTo(<<"/", "m", "/", "?">>, <<>>),
   PostTo(<<"/", "n">>, <<>>),
   Get(McpUri)}

String(name, text) == Value("string", name, text)
Rpc(id, method, more) ==
  Object("", <<String("jsonrpc", "2.0"), id, String("method", method)>>
               \o more)
One == Value("number", "id", "1")
Arguments(members) == Object("arguments", members)
Two == <<Value("number", "a", "1"), String("b", "2")>>

McDocuments ==
  {Object("", <<>>),
   List("", <<String("", "2.0"), Value("word", "", "null")>>),
   Rpc(One, "initialize",
       Object("params", <<String("protocolVersion", "v")>>
                        \o Object("clientInfo", <<String("name", "me")>>)
                        \o Object("capabilities", <<>>))),
   Rpc(Value("word", "id", "null"), "initialize", <<>>),
   Rpc(String("id", "x"), "tools/list", <<>>),
   Rpc(Value("word", "id", "true"), "notifications/initialized",
       Object("params", <<>>)),
   Rpc(String("id", "x"), "tools/call",
       Object("params", <<String("name", "add")>> \o Arguments(Two))),
   \* The parameters in front, with names of other levels among them.
   Object("", Object("params",
                     Arguments(Two
                               \o Object("name", <<String("id", "y")>>)
                               \o List("method", <<Value("number", "", "1")>>))
                     \o <<String("method", "none"), String("name", "add")>>
                     \o List("list", Object("", <<String("name", "no")>>)))
              \o <<String("name", "top"), String("method", "tools/call"),
                   String("jsonrpc", "2.0")>>
              \o Object("last", <<String("jsonrpc", "1.0"), One>>)),
   Rpc(One, "tools/call", Object("params", <<String("name", "sub")>>)),
   \* A field twice, and a structure where a text belongs.
   Rpc(One, "tools/list", <<String("method", "other")>>
                          \o Object("id", <<>>)),
   Rpc(One, "initialize", Object("method", <<>>))}

McRequests == Connections \cup Stopped \cup Files \cup AppRequests
                \cup Sockets \cup McpRequests
=============================================================================
