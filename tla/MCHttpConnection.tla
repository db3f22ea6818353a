--------------------------- MODULE MCHttpConnection ---------------------------
\* TLC instances of HttpConnection.
EXTENDS HttpConnection

Req(kind, body, close) == [kind |-> kind, body |-> body, close |-> close]

\* One or two requests of every kind, with and without a body.
AllRequests ==
  {Req("page", 0, FALSE), Req("page", 1, TRUE), Req("app", 2, FALSE),
   Req("post", 0, FALSE), Req("post", 1, FALSE), Req("postapp", 1, FALSE),
   Req("sock", 0, FALSE), Req("badline", 0, TRUE), Req("refused", 1, FALSE),
   Req("overlong", 0, FALSE)}

===============================================================================
