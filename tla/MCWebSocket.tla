----------------------------- MODULE MCWebSocket -----------------------------
\* TLC instances of WebSocket.
EXTENDS WebSocket

Fr(op, fin, len) == [op |-> op, fin |-> fin, legal |-> TRUE, len |-> len]

AllFrames ==
  {Fr("text", TRUE, 1), Fr("text", FALSE, 1), Fr("binary", FALSE, 0),
   Fr("cont", TRUE, 1), Fr("cont", FALSE, 1), Fr("cont", TRUE, 3),
   Fr("ping", TRUE, 1), Fr("pong", TRUE, 0), Fr("close", TRUE, 0),
   [Fr("text", TRUE, 1) EXCEPT !.legal = FALSE]}

===============================================================================
