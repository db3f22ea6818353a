--------------------------- MODULE MCFcgiExchange ---------------------------
(* A body and an answer that do not fit into the sockets.                    *)
EXTENDS FcgiExchange
=============================================================================
