------------------------------ MODULE ByteStream ------------------------------
(***************************************************************************)
(* What a worker thread may rely on when it reads a request: the bytes the  *)
(* peer sent, in order, cut into lines and blocks.  There is no buffer, no  *)
(* recv() and no offset here.  SocketBuffer is shown to implement it.       *)
(*                                                                          *)
(*   sent    every byte the peer has sent on this connection                *)
(*   taken   how many of them the reader has been given                     *)
(*   op      the call the reader is in                                      *)
(*   need    bytes the call still owes the reader ("read" only)             *)
(*   result  what the call has given the reader                             *)
(***************************************************************************)
EXTENDS Integers, Sequences

CONSTANTS Byte,      \* the bytes told apart
          NL,        \* '\n'
          Space,     \* the bytes isspace() accepts
          MaxLine,   \* max_line_length
          MaxSent    \* bound: bytes one peer sends

VARIABLES sent, peer, taken, op, need, result, connected

vars == <<sent, peer, taken, op, need, result, connected>>

Init ==
  /\ sent = <<>>
  /\ peer = "open"
  /\ taken = 0
  /\ op = "idle"
  /\ need = 0
  /\ result = <<>>
  /\ connected = TRUE

\* The peer sends a byte, closes its side (FIN) or resets the connection.
PeerSend(b) ==
  /\ peer = "open"
  /\ Len(sent) < MaxSent
  /\ sent' = Append(sent, b)
  /\ UNCHANGED <<peer, taken, op, need, result, connected>>

PeerEnd(how) ==
  /\ peer = "open"
  /\ peer' = how
  /\ UNCHANGED <<sent, taken, op, need, result, connected>>

\* A readline or a read of any number of bytes begins.
Begin ==
  /\ op = "idle"
  /\ connected
  /\ op' \in {"readline", "read"}
  /\ need' \in IF op' = "read" THEN Nat ELSE {0}
  /\ result' = <<>>
  /\ UNCHANGED <<sent, peer, taken, connected>>

\* sent[nl] is the first newline the reader has not been given.
NextNewline(nl) ==
  /\ nl \in taken + 1 .. Len(sent)
  /\ sent[nl] = NL
  /\ \A i \in taken + 1 .. nl - 1 : sent[i] # NL

\* sent[taken+1 .. last] is the line before the newline nl without the white
\* space at its end.
Trimmed(nl, last) ==
  /\ last \in taken .. nl - 1
  /\ \A i \in last + 1 .. nl - 1 : sent[i] \in Space
  /\ last > taken => sent[last] \notin Space

\* The next line of the stream, whole, in order, its end trimmed.
TakeLine ==
  /\ op = "readline"
  /\ \E nl \in taken + 1 .. Len(sent) : \E last \in taken .. nl - 1 :
       /\ NextNewline(nl)
       /\ Trimmed(nl, last)
       /\ result' = [k \in 1 .. last - taken |-> sent[taken + k]]
       /\ taken' = nl
  /\ op' = "idle"
  /\ UNCHANGED <<sent, peer, need, connected>>

\* The next k bytes of the stream go to the block being read; the call returns
\* with the last of them.
TakeBytes ==
  /\ op = "read"
  /\ \E k \in 0 .. need :
       /\ k \in 0 .. Len(sent) - taken
       /\ result' = result \o [j \in 1 .. k |-> sent[taken + j]]
       /\ taken' = taken + k
       /\ need' = need - k
       /\ op' = IF k = need THEN "idle" ELSE "read"
  /\ UNCHANGED <<sent, peer, connected>>

\* Nothing the peer has sent is of use to the call: a readline has no whole
\* line left, a read not one byte ...
Starved ==
  \/ op = "readline" /\ \A i \in taken + 1 .. Len(sent) : sent[i] # NL
  \/ op = "read" /\ taken = Len(sent)

\* ... or the line is longer than the limit.
Overlong ==
  /\ op = "readline"
  /\ Len(sent) - taken >= MaxLine
  /\ \A i \in taken + 1 .. taken + MaxLine : sent[i] # NL

\* A call gives up, and with it the connection, only when it is starved, the
\* line is too long, or the peer reset the connection.
GiveUp ==
  /\ op # "idle"
  /\ Starved \/ Overlong \/ peer = "reset"
  /\ connected' = FALSE
  /\ op' = "idle"
  /\ UNCHANGED <<sent, peer, taken, need, result>>

\* The worker's next connection starts from nothing.
NextConnection ==
  /\ op = "idle"
  /\ sent' = <<>>
  /\ peer' = "open"
  /\ taken' = 0
  /\ need' = 0
  /\ result' = <<>>
  /\ connected' = TRUE
  /\ UNCHANGED op

Next ==
  \/ \E b \in Byte : PeerSend(b)
  \/ \E how \in {"closed", "reset"} : PeerEnd(how)
  \/ Begin
  \/ TakeLine
  \/ TakeBytes
  \/ GiveUp
  \/ NextConnection

Spec == Init /\ [][Next]_vars
===============================================================================
