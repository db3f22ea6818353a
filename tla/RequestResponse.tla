--------------------------- MODULE RequestResponse ---------------------------
(***************************************************************************)
(* What one HTTP connection promises its client, without buffers, bodies or *)
(* handlers: requests are numbered in the order they are sent; the answers  *)
(* come in that order, one for each request, never before it was asked and  *)
(* never after the connection has ended.                                    *)
(***************************************************************************)
EXTENDS Naturals, Sequences

VARIABLES asked,    \* how many requests the client has sent
          answers,  \* the numbers of the requests answered, oldest first
          open      \* the server has not closed the connection

vars == <<asked, answers, open>>

Init == asked = 0 /\ answers = <<>> /\ open = TRUE

Ask == open /\ asked' = asked + 1 /\ UNCHANGED <<answers, open>>

\* The answer may be the last one: it ends the connection in the same step.
Answer ==
  /\ open
  /\ Len(answers) < asked
  /\ answers' = Append(answers, Len(answers) + 1)
  /\ open' \in BOOLEAN
  /\ UNCHANGED asked

End == open /\ open' = FALSE /\ UNCHANGED <<asked, answers>>

NextConnection == ~open /\ asked' = 0 /\ answers' = <<>> /\ open' = TRUE

Next == Ask \/ Answer \/ End \/ NextConnection

Spec == Init /\ [][Next]_vars
===============================================================================
