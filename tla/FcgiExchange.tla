---------------------------- MODULE FcgiExchange ----------------------------
(***************************************************************************)
(* One request between the two ends of a FastCGI connection, the gateway    *)
(* (invoke_fastcgi in serv/main.cpp) and a backend built on libfcgi, over a *)
(* socket that holds a bounded number of records each way.  Who waits for   *)
(* whom is what matters here: the gateway writes the whole request before   *)
(* it reads any of the answer, the backend reads and writes as it likes.    *)
(* What the records hold is the business of FcgiLibrary and FcgiRecords.    *)
(*                                                                          *)
(* A backend that closes the connection lingers: it throws away what is     *)
(* still sent to it until the gateway closes, or nothing comes for 2 s.     *)
(* The gateway's socket has timeouts of 30 s; they are taken to expire only *)
(* when the backend cannot move.                                            *)
(***************************************************************************)
EXTENDS Integers, Sequences

CONSTANTS BodyLen,     \* STDIN records of the request
          AnswerLen,   \* bound: buffers of STDOUT the application fills
          CapIn,       \* records the socket holds towards the backend
          CapOut       \* and towards the gateway

ASSUME ExchangeAssumption ==
  /\ BodyLen \in Nat /\ AnswerLen \in Nat
  /\ CapIn \in Nat \ {0} /\ CapOut \in Nat \ {0}

VARIABLES
  gw,        \* the gateway: "params", "body", "chunk", "end", "read", or the
             \* status it returned; "spin" in a loop without end; "dead" when
             \* the server has died
  chunks,    \* STDIN records it has written
  got,       \* STDOUT records it has taken
  toApp,     \* the records on their way to the backend
  toGw,      \* and to the gateway
  app,       \* the backend: "accept", "serve", "read", "write", "linger",
             \* "closed", "crashed" or "hung"
  outbox,    \* what its write_it_all has still to write
  finishing, \* it is in FCGX_Finish_r
  eof,       \* it has read the end of STDIN
  wrote,     \* buffers of STDOUT the application has filled
  stderr,    \* it has written to STDERR
  expired    \* its linger came to an end while the gateway was writing

gateway == <<gw, chunks, got>>
backend == <<app, outbox, finishing, eof, wrote, stderr, expired>>
vars == <<gateway, toApp, toGw, backend>>

Results == {"ok", "502", "400"}

Init ==
  /\ gw = "params" /\ chunks = 0 /\ got = 0
  /\ toApp = <<>> /\ toGw = <<>>
  /\ app = "accept" /\ outbox = <<>> /\ finishing = FALSE /\ eof = FALSE
  /\ wrote = 0 /\ stderr = FALSE /\ expired = FALSE

Open == gw \notin Results \cup {"dead"}  \* the gateway's end
AppOpen == app \notin {"closed", "crashed"}
Shut == app \in {"linger", "closed", "crashed"}  \* shutdown(fd, 1)

------------------------------------------------------------------------------
(* The gateway.                                                             *)

\* write_fcgi_record of the record r, then on to `next'.
Writes(r, next) ==
  /\ AppOpen /\ Len(toApp) < CapIn
  /\ toApp' = Append(toApp, r)
  /\ gw' = next
  /\ UNCHANGED <<toGw, backend, got>>

\* BEGIN_REQUEST, the parameters and the record that ends them.
WriteParams ==
  /\ gw = "params" /\ Writes("params", "body")
  /\ UNCHANGED chunks

\* read_content has the next chunk of the client's body.
ChunkComes ==
  /\ gw = "body" /\ chunks < BodyLen
  /\ gw' = "chunk"
  /\ UNCHANGED <<chunks, got, toApp, toGw, backend>>

\* client_body_error
BodyFails ==
  /\ gw = "body" /\ chunks < BodyLen
  /\ gw' = "400"
  /\ UNCHANGED <<chunks, got, toApp, toGw, backend>>

BodyDone ==
  /\ gw = "body" /\ chunks = BodyLen
  /\ gw' = "end"
  /\ UNCHANGED <<chunks, got, toApp, toGw, backend>>

WriteChunk ==
  /\ gw = "chunk" /\ Writes("stdin", "body")
  /\ chunks' = chunks + 1

WriteEnd ==
  /\ gw = "end" /\ Writes("end", "read")
  /\ UNCHANGED chunks

\* write() to a connection that the backend has closed raises SIGPIPE, which
\* the server does not ignore; only a write that was waiting for room when it
\* closed may return ECONNRESET.
WriteFails ==
  /\ gw \in {"params", "chunk", "end"} /\ ~AppOpen
  /\ gw' = "dead" \/ (gw' = "502" /\ Len(toApp) = CapIn)
  /\ UNCHANGED <<chunks, got, toApp, toGw, backend>>

\* One record of the answer.  An empty STDERR record without padding leaves the
\* loop where it is, for good.
TakeRecord ==
  /\ gw = "read" /\ toGw # <<>>
  /\ toGw' = Tail(toGw)
  /\ got' = IF Head(toGw) = "stdout" THEN got + 1 ELSE got
  /\ gw' = CASE Head(toGw) = "end" -> "ok"
             [] Head(toGw) = "empty stderr" -> "spin"
             [] OTHER -> gw
  /\ UNCHANGED <<chunks, toApp, backend>>

ReadFails ==
  /\ gw = "read" /\ toGw = <<>> /\ Shut
  /\ gw' = "502"
  /\ UNCHANGED <<chunks, got, toApp, toGw, backend>>

\* The backend cannot move.
AppStuck ==
  \/ app = "hung"
  \/ app = "read" /\ toApp = <<>>
  \/ outbox # <<>> /\ Len(toGw) = CapOut

\* Mutant of TimesOut: SO_SNDTIMEO is not set.
TimesOutReading ==
  /\ AppStuck
  /\ gw = "read" /\ toGw = <<>>
  /\ gw' = "502"
  /\ UNCHANGED <<chunks, got, toApp, toGw, backend>>

\* SO_SNDTIMEO and SO_RCVTIMEO
TimesOut ==
  /\ AppStuck
  /\ \/ gw \in {"params", "chunk", "end"} /\ Len(toApp) = CapIn
     \/ gw = "read" /\ toGw = <<>>
  /\ gw' = "502"
  /\ UNCHANGED <<chunks, got, toApp, toGw, backend>>

------------------------------------------------------------------------------
(* The backend.                                                             *)

\* FCGX_Accept_r has the request.
Accepts ==
  /\ app = "accept" /\ toApp # <<>>
  /\ toApp' = Tail(toApp)
  /\ app' = "serve"
  /\ UNCHANGED <<gateway, toGw, outbox, finishing, eof, wrote, stderr,
                 expired>>

CallRead ==
  /\ app = "serve" /\ ~eof
  /\ app' = "read"
  /\ UNCHANGED <<gateway, toApp, toGw, outbox, finishing, eof, wrote, stderr,
                 expired>>

\* FillBuffProc reads a record, or finds the connection closed.
Read ==
  /\ app = "read"
  /\ \/ toApp # <<>> /\ toApp' = Tail(toApp) /\ eof' = (Head(toApp) = "end")
     \/ toApp = <<>> /\ ~Open /\ UNCHANGED toApp /\ eof' = TRUE
  /\ app' = "serve"
  /\ UNCHANGED <<gateway, toGw, outbox, finishing, wrote, stderr,
                 expired>>

\* EmptyBuffProc of a buffer of STDOUT, or of STDERR.
CallWrite ==
  /\ app = "serve"
  /\ \/ /\ wrote < AnswerLen
        /\ wrote' = wrote + 1 /\ outbox' = <<"stdout">>
        /\ UNCHANGED stderr
     \/ /\ ~stderr
        /\ stderr' = TRUE /\ outbox' = <<"stderr">>
        /\ UNCHANGED wrote
  /\ app' = "write"
  /\ UNCHANGED <<gateway, toApp, toGw, finishing, eof, expired>>

\* Mutant of Finish: the request is ended before the answer is flushed.
FinishEndFirst ==
  /\ app = "serve"
  /\ finishing' = TRUE
  /\ outbox' = (IF stderr THEN <<"empty stderr">> ELSE <<>>) \o
                 (IF wrote < AnswerLen THEN <<"end", "stdout">> ELSE <<"end">>)
  /\ wrote' = IF wrote < AnswerLen THEN wrote + 1 ELSE wrote
  /\ app' = "write"
  /\ UNCHANGED <<gateway, toApp, toGw, eof, stderr, expired>>

\* FCGX_Finish_r: what is in the buffers, the records that end the streams,
\* END_REQUEST.
Finish ==
  /\ app = "serve"
  /\ finishing' = TRUE
  /\ outbox' = (IF stderr THEN <<"empty stderr">> ELSE <<>>) \o
                 (IF wrote < AnswerLen THEN <<"stdout", "end">> ELSE <<"end">>)
  /\ wrote' = IF wrote < AnswerLen THEN wrote + 1 ELSE wrote
  /\ app' = "write"
  /\ UNCHANGED <<gateway, toApp, toGw, eof, stderr, expired>>

\* write_it_all; when the gateway has closed, the rest is lost.
Write ==
  /\ app = "write" /\ outbox # <<>>
  /\ \/ /\ Open /\ Len(toGw) < CapOut
        /\ toGw' = Append(toGw, Head(outbox)) /\ outbox' = Tail(outbox)
     \/ ~Open /\ outbox' = <<>> /\ UNCHANGED toGw
  /\ UNCHANGED <<gateway, toApp, app, finishing, eof, wrote, stderr,
                 expired>>

Written ==
  /\ app = "write" /\ outbox = <<>>
  /\ app' = IF finishing THEN "linger" ELSE "serve"
  /\ UNCHANGED <<gateway, toApp, toGw, outbox, finishing, eof, wrote, stderr,
                 expired>>

\* Mutant of Linger: OS_Close closes at once.
LingerNot ==
  /\ app = "linger"
  /\ app' = "closed" /\ UNCHANGED <<toApp, expired>>
  /\ UNCHANGED <<gateway, toGw, outbox, finishing, eof, wrote, stderr>>

\* OS_Close: throw away, close when the gateway has or when it is silent.
Linger ==
  /\ app = "linger"
  /\ \/ toApp # <<>> /\ toApp' = Tail(toApp) /\ UNCHANGED <<app, expired>>
     \/ toApp = <<>> /\ ~Open /\ app' = "closed" /\ UNCHANGED <<toApp, expired>>
     \/ /\ toApp = <<>> /\ gw \in {"body", "spin"}
        /\ app' = "closed" /\ expired' = (gw = "body")
        /\ UNCHANGED toApp
  /\ UNCHANGED <<gateway, toGw, outbox, finishing, eof, wrote, stderr>>

\* The backend exits, or goes into a loop of its own.
AppFails ==
  /\ app \in {"accept", "serve"}
  /\ app' \in {"crashed", "hung"}
  /\ UNCHANGED <<gateway, toApp, toGw, outbox, finishing, eof, wrote, stderr,
                 expired>>

\* The gateway disposes of its backend: SIGTERM.
Killed ==
  /\ gw \in Results /\ app = "hung"
  /\ app' = "crashed"
  /\ UNCHANGED <<gateway, toApp, toGw, outbox, finishing, eof, wrote, stderr,
                 expired>>

GwStep ==
  \/ WriteParams \/ ChunkComes \/ BodyFails \/ BodyDone \/ WriteChunk
  \/ WriteEnd \/ WriteFails \/ TakeRecord \/ ReadFails \/ TimesOut

LibStep == Accepts \/ Read \/ Write \/ Written \/ Linger

AppStep == CallRead \/ CallWrite \/ Finish \/ AppFails \/ Killed

Next == GwStep \/ LibStep \/ AppStep

Spec == Init /\ [][Next]_vars

\* Both processes are scheduled; an application that is not in a loop finishes.
FairSpec == Spec /\ WF_vars(GwStep) /\ WF_vars(LibStep) /\ WF_vars(AppStep)

------------------------------------------------------------------------------
(* Properties                                                               *)

\* The answer the server passes on is all that the application wrote.
OkIsWhole == gw = "ok" => finishing /\ outbox = <<>> /\ got = wrote

\* A backend that reads the request to its end before it writes more than the
\* socket holds is not given up, nor is one that answers without reading it,
\* unless it fails or the body falls silent for longer than the backend lingers;
\* and the server dies of the connection only in these two cases.
GivenUp ==
  /\ gw # "502" /\ gw' = "502" =>
       \/ app \in {"hung", "crashed"}
       \/ outbox # <<>> /\ Len(toGw) = CapOut /\ ~eof
       \/ expired
  /\ gw # "dead" /\ gw' = "dead" => app = "crashed" \/ expired

GivenUpForCause == [][GivenUp]_vars

\* Every request comes to an end, also when gateway and backend both wait for
\* the other to read: it returns, or the server dies for one of the causes
\* above.  Only the loop over an empty STDERR record has no end (LoopBounded of
\* FcgiRecords is about it), and only an application that has written to STDERR
\* sends one.
ExchangeEnds ==
  <>(gw \in Results \cup {"dead"} \/ (gw = "spin" /\ stderr))
=============================================================================
