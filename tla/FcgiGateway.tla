----------------------------- MODULE FcgiGateway -----------------------------
(***************************************************************************)
(* invoke_fastcgi (serv/main.cpp) run by the worker threads of the server:  *)
(* every request to /app makes a backend process of its own, talks to it    *)
(* over a unix socket and disposes of it.  The handle `proc' is a member of *)
(* the one MyHandler object that all workers share, and nothing guards it.  *)
(*                                                                          *)
(* Everything a request makes is named by the number of the request: its    *)
(* FcgiProcess object, the process it forks, the connection it opens.  One  *)
(* statement that goes through `proc' is one step; the records written are  *)
(* the parameters of the request, its body (of one record) and the empty    *)
(* STDIN that ends it, and the reading of the answer (FcgiRecords) is one   *)
(* step.  The unix: and inet: branches, which the constant `cmd' never      *)
(* takes, are left out.                                                     *)
(***************************************************************************)
EXTENDS Integers, Sequences, FiniteSets

CONSTANTS Threads,      \* the workers
          MaxRequests,  \* bound: requests to /app
          MaxFaults     \* bound: failing launches, backends that exit

ASSUME GatewayAssumption ==
  IsFiniteSet(Threads) /\ MaxRequests \in Nat /\ MaxFaults \in Nat

Reqs == 1 .. MaxRequests
None == 0
Unset == -1      \* FcgiSocketIO::Private::pid before launch()
Taken == -1      \* an answer that has been read

VARIABLES
  begun,     \* how many requests have begun
  faults,    \* how many faults there have been
  pc,        \* each thread: where it is
  req,       \* each thread: the request it serves
  status,    \* each thread: the status it is about to return
  answered,  \* each request: the request whose answer it returned
  overlap,   \* the requests that were not alone in invoke_fastcgi
  proc,      \* the object the shared handle points to
  expired,   \* proc_expired
  sock,      \* each object: sock_io, a connection
  pid,       \* each object: m->pid, a process
  path,      \* each object: its socket file exists
  listener,  \* each object: the process that listens on its socket
  process,   \* each process: "none", "running", "exited" or "killed"
  conns,     \* each connection
  crashed    \* "no", or how the server died

requests == <<begun, req, answered, overlap>>
object == <<sock, pid, path, listener>>
vars == <<requests, faults, pc, status, proc, expired, object, process, conns,
          crashed>>

\* A connection the server does not hold.  peer: the process at the other end;
\* in: the records it was sent; answer: the request its answer is about; left:
\* that process has closed it.
NoConn == [peer |-> None, in |-> <<>>, answer |-> None, left |-> FALSE]

Init ==
  /\ begun = 0 /\ faults = 0
  /\ pc = [t \in Threads |-> "idle"] /\ req = [t \in Threads |-> None]
  /\ status = [t \in Threads |-> "none"]
  /\ answered = [r \in Reqs |-> None] /\ overlap = {}
  /\ proc = None /\ expired = FALSE
  /\ sock = [r \in Reqs |-> None] /\ pid = [r \in Reqs |-> Unset]
  /\ path = [r \in Reqs |-> FALSE] /\ listener = [r \in Reqs |-> None]
  /\ process = [r \in Reqs |-> "none"]
  /\ conns = [r \in Reqs |-> NoConn]
  /\ crashed = "no"

------------------------------------------------------------------------------
(* Helpers.                                                                 *)

At(t, places) == crashed = "no" /\ pc[t] \in places

Goto(t, place) == pc' = [pc EXCEPT ![t] = place]

\* close(sock_io)
Closed(o) ==
  IF sock[o] = None THEN conns ELSE [conns EXCEPT ![sock[o]] = NoConn]

\* kill(m->pid, SIGTERM).  An m->pid that launch() has not set yet is whatever
\* the memory held: any process, or none.
Kill(p) == IF p \in Reqs /\ process[p] = "running"
           THEN [process EXCEPT ![p] = "killed"] ELSE process
Killed(o) == IF pid[o] = Unset THEN {Kill(p) : p \in Reqs \cup {None}}
             ELSE {Kill(pid[o])}

\* ~FcgiProcess(): disconnect, kill, unlink.  Nothing of the object is left.
Destroy(o) ==
  IF o = None THEN UNCHANGED <<object, process, conns>>
  ELSE /\ conns' = Closed(o)
       /\ sock' = [sock EXCEPT ![o] = None]
       /\ process' \in Killed(o)
       /\ path' = [path EXCEPT ![o] = FALSE]
       /\ pid' = [pid EXCEPT ![o] = Unset]
       /\ listener' = [listener EXCEPT ![o] = None]

\* The server dies.
Crash(how) ==
  /\ crashed' = how
  /\ UNCHANGED <<requests, faults, pc, status, proc, expired, object, process,
                 conns>>

\* A member function is called through a null handle.
NullCall(t) ==
  /\ At(t, {"launch", "connect", "params", "stdin", "end", "read",
            "disconnect"})
  /\ proc = None
  /\ Crash("null")

------------------------------------------------------------------------------
(* A request, up to its connection.                                         *)

Busy == {t \in Threads : pc[t] # "idle"}

Begin(t) ==
  /\ At(t, {"idle"})
  /\ begun < MaxRequests
  /\ begun' = begun + 1
  /\ req' = [req EXCEPT ![t] = begun']
  /\ overlap' = IF Busy = {} THEN overlap
                ELSE overlap \cup {begun'} \cup {req[u] : u \in Busy}
  /\ Goto(t, "assign")
  /\ UNCHANGED <<answered, faults, status, proc, expired, object, process,
                 conns, crashed>>

\* proc = make_shared<FcgiProcess>(pipepath): the object that was there goes.
Assign(t) ==
  /\ At(t, {"assign"})
  /\ proc' = req[t]
  /\ Destroy(proc)
  /\ Goto(t, "launch")
  /\ UNCHANGED <<requests, faults, status, expired, crashed>>

\* proc->launch(): disconnect; unlink, bind and listen, which may fail; fork,
\* which may fail.
Launch(t) ==
  /\ At(t, {"launch"}) /\ proc # None
  /\ conns' = Closed(proc)
  /\ sock' = [sock EXCEPT ![proc] = None]
  /\ \E forked, bound \in BOOLEAN :
       LET child == IF forked THEN req[t] ELSE None
       IN  /\ forked => bound
           /\ faults' = IF forked THEN faults ELSE faults + 1
           /\ faults' <= MaxFaults
           /\ path' = [path EXCEPT ![proc] = bound]
           /\ listener' = [listener EXCEPT ![proc] = child]
           /\ pid' = [pid EXCEPT ![proc] = child]
           /\ process' = IF forked THEN [process EXCEPT ![child] = "running"]
                         ELSE process
  /\ Goto(t, "connect")
  /\ UNCHANGED <<requests, status, proc, expired, crashed>>

Reachable(o) ==
  path[o] /\ listener[o] # None /\ process[listener[o]] = "running"

\* proc->connect(): it succeeds while the child holds the listening socket,
\* whether or not it has called accept().  proc_expired is set in the same
\* step: a thread tests it only behind its own assignment.
Connect(t) ==
  /\ At(t, {"connect"}) /\ proc # None
  /\ IF Reachable(proc)
     THEN /\ conns' = [Closed(proc) EXCEPT ![req[t]] =
                         [NoConn EXCEPT !.peer = listener[proc]]]
          /\ sock' = [sock EXCEPT ![proc] = req[t]]
          /\ expired' = TRUE
          /\ Goto(t, "params")
          /\ UNCHANGED status
     ELSE /\ conns' = Closed(proc)
          /\ sock' = [sock EXCEPT ![proc] = None]
          /\ Goto(t, "unreachable")
          /\ status' = [status EXCEPT ![t] = "503"]
          /\ UNCHANGED expired
  /\ UNCHANGED <<requests, faults, proc, pid, path, listener, process, crashed>>

------------------------------------------------------------------------------
(* Records to the backend, and its answer.                                  *)

\* The backend holds its end of connection c.
PeerOpen(c) == process[conns[c].peer] = "running" /\ ~conns[c].left

\* An early return.
Fail(t, code) ==
  /\ Goto(t, "disconnect")
  /\ status' = [status EXCEPT ![t] = code]
  /\ UNCHANGED <<requests, faults, proc, expired, object, process, conns,
                 crashed>>

\* proc->write() of the record, on the connection `proc' has now.
WriteRecord(t, part, next) ==
  /\ proc # None /\ sock[proc] # None /\ PeerOpen(sock[proc])
  /\ conns' = [conns EXCEPT ![sock[proc]].in =
                 Append(@, [of |-> req[t], part |-> part])]
  /\ Goto(t, next)
  /\ UNCHANGED <<requests, faults, status, proc, expired, object, process,
                 crashed>>

WriteParams(t) == At(t, {"params"}) /\ WriteRecord(t, "params", "stdin")

WriteBody(t) == At(t, {"stdin"}) /\ WriteRecord(t, "body", "end")

WriteEnd(t) == At(t, {"end"}) /\ WriteRecord(t, "end", "read")

\* There is no socket, or the socket is full: until the write times out, or
\* until the backend leaves the connection in the middle of it.
WriteFails(t) ==
  /\ At(t, {"params", "stdin", "end"}) /\ proc # None
  /\ sock[proc] # None => PeerOpen(sock[proc])
  /\ Fail(t, "502")

\* write() to a connection the backend has left raises SIGPIPE, which nobody
\* ignores.
BrokenPipe(t) ==
  /\ At(t, {"params", "stdin", "end"})
  /\ proc # None /\ sock[proc] # None /\ ~PeerOpen(sock[proc])
  /\ Crash("sigpipe")

\* Mutant of BodyFails: client_body_error is not looked at.
BodyFailsIgnored(t) ==
  /\ At(t, {"stdin"}) /\ proc # None
  /\ Goto(t, "end")
  /\ UNCHANGED <<requests, faults, status, proc, expired, object, process,
                 conns, crashed>>

\* The client does not send its body.
BodyFails(t) == At(t, {"stdin"}) /\ Fail(t, "400")

\* proc->read(), again and again, up to END_REQUEST.
AnswerRead(t) ==
  /\ At(t, {"read"}) /\ proc # None /\ sock[proc] # None
  /\ conns[sock[proc]].answer \notin {None, Taken}
  /\ answered' = [answered EXCEPT ![req[t]] = conns[sock[proc]].answer]
  /\ conns' = [conns EXCEPT ![sock[proc]].answer = Taken]
  /\ status' = [status EXCEPT ![t] = "done"]
  /\ Goto(t, "disconnect")
  /\ UNCHANGED <<begun, req, overlap, faults, proc, expired, object, process,
                 crashed>>

\* Mutant of ReadFails: no receive timeout on the socket.
ReadFailsNoTimeout(t) ==
  /\ At(t, {"read"}) /\ proc # None
  /\ sock[proc] # None => ~PeerOpen(sock[proc])
  /\ Fail(t, "502")

\* No socket, end of stream, an error, or 30 seconds without data.
ReadFails(t) == At(t, {"read"}) /\ proc # None /\ Fail(t, "502")

------------------------------------------------------------------------------
(* The end of a request.                                                    *)

Disconnect(t) ==
  /\ At(t, {"disconnect"}) /\ proc # None
  /\ conns' = Closed(proc)
  /\ sock' = [sock EXCEPT ![proc] = None]
  /\ Goto(t, "reset")
  /\ UNCHANGED <<requests, faults, status, proc, expired, pid, path, listener,
                 process, crashed>>

Return(t) ==
  /\ Goto(t, "idle")
  /\ req' = [req EXCEPT ![t] = None]
  /\ status' = [status EXCEPT ![t] = "none"]
  /\ UNCHANGED <<begun, answered, overlap, faults, expired, crashed>>

\* Mutant of Reset: only a request that was answered drops its backend.
ResetWhenDone(t) ==
  /\ At(t, {"reset", "unreachable"})
  /\ IF status[t] = "done"
     THEN proc' = None /\ Destroy(proc)
     ELSE UNCHANGED <<proc, object, process, conns>>
  /\ Return(t)

\* if (proc_expired) proc.reset(); without the test when connect() failed.
Reset(t) ==
  /\ At(t, {"reset", "unreachable"})
  /\ IF expired \/ pc[t] = "unreachable"
     THEN proc' = None /\ Destroy(proc)
     ELSE UNCHANGED <<proc, object, process, conns>>
  /\ Return(t)

------------------------------------------------------------------------------
(* The backend processes.                                                   *)

\* It answers the request whose parameters came first: once it has these, for
\* it need not read the body.
BackendAnswers(c) ==
  /\ crashed = "no"
  /\ conns[c].peer # None /\ PeerOpen(c)
  /\ conns[c].in # <<>> /\ conns[c].answer = None
  /\ conns' = [conns EXCEPT ![c].answer = conns[c].in[1].of]
  /\ UNCHANGED <<requests, faults, pc, status, proc, expired, object, process,
                 crashed>>

\* It has answered, reads on until nothing has come for two seconds, and closes
\* the connection (OS_Close).
BackendCloses(c) ==
  /\ crashed = "no"
  /\ conns[c].peer # None /\ PeerOpen(c)
  /\ conns[c].answer # None
  /\ conns' = [conns EXCEPT ![c].left = TRUE]
  /\ UNCHANGED <<requests, faults, pc, status, proc, expired, object, process,
                 crashed>>

\* execvp() fails, or the program ends by itself.
BackendExits(p) ==
  /\ crashed = "no"
  /\ process[p] = "running"
  /\ faults < MaxFaults /\ faults' = faults + 1
  /\ process' = [process EXCEPT ![p] = "exited"]
  /\ UNCHANGED <<requests, pc, status, proc, expired, object, conns, crashed>>

Step(t) ==
  \/ NullCall(t) \/ Assign(t) \/ Launch(t) \/ Connect(t)
  \/ WriteParams(t) \/ WriteBody(t) \/ WriteEnd(t) \/ WriteFails(t)
  \/ BrokenPipe(t) \/ BodyFails(t) \/ AnswerRead(t) \/ ReadFails(t)
  \/ Disconnect(t) \/ Reset(t)

Backend(r) == BackendAnswers(r) \/ BackendCloses(r) \/ BackendExits(r)

Next ==
  \/ \E t \in Threads : Begin(t) \/ Step(t)
  \/ \E r \in Reqs : Backend(r)

Spec == Init /\ [][Next]_vars

------------------------------------------------------------------------------
(* Properties                                                               *)

Records == [of : Reqs, part : {"params", "body", "end"}]
Conns == [peer : Reqs \cup {None}, in : Seq(Records),
          answer : Reqs \cup {None, Taken}, left : BOOLEAN]

TypeOK ==
  /\ begun \in 0 .. MaxRequests /\ faults \in 0 .. MaxFaults
  /\ pc \in [Threads -> {"idle", "assign", "launch", "connect", "unreachable",
                         "params", "stdin", "end", "read", "disconnect",
                         "reset"}]
  /\ req \in [Threads -> 0 .. begun]
  /\ status \in [Threads -> {"none", "done", "400", "502", "503"}]
  /\ answered \in [Reqs -> Reqs \cup {None}]
  /\ overlap \subseteq 1 .. begun
  /\ proc \in 0 .. begun /\ expired \in BOOLEAN
  /\ sock \in [Reqs -> 0 .. begun] /\ pid \in [Reqs -> -1 .. begun]
  /\ path \in [Reqs -> BOOLEAN] /\ listener \in [Reqs -> 0 .. begun]
  /\ process \in [Reqs -> {"none", "running", "exited", "killed"}]
  /\ conns \in [Reqs -> Conns]
  /\ crashed \in {"no", "null", "sigpipe"}

\* Request r has returned.
Ended(r) == r <= begun /\ \A t \in Threads : req[t] # r

Parts == <<"params", "body", "end">>

\* A request that was alone in the gateway is answered by the backend it
\* launched, or it is not answered; that backend was sent its records, in their
\* order, and no others, and all of them by the time the answer is taken: what
\* earlier requests did to each other does not reach it.
OwnAnswer ==
  \A r \in Reqs \ overlap :
    /\ answered[r] \in {None, r}
    /\ conns[r].peer \in {None, r}
    /\ Len(conns[r].in) <= Len(Parts)
    /\ \A k \in 1 .. Len(conns[r].in) :
         conns[r].in[k] = [of |-> r, part |-> Parts[k]]
    /\ conns[r].answer = Taken => Len(conns[r].in) = Len(Parts)

\* It leaves nothing behind on any return path: no process, no descriptor, no
\* socket file; and however requests met, no handle is left when all are done.
NothingLeft ==
  crashed = "no" =>
    /\ Busy = {} => proc = None
    /\ \A r \in Reqs \ overlap :
         Ended(r) => process[r] # "running" /\ conns[r] = NoConn /\ ~path[r]

\* The server dies in the gateway only where two requests met, or where a
\* backend ended, or answered and closed, before it was sent the whole request.
CrashHasCause ==
  /\ crashed = "null" => overlap # {}
  /\ crashed = "sigpipe" =>
       \/ overlap # {}
       \/ \E r \in Reqs : /\ conns[r].peer # None
                          /\ Len(conns[r].in) < Len(Parts)
                          /\ conns[r].left \/ process[conns[r].peer] = "exited"

\* Requests that do not meet do not reach each other, and none ends the server
\* unless its backend did not wait for it.
RequestsIsolated == TypeOK /\ OwnAnswer /\ CrashHasCause

\* Whatever the backends do, and however requests meet, a thread in the gateway
\* can take its next step: it waits neither for another thread nor for ever for
\* a backend.  Each step brings the request nearer to its return, but for the
\* loop over a record without an end, which FcgiRecords has (LoopBounded).
NobodyStuck ==
  crashed = "no" => \A t \in Threads : pc[t] # "idle" => ENABLED Step(t)

===============================================================================
