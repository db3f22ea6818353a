------------------------------ MODULE AppProcess ------------------------------
(***************************************************************************)
(* The processes of a FastCGI application: how they get their listening    *)
(* socket (src/app/myfcgi.c), accept connections (OS_Accept() of           *)
(* os_unix.c), serve requests (FCGI_Accept() and FCGX_Accept_r()) and end, *)
(* of a signal or by themselves.  A process either makes a socket at a     *)
(* path (-p /path), or finds one as its standard input, which others may   *)
(* share.  What happens to one request is the subject of FcgiLibrary.      *)
(*                                                                         *)
(* socket[p] is the descriptor in OS_Accept(), and then the connection     *)
(* that is served; it stays what it was when that descriptor is closed.    *)
(***************************************************************************)
EXTENDS Naturals, Sequences, FiniteSets

CONSTANTS
  Processes,
  Clients,
  None,        \* no process, no client
  Kinds,       \* what the clients may be: each "good", "bad" (no FastCGI),
               \* "kept" (several requests), "silent" or "foreign" (not in the
               \* address list)
  MaxRequests, \* bound on the requests of a "kept" client
  MaxSignals   \* bound on signals and crashes

Inherited == "inherited"

VARIABLES
  mode,      \* "path", "stdin" or "cgi"
  family,    \* of the listening sockets: "unix" or "inet"
  kind,      \* of each client
  pc,        \* of each process
  socket,    \* of each process: a client or None
  pending,   \* shutdownPending of each process
  tidy,      \* unix_socket_path is set, and its handlers are installed
  lock,      \* of each listening socket: the process that holds it
  queue,     \* of each listening socket: connections not accepted yet
  file,      \* the process whose socket the path names
  client,    \* "away", "queued", "held", "served", "dropped", "refused"
  asked,     \* requests each client has sent
  sent,      \* a request of it is on its way
  closed,    \* it has closed its end
  signals,   \* how many there have been
  alone,     \* the process that has run alone since it started
  late,      \* connections each process accepted after it was to shut down
  missed     \* the signal to shut down came just before accept()

setting == <<mode, family, kind>>
told == <<late, missed>>
process == <<pc, socket, pending, tidy, told>>
listener == <<lock, queue, file>>
peers == <<client, asked, sent, closed>>
vars == <<setting, process, listener, peers, signals, alone>>

Listener(p) == IF mode = "path" THEN p ELSE Inherited
Before == {"off", "bind", "listen"}
Ended == {"over", "failed"}
Alive == {p \in Processes : pc[p] \notin Ended \cup {"off"}}
Listens(p) == pc[p] \notin Ended \cup Before
Stale(p) == socket[p] # None /\ client[socket[p]] # "held"

Init ==
  /\ mode \in {"path", "stdin", "cgi"}
  /\ family \in IF mode = "stdin" THEN {"unix", "inet"} ELSE {"unix"}
  /\ kind \in Kinds
  /\ pc = [p \in Processes |-> CASE mode = "path" -> "off"
                                 [] mode = "cgi" -> "cgi"
                                 [] OTHER -> "lock"]
  /\ socket = [p \in Processes |-> None]
  /\ pending = [p \in Processes |-> FALSE]
  /\ tidy = [p \in Processes |-> FALSE]
  /\ lock = [l \in Processes \cup {Inherited} |-> None]
  /\ queue = [l \in Processes \cup {Inherited} |-> <<>>]
  /\ file = None
  /\ client = [c \in Clients |-> "away"]
  /\ asked = [c \in Clients |-> 0]
  /\ sent = [c \in Clients |-> FALSE]
  /\ closed = [c \in Clients |-> FALSE]
  /\ signals = 0
  /\ alone = None
  /\ late = [p \in Processes |-> 0]
  /\ missed = [p \in Processes |-> FALSE]

At(p, here, there) == pc[p] = here /\ pc' = [pc EXCEPT ![p] = there]

-----------------------------------------------------------------------------
(* serv_unix_socket(): the socket takes the place of what stands at the    *)
(* path.                                                                   *)

\* Mutant of Unlink: a file at the path is left there.
UnlinkNot(p) ==
  /\ mode = "path" /\ At(p, "off", "bind")
  /\ alone' = IF Alive = {} THEN p ELSE None
  /\ UNCHANGED <<setting, socket, pending, tidy, told, listener, peers,
                 signals>>

Unlink(p) ==
  /\ mode = "path" /\ At(p, "off", "bind")
  /\ file' = None
  /\ alone' = IF Alive = {} THEN p ELSE None
  /\ UNCHANGED <<setting, socket, pending, tidy, told, lock, queue, peers,
                 signals>>

\* bind() fails when another process has come in between.
Bind(p) ==
  /\ At(p, "bind", IF file = None THEN "listen" ELSE "failed")
  /\ file' = IF file = None THEN p ELSE file
  /\ UNCHANGED <<setting, socket, pending, tidy, told, lock, queue, peers,
                 signals, alone>>

Listen(p) ==
  /\ At(p, "listen", "install")
  /\ UNCHANGED <<setting, socket, pending, tidy, told, listener, peers,
                 signals, alone>>

\* The rest of it, and FCGX_IsCGI() with the library's own handlers.
Install(p) ==
  /\ At(p, "install", "lock")
  /\ tidy' = [tidy EXCEPT ![p] = TRUE]
  /\ UNCHANGED <<setting, socket, pending, told, listener, peers, signals,
                 alone>>

\* Standard input is no socket: one request, by standard input and output.
Cgi(p) ==
  /\ At(p, "cgi", "exit")
  /\ UNCHANGED <<setting, socket, pending, tidy, told, listener, peers,
                 signals, alone>>

-----------------------------------------------------------------------------
(* OS_Accept().                                                            *)

AcquireLock(p) ==
  /\ pc[p] \in {"lock", "waitlock"}
  /\ IF lock[Listener(p)] \in {None, p}
     THEN /\ lock' = [lock EXCEPT ![Listener(p)] = p]
          /\ pc' = [pc EXCEPT ![p] = "test"]
     ELSE /\ pc' = [pc EXCEPT ![p] = "waitlock"]
          /\ pc[p] # "waitlock"
          /\ UNCHANGED lock
  /\ UNCHANGED <<setting, socket, pending, tidy, told, queue, file, peers,
                 signals, alone>>

Release(p) == lock' = [lock EXCEPT ![Listener(p)] = None]

\* Mutant of Test: it is not looked whether the process is to shut down.
TestNot(p) ==
  /\ At(p, "test", "call") /\ UNCHANGED lock
  /\ UNCHANGED <<setting, socket, pending, tidy, told, queue, file, peers,
                 signals, alone>>

\* Told to shut down it fails, unless "socket" still holds an old number.
Test(p) ==
  /\ \/ ~pending[p] /\ At(p, "test", "call") /\ UNCHANGED lock
     \/ pending[p] /\ socket[p] = None /\ At(p, "test", "exit") /\ Release(p)
     \/ pending[p] /\ socket[p] # None /\ At(p, "test", "got")
        /\ UNCHANGED lock
  /\ UNCHANGED <<setting, socket, pending, tidy, told, queue, file, peers,
                 signals, alone>>

Blocks(p) ==
  /\ queue[Listener(p)] = <<>> /\ At(p, "call", "blocked")
  /\ UNCHANGED <<setting, socket, pending, tidy, told, listener, peers,
                 signals, alone>>

Accept(p) ==
  LET l == Listener(p)
      c == Head(queue[l])
  IN  /\ pc[p] \in {"call", "blocked"} /\ queue[l] # <<>>
      /\ queue' = [queue EXCEPT ![l] = Tail(@)]
      /\ pc' = [pc EXCEPT ![p] = "got"]
      /\ socket' = [socket EXCEPT ![p] = c]
      /\ client' = [client EXCEPT ![c] = "held"]
      /\ late' = [late EXCEPT ![p] = IF pending[p] THEN @ + 1 ELSE @]
      /\ UNCHANGED <<setting, pending, tidy, missed, lock, file, asked, sent,
                     closed, signals, alone>>

\* ECONNABORTED: the client has gone; accept() is tried again.
Aborted(p) ==
  LET l == Listener(p)
  IN  /\ pc[p] \in {"call", "blocked"} /\ queue[l] # <<>> /\ family = "inet"
      /\ closed[Head(queue[l])]
      /\ queue' = [queue EXCEPT ![l] = Tail(@)]
      /\ client' = [client EXCEPT ![Head(queue[l])] = "dropped"]
      /\ socket' = [socket EXCEPT ![p] = None]
      /\ pc' = [pc EXCEPT ![p] = IF pending[p] THEN "exit" ELSE "test"]
      /\ IF pending[p] THEN Release(p) ELSE UNCHANGED lock
      /\ UNCHANGED <<setting, pending, tidy, told, file, asked, sent, closed,
                     signals, alone>>

Drop(c) == client' = [client EXCEPT ![c] = IF @ = "held" THEN "dropped"
                                           ELSE @]

\* ClientAddrOK(): an address that is not approved is closed under the lock.
CheckAddress(p) ==
  /\ family = "inet" /\ pc[p] = "got"
  /\ IF kind[socket[p]] = "foreign"
     THEN At(p, "got", "test") /\ Drop(socket[p]) /\ UNCHANGED lock
     ELSE At(p, "got", "open") /\ Release(p) /\ UNCHANGED client
  /\ UNCHANGED <<setting, socket, pending, tidy, told, queue, file, asked,
                 sent, closed, signals, alone>>

Unlock(p) ==
  /\ family = "unix" /\ At(p, "got", "keeper") /\ Release(p)
  /\ UNCHANGED <<setting, socket, pending, tidy, told, queue, file, peers,
                 signals, alone>>

Readable(c) == sent[c] \/ closed[c]

\* Mutant of Keeper: there is no limit to the wait.
KeeperForever(p) ==
  LET c == socket[p]
  IN  /\ pc[p] = "keeper"
      /\ \/ ~Stale(p) /\ Readable(c) /\ At(p, "keeper", "open")
            /\ UNCHANGED client
         \/ Stale(p) /\ At(p, "keeper", "lock") /\ Drop(c)
      /\ UNCHANGED <<setting, socket, pending, tidy, told, listener,
                     asked, sent, closed, signals, alone>>

\* is_af_unix_keeper(): something to read within two seconds, or it is closed.
Keeper(p) ==
  LET c == socket[p]
  IN  /\ pc[p] = "keeper"
      /\ \/ ~Stale(p) /\ Readable(c) /\ At(p, "keeper", "open")
            /\ UNCHANGED client
         \/ (Stale(p) \/ ~Readable(c)) /\ At(p, "keeper", "lock") /\ Drop(c)
      /\ UNCHANGED <<setting, socket, pending, tidy, told, listener, asked,
                     sent, closed, signals, alone>>

-----------------------------------------------------------------------------
(* FCGX_Accept_r() with a connection, and the application.                 *)

\* The request is read; what is none ends the connection.
ReadRequest(p) ==
  LET c == socket[p]
      request == sent[c] /\ kind[c] # "bad"
  IN  /\ At(p, "open", IF request THEN "serve" ELSE "lock")
      /\ Readable(c)
      /\ sent' = [sent EXCEPT ![c] = FALSE]
      /\ socket' = IF request THEN socket ELSE [socket EXCEPT ![p] = None]
      /\ IF request THEN UNCHANGED client ELSE Drop(c)
      /\ UNCHANGED <<setting, pending, tidy, told, listener, asked, closed,
                     signals, alone>>

\* The answer; then FCGI_Accept() goes on with a connection that is kept.
Answer(p) ==
  LET c == socket[p]
  IN  /\ At(p, "serve", IF kind[c] = "kept" THEN "open" ELSE "lock")
      /\ IF kind[c] = "kept" THEN UNCHANGED <<socket, client>>
         ELSE /\ socket' = [socket EXCEPT ![p] = None]
              /\ client' = [client EXCEPT ![c] = "served"]
      /\ UNCHANGED <<setting, pending, tidy, told, listener, asked, sent,
                     closed, signals, alone>>

-----------------------------------------------------------------------------
(* Ends.                                                                   *)

\* What the system does when p is gone: its lock, its connection and those in
\* a queue that nobody else can accept from.  The process that has handed down
\* an inherited socket has closed it itself, as FcgiProcess::launch() does
\* (FcgiProcess.h:38).
Gone(p) ==
  LET l == Listener(p)
      nobody == mode = "path" \/ Alive \subseteq {p}
      left == {socket[p]} \cup (IF nobody THEN {queue[l][i] :
                                                 i \in DOMAIN queue[l]}
                                ELSE {})
  IN  /\ pc' = [pc EXCEPT ![p] = "over"]
      /\ lock' = IF lock[l] = p THEN [lock EXCEPT ![l] = None] ELSE lock
      /\ queue' = IF nobody THEN [queue EXCEPT ![l] = <<>>] ELSE queue
      /\ client' = [c \in Clients |->
                      IF c \in left /\ client[c] \in {"held", "queued"}
                      THEN "dropped" ELSE client[c]]
      /\ UNCHANGED <<setting, socket, tidy, told, asked, sent, closed>>

\* main() returns and remove_unix_socket() is called, which finds the path in
\* a string that main() has freed: it may or may not read it there.
Exit(p) ==
  /\ pc[p] = "exit" /\ Gone(p)
  /\ file' \in IF tidy[p] THEN {None, file} ELSE {file}
  /\ UNCHANGED <<pending, signals, alone>>

Signal(p) == p \in Alive /\ signals < MaxSignals /\ signals' = signals + 1

\* SIGTERM: the handler removes the file; without it nothing is removed.
Terminate(p) ==
  /\ Signal(p) /\ Gone(p)
  /\ file' = IF tidy[p] THEN None ELSE file
  /\ UNCHANGED <<pending, alone>>

\* The process is killed, or the application crashes.
Crash(p) == Signal(p) /\ Gone(p) /\ UNCHANGED <<pending, file, alone>>

\* SIGUSR1: a call that waits fails with EINTR.  A signal between the test of
\* shutdownPending and accept() interrupts nothing.
Interrupted(p, blocked) ==
  LET c == socket[p]
      waits == pc[p] \in {"keeper", "open"} /\ ~Stale(p) /\ ~Readable(c)
  IN  /\ Signal(p) /\ Listens(p) /\ pc[p] # "install"
      /\ pending' = [pending EXCEPT ![p] = TRUE]
      /\ missed' = [missed EXCEPT ![p] = @ \/ pc[p] = "call"]
      /\ pc' = [pc EXCEPT ![p] = CASE @ = "blocked" -> blocked
                                   [] @ = "waitlock" -> "exit"
                                   [] waits -> "lock"
                                   [] OTHER -> @]
      /\ IF pc[p] = "blocked" /\ blocked = "exit" THEN Release(p)
         ELSE UNCHANGED lock
      /\ IF waits THEN Drop(c) ELSE UNCHANGED client
      /\ socket' = IF pc[p] = "blocked" \/ (waits /\ pc[p] = "open")
                   THEN [socket EXCEPT ![p] = None] ELSE socket
      /\ UNCHANGED <<setting, tidy, late, queue, file, asked, sent, closed,
                     alone>>

\* Mutant of ShutDown: accept() is tried again after any signal.
ShutDownRetries(p) == Interrupted(p, "call")

ShutDown(p) == Interrupted(p, "exit")

-----------------------------------------------------------------------------
(* Clients.                                                                *)

Connect(c) ==
  LET l == IF mode = "path" THEN file ELSE Inherited
      listens == IF mode = "path" THEN file # None /\ Listens(file)
                 ELSE Alive # {}
  IN  /\ mode # "cgi" /\ client[c] = "away"
      /\ client' = [client EXCEPT ![c] = IF listens THEN "queued"
                                         ELSE "refused"]
      /\ queue' = IF listens THEN [queue EXCEPT ![l] = Append(@, c)]
                  ELSE queue
      /\ UNCHANGED <<setting, process, lock, file, asked, sent, closed,
                     signals, alone>>

Connected(c) == client[c] \in {"queued", "held"} /\ ~closed[c]
MayAsk(c) == IF kind[c] = "kept" THEN asked[c] < MaxRequests
             ELSE asked[c] = 0 /\ kind[c] # "silent"

Send(c) ==
  /\ Connected(c) /\ ~sent[c] /\ MayAsk(c)
  /\ sent' = [sent EXCEPT ![c] = TRUE]
  /\ asked' = [asked EXCEPT ![c] = @ + 1]
  /\ UNCHANGED <<setting, process, listener, client, closed, signals, alone>>

\* A client that has nothing more to ask and no answer to wait for.
Leave(c) ==
  /\ Connected(c) /\ ~sent[c] /\ kind[c] \in {"silent", "kept"}
  /\ \A p \in Processes : ~(socket[p] = c /\ pc[p] = "serve")
  /\ closed' = [closed EXCEPT ![c] = TRUE]
  /\ UNCHANGED <<setting, process, listener, client, asked, sent, signals,
                 alone>>

-----------------------------------------------------------------------------

Step(p) ==
  \/ Unlink(p) \/ Bind(p) \/ Listen(p) \/ Install(p) \/ Cgi(p)
  \/ AcquireLock(p) \/ Test(p) \/ Blocks(p) \/ Accept(p) \/ Aborted(p)
  \/ CheckAddress(p) \/ Unlock(p) \/ Keeper(p)
  \/ ReadRequest(p) \/ Answer(p) \/ Exit(p)

ClientStep(c) == Connect(c) \/ Send(c) \/ Leave(c)

Next ==
  \/ \E p \in Processes : Step(p)
  \/ \E p \in Processes : Terminate(p) \/ Crash(p) \/ ShutDown(p)
  \/ \E c \in Clients : ClientStep(c)

Spec == Init /\ [][Next]_vars

\* A process that can go on goes on, and a client that is connected asks what
\* it has to ask, and leaves when it has the answers; a silent one need not.
FairSpec ==
  /\ Spec
  /\ \A p \in Processes : WF_vars(Step(p))
  /\ \A c \in Clients :
       WF_vars(Send(c) \/ (kind[c] = "kept" /\ Leave(c)))

-----------------------------------------------------------------------------
(* What is promised.                                                       *)

\* After SIGUSR1 a process accepts one more connection at most: the one that
\* comes between its last look at shutdownPending and accept().
AtMostOneMore == \A p \in Processes : late[p] <= 1

\* A process that starts while no other runs gets its socket, whatever is left
\* at the path, and the path leads to it as long as it runs alone.
Restartable ==
  alone # None =>
    /\ pc[alone] # "failed"
    /\ Listens(alone) => file = alone

\* A client that never asks anything holds up a process: it waits two seconds
\* at a path, and for ever where clients have addresses.
HeldUp ==
  family = "inet" /\ \E c \in Clients : kind[c] = "silent" /\ client[c] = "held"

\* Every connection is answered or closed, unless a process that is to shut
\* down or a silent client with an address is in the way.
ClientsServed ==
  \A c \in Clients :
    client[c] \in {"queued", "held"}
      ~> \/ client[c] \in {"served", "dropped"}
         \/ \E p \in Processes : pending[p]
         \/ HeldUp

\* A process that is to shut down ends, but for four cases: the signal came
\* just before accept(), which waits for a client; another process holds the
\* lock while it waits for a client; OS_Accept() has closed a connection and
\* still holds its number, with which a process goes round for ever; a silent
\* client.
ShutdownEnds ==
  \A p \in Processes :
    pending[p] ~> \/ pc[p] \in Ended
                  \/ pc[p] = "blocked" /\ missed[p]
                  \/ pc[p] = "waitlock"
                  \/ \E q \in Processes : pending[q] /\ Stale(q)
                  \/ HeldUp

=============================================================================
