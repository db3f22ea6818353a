--------------------------- MODULE ServerLifecycle ---------------------------
(***************************************************************************)
(* HTTP_Server::run and the threads it starts (serv/httpserver.cpp): from   *)
(* the installation of the signal handlers, through accept() in the worker  *)
(* threads, to the signal, the closing of the listening socket and the      *)
(* joining of the threads.                                                  *)
(*                                                                          *)
(* The descriptor number L of the listening socket is a resource of its     *)
(* own: once closed it may be given to a client's connection, while the     *)
(* socket itself lives as long as a thread is blocked in accept() on it.    *)
(***************************************************************************)
EXTENDS Integers, FiniteSets

CONSTANTS Workers,     \* the HTTP_Threads (8 in the code)
          Main,        \* the thread in HTTP_Server::run
          MaxClients,  \* bound: connections made
          MaxSignals,  \* bound: SIGINT and SIGTERM received
          MaxErrors    \* bound: transient failures of accept(), exceptions

ASSUME LifecycleAssumption ==
  /\ IsFiniteSet(Workers)
  /\ Workers \cap {Main, "listener", "free", "nobody"} = {}
  /\ Main # "nobody"
  /\ MaxClients \in Nat /\ MaxSignals \in Nat /\ MaxErrors \in Nat

VARIABLES
  main,       \* where HTTP_Server::run is
  pc,         \* where each worker is
  onL,        \* workers whose connected_socket has the number L
  fdL,        \* what L refers to: "listener", "free", or a worker's connection
  shut,       \* shutdown() was called on the listening socket
  listening,  \* m->listening_socket # -1
  gFd,        \* g_listening_socket_for_signal >= 0
  flag,       \* g_shutdown_requested
  handler,    \* next step of a running signal handler, or "none"
  victim,     \* the thread it runs on
  pending,    \* connections waiting in the backlog
  clients, signals, errors,  \* how many there have been
  cutOff,     \* workers whose client main shut down by mistake
  result      \* what run() returns: "none", "true", "false"

sockets == <<fdL, onL, shut, listening, cutOff>>
signalVars == <<gFd, flag, handler, victim>>
counts == <<pending, clients, signals, errors>>
vars == <<main, pc, sockets, signalVars, counts, result>>

Nobody == "nobody"

\* The socket is bound and listening, no handler is installed.
Init ==
  /\ main = "install"
  /\ pc = [w \in Workers |-> "new"]
  /\ fdL = "listener" /\ onL = {} /\ shut = FALSE /\ listening = TRUE
  /\ cutOff = {}
  /\ gFd = FALSE /\ flag = FALSE /\ handler = "none" /\ victim = Nobody
  /\ pending = 0 /\ clients = 0 /\ signals = 0 /\ errors = 0
  /\ result = "none"

\* A thread does not run its own code while the handler runs on it.
Running(t) == victim # t

------------------------------------------------------------------------------
(* HTTP_Server::run                                                         *)

\* install_termination_handlers(); a signal before it kills the process.
Install ==
  /\ main = "install" /\ Running(Main)
  /\ main' = "reset"
  /\ UNCHANGED <<pc, sockets, signalVars, counts, result>>

ResetFlag ==
  /\ main = "reset" /\ Running(Main)
  /\ flag' = FALSE
  /\ main' = "publish"
  /\ UNCHANGED <<pc, sockets, gFd, handler, victim, counts, result>>

Publish ==
  /\ main = "publish" /\ Running(Main)
  /\ gFd' = TRUE
  /\ main' = "start"
  /\ UNCHANGED <<pc, sockets, flag, handler, victim, counts, result>>

StartWorker(w) ==
  /\ main = "start" /\ Running(Main)
  /\ pc[w] = "new"
  /\ pc' = [pc EXCEPT ![w] = "accept"]
  /\ main' = IF \E v \in Workers \ {w} : pc[v] = "new" THEN "start" ELSE "poll"
  /\ UNCHANGED <<sockets, signalVars, counts, result>>

\* The polling loop ends within 100 ms of the flag.
Poll ==
  /\ main = "poll" /\ Running(Main)
  /\ flag
  /\ main' = "shutdown"
  /\ UNCHANGED <<pc, sockets, signalVars, counts, result>>

\* shutdown(L): it wakes accept() if L is the listening socket still, fails if
\* L is closed, and hits whoever has L now.
ShutdownListener ==
  /\ main = "shutdown" /\ Running(Main)
  /\ shut' = (shut \/ fdL = "listener")
  /\ cutOff' = IF fdL \in Workers THEN cutOff \cup {fdL} ELSE cutOff
  /\ main' = "close"
  /\ UNCHANGED <<pc, fdL, onL, listening, signalVars, counts, result>>

\* Mutant of CloseListener: the result of closesocket() is not looked at.
CloseListenerUnchecked ==
  /\ main = "close" /\ Running(Main)
  /\ result' = "true"
  /\ fdL' = "free"
  /\ listening' = FALSE
  /\ main' = "join"
  /\ UNCHANGED <<pc, onL, shut, cutOff, signalVars, counts>>

\* closesocket(L); when it fails run() throws, and joins the threads in the
\* destructor of its vector.
CloseListener ==
  /\ main = "close" /\ Running(Main)
  /\ result' = IF fdL = "free" THEN "false" ELSE "true"
  /\ fdL' = "free"
  /\ listening' = FALSE
  /\ main' = "join"
  /\ UNCHANGED <<pc, onL, shut, cutOff, signalVars, counts>>

Gone == {"exited", "failed"}

\* Mutant of Join: the workers are not waited for.
JoinDetached ==
  /\ main = "join" /\ Running(Main)
  /\ main' = "exited"
  /\ UNCHANGED <<pc, sockets, signalVars, counts, result>>

Join ==
  /\ main = "join" /\ Running(Main)
  /\ \A w \in Workers : pc[w] \in Gone
  /\ main' = "exited"
  /\ UNCHANGED <<pc, sockets, signalVars, counts, result>>

------------------------------------------------------------------------------
(* A worker: accept(), one connection, accept() again.                      *)

\* accept() fails with an error that is not EINTR: the thread ends, quietly
\* when the server is going down, with an exception otherwise.
Fail(w) ==
  pc' = [pc EXCEPT ![w] = IF flag \/ ~listening THEN "exited" ELSE "failed"]

\* accept(m->listening_socket): it blocks on the listening socket; a closed
\* number, -1 or a connected socket is an error at once.
CallAccept(w) ==
  /\ pc[w] = "accept" /\ Running(w)
  /\ IF listening /\ fdL = "listener" /\ ~shut
     THEN pc' = [pc EXCEPT ![w] = "blocked"]
     ELSE Fail(w)
  /\ UNCHANGED <<main, sockets, signalVars, counts, result>>

\* The new descriptor may get the number L when it is free.
AcceptReturns(w) ==
  /\ pc[w] = "blocked" /\ Running(w)
  /\ pending > 0
  /\ pending' = pending - 1
  /\ pc' = [pc EXCEPT ![w] = "serving"]
  /\ \/ UNCHANGED <<fdL, onL>>
     \/ fdL = "free" /\ fdL' = w /\ onL' = onL \cup {w}
  /\ UNCHANGED <<main, shut, listening, cutOff, signalVars, clients, signals,
                 errors, result>>

\* shutdown() on the listening socket wakes the threads blocked on it; close()
\* alone does not.
AcceptWoken(w) ==
  /\ pc[w] = "blocked" /\ Running(w)
  /\ shut
  /\ Fail(w)
  /\ UNCHANGED <<main, sockets, signalVars, counts, result>>

\* EMFILE, ECONNABORTED, ...
AcceptError(w) ==
  /\ pc[w] = "blocked" /\ Running(w)
  /\ errors < MaxErrors
  /\ errors' = errors + 1
  /\ Fail(w)
  /\ UNCHANGED <<main, sockets, signalVars, pending, clients, signals, result>>

\* close(connected_socket)
CloseConnection(w) ==
  /\ fdL' = IF w \in onL THEN "free" ELSE fdL
  /\ onL' = onL \ {w}
  /\ cutOff' = cutOff \ {w}

\* Mutant of Finish: the worker serves one connection only.
FinishAndExit(w) ==
  /\ pc[w] = "serving" /\ Running(w)
  /\ pc' = [pc EXCEPT ![w] = "exited"]
  /\ CloseConnection(w)
  /\ UNCHANGED <<main, shut, listening, signalVars, counts, result>>

Finish(w) ==
  /\ pc[w] = "serving" /\ Running(w)
  /\ pc' = [pc EXCEPT ![w] = "accept"]
  /\ CloseConnection(w)
  /\ UNCHANGED <<main, shut, listening, signalVars, counts, result>>

\* An exception of the handler leaves the accept loop: the thread ends and
\* its connection stays open.
Throw(w) ==
  /\ pc[w] = "serving" /\ Running(w)
  /\ errors < MaxErrors
  /\ errors' = errors + 1
  /\ pc' = [pc EXCEPT ![w] = "failed"]
  /\ UNCHANGED <<main, sockets, signalVars, pending, clients, signals, result>>

------------------------------------------------------------------------------
(* Clients and signals.                                                     *)

\* The socket listens while L refers to it or a thread is blocked on it.
Connect ==
  /\ clients < MaxClients
  /\ fdL = "listener" \/ \E w \in Workers : pc[w] = "blocked"
  /\ ~shut
  /\ clients' = clients + 1
  /\ pending' = pending + 1
  /\ UNCHANGED <<main, pc, sockets, signalVars, signals, errors, result>>

\* The kernel runs the handler on any thread of the process; handlers do not
\* overlap here (a SIGINT and a SIGTERM in the same instant could).
Signal(t) ==
  /\ main \notin {"install", "exited"}
  /\ signals < MaxSignals /\ handler = "none"
  /\ t \in Workers => pc[t] \notin Gone \cup {"new"}
  /\ signals' = signals + 1
  /\ handler' = "set"
  /\ victim' = t
  /\ UNCHANGED <<main, pc, sockets, gFd, flag, pending, clients, errors, result>>

\* Mutant of HandlerSet: the handler relies on closing the socket alone.
HandlerSetForgets ==
  /\ handler = "set"
  /\ handler' = "close"
  /\ UNCHANGED <<main, pc, sockets, gFd, flag, victim, counts, result>>

HandlerSet ==
  /\ handler = "set"
  /\ flag' = TRUE
  /\ handler' = "close"
  /\ UNCHANGED <<main, pc, sockets, gFd, victim, counts, result>>

HandlerClose ==
  /\ handler = "close"
  /\ IF gFd THEN fdL' = "free" ELSE UNCHANGED fdL
  /\ handler' = "return"
  /\ UNCHANGED <<main, pc, onL, shut, listening, cutOff, gFd, flag, victim,
                 counts, result>>

\* g_listening_socket_for_signal = -1; an accept() it interrupted returns
\* EINTR and is called again.
HandlerReturn ==
  /\ handler = "return"
  /\ gFd' = FALSE
  /\ handler' = "none"
  /\ victim' = Nobody
  /\ pc' = IF victim \in Workers /\ pc[victim] = "blocked"
           THEN [pc EXCEPT ![victim] = "accept"] ELSE pc
  /\ UNCHANGED <<main, sockets, flag, counts, result>>

------------------------------------------------------------------------------
MainStep ==
  \/ Install \/ ResetFlag \/ Publish \/ \E w \in Workers : StartWorker(w)
  \/ Poll \/ ShutdownListener \/ CloseListener \/ Join

WorkerStep(w) ==
  CallAccept(w) \/ AcceptReturns(w) \/ AcceptWoken(w) \/ Finish(w)

Handler == HandlerSet \/ HandlerClose \/ HandlerReturn

Outside ==
  \/ Connect
  \/ \E t \in Workers \cup {Main} : Signal(t)
  \/ \E w \in Workers : AcceptError(w) \/ Throw(w)

\* The process has ended.
Ended == main = "exited" /\ UNCHANGED vars

Next == MainStep \/ (\E w \in Workers : WorkerStep(w)) \/ Handler \/ Outside
          \/ Ended

Spec == Init /\ [][Next]_vars

\* Every thread is scheduled, a handler runs to its end, and a connection ends
\* (HttpConnection!WorkerReturns).  Clients, signals and errors need not come.
FairSpec ==
  /\ Spec
  /\ WF_vars(MainStep)
  /\ WF_vars(Handler)
  /\ \A w \in Workers : WF_vars(WorkerStep(w))

------------------------------------------------------------------------------
(* Properties                                                               *)

TypeOK ==
  /\ main \in {"install", "reset", "publish", "start", "poll", "shutdown",
               "close", "join", "exited"}
  /\ pc \in [Workers -> {"new", "accept", "blocked", "serving", "exited",
                         "failed"}]
  /\ fdL \in {"listener", "free"} \cup Workers
  /\ onL \subseteq Workers /\ cutOff \subseteq Workers
  /\ shut \in BOOLEAN /\ listening \in BOOLEAN
  /\ gFd \in BOOLEAN /\ flag \in BOOLEAN
  /\ handler \in {"none", "set", "close", "return"}
  /\ victim \in Workers \cup {Main, Nobody}
  /\ pending \in 0 .. MaxClients
  /\ clients \in 0 .. MaxClients /\ signals \in 0 .. MaxSignals
  /\ errors \in 0 .. MaxErrors
  /\ result \in {"none", "true", "false"}

\* run() does not return while a worker is alive: no thread is left with a
\* server that is being destroyed.
ThreadsJoined ==
  main = "exited" => \A w \in Workers : pc[w] \in Gone

\* Closing the listening socket under the workers is never taken for an error
\* of accept(): a worker fails only for a failure of its own.
QuietShutdown == Cardinality({w \in Workers : pc[w] = "failed"}) <= errors

\* run() reports success only when its closesocket() found something: the
\* listening socket, which its own shutdown() had then reached first, or a
\* client that had been given the number.  A signal whose handler closed the
\* socket in time makes it report failure.
SuccessFindsListener ==
  result = "true" => shut \/ cutOff # {} \/ clients > 0

\* A connection waiting in the backlog is taken up, as long as no shutdown is
\* under way and a worker is left that no exception has ended.
ConnectionsTaken ==
  pending > 0 ~> \/ pending = 0
                 \/ signals > 0
                 \/ \A w \in Workers : pc[w] = "failed"

\* A signal ends the server, or leaves it joining workers, none of which is
\* there to be woken: those that are left wait in accept() on a socket that the
\* handler has closed.
SignalEnds ==
  (main = "poll" /\ handler = "set") ~>
    \/ main = "exited"
    \/ /\ main = "join" /\ ~listening
       /\ \A w \in Workers : pc[w] \in Gone \cup {"blocked"}

\* Connections are taken up until a signal comes, which then is acted on.
ServerResponds == ConnectionsTaken /\ SignalEnds
===============================================================================
