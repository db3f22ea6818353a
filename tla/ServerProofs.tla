---------------------------- MODULE ServerProofs ----------------------------
(***************************************************************************)
(* Proofs about the HTTP server beside its connections:                    *)
(*                                                                         *)
(*  - ServerLifecycle, for any number of workers, clients, signals and     *)
(*    failures: run() returns only behind its threads, the closing of the  *)
(*    listening socket is never taken for a failure of accept(), and       *)
(*    success means that the socket, or a client that had its number, was  *)
(*    hit;                                                                 *)
(*  - SessionIds: the ids that its threads draw are never the same;        *)
(*  - Digest, for all sizes of blocks and of the words of the length: the  *)
(*    digest of the WebSocket handshake is made of the whole message;      *)
(*  - Endpoints, for any URI and any document root: the file that a        *)
(*    request has the server open is below the root.                       *)
(***************************************************************************)
EXTENDS ServerLifecycle, SessionIds, Endpoints, Digest, FiniteSetTheorems,
        SequenceTheorems, WellFoundedInduction, TLAPS

------------------------------------------------------------------------------
(* ServerLifecycle: the inductive invariant.                                *)

\* Until the descriptor is published to the handler nothing can have happened
\* to the socket, and no worker runs: the flag is cleared before it can matter.
Untouched ==
  main \in {"install", "reset"} =>
    /\ ~gFd /\ fdL = "listener" /\ ~shut
    /\ \A w \in Workers : pc[w] = "new"
    /\ handler # "none" => main = "reset" /\ victim = Main

\* Whoever touches the socket has set the flag first.
FlagFirst ==
  /\ handler \in {"close", "return"} => flag
  /\ main \in {"shutdown", "close", "join", "exited"} => flag
  /\ fdL # "listener" \/ shut => flag
  /\ onL # {} => fdL # "listener"

\* A connection on the number L is one that a client made; run() has shut down
\* the listening socket when it comes to close it.
Renumbered ==
  /\ pending <= clients
  /\ fdL \in Workers => clients > 0
  /\ main = "close" /\ fdL = "listener" => shut
  /\ result = "true" => shut \/ clients > 0

IInv ==
  /\ TypeOK /\ Untouched /\ FlagFirst /\ Renumbered
  /\ ThreadsJoined /\ QuietShutdown

USE LifecycleAssumption

------------------------------------------------------------------------------
(* Failed workers.                                                          *)

FailedIn(p) == {w \in Workers : p[w] = "failed"}

\* A step that leaves the failed workers alone keeps their number ...
LEMMA SameFailed ==
  ASSUME FailedIn(pc') \subseteq FailedIn(pc), errors' = errors,
         errors \in Nat, QuietShutdown
  PROVE  QuietShutdown'
<1>1. IsFiniteSet(FailedIn(pc))
  BY FS_Subset DEF FailedIn
<1>2. Cardinality(FailedIn(pc')) <= Cardinality(FailedIn(pc))
  BY <1>1, FS_Subset
<1>3. /\ Cardinality(FailedIn(pc)) \in Nat
      /\ Cardinality(FailedIn(pc')) \in Nat
  BY <1>1, FS_Subset, FS_CardinalityType
<1> QED
  BY <1>2, <1>3 DEF QuietShutdown, FailedIn

\* ... and an error adds one at most.
LEMMA OneMoreFailed ==
  ASSUME NEW w \in Workers, FailedIn(pc') \subseteq FailedIn(pc) \cup {w},
         errors' = errors + 1, errors \in Nat, QuietShutdown
  PROVE  QuietShutdown'
<1>1. IsFiniteSet(FailedIn(pc))
  BY FS_Subset DEF FailedIn
<1>2. /\ IsFiniteSet(FailedIn(pc) \cup {w})
      /\ Cardinality(FailedIn(pc) \cup {w}) <= Cardinality(FailedIn(pc)) + 1
  <2>1. Cardinality(FailedIn(pc)) \in Nat
    BY <1>1, FS_CardinalityType
  <2>2. /\ IsFiniteSet(FailedIn(pc) \cup {w})
        /\ Cardinality(FailedIn(pc) \cup {w}) =
             IF w \in FailedIn(pc) THEN Cardinality(FailedIn(pc))
             ELSE Cardinality(FailedIn(pc)) + 1
    BY <1>1, FS_AddElement
  <2> QED
    BY <2>1, <2>2
<1>3. Cardinality(FailedIn(pc')) <= Cardinality(FailedIn(pc) \cup {w})
  BY <1>2, FS_Subset
<1>4. /\ Cardinality(FailedIn(pc)) \in Nat
      /\ Cardinality(FailedIn(pc')) \in Nat
      /\ Cardinality(FailedIn(pc) \cup {w}) \in Nat
  BY <1>1, <1>2, FS_Subset, FS_CardinalityType
<1> QED
  BY <1>2, <1>3, <1>4 DEF QuietShutdown, FailedIn

------------------------------------------------------------------------------
(* One lemma for each group of actions.                                     *)

\* The steps of HTTP_Server::run.
LEMMA MainInv == IInv /\ MainStep => IInv'
<1> SUFFICES ASSUME IInv, MainStep PROVE IInv'
  OBVIOUS
<1> USE DEF IInv
<1>1. CASE Install
  <2>1. TypeOK' /\ Untouched' /\ FlagFirst' /\ Renumbered' /\ ThreadsJoined'
    BY <1>1 DEF Install, TypeOK, Untouched, FlagFirst, Renumbered, ThreadsJoined,
                sockets, signalVars, counts
  <2>2. QuietShutdown'
    BY <1>1, SameFailed DEF Install, TypeOK, counts
  <2> QED
    BY <2>1, <2>2
<1>2. CASE ResetFlag
  <2>1. TypeOK' /\ Untouched' /\ FlagFirst' /\ Renumbered' /\ ThreadsJoined'
    BY <1>2 DEF ResetFlag, Running, TypeOK, Untouched, FlagFirst, Renumbered,
                ThreadsJoined, sockets, counts
  <2>2. QuietShutdown'
    BY <1>2, SameFailed DEF ResetFlag, TypeOK, counts
  <2> QED
    BY <2>1, <2>2
<1>3. CASE Publish
  <2>1. TypeOK' /\ Untouched' /\ FlagFirst' /\ Renumbered' /\ ThreadsJoined'
    BY <1>3 DEF Publish, TypeOK, Untouched, FlagFirst, Renumbered, ThreadsJoined,
                sockets, counts
  <2>2. QuietShutdown'
    BY <1>3, SameFailed DEF Publish, TypeOK, counts
  <2> QED
    BY <2>1, <2>2
<1>4. CASE \E w \in Workers : StartWorker(w)
  <2>1. TypeOK' /\ Untouched' /\ FlagFirst' /\ Renumbered' /\ ThreadsJoined'
    BY <1>4 DEF StartWorker, TypeOK, Untouched, FlagFirst, Renumbered,
                ThreadsJoined, sockets, signalVars, counts
  <2>2. QuietShutdown'
    BY <1>4, SameFailed DEF StartWorker, TypeOK, FailedIn, counts
  <2> QED
    BY <2>1, <2>2
<1>5. CASE Poll
  <2>1. TypeOK' /\ Untouched' /\ FlagFirst' /\ Renumbered' /\ ThreadsJoined'
    BY <1>5 DEF Poll, TypeOK, Untouched, FlagFirst, Renumbered, ThreadsJoined,
                sockets, signalVars, counts
  <2>2. QuietShutdown'
    BY <1>5, SameFailed DEF Poll, TypeOK, counts
  <2> QED
    BY <2>1, <2>2
<1>6. CASE ShutdownListener
  <2>1. TypeOK'
    BY <1>6 DEF ShutdownListener, TypeOK, signalVars, counts
  <2>2. Untouched' /\ FlagFirst'
    BY <1>6 DEF ShutdownListener, TypeOK, Untouched, FlagFirst, signalVars,
                counts
  <2>3. Renumbered'
    BY <1>6 DEF ShutdownListener, TypeOK, Renumbered, FlagFirst, counts
  <2>4. ThreadsJoined'
    BY <1>6 DEF ShutdownListener, TypeOK, ThreadsJoined
  <2>5. QuietShutdown'
    BY <1>6, SameFailed DEF ShutdownListener, TypeOK, counts
  <2> QED
    BY <2>1, <2>2, <2>3, <2>4, <2>5
<1>7. CASE CloseListener
  <2>1. TypeOK' /\ Untouched' /\ FlagFirst' /\ Renumbered' /\ ThreadsJoined'
    BY <1>7 DEF CloseListener, TypeOK, Untouched, FlagFirst, Renumbered,
                ThreadsJoined, signalVars, counts
  <2>2. QuietShutdown'
    BY <1>7, SameFailed DEF CloseListener, TypeOK, counts
  <2> QED
    BY <2>1, <2>2
<1>8. CASE Join
  <2>1. TypeOK' /\ Untouched' /\ FlagFirst' /\ Renumbered' /\ ThreadsJoined'
    BY <1>8 DEF Join, TypeOK, Untouched, FlagFirst, Renumbered, ThreadsJoined,
                sockets, signalVars, counts
  <2>2. QuietShutdown'
    BY <1>8, SameFailed DEF Join, TypeOK, counts
  <2> QED
    BY <2>1, <2>2
<1> QED
  BY <1>1, <1>2, <1>3, <1>4, <1>5, <1>6, <1>7, <1>8 DEF MainStep

\* The steps of a worker: an accept() that returns because the socket was shut
\* down, or that is called behind its closing, finds the flag set.
LEMMA WorkerInv ==
  ASSUME NEW w \in Workers PROVE IInv /\ WorkerStep(w) => IInv'
<1> SUFFICES ASSUME IInv, WorkerStep(w) PROVE IInv'
  OBVIOUS
<1> USE DEF IInv
<1>1. CASE CallAccept(w)
  <2>1. TypeOK' /\ Untouched' /\ FlagFirst' /\ Renumbered' /\ ThreadsJoined'
    BY <1>1 DEF CallAccept, Fail, TypeOK, Untouched, FlagFirst, Renumbered,
                ThreadsJoined, Gone, sockets, signalVars, counts
  <2>2. QuietShutdown'
    BY <1>1, SameFailed DEF CallAccept, Fail, TypeOK, FlagFirst, FailedIn,
                            counts
  <2> QED
    BY <2>1, <2>2
<1>2. CASE AcceptReturns(w)
  <2>1. TypeOK' /\ Untouched' /\ FlagFirst' /\ Renumbered' /\ ThreadsJoined'
    BY <1>2 DEF AcceptReturns, TypeOK, Untouched, FlagFirst, Renumbered,
                ThreadsJoined, Gone, signalVars
  <2>2. QuietShutdown'
    BY <1>2, SameFailed DEF AcceptReturns, TypeOK, FailedIn
  <2> QED
    BY <2>1, <2>2
<1>3. CASE AcceptWoken(w)
  <2>1. TypeOK' /\ Untouched' /\ FlagFirst' /\ Renumbered' /\ ThreadsJoined'
    BY <1>3 DEF AcceptWoken, Fail, TypeOK, Untouched, FlagFirst, Renumbered,
                ThreadsJoined, Gone, sockets, signalVars, counts
  <2>2. QuietShutdown'
    BY <1>3, SameFailed DEF AcceptWoken, Fail, TypeOK, FlagFirst, FailedIn,
                            counts
  <2> QED
    BY <2>1, <2>2
<1>4. CASE Finish(w)
  <2>1. TypeOK' /\ Untouched' /\ FlagFirst' /\ Renumbered' /\ ThreadsJoined'
    BY <1>4 DEF Finish, CloseConnection, TypeOK, Untouched, FlagFirst,
                Renumbered, ThreadsJoined, Gone, signalVars, counts
  <2>2. QuietShutdown'
    BY <1>4, SameFailed DEF Finish, TypeOK, FailedIn, counts
  <2> QED
    BY <2>1, <2>2
<1> QED
  BY <1>1, <1>2, <1>3, <1>4 DEF WorkerStep

\* The steps of the signal handler.
LEMMA HandlerInv == IInv /\ Handler => IInv'
<1> SUFFICES ASSUME IInv, Handler PROVE IInv'
  OBVIOUS
<1> USE DEF IInv
<1>1. CASE HandlerSet
  <2>1. TypeOK' /\ Untouched' /\ FlagFirst' /\ Renumbered' /\ ThreadsJoined'
    BY <1>1 DEF HandlerSet, TypeOK, Untouched, FlagFirst, Renumbered,
                ThreadsJoined, sockets, counts
  <2>2. QuietShutdown'
    BY <1>1, SameFailed DEF HandlerSet, TypeOK, counts
  <2> QED
    BY <2>1, <2>2
<1>2. CASE HandlerClose
  <2>1. TypeOK' /\ Untouched' /\ FlagFirst' /\ Renumbered' /\ ThreadsJoined'
    BY <1>2 DEF HandlerClose, TypeOK, Untouched, FlagFirst, Renumbered,
                ThreadsJoined, counts
  <2>2. QuietShutdown'
    BY <1>2, SameFailed DEF HandlerClose, TypeOK, counts
  <2> QED
    BY <2>1, <2>2
<1>3. CASE HandlerReturn
  <2>1. TypeOK'
    BY <1>3 DEF HandlerReturn, TypeOK, Gone, sockets, counts
  <2>2. Untouched' /\ FlagFirst' /\ Renumbered'
    BY <1>3 DEF HandlerReturn, TypeOK, Untouched, FlagFirst, Renumbered, Gone,
                sockets, counts
  <2>3. ThreadsJoined'
    BY <1>3 DEF HandlerReturn, TypeOK, ThreadsJoined, Gone, sockets
  <2>4. QuietShutdown'
    BY <1>3, SameFailed DEF HandlerReturn, TypeOK, FailedIn, counts
  <2> QED
    BY <2>1, <2>2, <2>3, <2>4
<1> QED
  BY <1>1, <1>2, <1>3 DEF Handler

\* Clients, signals, and failures, each of which ends one worker at most.
LEMMA OutsideInv == IInv /\ Outside => IInv'
<1> SUFFICES ASSUME IInv, Outside PROVE IInv'
  OBVIOUS
<1> USE DEF IInv
<1>1. CASE Connect
  <2>1. TypeOK' /\ Untouched' /\ FlagFirst' /\ Renumbered' /\ ThreadsJoined'
    BY <1>1 DEF Connect, TypeOK, Untouched, FlagFirst, Renumbered, ThreadsJoined,
                sockets, signalVars
  <2>2. QuietShutdown'
    BY <1>1, SameFailed DEF Connect, TypeOK
  <2> QED
    BY <2>1, <2>2
<1>2. CASE \E t \in Workers \cup {Main} : Signal(t)
  <2>1. TypeOK' /\ Untouched' /\ FlagFirst' /\ Renumbered' /\ ThreadsJoined'
    BY <1>2 DEF Signal, TypeOK, Untouched, FlagFirst, Renumbered, ThreadsJoined,
                sockets
  <2>2. QuietShutdown'
    BY <1>2, SameFailed DEF Signal, TypeOK
  <2> QED
    BY <2>1, <2>2
<1>3. ASSUME NEW w \in Workers, AcceptError(w) PROVE IInv'
  <2>1. TypeOK' /\ Untouched' /\ FlagFirst' /\ Renumbered' /\ ThreadsJoined'
    BY <1>3 DEF AcceptError, Fail, TypeOK, Untouched, FlagFirst, Renumbered,
                ThreadsJoined, Gone, sockets, signalVars
  <2>2. QuietShutdown'
    BY <1>3, OneMoreFailed DEF AcceptError, Fail, TypeOK, FailedIn
  <2> QED
    BY <2>1, <2>2
<1>4. ASSUME NEW w \in Workers, Throw(w) PROVE IInv'
  <2>1. TypeOK' /\ Untouched' /\ FlagFirst' /\ Renumbered' /\ ThreadsJoined'
    BY <1>4 DEF Throw, TypeOK, Untouched, FlagFirst, Renumbered, ThreadsJoined,
                Gone, sockets, signalVars
  <2>2. QuietShutdown'
    BY <1>4, OneMoreFailed DEF Throw, TypeOK, FailedIn
  <2> QED
    BY <2>1, <2>2
<1> QED
  BY <1>1, <1>2, <1>3, <1>4 DEF Outside

LEMMA InitInv == Init => IInv
<1> SUFFICES ASSUME Init PROVE IInv
  OBVIOUS
<1>1. FailedIn(pc) = {}
  BY DEF Init, FailedIn
<1>2. QuietShutdown
  BY <1>1, FS_EmptySet DEF Init, QuietShutdown, FailedIn
<1>3. /\ pending \in 0 .. MaxClients /\ clients \in 0 .. MaxClients
      /\ signals \in 0 .. MaxSignals /\ errors \in 0 .. MaxErrors
  BY SMT DEF Init
<1>4. TypeOK
  BY <1>3, Zenon DEF Init, TypeOK, Nobody
<1> QED
  BY <1>2, <1>4
     DEF Init, IInv, Untouched, FlagFirst, Renumbered, ThreadsJoined, Nobody

LEMMA NextInv == IInv /\ [Next]_vars => IInv'
<1> SUFFICES ASSUME IInv, [Next]_vars PROVE IInv'
  OBVIOUS
<1>1. CASE UNCHANGED vars
  BY <1>1 DEF vars, sockets, signalVars, counts, IInv, TypeOK, Untouched,
              FlagFirst, Renumbered, ThreadsJoined, QuietShutdown
<1> QED
  BY <1>1, MainInv, WorkerInv, HandlerInv, OutsideInv DEF Next, Ended

------------------------------------------------------------------------------
(* The theorems.                                                            *)

LEMMA Invariance == Spec => []IInv
<1>1. QED
  BY InitInv, NextInv, PTL DEF Spec

\* run() does not return before its workers: the object they use outlives them
\* (httpserver.cpp:995-1013).
THEOREM NoThreadSurvives == Spec => []ThreadsJoined
<1>1. IInv => ThreadsJoined
  BY DEF IInv
<1> QED
  BY <1>1, Invariance, PTL

\* A worker dies only of an error of its own: an accept() on a socket that the
\* signal handler or run() has closed, or whose number a client has been given,
\* finds the flag set (httpserver.cpp:45-52, 495-503).
THEOREM ShutdownIsQuiet == Spec => []QuietShutdown
<1>1. IInv => QuietShutdown
  BY DEF IInv
<1> QED
  BY <1>1, Invariance, PTL

\* run() returns true only if shutdown() reached the listening socket, or a
\* client has connected, whose number was closed in its place
\* (httpserver.cpp:995-1002).
THEOREM SuccessIsReal == Spec => []SuccessFindsListener
<1>1. IInv => SuccessFindsListener
  BY DEF IInv, Renumbered, SuccessFindsListener
<1> QED
  BY <1>1, Invariance, PTL

------------------------------------------------------------------------------
(* The ids that the threads draw.  The inductive invariant: who draws a     *)
(* word holds the mutex, the counter is one block ahead while words are left *)
(* in the buffer, and every word drawn has a smaller number than the next.   *)

\* A word: its upper and its lower half.
Pairs == Nat \X Nat
\* The places at which a thread draws a word.
Holding == {"block", "word", "index"}

IdTypes ==
  /\ counter \in Nat /\ buffer \in Nat /\ index \in 0 .. BufferSize - 1
  /\ lock \in Threads \cup {"none"} /\ clock \in Nat
  /\ at \in [Threads -> {"idle", "lock", "made"} \cup Holding]
  /\ id \in [Threads -> [time : Nat, words : Seq(Pairs)]]
  /\ \E S : ids \in Seq(S)

\* The thread that draws a word holds the mutex.
Alone == \A t \in Threads : at[t] \in Holding <=> lock = t

\* How many words a thread has, by the place it is at.
Progress ==
  \A t \in Threads :
    LET n == Len(id[t].words)
    IN  /\ at[t] \in {"lock", "block", "word"} => n \in {0, 1}
        /\ at[t] = "index" => n \in {1, 2}
        /\ at[t] = "made" => n = 2

InBlock == lock # "none" /\ at[lock] \in {"word", "index"}

\* The counter is one block ahead as long as words are left in the buffer.
Ahead == index # 0 \/ InBlock => counter = buffer + 1

\* The number of the next word that is drawn.
Upcoming ==
  IF InBlock
  THEN buffer * BufferSize + index + (IF at[lock] = "index" THEN 1 ELSE 0)
  ELSE (IF index = 0 THEN counter ELSE buffer) * BufferSize + index

\* The lower half of the word by which a thread's id, or one handed out, will
\* differ from all others.
Drawn(t) == at[t] # "idle" /\ Len(id[t].words) # 0
Mark(x) == x.words[1][2]
Stamp(x) == Groups(x.text)[6]

Distinct(n) ==
  /\ \A t \in Threads : Drawn(t) => Mark(id[t]) < n
  /\ \A i \in 1 .. Len(ids) : Stamp(ids[i]) \in Nat /\ Stamp(ids[i]) < n
  /\ \A t, u \in Threads : Drawn(t) /\ Drawn(u) /\ t # u => Mark(id[t]) # Mark(id[u])
  /\ \A t \in Threads : Drawn(t) =>
       \A i \in 1 .. Len(ids) : Mark(id[t]) # Stamp(ids[i])
  /\ \A i, j \in 1 .. Len(ids) : i # j => Stamp(ids[i]) # Stamp(ids[j])

\* The upper half of a word has 16 bits.
Halved == \A t \in Threads : Drawn(t) => id[t].words[1][1] < SixteenBits

\* The groups that tell the time.
Timed(g, time) ==
  /\ g[1] = 0 /\ g[2] = (time \div 1000) \div SixteenBits
  /\ g[3] = (time \div 1000) % SixteenBits
  /\ \E r \in 0 .. 3 : g[4] = 28672 + (time % 1000) * 4 + r

Dated ==
  \A i \in 1 .. Len(ids) :
    ids[i].time \in Nat /\ Timed(Groups(ids[i].text), ids[i].time)

IdInv ==
  /\ IdTypes /\ Alone /\ Progress /\ Ahead /\ Halved /\ Dated
  /\ Distinct(257 * Upcoming)

------------------------------------------------------------------------------
(* What the operators of SessionIds return.                                 *)

\* The upper half of a word: two bits over fourteen.
Upper(n) == ((n % 4) * 16384) + ((n \div 4) % 16384)

LEMMA UpperIs ==
  ASSUME NEW n \in Nat
  PROVE  Upper(n) \in Nat /\ Upper(n) < SixteenBits
<1>1. Upper(n) \in Nat
  BY DEF Upper
<1>2. Upper(n) < SixteenBits
  BY DEF Upper, SixteenBits
<1> QED BY <1>1, <1>2

LEMMA WordIs ==
  ASSUME NEW number \in Nat, NEW p \in Nat
  PROVE  /\ Word(number, p) \in Pairs /\ Word(number, p)[1] < SixteenBits
         /\ Word(number, p)[2] = 257 * (number * BufferSize + p)
<1> DEFINE n == number * BufferSize + p
<1>1. n \in Nat
  BY IdAssumption
<1>2. Word(number, p) = <<Upper(n), n * 257>>
  BY DEF Word, Upper
<1> HIDE DEF n
<1>3. Upper(n) \in Nat /\ Upper(n) < SixteenBits
  BY <1>1, UpperIs
<1>4. n * 257 \in Nat /\ n * 257 = 257 * n
  BY <1>1
<1> DEFINE c == Upper(n)
           d == n * 257
<1>5. /\ Word(number, p) = <<c, d>> /\ c \in Nat /\ c < SixteenBits
      /\ d \in Nat /\ d = 257 * n
  BY <1>2, <1>3, <1>4
<1> HIDE DEF c, d
<1>6. d = 257 * (number * BufferSize + p)
  BY <1>5 DEF n
<1> QED BY <1>5, <1>6 DEF Pairs

LEMMA UuidIs ==
  ASSUME NEW time \in Nat, NEW hi \in Pairs, hi[1] < SixteenBits, NEW lo,
         NEW text \in {SessionId(Uuidv7(time, hi, lo)),
                       UuidToString(Uuidv7(time, hi, lo))}
  PROVE  Groups(text)[6] = hi[2] /\ Timed(Groups(text), time)
<1> DEFINE u == Uuidv7(time, hi, lo)
           r == hi[1] \div 16384
<1>1. hi[1] \in Nat /\ hi[2] \in Nat /\ r \in 0 .. 3
  BY DEF Pairs, SixteenBits
<1>2. u = <<0, (time \div 1000) \div SixteenBits,
            (time \div 1000) % SixteenBits,
            7 * 4096 + (time % 1000) * 4 + r,
            32768 + (hi[1] % 16384), hi[2], lo[1], lo[2]>>
  BY DEF Uuidv7
<1>3. Groups(text) = u
  BY <1>2 DEF Groups, SessionId, UuidToString
<1>4. /\ u[1] = 0 /\ u[2] = (time \div 1000) \div SixteenBits
      /\ u[3] = (time \div 1000) % SixteenBits
      /\ u[4] = 28672 + (time % 1000) * 4 + r
      /\ u[6] = hi[2]
  BY <1>1, <1>2
<1> HIDE DEF u, r
<1> QED BY <1>1, <1>3, <1>4 DEF Timed

LEMMA UpcomingIs == IdTypes => Upcoming \in Nat
<1> SUFFICES ASSUME IdTypes PROVE Upcoming \in Nat
  OBVIOUS
<1>1. BufferSize \in Nat /\ buffer \in Nat /\ counter \in Nat /\ index \in Nat
  BY IdAssumption DEF IdTypes
<1>2. buffer * BufferSize \in Nat /\ counter * BufferSize \in Nat
  BY <1>1
<1> QED BY <1>1, <1>2 DEF Upcoming

------------------------------------------------------------------------------
(* Every step keeps the invariant of the ids.                               *)

\* A step that draws nothing and hands nothing out.
LEMMA NothingDrawn ==
  ASSUME IdInv, IdTypes', Upcoming <= Upcoming', UNCHANGED ids,
         \A t \in Threads :
           Drawn(t)' => Drawn(t) /\ id'[t].words[1] = id[t].words[1]
  PROVE  Distinct(257 * Upcoming)' /\ Halved' /\ Dated'
<1>1. Upcoming \in Nat /\ Upcoming' \in Nat
  <2>1. Upcoming \in Nat
    BY UpcomingIs DEF IdInv
  <2>2. (IdTypes => Upcoming \in Nat)'
    BY UpcomingIs, PTL
  <2> QED BY <2>1, <2>2
<1>2. \A t \in Threads : Drawn(t)' => Drawn(t) /\ Mark(id'[t]) = Mark(id[t])
  BY DEF Mark
<1>3. \A i \in 1 .. Len(ids) : Stamp(ids'[i]) = Stamp(ids[i])
  BY DEF Stamp
<1>4. \A t \in Threads : Drawn(t) => Mark(id[t]) \in Nat
  <2> SUFFICES ASSUME NEW t \in Threads, Drawn(t) PROVE Mark(id[t]) \in Nat
    OBVIOUS
  <2>1. id[t].words \in Seq(Pairs) /\ Len(id[t].words) # 0
    BY DEF IdInv, IdTypes, Drawn
  <2>2. id[t].words[1] \in Pairs
    BY <2>1
  <2> QED BY <2>2 DEF Mark, Pairs
<1>5. Distinct(257 * Upcoming)'
  BY <1>1, <1>2, <1>3, <1>4 DEF IdInv, Distinct
<1>6. Halved'
  BY DEF IdInv, Halved
<1>7. Dated'
  BY DEF IdInv, Dated
<1> QED BY <1>5, <1>6, <1>7

LEMMA IdInvInit == IdInit => IdInv
<1> SUFFICES ASSUME IdInit PROVE IdInv
  OBVIOUS
<1>1. IdTypes
  <2>1. <<>> \in Seq(Pairs) /\ <<>> \in Seq({})
    OBVIOUS
  <2>2. id \in [Threads -> [time : Nat, words : Seq(Pairs)]]
    BY <2>1 DEF IdInit
  <2> QED BY <2>1, <2>2, IdAssumption DEF IdInit, IdTypes
<1>2. Alone
  BY IdAssumption DEF IdInit, Alone, Holding
<1>3. Progress /\ Ahead
  BY DEF IdInit, Progress, Ahead, InBlock
<1>4. Halved /\ Dated /\ Distinct(257 * Upcoming)
  BY DEF IdInit, Halved, Dated, Distinct, Drawn
<1> QED BY <1>1, <1>2, <1>3, <1>4 DEF IdInv

\* The generator is seeded, and time passes.
LEMMA AroundKeeps ==
  ASSUME IdInv, UNCHANGED <<block, lock, at, id, ids>>, clock' \in Nat
  PROVE  IdInv'
<1>1. IdTypes' /\ Alone' /\ Progress' /\ Ahead'
  BY DEF IdInv, IdTypes, Alone, Progress, Ahead, InBlock, block
<1>2. Upcoming' = Upcoming
  BY DEF Upcoming, InBlock, block
<1>3. Upcoming \in Nat
  BY UpcomingIs DEF IdInv
<1>4. \A t \in Threads :
        Drawn(t)' => Drawn(t) /\ id'[t].words[1] = id[t].words[1]
  BY DEF Drawn
<1> QED BY <1>1, <1>2, <1>3, <1>4, NothingDrawn DEF IdInv

\* One lemma for each step of a thread.
LEMMA BeginKeeps ==
  ASSUME IdInv, NEW t \in Threads, Begin(t)
  PROVE  IdInv'
<1> DEFINE x == [time |-> clock, words |-> <<>>]
<1>1. /\ at[t] = "idle" /\ at' = [at EXCEPT ![t] = "lock"]
      /\ id' = [id EXCEPT ![t] = x]
      /\ UNCHANGED <<block, lock, clock, ids>>
  BY DEF Begin
<1>2. x \in [time : Nat, words : Seq(Pairs)] /\ Len(x.words) = 0
  BY DEF IdInv, IdTypes
<1> HIDE DEF x
<1>3. /\ at'[t] = "lock" /\ id'[t] = x
      /\ \A u \in Threads \ {t} : at'[u] = at[u] /\ id'[u] = id[u]
      /\ at' \in [Threads -> {"idle", "lock", "made"} \cup Holding]
      /\ id' \in [Threads -> [time : Nat, words : Seq(Pairs)]]
  BY <1>1, <1>2 DEF IdInv, IdTypes
<1>4. IdTypes'
  BY <1>1, <1>3 DEF IdInv, IdTypes, block
<1>5. Alone' /\ lock # t
  BY <1>1, <1>3 DEF IdInv, Alone, Holding
<1>6. Progress'
  BY <1>2, <1>3 DEF IdInv, Progress
<1>7. InBlock' = InBlock /\ (InBlock => at'[lock] = at[lock])
  BY <1>1, <1>3, <1>5 DEF InBlock, IdInv, IdTypes
<1>8. Ahead' /\ Upcoming' = Upcoming
  BY <1>1, <1>7 DEF IdInv, Ahead, Upcoming, block
<1>9. Upcoming \in Nat
  BY UpcomingIs DEF IdInv
<1>10. \A u \in Threads :
        Drawn(u)' => Drawn(u) /\ id'[u].words[1] = id[u].words[1]
  BY <1>2, <1>3 DEF Drawn
<1> QED BY <1>1, <1>4, <1>5, <1>6, <1>8, <1>9, <1>10, NothingDrawn DEF IdInv

LEMMA LockKeeps ==
  ASSUME IdInv, NEW t \in Threads, Lock(t)
  PROVE  IdInv'
<1>1. /\ at[t] = "lock" /\ lock = "none" /\ lock' = t
      /\ at' = [at EXCEPT ![t] = "block"]
      /\ UNCHANGED <<block, clock, id, ids>>
  BY DEF Lock
<1>2. /\ at'[t] = "block" /\ \A u \in Threads \ {t} : at'[u] = at[u]
      /\ at' \in [Threads -> {"idle", "lock", "made"} \cup Holding]
  BY <1>1 DEF IdInv, IdTypes, Holding
<1>3. IdTypes'
  BY <1>1, <1>2 DEF IdInv, IdTypes, block
<1>4. Alone'
  BY <1>1, <1>2, IdAssumption DEF IdInv, Alone, Holding
<1>5. Progress'
  BY <1>1, <1>2 DEF IdInv, Progress
<1>6. ~InBlock /\ ~InBlock'
  BY <1>1, <1>2 DEF InBlock
<1>7. Ahead' /\ Upcoming' = Upcoming
  BY <1>1, <1>6 DEF IdInv, Ahead, Upcoming, block
<1>8. Upcoming \in Nat
  BY UpcomingIs DEF IdInv
<1>9. \A u \in Threads :
        Drawn(u)' => Drawn(u) /\ id'[u].words[1] = id[u].words[1]
  BY <1>1, <1>2 DEF Drawn
<1> QED BY <1>1, <1>3, <1>4, <1>5, <1>7, <1>8, <1>9, NothingDrawn DEF IdInv

LEMMA BlockKeeps ==
  ASSUME IdInv, NEW t \in Threads, NextBlock(t)
  PROVE  IdInv'
<1>1. /\ at[t] = "block" /\ at' = [at EXCEPT ![t] = "word"]
      /\ IF index = 0 THEN buffer' = counter /\ counter' = counter + 1
         ELSE UNCHANGED <<buffer, counter>>
      /\ UNCHANGED <<index, lock, clock, id, ids>>
  BY DEF NextBlock
<1>2. /\ at'[t] = "word" /\ \A u \in Threads \ {t} : at'[u] = at[u]
      /\ at' \in [Threads -> {"idle", "lock", "made"} \cup Holding]
  BY <1>1 DEF IdInv, IdTypes, Holding
<1>3. lock = t /\ t # "none"
  BY <1>1, IdAssumption DEF IdInv, Alone, Holding
<1>4. IdTypes'
  BY <1>1, <1>2 DEF IdInv, IdTypes
<1>5. Alone'
  BY <1>1, <1>2, <1>3 DEF IdInv, Alone, Holding
<1>6. Progress'
  BY <1>1, <1>2 DEF IdInv, Progress
<1>7. ~InBlock /\ InBlock' /\ lock' = t
  BY <1>1, <1>2, <1>3 DEF InBlock
<1>8. Ahead' /\ Upcoming' = Upcoming
  <2>1. CASE index = 0
    <3>1. buffer' = counter /\ counter' = counter + 1 /\ index' = 0
      BY <1>1, <2>1
    <3>2. Upcoming = counter * BufferSize + 0
      BY <1>7, <2>1 DEF Upcoming
    <3>3. at'[lock'] = "word"
      BY <1>2, <1>7
    <3>4. Upcoming' = counter * BufferSize + 0 + 0
      BY <1>7, <3>1, <3>3 DEF Upcoming
    <3>5. counter * BufferSize \in Int
      BY IdAssumption DEF IdInv, IdTypes
    <3> QED BY <3>1, <3>2, <3>4, <3>5 DEF Ahead
  <2>2. CASE index # 0
    BY <1>1, <1>2, <1>7, <2>2, IdAssumption DEF IdInv, IdTypes, Ahead, Upcoming
  <2> QED BY <2>1, <2>2
<1>9. Upcoming \in Nat
  BY UpcomingIs DEF IdInv
<1>10. \A u \in Threads :
         Drawn(u)' => Drawn(u) /\ id'[u].words[1] = id[u].words[1]
  BY <1>1, <1>2 DEF Drawn
<1> QED BY <1>1, <1>4, <1>5, <1>6, <1>8, <1>9, <1>10, NothingDrawn DEF IdInv

LEMMA WordKeeps ==
  ASSUME IdInv, NEW t \in Threads, NextWord(t)
  PROVE  IdInv'
<1> DEFINE w == Word(buffer, index)
           q == id[t].words
<1>1. /\ at[t] = "word" /\ at' = [at EXCEPT ![t] = "index"]
      /\ id' = [id EXCEPT ![t].words = Append(@, w)]
      /\ UNCHANGED <<block, lock, clock, ids>>
  BY DEF NextWord
<1>2. lock = t /\ t # "none"
  BY <1>1, IdAssumption DEF IdInv, Alone, Holding
<1>3. InBlock /\ Upcoming = buffer * BufferSize + index
  BY <1>1, <1>2, IdAssumption DEF InBlock, Upcoming, IdInv, IdTypes
<1>4. w \in Pairs /\ w[1] < SixteenBits /\ w[2] = 257 * Upcoming
  BY <1>3, WordIs DEF IdInv, IdTypes
<1>5. q \in Seq(Pairs) /\ Len(q) \in {0, 1}
  BY <1>1 DEF IdInv, IdTypes, Progress
<1> HIDE DEF w
<1>6. /\ at'[t] = "index" /\ id'[t].words = Append(q, w)
      /\ \A u \in Threads \ {t} : at'[u] = at[u] /\ id'[u] = id[u]
      /\ at' \in [Threads -> {"idle", "lock", "made"} \cup Holding]
      /\ id' \in [Threads -> [time : Nat, words : Seq(Pairs)]]
  <2> DEFINE p == Append(q, w)
  <2>1. p \in Seq(Pairs)
    BY <1>4, <1>5
  <2>2. id' = [id EXCEPT ![t].words = p]
    BY <1>1
  <2> HIDE DEF p
  <2>3. /\ id'[t].words = p /\ \A u \in Threads \ {t} : id'[u] = id[u]
        /\ id' \in [Threads -> [time : Nat, words : Seq(Pairs)]]
    BY <2>1, <2>2 DEF IdInv, IdTypes
  <2>4. /\ at'[t] = "index" /\ \A u \in Threads \ {t} : at'[u] = at[u]
        /\ at' \in [Threads -> {"idle", "lock", "made"} \cup Holding]
    BY <1>1 DEF IdInv, IdTypes, Holding
  <2> QED BY <2>3, <2>4 DEF p
<1>7. Append(q, w)[1] = IF Len(q) = 0 THEN w ELSE q[1]
  BY <1>4, <1>5, AppendProperties
<1>8. Len(Append(q, w)) = Len(q) + 1
  BY <1>4, <1>5
<1>9. IdTypes'
  BY <1>1, <1>6 DEF IdInv, IdTypes, block
<1>10. Alone'
  BY <1>1, <1>2, <1>6 DEF IdInv, Alone, Holding
<1>11. Progress'
  <2>1. at'[t] = "index" /\ Len(id'[t].words) \in {1, 2}
    <3> DEFINE k == Len(q)
               p == Append(q, w)
    <3>1. k \in {0, 1} /\ Len(p) = k + 1 /\ id'[t].words = p
      BY <1>5, <1>6, <1>8
    <3> HIDE DEF k, p
    <3> QED BY <1>6, <3>1
  <2> QED BY <1>6, <2>1 DEF IdInv, Progress
<1>12. InBlock' /\ Ahead' /\ Upcoming' = Upcoming + 1 /\ Upcoming \in Nat
  <2>1. InBlock'
    BY <1>1, <1>2, <1>6 DEF InBlock
  <2>2. Upcoming \in Nat
    BY UpcomingIs DEF IdInv
  <2>3. Upcoming' = buffer * BufferSize + index + 1
    BY <1>1, <1>2, <1>6, <2>1 DEF Upcoming, block
  <2> QED BY <1>1, <1>3, <2>1, <2>2, <2>3 DEF IdInv, Ahead, block
<1>13. CASE Len(q) # 0
  <2>1. \A u \in Threads :
          Drawn(u)' => Drawn(u) /\ id'[u].words[1] = id[u].words[1]
    BY <1>1, <1>6, <1>7, <1>13 DEF Drawn
  <2> QED BY <1>1, <1>9, <1>10, <1>11, <1>12, <2>1, NothingDrawn DEF IdInv
<1>14. CASE Len(q) = 0
  <2>1. /\ Drawn(t)' /\ Mark(id'[t]) = 257 * Upcoming /\ ~Drawn(t)
        /\ id'[t].words[1][1] < SixteenBits
    BY <1>4, <1>5, <1>6, <1>7, <1>8, <1>14 DEF Drawn, Mark
  <2>2. \A u \in Threads \ {t} : Drawn(u)' => Drawn(u) /\ Mark(id'[u]) = Mark(id[u])
                                   /\ id'[u].words[1] = id[u].words[1]
    BY <1>6 DEF Drawn, Mark
  <2>3. \A i \in 1 .. Len(ids) : Stamp(ids'[i]) = Stamp(ids[i])
    BY <1>1 DEF Stamp
  <2>4. \A u \in Threads : Drawn(u) => Mark(id[u]) \in Nat
    <3> SUFFICES ASSUME NEW u \in Threads, Drawn(u) PROVE Mark(id[u]) \in Nat
      OBVIOUS
    <3>1. id[u].words \in Seq(Pairs) /\ Len(id[u].words) # 0
      BY DEF IdInv, IdTypes, Drawn
    <3>2. id[u].words[1] \in Pairs
      BY <3>1
    <3> QED BY <3>2 DEF Mark, Pairs
  <2>5. Distinct(257 * Upcoming)'
    <3> DEFINE L == 257 * Upcoming
               M == 257 * Upcoming'
    <3>1. L \in Nat /\ M \in Nat /\ L < M
      BY <1>12
    <3>2. Distinct(L)
      BY DEF IdInv
    <3>3. Mark(id'[t]) = L
      BY <2>1
    <3> HIDE DEF L, M
    <3>4. \A u \in Threads : Drawn(u)' => Mark(id'[u]) < M
      BY <2>2, <2>4, <3>1, <3>2, <3>3 DEF Distinct
    <3>5. \A u \in Threads, v \in Threads :
            Drawn(u)' /\ Drawn(v)' /\ u # v => Mark(id'[u]) # Mark(id'[v])
      BY <2>2, <2>4, <3>1, <3>2, <3>3 DEF Distinct
    <3>6. \A u \in Threads : Drawn(u)' =>
            \A i \in 1 .. Len(ids) : Mark(id'[u]) # Stamp(ids'[i])
      BY <2>2, <2>3, <3>1, <3>2, <3>3 DEF Distinct
    <3>7. \A i \in 1 .. Len(ids) : Stamp(ids'[i]) \in Nat /\ Stamp(ids'[i]) < M
      BY <2>3, <3>1, <3>2 DEF Distinct
    <3>8. ids' = ids
      BY <1>1
    <3> QED BY <2>3, <3>2, <3>4, <3>5, <3>6, <3>7, <3>8 DEF Distinct, M
  <2>6. Halved'
    BY <2>1, <2>2 DEF IdInv, Halved
  <2>7. Dated'
    BY <1>1 DEF IdInv, Dated
  <2> QED BY <1>9, <1>10, <1>11, <1>12, <2>5, <2>6, <2>7 DEF IdInv
<1> QED BY <1>13, <1>14

LEMMA IndexKeeps ==
  ASSUME IdInv, NEW t \in Threads, NextIndex(t)
  PROVE  IdInv'
<1> DEFINE a == IF Len(id[t].words) = 2 THEN "made" ELSE "lock"
<1>1. /\ at[t] = "index" /\ at' = [at EXCEPT ![t] = a]
      /\ index' = (index + 1) % BufferSize /\ lock' = "none"
      /\ UNCHANGED <<counter, buffer, clock, id, ids>>
  BY DEF NextIndex
<1>2. /\ at'[t] = a /\ \A u \in Threads \ {t} : at'[u] = at[u]
      /\ at' \in [Threads -> {"idle", "lock", "made"} \cup Holding]
  BY <1>1 DEF IdInv, IdTypes
<1>3. lock = t /\ t # "none"
  BY <1>1, IdAssumption DEF IdInv, Alone, Holding
<1>4. InBlock /\ ~InBlock'
  BY <1>1, <1>3 DEF InBlock
<1>5. index' = IF index + 1 = BufferSize THEN 0 ELSE index + 1
  <2>1. index \in 0 .. BufferSize - 1 /\ BufferSize \in Nat \ {0}
    BY IdAssumption DEF IdInv, IdTypes
  <2> QED BY <1>1, <2>1
<1>6. IdTypes'
  BY <1>1, <1>2, <1>5, IdAssumption DEF IdInv, IdTypes
<1>7. Alone'
  BY <1>1, <1>2, <1>3, IdAssumption DEF IdInv, Alone, Holding
<1>8. Progress'
  BY <1>1, <1>2 DEF IdInv, Progress
<1>9. Ahead' /\ Upcoming' = Upcoming /\ Upcoming \in Nat
  <2>1. counter = buffer + 1 /\ buffer \in Nat /\ BufferSize \in Nat
    BY <1>4, IdAssumption DEF IdInv, IdTypes, Ahead
  <2>2. Ahead'
    BY <1>1, <2>1 DEF Ahead
  <2>3. Upcoming = buffer * BufferSize + index + 1
    BY <1>1, <1>3, <1>4 DEF Upcoming
  <2>4. Upcoming' = (IF index' = 0 THEN counter ELSE buffer) * BufferSize + index'
    BY <1>1, <1>4 DEF Upcoming
  <2>5. (buffer + 1) * BufferSize = buffer * BufferSize + BufferSize
    BY <2>1
  <2>6. index \in Nat /\ buffer * BufferSize \in Nat
    BY <2>1 DEF IdInv, IdTypes
  <2>7. Upcoming' = Upcoming
    BY <1>5, <2>1, <2>3, <2>4, <2>5, <2>6
  <2> QED BY <2>2, <2>3, <2>6, <2>7
<1>10. \A u \in Threads :
         Drawn(u)' => Drawn(u) /\ id'[u].words[1] = id[u].words[1]
  BY <1>1, <1>2 DEF Drawn
<1> QED BY <1>1, <1>6, <1>7, <1>8, <1>9, <1>10, NothingDrawn DEF IdInv

LEMMA HandOutKeeps ==
  ASSUME IdInv, NEW t \in Threads, HandOut(t)
  PROVE  IdInv'
<1> DEFINE hi == id[t].words[1]
           lo == id[t].words[2]
           uuid == Uuidv7(id[t].time, hi, lo)
           n == Len(ids)
<1>1. PICK text \in {SessionId(uuid), UuidToString(uuid)} :
        ids' = Append(ids, [text |-> text, time |-> id[t].time])
  BY DEF HandOut
<1> DEFINE x == [text |-> text, time |-> id[t].time]
<1>2. /\ at[t] = "made" /\ at' = [at EXCEPT ![t] = "idle"]
      /\ UNCHANGED <<block, lock, clock, id>>
  BY DEF HandOut
<1>3. /\ at'[t] = "idle" /\ \A u \in Threads \ {t} : at'[u] = at[u]
      /\ at' \in [Threads -> {"idle", "lock", "made"} \cup Holding]
  BY <1>2 DEF IdInv, IdTypes
<1>4. /\ id[t].words \in Seq(Pairs) /\ Len(id[t].words) = 2
      /\ id[t].time \in Nat /\ Drawn(t)
  BY <1>2 DEF IdInv, IdTypes, Progress, Drawn
<1>5. hi \in Pairs /\ hi[1] < SixteenBits /\ hi[2] = Mark(id[t])
  BY <1>4 DEF IdInv, Halved, Mark
<1>6. Groups(text)[6] = Mark(id[t]) /\ Timed(Groups(text), id[t].time)
  BY <1>4, <1>5, UuidIs
<1> HIDE DEF hi, lo, uuid
<1>7. PICK S : ids \in Seq(S)
  BY DEF IdInv, IdTypes
<1>8. x.text = text /\ x.time = id[t].time
  OBVIOUS
<1> HIDE DEF x
<1>9. /\ ids' \in Seq(S \cup {x}) /\ Len(ids') = n + 1 /\ n \in Nat
      /\ ids'[n + 1] = x /\ \A i \in 1 .. n : ids'[i] = ids[i]
  <2>1. ids \in Seq(S \cup {x}) /\ x \in S \cup {x}
    BY <1>7, SeqMonotonic
  <2> QED BY <1>1, <2>1, AppendProperties, LenProperties DEF x
<1>10. IdTypes'
  BY <1>2, <1>3, <1>9 DEF IdInv, IdTypes, block
<1>11. Alone' /\ lock # t
  BY <1>2, <1>3 DEF IdInv, Alone, Holding
<1>12. Progress'
  BY <1>2, <1>3 DEF IdInv, Progress
<1>13. InBlock' = InBlock /\ (InBlock => at'[lock] = at[lock])
  BY <1>2, <1>3, <1>11 DEF InBlock, IdInv, IdTypes
<1>14. Ahead' /\ Upcoming' = Upcoming
  BY <1>2, <1>13 DEF IdInv, Ahead, Upcoming, block
<1>15. /\ ~Drawn(t)'
       /\ \A u \in Threads \ {t} : /\ Drawn(u)' <=> Drawn(u)
                                   /\ Mark(id'[u]) = Mark(id[u])
  BY <1>2, <1>3 DEF Drawn, Mark
<1>16. /\ Stamp(ids'[n + 1]) = Mark(id[t])
       /\ \A i \in 1 .. n : Stamp(ids'[i]) = Stamp(ids[i])
  <2>1. ids'[n + 1].text = text
    BY <1>8, <1>9
  <2>2. Stamp(ids'[n + 1]) = Groups(ids'[n + 1].text)[6]
    BY <1>9 DEF Stamp
  <2> QED BY <1>6, <1>9, <2>1, <2>2 DEF Stamp
<1>17. Mark(id[t]) \in Nat
  BY <1>5 DEF Pairs
<1>18. \A i \in 1 .. n + 1 : i \in 1 .. n \/ i = n + 1
  BY <1>9
<1>19. Distinct(257 * Upcoming)'
  <2> DEFINE L == 257 * Upcoming
  <2>1. Distinct(L) /\ (257 * Upcoming)' = L
    BY <1>14 DEF IdInv
  <2> HIDE DEF L
  <2>2. \A u \in Threads : Drawn(u)' => Mark(id'[u]) < L
    BY <1>15, <2>1 DEF Distinct
  <2>3. \A i \in 1 .. n + 1 : Stamp(ids'[i]) \in Nat /\ Stamp(ids'[i]) < L
    <3>1. Stamp(ids'[n + 1]) \in Nat /\ Stamp(ids'[n + 1]) < L
      BY <1>4, <1>16, <1>17, <2>1 DEF Distinct
    <3>2. \A i \in 1 .. n : Stamp(ids'[i]) \in Nat /\ Stamp(ids'[i]) < L
      BY <1>16, <2>1 DEF Distinct
    <3> QED BY <1>18, <3>1, <3>2
  <2>4. \A u, v \in Threads :
          Drawn(u)' /\ Drawn(v)' /\ u # v => Mark(id'[u]) # Mark(id'[v])
    BY <1>15, <2>1 DEF Distinct
  <2>5. \A u \in Threads : Drawn(u)' =>
          \A i \in 1 .. n + 1 : Mark(id'[u]) # Stamp(ids'[i])
    <3>1. \A u \in Threads : Drawn(u)' => Mark(id'[u]) # Stamp(ids'[n + 1])
      BY <1>4, <1>15, <1>16, <2>1 DEF Distinct
    <3>2. \A u \in Threads : Drawn(u)' =>
            \A i \in 1 .. n : Mark(id'[u]) # Stamp(ids'[i])
      BY <1>15, <1>16, <2>1 DEF Distinct
    <3> QED BY <1>18, <3>1, <3>2
  <2>6. \A i, j \in 1 .. n + 1 : i # j => Stamp(ids'[i]) # Stamp(ids'[j])
    <3>1. \A i \in 1 .. n : Stamp(ids'[i]) # Stamp(ids'[n + 1])
      BY <1>4, <1>16, <2>1 DEF Distinct
    <3>2. \A i, j \in 1 .. n : i # j => Stamp(ids'[i]) # Stamp(ids'[j])
      BY <1>16, <2>1 DEF Distinct
    <3> QED BY <1>18, <3>1, <3>2
  <2> QED BY <1>9, <2>1, <2>2, <2>3, <2>4, <2>5, <2>6 DEF Distinct
<1>20. Halved'
  BY <1>2, <1>15 DEF IdInv, Halved
<1>21. Dated'
  <2>1. \A i \in 1 .. n :
          ids[i].time \in Nat /\ Timed(Groups(ids[i].text), ids[i].time)
    BY DEF IdInv, Dated
  <2> QED BY <1>4, <1>6, <1>8, <1>9, <1>18, <2>1 DEF Dated
<1> QED BY <1>10, <1>11, <1>12, <1>14, <1>19, <1>20, <1>21 DEF IdInv

LEMMA IdInvNext == IdInv /\ [IdNext]_idVars => IdInv'
<1> SUFFICES ASSUME IdInv, [IdNext]_idVars PROVE IdInv'
  OBVIOUS
<1>1. clock \in Nat
  BY DEF IdInv, IdTypes
<1>2. CASE FillRandom \/ Tick \/ UNCHANGED idVars
  <2>1. UNCHANGED <<block, lock, at, id, ids>> /\ clock' \in Nat
    BY <1>1, <1>2 DEF FillRandom, Tick, idVars
  <2> QED BY <2>1, AroundKeeps
<1>3. CASE \E t \in Threads :
             \/ Begin(t) \/ Lock(t) \/ NextBlock(t) \/ NextWord(t)
             \/ NextIndex(t) \/ HandOut(t)
  BY <1>3, BeginKeeps, LockKeeps, BlockKeeps, WordKeeps, IndexKeeps,
     HandOutKeeps
<1> QED BY <1>2, <1>3 DEF IdNext

\* Ids of different times compare as their times do.
LEMMA TimedEarlier ==
  ASSUME NEW g, NEW h, NEW s \in Nat, NEW t \in Nat, s < t,
         Timed(g, s), Timed(h, t)
  PROVE  Earlier(g, h)
<1> DEFINE a == s \div 1000
           b == t \div 1000
<1>1. /\ a \in Nat /\ b \in Nat /\ a <= b
      /\ a = b => s % 1000 < t % 1000
      /\ s % 1000 \in Nat /\ t % 1000 \in Nat
  OBVIOUS
<1>2. /\ g[1] = 0 /\ h[1] = 0
      /\ g[2] = a \div SixteenBits /\ h[2] = b \div SixteenBits
      /\ g[3] = a % SixteenBits /\ h[3] = b % SixteenBits
  BY DEF Timed
<1> HIDE DEF a, b
<1>3. CASE a = b
  <2>1. g[4] < h[4]
    BY <1>1, <1>3 DEF Timed
  <2>2. \A j \in 1 .. (4 - 1) : g[j] = h[j]
    BY <1>2, <1>3
  <2> QED BY <2>1, <2>2 DEF Earlier
<1>4. CASE a < b
  <2>1. \/ g[2] < h[2]
        \/ g[2] = h[2] /\ g[3] < h[3]
    BY <1>1, <1>2, <1>4 DEF SixteenBits
  <2>2. \A j \in 1 .. (2 - 1) : g[j] = h[j]
    BY <1>2
  <2>3. g[2] = h[2] => \A j \in 1 .. (3 - 1) : g[j] = h[j]
    BY <1>2
  <2> QED BY <2>1, <2>2, <2>3 DEF Earlier
<1> QED BY <1>1, <1>3, <1>4

LEMMA IdInvUnique == IdInv => IdsUnique
<1> SUFFICES ASSUME IdInv, NEW i \in 1 .. Len(ids), NEW j \in 1 .. Len(ids)
             PROVE  LET a == Groups(ids[i].text)
                        b == Groups(ids[j].text)
                    IN  /\ i # j => a # b
                        /\ ids[i].time < ids[j].time => Earlier(a, b)
  BY DEF IdsUnique
<1>1. i # j => Groups(ids[i].text) # Groups(ids[j].text)
  BY DEF IdInv, Distinct, Stamp
<1>2. ASSUME ids[i].time < ids[j].time
      PROVE  Earlier(Groups(ids[i].text), Groups(ids[j].text))
  BY <1>2, TimedEarlier DEF IdInv, Dated
<1> QED BY <1>1, <1>2

\* No two ids are the same, however the threads that make them take turns at
\* the mutex of uuid.cpp:20, and an id of an earlier microsecond sorts before
\* one of a later: IdsUnique, for any number of threads and of ids and any size
\* of a block, as far as a keystream does not repeat a word.
THEOREM NeverTwice == IdSpec => []IdsUnique
BY IdInvInit, IdInvNext, IdInvUnique, PTL DEF IdSpec

------------------------------------------------------------------------------
(* Endpoints: induction over the places of a sequence.                      *)

HIDE LifecycleAssumption

Less == {p \in Nat \X Nat : p[1] < p[2]}

LEMMA LeastPlace ==
  ASSUME NEW U, U \subseteq Nat, U # {}
  PROVE  \E k \in U : \A m \in U : k <= m
<1>1. IsWellFoundedOn(Less, Nat)
  BY NatLessThanWellFounded DEF OpToRel, Less
<1>2. PICK k \in U : \A m \in U : <<m, k>> \notin Less
  BY <1>1, WFMin, Zenon
<1>3. \A m \in U : ~(m < k)
  BY <1>2 DEF Less
<1> QED BY <1>3

\* The induction over places.
LEMMA UpTo ==
  ASSUME NEW n \in Nat, NEW T, 0 \in T,
         \A k \in 1 .. n : k - 1 \in T => k \in T
  PROVE  \A k \in 0 .. n : k \in T
<1> DEFINE U == {k \in 0 .. n : k \notin T}
<1>1. SUFFICES ASSUME U # {} PROVE FALSE
  OBVIOUS
<1>2. U \subseteq Nat
  OBVIOUS
<1>3. PICK k \in U : \A m \in U : k <= m
  <2> HIDE DEF U
  <2> QED BY <1>1, <1>2, LeastPlace
<1>4. k \in 0 .. n /\ k \notin T /\ k # 0
  BY <1>3
<1>5. k - 1 \notin U /\ k - 1 \in 0 .. n
  <2>1. k - 1 \in 0 .. n /\ ~(k <= k - 1)
    BY <1>4
  <2> HIDE DEF U
  <2> QED BY <1>3, <2>1
<1> QED BY <1>4, <1>5

\* What is defined step by step along a sequence exists.
Steps(n, S) == [1 .. n -> [S -> S]]
Follows(f, n, S, x, step) ==
  /\ f \in [0 .. n -> S] /\ f[0] = x
  /\ \A k \in 1 .. n : f[k] = step[k][f[k - 1]]

LEMMA Stepwise ==
  ASSUME NEW n \in Nat, NEW S, NEW x \in S, NEW step \in Steps(n, S)
  PROVE  \E f : Follows(f, n, S, x, step)
<1> USE DEF Steps, Follows
<1> DEFINE P(k, f) == f[0] = x /\ \A j \in 1 .. k : f[j] = step[j][f[j - 1]]
           T == {k \in 0 .. n : \E f \in [0 .. k -> S] : P(k, f)}
<1>1. 0 \in T
  <2>1. [j \in 0 .. 0 |-> x] \in [0 .. 0 -> S] /\ P(0, [j \in 0 .. 0 |-> x])
    OBVIOUS
  <2>2. 0 \in 0 .. n
    OBVIOUS
  <2> HIDE DEF P
  <2> QED BY <2>1, <2>2
<1>2. ASSUME NEW k \in 1 .. n, k - 1 \in T PROVE k \in T
  <2>1. PICK f \in [0 .. k - 1 -> S] : P(k - 1, f)
    BY <1>2
  <2> DEFINE y == step[k][f[k - 1]]
             g == [j \in 0 .. k |-> IF j = k THEN y ELSE f[j]]
  <2>2. y \in S
    OBVIOUS
  <2> HIDE DEF y
  <2>3. g \in [0 .. k -> S] /\ g[k] = y /\ \A j \in 0 .. k - 1 : g[j] = f[j]
    BY <2>2
  <2> HIDE DEF g
  <2>4. g[0] = x
    BY <2>1, <2>3
  <2>5. \A j \in 1 .. k - 1 : g[j] = step[j][g[j - 1]]
    BY <2>1, <2>3
  <2>6. g[k] = step[k][g[k - 1]]
    BY <2>3 DEF y
  <2>7. P(k, g)
    BY <2>4, <2>5, <2>6
  <2> HIDE DEF P
  <2>8. \E h \in [0 .. k -> S] : P(k, h)
    BY <2>3, <2>7
  <2> QED BY <2>8
<1>3. n \in T
  <2> HIDE DEF T
  <2>1. \A k \in 0 .. n : k \in T
    BY <1>1, <1>2, UpTo
  <2> QED BY <2>1
<1> QED BY <1>3

------------------------------------------------------------------------------
(* Paths without two dots in a row.                                         *)

\* The provers do not take "/" and "i" for strings by themselves.
Characters == STRING \cup {"/", "i"}

Dotless == {p \in Seq(Characters) : ~HasDots(p)}

LEMMA DotlessIs ==
  ASSUME NEW p \in Seq(Characters)
  PROVE  /\ Len(p) \in Nat
         /\ p \in Dotless <=>
              \A i \in 1 .. Len(p) : i < Len(p) => ~(p[i] = "." /\ p[i + 1] = ".")
BY DEF Dotless, HasDots

LEMMA DotlessPart ==
  ASSUME NEW p \in Dotless, NEW m \in Nat \ {0}, NEW n \in Int, n <= Len(p)
  PROVE  SubSeq(p, m, n) \in Dotless
<1>1. p \in Seq(Characters) /\ Len(p) \in Nat
  BY DEF Dotless
<1> DEFINE q == SubSeq(p, m, n)
<1>2. CASE m <= n
  <2>1. q \in Seq(Characters) /\ Len(q) = n - m + 1
        /\ \A i \in 1 .. Len(q) : q[i] = p[m + i - 1]
    BY <1>1, <1>2, SubSeqProperties
  <2> HIDE DEF q
  <2>2. ASSUME NEW i \in 1 .. Len(q), i < Len(q)
        PROVE  ~(q[i] = "." /\ q[i + 1] = ".")
    <3>1. m + i - 1 \in 1 .. Len(p) /\ m + i - 1 < Len(p)
          /\ m + (i + 1) - 1 = (m + i - 1) + 1 /\ i + 1 \in 1 .. Len(q)
      <4> DEFINE l == Len(p)
                 k == Len(q)
      <4>1. l \in Nat /\ n <= l /\ k = n - m + 1
        BY <1>1, <2>1
      <4>2. i \in 1 .. k /\ i < k
        BY <2>2
      <4> HIDE DEF l, k
      <4>3. m + i - 1 \in 1 .. l /\ m + i - 1 < l
            /\ m + (i + 1) - 1 = (m + i - 1) + 1 /\ i + 1 \in 1 .. k
        BY <4>1, <4>2
      <4> QED BY <4>3 DEF l, k
    <3>2. q[i] = p[m + i - 1] /\ q[i + 1] = p[(m + i - 1) + 1]
      BY <2>1, <3>1
    <3> QED BY <1>1, <3>1, <3>2, DotlessIs
  <2>3. q \in Dotless
    BY <2>1, <2>2, DotlessIs
  <2> QED BY <2>3 DEF q
<1>3. CASE ~(m <= n)
  <2>1. q = <<>>
    BY <1>1, <1>3, SubSeqEmpty
  <2> QED BY <2>1 DEF Dotless, HasDots
<1> QED BY <1>2, <1>3

LEMMA DotlessFew ==
  /\ <<>> \in Dotless /\ <<"/">> \in Dotless /\ IndexPath \in Dotless
  /\ <<".", ".">> \notin Dotless
<1> USE DEF Dotless, HasDots
<1>0. "/" \in Characters /\ "i" \in Characters
  BY DEF Characters
<1>1. <<>> \in Dotless
  OBVIOUS
<1>2. <<"/">> \in Dotless
  <2>1. <<"/">> \in Seq(Characters) /\ Len(<<"/">>) = 1
    BY <1>0
  <2> QED BY <2>1
<1>3. IndexPath \in Dotless
  <2> DEFINE p == IndexPath
  <2>1. p \in Seq(Characters) /\ Len(p) = 2 /\ p[1] = "/"
    BY <1>0 DEF IndexPath
  <2> HIDE DEF p
  <2>2. ~HasDots(p)
    BY <2>1
  <2> QED BY <2>1, <2>2 DEF p
<1>4. <<".", ".">> \notin Dotless
  <2> DEFINE p == <<".", ".">>
  <2>1. Len(p) = 2 /\ p[1] = "." /\ p[2] = "." /\ 1 \in 1 .. 1
    OBVIOUS
  <2> HIDE DEF p
  <2>2. HasDots(p)
    BY <2>1
  <2> QED BY <2>2 DEF p
<1> QED BY <1>1, <1>2, <1>3, <1>4

\* A slash joins paths without making two dots.
LEMMA DotlessSlash ==
  ASSUME NEW a \in Dotless, NEW b \in Dotless
  PROVE  a \o <<"/">> \o b \in Dotless
<1>1. a \in Seq(Characters) /\ b \in Seq(Characters) /\ Len(a) \in Nat /\ Len(b) \in Nat
  BY DEF Dotless
<1> DEFINE q == a \o <<"/">> \o b
           m == Len(a)
<1>2. q \in Seq(Characters) /\ Len(q) = m + 1 + Len(b)
      /\ \A i \in 1 .. Len(q) :
           q[i] = IF i <= m THEN a[i]
                  ELSE IF i = m + 1 THEN "/" ELSE b[i - (m + 1)]
  <2> DEFINE c == a \o <<"/">>
  <2> DEFINE e == <<"/">>
  <2>1. e \in Seq(Characters) /\ Len(e) = 1 /\ e[1] = "/"
    BY DEF Characters
  <2> HIDE DEF e
  <2>2. c \in Seq(Characters) /\ Len(c) = m + 1
        /\ \A i \in 1 .. m + 1 : c[i] = IF i <= m THEN a[i] ELSE "/"
    <3>1. a \o e \in Seq(Characters) /\ Len(a \o e) = m + 1
          /\ \A i \in 1 .. m + 1 :
               (a \o e)[i] = IF i <= m THEN a[i] ELSE e[i - m]
      <4>1. Len(a \o e) = Len(a) + Len(e) /\ a \o e \in Seq(Characters)
            /\ \A i \in 1 .. Len(a) + Len(e) :
                 (a \o e)[i] = IF i <= Len(a) THEN a[i] ELSE e[i - Len(a)]
        BY <1>1, <2>1, ConcatProperties, Zenon
      <4> QED BY <2>1, <4>1
    <3>2. \A i \in 1 .. m + 1 : ~(i <= m) => i - m = 1
      BY <1>1
    <3>3. c = a \o e
      BY DEF e
    <3> HIDE DEF c
    <3> QED BY <2>1, <3>1, <3>2, <3>3
  <2> HIDE DEF c
  <2>3. c \o b \in Seq(Characters) /\ Len(c \o b) = Len(c) + Len(b)
        /\ \A i \in 1 .. Len(c) + Len(b) :
             (c \o b)[i] = IF i <= Len(c) THEN c[i] ELSE b[i - Len(c)]
    BY <1>1, <2>2, ConcatProperties
  <2> DEFINE d == c \o b
  <2>4. q = d
    BY DEF c
  <2> HIDE DEF d, q
  <2> QED BY <1>1, <2>2, <2>3, <2>4 DEF d
<1> HIDE DEF q
<1>3. ASSUME NEW i \in 1 .. Len(q), i < Len(q)
      PROVE  ~(q[i] = "." /\ q[i + 1] = ".")
  <2>0. m \in Nat /\ i + 1 \in 1 .. Len(q)
    BY <1>1, <1>2, <1>3
  <2> HIDE DEF m
  <2>1. CASE i < m
    <3>1. q[i] = a[i] /\ q[i + 1] = a[i + 1]
      BY <1>2, <1>3, <2>0, <2>1
    <3> QED BY <1>1, <1>3, <2>1, <3>1, DotlessIs DEF m
  <2>2. CASE i = m \/ i = m + 1
    <3>1. q[m + 1] = "/"
      BY <1>2, <1>3, <2>0, <2>2
    <3> QED BY <2>0, <2>2, <3>1
  <2>3. CASE i > m + 1
    <3> DEFINE j == i - (m + 1)
    <3>1. j \in 1 .. Len(b) /\ j < Len(b) /\ j + 1 = i + 1 - (m + 1)
      BY <1>1, <1>2, <1>3, <2>0, <2>3
    <3>2. q[i] = b[j] /\ q[i + 1] = b[j + 1]
      BY <1>2, <1>3, <2>0, <2>3
    <3> HIDE DEF j
    <3> QED BY <1>1, <3>1, <3>2, DotlessIs
  <2> QED BY <2>0, <2>1, <2>2, <2>3
<1> QED BY <1>2, <1>3, DotlessIs DEF q

LEMMA DotlessEnds ==
  ASSUME NEW a \in Dotless
  PROVE  <<"/">> \o a \in Dotless /\ Append(a, "/") \in Dotless
<1>1. a \in Seq(Characters) /\ <<>> \in Dotless
  BY DotlessFew DEF Dotless
<1>2. <<>> \o <<"/">> \o a = <<"/">> \o a
  OBVIOUS
<1>3. a \o <<"/">> \o <<>> = Append(a, "/")
  <2>1. a \o <<"/">> \in Seq(Characters) /\ a \o <<"/">> = Append(a, "/")
    <3>1. "/" \in Characters
      BY DEF Characters
    <3>2. Append(a, "/") \in Seq(Characters) /\ Append(a, "/") = a \o <<"/">>
      BY <1>1, <3>1, AppendIsConcat, AppendProperties
    <3> QED BY <3>2
  <2> QED BY <2>1, ConcatEmptySeq
<1>4. <<>> \o <<"/">> \o a \in Dotless /\ a \o <<"/">> \o <<>> \in Dotless
  BY <1>1, DotlessSlash
<1> QED BY <1>2, <1>3, <1>4

\* The least and the greatest place of a sequence in a set.
LEMMA Places ==
  ASSUME NEW n \in Nat, NEW T, T \subseteq 1 .. n, T # {}
  PROVE  /\ Min(T) \in T /\ Max(T) \in T /\ \A m \in T : Min(T) <= m
<1>1. PICK k \in T : \A m \in T : k <= m
  <2>1. T \subseteq Nat
    OBVIOUS
  <2> QED BY <2>1, LeastPlace
<1> DEFINE U == {n - m : m \in T}
<1>2. PICK j \in U : \A m \in U : j <= m
  <2>1. U \subseteq Nat /\ U # {}
    OBVIOUS
  <2> HIDE DEF U
  <2> QED BY <2>1, LeastPlace
<1>3. PICK l \in T : j = n - l
  BY <1>2
<1>4. \A m \in T : m <= l
  <2>1. \A m \in T : n - l <= n - m
    BY <1>2, <1>3
  <2> QED BY <1>3, <2>1
<1>5. Min(T) \in T /\ \A m \in T : Min(T) <= m
  BY <1>1 DEF Min
<1>6. Max(T) \in T
  BY <1>3, <1>4 DEF Max
<1> QED BY <1>5, <1>6

LEMMA BeforeDotless ==
  ASSUME NEW p \in Dotless, NEW chars
  PROVE  Before(p, chars) \in Dotless
<1> DEFINE found == {i \in DOMAIN p : p[i] \in chars}
<1>1. p \in Seq(Characters) /\ Len(p) \in Nat /\ found \subseteq 1 .. Len(p)
  BY DEF Dotless
<1> HIDE DEF found
<1>2. CASE found # {}
  <2>1. Min(found) \in 1 .. Len(p)
    BY <1>1, <1>2, Places
  <2>2. SubSeq(p, 1, Min(found) - 1) \in Dotless
    <3>1. Min(found) - 1 \in Int /\ Min(found) - 1 <= Len(p) /\ 1 \in Nat \ {0}
      BY <1>1, <2>1
    <3> QED BY <3>1, DotlessPart
  <2> QED BY <1>2, <2>2 DEF Before, found
<1> QED BY <1>2 DEF Before, found

LEMMA TrimmedDotless ==
  ASSUME NEW p \in Dotless
  PROVE  Trimmed(p) \in Dotless /\ Unrooted(p) \in Dotless
<1> DEFINE kept == {i \in DOMAIN p : p[i] # "/"}
<1>1. p \in Seq(Characters) /\ Len(p) \in Nat /\ kept \subseteq 1 .. Len(p)
  BY DEF Dotless
<1> HIDE DEF kept
<1>2. CASE kept # {}
  <2>1. Min(kept) \in 1 .. Len(p) /\ Max(kept) \in 1 .. Len(p)
    BY <1>1, <1>2, Places
  <2>2. SubSeq(p, 1, Max(kept)) \in Dotless
    <3>1. Max(kept) \in Int /\ Max(kept) <= Len(p) /\ 1 \in Nat \ {0}
      BY <1>1, <2>1
    <3> QED BY <3>1, DotlessPart
  <2>3. SubSeq(p, Min(kept), Len(p)) \in Dotless
    <3>1. Min(kept) \in Nat \ {0} /\ Len(p) \in Int /\ Len(p) <= Len(p)
      BY <1>1, <2>1
    <3> QED BY <3>1, DotlessPart
  <2> QED BY <1>2, <2>2, <2>3 DEF Trimmed, Unrooted, kept
<1>3. CASE kept = {}
  BY <1>3, DotlessFew DEF Trimmed, Unrooted, kept
<1> QED BY <1>2, <1>3

LEMMA QuotesDotless ==
  ASSUME NEW p \in Dotless
  PROVE  trimquot(p) \in Dotless
<1>1. Len(p) \in Nat
  BY DEF Dotless
<1>2. SubSeq(p, 2, Len(p) - 1) \in Dotless
  <2>1. 2 \in Nat \ {0} /\ Len(p) - 1 \in Int /\ Len(p) - 1 <= Len(p)
    BY <1>1
  <2> QED BY <2>1, DotlessPart
<1> QED BY <1>2 DEF trimquot

LEMMA TailDotless ==
  ASSUME NEW p \in Dotless, p # <<>>
  PROVE  Tail(p) \in Dotless
<1>1. p \in Seq(Characters) /\ Len(p) \in Nat
  BY DEF Dotless
<1>2. Tail(p) = SubSeq(p, 2, Len(p))
  BY <1>1
<1>3. SubSeq(p, 2, Len(p)) \in Dotless
  BY <1>1, DotlessPart
<1> QED BY <1>2, <1>3

\* No part of such a path is "..".
LEMMA PartsDotless ==
  ASSUME NEW p \in Dotless
  PROVE  Parts(p) \in Seq(Dotless)
<1> DEFINE n == Len(p)
           S == Seq(Dotless)
           Begins(i) == p[i] # "/" /\ (i = 1 \/ p[i - 1] = "/")
           Part(i) == Before(SubSeq(p, i, Len(p)), {"/"})
           e(f) == [i \in 0 .. Len(p) |->
                      IF i = 0 THEN <<>>
                      ELSE IF Begins(i) THEN Append(f[i - 1], Part(i))
                                        ELSE f[i - 1]]
           step == [i \in 1 .. n |->
                      [s \in S |-> IF Begins(i) THEN Append(s, Part(i)) ELSE s]]
           g == CHOOSE f : f = e(f)
<1>1. n \in Nat /\ <<>> \in S
  BY DEF Dotless
<1>2. Parts(p) = g[n]
  BY DEF Parts
<1>3. ASSUME NEW i \in 1 .. n PROVE Part(i) \in Dotless
  <2>1. SubSeq(p, i, Len(p)) \in Dotless
    <3>1. i \in Nat \ {0} /\ Len(p) \in Int /\ Len(p) <= Len(p)
      BY <1>1
    <3> QED BY <3>1, DotlessPart
  <2> QED BY <2>1, BeforeDotless
<1>4. step \in Steps(n, S)
  <2> HIDE DEF Begins, Part
  <2>1. \A i \in 1 .. n : \A s \in S : Append(s, Part(i)) \in S
    BY <1>3, AppendProperties
  <2> QED BY <2>1 DEF Steps
<1>5. \A f : /\ e(f)[0] = <<>>
             /\ \A i \in 1 .. n :
                  e(f)[i] = IF Begins(i) THEN Append(f[i - 1], Part(i))
                                         ELSE f[i - 1]
  <2> HIDE DEF Begins, Part
  <2> QED BY <1>1
<1>6. \E f : f = e(f)
  <2> HIDE DEF S, Begins, Part
  <2>0. PICK f : Follows(f, n, S, <<>>, step)
    <3> HIDE DEF step, n, e
    <3> QED BY <1>1, <1>4, Stepwise
  <2>1. /\ f \in [0 .. n -> S] /\ f[0] = <<>>
        /\ \A i \in 1 .. n : f[i] = step[i][f[i - 1]]
    <3> HIDE DEF step, n
    <3> QED BY <2>0 DEF Follows
  <2>2. \A i \in 1 .. n : step[i][f[i - 1]] = IF Begins(i)
                              THEN Append(f[i - 1], Part(i)) ELSE f[i - 1]
    <3>1. \A i \in 1 .. n : f[i - 1] \in S
      BY <1>1, <2>1
    <3>2. \A i \in 1 .. n : \A s \in S :
            step[i][s] = IF Begins(i) THEN Append(s, Part(i)) ELSE s
      OBVIOUS
    <3> HIDE DEF step
    <3> QED BY <3>1, <3>2
  <2>3. \A i \in 1 .. n :
          f[i] = IF Begins(i) THEN Append(f[i - 1], Part(i)) ELSE f[i - 1]
    BY <2>1, <2>2
  <2> HIDE DEF step
  <2>4. f = e(f)
    <3>1. \A i \in 0 .. n : i # 0 => i \in 1 .. n
      BY <1>1
    <3>2. f = [i \in 0 .. n |-> f[i]]
      BY <2>1
    <3> QED BY <2>1, <2>3, <3>1, <3>2
  <2> QED BY <2>4
<1>7. g = e(g)
  <2> HIDE DEF e
  <2> QED BY <1>6
<1> HIDE DEF e, g
<1>8. g[0] = <<>> /\ \A i \in 1 .. n :
        g[i] = IF Begins(i) THEN Append(g[i - 1], Part(i)) ELSE g[i - 1]
  BY <1>5, <1>7
<1> DEFINE T == {k \in 0 .. n : g[k] \in S}
<1> HIDE DEF S, Begins, Part
<1>9. 0 \in T
  BY <1>1, <1>8
<1>10. ASSUME NEW k \in 1 .. n, k - 1 \in T PROVE k \in T
  <2>1. Append(g[k - 1], Part(k)) \in S
    BY <1>3, <1>10, AppendProperties DEF S
  <2> QED BY <1>8, <1>10, <2>1
<1>11. n \in T
  <2> HIDE DEF T, n
  <2>1. \A k \in 0 .. n : k \in T
    BY <1>1, <1>9, <1>10, UpTo
  <2> QED BY <1>1, <2>1
<1>12. g[n] \in S
  BY <1>11
<1> HIDE DEF T
<1> QED BY <1>2, <1>12 DEF S

\* So a walk along such parts goes down only.
Walks == [ok : {TRUE}, at : Seq(Dotless)]

LEMMA EnteredDotless ==
  ASSUME NEW walk \in Walks, NEW part \in Dotless
  PROVE  Entered(walk, part) \in Walks
<1>1. part # <<".", ".">>
  BY DotlessFew
<1>2. Append(walk.at, part) \in Seq(Dotless)
  BY AppendProperties DEF Walks
<1>3. [walk EXCEPT !.at = Append(walk.at, part)] \in Walks
  BY <1>2 DEF Walks
<1> QED BY <1>1, <1>3 DEF Entered

LEMMA WalkDotless ==
  ASSUME NEW parts \in Seq(Dotless)
  PROVE  Walk(parts) \in Walks
<1> DEFINE n == Len(parts)
           x == [ok |-> TRUE, at |-> <<>>]
           e(f) == [i \in 0 .. Len(parts) |->
                      IF i = 0 THEN [ok |-> TRUE, at |-> <<>>]
                      ELSE Entered(f[i - 1], parts[i])]
           step == [i \in 1 .. n |-> [s \in Walks |-> Entered(s, parts[i])]]
           g == CHOOSE f : f = e(f)
<1>1. n \in Nat /\ x \in Walks /\ \A i \in 1 .. n : parts[i] \in Dotless
  BY DEF Walks
<1>2. Walk(parts) = g[n]
  BY DEF Walk
<1>3. step \in Steps(n, Walks)
  <2>1. \A i \in 1 .. n : \A s \in Walks : Entered(s, parts[i]) \in Walks
    BY <1>1, EnteredDotless
  <2> QED BY <2>1 DEF Steps
<1>4. \A f : /\ e(f)[0] = x
             /\ \A i \in 1 .. n : e(f)[i] = Entered(f[i - 1], parts[i])
  BY <1>1
<1>5. \E f : f = e(f)
  <2>1. PICK f : Follows(f, n, Walks, x, step)
    <3> HIDE DEF step, n, e, x
    <3> QED BY <1>1, <1>3, Stepwise
  <2>2. /\ f \in [0 .. n -> Walks] /\ f[0] = x
        /\ \A i \in 1 .. n : f[i] = step[i][f[i - 1]]
    <3> HIDE DEF step, n, x
    <3> QED BY <2>1 DEF Follows
  <2>3. \A i \in 1 .. n : f[i] = Entered(f[i - 1], parts[i])
    <3>1. \A i \in 1 .. n : f[i - 1] \in Walks
      BY <1>1, <2>2
    <3>2. \A i \in 1 .. n : \A s \in Walks : step[i][s] = Entered(s, parts[i])
      OBVIOUS
    <3> HIDE DEF step
    <3> QED BY <2>2, <3>1, <3>2
  <2> HIDE DEF step
  <2>4. f = e(f)
    <3>1. \A i \in 0 .. n : i # 0 => i \in 1 .. n
      BY <1>1
    <3>2. f = [i \in 0 .. n |-> f[i]]
      BY <2>2
    <3> QED BY <2>2, <2>3, <3>1, <3>2
  <2> QED BY <2>4
<1>6. g = e(g)
  <2> HIDE DEF e
  <2> QED BY <1>5
<1> HIDE DEF e, g
<1>7. g[0] = x /\ \A i \in 1 .. n : g[i] = Entered(g[i - 1], parts[i])
  BY <1>4, <1>6
<1> HIDE DEF x
<1> DEFINE T == {k \in 0 .. n : g[k] \in Walks}
<1>8. 0 \in T
  BY <1>1, <1>7
<1>9. ASSUME NEW k \in 1 .. n, k - 1 \in T PROVE k \in T
  BY <1>1, <1>7, <1>9, EnteredDotless
<1>10. g[n] \in Walks
  <2> HIDE DEF T, n
  <2>1. \A k \in 0 .. n : k \in T
    BY <1>1, <1>8, <1>9, UpTo
  <2> QED BY <1>1, <2>1 DEF T
<1> HIDE DEF T
<1> QED BY <1>2, <1>10

LEMMA JoinedDotless ==
  ASSUME NEW parts \in Seq(Dotless)
  PROVE  Joined(parts) \in Dotless
<1> DEFINE n == Len(parts)
           More(s, i) == s \o <<"/">> \o parts[i]
           e(f) == [i \in 0 .. Len(parts) |->
                      IF i = 0 THEN <<>> ELSE More(f[i - 1], i)]
           step == [i \in 1 .. n |-> [s \in Dotless |-> More(s, i)]]
           g == CHOOSE f : f = e(f)
<1>1. n \in Nat /\ <<>> \in Dotless /\ \A i \in 1 .. n : parts[i] \in Dotless
  BY DotlessFew
<1>2. Joined(parts) = g[n]
  BY DEF Joined
<1>3. \A i \in 1 .. n : \A s \in Dotless : More(s, i) \in Dotless
  BY <1>1, DotlessSlash
<1> HIDE DEF More
<1>4. step \in Steps(n, Dotless)
  BY <1>3 DEF Steps
<1>5. \A f : /\ e(f)[0] = <<>>
             /\ \A i \in 1 .. n : e(f)[i] = More(f[i - 1], i)
  BY <1>1
<1>6. \E f : f = e(f)
  <2>1. PICK f : Follows(f, n, Dotless, <<>>, step)
    <3> HIDE DEF step, n, e
    <3> QED BY <1>1, <1>4, Stepwise
  <2>2. /\ f \in [0 .. n -> Dotless] /\ f[0] = <<>>
        /\ \A i \in 1 .. n : f[i] = step[i][f[i - 1]]
    <3> HIDE DEF step, n
    <3> QED BY <2>1 DEF Follows
  <2>3. \A i \in 1 .. n : f[i] = More(f[i - 1], i)
    <3>1. \A i \in 1 .. n : f[i - 1] \in Dotless
      BY <1>1, <2>2
    <3>2. \A i \in 1 .. n : \A s \in Dotless : step[i][s] = More(s, i)
      OBVIOUS
    <3> HIDE DEF step
    <3> QED BY <2>2, <3>1, <3>2
  <2> HIDE DEF step
  <2>4. f = e(f)
    <3>1. \A i \in 0 .. n : i # 0 => i \in 1 .. n
      BY <1>1
    <3>2. f = [i \in 0 .. n |-> f[i]]
      BY <2>2
    <3> QED BY <2>2, <2>3, <3>1, <3>2
  <2> QED BY <2>4
<1>7. g = e(g)
  <2> HIDE DEF e
  <2> QED BY <1>6
<1> HIDE DEF e, g
<1>8. g[0] = <<>> /\ \A i \in 1 .. n : g[i] = More(g[i - 1], i)
  BY <1>5, <1>7
<1> DEFINE T == {k \in 0 .. n : g[k] \in Dotless}
<1>9. 0 \in T
  BY <1>1, <1>8
<1>10. ASSUME NEW k \in 1 .. n, k - 1 \in T PROVE k \in T
  BY <1>1, <1>3, <1>8, <1>10
<1>11. g[n] \in Dotless
  <2> HIDE DEF T, n
  <2>1. \A k \in 0 .. n : k \in T
    BY <1>1, <1>9, <1>10, UpTo
  <2> QED BY <1>1, <2>1 DEF T
<1> HIDE DEF T
<1> QED BY <1>2, <1>11

LEMMA NormalDotless ==
  ASSUME NEW p \in Dotless
  PROVE  normalize_path(p) \in Dotless
<1> DEFINE walk == Walk(Parts(p))
           joined == IF walk.at = <<>> THEN <<"/">> ELSE Joined(walk.at)
<1>1. walk \in Walks
  BY PartsDotless, WalkDotless
<1>2. joined \in Dotless
  <2>1. walk.at \in Seq(Dotless)
    BY <1>1 DEF Walks
  <2> HIDE DEF walk
  <2> QED BY <2>1, JoinedDotless, DotlessFew
<1> HIDE DEF walk, joined
<1>3. Append(joined, "/") \in Dotless /\ <<>> \in Dotless
  BY <1>2, DotlessEnds, DotlessFew
<1> QED BY <1>2, <1>3 DEF normalize_path, walk, joined

------------------------------------------------------------------------------
(* What a request has the server open.                                      *)

LEMMA PathDotless ==
  ASSUME NEW uri \in Dotless
  PROVE  GetPath(uri) \in Dotless
<1>1. PostPath(uri) \in Dotless
  BY BeforeDotless, TrimmedDotless DEF PostPath
<1>2. Trimmed(normalize_path(PostPath(uri))) \in Dotless
  BY <1>1, NormalDotless, TrimmedDotless
<1> QED BY <1>2, DotlessFew DEF GetPath

LEMMA Behind ==
  ASSUME NEW root \in Seq(STRING), NEW q \in Seq(Characters)
  PROVE  LET file == root \o <<"/">> \o q
         IN  SubSeq(file, Len(root) + 1, Len(file)) = <<"/">> \o q
<1> DEFINE e == <<"/">>
           t == e \o q
           file == root \o t
           s == SubSeq(file, Len(root) + 1, Len(file))
<1>1. root \in Seq(Characters) /\ Len(root) \in Nat
  BY DEF Characters
<1>2. e \in Seq(Characters)
  BY DEF Characters
<1>3. t \in Seq(Characters) /\ Len(t) \in Nat /\ Len(t) > 0
  <2>1. Len(e) = 1 /\ Len(q) \in Nat
    OBVIOUS
  <2> HIDE DEF e
  <2>2. e \o q \in Seq(Characters) /\ Len(e \o q) = Len(e) + Len(q)
    BY <1>2, ConcatProperties, Zenon
  <2> QED BY <2>1, <2>2
<1>4. root \o <<"/">> \o q = file
  <2>1. (root \o e) \o q = root \o (e \o q)
    <3> HIDE DEF e
    <3> QED BY <1>1, <1>2, ConcatAssociative
  <2> QED BY <2>1
<1> HIDE DEF t
<1>5. file \in Seq(Characters) /\ Len(file) = Len(root) + Len(t)
      /\ \A i \in 1 .. Len(file) :
           file[i] = IF i <= Len(root) THEN root[i] ELSE t[i - Len(root)]
  BY <1>1, <1>3, ConcatProperties
<1> HIDE DEF file
<1>6. s \in Seq(Characters) /\ Len(s) = Len(t)
      /\ \A i \in 1 .. Len(t) : s[i] = file[Len(root) + i]
  BY <1>1, <1>3, <1>5, SubSeqProperties
<1> HIDE DEF s
<1>7. ASSUME NEW i \in 1 .. Len(t) PROVE s[i] = t[i]
  <2> DEFINE j == Len(root) + i
  <2>1. j \in 1 .. Len(file) /\ ~(j <= Len(root)) /\ j - Len(root) = i
    BY <1>1, <1>3, <1>5
  <2>2. s[i] = file[j]
    BY <1>6
  <2> HIDE DEF j
  <2> QED BY <1>5, <2>1, <2>2
<1>8. s = t
  BY <1>3, <1>6, <1>7, SeqEqual
<1> QED BY <1>4, <1>8 DEF t

\* Such a path leads from the root to a file below it.
Below(root, file) ==
  /\ IsPrefix(root \o <<"/">>, file)
  /\ Walk(Parts(SubSeq(file, Len(root) + 1, Len(file)))).ok

LEMMA FileBelow ==
  ASSUME NEW root \in Seq(STRING), NEW p \in Dotless, FileOf(root, p) # <<>>
  PROVE  Below(root, FileOf(root, p))
<1> DEFINE normal == normalize_path(<<"/">> \o p)
           relative == Tail(normal)
           q == Unrooted(trimquot(relative))
           file == root \o <<"/">> \o q
<1>1. normal # <<>> /\ FileOf(root, p) = file /\ IsPrefix(root \o <<"/">>, file)
  BY DEF FileOf, joinpath
<1>2. normal \in Dotless
  BY DotlessEnds, NormalDotless
<1> HIDE DEF normal
<1>3. q \in Dotless
  BY <1>1, <1>2, TailDotless, QuotesDotless, TrimmedDotless
<1> HIDE DEF q
<1>4. <<"/">> \o q \in Dotless
  BY <1>3, DotlessEnds
<1>5. SubSeq(file, Len(root) + 1, Len(file)) = <<"/">> \o q
  BY <1>3, <1>4, Behind DEF Dotless
<1>6. Walk(Parts(<<"/">> \o q)).ok
  <2>1. Walk(Parts(<<"/">> \o q)) \in Walks
    BY <1>4, PartsDotless, WalkDotless
  <2> QED BY <2>1 DEF Walks
<1> HIDE DEF file
<1> QED BY <1>1, <1>5, <1>6 DEF Below

LEMMA OpensBelow ==
  ASSUME NEW req \in Requests, Opens(req) # <<>>
  PROVE  Below(DocumentRoot, Opens(req))
<1>1. Refused(req) = 0 /\ Opens(req) = FileOf(DocumentRoot, GetPath(req.uri))
  BY DEF Opens
<1>2. ~HasDots(req.uri)
  <2>1. ASSUME ~validate_url(req.uri) PROVE FALSE
    BY <1>1, <2>1 DEF Refused
  <2> QED BY <2>1 DEF validate_url
<1>3. req.uri \in Dotless
  BY <1>2, EndpointsAssumption DEF Dotless, Characters
<1>4. GetPath(req.uri) \in Dotless
  BY <1>3, PathDotless
<1> QED BY <1>1, <1>4, FileBelow, EndpointsAssumption

Inside ==
  /\ request \in Requests
  /\ opened # <<>> => Below(DocumentRoot, opened)

(* No request has the server open a file outside the document root: whatever  *)
(* the URI, the path below the root never leaves the directory it started in. *)
(* validate_url, httpserver.cpp; do_get and serve_static_file, main.cpp.      *)
THEOREM FilesInside == EndpointsSpec => []StaysInside
<1>1. EndpointsInit => Inside
  BY DEF EndpointsInit, Inside
<1>2. Inside /\ [EndpointsNext]_endpointsVars => Inside'
  <2> SUFFICES ASSUME Inside, [EndpointsNext]_endpointsVars PROVE Inside'
    OBVIOUS
  <2>1. ASSUME UNCHANGED <<request, opened>> PROVE Inside'
    BY <2>1 DEF Inside
  <2>2. ASSUME NEW c, Write(c) PROVE Inside'
    BY <2>1, <2>2 DEF Write, Send, handled
  <2>3. CASE SendDocument \/ Read \/ Nest
    BY <2>1, <2>3 DEF SendDocument, Send, Read, Nest, handled
  <2>4. CASE Dispatch
    <3>1. request' = request /\ opened' = Opens(request)
      BY <2>4 DEF Dispatch
    <3> QED BY <3>1, OpensBelow DEF Inside
  <2>5. CASE Assemble \/ UNCHANGED endpointsVars
    BY <2>1, <2>5 DEF Assemble, endpointsVars
  <2> QED BY <2>2, <2>3, <2>4, <2>5 DEF EndpointsNext
<1>3. Inside => StaysInside
  BY DEF Inside, Below, StaysInside
<1> QED BY <1>1, <1>2, <1>3, PTL DEF EndpointsSpec

------------------------------------------------------------------------------
(* Digest: what the context holds is what it was given.                      *)

LEMMA SizesOf ==
  /\ BlockSize \in Nat /\ BlockSize > 2 /\ BlockSize > 0
  /\ LowLimit \in Nat /\ LowLimit > 0
  /\ HighLimit \in Nat /\ HighLimit > 0
BY DigestAssumption

USE SizesOf

ByteValues == Octets \cup Nat
BlockValues == [1 .. BlockSize -> ByteValues]
Contexts ==
  [block : BlockValues, index : Nat, low : Nat, high : Nat,
   hash : Seq(BlockValues), computed : BOOLEAN, corrupted : Nat]

\* The blocks processed and the one begun are the first n octets of p.
Holds(c, p, n) ==
  /\ n = BlockSize * Len(c.hash) + c.index
  /\ c.index \in 0 .. BlockSize
  /\ \A k \in 1 .. Len(c.hash), i \in 1 .. BlockSize :
       c.hash[k][i] = p[BlockSize * (k - 1) + i]
  /\ \A i \in 1 .. c.index : c.block[i] = p[BlockSize * Len(c.hash) + i]

\* The two words are the length of n octets in bits.
Counts(c, n) ==
  /\ 8 * n = LowLimit * c.high + c.low
  /\ c.low \in 0 .. LowLimit - 1 /\ c.low % 8 = 0 /\ c.high \in 0 .. HighLimit - 1

Sound(c, p, n) ==
  /\ c \in Contexts /\ ~c.computed
  /\ c.corrupted = 0 => c.index < BlockSize /\ Holds(c, p, n) /\ Counts(c, n)

\* What a step may not touch of a context.
SameLength(c, d) ==
  /\ d.low = c.low /\ d.high = c.high
  /\ d.computed = c.computed /\ d.corrupted = c.corrupted

LEMMA ModIs ==
  ASSUME NEW b \in Nat, b > 0, NEW k \in Int, NEW r \in 0 .. b - 1,
         NEW x \in Int, x = b * k + r
  PROVE  x % b = r /\ x \div b = k
<1> DEFINE q == x \div b
           s == x % b
<1>1. q \in Int /\ s \in 0 .. b - 1 /\ x = b * q + s
  OBVIOUS
<1> HIDE DEF q, s
<1>2. b * (q - k) = r - s
  BY <1>1
<1>3. ASSUME q > k PROVE FALSE
  <2>1. b * (q - k) >= b
    BY <1>1, <1>3
  <2> QED BY <1>1, <1>2, <2>1
<1>4. ASSUME q < k PROVE FALSE
  <2>1. b * (q - k) <= -b
    BY <1>1, <1>4
  <2> QED BY <1>1, <1>2, <2>1
<1>5. q = k
  BY <1>1, <1>3, <1>4
<1> QED BY <1>1, <1>5 DEF q, s

LEMMA FieldsOf ==
  ASSUME NEW c \in Contexts
  PROVE  /\ c.block \in BlockValues /\ c.hash \in Seq(BlockValues)
         /\ c.index \in Nat /\ c.low \in Nat /\ c.high \in Nat
         /\ c.computed \in BOOLEAN /\ c.corrupted \in Nat
         /\ Len(c.hash) \in Nat
BY DEF Contexts

LEMMA SameContext ==
  ASSUME NEW c \in Contexts, NEW d \in Contexts, SameLength(c, d),
         d.block = c.block, d.index = c.index, d.hash = c.hash
  PROVE  c = d
BY DEF Contexts, SameLength

LEMMA StoredIs ==
  ASSUME NEW c \in Contexts, NEW o \in ByteValues
  PROVE  LET d == Stored(c, o)
         IN  /\ d \in Contexts /\ SameLength(c, d) /\ d.hash = c.hash
             /\ d.index = c.index + 1
             /\ d.block = [c.block EXCEPT ![c.index + 1] = o]
<1> DEFINE b == [c.block EXCEPT ![c.index + 1] = o]
           i == c.index + 1
           d == [c EXCEPT !.block = b, !.index = i]
<1>1. Stored(c, o) = d
  BY DEF Stored, Contexts
<1>2. b \in BlockValues /\ i \in Nat
  <2>1. c.block \in BlockValues /\ c.index \in Nat
    BY FieldsOf
  <2>2. i \in Nat
    BY <2>1
  <2> HIDE DEF i
  <2> QED BY <2>1, <2>2 DEF BlockValues
<1> HIDE DEF b, i
<1>3. /\ d \in Contexts /\ SameLength(c, d) /\ d.hash = c.hash
      /\ d.index = i /\ d.block = b
  BY <1>2 DEF Contexts, SameLength
<1> HIDE DEF d
<1> QED BY <1>1, <1>3 DEF b, i

LEMMA HoldsStored ==
  ASSUME NEW c \in Contexts, NEW o \in ByteValues, NEW p, NEW n \in Nat,
         Holds(c, p, n), c.index < BlockSize, p[n + 1] = o
  PROVE  Holds(Stored(c, o), p, n + 1)
<1> DEFINE d == Stored(c, o)
           q == Len(c.hash)
           s == BlockSize * q
           i == c.index
<1>1. /\ d.hash = c.hash /\ d.index = i + 1
      /\ d.block = [c.block EXCEPT ![i + 1] = o]
  BY StoredIs
<1>2. i \in Nat /\ q \in Nat /\ c.block \in BlockValues
  BY FieldsOf
<1>3. s \in Nat
  BY <1>2
<1>4. n = s + i /\ i + 1 \in 1 .. BlockSize
  <2>1. n = s + i
    BY DEF Holds
  <2>2. i < BlockSize
    OBVIOUS
  <2> HIDE DEF s, i
  <2> QED BY <1>2, <2>1, <2>2
<1>5. \A j \in 1 .. i : c.block[j] = p[s + j]
  BY DEF Holds
<1> HIDE DEF d, s, i
<1>6. \A j \in 1 .. i + 1 : d.block[j] = p[s + j]
  <2>1. d.block[i + 1] = o
    BY <1>1, <1>2, <1>4 DEF BlockValues
  <2>2. \A j \in 1 .. i : d.block[j] = c.block[j]
    BY <1>1, <1>2, <1>4 DEF BlockValues
  <2>3. p[s + (i + 1)] = o
    BY <1>2, <1>3, <1>4
  <2> QED BY <1>2, <1>5, <2>1, <2>2, <2>3
<1>7. n + 1 = s + (i + 1)
  BY <1>2, <1>3, <1>4
<1> QED BY <1>1, <1>2, <1>4, <1>6, <1>7 DEF Holds, d, s, i

LEMMA ProcessedIs ==
  ASSUME NEW c \in Contexts
  PROVE  LET d == ProcessMessageBlock(c)
         IN  /\ d \in Contexts /\ SameLength(c, d) /\ d.index = 0
             /\ d.hash = Append(c.hash, c.block) /\ d.block = c.block
<1>1. Append(c.hash, c.block) \in Seq(BlockValues)
  BY FieldsOf
<1> QED BY <1>1 DEF ProcessMessageBlock, Contexts, SameLength

LEMMA HoldsProcessed ==
  ASSUME NEW c \in Contexts, NEW p, NEW n \in Nat,
         Holds(c, p, n), c.index = BlockSize
  PROVE  Holds(ProcessMessageBlock(c), p, n)
<1> DEFINE d == ProcessMessageBlock(c)
           q == Len(c.hash)
           s == BlockSize * q
<1>1. d.hash = Append(c.hash, c.block) /\ d.index = 0
  BY ProcessedIs
<1>2. q \in Nat /\ c.hash \in Seq(BlockValues)
  BY FieldsOf
<1>3. /\ Len(d.hash) = q + 1 /\ d.hash[q + 1] = c.block
      /\ \A k \in 1 .. q : d.hash[k] = c.hash[k]
  BY <1>1, <1>2, AppendProperties
<1>4. n = BlockSize * (q + 1) + 0 /\ BlockSize * (q + 1 - 1) = s
  <2>1. n = s + BlockSize
    BY DEF Holds
  <2> QED BY <1>2, <2>1
<1>5. /\ \A k \in 1 .. q, i \in 1 .. BlockSize :
           c.hash[k][i] = p[BlockSize * (k - 1) + i]
      /\ \A i \in 1 .. BlockSize : c.block[i] = p[s + i]
  BY DEF Holds
<1> HIDE DEF d, q, s
<1>6. ASSUME NEW k \in 1 .. q + 1, NEW i \in 1 .. BlockSize
      PROVE  d.hash[k][i] = p[BlockSize * (k - 1) + i]
  <2>1. CASE k = q + 1
    <3>1. d.hash[k] = c.block /\ BlockSize * (k - 1) = s
      <4>1. BlockSize * (k - 1) = BlockSize * (q + 1 - 1)
        BY <1>2, <2>1
      <4>2. d.hash[k] = d.hash[q + 1]
        BY <2>1
      <4> QED BY <1>3, <1>4, <4>1, <4>2, Zenon
    <3>2. c.block[i] = p[s + i]
      BY <1>5
    <3> QED BY <3>1, <3>2, Zenon
  <2>2. CASE k # q + 1
    <3>1. k \in 1 .. q
      BY <1>2, <2>2
    <3>2. d.hash[k] = c.hash[k]
      BY <1>3, <3>1
    <3>3. c.hash[k][i] = p[BlockSize * (k - 1) + i]
      BY <1>5, <3>1, Zenon
    <3> QED BY <3>2, <3>3, Zenon
  <2> QED BY <2>1, <2>2
<1>7. /\ n = BlockSize * Len(d.hash) + d.index
      /\ d.index \in 0 .. BlockSize
      /\ \A k \in 1 .. Len(d.hash), i \in 1 .. BlockSize :
           d.hash[k][i] = p[BlockSize * (k - 1) + i]
  <2>1. Len(d.hash) = q + 1 /\ d.index = 0
    BY <1>1, <1>3
  <2>2. 0 \in 0 .. BlockSize
    OBVIOUS
  <2> QED BY <1>4, <1>6, <2>1, <2>2, Zenon
<1>8. \A i \in 1 .. d.index : d.block[i] = p[BlockSize * Len(d.hash) + i]
  <2>1. ASSUME NEW i \in 1 .. d.index PROVE FALSE
    BY <1>1
  <2> QED BY <2>1
<1>9. Holds(d, p, n)
  BY <1>7, <1>8, Zenon DEF Holds
<1> QED BY <1>9 DEF d

LEMMA ZerosIs ==
  ASSUME NEW c \in Contexts, NEW place \in Nat
  PROVE  LET d == ZerosTo(c, place)
         IN  /\ d \in Contexts /\ SameLength(c, d) /\ d.hash = c.hash
             /\ d.index = place
             /\ \A i \in 1 .. BlockSize :
                  d.block[i] = IF i > c.index /\ i <= place THEN 0
                               ELSE c.block[i]
<1> DEFINE b == [i \in 1 .. BlockSize |->
                   IF i > c.index /\ i <= place THEN 0 ELSE c.block[i]]
           d == [c EXCEPT !.block = b, !.index = place]
<1>1. ZerosTo(c, place) = d
  BY DEF ZerosTo, Contexts
<1>2. b \in BlockValues
  BY FieldsOf DEF BlockValues, ByteValues
<1>3. \A i \in 1 .. BlockSize :
        b[i] = IF i > c.index /\ i <= place THEN 0 ELSE c.block[i]
  OBVIOUS
<1> HIDE DEF b
<1>4. /\ d \in Contexts /\ SameLength(c, d) /\ d.hash = c.hash
      /\ d.index = place /\ d.block = b
  BY <1>2 DEF Contexts, SameLength
<1> HIDE DEF d
<1> QED BY <1>1, <1>3, <1>4

LEMMA HoldsZeros ==
  ASSUME NEW c \in Contexts, NEW p, NEW n \in Nat, Holds(c, p, n),
         NEW place \in c.index .. BlockSize,
         \A j \in n + 1 .. n + (place - c.index) : p[j] = 0
  PROVE  Holds(ZerosTo(c, place), p, n + (place - c.index))
<1> DEFINE d == ZerosTo(c, place)
           q == Len(c.hash)
           s == BlockSize * q
           i == c.index
<1>1. i \in Nat /\ q \in Nat
  BY FieldsOf
<1>2. place \in Nat /\ place >= i /\ place <= BlockSize
  BY <1>1
<1>3. /\ d.hash = c.hash /\ d.index = place
      /\ \A j \in 1 .. BlockSize :
           d.block[j] = IF j > i /\ j <= place THEN 0 ELSE c.block[j]
  BY <1>2, ZerosIs
<1>4. s \in Nat
  BY <1>1
<1>5. n = s + i /\ \A j \in 1 .. i : c.block[j] = p[s + j]
  BY DEF Holds
<1> HIDE DEF d, s, i
<1>6. \A j \in 1 .. place : d.block[j] = p[s + j]
  <2> TAKE j \in 1 .. place
  <2>1. j \in 1 .. BlockSize
    BY <1>2
  <2>2. CASE j > i
    <3>1. s + j \in n + 1 .. n + (place - i)
      BY <1>1, <1>2, <1>4, <1>5, <2>2
    <3>2. p[s + j] = 0
      BY <3>1 DEF i
    <3> QED BY <1>3, <2>1, <2>2, <3>2
  <2>3. CASE j <= i
    <3>1. j \in 1 .. i
      BY <1>1, <2>1, <2>3
    <3> QED BY <1>1, <1>3, <1>5, <2>1, <2>3, <3>1
  <2> QED BY <1>1, <2>1, <2>2, <2>3
<1>7. n + (place - i) = s + place
  BY <1>1, <1>2, <1>4, <1>5
<1> QED BY <1>2, <1>3, <1>6, <1>7 DEF Holds, d, s, i

\* The length, in the last two places of the block that is processed last.
LEMMA HoldsLength ==
  ASSUME NEW c \in Contexts, NEW p, NEW n \in Nat, Holds(c, p, n),
         c.index = LengthPlace, p[n + 1] = c.high, p[n + 2] = c.low
  PROVE  LET d == ProcessMessageBlock([c EXCEPT !.block[LengthPlace + 1] = c.high,
                                                !.block[LengthPlace + 2] = c.low])
         IN  d \in Contexts /\ SameLength(c, d) /\ d.index = 0 /\ Holds(d, p, n + 2)
<1> DEFINE d == Stored(c, c.high)
           e == Stored(d, c.low)
           x == [c EXCEPT !.block[LengthPlace + 1] = c.high,
                          !.block[LengthPlace + 2] = c.low]
<1>1. c.high \in ByteValues /\ c.low \in ByteValues /\ LengthPlace \in Nat
      /\ LengthPlace + 2 = BlockSize
  BY FieldsOf DEF ByteValues, LengthPlace
<1>2. /\ d \in Contexts /\ SameLength(c, d) /\ d.hash = c.hash
      /\ d.index = LengthPlace + 1
      /\ d.block = [c.block EXCEPT ![LengthPlace + 1] = c.high]
  BY <1>1, StoredIs
<1>3. Holds(d, p, n + 1)
  BY <1>1, HoldsStored
<1> HIDE DEF d
<1>4. /\ e \in Contexts /\ SameLength(d, e) /\ e.hash = c.hash
      /\ e.index = LengthPlace + 2
      /\ e.block = [d.block EXCEPT ![LengthPlace + 2] = c.low]
  BY <1>1, <1>2, StoredIs
<1>5. Holds(e, p, n + 2)
  <2>1. n + 1 \in Nat /\ n + 1 + 1 = n + 2 /\ d.index < BlockSize
    BY <1>1, <1>2
  <2> QED BY <1>1, <1>2, <1>3, <2>1, HoldsStored
<1> HIDE DEF e
<1>6. ProcessMessageBlock(x) = ProcessMessageBlock(e)
  <2>1. /\ x \in Contexts /\ SameLength(c, x) /\ x.hash = c.hash
        /\ x.block = e.block
    <3> DEFINE b == [c.block EXCEPT ![LengthPlace + 1] = c.high,
                                    ![LengthPlace + 2] = c.low]
    <3>1. x = [c EXCEPT !.block = b]
      BY DEF Contexts
    <3>2. b = e.block /\ e.block \in BlockValues
      BY <1>2, <1>4, FieldsOf
    <3> HIDE DEF b, x
    <3> QED BY <3>1, <3>2 DEF Contexts, SameLength
  <2> HIDE DEF x
  <2>2. /\ ProcessMessageBlock(x) \in Contexts
        /\ SameLength(x, ProcessMessageBlock(x))
        /\ ProcessMessageBlock(x).index = 0
        /\ ProcessMessageBlock(x).hash = Append(x.hash, x.block)
    BY <2>1, ProcessedIs
  <2>3. /\ ProcessMessageBlock(e) \in Contexts
        /\ SameLength(e, ProcessMessageBlock(e))
        /\ ProcessMessageBlock(e).index = 0
        /\ ProcessMessageBlock(e).hash = Append(e.hash, e.block)
    BY <1>4, ProcessedIs
  <2>4. ProcessMessageBlock(x).block = x.block
        /\ ProcessMessageBlock(e).block = e.block
    BY <1>4, <2>1, ProcessedIs
  <2> DEFINE v == ProcessMessageBlock(x)
             w == ProcessMessageBlock(e)
  <2> HIDE DEF v, w
  <2>5. /\ v \in Contexts /\ w \in Contexts /\ v.block = w.block
        /\ v.index = w.index /\ v.hash = w.hash
    BY <1>4, <2>1, <2>2, <2>3, <2>4 DEF v, w
  <2>6. SameLength(v, w)
    BY <1>2, <1>4, <2>1, <2>2, <2>3 DEF SameLength, v, w
  <2> QED BY <2>5, <2>6, SameContext DEF v, w
<1>7. /\ ProcessMessageBlock(e) \in Contexts /\ ProcessMessageBlock(e).index = 0
      /\ SameLength(e, ProcessMessageBlock(e))
  BY <1>4, ProcessedIs
<1>8. Holds(ProcessMessageBlock(e), p, n + 2)
  <2>1. n + 2 \in Nat /\ e.index = BlockSize
    BY <1>1, <1>4
  <2> QED BY <1>4, <1>5, <2>1, HoldsProcessed
<1>9. SameLength(c, ProcessMessageBlock(e))
  BY <1>2, <1>4, <1>7 DEF SameLength
<1> HIDE DEF x
<1>10. /\ ProcessMessageBlock(x) \in Contexts
       /\ SameLength(c, ProcessMessageBlock(x))
       /\ ProcessMessageBlock(x).index = 0
       /\ Holds(ProcessMessageBlock(x), p, n + 2)
  BY <1>6, <1>7, <1>8, <1>9
<1> QED BY <1>10 DEF x

\* With nothing begun, the blocks processed are those of the whole.
LEMMA HoldsWhole ==
  ASSUME NEW c \in Contexts, NEW p \in Seq(ByteValues),
         Holds(c, p, Len(p)), c.index = 0
  PROVE  c.hash = [k \in 1 .. (Len(p) \div BlockSize) |->
                     SubSeq(p, (k - 1) * BlockSize + 1, k * BlockSize)]
<1> DEFINE q == Len(c.hash)
           t(k) == SubSeq(p, (k - 1) * BlockSize + 1, k * BlockSize)
<1>1. q \in Nat /\ c.hash \in Seq(BlockValues) /\ Len(p) \in Nat
  BY FieldsOf
<1>2. Len(p) = BlockSize * q + 0
  BY DEF Holds
<1>3. Len(p) \div BlockSize = q
  <2> DEFINE x == Len(p)
  <2>1. 0 \in 0 .. BlockSize - 1 /\ q \in Int /\ x \in Int
    BY <1>1
  <2>2. x = BlockSize * q + 0
    BY <1>2
  <2> HIDE DEF q, x
  <2>3. x % BlockSize = 0 /\ x \div BlockSize = q
    BY <2>1, <2>2, ModIs
  <2> QED BY <2>3 DEF x
<1>4. \A k \in 1 .. q, i \in 1 .. BlockSize :
        c.hash[k][i] = p[BlockSize * (k - 1) + i]
  BY DEF Holds
<1>5. c.hash = [k \in 1 .. q |-> c.hash[k]]
  BY <1>1
<1>6. ASSUME NEW k \in 1 .. q PROVE c.hash[k] = t(k)
  <2> DEFINE a == BlockSize * (k - 1)
  <2>1. k \in 1 .. q /\ k \in Nat /\ c.hash[k] \in BlockValues
    BY <1>1
  <2>2. a \in Nat /\ (k - 1) * BlockSize = a /\ k * BlockSize = a + BlockSize
    BY <2>1
  <2>3. a + BlockSize <= Len(p)
    <3>1. BlockSize * k <= BlockSize * q
      BY <1>1, <2>1
    <3> QED BY <1>2, <2>1, <2>2, <3>1
  <2>4. \A i \in 1 .. BlockSize : c.hash[k][i] = p[a + i]
    BY <1>4, <2>1
  <2> HIDE DEF a
  <2>5. SubSeq(p, a + 1, a + BlockSize) = [i \in 1 .. BlockSize |-> p[a + i]]
    <3>1. a + 1 \in Int /\ a + BlockSize \in Int
          /\ a + BlockSize - (a + 1) + 1 = BlockSize
      BY <2>2
    <3>2. SubSeq(p, a + 1, a + BlockSize)
          = [i \in 1 .. (a + BlockSize - (a + 1) + 1) |-> p[i + (a + 1) - 1]]
      BY <2>2, <2>3, <3>1
    <3>3. \A i \in 1 .. BlockSize : i + (a + 1) - 1 = a + i
      BY <2>2
    <3> QED BY <3>1, <3>2, <3>3
  <2>6. c.hash[k] = [i \in 1 .. BlockSize |-> p[a + i]]
    BY <2>1, <2>4 DEF BlockValues
  <2>7. t(k) = SubSeq(p, a + 1, a + BlockSize)
    BY <2>2
  <2> QED BY <2>5, <2>6, <2>7
<1> QED BY <1>3, <1>5, <1>6

LEMMA CountedIs ==
  ASSUME NEW c \in Contexts
  PROVE  LET d == LengthCounted(c)
         IN  /\ d \in Contexts /\ d.block = c.block /\ d.hash = c.hash
             /\ d.index = c.index /\ d.computed = c.computed
             /\ d.low = (c.low + 8) % LowLimit
             /\ d.high = IF d.low = 0 THEN (c.high + 1) % HighLimit ELSE c.high
             /\ d.corrupted = IF d.low = 0 /\ d.high = 0 THEN TooLong
                              ELSE c.corrupted
<1> DEFINE low == (c.low + 8) % LowLimit
           high == IF low = 0 THEN (c.high + 1) % HighLimit ELSE c.high
           bad == IF low = 0 /\ high = 0 THEN TooLong ELSE c.corrupted
           d == [c EXCEPT !.low = low, !.high = high, !.corrupted = bad]
<1>1. LengthCounted(c) = d
  BY DEF LengthCounted, Contexts
<1>2. low \in Nat /\ high \in Nat /\ bad \in Nat
  <2>1. c.low \in Nat /\ c.high \in Nat /\ c.corrupted \in Nat
    BY FieldsOf
  <2>2. low \in Nat
    BY <2>1
  <2>3. high \in Nat
    <3> HIDE DEF low
    <3> QED BY <2>1
  <2> HIDE DEF low, high
  <2> QED BY <2>1, <2>2, <2>3 DEF TooLong
<1>3. high = IF low = 0 THEN (c.high + 1) % HighLimit ELSE c.high
  OBVIOUS
<1>4. bad = IF low = 0 /\ high = 0 THEN TooLong ELSE c.corrupted
  OBVIOUS
<1>5. low = (c.low + 8) % LowLimit
  OBVIOUS
<1> HIDE DEF low, high, bad
<1>6. /\ d \in Contexts /\ d.block = c.block /\ d.hash = c.hash
      /\ d.index = c.index /\ d.computed = c.computed
      /\ d.low = low /\ d.high = high /\ d.corrupted = bad
  BY <1>2 DEF Contexts
<1> HIDE DEF d
<1> QED BY <1>1, <1>3, <1>4, <1>5, <1>6

\* The length goes up by an octet, unless both words come to zero.
LEMMA CountsOn ==
  ASSUME NEW c \in Contexts, NEW n \in Nat, Counts(c, n),
         LengthCounted(c).corrupted = 0
  PROVE  Counts(LengthCounted(c), n + 1)
<1> DEFINE d == LengthCounted(c)
           l == c.low
           h == c.high
<1>1. /\ d.low = (l + 8) % LowLimit
      /\ d.high = IF d.low = 0 THEN (h + 1) % HighLimit ELSE h
      /\ d.low # 0 \/ d.high # 0
  BY CountedIs DEF TooLong
<1>2. /\ 8 * n = LowLimit * h + l /\ l \in 0 .. LowLimit - 1 /\ l % 8 = 0
      /\ h \in 0 .. HighLimit - 1
  BY DEF Counts
<1> HIDE DEF d, l, h
<1>3. l + 8 <= LowLimit
  BY <1>2, DigestAssumption
<1>4. CASE l + 8 = LowLimit
  <2>1. d.low = 0
    BY <1>1, <1>4, ModIs
  <2>2. h + 1 # HighLimit
    <3>1. ASSUME h + 1 = HighLimit PROVE (h + 1) % HighLimit = 0
      BY <3>1, ModIs
    <3> QED BY <1>1, <2>1, <3>1
  <2>3. d.high = h + 1
    <3>1. h + 1 \in 0 .. HighLimit - 1 /\ h + 1 = HighLimit * 0 + (h + 1)
      BY <1>2, <2>2
    <3>2. (h + 1) % HighLimit = h + 1
      BY <3>1, ModIs
    <3> QED BY <1>1, <2>1, <3>2
  <2>4. h + 1 \in 0 .. HighLimit - 1
    BY <1>2, <2>2
  <2>5. 8 * (n + 1) = LowLimit * (h + 1) + 0
    BY <1>2, <1>4
  <2> QED BY <2>1, <2>3, <2>4, <2>5 DEF Counts, d
<1>5. CASE l + 8 < LowLimit
  <2>1. l + 8 \in 0 .. LowLimit - 1 /\ l + 8 = LowLimit * 0 + (l + 8)
    BY <1>2, <1>5
  <2>2. d.low = l + 8
    <3>1. l + 8 \in Int /\ 0 \in Int
      BY <1>2
    <3>2. (l + 8) % LowLimit = l + 8 /\ (l + 8) \div LowLimit = 0
      BY <2>1, <3>1, ModIs
    <3> QED BY <1>1, <3>2
  <2>3. d.high = h
    BY <1>1, <1>2, <2>2
  <2>4. (l + 8) % 8 = 0
    BY <1>2
  <2>5. 8 * (n + 1) = LowLimit * h + (l + 8)
    BY <1>2
  <2> QED BY <1>2, <2>1, <2>2, <2>3, <2>4, <2>5 DEF Counts, d
<1> QED BY <1>2, <1>3, <1>4, <1>5

LEMMA OctetTyped ==
  ASSUME NEW c \in Contexts, NEW o \in ByteValues
  PROVE  OctetTaken(c, o) \in Contexts
<1> DEFINE s == Stored(c, o)
           d == LengthCounted(s)
<1>1. s \in Contexts
  BY StoredIs
<1> HIDE DEF s
<1>2. d \in Contexts
  BY <1>1, CountedIs
<1> HIDE DEF d
<1>3. ProcessMessageBlock(d) \in Contexts
  BY <1>2, ProcessedIs
<1> QED BY <1>2, <1>3 DEF OctetTaken, d, s

LEMMA OctetSound ==
  ASSUME NEW c, NEW p, NEW n \in Nat, Sound(c, p, n),
         NEW o \in ByteValues, p[n + 1] = o
  PROVE  Sound(OctetTaken(c, o), p, n + 1)
<1> DEFINE s == Stored(c, o)
           d == LengthCounted(s)
           e == ProcessMessageBlock(d)
           t == OctetTaken(c, o)
<1>1. c \in Contexts /\ ~c.computed
  BY DEF Sound
<1>2. CASE c.corrupted # 0
  <2>1. t = c
    BY <1>2 DEF OctetTaken
  <2> QED BY <1>1, <1>2, <2>1 DEF Sound
<1>3. CASE c.corrupted = 0
  <2>1. c.index < BlockSize /\ Holds(c, p, n) /\ Counts(c, n)
    BY <1>3 DEF Sound
  <2>2. s \in Contexts /\ SameLength(c, s) /\ s.index = c.index + 1
    BY <1>1, StoredIs
  <2>3. Holds(s, p, n + 1)
    BY <1>1, <2>1, HoldsStored
  <2>4. Counts(s, n)
    BY <2>1, <2>2 DEF Counts, SameLength
  <2> HIDE DEF s
  <2>5. /\ d \in Contexts /\ d.block = s.block /\ d.hash = s.hash
        /\ d.index = s.index /\ d.computed = s.computed
    BY <2>2, CountedIs
  <2>6. Holds(d, p, n + 1)
    BY <2>3, <2>5 DEF Holds
  <2>7. d.corrupted = 0 => Counts(d, n + 1)
    BY <2>2, <2>4, CountsOn
  <2>8. ~d.computed /\ d.index \in Nat /\ d.index <= BlockSize
    BY <1>1, <2>2, <2>5, <2>6, FieldsOf DEF SameLength, Holds
  <2>9. t = IF d.index = BlockSize THEN e ELSE d
    BY <1>3 DEF OctetTaken, s
  <2> HIDE DEF d, t
  <2>10. CASE d.index = BlockSize
    <3>1. e \in Contexts /\ SameLength(d, e) /\ e.index = 0
      BY <2>5, ProcessedIs
    <3>2. Holds(e, p, n + 1)
      BY <2>5, <2>6, <2>10, HoldsProcessed
    <3> HIDE DEF e
    <3>3. Sound(e, p, n + 1)
      BY <2>7, <2>8, <3>1, <3>2 DEF Sound, SameLength, Counts
    <3> QED BY <2>9, <2>10, <3>3 DEF t
  <2>11. CASE d.index # BlockSize
    <3>1. Sound(d, p, n + 1)
      BY <2>5, <2>6, <2>7, <2>8, <2>11 DEF Sound
    <3> QED BY <2>9, <2>11, <3>1 DEF t
  <2> QED BY <2>10, <2>11
<1> QED BY <1>2, <1>3

\* Only the first n octets count.
LEMMA SoundSame ==
  ASSUME NEW c, NEW m, NEW p, NEW n \in Nat, Sound(c, m, n),
         \A j \in 1 .. n : p[j] = m[j]
  PROVE  Sound(c, p, n)
<1> DEFINE q == Len(c.hash)
           s == BlockSize * q
<1>1. c \in Contexts /\ q \in Nat /\ c.index \in Nat
  BY FieldsOf DEF Sound
<1>2. ASSUME Holds(c, m, n) PROVE Holds(c, p, n)
  <2>1. s \in Nat /\ n = s + c.index
    BY <1>1, <1>2 DEF Holds
  <2>2. ASSUME NEW k \in 1 .. q, NEW i \in 1 .. BlockSize
        PROVE  p[BlockSize * (k - 1) + i] = m[BlockSize * (k - 1) + i]
    <3> DEFINE a == BlockSize * (k - 1)
    <3>1. k \in Nat /\ k >= 1 /\ k <= q
      BY <1>1
    <3>2. BlockSize * k <= s /\ a = BlockSize * k - BlockSize /\ a \in Nat
      BY <1>1, <3>1
    <3> HIDE DEF a, s
    <3>3. a + i \in 1 .. n
      BY <1>1, <2>1, <3>1, <3>2
    <3> QED BY <3>3 DEF a
  <2>3. ASSUME NEW i \in 1 .. c.index PROVE p[s + i] = m[s + i]
    <3> HIDE DEF s
    <3>1. s + i \in 1 .. n
      BY <1>1, <2>1
    <3> QED BY <3>1
  <2> QED BY <1>2, <2>2, <2>3 DEF Holds
<1> QED BY <1>2 DEF Sound

\* A portion: the context after k of its octets is f[k].
LEMMA PortionSound ==
  ASSUME NEW c, NEW m \in Seq(Octets), NEW octets \in Seq(Octets),
         Sound(c, m, Len(m))
  PROVE  Sound(PortionTaken(c, octets), m \o octets, Len(m \o octets))
<1> DEFINE n == Len(octets)
           l == Len(m)
           p == m \o octets
           e(f) == [k \in 0 .. n |-> IF k = 0 THEN c
                                     ELSE OctetTaken(f[k - 1], octets[k])]
           step == [k \in 1 .. n |->
                      [d \in Contexts |-> OctetTaken(d, octets[k])]]
           g == CHOOSE f : f = e(f)
<1>1. n \in Nat /\ l \in Nat /\ c \in Contexts
  BY DEF Sound
<1>2. PortionTaken(c, octets) = g[n]
  BY DEF PortionTaken
<1>3. \A k \in 1 .. n : octets[k] \in ByteValues
  BY DEF ByteValues
<1>4. step \in Steps(n, Contexts)
  <2>1. \A k \in 1 .. n : \A d \in Contexts :
          OctetTaken(d, octets[k]) \in Contexts
    BY <1>3, OctetTyped
  <2> QED BY <2>1 DEF Steps
<1>5. \A f : /\ e(f)[0] = c
             /\ \A k \in 1 .. n : e(f)[k] = OctetTaken(f[k - 1], octets[k])
  BY <1>1
<1>6. \E f : f = e(f)
  <2>1. PICK f : Follows(f, n, Contexts, c, step)
    <3> HIDE DEF step, n, e
    <3> QED BY <1>1, <1>4, Stepwise
  <2>2. /\ f \in [0 .. n -> Contexts] /\ f[0] = c
        /\ \A k \in 1 .. n : f[k] = step[k][f[k - 1]]
    <3> HIDE DEF step, n
    <3> QED BY <2>1 DEF Follows
  <2>3. \A k \in 1 .. n : f[k] = OctetTaken(f[k - 1], octets[k])
    <3>1. \A k \in 1 .. n : f[k - 1] \in Contexts
      BY <1>1, <2>2
    <3>2. \A k \in 1 .. n : \A d \in Contexts :
            step[k][d] = OctetTaken(d, octets[k])
      OBVIOUS
    <3> HIDE DEF step
    <3> QED BY <2>2, <3>1, <3>2
  <2> HIDE DEF step
  <2>4. f = e(f)
    <3>1. \A k \in 0 .. n : k # 0 => k \in 1 .. n
      BY <1>1
    <3>2. f = [k \in 0 .. n |-> f[k]]
      BY <2>2
    <3> QED BY <2>2, <2>3, <3>1, <3>2
  <2> QED BY <2>4
<1>7. g = e(g)
  <2> HIDE DEF e
  <2> QED BY <1>6
<1> HIDE DEF e, g
<1>8. g[0] = c /\ \A k \in 1 .. n : g[k] = OctetTaken(g[k - 1], octets[k])
  BY <1>5, <1>7
<1>9. /\ p \in Seq(Octets) /\ Len(p) = l + n
      /\ \A j \in 1 .. l : p[j] = m[j]
      /\ \A k \in 1 .. n : p[l + k] = octets[k]
  BY <1>1
<1> DEFINE T == {k \in 0 .. n : Sound(g[k], p, l + k)}
<1> HIDE DEF p
<1>10. 0 \in T
  <2>1. Sound(c, p, l)
    BY <1>1, <1>9, SoundSame
  <2> QED BY <1>1, <1>8, <2>1
<1>11. ASSUME NEW k \in 1 .. n, k - 1 \in T PROVE k \in T
  <2>1. Sound(g[k - 1], p, l + (k - 1))
    BY <1>11
  <2>2. l + (k - 1) \in Nat /\ l + (k - 1) + 1 = l + k
    BY <1>1
  <2>3. octets[k] \in ByteValues /\ p[l + k] = octets[k]
    BY <1>3, <1>9
  <2>4. Sound(OctetTaken(g[k - 1], octets[k]), p, l + k)
    BY <2>1, <2>2, <2>3, OctetSound
  <2> QED BY <1>1, <1>8, <2>4
<1>12. n \in T
  <2> HIDE DEF T
  <2>1. \A k \in 0 .. n : k \in T
    BY <1>1, <1>10, <1>11, UpTo
  <2> QED BY <1>1, <2>1
<1> QED BY <1>2, <1>9, <1>12 DEF p

\* The padding by the standard, place by place.
LEMMA PaddedIs ==
  ASSUME NEW m \in Seq(Octets), NEW c \in Contexts, Counts(c, Len(m))
  PROVE  LET z == (LengthPlace - 1 - Len(m)) % BlockSize
             p == Padded(m)
         IN  /\ z \in Nat /\ p \in Seq(ByteValues)
             /\ Len(p) = Len(m) + 1 + z + 2
             /\ \A j \in 1 .. Len(m) : p[j] = m[j]
             /\ p[Len(m) + 1] = 128
             /\ \A j \in Len(m) + 2 .. Len(m) + 1 + z : p[j] = 0
             /\ p[Len(m) + 1 + z + 1] = c.high
             /\ p[Len(m) + 1 + z + 2] = c.low
<1> DEFINE l == Len(m)
           z == (LengthPlace - 1 - l) % BlockSize
           bits == 8 * l
           hi == (bits \div LowLimit) % HighLimit
           lo == bits % LowLimit
           s == [i \in 1 .. z |-> 0]
           p == Padded(m)
<1>1. l \in Nat /\ LengthPlace \in Nat /\ z \in Nat
  BY DEF LengthPlace
<1>2. c.low \in 0 .. LowLimit - 1 /\ c.high \in 0 .. HighLimit - 1
      /\ bits = LowLimit * c.high + c.low
  BY DEF Counts
<1>3. lo = c.low /\ hi = c.high
  <2>1. lo = c.low /\ bits \div LowLimit = c.high
    <3> DEFINE h == c.high
               w == c.low
    <3>1. bits \in Int /\ h \in Int
      BY <1>1, <1>2
    <3>2. w \in 0 .. LowLimit - 1 /\ bits = LowLimit * h + w
      BY <1>2
    <3> HIDE DEF bits, h, w
    <3>3. bits % LowLimit = w /\ bits \div LowLimit = h
      BY <3>1, <3>2, ModIs
    <3> QED BY <3>3 DEF h, w
  <2>2. c.high = HighLimit * 0 + c.high
    BY <1>2
  <2>3. c.high % HighLimit = c.high /\ c.high \div HighLimit = 0
    <3>1. 0 \in Int /\ c.high \in Int
      BY <1>2
    <3> QED BY <1>2, <2>2, <3>1, ModIs, Zenon
  <2> QED BY <2>1, <2>3
<1>4. p = m \o <<128>> \o s \o <<hi, lo>>
  BY DEF Padded
<1> HIDE DEF l, z, bits, hi, lo
<1>5. m \in Seq(ByteValues) /\ <<128>> \in Seq(ByteValues)
      /\ s \in Seq(ByteValues) /\ <<hi, lo>> \in Seq(ByteValues)
  <2>1. c.low \in Nat /\ c.high \in Nat
    BY FieldsOf
  <2>2. m \in Seq(ByteValues)
    BY DEF ByteValues
  <2>3. <<128>> \in Seq(ByteValues)
    BY DEF ByteValues
  <2>4. s \in Seq(ByteValues)
    BY <1>1 DEF ByteValues
  <2>5. hi \in ByteValues /\ lo \in ByteValues
    BY <1>3, <2>1 DEF ByteValues
  <2> QED BY <2>2, <2>3, <2>4, <2>5
<1>6. Len(s) = z /\ \A j \in 1 .. z : s[j] = 0
  BY <1>1
<1> HIDE DEF s, p
<1> DEFINE a == m \o <<128>>
           b == a \o s
<1>7. /\ a \in Seq(ByteValues) /\ Len(a) = l + 1 /\ a[l + 1] = 128
      /\ \A j \in 1 .. l : a[j] = m[j]
  BY <1>1, <1>5 DEF l
<1>8. p = b \o <<hi, lo>>
  BY <1>4
<1> HIDE DEF a
<1>9. /\ b \in Seq(ByteValues) /\ Len(b) = l + 1 + z
      /\ \A j \in 1 .. l + 1 : b[j] = a[j]
      /\ \A j \in l + 2 .. l + 1 + z : b[j] = 0
  <2>1. /\ b \in Seq(ByteValues) /\ Len(b) = l + 1 + z
        /\ \A j \in 1 .. l + 1 : b[j] = a[j]
        /\ \A j \in 1 .. z : b[l + 1 + j] = s[j]
    <3>1. /\ b \in Seq(ByteValues) /\ Len(b) = Len(a) + Len(s)
          /\ \A j \in 1 .. Len(a) : b[j] = a[j]
          /\ \A j \in 1 .. Len(s) : b[Len(a) + j] = s[j]
      BY <1>5, <1>7
    <3> HIDE DEF b
    <3> QED BY <1>6, <1>7, <3>1
  <2>2. ASSUME NEW j \in l + 2 .. l + 1 + z PROVE b[j] = 0
    <3>1. j - (l + 1) \in 1 .. z /\ l + 1 + (j - (l + 1)) = j
      BY <1>1
    <3> HIDE DEF b
    <3>2. b[l + 1 + (j - (l + 1))] = s[j - (l + 1)]
      BY <2>1, <3>1
    <3> QED BY <1>6, <3>1, <3>2
  <2> QED BY <2>1, <2>2
<1> HIDE DEF b
<1>10. /\ p \in Seq(ByteValues) /\ Len(p) = l + 1 + z + 2
       /\ \A j \in 1 .. l + 1 + z : p[j] = b[j]
       /\ p[l + 1 + z + 1] = hi /\ p[l + 1 + z + 2] = lo
  BY <1>1, <1>5, <1>8, <1>9
<1>11. /\ \A j \in 1 .. l : j \in 1 .. l + 1 /\ j \in 1 .. l + 1 + z
       /\ l + 1 \in 1 .. l + 1 /\ l + 1 \in 1 .. l + 1 + z
       /\ \A j \in l + 2 .. l + 1 + z : j \in 1 .. l + 1 + z
  BY <1>1
<1>12. /\ z \in Nat /\ p \in Seq(ByteValues) /\ Len(p) = l + 1 + z + 2
       /\ \A j \in 1 .. l : p[j] = m[j]
       /\ p[l + 1] = 128
       /\ \A j \in l + 2 .. l + 1 + z : p[j] = 0
       /\ p[l + 1 + z + 1] = c.high /\ p[l + 1 + z + 2] = c.low
  BY <1>1, <1>3, <1>7, <1>9, <1>10, <1>11
<1> QED BY <1>12 DEF l, z, p

\* The padding fills the blocks as the standard has them.
LEMMA PadSound ==
  ASSUME NEW c, NEW m \in Seq(Octets), Sound(c, m, Len(m)), c.corrupted = 0
  PROVE  LET d == PadMessage(c)
         IN  /\ d \in Contexts /\ SameLength(c, d) /\ d.hash = Blocks(m)
             /\ 8 * Len(m) < LowLimit * HighLimit
<1> DEFINE l == Len(m)
           z == (LengthPlace - 1 - l) % BlockSize
           p == Padded(m)
           q == Len(c.hash)
           i == c.index
           one == Stored(c, 128)
           whole == ZerosTo(one, BlockSize)
           fresh == ProcessMessageBlock(whole)
           padded == IF i > LengthPlace - 1 THEN ZerosTo(fresh, LengthPlace)
                     ELSE ZerosTo(one, LengthPlace)
           d == PadMessage(c)
<1>1. /\ c \in Contexts /\ i < BlockSize /\ Holds(c, m, l) /\ Counts(c, l)
      /\ l \in Nat /\ q \in Nat /\ i \in Nat
  <2>1. c \in Contexts /\ i < BlockSize /\ Holds(c, m, l) /\ Counts(c, l)
    BY DEF Sound
  <2> QED BY <2>1, FieldsOf
<1>2. LengthPlace \in Nat /\ LengthPlace + 2 = BlockSize /\ BlockSize \in Nat
  BY DEF LengthPlace
<1>3. d = ProcessMessageBlock([padded EXCEPT !.block[LengthPlace + 1] = c.high,
                                             !.block[LengthPlace + 2] = c.low])
  BY DEF PadMessage
<1>4. /\ z \in Nat /\ p \in Seq(ByteValues) /\ Len(p) = l + 1 + z + 2
      /\ \A j \in 1 .. l : p[j] = m[j]
      /\ p[l + 1] = 128
      /\ \A j \in l + 2 .. l + 1 + z : p[j] = 0
      /\ p[l + 1 + z + 1] = c.high /\ p[l + 1 + z + 2] = c.low
  BY <1>1, PaddedIs
<1>5. z = IF i > LengthPlace - 1 THEN BlockSize + (LengthPlace - 1 - i)
          ELSE LengthPlace - 1 - i
  <2> DEFINE x == LengthPlace - 1 - l
  <2>1. l = BlockSize * q + i
    BY <1>1 DEF Holds
  <2>2. BlockSize * (-q) = -(BlockSize * q)
        /\ BlockSize * (-q - 1) = -(BlockSize * q) - BlockSize
    BY <1>1, <1>2
  <2> DEFINE s == BlockSize * q
  <2>3. s \in Nat
    BY <1>1, <1>2
  <2> HIDE DEF l, i, q, s
  <2>4. x \in Int
    BY <1>1, <1>2
  <2>5. CASE i > LengthPlace - 1
    <3> DEFINE r == BlockSize + (LengthPlace - 1 - i)
               k == -q - 1
    <3>1. r \in 0 .. BlockSize - 1
      BY <1>1, <1>2, <2>5
    <3>2. x = BlockSize * k + r
      BY <1>1, <1>2, <2>1, <2>2, <2>3 DEF s
    <3>3. k \in Int
      BY <1>1
    <3> HIDE DEF r, k, x
    <3>4. x % BlockSize = r /\ x \div BlockSize = k
      BY <2>4, <3>1, <3>2, <3>3, ModIs
    <3> QED BY <2>5, <3>4 DEF r, x
  <2>6. CASE ~(i > LengthPlace - 1)
    <3> DEFINE r == LengthPlace - 1 - i
               k == -q
    <3>1. r \in 0 .. BlockSize - 1
      BY <1>1, <1>2, <2>6
    <3>2. x = BlockSize * k + r
      BY <1>1, <1>2, <2>1, <2>2, <2>3 DEF s
    <3>3. k \in Int
      BY <1>1
    <3> HIDE DEF r, k, x
    <3>4. x % BlockSize = r /\ x \div BlockSize = k
      BY <2>4, <3>1, <3>2, <3>3, ModIs
    <3> QED BY <2>6, <3>4 DEF r, x
  <2> QED BY <2>5, <2>6
<1> HIDE DEF z, p, q
<1>6. Holds(c, p, l)
  <2>1. Sound(c, p, l)
    BY <1>1, <1>4, SoundSame
  <2> QED BY <2>1 DEF Sound
<1>7. 128 \in ByteValues
  BY DEF ByteValues
<1>8. /\ one \in Contexts /\ SameLength(c, one) /\ one.index = i + 1
      /\ Holds(one, p, l + 1)
  <2>1. /\ one \in Contexts /\ SameLength(c, one) /\ one.index = i + 1
    BY <1>1, <1>7, StoredIs
  <2>2. Holds(one, p, l + 1)
    BY <1>1, <1>4, <1>6, <1>7, HoldsStored, Zenon
  <2> QED BY <2>1, <2>2
<1> HIDE DEF l, i, one
<1>9. /\ padded \in Contexts /\ SameLength(c, padded)
      /\ padded.index = LengthPlace /\ Holds(padded, p, l + 1 + z)
  <2>1. CASE i > LengthPlace - 1
    <3>1. /\ BlockSize \in i + 1 .. BlockSize
          /\ l + 1 \in Nat /\ l + 1 + (BlockSize - (i + 1)) <= l + 1 + z
          /\ l + 1 + (BlockSize - (i + 1)) \in Nat
      BY <1>1, <1>2, <1>5, <2>1
    <3>2. \A j \in l + 1 + 1 .. l + 1 + (BlockSize - (i + 1)) : p[j] = 0
      <4>1. \A j \in l + 1 + 1 .. l + 1 + (BlockSize - (i + 1)) :
              j \in l + 2 .. l + 1 + z
        BY <1>1, <1>4, <3>1
      <4> QED BY <1>4, <4>1
    <3>3. /\ whole \in Contexts /\ SameLength(one, whole)
          /\ whole.index = BlockSize
      BY <1>2, <1>8, ZerosIs
    <3>4. Holds(whole, p, l + 1 + (BlockSize - (i + 1)))
      BY <1>8, <3>1, <3>2, HoldsZeros
    <3> HIDE DEF whole
    <3>5. fresh \in Contexts /\ SameLength(whole, fresh) /\ fresh.index = 0
      BY <3>3, ProcessedIs
    <3> DEFINE n == l + 1 + (BlockSize - (i + 1))
    <3>6. Holds(fresh, p, n)
      BY <3>1, <3>3, <3>4, HoldsProcessed
    <3> HIDE DEF fresh
    <3>7. n \in Nat /\ LengthPlace \in 0 .. BlockSize
          /\ n + (LengthPlace - 0) = l + 1 + z
          /\ \A j \in n + 1 .. n + (LengthPlace - 0) : j \in l + 2 .. l + 1 + z
      BY <1>1, <1>2, <1>5, <2>1, <3>1
    <3>8. \A j \in n + 1 .. n + (LengthPlace - 0) : p[j] = 0
      BY <1>4, <3>7
    <3> HIDE DEF n
    <3>9. Holds(ZerosTo(fresh, LengthPlace), p, n + (LengthPlace - 0))
      BY <3>5, <3>6, <3>7, <3>8, HoldsZeros
    <3>10. /\ ZerosTo(fresh, LengthPlace) \in Contexts
           /\ SameLength(fresh, ZerosTo(fresh, LengthPlace))
           /\ ZerosTo(fresh, LengthPlace).index = LengthPlace
      BY <1>2, <3>5, ZerosIs
    <3>11. SameLength(c, ZerosTo(fresh, LengthPlace))
      BY <1>8, <3>3, <3>5, <3>10 DEF SameLength
    <3> QED BY <2>1, <3>7, <3>9, <3>10, <3>11
  <2>2. CASE ~(i > LengthPlace - 1)
    <3>1. /\ LengthPlace \in i + 1 .. BlockSize /\ l + 1 \in Nat
          /\ l + 1 + (LengthPlace - (i + 1)) = l + 1 + z
          /\ \A j \in l + 1 + 1 .. l + 1 + (LengthPlace - (i + 1)) :
               j \in l + 2 .. l + 1 + z
      BY <1>1, <1>2, <1>5, <2>2
    <3>2. \A j \in l + 1 + 1 .. l + 1 + (LengthPlace - (i + 1)) : p[j] = 0
      BY <1>4, <3>1
    <3>3. Holds(ZerosTo(one, LengthPlace), p, l + 1 + (LengthPlace - (i + 1)))
      BY <1>8, <3>1, <3>2, HoldsZeros
    <3>4. /\ ZerosTo(one, LengthPlace) \in Contexts
          /\ SameLength(one, ZerosTo(one, LengthPlace))
          /\ ZerosTo(one, LengthPlace).index = LengthPlace
      BY <1>2, <1>8, ZerosIs
    <3>5. SameLength(c, ZerosTo(one, LengthPlace))
      BY <1>8, <3>4 DEF SameLength
    <3> QED BY <2>2, <3>1, <3>3, <3>4, <3>5
  <2> QED BY <2>1, <2>2
<1> HIDE DEF padded
<1>10. /\ d \in Contexts /\ SameLength(padded, d) /\ d.index = 0
       /\ Holds(d, p, l + 1 + z + 2)
  <2>1. padded.high = c.high /\ padded.low = c.low /\ l + 1 + z \in Nat
    BY <1>1, <1>4, <1>9 DEF SameLength
  <2> DEFINE n == l + 1 + z
             e == ProcessMessageBlock(
                    [padded EXCEPT !.block[LengthPlace + 1] = padded.high,
                                   !.block[LengthPlace + 2] = padded.low])
  <2>2. n \in Nat /\ p[n + 1] = padded.high /\ p[n + 2] = padded.low
    BY <1>4, <2>1
  <2>3. Holds(padded, p, n)
    BY <1>9
  <2> HIDE DEF n
  <2>4. /\ e \in Contexts /\ SameLength(padded, e) /\ e.index = 0
        /\ Holds(e, p, n + 2)
    BY <1>9, <2>2, <2>3, HoldsLength, Zenon
  <2>5. d = e
    BY <1>3, <2>1
  <2> HIDE DEF e
  <2> QED BY <2>4, <2>5 DEF n
<1> HIDE DEF d
<1>11. d.hash = Blocks(m)
  <2>1. d.hash = [k \in 1 .. (Len(p) \div BlockSize) |->
                    SubSeq(p, (k - 1) * BlockSize + 1, k * BlockSize)]
    BY <1>4, <1>10, HoldsWhole
  <2> QED BY <2>1 DEF Blocks, p
<1>12. SameLength(c, d)
  BY <1>9, <1>10 DEF SameLength
<1>13. 8 * l < LowLimit * HighLimit
  <2>1. /\ 8 * l = LowLimit * c.high + c.low
        /\ c.low \in 0 .. LowLimit - 1 /\ c.high \in 0 .. HighLimit - 1
    BY <1>1 DEF Counts
  <2> DEFINE h == c.high
  <2>2. LowLimit * h + LowLimit <= LowLimit * HighLimit
    <3>1. h \in Nat /\ h + 1 <= HighLimit
      BY <2>1
    <3> HIDE DEF h
    <3>2. LowLimit * (h + 1) <= LowLimit * HighLimit
      BY <3>1
    <3> QED BY <3>1, <3>2
  <2> QED BY <1>1, <2>1, <2>2
<1> QED BY <1>10, <1>11, <1>12, <1>13 DEF d, l

DigestInv ==
  /\ context \in Contexts /\ message \in Seq(Octets)
  /\ ~context.computed => Sound(context, message, Len(message))
  /\ DigestOfWhole

\* Nothing has been given to a context that is reset.
LEMMA FreshSound ==
  ASSUME NEW c \in Contexts
  PROVE  LET d == Fresh(c)
         IN  Sound(d, <<>>, Len(<<>>)) /\ ~d.computed
<1> DEFINE d == Fresh(c)
<1>1. /\ d \in Contexts /\ ~d.computed /\ d.corrupted = 0 /\ d.index = 0
      /\ d.low = 0 /\ d.high = 0 /\ d.hash = <<>>
  <2>1. c.block \in BlockValues /\ <<>> \in Seq(BlockValues)
    BY FieldsOf
  <2>2. d = [c EXCEPT !.low = 0, !.high = 0, !.index = 0, !.hash = <<>>,
                      !.computed = FALSE, !.corrupted = 0]
    BY DEF Fresh
  <2> HIDE DEF d
  <2> QED BY <2>1, <2>2 DEF Contexts
<1> HIDE DEF d
<1>2. Len(<<>>) = 0 /\ BlockSize * 0 = 0 /\ LowLimit * 0 = 0
  OBVIOUS
<1>3. Holds(d, <<>>, 0)
  BY <1>1, <1>2 DEF Holds
<1>4. Counts(d, 0)
  BY <1>1, <1>2 DEF Counts
<1>5. Sound(d, <<>>, Len(<<>>))
  BY <1>1, <1>2, <1>3, <1>4 DEF Sound
<1> QED BY <1>1, <1>5 DEF d

LEMMA DigestInvNext == DigestInv /\ [DigestNext]_digestVars => DigestInv'
<1> SUFFICES ASSUME DigestInv, [DigestNext]_digestVars PROVE DigestInv'
  OBVIOUS
<1>0. /\ context \in Contexts /\ message \in Seq(Octets)
      /\ ~context.computed => Sound(context, message, Len(message))
      /\ DigestOfWhole
  BY DEF DigestInv
<1>1. CASE UNCHANGED digestVars
  BY <1>0, <1>1 DEF digestVars, DigestInv, DigestOfWhole
<1>2. CASE SHA1Reset
  <2>1. context' = Fresh(context) /\ message' = <<>>
    BY <1>2 DEF SHA1Reset
  <2>2. Sound(context', <<>>, Len(<<>>)) /\ ~context'.computed
    BY <1>0, <2>1, FreshSound
  <2>3. <<>> \in Seq(Octets)
    OBVIOUS
  <2> QED BY <2>1, <2>2, <2>3 DEF DigestInv, DigestOfWhole, Sound
<1>3. ASSUME NEW n \in Portions, NEW octets \in [1 .. n -> Octets],
             SHA1Input(octets)
      PROVE  DigestInv'
  <2>1. octets \in Seq(Octets)
    BY <1>3, DigestAssumption
  <2>2. message' = message \o octets /\ message' \in Seq(Octets)
    BY <1>0, <1>3, <2>1 DEF SHA1Input
  <2>3. CASE context.computed
    <3>1. context' = [context EXCEPT !.corrupted = shaStateError]
      BY <1>3, <2>3 DEF SHA1Input
    <3>2. context' \in Contexts /\ context'.computed /\ context'.corrupted # 0
      <4>1. shaStateError \in Nat /\ shaStateError # 0
        BY DEF shaStateError
      <4>2. context' \in Contexts
        BY <1>0, <3>1, <4>1 DEF Contexts
      <4>3. context'.computed = context.computed
            /\ context'.corrupted = shaStateError
        BY <1>0, <3>1 DEF Contexts
      <4> QED BY <2>3, <4>1, <4>2, <4>3
    <3> QED BY <2>2, <3>2 DEF DigestInv, DigestOfWhole
  <2>4. CASE ~context.computed
    <3>1. context' = PortionTaken(context, octets)
      BY <1>3, <2>4 DEF SHA1Input
    <3>2. Sound(context', message', Len(message'))
      BY <1>0, <2>1, <2>2, <2>4, <3>1, PortionSound
    <3> QED BY <2>2, <3>2 DEF DigestInv, DigestOfWhole, Sound
  <2> QED BY <2>3, <2>4
<1>4. CASE SHA1Result
  <2> DEFINE c == PadMessage(context)
             d == [c EXCEPT !.block = [i \in 1 .. BlockSize |-> 0],
                            !.low = 0, !.high = 0, !.computed = TRUE]
  <2>1. message' = message
    BY <1>4 DEF SHA1Result
  <2>2. CASE context.corrupted # 0 \/ context.computed
    <3>1. context' = context
      BY <1>4, <2>2 DEF SHA1Result
    <3> QED BY <1>0, <2>1, <3>1 DEF DigestInv, DigestOfWhole
  <2>3. CASE context.corrupted = 0 /\ ~context.computed
    <3>1. context' = d
      BY <1>4, <2>3 DEF SHA1Result
    <3>2. c \in Contexts /\ c.hash = Blocks(message)
          /\ 8 * Len(message) < LowLimit * HighLimit
      BY <1>0, <2>3, PadSound
    <3> HIDE DEF c
    <3>3. [i \in 1 .. BlockSize |-> 0] \in BlockValues
      BY DEF BlockValues, ByteValues
    <3>4. d \in Contexts /\ d.computed /\ d.hash = c.hash
      BY <3>2, <3>3 DEF Contexts
    <3> HIDE DEF d
    <3> QED BY <1>0, <2>1, <3>1, <3>2, <3>4 DEF DigestInv, DigestOfWhole
  <2> QED BY <2>2, <2>3
<1> QED BY <1>1, <1>2, <1>3, <1>4 DEF DigestNext

(* However a message is divided into calls, and however often its digest is   *)
(* asked for, the blocks that the digest is made of are those of the message  *)
(* padded by the standard, unless an error was noted: for all sizes of blocks *)
(* and of the words of the length.  SHA1Input and SHA1Result, sha1.c.         *)
THEOREM DigestsWhole == DigestSpec => []DigestOfWhole
<1>1. DigestInit => DigestInv
  <2> SUFFICES ASSUME DigestInit PROVE DigestInv
    OBVIOUS
  <2> DEFINE b == [i \in 1 .. BlockSize |-> 255]
             c == [block |-> b, index |-> 0, low |-> 0, high |-> 0,
                   hash |-> <<>>, computed |-> FALSE, corrupted |-> 0]
  <2>1. context = Fresh(c) /\ message = <<>>
    BY DEF DigestInit
  <2>2. c \in Contexts
    <3>1. b \in BlockValues
      BY DEF BlockValues, ByteValues
    <3> HIDE DEF b
    <3> QED BY <3>1 DEF Contexts
  <2> HIDE DEF c
  <2>3. Sound(context, <<>>, Len(<<>>)) /\ ~context.computed
    BY <2>1, <2>2, FreshSound
  <2>4. <<>> \in Seq(Octets)
    OBVIOUS
  <2> QED BY <2>1, <2>3, <2>4 DEF DigestInv, DigestOfWhole, Sound
<1>2. DigestInv => DigestOfWhole
  BY DEF DigestInv
<1> QED BY <1>1, <1>2, DigestInvNext, PTL DEF DigestSpec

=============================================================================
