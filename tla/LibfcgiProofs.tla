---------------------------- MODULE LibfcgiProofs ----------------------------
(***************************************************************************)
(* Proofs about libfcgi, the library of the FastCGI applications:           *)
(*                                                                          *)
(*  - AppProcess: for any number of processes, clients, requests and        *)
(*    signals, a process told to shut down accepts one more connection at   *)
(*    most, and a socket file left behind keeps no process from starting;   *)
(*  - AsyncIo: for any descriptors and any number of operations, an         *)
(*    operation's callback is called once, never behind its cancelling;     *)
(*  - FcgiLibrary: for all buffer sizes, requests and answers, wherever     *)
(*    reads cut what the web server sends and whatever it fails to take,    *)
(*    the records an application writes hold its answer, in order and       *)
(*    whole; what it reads is the request that was sent; and a kept         *)
(*    connection is left where that request ends;                           *)
(*  - Printf: for any formats and arguments, what is printed is counted,    *)
(*    each conversion takes its own arguments, and none writes past its     *)
(*    buffer, but for a field or a long double that the bound does not      *)
(*    cover.                                                                *)
(***************************************************************************)
EXTENDS AppProcess, AsyncIo, FcgiLibrary, Printf, FiniteSetTheorems,
        SequenceTheorems, WellFoundedInduction, TLAPS

-----------------------------------------------------------------------------
(* AppProcess.                                                              *)

Places == {"off", "bind", "listen", "install", "cgi", "lock", "waitlock",
           "test", "call", "blocked", "got", "keeper", "open", "serve",
           "exit", "over", "failed"}

\* The part of the types that the proofs use.
Types ==
  /\ mode \in {"path", "stdin", "cgi"}
  /\ pc \in [Processes -> Places]
  /\ pending \in [Processes -> BOOLEAN]
  /\ late \in [Processes -> Nat]
  /\ alone \in Processes \cup {None}

-----------------------------------------------------------------------------
(* Connections after the signal to shut down.                               *)

\* A process that was told to shut down counts its connections from then on.
\* If it stands before accept(), or in it, the signal has found it there, and
\* none has been counted yet: Test lets no process that was told past it.
CountedFrom(p) ==
  /\ ~pending[p] => late[p] = 0
  /\ pc[p] \in {"call", "blocked"} => late[p] = 0
  /\ late[p] <= 1

IInv == Types /\ \A p \in Processes : CountedFrom(p)

LEMMA InitInvariant == Init => IInv
BY SMT DEF Init, IInv, Types, Places, CountedFrom

\* The steps of serv_unix_socket(), and those that leave OS_Accept() alone.
LEMMA StartPreserves ==
  ASSUME IInv, NEW p \in Processes,
         \/ Unlink(p) \/ Bind(p) \/ Listen(p) \/ Install(p) \/ Cgi(p)
  PROVE  IInv'
<1> USE DEF IInv, Types, Places, CountedFrom, At, setting, told, process,
            listener, peers
<1>1. CASE Unlink(p)
  BY <1>1 DEF Unlink
<1>2. CASE Bind(p)
  BY <1>2 DEF Bind
<1>3. CASE Listen(p)
  BY <1>3 DEF Listen
<1>4. CASE Install(p)
  BY <1>4 DEF Install
<1>5. CASE Cgi(p)
  BY <1>5 DEF Cgi
<1> QED
  BY <1>1, <1>2, <1>3, <1>4, <1>5

\* OS_Accept() and what follows it.
LEMMA AcceptPreserves ==
  ASSUME IInv, NEW p \in Processes,
         \/ AcquireLock(p) \/ Test(p) \/ Blocks(p) \/ Accept(p) \/ Aborted(p)
         \/ CheckAddress(p) \/ Unlock(p) \/ Keeper(p)
  PROVE  IInv'
<1> USE DEF IInv, Types, Places, CountedFrom, At, setting, told, process,
            listener, peers
<1>1. CASE AcquireLock(p)
  BY <1>1 DEF AcquireLock
<1>2. CASE Test(p)
  BY <1>2 DEF Test
<1>3. CASE Blocks(p)
  BY <1>3 DEF Blocks
<1>4. CASE Accept(p)
  BY <1>4 DEF Accept
<1>5. CASE Aborted(p)
  BY <1>5 DEF Aborted
<1>6. CASE CheckAddress(p)
  BY <1>6 DEF CheckAddress
<1>7. CASE Unlock(p)
  BY <1>7 DEF Unlock
<1>8. CASE Keeper(p)
  BY <1>8 DEF Keeper
<1> QED
  BY <1>1, <1>2, <1>3, <1>4, <1>5, <1>6, <1>7, <1>8

\* The requests, the ways a process ends, and the signal to shut down.
LEMMA EndPreserves ==
  ASSUME IInv, NEW p \in Processes,
         \/ ReadRequest(p) \/ Answer(p) \/ Exit(p) \/ Terminate(p) \/ Crash(p)
         \/ ShutDown(p)
  PROVE  IInv'
<1> USE DEF IInv, Types, Places, CountedFrom, At, setting, told, process,
            listener, peers
<1>1. CASE ReadRequest(p)
  BY <1>1 DEF ReadRequest
<1>2. CASE Answer(p)
  BY <1>2 DEF Answer
<1>3. CASE Exit(p)
  BY <1>3 DEF Exit, Gone
<1>4. CASE Terminate(p)
  BY <1>4 DEF Terminate, Gone
<1>5. CASE Crash(p)
  BY <1>5 DEF Crash, Gone
<1>6. CASE ShutDown(p)
  BY <1>6 DEF ShutDown, Interrupted
<1> QED
  BY <1>1, <1>2, <1>3, <1>4, <1>5, <1>6

LEMMA ClientPreserves ==
  ASSUME IInv, NEW c \in Clients, ClientStep(c)
  PROVE  IInv'
BY DEF IInv, Types, CountedFrom, ClientStep, Connect, Send, Leave, setting,
       told, process

LEMMA Invariance == Spec => []IInv
<1>1. Init => IInv
  BY InitInvariant
<1>2. IInv /\ [Next]_vars => IInv'
  <2> SUFFICES ASSUME IInv, [Next]_vars
               PROVE  IInv'
    OBVIOUS
  <2>1. CASE Next
    BY <2>1, StartPreserves, AcceptPreserves, EndPreserves, ClientPreserves
    DEF Next, Step
  <2>2. CASE UNCHANGED vars
    BY <2>2 DEF vars, setting, told, process, IInv, Types, CountedFrom
  <2> QED
    BY <2>1, <2>2
<1> QED
  BY <1>1, <1>2, PTL DEF Spec

\* A process that was told to shut down (SIGUSR1) accepts one connection at
\* most after that, however the signal falls between shutdownPending and
\* accept(): AtMostOneMore, for any number of processes and signals.
THEOREM OneMoreAtMost == Spec => []AtMostOneMore
<1>1. IInv => AtMostOneMore
  BY DEF IInv, CountedFrom, AtMostOneMore
<1> QED
  BY <1>1, Invariance, PTL
-----------------------------------------------------------------------------
(* The socket file.                                                         *)

\* A process that started while no other ran, and has been the only one to
\* start since, finds no file when it comes to bind(), and its own from then on
\* until it ends; nobody else runs who could remove it.
Solo ==
  alone # None =>
    /\ mode = "path"
    /\ Alive \subseteq {alone}
    /\ pc[alone] \notin {"off", "failed"}
    /\ pc[alone] = "bind" => file = None
    /\ pc[alone] \notin Ended \cup {"bind"} => file = alone

LEMMA StartKeepsSolo ==
  ASSUME Types, Solo, NEW p \in Processes,
         \/ Unlink(p) \/ Bind(p) \/ Listen(p) \/ Install(p) \/ Cgi(p)
  PROVE  Solo'
<1> USE DEF Types, Places, Solo, Alive, Ended, At, setting, told, process,
            listener, peers
<1>1. CASE Unlink(p)
  BY <1>1 DEF Unlink
<1>2. CASE Bind(p)
  BY <1>2 DEF Bind
<1>3. CASE Listen(p)
  BY <1>3 DEF Listen
<1>4. CASE Install(p)
  BY <1>4 DEF Install
<1>5. CASE Cgi(p)
  BY <1>5 DEF Cgi
<1> QED
  BY <1>1, <1>2, <1>3, <1>4, <1>5

LEMMA AcceptKeepsSolo ==
  ASSUME Types, Solo, NEW p \in Processes,
         \/ AcquireLock(p) \/ Test(p) \/ Blocks(p) \/ Accept(p) \/ Aborted(p)
         \/ CheckAddress(p) \/ Unlock(p) \/ Keeper(p)
  PROVE  Solo'
<1> USE DEF Types, Places, Solo, Alive, Ended, At, setting, told, process,
            listener, peers
<1>1. CASE AcquireLock(p)
  BY <1>1 DEF AcquireLock
<1>2. CASE Test(p)
  BY <1>2 DEF Test
<1>3. CASE Blocks(p)
  BY <1>3 DEF Blocks
<1>4. CASE Accept(p)
  BY <1>4 DEF Accept
<1>5. CASE Aborted(p)
  BY <1>5 DEF Aborted
<1>6. CASE CheckAddress(p)
  BY <1>6 DEF CheckAddress
<1>7. CASE Unlock(p)
  BY <1>7 DEF Unlock
<1>8. CASE Keeper(p)
  BY <1>8 DEF Keeper
<1> QED
  BY <1>1, <1>2, <1>3, <1>4, <1>5, <1>6, <1>7, <1>8

\* Whoever ends takes the file with it at most when it ran alone, and then it
\* runs no more.
LEMMA EndKeepsSolo ==
  ASSUME Types, Solo, NEW p \in Processes,
         \/ ReadRequest(p) \/ Answer(p) \/ Exit(p) \/ Terminate(p) \/ Crash(p)
         \/ ShutDown(p)
  PROVE  Solo'
<1> USE DEF Types, Places, Solo, Alive, Ended, At, setting, told, process,
            listener, peers
<1>1. CASE ReadRequest(p)
  BY <1>1 DEF ReadRequest
<1>2. CASE Answer(p)
  BY <1>2 DEF Answer
<1>3. CASE Exit(p)
  BY <1>3 DEF Exit, Gone
<1>4. CASE Terminate(p)
  BY <1>4 DEF Terminate, Gone, Signal
<1>5. CASE Crash(p)
  BY <1>5 DEF Crash, Gone, Signal
<1>6. CASE ShutDown(p)
  BY <1>6 DEF ShutDown, Interrupted, Signal
<1> QED
  BY <1>1, <1>2, <1>3, <1>4, <1>5, <1>6

LEMMA ClientKeepsSolo ==
  ASSUME Types, Solo, NEW c \in Clients, ClientStep(c)
  PROVE  Solo'
BY DEF Types, Solo, Alive, ClientStep, Connect, Send, Leave, setting, told,
       process, listener

\* A process that starts while no other runs gets its socket whatever stands at
\* the path, be it left by a crash, and the path leads to it while it runs
\* alone: Restartable, for any number of processes, signals and crashes.
THEOREM StartsAgain == Spec => []Restartable
<1>1. Init => Solo
  BY DEF Init, Solo
<1>2. IInv /\ Solo /\ [Next]_vars => Solo'
  <2> SUFFICES ASSUME Types, Solo, [Next]_vars
               PROVE  Solo'
    BY DEF IInv
  <2>1. CASE Next
    BY <2>1, StartKeepsSolo, AcceptKeepsSolo, EndKeepsSolo, ClientKeepsSolo
    DEF Next, Step
  <2>2. CASE UNCHANGED vars
    BY <2>2 DEF vars, setting, told, process, listener, Solo, Alive
  <2> QED
    BY <2>1, <2>2
<1>3. Solo => Restartable
  BY DEF Solo, Restartable, Listens, Ended, Before
<1> QED
  BY <1>1, <1>2, <1>3, Invariance, PTL DEF Spec

-----------------------------------------------------------------------------
(* AsyncIo.                                                                 *)

AllPlaces == 0 .. LastPlace

AsyncTypes ==
  /\ size \in Nat /\ FirstSize <= size
  /\ table \in [AllPlaces -> 0 .. MaxOperations]
  /\ armed \subseteq AllPlaces /\ posted \subseteq AllPlaces
  /\ numRd \in Int /\ numWr \in Int /\ maxFd \in Int /\ place \in Int
  /\ started \in 0 .. MaxOperations
  /\ calls \in [1 .. MaxOperations -> Nat]
  /\ cancelled \subseteq 1 .. started /\ dropped \in Nat
  /\ place >= -1 /\ inCall \in BOOLEAN /\ (inCall => place # -1)

\* An operation in the table waits, in one place, and select() is asked for it
\* or has reported it; one that waits is in the table.
Placed ==
  /\ \A ix \in AllPlaces : table[ix] # 0 =>
       /\ ix < size /\ ix <= WrIx(maxFd) /\ ix \in armed \cup posted
       /\ table[ix] \in Waiting
  /\ \A i, j \in AllPlaces : table[i] # 0 /\ table[i] = table[j] => i = j
  /\ \A op \in Waiting : \E ix \in AllPlaces : table[ix] = op

Called ==
  /\ \A op \in 1 .. MaxOperations :
       calls[op] <= 1 /\ (op > started => calls[op] = 0)
  /\ \A op \in cancelled : calls[op] = 0

Reads(places) == {ix \in places : IsRead(ix)}
Writes(places) == {ix \in places : ~IsRead(ix)}

\* As long as no posted operation was cancelled: what is asked for or posted is
\* in use, what is posted is counted and still ahead of OS_DoIo.
Undropped ==
  /\ armed \cap posted = {}
  /\ \A ix \in armed \cup posted : table[ix] # 0
  /\ numRd = Cardinality(Reads(posted)) /\ numWr = Cardinality(Writes(posted))
  /\ place = -1 => posted = {}
  /\ \A ix \in posted : place <= ix /\ (inCall => place < ix)

AsyncInv ==
  /\ AsyncTypes /\ Placed /\ Called
  /\ dropped = 0 => Undropped

\* The places of a descriptor.
LEMMA PlacesOf ==
  ASSUME NEW fd \in Descriptors
  PROVE  /\ fd \in Nat /\ LastPlace \in Nat
         /\ RdIx(fd) \in AllPlaces /\ WrIx(fd) \in AllPlaces
<1> DEFINE m == CHOOSE d \in Descriptors : \A e \in Descriptors : e <= d
<1>1. m \in Descriptors /\ \A e \in Descriptors : e <= m
  BY AsyncAssumption
<1>2. LastPlace = 2 * m + 1
  BY DEF LastPlace
<1> HIDE DEF m
<1>3. m \in Nat /\ fd \in Nat /\ fd <= m
  BY <1>1, AsyncAssumption
<1> QED BY <1>2, <1>3 DEF RdIx, WrIx, AllPlaces

LEMMA LastPlaceIs == LastPlace \in Nat /\ IsFiniteSet(AllPlaces)
<1>1. \E d \in Descriptors : TRUE
  BY AsyncAssumption
<1>2. LastPlace \in Nat
  BY <1>1, PlacesOf
<1> QED BY <1>2, FS_Interval DEF AllPlaces

\* The table grows as far as it must.
LEMMA GrownIs ==
  ASSUME AsyncTypes, NEW ix \in AllPlaces
  PROVE  Grown(ix) \in Nat /\ ix < Grown(ix) /\ size <= Grown(ix)
<1> DEFINE S == {size * k : k \in Doublings}
           OK(s) == s > ix /\ (s > size => s \div 2 <= ix)
<1>1. /\ size \in Nat /\ FirstSize \in Nat /\ FirstSize <= size
      /\ ix \in Nat /\ ix < 128 * FirstSize
  BY LastPlaceIs, AsyncAssumption DEF AsyncTypes, AllPlaces
<1>2. ix < 128 * size
  BY <1>1
<1>3. \E k \in Doublings : OK(size * k)
  <2>1. CASE ix < size
    BY <1>1, <2>1 DEF Doublings
  <2>2. ASSUME NEW k \in {1, 2, 4, 8, 16, 32, 64},
               size * k <= ix, ix < size * (2 * k)
        PROVE  OK(size * (2 * k)) /\ 2 * k \in Doublings
    BY <1>1, <2>2 DEF Doublings
  <2>3. \/ ix < size
        \/ size * 1 <= ix /\ ix < size * (2 * 1)
        \/ size * 2 <= ix /\ ix < size * (2 * 2)
        \/ size * 4 <= ix /\ ix < size * (2 * 4)
        \/ size * 8 <= ix /\ ix < size * (2 * 8)
        \/ size * 16 <= ix /\ ix < size * (2 * 16)
        \/ size * 32 <= ix /\ ix < size * (2 * 32)
        \/ size * 64 <= ix /\ ix < size * (2 * 64)
    BY <1>1, <1>2
  <2> HIDE DEF OK
  <2> QED BY <2>1, <2>2, <2>3
<1>4. Grown(ix) \in S /\ OK(Grown(ix))
  BY <1>3 DEF Grown
<1>5. \A s \in S : s \in Nat /\ size <= s
  BY <1>1 DEF Doublings
<1> QED BY <1>4, <1>5

LEMMA AsyncInvInit == AsyncInit => AsyncInv
<1> SUFFICES ASSUME AsyncInit PROVE AsyncInv
  OBVIOUS
<1>1. LastPlace \in Nat /\ FirstSize \in Nat /\ MaxOperations \in Nat
  BY LastPlaceIs, AsyncAssumption
<1>2. AsyncTypes
  <2>1. table \in [AllPlaces -> 0 .. MaxOperations]
    BY <1>1 DEF AsyncInit, AllPlaces
  <2>2. calls \in [1 .. MaxOperations -> Nat]
    BY <1>1 DEF AsyncInit
  <2>3. started \in 0 .. MaxOperations /\ cancelled \subseteq 1 .. started
    BY <1>1 DEF AsyncInit
  <2>4. inCall \in BOOLEAN /\ (inCall => place # -1)
    BY DEF AsyncInit
  <2>5. /\ size \in Nat /\ FirstSize <= size /\ dropped \in Nat
        /\ numRd \in Int /\ numWr \in Int /\ maxFd \in Int /\ place \in Int
        /\ place >= -1
    BY <1>1 DEF AsyncInit
  <2>6. armed \subseteq AllPlaces /\ posted \subseteq AllPlaces
    BY DEF AsyncInit
  <2> QED BY <2>1, <2>2, <2>3, <2>4, <2>5, <2>6 DEF AsyncTypes
<1>3. Placed /\ Called
  BY <1>1 DEF AsyncInit, Placed, Called, Waiting, AllPlaces
<1>4. Undropped
  BY FS_EmptySet DEF AsyncInit, Undropped, Reads, Writes
<1> QED BY <1>2, <1>3, <1>4 DEF AsyncInv

\* A set of places without one of them.
LEMMA OneLess ==
  ASSUME NEW S, IsFiniteSet(S), NEW x \in S
  PROVE  /\ Cardinality(Reads(S \ {x}))
              = Cardinality(Reads(S)) - (IF IsRead(x) THEN 1 ELSE 0)
         /\ Cardinality(Writes(S \ {x}))
              = Cardinality(Writes(S)) - (IF IsRead(x) THEN 0 ELSE 1)
<1>1. /\ IsFiniteSet(Reads(S)) /\ IsFiniteSet(Writes(S))
  BY FS_Subset DEF Reads, Writes
<1>2. CASE IsRead(x)
  <2>1. Reads(S \ {x}) = Reads(S) \ {x} /\ x \in Reads(S)
        /\ Writes(S \ {x}) = Writes(S)
    BY <1>2 DEF Reads, Writes
  <2>2. Cardinality(Reads(S \ {x})) = Cardinality(Reads(S)) - 1
    BY <1>1, <2>1, FS_RemoveElement
  <2> QED BY <1>1, <1>2, <2>1, <2>2, FS_CardinalityType
<1>3. CASE ~IsRead(x)
  <2>1. Writes(S \ {x}) = Writes(S) \ {x} /\ x \in Writes(S)
        /\ Reads(S \ {x}) = Reads(S)
    BY <1>3 DEF Reads, Writes
  <2>2. Cardinality(Writes(S \ {x})) = Cardinality(Writes(S)) - 1
    BY <1>1, <2>1, FS_RemoveElement
  <2> QED BY <1>1, <1>3, <2>1, <2>2, FS_CardinalityType
<1> QED BY <1>2, <1>3

\* What is posted is finite, and so is what is posted of a kind.
LEMMA PostedFinite ==
  ASSUME NEW S, S \subseteq AllPlaces
  PROVE  /\ IsFiniteSet(S)
         /\ Cardinality(Reads(S)) \in Nat /\ Cardinality(Writes(S)) \in Nat
<1>1. IsFiniteSet(S)
  BY LastPlaceIs, FS_Subset
<1>2. IsFiniteSet(Reads(S)) /\ IsFiniteSet(Writes(S))
  BY <1>1, FS_Subset DEF Reads, Writes
<1> QED BY <1>1, <1>2, FS_CardinalityType

LEMMA StartKeeps ==
  ASSUME AsyncInv, NEW fd \in Descriptors,
         NEW ix \in {RdIx(fd), WrIx(fd)}, Start(fd, ix)
  PROVE  AsyncInv'
<1> USE DEF AsyncInv
<1> DEFINE op == started + 1
<1>1. fd \in Nat /\ ix \in AllPlaces /\ ix <= WrIx(fd) /\ MaxOperations \in Nat
  BY PlacesOf, AsyncAssumption DEF RdIx, WrIx
<1>2. table[ix] = 0
  BY <1>1 DEF Start, InUse, Placed, AsyncTypes, AllPlaces
<1>3. op \in 1 .. MaxOperations /\ started' = op
      /\ op \notin cancelled /\ calls[op] = 0
  BY <1>1 DEF Start, AsyncTypes, Called
<1>4. /\ table' \in [AllPlaces -> 0 .. MaxOperations]
      /\ table'[ix] = op
      /\ \A i \in AllPlaces \ {ix} : table'[i] = table[i]
  BY <1>1, <1>3 DEF Start, AsyncTypes
<1>5. /\ size' \in Nat /\ ix < size' /\ size <= size'
  BY <1>1, GrownIs DEF Start
<1>6. /\ maxFd' \in Int /\ ix <= WrIx(maxFd') /\ WrIx(maxFd) <= WrIx(maxFd')
  BY <1>1 DEF Start, AsyncTypes, WrIx, RdIx
<1>7. Waiting' = Waiting \cup {op}
  BY <1>3 DEF Start, Waiting, AsyncTypes
<1>8. AsyncTypes'
  <2>1. started' \in 0 .. MaxOperations /\ cancelled' \subseteq 1 .. started'
    BY <1>1, <1>3 DEF Start, AsyncTypes
  <2>2. FirstSize <= size'
    BY <1>5, AsyncAssumption DEF AsyncTypes
  <2>3. armed' \subseteq AllPlaces /\ posted' \subseteq AllPlaces
    BY <1>1 DEF Start, AsyncTypes
  <2>4. UNCHANGED <<numRd, numWr, place, inCall, calls, dropped>>
    BY DEF Start
  <2> QED BY <1>4, <1>5, <1>6, <2>1, <2>2, <2>3, <2>4 DEF AsyncTypes
<1>9. \A i \in AllPlaces : table[i] # op
  BY <1>3 DEF Placed, Waiting, AsyncTypes
<1>10. Placed'
  <2>1. ASSUME NEW i \in AllPlaces, table'[i] # 0
        PROVE  /\ i < size' /\ i <= WrIx(maxFd') /\ i \in armed' \cup posted'
               /\ table'[i] \in Waiting'
    <3>1. CASE i = ix
      BY <1>4, <1>5, <1>6, <1>7, <3>1 DEF Start
    <3>2. CASE i # ix
      <4>1. i < size /\ i <= WrIx(maxFd) /\ i \in armed \cup posted
            /\ table[i] \in Waiting
        BY <1>4, <2>1, <3>2 DEF Placed
      <4> QED BY <1>1, <1>4, <1>5, <1>6, <1>7, <3>2, <4>1
           DEF Start, AsyncTypes, AllPlaces, WrIx
    <3> QED BY <3>1, <3>2
  <2>2. ASSUME NEW i \in AllPlaces, NEW j \in AllPlaces,
               table'[i] # 0, table'[i] = table'[j]
        PROVE  i = j
    BY <1>4, <1>9, <2>2 DEF Placed
  <2>3. \A o \in Waiting' : \E i \in AllPlaces : table'[i] = o
    BY <1>1, <1>2, <1>4, <1>7 DEF Placed, Waiting
  <2> QED BY <2>1, <2>2, <2>3 DEF Placed
<1>11. Called'
  BY <1>3 DEF Start, Called, AsyncTypes
<1>12. dropped' = 0 => Undropped'
  BY <1>1, <1>2, <1>3, <1>4 DEF Start, Undropped, AsyncTypes
<1> QED BY <1>8, <1>10, <1>11, <1>12

\* The operations in some places, and the table without them.
Among(places) == {table[ix] : ix \in {p \in places : table[p] # 0}}
Without(places) ==
  [ix \in AllPlaces |-> IF ix \in places THEN 0 ELSE table[ix]]

LEMMA PlacesCleared ==
  ASSUME AsyncTypes, Placed, NEW P, table' = Without(P), UNCHANGED size,
         MaxOperations \in Nat,
         \A ix \in AllPlaces \ P : table[ix] # 0 =>
           ix <= WrIx(maxFd') /\ ix \in armed' \cup posted',
         P \subseteq AllPlaces, Waiting' = Waiting \ Among(P)
  PROVE  Placed' /\ table' \in [AllPlaces -> 0 .. MaxOperations]
<1>1. /\ table' \in [AllPlaces -> 0 .. MaxOperations]
      /\ \A ix \in AllPlaces : table'[ix] = IF ix \in P THEN 0 ELSE table[ix]
  BY DEF AsyncTypes, Without
<1>2. ASSUME NEW ix \in AllPlaces, table'[ix] # 0
      PROVE  /\ ix < size' /\ ix <= WrIx(maxFd') /\ ix \in armed' \cup posted'
             /\ table'[ix] \in Waiting'
  <2>1. ix \notin P /\ table'[ix] = table[ix] /\ table[ix] # 0
    BY <1>1, <1>2
  <2>2. table[ix] \notin Among(P)
    BY <2>1 DEF Among, Placed
  <2> QED BY <2>1, <2>2 DEF Placed
<1>3. \A i, j \in AllPlaces :
        table'[i] # 0 /\ table'[i] = table'[j] => i = j
  BY <1>1 DEF Placed
<1>4. ASSUME NEW op \in Waiting'
      PROVE  \E ix \in AllPlaces : table'[ix] = op
  <2>1. PICK ix \in AllPlaces : table[ix] = op
    BY <1>4 DEF Placed
  <2>2. op # 0
    BY <1>4 DEF Waiting, AsyncTypes
  <2>3. ix \notin P
    BY <1>4, <2>1, <2>2 DEF Among
  <2> QED BY <1>1, <2>1, <2>3
<1> QED BY <1>1, <1>2, <1>3, <1>4 DEF Placed

LEMMA CloseKeeps ==
  ASSUME AsyncInv, NEW fd \in Descriptors, Close(fd)
  PROVE  AsyncInv'
<1> USE DEF AsyncInv
<1> DEFINE P == {RdIx(fd), WrIx(fd)}
<1>1. fd \in Nat /\ P \subseteq AllPlaces /\ MaxOperations \in Nat
      /\ AllPlaces \subseteq Nat
  BY PlacesOf, AsyncAssumption DEF AllPlaces
<1>2. /\ armed' = armed \ P /\ posted' = posted \ P
      /\ table' = [ix \in DOMAIN table |-> IF ix \in P THEN 0 ELSE table[ix]]
      /\ maxFd' = IF maxFd = fd THEN maxFd - 1 ELSE maxFd
      /\ cancelled' = cancelled \cup OperationsAt(P)
      /\ dropped' = dropped + Cardinality(posted \cap P)
      /\ UNCHANGED <<size, numRd, numWr, place, inCall, started, calls>>
  BY DEF Close
<1>3. \A ix \in P : table[ix] # 0 => ix < size
  BY <1>1 DEF Placed
<1>4. table' = Without(P)
  BY <1>1, <1>2 DEF AsyncTypes, Without
<1>5. OperationsAt(P) = Among(P)
  BY <1>3 DEF OperationsAt, Among, InUse
<1>6. Among(P) \subseteq Waiting
  <2> HIDE DEF P
  <2>1. \A ix \in P : table[ix] # 0 => table[ix] \in Waiting
    BY <1>1 DEF Placed
  <2> QED BY <2>1 DEF Among
<1>7. Waiting' = Waiting \ Among(P)
  BY <1>2, <1>5 DEF Waiting
<1>8. maxFd' \in Int
      /\ \A ix \in AllPlaces \ P : ix <= WrIx(maxFd) => ix <= WrIx(maxFd')
  BY <1>1, <1>2 DEF AsyncTypes, WrIx, RdIx
<1>9. Placed' /\ table' \in [AllPlaces -> 0 .. MaxOperations]
  <2>1. \A ix \in AllPlaces \ P : table[ix] # 0 =>
          ix <= WrIx(maxFd') /\ ix \in armed' \cup posted'
    BY <1>2, <1>8 DEF Placed
  <2> HIDE DEF P
  <2> QED BY <1>1, <1>2, <1>4, <1>7, <2>1, PlacesCleared
<1>10. IsFiniteSet(posted \cap P) /\ Cardinality(posted \cap P) \in Nat
  <2>1. posted \cap P \subseteq AllPlaces
    BY <1>1
  <2> QED BY <2>1, PostedFinite, FS_CardinalityType
<1>11. AsyncTypes'
  <2>1. armed' \subseteq AllPlaces /\ posted' \subseteq AllPlaces
        /\ dropped' \in Nat
    BY <1>2, <1>10 DEF AsyncTypes
  <2>2. cancelled' \subseteq 1 .. started'
    BY <1>2, <1>5, <1>6 DEF AsyncTypes, Waiting
  <2> QED BY <1>2, <1>8, <1>9, <2>1, <2>2 DEF AsyncTypes
<1>12. Called'
  BY <1>2, <1>5, <1>6 DEF Called, Waiting
<1>13. ASSUME dropped' = 0 PROVE Undropped'
  <2>1. dropped = 0 /\ Cardinality(posted \cap P) = 0
    BY <1>2, <1>10, <1>13 DEF AsyncTypes
  <2>2. posted \cap P = {}
    BY <1>10, <2>1, FS_EmptySet
  <2>3. posted' = posted
    BY <1>2, <2>2
  <2>4. \A ix \in armed' \cup posted' : ix \in AllPlaces /\ table'[ix] = table[ix]
    BY <1>2, <1>4, <2>2 DEF Without, AsyncTypes
  <2> QED BY <1>2, <2>1, <2>3, <2>4 DEF Undropped
<1> QED BY <1>9, <1>11, <1>12, <1>13

LEMMA CloseReadKeeps ==
  ASSUME AsyncInv, NEW fd \in Descriptors, CloseRead(fd)
  PROVE  AsyncInv'
<1> USE DEF AsyncInv
<1> DEFINE ix == RdIx(fd)
           P == {ix}
<1>1. ix \in AllPlaces /\ MaxOperations \in Nat /\ AllPlaces \subseteq Nat
  BY PlacesOf, AsyncAssumption DEF AllPlaces
<1>2. /\ table[ix] # 0
      /\ table' = [table EXCEPT ![ix] = 0]
      /\ armed' = armed \ {ix}
      /\ cancelled' = cancelled \cup {table[ix]}
      /\ dropped' = dropped + (IF ix \in posted THEN 1 ELSE 0)
      /\ UNCHANGED <<size, posted, numRd, numWr, maxFd, place, inCall, started,
                     calls>>
  BY DEF CloseRead, InUse
<1> HIDE DEF ix
<1>3. table' = Without(P)
  BY <1>1, <1>2 DEF AsyncTypes, Without
<1>4. Among(P) = {table[ix]} /\ table[ix] \in Waiting
  BY <1>1, <1>2 DEF Among, Placed
<1>5. Waiting' = Waiting \ Among(P)
  BY <1>2, <1>4 DEF Waiting
<1>6. Placed' /\ table' \in [AllPlaces -> 0 .. MaxOperations]
  <2>1. \A i \in AllPlaces \ P : table[i] # 0 =>
          i <= WrIx(maxFd') /\ i \in armed' \cup posted'
    BY <1>2 DEF Placed, WrIx
  <2>2. P \subseteq AllPlaces
    BY <1>1
  <2> HIDE DEF P
  <2> QED BY <1>1, <1>2, <1>3, <1>5, <2>1, <2>2, PlacesCleared
<1>7. AsyncTypes'
  <2>1. armed' \subseteq AllPlaces /\ dropped' \in Nat
    BY <1>2 DEF AsyncTypes
  <2>2. cancelled' \subseteq 1 .. started'
    BY <1>2, <1>4 DEF AsyncTypes, Waiting
  <2> QED BY <1>2, <1>6, <2>1, <2>2 DEF AsyncTypes
<1>8. Called'
  BY <1>2, <1>4 DEF Called, Waiting
<1>9. ASSUME dropped' = 0 PROVE Undropped'
  <2>1. dropped = 0 /\ ix \notin posted
    BY <1>2, <1>9 DEF AsyncTypes
  <2>2. \A i \in armed' \cup posted' : i \in AllPlaces /\ table'[i] = table[i]
    BY <1>2, <1>3, <2>1 DEF Without, AsyncTypes
  <2> QED BY <1>2, <2>1, <2>2 DEF Undropped
<1> QED BY <1>6, <1>7, <1>8, <1>9

LEMMA SelectKeeps ==
  ASSUME AsyncInv, NEW ready \in SUBSET Asked, Select(ready)
  PROVE  AsyncInv'
<1> USE DEF AsyncInv
<1>1. /\ place = -1 /\ ready \subseteq armed /\ inCall = FALSE
      /\ posted' = posted \cup ready /\ armed' = armed \ ready
      /\ numRd' = Cardinality(Reads(ready))
      /\ numWr' = Cardinality(Writes(ready))
      /\ place' = IF ready = {} THEN -1 ELSE 0
      /\ UNCHANGED <<size, table, maxFd, inCall, started, calls, cancelled,
                     dropped>>
  BY DEF Select, Asked, AsyncTypes, Reads, Writes
<1>2. Waiting' = Waiting
  BY <1>1 DEF Waiting
<1>3. Cardinality(Reads(ready)) \in Nat /\ Cardinality(Writes(ready)) \in Nat
  <2>1. ready \subseteq AllPlaces
    BY <1>1 DEF AsyncTypes
  <2> QED BY <2>1, PostedFinite
<1>4. AsyncTypes'
  <2>1. armed' \subseteq AllPlaces /\ posted' \subseteq AllPlaces
    BY <1>1 DEF AsyncTypes
  <2>2. inCall' = FALSE /\ place' \in Int /\ place' >= -1
    BY <1>1
  <2> QED BY <1>1, <1>3, <2>1, <2>2 DEF AsyncTypes
<1>5. Placed'
  BY <1>1, <1>2 DEF Placed, WrIx
<1>6. Called'
  BY <1>1 DEF Called
<1>7. ASSUME dropped' = 0 PROVE Undropped'
  <2>1. Undropped /\ posted = {}
    BY <1>1, <1>7 DEF Undropped
  <2>2. posted' = ready /\ armed' \cap posted' = {}
    BY <1>1, <2>1
  <2>3. \A ix \in armed' \cup posted' : table'[ix] # 0
    BY <1>1, <2>1 DEF Undropped
  <2>4. \A ix \in posted' : place' <= ix
    BY <1>1, <2>2 DEF AsyncTypes, AllPlaces
  <2>5. place' = -1 => posted' = {}
    BY <1>1, <2>2
  <2> QED BY <1>1, <2>2, <2>3, <2>4, <2>5 DEF Undropped
<1> QED BY <1>4, <1>5, <1>6, <1>7

LEMMA ResumeKeeps ==
  ASSUME AsyncInv, Resume
  PROVE  AsyncInv'
<1> USE DEF AsyncInv
<1>1. /\ place = -1 /\ place' = 0 /\ inCall = FALSE
      /\ UNCHANGED <<size, table, armed, posted, numRd, numWr, maxFd, inCall,
                     started, calls, cancelled, dropped>>
  BY DEF Resume, AsyncTypes
<1>2. AsyncTypes'
  BY <1>1 DEF AsyncTypes
<1>3. Placed' /\ Called'
  BY <1>1 DEF Placed, Called, Waiting, WrIx
<1>4. dropped' = 0 => Undropped'
  BY <1>1 DEF Undropped
<1> QED BY <1>2, <1>3, <1>4

LEMMA DispatchKeeps ==
  ASSUME AsyncInv, Dispatch
  PROVE  AsyncInv'
<1> USE DEF AsyncInv
<1> DEFINE P == {place}
           op == table[place]
<1>1. /\ place # -1 /\ place \in posted /\ op # 0
      /\ posted' = posted \ {place}
      /\ numRd' = numRd - (IF IsRead(place) THEN 1 ELSE 0)
      /\ numWr' = numWr - (IF IsRead(place) THEN 0 ELSE 1)
      /\ table' = [table EXCEPT ![place] = 0]
      /\ inCall' = TRUE
      /\ UNCHANGED <<size, armed, maxFd, place, started, cancelled, dropped>>
  BY DEF Dispatch, Due, InUse
<1>2. place \in AllPlaces /\ MaxOperations \in Nat /\ AllPlaces \subseteq Nat
  BY <1>1, LastPlaceIs, AsyncAssumption DEF AsyncTypes, AllPlaces
<1>3. op \in Waiting /\ op \in 1 .. MaxOperations
  BY <1>1, <1>2 DEF Placed, Waiting, AsyncTypes
<1>4. /\ calls' \in [1 .. MaxOperations -> Nat] /\ calls'[op] = 1
      /\ \A o \in (1 .. MaxOperations) \ {op} : calls'[o] = calls[o]
  <2>1. calls' = [o \in DOMAIN calls |->
                    IF o = op THEN calls[o] + 1 ELSE calls[o]]
    BY DEF Dispatch
  <2>2. calls[op] = 0
    BY <1>3 DEF Waiting
  <2> HIDE DEF op
  <2> QED BY <1>3, <2>1, <2>2 DEF AsyncTypes
<1>5. table' = Without(P)
  BY <1>1, <1>2 DEF AsyncTypes, Without
<1>6. Among(P) = {op}
  BY <1>1 DEF Among
<1>7. Waiting' = Waiting \ Among(P)
  <2>1. \A o \in 1 .. started : o \in 1 .. MaxOperations
    BY <1>2 DEF AsyncTypes
  <2> HIDE DEF P, op
  <2> QED BY <1>1, <1>3, <1>4, <1>6, <2>1 DEF Waiting
<1>8. Placed' /\ table' \in [AllPlaces -> 0 .. MaxOperations]
  <2>1. \A i \in AllPlaces \ P : table[i] # 0 =>
          i <= WrIx(maxFd') /\ i \in armed' \cup posted'
    BY <1>1 DEF Placed, WrIx
  <2>2. P \subseteq AllPlaces
    BY <1>2
  <2> HIDE DEF P
  <2> QED BY <1>1, <1>2, <1>5, <1>7, <2>1, <2>2, PlacesCleared
<1>9. AsyncTypes'
  <2>1. numRd' \in Int /\ numWr' \in Int /\ posted' \subseteq AllPlaces
    BY <1>1 DEF AsyncTypes
  <2> QED BY <1>1, <1>4, <1>8, <2>1 DEF AsyncTypes
<1>10. Called'
  <2>1. op \notin cancelled /\ op <= started
    BY <1>3 DEF Waiting, AsyncTypes
  <2>2. \A o \in cancelled : o \in (1 .. MaxOperations) \ {op}
    BY <1>2, <2>1 DEF AsyncTypes
  <2>3. started' = started /\ cancelled' = cancelled /\ ~(op > started)
    BY <1>1, <1>3, <2>1 DEF AsyncTypes
  <2> HIDE DEF op
  <2>4. \A o \in 1 .. MaxOperations :
          calls'[o] <= 1 /\ (o > started => calls'[o] = 0)
    BY <1>4, <2>3 DEF Called
  <2>5. \A o \in cancelled : calls'[o] = 0
    BY <1>4, <2>2 DEF Called
  <2> QED BY <2>3, <2>4, <2>5 DEF Called
<1>11. ASSUME dropped' = 0 PROVE Undropped'
  <2>1. Undropped
    BY <1>1, <1>11
  <2>2. numRd' = Cardinality(Reads(posted')) /\ numWr' = Cardinality(Writes(posted'))
    <3>1. IsFiniteSet(posted)
      BY PostedFinite DEF AsyncTypes
    <3> QED BY <1>1, <2>1, <3>1, OneLess DEF Undropped
  <2>3. \A i \in armed' \cup posted' : table'[i] # 0
    BY <1>1, <1>5, <2>1 DEF Undropped, Without, AsyncTypes
  <2>4. \A i \in posted' : place' < i
    BY <1>1, <1>2, <2>1 DEF Undropped, AsyncTypes
  <2> QED BY <1>1, <2>1, <2>2, <2>3, <2>4 DEF Undropped
<1> QED BY <1>8, <1>9, <1>10, <1>11

LEMMA AdvanceKeeps ==
  ASSUME AsyncInv, Advance
  PROVE  AsyncInv'
<1> USE DEF AsyncInv
<1>1. /\ place # -1 /\ inCall' = FALSE
      /\ inCall \/ place > WrIx(maxFd) \/ ~Due(place)
      /\ place' = IF place >= WrIx(maxFd) THEN -1 ELSE place + 1
      /\ UNCHANGED <<size, table, armed, posted, numRd, numWr, maxFd, started,
                     calls, cancelled, dropped>>
  BY DEF Advance
<1>2. maxFd \in Int /\ WrIx(maxFd) \in Int /\ place \in Nat
  BY <1>1 DEF AsyncTypes, WrIx
<1>3. AsyncTypes'
  <2>1. place' \in Int /\ place' >= -1 /\ inCall' = FALSE
    BY <1>1, <1>2
  <2> QED BY <1>1, <2>1 DEF AsyncTypes
<1>4. Placed' /\ Called'
  BY <1>1 DEF Placed, Called, Waiting, WrIx
<1>5. ASSUME dropped' = 0 PROVE Undropped'
  <2>1. Undropped
    BY <1>1, <1>5
  <2>2. ASSUME NEW ix \in posted
        PROVE  ix \in Nat /\ place < ix /\ ix <= WrIx(maxFd)
    <3>1. ix \in AllPlaces /\ ix \in Nat /\ table[ix] # 0
      BY <2>1 DEF Undropped, AsyncTypes, AllPlaces
    <3>2. ix < size /\ ix <= WrIx(maxFd)
      BY <3>1 DEF Placed
    <3>3. place # ix
      BY <1>1, <1>2, <2>1, <3>1, <3>2 DEF Undropped, Due, InUse
    <3> QED BY <1>2, <2>1, <3>1, <3>2, <3>3 DEF Undropped
  <2>3. place' = -1 => posted' = {}
    BY <1>1, <1>2, <2>2
  <2>4. \A ix \in posted' : place' <= ix
    BY <1>1, <1>2, <2>2
  <2> QED BY <1>1, <2>1, <2>3, <2>4 DEF Undropped
<1> QED BY <1>3, <1>4, <1>5

LEMMA AsyncInvNext ==
  AsyncInv /\ [AsyncNext]_asyncVars => AsyncInv'
<1> SUFFICES ASSUME AsyncInv, [AsyncNext]_asyncVars
             PROVE  AsyncInv'
  OBVIOUS
<1>1. CASE \E fd \in Descriptors :
             \/ Start(fd, RdIx(fd)) \/ Start(fd, WrIx(fd))
             \/ Close(fd) \/ CloseRead(fd)
  <2> PICK fd \in Descriptors :
        \/ Start(fd, RdIx(fd)) \/ Start(fd, WrIx(fd))
        \/ Close(fd) \/ CloseRead(fd)
    BY <1>1
  <2>1. RdIx(fd) \in {RdIx(fd), WrIx(fd)} /\ WrIx(fd) \in {RdIx(fd), WrIx(fd)}
    OBVIOUS
  <2> QED BY <2>1, StartKeeps, CloseKeeps, CloseReadKeeps
<1>2. CASE \E ready \in SUBSET Asked : Select(ready)
  BY <1>2, SelectKeeps
<1>3. CASE \/ \E fd \in Descriptors : CloseReadBehind(fd)
           \/ SelectFails \/ UNCHANGED asyncVars
  <2>1. UNCHANGED <<size, table, armed, posted, numRd, numWr, maxFd, place,
                    inCall, started, calls, cancelled, dropped>>
    BY <1>3 DEF CloseReadBehind, SelectFails, asyncVars
  <2>2. AsyncTypes' /\ Placed'
    BY <2>1 DEF AsyncInv, AsyncTypes, Placed, Waiting, WrIx
  <2> QED BY <2>1, <2>2 DEF AsyncInv, Called, Undropped
<1>4. CASE Resume \/ Dispatch \/ Advance
  BY <1>4, ResumeKeeps, DispatchKeeps, AdvanceKeeps
<1> QED BY <1>1, <1>2, <1>3, <1>4 DEF AsyncNext

LEMMA AsyncInvCalled == AsyncInv => CalledOnce
<1> SUFFICES ASSUME AsyncInv PROVE CalledOnce
  OBVIOUS
<1>1. ASSUME NEW op \in Waiting
      PROVE  \E ix \in Asked \cup posted :
               table[ix] = op /\ ix < size /\ ix <= WrIx(maxFd)
  <2>1. PICK ix \in AllPlaces : table[ix] = op
    BY DEF AsyncInv, Placed
  <2>2. op # 0
    BY DEF Waiting, AsyncInv, AsyncTypes
  <2> QED BY <2>1, <2>2 DEF AsyncInv, Placed, Asked
<1>2. ASSUME place = -1, dropped = 0
      PROVE  numRd = 0 /\ numWr = 0 /\ posted = {}
  BY <1>2, FS_EmptySet DEF AsyncInv, Undropped, Reads, Writes
<1> QED BY <1>1, <1>2 DEF CalledOnce, AsyncInv, Called

\* CalledOnce, for the descriptors select() takes and any number of operations:
\* OS_DoIo calls an operation's procedure once, and not when it was cancelled,
\* up to a close that overwrites memory behind the table (os_unix.c:732, :794).
THEOREM EachCalledOnce == AsyncSpec => []CalledOnce
<1>1. AsyncInit => AsyncInv
  BY AsyncInvInit
<1>2. AsyncInv /\ [AsyncNext]_asyncVars => AsyncInv'
  BY AsyncInvNext
<1>3. AsyncInv => CalledOnce
  BY AsyncInvCalled
<1> QED BY <1>1, <1>2, <1>3, PTL DEF AsyncSpec

-----------------------------------------------------------------------------
(* FcgiLibrary: induction over the natural numbers, by the least number for *)
(* which something fails, and over the elements of a sequence.              *)

Less == {p \in Nat \X Nat : p[1] < p[2]}

LEMMA LeastNumber ==
  ASSUME NEW T, T \subseteq Nat, T # {}
  PROVE  \E n \in T : \A m \in T : n <= m
<1>1. IsWellFoundedOn(Less, Nat)
  BY NatLessThanWellFounded DEF OpToRel, Less
<1>2. PICK n \in T : \A m \in T : <<m, n>> \notin Less
  BY <1>1, WFMin, Zenon
<1>3. \A m \in T : ~(m < n)
  BY <1>2 DEF Less
<1> QED BY <1>3

\* f is the partial flattening of the first n elements of s.
Flattens(f, s, n) ==
  f = [i \in 1 .. n |-> IF i = 1 THEN s[i] ELSE f[i - 1] \o s[i]]

\* There is one for each n, and one only; so the last of them is what the fold of
\* FlattenSeq yields.
LEMMA FlattensAt ==
  ASSUME NEW s, NEW n \in Nat, NEW f, Flattens(f, s, n), NEW i \in 1 .. n
  PROVE  f[i] = IF i = 1 THEN s[i] ELSE f[i - 1] \o s[i]
<1> DEFINE e == [j \in 1 .. n |-> IF j = 1 THEN s[j] ELSE f[j - 1] \o s[j]]
<1>1. f = e
  BY DEF Flattens
<1>2. e[i] = IF i = 1 THEN s[i] ELSE f[i - 1] \o s[i]
  OBVIOUS
<1> HIDE DEF e
<1> QED BY <1>1, <1>2

LEMMA FlattenUnique ==
  ASSUME NEW s, NEW n \in Nat, NEW m \in Nat, NEW f, NEW g,
         Flattens(f, s, n), Flattens(g, s, m)
  PROVE  \A i \in 1 .. n : i <= m => f[i] = g[i]
<1> DEFINE T == {i \in 1 .. n : i <= m /\ f[i] # g[i]}
<1>1. SUFFICES ASSUME T # {} PROVE FALSE
  OBVIOUS
<1>2. PICK i \in T : \A j \in T : i <= j
  <2>1. T \subseteq Nat
    OBVIOUS
  <2> QED BY <1>1, <2>1, LeastNumber
<1>3. f[i] = IF i = 1 THEN s[i] ELSE f[i - 1] \o s[i]
  BY <1>2, FlattensAt
<1>4. g[i] = IF i = 1 THEN s[i] ELSE g[i - 1] \o s[i]
  <2>1. i \in 1 .. m
    BY <1>2
  <2> QED BY <2>1, FlattensAt
<1>5. i # 1 => f[i - 1] = g[i - 1]
  BY <1>2
<1> QED BY <1>2, <1>3, <1>4, <1>5

LEMMA FlattenExists ==
  ASSUME NEW s, NEW n \in Nat
  PROVE  \E f : Flattens(f, s, n)
<1> DEFINE T == {k \in Nat : ~ \E f : Flattens(f, s, k)}
<1>1. SUFFICES ASSUME T # {} PROVE FALSE
  OBVIOUS
<1>2. PICK k \in T : \A j \in T : k <= j
  BY <1>1, LeastNumber
<1>3. k # 0
  <2> DEFINE e == [i \in 1 .. 0 |-> IF i = 1 THEN s[i] ELSE <<>> \o s[i]]
  <2>1. Flattens(e, s, 0)
    BY DEF Flattens
  <2> QED BY <2>1, <1>2
<1>4. PICK f : Flattens(f, s, k - 1)
  <2>1. k - 1 \in Nat /\ k - 1 \notin T
    BY <1>2, <1>3
  <2> QED BY <2>1
<1> DEFINE g == [i \in 1 .. k |->
                   IF i = 1 THEN s[i] ELSE f[i - 1] \o s[i]]
<1>5. \A i \in 1 .. k - 1 : g[i] = f[i]
  <2>1. k - 1 \in Nat
    BY <1>3
  <2>2. \A i \in 1 .. k - 1 : f[i] = IF i = 1 THEN s[i] ELSE f[i - 1] \o s[i]
    BY <1>4, <2>1, FlattensAt
  <2>3. \A i \in 1 .. k : g[i] = IF i = 1 THEN s[i] ELSE f[i - 1] \o s[i]
    OBVIOUS
  <2> HIDE DEF g
  <2> QED BY <2>1, <2>2, <2>3
<1>6. Flattens(g, s, k)
  <2>1. \A i \in 1 .. k : i # 1 => g[i - 1] = f[i - 1]
    <3> HIDE DEF g
    <3> QED BY <1>5
  <2>2. g = [i \in 1 .. k |-> IF i = 1 THEN s[i] ELSE g[i - 1] \o s[i]]
    BY <2>1
  <2> QED BY <2>2 DEF Flattens
<1> QED BY <1>2, <1>6

LEMMA FlattenLast ==
  ASSUME NEW s, NEW n \in Nat, Len(s) = n, n # 0,
         NEW f, Flattens(f, s, n)
  PROVE  FlattenSeq(s) = f[n]
<1> DEFINE g == CHOOSE g : Flattens(g, s, n)
<1>1. Flattens(g, s, n)
  BY FlattenExists
<1>2. f[n] = g[n]
  BY <1>1, FlattenUnique
<1>3. FlattenSeq(s) = g[n]
  BY DEF FlattenSeq, Flattens
<1> QED BY <1>2, <1>3

\* t is s, of length n, and one more element.
OneLonger(s, t, n) ==
  n \in Nat /\ Len(s) = n /\ Len(t) = n + 1 /\ \A i \in 1 .. n : t[i] = s[i]

\* The flattening goes on with that element.
Continued(s, t, n) ==
  /\ n = 0 => FlattenSeq(t) = t[1]
  /\ n # 0 => FlattenSeq(t) = FlattenSeq(s) \o t[n + 1]

LEMMA FlattenStep ==
  ASSUME NEW s, NEW t, NEW n, OneLonger(s, t, n)
  PROVE  Continued(s, t, n)
<1> USE DEF OneLonger, Continued
<1>0. n + 1 \in Nat /\ n + 1 # 0 /\ n + 1 \in 1 .. n + 1 /\ n + 1 - 1 = n
  OBVIOUS
<1>1. PICK g : Flattens(g, t, n + 1)
  BY <1>0, FlattenExists
<1>2. FlattenSeq(t) = g[n + 1]
  BY <1>0, <1>1, FlattenLast
<1>3. g[n + 1] = IF n = 0 THEN t[n + 1] ELSE g[n] \o t[n + 1]
  <2>1. g[n + 1] = IF n + 1 = 1 THEN t[n + 1] ELSE g[n + 1 - 1] \o t[n + 1]
    BY <1>0, <1>1, FlattensAt
  <2> QED BY <1>0, <2>1
<1>4. ASSUME n # 0 PROVE FlattenSeq(s) = g[n]
  <2>1. PICK f : Flattens(f, t, n)
    BY FlattenExists
  <2>2. f[n] = g[n]
    BY <1>1, <1>4, <2>1, FlattenUnique
  <2>3. Flattens(f, s, n)
    <3> DEFINE u == [i \in 1 .. n |-> IF i = 1 THEN t[i] ELSE f[i - 1] \o t[i]]
               v == [i \in 1 .. n |-> IF i = 1 THEN s[i] ELSE f[i - 1] \o s[i]]
    <3>1. u = v
      OBVIOUS
    <3> QED BY <2>1, <3>1 DEF Flattens
  <2> QED BY <1>4, <2>2, <2>3, FlattenLast
<1>5. n = 0 => n + 1 = 1
  OBVIOUS
<1> QED BY <1>2, <1>3, <1>4, <1>5

-----------------------------------------------------------------------------
(* What a sequence of records holds of a stream.                             *)

PartOf(w, x) == IF x.type = w THEN x.content ELSE <<>>
Parts(w, r) == [n \in 1 .. Len(r) |-> PartOf(w, r[n])]
SentIn(w, r) == FlattenSeq(Parts(w, r))

\* The content of the records of an answer is a sequence.
Legible(r) ==
  \A n \in 1 .. Len(r) : r[n].type \in Writers => r[n].content \in Seq(Nat)

LEMMA PartsLength ==
  ASSUME NEW S, NEW r \in Seq(S), NEW w
  PROVE  /\ Len(Parts(w, r)) = Len(r)
         /\ \A n \in 1 .. Len(r) : Parts(w, r)[n] = PartOf(w, r[n])
BY DEF Parts

LEMMA SentInNone == ASSUME NEW w PROVE SentIn(w, <<>>) = <<>>
<1>1. Parts(w, <<>>) = <<>>
  BY DEF Parts
<1> QED BY <1>1 DEF SentIn, FlattenSeq

LEMMA SentInMore ==
  ASSUME NEW S, NEW r \in Seq(S), NEW x \in S, NEW w \in Writers,
         Legible(r), x.type = w => x.content \in Seq(Nat),
         SentIn(w, r) \in Seq(Nat)
  PROVE  SentIn(w, Append(r, x)) = SentIn(w, r) \o PartOf(w, x)
<1> DEFINE q == Append(r, x)
<1>1. q \in Seq(S) /\ Len(q) = Len(r) + 1 /\ q[Len(r) + 1] = x
      /\ \A n \in 1 .. Len(r) : q[n] = r[n]
  BY AppendProperties
<1> HIDE DEF q
<1>2. Len(r) \in Nat
  BY LenProperties
<1>3. /\ Len(Parts(w, q)) = Len(r) + 1 /\ Len(Parts(w, r)) = Len(r)
      /\ Parts(w, q)[Len(r) + 1] = PartOf(w, x)
      /\ \A n \in 1 .. Len(r) : Parts(w, q)[n] = Parts(w, r)[n]
  BY <1>1, <1>2, PartsLength
<1>4. /\ Len(r) = 0 => SentIn(w, q) = PartOf(w, x)
      /\ Len(r) # 0 => SentIn(w, q) = SentIn(w, r) \o PartOf(w, x)
  <2> DEFINE t == Parts(w, q)
             s == Parts(w, r)
             n == Len(r)
  <2>1. OneLonger(s, t, n) /\ t[n + 1] = PartOf(w, x)
    BY <1>2, <1>3 DEF OneLonger
  <2> HIDE DEF t, s, n
  <2>2. /\ n = 0 => FlattenSeq(t) = t[1]
        /\ n # 0 => FlattenSeq(t) = FlattenSeq(s) \o t[n + 1]
    <3>1. Continued(s, t, n)
      BY <2>1, FlattenStep
    <3> QED BY <3>1 DEF Continued
  <2>3. n = 0 => n + 1 = 1
    OBVIOUS
  <2> QED BY <2>1, <2>2, <2>3 DEF t, s, n, SentIn
<1>5. Len(r) = 0 => SentIn(w, r) = <<>>
  <2>1. Len(r) = 0 => r = <<>>
    BY EmptySeq
  <2> QED BY <2>1, SentInNone
<1>6. PartOf(w, x) \in Seq(Nat)
  BY DEF PartOf
<1> QED BY <1>2, <1>4, <1>5, <1>6, ConcatEmptySeq DEF q

LEMMA Regroup ==
  ASSUME NEW a \in Seq(Nat), NEW b \in Seq(Nat), NEW c \in Seq(Nat)
  PROVE  (a \o b) \o c = a \o (b \o c)
BY ConcatAssociative

\* A sequence that is not empty is a shorter one and an element.
LEMMA FrontAndLast ==
  ASSUME NEW S, NEW q \in Seq(S), Len(q) # 0
  PROVE  \E p \in Seq(S), x \in S : q = Append(p, x) /\ Len(p) = Len(q) - 1
<1> DEFINE k == Len(q)
<1>0. k \in Nat /\ k # 0 /\ Len(q) = k
  BY LenProperties
<1> HIDE DEF k
<1> DEFINE p == [n \in 1 .. k - 1 |-> q[n]]
<1>1. \A n \in 1 .. k : q[n] \in S
  BY <1>0, ElementOfSeq
<1>2. p \in Seq(S) /\ Len(p) = k - 1 /\ \A n \in 1 .. k - 1 : p[n] = q[n]
  BY <1>0, <1>1
<1> HIDE DEF p
<1>3. q[k] \in S
  BY <1>0, <1>1
<1>4. /\ Append(p, q[k]) \in Seq(S) /\ Len(Append(p, q[k])) = k
      /\ Append(p, q[k])[k] = q[k]
      /\ \A n \in 1 .. k - 1 : Append(p, q[k])[n] = p[n]
  BY <1>0, <1>2, <1>3, AppendProperties
<1>5. \A n \in 1 .. k : n \in 1 .. k - 1 \/ n = k
  BY <1>0
<1>6. q = Append(p, q[k])
  BY <1>0, <1>2, <1>4, <1>5, SeqEqual
<1> QED BY <1>0, <1>2, <1>3, <1>6

LEMMA ReadableFront ==
  ASSUME NEW S, NEW p \in Seq(S), NEW x \in S, Legible(Append(p, x))
  PROVE  Legible(p) /\ (x.type \in Writers => x.content \in Seq(Nat))
<1>1. /\ Len(p) \in Nat /\ Len(Append(p, x)) = Len(p) + 1
      /\ Append(p, x)[Len(p) + 1] = x
      /\ \A n \in 1 .. Len(p) : Append(p, x)[n] = p[n]
  BY AppendProperties, LenProperties
<1> QED BY <1>1 DEF Legible

LEMMA SentInType ==
  ASSUME NEW S, NEW r \in Seq(S), NEW w \in Writers, Legible(r)
  PROVE  SentIn(w, r) \in Seq(Nat)
<1> DEFINE Fails(k) == \E q \in Seq(S) : /\ Len(q) = k /\ Legible(q)
                                         /\ SentIn(w, q) \notin Seq(Nat)
           T == {k \in Nat : Fails(k)}
<1>1. SUFFICES ASSUME T # {} PROVE FALSE
  <2>1. Len(r) \in Nat
    BY LenProperties
  <2> QED BY <2>1
<1>2. PICK k \in T : \A j \in T : k <= j
  BY <1>1, LeastNumber
<1>3. PICK q \in Seq(S) : Len(q) = k /\ Legible(q)
                          /\ SentIn(w, q) \notin Seq(Nat)
  BY <1>2
<1>4. k # 0
  <2>1. k = 0 => q = <<>>
    BY <1>3, EmptySeq
  <2> QED BY <1>3, <2>1, SentInNone
<1>5. PICK p \in Seq(S), x \in S : q = Append(p, x) /\ Len(p) = k - 1
  <2>1. k \in Nat
    BY <1>2
  <2> HIDE DEF T, Fails
  <2>2. q \in Seq(S) /\ Len(q) # 0
    BY <1>3, <1>4
  <2>3. \E p \in Seq(S), x \in S : q = Append(p, x) /\ Len(p) = Len(q) - 1
    BY <2>2, FrontAndLast, Zenon
  <2> QED BY <1>3, <2>3, Zenon
<1>6. Legible(p) /\ (x.type \in Writers => x.content \in Seq(Nat))
  BY <1>3, <1>5, ReadableFront
<1>7. SentIn(w, p) \in Seq(Nat)
  <2>1. k - 1 \in Nat /\ ~(k <= k - 1)
    BY <1>2, <1>4
  <2>2. k - 1 \notin T
    BY <1>2, <2>1
  <2> QED BY <1>5, <1>6, <2>1, <2>2
<1>8. SentIn(w, q) = SentIn(w, p) \o PartOf(w, x)
  BY <1>5, <1>6, <1>7, SentInMore
<1>9. PartOf(w, x) \in Seq(Nat)
  BY <1>6 DEF PartOf
<1> QED BY <1>3, <1>7, <1>8, <1>9, ConcatProperties

LEMMA SentInBoth ==
  ASSUME NEW S, NEW r \in Seq(S), NEW s \in Seq(S), NEW w \in Writers,
         Legible(r), Legible(s)
  PROVE  /\ Legible(r \o s)
         /\ SentIn(w, r \o s) = SentIn(w, r) \o SentIn(w, s)
<1>1. \A q \in Seq(S) : Legible(q) => Legible(r \o q)
  <2> SUFFICES ASSUME NEW q \in Seq(S), Legible(q) PROVE Legible(r \o q)
    OBVIOUS
  <2>1. /\ Len(r) \in Nat /\ Len(q) \in Nat
        /\ Len(r \o q) = Len(r) + Len(q)
        /\ \A i \in 1 .. Len(r) + Len(q) :
             (r \o q)[i] = IF i <= Len(r) THEN r[i] ELSE q[i - Len(r)]
    BY ConcatProperties, LenProperties
  <2> SUFFICES ASSUME NEW i \in 1 .. Len(r) + Len(q),
                      (r \o q)[i].type \in Writers
               PROVE  (r \o q)[i].content \in Seq(Nat)
    BY <2>1 DEF Legible
  <2>2. CASE i <= Len(r)
    BY <2>1, <2>2 DEF Legible
  <2>3. CASE i > Len(r)
    BY <2>1, <2>3 DEF Legible
  <2> QED BY <2>1, <2>2, <2>3
<1> DEFINE Fails(k) == \E q \in Seq(S) :
             /\ Len(q) = k /\ Legible(q)
             /\ SentIn(w, r \o q) # SentIn(w, r) \o SentIn(w, q)
           T == {k \in Nat : Fails(k)}
<1>2. SUFFICES ASSUME T # {} PROVE FALSE
  <2>1. Len(s) \in Nat
    BY LenProperties
  <2> QED BY <1>1, <2>1
<1>3. PICK k \in T : \A j \in T : k <= j
  BY <1>2, LeastNumber
<1>4. PICK q \in Seq(S) : Len(q) = k /\ Legible(q)
             /\ SentIn(w, r \o q) # SentIn(w, r) \o SentIn(w, q)
  BY <1>3
<1>5. SentIn(w, r) \in Seq(Nat)
  BY SentInType
<1>6. k # 0
  <2>1. k = 0 => q = <<>>
    BY <1>4, EmptySeq
  <2>2. r \o <<>> = r /\ SentIn(w, r) \o <<>> = SentIn(w, r)
    BY <1>5, ConcatEmptySeq
  <2> QED BY <1>4, <2>1, <2>2, SentInNone
<1>7. PICK p \in Seq(S), x \in S : q = Append(p, x) /\ Len(p) = k - 1
  <2>1. k \in Nat
    BY <1>3
  <2> HIDE DEF T, Fails
  <2>2. q \in Seq(S) /\ Len(q) # 0
    BY <1>4, <1>6
  <2>3. \E p \in Seq(S), x \in S : q = Append(p, x) /\ Len(p) = Len(q) - 1
    BY <2>2, FrontAndLast, Zenon
  <2> QED BY <1>4, <2>3, Zenon
<1>8. Legible(p) /\ (x.type \in Writers => x.content \in Seq(Nat))
  BY <1>4, <1>7, ReadableFront
<1>9. SentIn(w, r \o p) = SentIn(w, r) \o SentIn(w, p)
  <2>1. k - 1 \in Nat /\ ~(k <= k - 1)
    BY <1>3, <1>6
  <2>2. k - 1 \notin T
    BY <1>3, <2>1
  <2> QED BY <1>7, <1>8, <2>1, <2>2
<1>10. r \o q = Append(r \o p, x)
  BY <1>7
<1>11. r \o p \in Seq(S) /\ Legible(r \o p)
  BY <1>1, <1>8, ConcatProperties
<1>12. SentIn(w, r \o p) \in Seq(Nat) /\ SentIn(w, p) \in Seq(Nat)
  BY <1>8, <1>11, SentInType
<1>13. SentIn(w, r \o q) = SentIn(w, r \o p) \o PartOf(w, x)
  BY <1>8, <1>10, <1>11, <1>12, SentInMore
<1>14. SentIn(w, q) = SentIn(w, p) \o PartOf(w, x)
  BY <1>7, <1>8, <1>12, SentInMore
<1>15. PartOf(w, x) \in Seq(Nat)
  BY <1>8 DEF PartOf
<1>16. SentIn(w, r \o q) = SentIn(w, r) \o (SentIn(w, p) \o PartOf(w, x))
  <2> DEFINE a == SentIn(w, r)
             b == SentIn(w, p)
             c == PartOf(w, x)
  <2>1. a \in Seq(Nat) /\ b \in Seq(Nat) /\ c \in Seq(Nat)
    BY <1>5, <1>12, <1>15
  <2> HIDE DEF a, b, c
  <2>2. (a \o b) \o c = a \o (b \o c)
    BY <2>1, Regroup
  <2>3. SentIn(w, r \o q) = (a \o b) \o c
    BY <1>9, <1>13 DEF a, b, c
  <2> QED BY <2>2, <2>3 DEF a, b, c
<1> QED BY <1>4, <1>14, <1>16, Zenon

-----------------------------------------------------------------------------
(* What the records say of the end of the request.                          *)

Ending(r) == \E n \in 1 .. Len(r) : r[n].type = "end"

\* Records about the connection, not of the answer.
Quiet(r) == \A n \in 1 .. Len(r) : r[n].type \notin Writers \cup {"end"}

\* Nothing of the answer follows its end.
EndsLast(r) ==
  \A n \in 1 .. Len(r) :
    r[n].type = "end" =>
      \A m \in n + 1 .. Len(r) : r[m].type \notin Writers \cup {"end"}

LEMMA NoRecord ==
  /\ Legible(<<>>) /\ ~Ending(<<>>) /\ EndsLast(<<>>) /\ Quiet(<<>>)
  /\ \A v \in Writers : SentIn(v, <<>>) = <<>>
BY SentInNone DEF Legible, Ending, EndsLast, Quiet

LEMMA OneRecord ==
  ASSUME NEW x, x.type \in Writers => x.content \in Seq(Nat)
  PROVE  /\ Legible(<<x>>)
         /\ Ending(<<x>>) <=> x.type = "end"
         /\ EndsLast(<<x>>)
         /\ Quiet(<<x>>) <=> x.type \notin Writers \cup {"end"}
         /\ \A v \in Writers : SentIn(v, <<x>>) = PartOf(v, x)
<1>1. Len(<<x>>) = 1 /\ <<x>>[1] = x /\ <<x>> \in Seq({x})
  OBVIOUS
<1>2. \A v \in Writers : SentIn(v, <<x>>) = PartOf(v, x)
  <2> SUFFICES ASSUME NEW v \in Writers PROVE SentIn(v, <<x>>) = PartOf(v, x)
    OBVIOUS
  <2>1. <<x>> = Append(<<>>, x) /\ <<>> \in Seq({x})
    OBVIOUS
  <2>2. SentIn(v, <<>>) = <<>> /\ <<>> \in Seq(Nat) /\ Legible(<<>>)
    BY NoRecord
  <2>3. SentIn(v, Append(<<>>, x)) = SentIn(v, <<>>) \o PartOf(v, x)
    BY <2>1, <2>2, SentInMore
  <2>4. PartOf(v, x) \in Seq(Nat)
    BY DEF PartOf
  <2> QED BY <2>1, <2>2, <2>3, <2>4, ConcatEmptySeq
<1> QED BY <1>1, <1>2 DEF Legible, Ending, EndsLast, Quiet

LEMMA TwoParts ==
  ASSUME NEW S, NEW r \in Seq(S), NEW s \in Seq(S), EndsLast(r), EndsLast(s)
  PROVE  /\ Ending(r \o s) <=> Ending(r) \/ Ending(s)
         /\ ~Ending(r) \/ Quiet(s) => EndsLast(r \o s)
<1>1. /\ Len(r) \in Nat /\ Len(s) \in Nat
      /\ Len(r \o s) = Len(r) + Len(s)
      /\ \A i \in 1 .. Len(r) + Len(s) :
           (r \o s)[i] = IF i <= Len(r) THEN r[i] ELSE s[i - Len(r)]
  BY ConcatProperties, LenProperties
<1>2. /\ \A i \in 1 .. Len(r) : (r \o s)[i] = r[i]
      /\ \A i \in 1 .. Len(s) :
           i + Len(r) \in 1 .. Len(r \o s) /\ (r \o s)[i + Len(r)] = s[i]
      /\ \A i \in 1 .. Len(r \o s) :
           \/ i \in 1 .. Len(r)
           \/ i - Len(r) \in 1 .. Len(s) /\ (r \o s)[i] = s[i - Len(r)]
  BY <1>1
<1>3. Ending(r \o s) <=> Ending(r) \/ Ending(s)
  <2>1. ASSUME Ending(r \o s) PROVE Ending(r) \/ Ending(s)
    BY <1>1, <1>2, <2>1 DEF Ending
  <2>2. ASSUME Ending(r) PROVE Ending(r \o s)
    BY <1>1, <1>2, <2>2 DEF Ending
  <2>3. ASSUME Ending(s) PROVE Ending(r \o s)
    BY <1>1, <1>2, <2>3 DEF Ending
  <2> QED BY <2>1, <2>2, <2>3
<1>4. ASSUME ~Ending(r) \/ Quiet(s),
             NEW n \in 1 .. Len(r \o s), (r \o s)[n].type = "end",
             NEW m \in n + 1 .. Len(r \o s)
      PROVE  (r \o s)[m].type \notin Writers \cup {"end"}
  <2>1. CASE n \in 1 .. Len(r)
    <3>1. Ending(r)
      BY <1>2, <1>4, <2>1 DEF Ending
    <3>2. Quiet(s)
      BY <1>4, <3>1
    <3>3. m \in 1 .. Len(r \o s)
      BY <1>1
    <3>4. CASE m \in 1 .. Len(r)
      BY <1>2, <1>4, <2>1, <3>4 DEF EndsLast
    <3>5. CASE m - Len(r) \in 1 .. Len(s) /\ (r \o s)[m] = s[m - Len(r)]
      BY <3>2, <3>5 DEF Quiet
    <3> QED BY <1>2, <3>3, <3>4, <3>5
  <2>2. CASE n - Len(r) \in 1 .. Len(s) /\ (r \o s)[n] = s[n - Len(r)]
    <3>1. m - Len(r) \in (n - Len(r)) + 1 .. Len(s)
          /\ (r \o s)[m] = s[m - Len(r)]
      BY <1>1, <2>2
    <3> QED BY <1>4, <2>2, <3>1 DEF EndsLast
  <2> QED BY <1>2, <2>1, <2>2
<1> QED BY <1>3, <1>4 DEF EndsLast

-----------------------------------------------------------------------------
(* The writers and what they have sent.                                     *)

WriterStates ==
  [buf : Seq(Nat), puts : Nat, written : BOOLEAN, closed : BOOLEAN,
   isClosed : BOOLEAN, errno : {NoError, "os"}]

Numbers(n) == [k \in 1 .. n |-> k]

\* With the writers o, the records r are the answer so far.
Whole(o, r) ==
  /\ Legible(r)
  /\ \A w \in Writers : SentIn(w, r) \o o[w].buf = Numbers(o[w].puts)
  /\ \A w \in Writers : o[w].closed => o[w].buf = <<>>
  /\ Ending(r) <=> \A w \in Writers : o[w].closed
  /\ EndsLast(r)

LEMMA AppendNumber ==
  ASSUME NEW b \in Seq(Nat), NEW x \in Nat
  PROVE  <<x>> \in Seq(Nat) /\ Append(b, x) = b \o <<x>>
<1>1. <<x>> \in Seq(Nat)
  OBVIOUS
<1> QED BY <1>1, AppendIsConcat

LEMMA OneMore ==
  ASSUME NEW a \in Seq(Nat), NEW b \in Seq(Nat), NEW n \in Nat,
         a \o b = Numbers(n)
  PROVE  a \o Append(b, n + 1) = Numbers(n + 1)
<1>1. <<n + 1>> \in Seq(Nat) /\ Append(b, n + 1) = b \o <<n + 1>>
  <2>1. n + 1 \in Nat
    OBVIOUS
  <2> QED BY <2>1, AppendNumber
<1>2. (a \o b) \o <<n + 1>> = a \o (b \o <<n + 1>>)
  BY <1>1, Regroup
<1>3. Numbers(n) \in Seq(Nat) /\ Len(Numbers(n)) = n
      /\ \A k \in 1 .. n : Numbers(n)[k] = k
  BY DEF Numbers
<1>4. Numbers(n + 1) \in Seq(Nat) /\ Len(Numbers(n + 1)) = n + 1
      /\ \A k \in 1 .. n + 1 : Numbers(n + 1)[k] = k
  BY DEF Numbers
<1>5. Numbers(n) \o <<n + 1>> = Numbers(n + 1)
  <2> DEFINE s == Numbers(n) \o <<n + 1>>
  <2>1. Len(<<n + 1>>) = 1 /\ <<n + 1>>[1] = n + 1
    OBVIOUS
  <2>2. s \in Seq(Nat) /\ Len(s) = n + 1
        /\ \A k \in 1 .. n + 1 :
             s[k] = IF k <= n THEN Numbers(n)[k] ELSE <<n + 1>>[k - n]
    BY <1>1, <1>3, <2>1, ConcatProperties
  <2> HIDE DEF s
  <2>3. \A k \in 1 .. n + 1 : k \in 1 .. n \/ (k = n + 1 /\ k - n = 1)
    OBVIOUS
  <2>4. \A k \in 1 .. n + 1 : s[k] = k
    BY <1>3, <2>1, <2>2, <2>3
  <2>5. s = Numbers(n + 1)
    BY <1>4, <2>2, <2>4, SeqEqual
  <2> QED BY <2>5 DEF s
<1> QED BY <1>1, <1>2, <1>5

\* Sending q leaves the answer whole if it, and what is then in the buffers, is
\* what was in the buffers, and perhaps one character that was written.
LEMMA WholeStep ==
  ASSUME NEW S, NEW r \in Seq(S), NEW q \in Seq(S),
         NEW o \in [Writers -> WriterStates],
         NEW p \in [Writers -> WriterStates],
         Whole(o, r), Legible(q), EndsLast(q), ~Ending(r) \/ Quiet(q),
         \A w \in Writers :
           \/ /\ p[w].puts = o[w].puts
              /\ SentIn(w, q) \o p[w].buf = o[w].buf
           \/ /\ p[w].puts = o[w].puts + 1
              /\ SentIn(w, q) \o p[w].buf = Append(o[w].buf, o[w].puts + 1),
         \A w \in Writers : p[w].closed => p[w].buf = <<>>,
         (Ending(r) \/ Ending(q)) <=> \A w \in Writers : p[w].closed
  PROVE  Whole(p, r \o q)
<1>1. Legible(r) /\ EndsLast(r)
  BY DEF Whole
<1>2. Legible(r \o q)
  BY <1>1, SentInBoth DEF Writers
<1>3. /\ Ending(r \o q) <=> \A w \in Writers : p[w].closed
      /\ EndsLast(r \o q)
  BY <1>1, TwoParts
<1>4. ASSUME NEW w \in Writers
      PROVE  SentIn(w, r \o q) \o p[w].buf = Numbers(p[w].puts)
  <2>1. SentIn(w, r) \in Seq(Nat) /\ SentIn(w, q) \in Seq(Nat)
    BY <1>1, SentInType
  <2>2. /\ o[w].buf \in Seq(Nat) /\ o[w].puts \in Nat /\ p[w].buf \in Seq(Nat)
    BY DEF WriterStates
  <2>3. SentIn(w, r \o q) = SentIn(w, r) \o SentIn(w, q)
    BY <1>1, SentInBoth
  <2>4. SentIn(w, r \o q) \o p[w].buf
          = SentIn(w, r) \o (SentIn(w, q) \o p[w].buf)
    <3> DEFINE a == SentIn(w, r)
               b == SentIn(w, q)
               c == p[w].buf
    <3>1. a \in Seq(Nat) /\ b \in Seq(Nat) /\ c \in Seq(Nat)
      BY <2>1, <2>2
    <3> HIDE DEF a, b, c
    <3>2. (a \o b) \o c = a \o (b \o c)
      BY <3>1, Regroup
    <3> QED BY <2>3, <3>2 DEF a, b, c
  <2>5. SentIn(w, r) \o o[w].buf = Numbers(o[w].puts)
    BY DEF Whole
  <2>6. SentIn(w, r) \o Append(o[w].buf, o[w].puts + 1)
          = Numbers(o[w].puts + 1)
    BY <2>1, <2>2, <2>5, OneMore
  <2> QED BY <2>4, <2>5, <2>6
<1> QED BY <1>2, <1>3, <1>4 DEF Whole

-----------------------------------------------------------------------------
(* The records that EmptyBuffProc makes.                                    *)

\* The records q hold c of the stream w, and nothing of another.
Holds(q, w, c) ==
  /\ Legible(q) /\ EndsLast(q)
  /\ \A v \in Writers : SentIn(v, q) = IF v = w THEN c ELSE <<>>

Made ==
  {[type |-> w, id |-> req.id, content |-> out[w].buf] : w \in Writers}
    \cup {Record(type) : type \in Writers \cup {"end"}}

LEMMA HoldsBoth ==
  ASSUME NEW S, NEW q \in Seq(S), NEW s \in Seq(S), NEW w \in Writers,
         NEW c \in Seq(Nat), Holds(q, w, c), Holds(s, w, <<>>), ~Ending(q)
  PROVE  /\ q \o s \in Seq(S) /\ Holds(q \o s, w, c)
         /\ Ending(q \o s) <=> Ending(s)
<1>1. q \o s \in Seq(S)
  BY ConcatProperties
<1>2. EndsLast(q \o s) /\ (Ending(q \o s) <=> Ending(s))
  BY TwoParts DEF Holds
<1>3. Legible(q \o s)
  BY SentInBoth DEF Holds
<1>4. ASSUME NEW v \in Writers
      PROVE  SentIn(v, q \o s) = IF v = w THEN c ELSE <<>>
  <2>1. SentIn(v, q \o s) = SentIn(v, q) \o SentIn(v, s)
    BY SentInBoth DEF Holds
  <2>2. SentIn(v, s) = <<>>
    BY DEF Holds
  <2>3. SentIn(v, q) = IF v = w THEN c ELSE <<>>
    BY DEF Holds
  <2>4. c \o <<>> = c /\ <<>> \o <<>> = <<>>
    BY ConcatEmptySeq
  <2> QED BY <2>1, <2>2, <2>3, <2>4
<1> QED BY <1>1, <1>2, <1>3, <1>4 DEF Holds

LEMMA ContentHolds ==
  ASSUME out \in [Writers -> WriterStates], NEW w \in Writers
  PROVE  /\ Content(w) \in Seq(Made) /\ Holds(Content(w), w, out[w].buf)
         /\ ~Ending(Content(w))
<1>1. out[w].buf \in Seq(Nat)
  BY DEF WriterStates
<1>2. CASE out[w].buf = <<>>
  BY <1>2, NoRecord DEF Content, Holds
<1>3. CASE out[w].buf # <<>>
  <2> DEFINE x == [type |-> w, id |-> req.id, content |-> out[w].buf]
  <2>1. x.type = w /\ x.content = out[w].buf /\ x \in Made
    BY DEF Made
  <2>2. Content(w) = <<x>>
    BY <1>3 DEF Content
  <2> HIDE DEF x
  <2>3. <<x>> \in Seq(Made)
    BY <2>1
  <2>4. w # "end"
    BY DEF Writers
  <2>5. \A v \in Writers : PartOf(v, x) = IF v = w THEN out[w].buf ELSE <<>>
    BY <2>1 DEF PartOf
  <2> QED BY <1>1, <2>1, <2>2, <2>3, <2>4, <2>5, OneRecord DEF Holds
<1> QED BY <1>2, <1>3

LEMMA RecordHolds ==
  ASSUME NEW w \in Writers, NEW type \in Writers \cup {"end"}
  PROVE  /\ <<Record(type)>> \in Seq(Made) /\ Holds(<<Record(type)>>, w, <<>>)
         /\ Ending(<<Record(type)>>) <=> type = "end"
<1> DEFINE x == Record(type)
<1>1. x.type = type /\ x.content = <<>> /\ x \in Made
  BY DEF Made, Record
<1> HIDE DEF x
<1>2. <<x>> \in Seq(Made)
  BY <1>1
<1>3. \A v \in Writers : PartOf(v, x) = <<>>
  BY <1>1 DEF PartOf
<1>4. x.type \in Writers => x.content \in Seq(Nat)
  BY <1>1
<1>5. Holds(<<x>>, w, <<>>) /\ (Ending(<<x>>) <=> type = "end")
  BY <1>1, <1>3, <1>4, OneRecord DEF Holds
<1> QED BY <1>2, <1>5 DEF x

LEMMA CloseHolds ==
  ASSUME out \in [Writers -> WriterStates], NEW w \in Writers, NEW n
  PROVE  /\ WriteCloseRecords(w, n) \in Seq(Made)
         /\ Holds(WriteCloseRecords(w, n), w, out[w].buf)
         /\ Ending(WriteCloseRecords(w, n)) <=> n = 1
<1> DEFINE b == out[w].buf
           a == IF w = "stderr" /\ out[w].buf = <<>> /\ ~out[w].written
                THEN <<>> ELSE <<Record(w)>>
           e == IF n = 1 THEN <<Record("end")>> ELSE <<>>
<1>1. WriteCloseRecords(w, n) = Content(w) \o a \o e
  BY DEF WriteCloseRecords
<1>2. b \in Seq(Nat)
  BY DEF WriterStates
<1>3. a \in Seq(Made) /\ Holds(a, w, <<>>) /\ ~Ending(a)
  <2>1. w # "end"
    BY DEF Writers
  <2>2. /\ <<Record(w)>> \in Seq(Made) /\ Holds(<<Record(w)>>, w, <<>>)
        /\ ~Ending(<<Record(w)>>)
    BY <2>1, RecordHolds
  <2>3. <<>> \in Seq(Made) /\ Holds(<<>>, w, <<>>) /\ ~Ending(<<>>)
    BY NoRecord DEF Holds
  <2> QED BY <2>2, <2>3
<1>4. e \in Seq(Made) /\ Holds(e, w, <<>>) /\ (Ending(e) <=> n = 1)
  <2>1. /\ <<Record("end")>> \in Seq(Made)
        /\ Holds(<<Record("end")>>, w, <<>>)
        /\ Ending(<<Record("end")>>)
    BY RecordHolds
  <2>2. <<>> \in Seq(Made) /\ Holds(<<>>, w, <<>>) /\ ~Ending(<<>>)
    BY NoRecord DEF Holds
  <2> QED BY <2>1, <2>2
<1>5. /\ Content(w) \in Seq(Made) /\ Holds(Content(w), w, b)
      /\ ~Ending(Content(w))
  BY ContentHolds
<1> HIDE DEF a, b, e
<1>6. /\ Content(w) \o a \in Seq(Made) /\ Holds(Content(w) \o a, w, b)
      /\ ~Ending(Content(w) \o a)
  BY <1>2, <1>3, <1>5, HoldsBoth
<1>7. /\ Content(w) \o a \o e \in Seq(Made)
      /\ Holds(Content(w) \o a \o e, w, b)
      /\ Ending(Content(w) \o a \o e) <=> n = 1
  BY <1>2, <1>4, <1>6, HoldsBoth
<1> QED BY <1>1, <1>7 DEF b

-----------------------------------------------------------------------------
(* The invariant.                                                           *)

\* How many writers are open.
Open(o) == (IF o["stdout"].closed THEN 0 ELSE 1)
             + (IF o["stderr"].closed THEN 0 ELSE 1)

Stages == {"accept", "begin", "params", "serve", "getchar"}

\* While a request is served nWriters counts the open writers; before, all are
\* open.
Counted ==
  /\ stage \in Stages /\ "nWriters" \in DOMAIN req
  /\ stage \in {"begin", "params"} => \A w \in Writers : ~out[w].closed
  /\ stage \in {"serve", "getchar"} => req.nWriters = Open(out)

Closing(o) == \A w \in Writers : o[w].closed => o[w].isClosed

Sequential(r) == \E S : r \in Seq(S)

LibraryInv ==
  /\ out \in [Writers -> WriterStates]
  /\ Counted /\ Closing(out) /\ Sequential(records)
  /\ Unbroken => Whole(out, records)

LEMMA NewAnswer ==
  /\ NewWriter \in WriterStates
  /\ Sequential(<<>>)
  /\ Whole([w \in Writers |-> NewWriter], <<>>)
<1>1. /\ NewWriter \in WriterStates /\ NewWriter.buf = <<>>
      /\ NewWriter.puts = 0 /\ ~NewWriter.closed
  BY DEF NewWriter, WriterStates
<1>2. <<>> \in Seq({})
  OBVIOUS
<1>3. <<>> \o <<>> = Numbers(0)
  <2>1. <<>> \o <<>> = <<>>
    BY <1>2, ConcatEmptySeq
  <2> QED BY <2>1 DEF Numbers
<1>4. \E w \in Writers : TRUE
  BY DEF Writers
<1> HIDE DEF NewWriter
<1>5. Whole([w \in Writers |-> NewWriter], <<>>)
  BY <1>1, <1>3, <1>4, NoRecord DEF Whole
<1> QED BY <1>1, <1>2, <1>5 DEF Sequential

LEMMA LibraryInvInit == LibraryInit => LibraryInv
<1> SUFFICES ASSUME LibraryInit PROVE LibraryInv
  OBVIOUS
<1>1. out = [w \in Writers |-> NewWriter] /\ records = <<>>
  BY DEF LibraryInit
<1>2. out \in [Writers -> WriterStates] /\ Sequential(records)
      /\ Whole(out, records)
  BY <1>1, NewAnswer
<1>3. Closing(out)
  BY <1>1 DEF Closing, NewWriter
<1>4. Counted
  BY DEF LibraryInit, Counted, Stages
<1> QED BY <1>2, <1>3, <1>4 DEF LibraryInv

\* Steps that leave writers and records alone.
LEMMA AnswerKept ==
  ASSUME LibraryInv, UNCHANGED answer, Counted'
  PROVE  LibraryInv'
<1>1. out' = out /\ records' = records
  BY DEF answer
<1> QED BY <1>1 DEF LibraryInv, Unbroken

\* Steps that send records.
LEMMA AnswerGoesOn ==
  ASSUME LibraryInv, NEW q, Sequential(q), Sends(q),
         out' \in [Writers -> WriterStates], Counted', Closing(out'),
         Legible(q), EndsLast(q), ~Ending(records) \/ Quiet(q),
         Unbroken' => 
           /\ \A w \in Writers :
                \/ /\ out'[w].puts = out[w].puts
                   /\ SentIn(w, q) \o out'[w].buf = out[w].buf
                \/ /\ out'[w].puts = out[w].puts + 1
                   /\ SentIn(w, q) \o out'[w].buf
                        = Append(out[w].buf, out[w].puts + 1)
           /\ \A w \in Writers : out'[w].closed => out'[w].buf = <<>>
           /\ (Ending(records) \/ Ending(q))
                <=> \A w \in Writers : out'[w].closed
  PROVE  LibraryInv'
<1>1. records' = records \o q /\ Whole(out, records)
  BY DEF Sends, LibraryInv
<1>2. PICK S1 : records \in Seq(S1)
  BY DEF LibraryInv, Sequential
<1>3. PICK S2 : q \in Seq(S2)
  BY DEF Sequential
<1> DEFINE S == S1 \cup S2
<1>4. S1 \subseteq S /\ S2 \subseteq S
  OBVIOUS
<1> HIDE DEF S
<1>5. records \in Seq(S) /\ q \in Seq(S)
  BY <1>2, <1>3, <1>4, SeqMonotonic
<1>6. Sequential(records')
  BY <1>1, <1>5, ConcatProperties DEF Sequential
<1>7. out \in [Writers -> WriterStates]
  BY DEF LibraryInv
<1>8. ASSUME Unbroken' PROVE Whole(out', records')
  <2> DEFINE o == out
             p == out'
             r == records
  <2>1. Whole(o, r) /\ o \in [Writers -> WriterStates]
        /\ p \in [Writers -> WriterStates] /\ r \in Seq(S)
    BY <1>1, <1>5, <1>7
  <2>2. ~Ending(r) \/ Quiet(q)
    OBVIOUS
  <2>3. /\ \A w \in Writers :
             \/ /\ p[w].puts = o[w].puts
                /\ SentIn(w, q) \o p[w].buf = o[w].buf
             \/ /\ p[w].puts = o[w].puts + 1
                /\ SentIn(w, q) \o p[w].buf = Append(o[w].buf, o[w].puts + 1)
        /\ \A w \in Writers : p[w].closed => p[w].buf = <<>>
        /\ (Ending(r) \/ Ending(q)) <=> \A w \in Writers : p[w].closed
    BY <1>8
  <2> HIDE DEF o, p, r
  <2>4. Whole(p, r \o q)
    BY <1>5, <2>1, <2>2, <2>3, WholeStep
  <2> QED BY <1>1, <2>4 DEF p, r
<1> QED BY <1>6, <1>8 DEF LibraryInv

\* Steps whose write failed.
LEMMA AnswerBroken ==
  ASSUME LibraryInv, records' = records, ~Unbroken',
         out' \in [Writers -> WriterStates], Counted', Closing(out')
  PROVE  LibraryInv'
BY DEF LibraryInv

LEMMA QuietRecord ==
  ASSUME NEW x, x.type \notin Writers \cup {"end"}
  PROVE  /\ Sequential(<<x>>) /\ Legible(<<x>>) /\ EndsLast(<<x>>)
         /\ Quiet(<<x>>) /\ ~Ending(<<x>>)
         /\ \A w \in Writers : SentIn(w, <<x>>) = <<>>
<1>1. <<x>> \in Seq({x})
  OBVIOUS
<1>2. \A w \in Writers : PartOf(w, x) = <<>>
  BY DEF PartOf
<1> QED BY <1>1, <1>2, OneRecord DEF Sequential

\* Records about the connection.
LEMMA AnswerQuiet ==
  ASSUME LibraryInv, NEW x, x.type \notin Writers \cup {"end"},
         Sends(<<x>>), out' = out, Counted'
  PROVE  LibraryInv'
<1> DEFINE q == <<x>>
<1>1. /\ Sequential(q) /\ Legible(q) /\ EndsLast(q) /\ Quiet(q) /\ ~Ending(q)
      /\ \A w \in Writers : SentIn(w, q) = <<>>
  BY QuietRecord
<1>2. Sends(q)
  OBVIOUS
<1> HIDE DEF q
<1>3. Unbroken /\ Whole(out, records)
  BY <1>2 DEF Sends, LibraryInv
<1>4. out \in [Writers -> WriterStates] /\ Closing(out)
  BY DEF LibraryInv
<1>5. \A w \in Writers : SentIn(w, q) \o out'[w].buf = out[w].buf
  BY <1>1, <1>4, ConcatEmptySeq DEF WriterStates
<1>6. /\ \A w \in Writers : out'[w].closed => out'[w].buf = <<>>
      /\ (Ending(records) \/ Ending(q)) <=> \A w \in Writers : out'[w].closed
  BY <1>1, <1>3 DEF Whole
<1> QED BY <1>1, <1>2, <1>4, <1>5, <1>6, AnswerGoesOn

-----------------------------------------------------------------------------
(* The steps of the library.                                                *)

LEMMA ReadingKeeps ==
  ASSUME LibraryInv,
         \/ PeerCloses \/ FillLoop \/ ReadFails \/ NeedFill \/ TakeByte
         \/ BeginCutOff \/ GetEof \/ BeginRead \/ BeginFails
         \/ ParamsRead \/ ParamsFail
         \/ CallGetChar \/ UnGetChar \/ StartFilterData
  PROVE  LibraryInv'
<1>1. Counted /\ out \in [Writers -> WriterStates]
  BY DEF LibraryInv
<1> SUFFICES UNCHANGED answer /\ Counted'
  BY AnswerKept
<1>2. CASE UNCHANGED <<stage, req, answer>>
  BY <1>1, <1>2 DEF Counted, answer
<1>3. CASE PeerCloses \/ FillLoop \/ ReadFails \/ NeedFill \/ BeginCutOff
           \/ UnGetChar \/ StartFilterData
  <2>1. UNCHANGED <<stage, req, answer>>
    BY <1>3 DEF PeerCloses, FillLoop, ReadFails, NeedFill, BeginCutOff,
                UnGetChar, StartFilterData, connection, request, answer
  <2> QED BY <1>2, <2>1
<1>4. CASE TakeByte
  <2>1. PICK c : BeginByte(c) \/ ParamByte(c) \/ ValueByte(c) \/ GetChar(c)
    BY <1>4 DEF TakeByte
  <2>2. CASE BeginByte(c)
    <3>1. UNCHANGED stage /\ UNCHANGED answer
      BY <2>2 DEF BeginByte
    <3>2. \/ req' = req
          \/ req' = [req EXCEPT !.keep = c % 2 = 1, !.role = c \div 2,
                                !.begun = TRUE]
      BY <2>2 DEF BeginByte
    <3>3. "nWriters" \in DOMAIN req' /\ req'.nWriters = req.nWriters
      BY <1>1, <3>2 DEF Counted
    <3> QED BY <1>1, <3>1, <3>3 DEF Counted, answer
  <2>3. CASE ParamByte(c) \/ ValueByte(c)
    BY <1>2, <2>3 DEF ParamByte, ValueByte, request
  <2>4. CASE GetChar(c)
    BY <1>1, <2>4 DEF GetChar, Counted, Stages, answer
  <2> QED BY <2>1, <2>2, <2>3, <2>4
<1>5. CASE GetEof
  BY <1>1, <1>5 DEF GetEof, Counted, Stages, answer, request
<1>6. CASE BeginRead
  BY <1>1, <1>6 DEF BeginRead, Counted, Stages, answer, request
<1>7. CASE BeginFails \/ ParamsFail
  BY <1>1, <1>7 DEF BeginFails, ParamsFail, TryAgain, Counted, Stages, answer,
                    request
<1>8. CASE ParamsRead
  <2>1. /\ stage = "params" /\ stage' = "serve" /\ UNCHANGED answer
        /\ req' = [req EXCEPT !.nWriters = 2]
    BY <1>8 DEF ParamsRead
  <2>2. "nWriters" \in DOMAIN req' /\ req'.nWriters = 2
    BY <1>1, <2>1 DEF Counted
  <2>3. Open(out) = 2
    BY <1>1, <2>1 DEF Counted, Open, Writers
  <2> QED BY <2>1, <2>2, <2>3 DEF Counted, Stages, answer
<1>9. CASE CallGetChar
  BY <1>1, <1>9 DEF CallGetChar, Counted, Stages, answer, request
<1> QED BY <1>3, <1>4, <1>5, <1>6, <1>7, <1>8, <1>9

LEMMA HeaderKeeps ==
  ASSUME LibraryInv, ProcessHeader PROVE LibraryInv'
<1>1. /\ Counted /\ UNCHANGED stage /\ UNCHANGED out
  BY DEF LibraryInv, ProcessHeader
<1>2. PICK h \in Headers :
        \/ BadHeader(h) \/ BeginRequest(h) \/ CantMultiplex(h)
        \/ ManagementRecord(h) \/ SkippedRecord(h) \/ StreamRecord(h)
  BY DEF ProcessHeader
<1>3. Counted'
  <2>1. req' = req \/ req' = [req EXCEPT !.id = h.id, !.start = RecordRead]
    BY <1>2 DEF BadHeader, BeginRequest, CantMultiplex, ManagementRecord,
                SkippedRecord, StreamRecord
  <2>2. "nWriters" \in DOMAIN req' /\ req'.nWriters = req.nWriters
    BY <1>1, <2>1 DEF Counted
  <2> QED BY <1>1, <2>2 DEF Counted
<1> DEFINE x == [type |-> "refused", id |-> h.id, content |-> <<>>]
           y == [type |-> "unknown", id |-> 0, content |-> <<>>]
<1>4. records' = records \/ Sends(<<x>>) \/ Sends(<<y>>)
  BY <1>2 DEF BadHeader, BeginRequest, CantMultiplex, ManagementRecord,
              SkippedRecord, StreamRecord, WriteFails
<1>5. x.type \notin Writers \cup {"end"} /\ y.type \notin Writers \cup {"end"}
  BY DEF Writers
<1> HIDE DEF x, y
<1> QED BY <1>1, <1>3, <1>4, <1>5, AnswerKept, AnswerQuiet DEF answer

LEMMA ValuesKeep ==
  ASSUME LibraryInv, ValuesEnd PROVE LibraryInv'
<1> DEFINE x == [type |-> "values", id |-> 0, content |-> inner.names]
<1>1. /\ UNCHANGED <<stage, req, out>>
      /\ records' = records \/ Sends(<<x>>)
  BY DEF ValuesEnd, WriteFails, request
<1>2. Counted'
  BY <1>1 DEF LibraryInv, Counted
<1>3. x.type \notin Writers \cup {"end"}
  BY DEF Writers
<1> HIDE DEF x
<1> QED BY <1>1, <1>2, <1>3, AnswerKept, AnswerQuiet DEF answer

LEMMA AcceptKeeps ==
  ASSUME LibraryInv, Accept_r PROVE LibraryInv'
<1>1. /\ out' = [w \in Writers |-> NewWriter] /\ records' = <<>>
      /\ stage' = "begin"
      /\ req' = [req EXCEPT !.begun = FALSE, !.start = 0]
  BY DEF Accept_r
<1>2. /\ out' \in [Writers -> WriterStates] /\ Sequential(records')
      /\ Whole(out', records')
  BY <1>1, NewAnswer
<1>3. Closing(out') /\ \A w \in Writers : ~out'[w].closed
  BY <1>1 DEF Closing, NewWriter
<1>4. "nWriters" \in DOMAIN req'
  BY <1>1 DEF LibraryInv, Counted
<1>5. Counted'
  BY <1>1, <1>3, <1>4 DEF Counted, Stages
<1> QED BY <1>2, <1>3, <1>5 DEF LibraryInv

-----------------------------------------------------------------------------
(* The steps of the application.                                            *)

\* Of a writer that is open the end has not been sent.
LEMMA OpenUnended ==
  ASSUME LibraryInv, Unbroken, NEW w \in Writers, ~out[w].closed
  PROVE  Whole(out, records) /\ ~Ending(records)
BY DEF LibraryInv, Whole

\* The writers, w with another buffer.
Changed(w, b, c, d) ==
  [out EXCEPT ![w].buf = b, ![w].puts = c, ![w].written = d]

LEMMA WriterSteps ==
  ASSUME out \in [Writers -> WriterStates], NEW w \in Writers,
         NEW b \in Seq(Nat), NEW c \in Nat, NEW d \in BOOLEAN
  PROVE  /\ Changed(w, b, c, d) \in [Writers -> WriterStates]
         /\ \A v \in Writers \ {w} : Changed(w, b, c, d)[v] = out[v]
         /\ Changed(w, b, c, d)[w].buf = b /\ Changed(w, b, c, d)[w].puts = c
         /\ \A v \in Writers :
              /\ Changed(w, b, c, d)[v].closed = out[v].closed
              /\ Changed(w, b, c, d)[v].isClosed = out[v].isClosed
              /\ Changed(w, b, c, d)[v].errno = out[v].errno
<1> DEFINE x == [out[w] EXCEPT !.buf = b, !.puts = c, !.written = d]
           p == Changed(w, b, c, d)
<1>1. out[w] \in WriterStates
  OBVIOUS
<1>2. /\ x \in WriterStates /\ x.buf = b /\ x.puts = c
      /\ x.closed = out[w].closed /\ x.isClosed = out[w].isClosed
      /\ x.errno = out[w].errno
  BY <1>1 DEF WriterStates
<1>3. p = [out EXCEPT ![w] = x]
  BY <1>1 DEF WriterStates, Changed
<1> HIDE DEF x, p
<1>4. /\ p \in [Writers -> WriterStates]
      /\ \A v \in Writers \ {w} : p[v] = out[v]
      /\ p[w].buf = b /\ p[w].puts = c
      /\ \A v \in Writers : /\ p[v].closed = out[v].closed
                            /\ p[v].isClosed = out[v].isClosed
                            /\ p[v].errno = out[v].errno
  BY <1>2, <1>3
<1> QED BY <1>4 DEF p

\* What is not assigned stays.
LEMMA Assigned ==
  ASSUME out \in [Writers -> WriterStates], NEW w \in Writers,
         NEW b, NEW c, NEW d
  PROVE  /\ [out EXCEPT ![w].buf = b, ![w].puts = c]
              = Changed(w, b, c, out[w].written)
         /\ [out EXCEPT ![w].buf = b, ![w].written = d]
              = Changed(w, b, out[w].puts, d)
BY DEF WriterStates, Changed

LEMMA FailingWriter ==
  ASSUME LibraryInv, NEW w \in Writers,
         out' = [out EXCEPT ![w] = SetError(@, "os")]
  PROVE  /\ out' \in [Writers -> WriterStates] /\ Closing(out')
         /\ ~Unbroken' /\ \A v \in Writers : out'[v].closed = out[v].closed
<1>1. out \in [Writers -> WriterStates] /\ Closing(out)
  BY DEF LibraryInv
<1> DEFINE x == SetError(out[w], "os")
<1>2. /\ x \in WriterStates /\ x.errno # NoError /\ x.isClosed
      /\ x.closed = out[w].closed
  BY <1>1 DEF WriterStates, SetError, NoError
<1>3. out' = [out EXCEPT ![w] = x]
  OBVIOUS
<1> HIDE DEF x
<1> QED BY <1>1, <1>2, <1>3 DEF Closing, Unbroken

LEMMA SameOpen ==
  ASSUME NEW o, NEW p, \A v \in Writers : p[v].closed = o[v].closed
  PROVE  Open(p) = Open(o)
BY DEF Open, Writers

LEMMA PutKeeps ==
  ASSUME LibraryInv, NEW w \in Writers, PutChar(w) PROVE LibraryInv'
<1> DEFINE c == out[w].puts + 1
           room == ~out[w].closed /\ Len(out[w].buf) < OutSize
           b == out[w].buf
<1>1. /\ out \in [Writers -> WriterStates] /\ Closing(out) /\ Counted
      /\ Sequential(records) /\ UNCHANGED stage /\ UNCHANGED req
  BY DEF LibraryInv, PutChar, request
<1>2. /\ b \in Seq(Nat) /\ c \in Nat /\ c = out[w].puts + 1 /\ <<c>> \in Seq(Nat)
      /\ Append(b, c) \in Seq(Nat)
  <2>1. b \in Seq(Nat) /\ c \in Nat
    BY <1>1 DEF WriterStates
  <2> HIDE DEF b, c
  <2>2. <<c>> \in Seq(Nat) /\ Append(b, c) \in Seq(Nat)
    BY <2>1, AppendNumber, AppendProperties
  <2> QED BY <2>1, <2>2 DEF c
<1>3. \/ /\ room /\ UNCHANGED records
         /\ out' = [out EXCEPT ![w].buf = Append(b, c), ![w].puts = c]
      \/ /\ ~room /\ ~out[w].isClosed
         /\ Sends(Content(w))
         /\ out' = [out EXCEPT ![w].buf = <<c>>, ![w].puts = c,
                               ![w].written = TRUE]
      \/ /\ UNCHANGED records
         /\ out' = [out EXCEPT ![w] = SetError(@, "os")]
  BY DEF PutChar, WriteFails
<1> HIDE DEF c, b
<1>4. CASE /\ room /\ UNCHANGED records
           /\ out' = [out EXCEPT ![w].buf = Append(b, c), ![w].puts = c]
  <2>1. /\ out' \in [Writers -> WriterStates]
        /\ \A v \in Writers \ {w} : out'[v] = out[v]
        /\ out'[w].buf = Append(b, c) /\ out'[w].puts = c
        /\ \A v \in Writers : /\ out'[v].closed = out[v].closed
                              /\ out'[v].isClosed = out[v].isClosed
                              /\ out'[v].errno = out[v].errno
    <3>1. out' = Changed(w, Append(b, c), c, out[w].written)
      BY <1>1, <1>4, Assigned
    <3>2. out[w].written \in BOOLEAN
      BY <1>1 DEF WriterStates
    <3> DEFINE s == Append(b, c)
               d == out[w].written
               p == Changed(w, s, c, d)
    <3>3. /\ s \in Seq(Nat) /\ d \in BOOLEAN /\ c \in Nat
          /\ out \in [Writers -> WriterStates] /\ out' = p
      BY <1>1, <1>2, <3>1, <3>2
    <3> HIDE DEF s, d, p
    <3>4. /\ p \in [Writers -> WriterStates]
          /\ \A v \in Writers \ {w} : p[v] = out[v]
          /\ p[w].buf = s /\ p[w].puts = c
          /\ \A v \in Writers : /\ p[v].closed = out[v].closed
                                /\ p[v].isClosed = out[v].isClosed
                                /\ p[v].errno = out[v].errno
      BY <3>3, WriterSteps DEF p
    <3> QED BY <3>3, <3>4 DEF s
  <2>2. Counted' /\ Closing(out')
    BY <1>1, <2>1, SameOpen DEF Counted, Closing
  <2>3. ASSUME Unbroken' PROVE Whole(out', records')
    <3>1. Unbroken
      BY <2>1, <2>3 DEF Unbroken
    <3>2. Whole(out, records) /\ ~Ending(records)
      BY <1>4, <3>1, OpenUnended
    <3>3. Legible(records) /\ EndsLast(records)
      BY <3>2 DEF Whole
    <3>4. SentIn(w, records) \in Seq(Nat)
      BY <1>1, <3>3, SentInType DEF Sequential
    <3>5. SentIn(w, records) \o Append(b, c) = Numbers(c)
      <4>1. SentIn(w, records) \o b = Numbers(out[w].puts)
        BY <3>2 DEF Whole, b
      <4>2. out[w].puts \in Nat
        BY <1>1 DEF WriterStates
      <4> QED BY <1>2, <3>4, <4>1, <4>2, OneMore
    <3> QED BY <1>4, <2>1, <3>2, <3>5 DEF Whole
  <2> QED BY <1>1, <1>4, <2>1, <2>2, <2>3 DEF LibraryInv
<1>5. CASE /\ ~room /\ ~out[w].isClosed
           /\ Sends(Content(w))
           /\ out' = [out EXCEPT ![w].buf = <<c>>, ![w].puts = c,
                                 ![w].written = TRUE]
  <2>1. /\ out' \in [Writers -> WriterStates]
        /\ \A v \in Writers \ {w} : out'[v] = out[v]
        /\ out'[w].buf = <<c>> /\ out'[w].puts = c
        /\ \A v \in Writers : /\ out'[v].closed = out[v].closed
                              /\ out'[v].isClosed = out[v].isClosed
    <3>1. out' = Changed(w, <<c>>, c, TRUE)
      BY <1>5 DEF Changed
    <3> DEFINE s == <<c>>
               d == TRUE
               p == Changed(w, s, c, d)
    <3>3. /\ s \in Seq(Nat) /\ d \in BOOLEAN /\ c \in Nat
          /\ out \in [Writers -> WriterStates] /\ out' = p
      BY <1>1, <1>2, <3>1
    <3> HIDE DEF s, d, p
    <3>4. /\ p \in [Writers -> WriterStates]
          /\ \A v \in Writers \ {w} : p[v] = out[v]
          /\ p[w].buf = s /\ p[w].puts = c
          /\ \A v \in Writers : /\ p[v].closed = out[v].closed
                                /\ p[v].isClosed = out[v].isClosed
                                /\ p[v].errno = out[v].errno
      BY <3>3, WriterSteps DEF p
    <3> QED BY <3>3, <3>4 DEF s
  <2>2. Counted' /\ Closing(out')
    BY <1>1, <2>1, SameOpen DEF Counted, Closing
  <2>3. /\ Content(w) \in Seq(Made) /\ Holds(Content(w), w, b)
        /\ ~Ending(Content(w))
    BY <1>1, ContentHolds DEF b
  <2>4. ~out[w].closed
    BY <1>1, <1>5 DEF Closing
  <2>5. Unbroken /\ Whole(out, records) /\ ~Ending(records)
    BY <1>5, <2>4, OpenUnended DEF Sends
  <2>6. \A v \in Writers :
          \/ /\ out'[v].puts = out[v].puts
             /\ SentIn(v, Content(w)) \o out'[v].buf = out[v].buf
          \/ /\ out'[v].puts = out[v].puts + 1
             /\ SentIn(v, Content(w)) \o out'[v].buf
                  = Append(out[v].buf, out[v].puts + 1)
    <3>1. SentIn(w, Content(w)) \o <<c>> = Append(b, c)
      BY <1>2, <2>3, AppendNumber DEF Holds
    <3>2. \A v \in Writers \ {w} :
            SentIn(v, Content(w)) \o out[v].buf = out[v].buf
      BY <1>1, <2>3, ConcatEmptySeq DEF Holds, WriterStates
    <3>3. out[w].buf = b /\ out[w].puts + 1 = c
      BY <1>1, <1>2 DEF b, WriterStates
    <3>4. SentIn(w, Content(w)) \o out'[w].buf
            = Append(out[w].buf, out[w].puts + 1)
      BY <2>1, <3>1, <3>3
    <3>5. out'[w].puts = out[w].puts + 1
      BY <2>1, <3>3
    <3> QED BY <2>1, <3>2, <3>4, <3>5
  <2>7. /\ \A v \in Writers : out'[v].closed => out'[v].buf = <<>>
        /\ (Ending(records) \/ Ending(Content(w)))
             <=> \A v \in Writers : out'[v].closed
    BY <2>1, <2>3, <2>4, <2>5 DEF Whole
  <2>8. Sequential(Content(w)) /\ Legible(Content(w)) /\ EndsLast(Content(w))
    BY <2>3 DEF Sequential, Holds
  <2> QED BY <1>5, <2>1, <2>2, <2>5, <2>6, <2>7, <2>8, AnswerGoesOn
<1>6. CASE /\ UNCHANGED records
           /\ out' = [out EXCEPT ![w] = SetError(@, "os")]
  <2>1. /\ out' \in [Writers -> WriterStates] /\ Closing(out') /\ ~Unbroken'
        /\ \A v \in Writers : out'[v].closed = out[v].closed
    BY <1>6, FailingWriter
  <2>2. Counted'
    BY <1>1, <2>1, SameOpen DEF Counted
  <2> QED BY <1>6, <2>1, <2>2, AnswerBroken
<1> QED BY <1>3, <1>4, <1>5, <1>6

LEMMA FlushKeeps ==
  ASSUME LibraryInv, NEW w \in Writers, FFlush(w) PROVE LibraryInv'
<1> DEFINE b == out[w].buf
           c == out[w].puts
<1>1. /\ out \in [Writers -> WriterStates] /\ Closing(out) /\ Counted
      /\ Sequential(records) /\ UNCHANGED stage /\ UNCHANGED req
      /\ ~out[w].isClosed
  BY DEF LibraryInv, FFlush, request
<1>2. b \in Seq(Nat) /\ c \in Nat /\ <<>> \in Seq(Nat) /\ b \o <<>> = b
  <2>1. b \in Seq(Nat) /\ c \in Nat
    BY <1>1 DEF WriterStates
  <2> HIDE DEF b, c
  <2> QED BY <2>1, ConcatEmptySeq
<1>3. \/ /\ Sends(Content(w))
         /\ out' = [out EXCEPT ![w].buf = <<>>, ![w].written = TRUE]
      \/ /\ UNCHANGED records
         /\ out' = [out EXCEPT ![w] = SetError(@, "os")]
  BY DEF FFlush, WriteFails
<1>4. CASE /\ Sends(Content(w))
           /\ out' = [out EXCEPT ![w].buf = <<>>, ![w].written = TRUE]
  <2>1. /\ out' \in [Writers -> WriterStates]
        /\ \A v \in Writers \ {w} : out'[v] = out[v]
        /\ out'[w].buf = <<>> /\ out'[w].puts = c
        /\ \A v \in Writers : /\ out'[v].closed = out[v].closed
                              /\ out'[v].isClosed = out[v].isClosed
    <3>1. out' = Changed(w, <<>>, c, TRUE)
      BY <1>1, <1>4, Assigned
    <3> DEFINE s == <<>>
               d == TRUE
               p == Changed(w, s, c, d)
    <3>3. /\ s \in Seq(Nat) /\ d \in BOOLEAN /\ c \in Nat
          /\ out \in [Writers -> WriterStates] /\ out' = p
      BY <1>1, <1>2, <3>1
    <3> HIDE DEF s, d, p, c
    <3>4. /\ p \in [Writers -> WriterStates]
          /\ \A v \in Writers \ {w} : p[v] = out[v]
          /\ p[w].buf = s /\ p[w].puts = c
          /\ \A v \in Writers : /\ p[v].closed = out[v].closed
                                /\ p[v].isClosed = out[v].isClosed
                                /\ p[v].errno = out[v].errno
      BY <3>3, WriterSteps DEF p
    <3> QED BY <3>3, <3>4 DEF s
  <2>2. Counted' /\ Closing(out')
    BY <1>1, <2>1, SameOpen DEF Counted, Closing
  <2>3. /\ Content(w) \in Seq(Made) /\ Holds(Content(w), w, b)
        /\ ~Ending(Content(w))
    BY <1>1, ContentHolds
  <2>4. ~out[w].closed
    BY <1>1 DEF Closing
  <2>5. Unbroken /\ Whole(out, records) /\ ~Ending(records)
    BY <1>4, <2>4, OpenUnended DEF Sends
  <2>6. \A v \in Writers : /\ out'[v].puts = out[v].puts
                           /\ SentIn(v, Content(w)) \o out'[v].buf = out[v].buf
    <3>1. SentIn(w, Content(w)) \o <<>> = b
      BY <1>2, <2>3 DEF Holds
    <3>2. \A v \in Writers \ {w} :
            SentIn(v, Content(w)) \o out[v].buf = out[v].buf
      BY <1>1, <2>3, ConcatEmptySeq DEF Holds, WriterStates
    <3> QED BY <2>1, <3>1, <3>2
  <2>7. /\ \A v \in Writers : out'[v].closed => out'[v].buf = <<>>
        /\ (Ending(records) \/ Ending(Content(w)))
             <=> \A v \in Writers : out'[v].closed
    BY <2>1, <2>3, <2>4, <2>5 DEF Whole
  <2>8. Sequential(Content(w)) /\ Legible(Content(w)) /\ EndsLast(Content(w))
    BY <2>3 DEF Sequential, Holds
  <2> QED BY <1>4, <2>1, <2>2, <2>5, <2>6, <2>7, <2>8, AnswerGoesOn
<1>5. CASE /\ UNCHANGED records
           /\ out' = [out EXCEPT ![w] = SetError(@, "os")]
  <2>1. /\ out' \in [Writers -> WriterStates] /\ Closing(out') /\ ~Unbroken'
        /\ \A v \in Writers : out'[v].closed = out[v].closed
    BY <1>5, FailingWriter
  <2>2. Counted'
    BY <1>1, <2>1, SameOpen DEF Counted
  <2> QED BY <1>5, <2>1, <2>2, AnswerBroken
<1> QED BY <1>3, <1>4, <1>5

LEMMA ClosedWriterIs ==
  ASSUME out \in [Writers -> WriterStates], NEW w \in Writers,
         NEW e \in {NoError, "os"}
  PROVE  /\ ClosedWriter(w, e) \in WriterStates
         /\ ClosedWriter(w, e).closed /\ ClosedWriter(w, e).isClosed
         /\ ClosedWriter(w, e).puts = out[w].puts
         /\ e = NoError => ClosedWriter(w, e).buf = <<>>
         /\ e # NoError \/ out[w].errno # NoError
              => ClosedWriter(w, e).errno # NoError
<1> DEFINE x == out[w]
           b == IF e = NoError THEN <<>> ELSE x.buf
           f == IF x.errno = NoError THEN e ELSE x.errno
           y == [x EXCEPT !.closed = TRUE, !.isClosed = TRUE, !.buf = b,
                          !.errno = f]
<1>1. x \in WriterStates
  OBVIOUS
<1>2. ClosedWriter(w, e) = y
  BY <1>1 DEF ClosedWriter, WriterStates
<1>3. b \in Seq(Nat) /\ f \in {NoError, "os"} /\ (e = NoError => b = <<>>)
      /\ (e # NoError \/ x.errno # NoError => f # NoError)
  BY <1>1 DEF WriterStates
<1> HIDE DEF x, b, f
<1>4. /\ y \in WriterStates /\ y.closed /\ y.isClosed /\ y.puts = x.puts
      /\ y.buf = b /\ y.errno = f
  BY <1>1, <1>3 DEF WriterStates
<1> HIDE DEF y
<1> QED BY <1>2, <1>3, <1>4 DEF x

LEMMA WriterCloseKeeps ==
  ASSUME LibraryInv, NEW w \in Writers, FClose(w) PROVE LibraryInv'
<1> DEFINE recs == WriteCloseRecords(w, req.nWriters)
<1>1. /\ out \in [Writers -> WriterStates] /\ Closing(out) /\ Counted
      /\ Sequential(records) /\ stage = "serve" /\ UNCHANGED stage
      /\ ~out[w].closed /\ req' = [req EXCEPT !.nWriters = @ - 1]
  BY DEF LibraryInv, FClose
<1>2. \E e \in {NoError, "os"} :
        /\ out' = [out EXCEPT ![w] = ClosedWriter(w, e)]
        /\ \/ e = NoError /\ Sends(recs)
           \/ records' = records /\ (e # NoError \/ ~Unbroken)
  <2>1. \/ /\ Sends(recs)
           /\ out' = [out EXCEPT ![w] = ClosedWriter(w, NoError)]
        \/ /\ records' = records
           /\ out' = [out EXCEPT ![w] = ClosedWriter(w, "os")]
        \/ /\ records' = records /\ ~Unbroken
           /\ out' = [out EXCEPT ![w] = ClosedWriter(w, NoError)]
    BY DEF FClose, WriteFails
  <2>2. "os" # NoError
    BY DEF NoError
  <2> HIDE DEF recs
  <2> QED BY <2>1, <2>2, Zenon
<1>3. PICK e \in {NoError, "os"} :
        /\ out' = [out EXCEPT ![w] = ClosedWriter(w, e)]
        /\ \/ e = NoError /\ Sends(recs)
           \/ records' = records /\ (e # NoError \/ ~Unbroken)
  BY <1>2
<1>4. /\ recs \in Seq(Made) /\ Holds(recs, w, out[w].buf)
      /\ Ending(recs) <=> req.nWriters = 1
  BY <1>1, CloseHolds
<1> HIDE DEF recs
<1>5. /\ out' \in [Writers -> WriterStates]
      /\ \A v \in Writers \ {w} : out'[v] = out[v]
      /\ out'[w] = ClosedWriter(w, e)
  BY <1>1, <1>3, ClosedWriterIs
<1>6. /\ out'[w].closed /\ out'[w].isClosed /\ out'[w].puts = out[w].puts
      /\ e = NoError => out'[w].buf = <<>>
      /\ e # NoError \/ out[w].errno # NoError => out'[w].errno # NoError
  BY <1>1, <1>5, ClosedWriterIs
<1>7. Closing(out')
  BY <1>1, <1>5, <1>6 DEF Closing
<1>8. /\ req.nWriters = Open(out) /\ Open(out') = Open(out) - 1
      /\ Open(out) = 1 <=> \A v \in Writers \ {w} : out[v].closed
  BY <1>1, <1>5, <1>6 DEF Counted, Open, Writers
<1>9. Counted'
  BY <1>1, <1>8 DEF Counted
<1>10. CASE records' = records /\ (e # NoError \/ ~Unbroken)
  <2>1. ~Unbroken'
    BY <1>5, <1>6, <1>10 DEF Unbroken
  <2> QED BY <1>5, <1>7, <1>9, <1>10, <2>1, AnswerBroken
<1>11. CASE e = NoError /\ Sends(recs)
  <2>1. Sends(recs) /\ Unbroken
    BY <1>11 DEF Sends
  <2>2. Whole(out, records) /\ ~Ending(records)
    BY <1>1, <2>1, OpenUnended
  <2>3. \A v \in Writers : /\ out'[v].puts = out[v].puts
                           /\ SentIn(v, recs) \o out'[v].buf = out[v].buf
    <3>1. SentIn(w, recs) \o <<>> = out[w].buf
      BY <1>1, <1>4, ConcatEmptySeq DEF Holds, WriterStates
    <3>2. \A v \in Writers \ {w} :
            SentIn(v, recs) \o out[v].buf = out[v].buf
      BY <1>1, <1>4, ConcatEmptySeq DEF Holds, WriterStates
    <3> QED BY <1>5, <1>6, <1>11, <3>1, <3>2
  <2>4. \A v \in Writers : out'[v].closed => out'[v].buf = <<>>
    BY <1>5, <1>6, <1>11, <2>2 DEF Whole
  <2>5. (Ending(records) \/ Ending(recs)) <=> \A v \in Writers : out'[v].closed
    BY <1>4, <1>5, <1>6, <1>8, <2>2
  <2>6. Sequential(recs) /\ Legible(recs) /\ EndsLast(recs)
    BY <1>4 DEF Sequential, Holds
  <2> QED BY <1>5, <1>7, <1>9, <2>1, <2>2, <2>3, <2>4, <2>5, <2>6, AnswerGoesOn
<1> QED BY <1>3, <1>10, <1>11

\* What FClose sends of a writer in FCGX_Finish_r: nothing when it is closed.
LEMMA FinishHolds ==
  ASSUME out \in [Writers -> WriterStates], NEW w \in Writers, NEW n,
         out[w].closed => out[w].buf = <<>>, NEW q,
         q = IF out[w].closed THEN <<>> ELSE WriteCloseRecords(w, n)
  PROVE  /\ q \in Seq(Made) /\ Holds(q, w, out[w].buf)
         /\ Ending(q) <=> ~out[w].closed /\ n = 1
<1>1. CASE out[w].closed
  BY <1>1, NoRecord DEF Holds
<1>2. CASE ~out[w].closed
  BY <1>2, CloseHolds
<1> QED BY <1>1, <1>2

LEMMA FinishKeeps ==
  ASSUME LibraryInv, Finish PROVE LibraryInv'
<1> DEFINE n == req.nWriters
           errRecs == IF out["stderr"].closed THEN <<>>
                      ELSE WriteCloseRecords("stderr", n)
           left == IF out["stderr"].closed THEN n ELSE n - 1
           outRecs == IF out["stdout"].closed THEN <<>>
                      ELSE WriteCloseRecords("stdout", left)
<1>1. /\ out \in [Writers -> WriterStates] /\ Closing(out) /\ Counted
      /\ Sequential(records) /\ stage = "serve" /\ stage' = "accept"
      /\ req' = [req EXCEPT !.nWriters = 0]
  BY DEF LibraryInv, Finish
<1>2. PICK e \in {NoError, "os"}, o \in {NoError, "os"} :
        /\ out' = [stderr |-> ClosedWriter("stderr", e),
                   stdout |-> ClosedWriter("stdout", o)]
        /\ \/ Sends(errRecs \o outRecs) /\ e = NoError /\ o = NoError
           \/ /\ Sends(errRecs) /\ outRecs # <<>>
              /\ e = NoError /\ o # NoError
           \/ /\ records' = records
              /\ e # NoError \/ o # NoError \/ ~Unbroken
  <2>1. "os" # NoError
    BY DEF NoError
  <2>2. \/ /\ Sends(errRecs \o outRecs)
           /\ out' = [stderr |-> ClosedWriter("stderr", NoError),
                      stdout |-> ClosedWriter("stdout", NoError)]
        \/ /\ Sends(errRecs) /\ outRecs # <<>>
           /\ out' = [stderr |-> ClosedWriter("stderr", NoError),
                      stdout |-> ClosedWriter("stdout", "os")]
        \/ /\ records' = records /\ (errRecs \o outRecs = <<>> => ~Unbroken)
           /\ out' = [stderr |-> ClosedWriter("stderr",
                                   IF errRecs = <<>> THEN NoError ELSE "os"),
                      stdout |-> ClosedWriter("stdout",
                                   IF outRecs = <<>> THEN NoError ELSE "os")]
    BY DEF Finish, WriteFails
  <2>3. <<>> \o <<>> = <<>>
    OBVIOUS
  <2> HIDE DEF errRecs, outRecs
  <2> QED BY <2>1, <2>2, <2>3
<1>3. Counted'
  BY <1>1 DEF Counted, Stages
<1>4. /\ out' \in [Writers -> WriterStates] /\ Closing(out')
      /\ \A w \in Writers : /\ out'[w].closed /\ out'[w].puts = out[w].puts
      /\ e = NoError => out'["stderr"].buf = <<>>
      /\ o = NoError => out'["stdout"].buf = <<>>
      /\ e # NoError \/ o # NoError \/ ~Unbroken => ~Unbroken'
  <2> DEFINE x == ClosedWriter("stderr", e)
             y == ClosedWriter("stdout", o)
  <2>1. /\ x \in WriterStates /\ x.closed /\ x.isClosed
        /\ x.puts = out["stderr"].puts
        /\ e = NoError => x.buf = <<>>
        /\ e # NoError \/ out["stderr"].errno # NoError => x.errno # NoError
    BY <1>1, ClosedWriterIs DEF Writers
  <2>2. /\ y \in WriterStates /\ y.closed /\ y.isClosed
        /\ y.puts = out["stdout"].puts
        /\ o = NoError => y.buf = <<>>
        /\ o # NoError \/ out["stdout"].errno # NoError => y.errno # NoError
    BY <1>1, ClosedWriterIs DEF Writers
  <2>3. out' = [stderr |-> x, stdout |-> y]
    BY <1>2
  <2> HIDE DEF x, y
  <2>4. /\ out' \in [Writers -> WriterStates]
        /\ out'["stderr"] = x /\ out'["stdout"] = y
    BY <2>1, <2>2, <2>3 DEF Writers
  <2> QED BY <2>1, <2>2, <2>4 DEF Closing, Unbroken, Writers
<1>5. CASE records' = records /\ (e # NoError \/ o # NoError \/ ~Unbroken)
  BY <1>3, <1>4, <1>5, AnswerBroken
<1>6. CASE /\ Unbroken
           /\ ~(records' = records /\ (e # NoError \/ o # NoError \/ ~Unbroken))
  <2>1. Whole(out, records)
    BY <1>6 DEF LibraryInv
  <2>2. \A w \in Writers : out[w].closed => out[w].buf = <<>>
    BY <2>1 DEF Whole
  <2>3. /\ errRecs \in Seq(Made) /\ Holds(errRecs, "stderr", out["stderr"].buf)
        /\ Ending(errRecs) <=> ~out["stderr"].closed /\ n = 1
    BY <1>1, <2>2, FinishHolds DEF Writers
  <2>4. /\ outRecs \in Seq(Made) /\ Holds(outRecs, "stdout", out["stdout"].buf)
        /\ Ending(outRecs) <=> ~out["stdout"].closed /\ left = 1
    BY <1>1, <2>2, FinishHolds DEF Writers
  <2>5. n = Open(out)
    BY <1>1 DEF Counted
  <2>6. /\ ~out["stdout"].closed => left = 1 /\ ~Ending(errRecs)
        /\ out["stdout"].closed /\ ~out["stderr"].closed => n = 1
    BY <2>3, <2>5 DEF Open
  <2>7. out["stdout"].closed => outRecs = <<>>
    OBVIOUS
  <2>8. out["stderr"].closed => errRecs = <<>>
    OBVIOUS
  <2>9. Ending(records) <=> out["stdout"].closed /\ out["stderr"].closed
    BY <2>1 DEF Whole, Writers
  <2> HIDE DEF errRecs, outRecs, n, left
  <2>10. ~Ending(errRecs) \/ Quiet(outRecs)
    BY <2>6, <2>7, NoRecord
  <2>11. CASE Sends(errRecs \o outRecs) /\ e = NoError /\ o = NoError
    <3> DEFINE q == errRecs \o outRecs
    <3>1. q \in Seq(Made) /\ Legible(q) /\ EndsLast(q)
          /\ (Ending(q) <=> Ending(errRecs) \/ Ending(outRecs))
      <4>1. EndsLast(q) /\ (Ending(q) <=> Ending(errRecs) \/ Ending(outRecs))
        BY <2>3, <2>4, <2>10, TwoParts DEF Holds
      <4>2. Legible(q)
        BY <2>3, <2>4, SentInBoth DEF Holds, Writers
      <4> QED BY <2>3, <2>4, <4>1, <4>2, ConcatProperties
    <3>2. ASSUME NEW v \in Writers
          PROVE  SentIn(v, q) \o out'[v].buf = out[v].buf
      <4>1. SentIn(v, q) = SentIn(v, errRecs) \o SentIn(v, outRecs)
        BY <2>3, <2>4, SentInBoth DEF Holds
      <4>2. SentIn(v, errRecs) = IF v = "stderr" THEN out[v].buf ELSE <<>>
        BY <2>3 DEF Holds
      <4>3. SentIn(v, outRecs) = IF v = "stdout" THEN out[v].buf ELSE <<>>
        BY <2>4 DEF Holds
      <4>4. out[v].buf \in Seq(Nat) /\ out'[v].buf = <<>>
        BY <1>1, <1>4, <2>11 DEF WriterStates, Writers
      <4>5. out[v].buf \o <<>> = out[v].buf /\ <<>> \o out[v].buf = out[v].buf
        BY <4>4, ConcatEmptySeq
      <4>6. SentIn(v, q) = out[v].buf
        BY <4>1, <4>2, <4>3, <4>5 DEF Writers
      <4> QED BY <4>4, <4>5, <4>6
    <3>3. Ending(records) \/ Ending(q)
      BY <2>3, <2>4, <2>6, <2>9, <3>1
    <3>4. ~Ending(records) \/ Quiet(q)
      <4>1. CASE Ending(records)
        <5>1. q = <<>> \o <<>>
          BY <2>7, <2>8, <2>9, <4>1
        <5>2. <<>> \o <<>> = <<>>
          OBVIOUS
        <5> QED BY <5>1, <5>2, NoRecord
      <4> QED BY <4>1
    <3>5. \A v \in Writers : out'[v].closed => out'[v].buf = <<>>
      BY <1>4, <2>11 DEF Writers
    <3>6. Sends(q)
      BY <2>11
    <3>7. Sequential(q)
      BY <3>1 DEF Sequential
    <3> HIDE DEF q
    <3> QED BY <1>3, <1>4, <3>1, <3>2, <3>3, <3>4, <3>5, <3>6, <3>7,
               AnswerGoesOn
  <2>12. CASE Sends(errRecs) /\ outRecs # <<>> /\ o # NoError
    <3>1. ~Ending(records) /\ ~Unbroken'
      BY <1>4, <2>7, <2>9, <2>12
    <3>2. Sequential(errRecs) /\ Legible(errRecs) /\ EndsLast(errRecs)
      BY <2>3 DEF Sequential, Holds
    <3> QED BY <1>3, <1>4, <2>12, <3>1, <3>2, AnswerGoesOn
  <2> QED BY <1>2, <1>6, <2>11, <2>12 DEF errRecs, outRecs
<1>7. \/ Unbroken
      \/ records' = records /\ (e # NoError \/ o # NoError \/ ~Unbroken)
  BY <1>2 DEF Sends
<1> QED BY <1>5, <1>6, <1>7

LEMMA LibraryInvNext == LibraryInv /\ [LibraryNext]_libraryVars => LibraryInv'
<1> SUFFICES ASSUME LibraryInv, [LibraryNext]_libraryVars PROVE LibraryInv'
  OBVIOUS
<1>1. CASE PeerCloses \/ FillLoop \/ ReadFails \/ NeedFill \/ TakeByte
           \/ BeginCutOff \/ GetEof \/ BeginRead \/ BeginFails
           \/ ParamsRead \/ ParamsFail
           \/ CallGetChar \/ UnGetChar \/ StartFilterData
  BY <1>1, ReadingKeeps
<1>2. CASE ProcessHeader
  BY <1>2, HeaderKeeps
<1>3. CASE ValuesEnd
  BY <1>3, ValuesKeep
<1>4. CASE Accept_r
  BY <1>4, AcceptKeeps
<1>5. CASE Finish
  BY <1>5, FinishKeeps
<1>6. ASSUME NEW w \in Writers, PutChar(w) \/ FFlush(w) \/ FClose(w)
      PROVE  LibraryInv'
  BY <1>6, PutKeeps, FlushKeeps, WriterCloseKeeps
<1>7. CASE UNCHANGED libraryVars
  <2>1. UNCHANGED answer /\ UNCHANGED <<stage, req, out>>
    BY <1>7 DEF libraryVars, request, answer
  <2>2. Counted'
    BY <2>1 DEF LibraryInv, Counted
  <2> QED BY <2>1, <2>2, AnswerKept
<1> QED BY <1>1, <1>2, <1>3, <1>4, <1>5, <1>6, <1>7
        DEF LibraryNext, Library, Application

LEMMA LibraryInvIntact == LibraryInv => AnswerIntact
<1> SUFFICES ASSUME LibraryInv, Unbroken PROVE AnswerIntact
  BY DEF AnswerIntact
<1>1. Whole(out, records)
  BY DEF LibraryInv
<1>2. \A w \in Writers : SentOn(w) = SentIn(w, records)
  BY DEF SentOn, SentIn, Parts, PartOf
<1>3. \A w \in Writers : SentOn(w) \o out[w].buf = Numbers(out[w].puts)
  BY <1>1, <1>2 DEF Whole
<1>4. Ending(records) <=> \A w \in Writers : out[w].closed
  BY <1>1 DEF Whole
<1>5. EndsLast(records)
  BY <1>1 DEF Whole
<1> HIDE DEF SentOn
<1> QED BY <1>3, <1>4, <1>5 DEF AnswerIntact, Numbers, Ending, EndsLast

\* AnswerIntact, for all sizes, whatever a web server sends: PutChar, FFlush,
\* FClose and Finish put each character into one record, in order, and
\* END_REQUEST behind the last record of both streams.
THEOREM AnswerWhole == LibrarySpec => []AnswerIntact
<1>1. LibrarySpec => []LibraryInv
  BY LibraryInvInit, LibraryInvNext, PTL DEF LibrarySpec
<1> QED BY <1>1, LibraryInvIntact, PTL

-----------------------------------------------------------------------------
(* The bytes of a connection.                                               *)

IsBefore(f, w, n) ==
  f = [k \in 0 .. n |-> IF k = 0 THEN 0 ELSE f[k - 1] + RecordSize(w[k])]

BytesUpTo(w) ==
  LET f[n \in 0 .. Len(w)] ==
        IF n = 0 THEN 0 ELSE f[n - 1] + RecordSize(w[n])
  IN  f

\* f adds up the sizes of the first n records of w.
AddsUp(f, w, n) ==
  /\ f \in [0 .. n -> Nat] /\ f[0] = 0
  /\ \A k \in 1 .. n : f[k] = f[k - 1] + RecordSize(w[k])

LEMMA RecordSizes ==
  ASSUME NEW r \in Sent
  PROVE  RecordSize(r) = HeaderSize + Len(r.content) + r.padding
         /\ RecordSize(r) \in Nat /\ RecordSize(r) >= HeaderSize
BY LibraryAssumption DEF RecordSize, Sent

LEMMA BeforeExists ==
  ASSUME NEW w \in Seq(Sent)
  PROVE  \E f : IsBefore(f, w, Len(w)) /\ AddsUp(f, w, Len(w))
<1> DEFINE P(k) == \E f : IsBefore(f, w, k) /\ AddsUp(f, w, k)
           T == {k \in Nat : k <= Len(w) /\ ~P(k)}
<1>1. SUFFICES ASSUME T # {} PROVE FALSE
  <2>1. Len(w) \in Nat /\ Len(w) <= Len(w)
    OBVIOUS
  <2>2. T = {} => P(Len(w))
    <3> HIDE DEF P
    <3> QED BY <2>1
  <2> QED BY <2>2
<1>2. PICK k \in T : \A j \in T : k <= j
  <2>1. T \subseteq Nat
    OBVIOUS
  <2> HIDE DEF T
  <2> QED BY <1>1, <2>1, LeastNumber
<1>3. k \in Nat /\ k <= Len(w) /\ ~P(k)
  BY <1>2
<1>4. k # 0
  <2> DEFINE e == [j \in 0 .. 0 |-> 0]
  <2>1. IsBefore(e, w, 0) /\ AddsUp(e, w, 0)
    BY DEF IsBefore, AddsUp
  <2> QED BY <2>1, <1>3
<1>5. k - 1 \in Nat /\ k - 1 <= Len(w) /\ k - 1 \notin T
  BY <1>2, <1>3, <1>4
<1>6. P(k - 1)
  BY <1>5
<1>7. PICK f : IsBefore(f, w, k - 1) /\ AddsUp(f, w, k - 1)
  BY <1>6
<1> HIDE DEF P, T
<1> DEFINE g == [j \in 0 .. k |->
                   IF j = 0 THEN 0 ELSE f[j - 1] + RecordSize(w[j])]
<1>8. \A j \in 0 .. k - 1 : g[j] = f[j]
  BY <1>3, <1>4, <1>7 DEF AddsUp
<1>9. \A j \in 1 .. k : w[j] \in Sent
  BY <1>3
<1>10. \A j \in 1 .. k : f[j - 1] \in Nat /\ RecordSize(w[j]) \in Nat
  BY <1>3, <1>4, <1>7, <1>9, RecordSizes DEF AddsUp
<1>11. IsBefore(g, w, k)
  <2>1. \A j \in 0 .. k : j # 0 => g[j - 1] = f[j - 1]
    <3> HIDE DEF g
    <3> QED BY <1>3, <1>8
  <2>2. g = [j \in 0 .. k |-> IF j = 0 THEN 0 ELSE g[j - 1] + RecordSize(w[j])]
    BY <2>1
  <2> QED BY <2>2 DEF IsBefore
<1>12. AddsUp(g, w, k)
  <2>1. \A j \in 1 .. k : g[j] = f[j - 1] + RecordSize(w[j]) /\ g[j] \in Nat
    BY <1>10
  <2>2. g \in [0 .. k -> Nat] /\ g[0] = 0
    BY <1>10, <1>3
  <2>3. \A j \in 1 .. k : f[j - 1] = g[j - 1]
    <3> HIDE DEF g
    <3> QED BY <1>3, <1>8
  <2> HIDE DEF g
  <2> QED BY <2>1, <2>2, <2>3 DEF AddsUp
<1> QED BY <1>3, <1>11, <1>12 DEF P

LEMMA BeforeIs ==
  ASSUME NEW w \in Seq(Sent)
  PROVE  AddsUp(BytesUpTo(w), w, Len(w))
<1> DEFINE b == CHOOSE f : IsBefore(f, w, Len(w))
<1>1. IsBefore(b, w, Len(w))
  BY BeforeExists
<1>2. b = BytesUpTo(w)
  BY DEF BytesUpTo, IsBefore
<1> HIDE DEF b
<1>3. PICK f : IsBefore(f, w, Len(w)) /\ AddsUp(f, w, Len(w))
  BY BeforeExists
<1> DEFINE T == {k \in 0 .. Len(w) : b[k] # f[k]}
<1>4. T = {}
  <2>1. SUFFICES ASSUME T # {} PROVE FALSE
    OBVIOUS
  <2>2. PICK k \in T : \A j \in T : k <= j
    <3>1. T \subseteq Nat
      OBVIOUS
    <3> HIDE DEF T
    <3> QED BY <2>1, <3>1, LeastNumber
  <2>3. \A j \in 0 .. Len(w) :
          /\ b[j] = IF j = 0 THEN 0 ELSE b[j - 1] + RecordSize(w[j])
          /\ f[j] = IF j = 0 THEN 0 ELSE f[j - 1] + RecordSize(w[j])
    <3> DEFINE e(g) == [j \in 0 .. Len(w) |->
                          IF j = 0 THEN 0 ELSE g[j - 1] + RecordSize(w[j])]
    <3>1. b = e(b) /\ f = e(f)
      BY <1>1, <1>3 DEF IsBefore
    <3>2. \A g : \A j \in 0 .. Len(w) :
            e(g)[j] = IF j = 0 THEN 0 ELSE g[j - 1] + RecordSize(w[j])
      OBVIOUS
    <3> HIDE DEF e
    <3> QED BY <3>1, <3>2
  <2>4. k # 0 => b[k - 1] = f[k - 1]
    BY <2>2
  <2> QED BY <2>2, <2>3, <2>4
<1>5. \A k \in 0 .. Len(w) : b[k] = f[k]
  BY <1>4
<1>6. b = [k \in 0 .. Len(w) |-> b[k]]
  BY <1>1 DEF IsBefore
<1>7. b = f
  BY <1>3, <1>5, <1>6 DEF AddsUp
<1> QED BY <1>2, <1>3, <1>7

LEMMA BeforeGrows ==
  ASSUME NEW w \in Seq(Sent), NEW m \in 0 .. Len(w), NEW n \in 0 .. Len(w),
         m <= n
  PROVE  BytesUpTo(w)[m] <= BytesUpTo(w)[n]
<1>1. AddsUp(BytesUpTo(w), w, Len(w))
  BY BeforeIs
<1> DEFINE T == {k \in Nat : m + k <= Len(w) /\ BytesUpTo(w)[m + k] < BytesUpTo(w)[m]}
<1>2. SUFFICES T = {}
  <2>1. n - m \in Nat /\ m + (n - m) = n
    OBVIOUS
  <2>2. ~(m + (n - m) <= Len(w) /\ BytesUpTo(w)[m + (n - m)] < BytesUpTo(w)[m])
    BY <1>2, <2>1
  <2>3. BytesUpTo(w)[m] \in Nat /\ BytesUpTo(w)[n] \in Nat
    BY <1>1 DEF AddsUp
  <2> QED BY <2>1, <2>2, <2>3
<1>3. SUFFICES ASSUME T # {} PROVE FALSE
  OBVIOUS
<1>4. PICK k \in T : \A j \in T : k <= j
  <2>1. T \subseteq Nat
    OBVIOUS
  <2> HIDE DEF T
  <2> QED BY <1>3, <2>1, LeastNumber
<1>5. k \in Nat /\ m + k <= Len(w) /\ BytesUpTo(w)[m + k] < BytesUpTo(w)[m]
  BY <1>4
<1>6. BytesUpTo(w)[m] \in Nat
  BY <1>1 DEF AddsUp
<1>7. k # 0
  BY <1>5, <1>6
<1>8. k - 1 \in Nat /\ k - 1 \notin T /\ m + (k - 1) = m + k - 1
  <2>1. k - 1 \in Nat /\ ~(k <= k - 1) /\ m + (k - 1) = m + k - 1
    BY <1>5, <1>7
  <2> HIDE DEF T
  <2> QED BY <1>4, <2>1
<1>9. BytesUpTo(w)[m + k] = BytesUpTo(w)[m + k - 1] + RecordSize(w[m + k])
      /\ BytesUpTo(w)[m + k - 1] \in Nat
  BY <1>1, <1>5, <1>7, SMTT(20) DEF AddsUp
<1>10. RecordSize(w[m + k]) \in Nat
  <2>1. m + k \in 1 .. Len(w)
    BY <1>5, <1>7
  <2> QED BY <2>1, RecordSizes
<1>11. BytesUpTo(w)[m + k - 1] >= BytesUpTo(w)[m]
  BY <1>5, <1>6, <1>8, <1>9
<1> QED BY <1>5, <1>6, <1>9, <1>10, <1>11

\* What is appended only adds to the bytes.
LEMMA BeforeLonger ==
  ASSUME NEW w \in Seq(Sent), NEW v \in Seq(Sent)
  PROVE  BytesUpTo(w)[Len(w)] <= BytesUpTo(w \o v)[Len(w \o v)]
<1> DEFINE u == w \o v
<1>1. u \in Seq(Sent) /\ Len(u) = Len(w) + Len(v)
      /\ \A i \in 1 .. Len(w) : u[i] = w[i]
  BY ConcatProperties
<1>2. AddsUp(BytesUpTo(w), w, Len(w)) /\ AddsUp(BytesUpTo(u), u, Len(u))
  BY <1>1, BeforeIs
<1> HIDE DEF u
<1> DEFINE T == {k \in 0 .. Len(w) : BytesUpTo(w)[k] # BytesUpTo(u)[k]}
<1>3. ASSUME T # {} PROVE FALSE
  <2>1. PICK k \in T : \A j \in T : k <= j
    <3>1. T \subseteq Nat
      OBVIOUS
    <3> HIDE DEF T
    <3> QED BY <1>3, <3>1, LeastNumber
  <2>2. k \in 0 .. Len(w) /\ BytesUpTo(w)[k] # BytesUpTo(u)[k]
    BY <2>1
  <2>3. k # 0
    BY <1>2, <2>2 DEF AddsUp
  <2>4. k - 1 \notin T /\ k - 1 \in 0 .. Len(w)
    BY <2>1, <2>2, <2>3
  <2>5. BytesUpTo(w)[k - 1] = BytesUpTo(u)[k - 1]
    BY <2>4
  <2>6. k \in 1 .. Len(w) /\ k \in 1 .. Len(u)
    BY <1>1, <2>2, <2>3
  <2>7. BytesUpTo(w)[k] = BytesUpTo(w)[k - 1] + RecordSize(w[k])
        /\ BytesUpTo(u)[k] = BytesUpTo(u)[k - 1] + RecordSize(u[k])
    BY <1>2, <2>6 DEF AddsUp
  <2> QED BY <1>1, <2>2, <2>5, <2>6, <2>7
<1>4. BytesUpTo(w)[Len(w)] = BytesUpTo(u)[Len(w)]
  BY <1>3
<1>5. Len(w) \in 0 .. Len(u) /\ Len(u) \in 0 .. Len(u) /\ Len(w) <= Len(u)
  BY <1>1
<1>6. BytesUpTo(u)[Len(w)] <= BytesUpTo(u)[Len(u)]
  BY <1>1, <1>5, BeforeGrows
<1> QED BY <1>4, <1>6 DEF u

WhereIn(w, i) ==
  LET b == BytesUpTo(w)
      r == CHOOSE n \in 1 .. Len(w) : b[n - 1] < i /\ i <= b[n]
  IN  <<r, i - b[r - 1]>>

LEMMA WhereIs ==
  ASSUME NEW w \in Seq(Sent), NEW n \in 1 .. Len(w),
         NEW k \in 1 .. RecordSize(w[n])
  PROVE  WhereIn(w, BytesUpTo(w)[n - 1] + k) = <<n, k>>
<1> DEFINE b == BytesUpTo(w)
           i == b[n - 1] + k
<1>1. AddsUp(b, w, Len(w))
  BY BeforeIs
<1>2. RecordSize(w[n]) \in Nat /\ k \in Nat
  BY RecordSizes
<1>3. b[n] = b[n - 1] + RecordSize(w[n]) /\ b[n - 1] \in Nat /\ b[n] \in Nat
  <2>1. n - 1 \in 0 .. Len(w) /\ n \in 0 .. Len(w)
    OBVIOUS
  <2> HIDE DEF b
  <2> QED BY <1>1, <2>1 DEF AddsUp
<1>4. b[n - 1] < i /\ i <= b[n] /\ i \in Nat
  BY <1>2, <1>3
<1>5. ASSUME NEW m \in 1 .. Len(w), b[m - 1] < i, i <= b[m]
      PROVE  m = n
  <2>1. b[m - 1] \in Nat /\ b[m] \in Nat
    <3>1. m - 1 \in 0 .. Len(w) /\ m \in 0 .. Len(w)
      OBVIOUS
    <3> HIDE DEF b
    <3> QED BY <1>1, <3>1 DEF AddsUp
  <2>2. ASSUME m < n PROVE FALSE
    <3>1. m \in 0 .. Len(w) /\ n - 1 \in 0 .. Len(w) /\ m <= n - 1
      BY <2>2
    <3>2. b[m] <= b[n - 1]
      BY <3>1, BeforeGrows
    <3> HIDE DEF i, b
    <3> QED BY <1>3, <1>4, <1>5, <2>1, <3>2
  <2>3. ASSUME n < m PROVE FALSE
    <3>1. n \in 0 .. Len(w) /\ m - 1 \in 0 .. Len(w) /\ n <= m - 1
      BY <2>3
    <3>2. b[n] <= b[m - 1]
      BY <3>1, BeforeGrows
    <3> HIDE DEF i, b
    <3> QED BY <1>3, <1>4, <1>5, <2>1, <3>2
  <2> QED BY <2>2, <2>3
<1>6. i - b[n - 1] = k
  BY <1>2, <1>3
<1> DEFINE r == CHOOSE m \in 1 .. Len(w) : b[m - 1] < i /\ i <= b[m]
<1>7. r = n
  <2> HIDE DEF i, b
  <2> QED BY <1>4, <1>5
<1>8. WhereIn(w, i) = <<r, i - b[r - 1]>>
  BY DEF WhereIn
<1> QED BY <1>6, <1>7, <1>8

LEMMA WhereFound ==
  ASSUME NEW w \in Seq(Sent), NEW i \in Nat, 0 < i, i <= BytesUpTo(w)[Len(w)]
  PROVE  WhereIn(w, i)[1] \in 1 .. Len(w)
<1> DEFINE b == BytesUpTo(w)
           T == {n \in Nat : n <= Len(w) /\ i <= b[n]}
<1>1. AddsUp(b, w, Len(w))
  BY BeforeIs
<1>2. PICK n \in T : \A j \in T : n <= j
  <2>1. T \subseteq Nat /\ Len(w) \in T
    OBVIOUS
  <2> HIDE DEF T
  <2> QED BY <2>1, LeastNumber
<1>3. n \in Nat /\ n <= Len(w) /\ i <= b[n]
  BY <1>2
<1>4. n # 0
  BY <1>1, <1>3 DEF AddsUp
<1>5. n - 1 \in Nat /\ n - 1 <= Len(w) /\ n - 1 \notin T
  BY <1>2, <1>3, <1>4
<1>6. b[n - 1] \in Nat
  BY <1>1, <1>5 DEF AddsUp
<1>7. n \in 1 .. Len(w) /\ b[n - 1] < i
  BY <1>3, <1>4, <1>5, <1>6
<1> DEFINE r == CHOOSE m \in 1 .. Len(w) : b[m - 1] < i /\ i <= b[m]
<1> HIDE DEF T
<1>8. r \in 1 .. Len(w)
  <2> HIDE DEF b
  <2> QED BY <1>3, <1>7
<1>9. WhereIn(w, i) = <<r, i - b[r - 1]>>
  BY DEF WhereIn
<1> HIDE DEF r
<1> QED BY <1>8, <1>9

-----------------------------------------------------------------------------
(* What the records say of a stream: s is the set of its records.           *)

Bytes == Seq(0 .. 255)

LEMMA BytesLen ==
  ASSUME NEW a \in Bytes
  PROVE  Len(a) \in Nat /\ (Len(a) = 0 <=> a = <<>>)
         /\ \A i \in 1 .. Len(a) : a[i] \in 0 .. 255
BY LenProperties, EmptySeq, ElementOfSeq DEF Bytes

LEMMA BytesNone == <<>> \in Bytes /\ Len(<<>>) = 0
BY DEF Bytes

LEMMA BytesOne == ASSUME NEW c \in 0 .. 255 PROVE <<c>> \in Bytes
BY DEF Bytes

LEMMA BytesJoined ==
  ASSUME NEW a \in Bytes, NEW b \in Bytes
  PROVE  a \o b \in Bytes /\ Len(a \o b) = Len(a) + Len(b)
BY ConcatProperties DEF Bytes

LEMMA BytesAlone ==
  ASSUME NEW a \in Bytes
  PROVE  a \o <<>> = a /\ <<>> \o a = a
BY ConcatEmptySeq DEF Bytes

LEMMA BytesRegroup ==
  ASSUME NEW a \in Bytes, NEW b \in Bytes, NEW c \in Bytes
  PROVE  (a \o b) \o c = a \o (b \o c)
BY ConcatAssociative DEF Bytes

LEMMA BytesAppend ==
  ASSUME NEW a \in Bytes, NEW c \in 0 .. 255
  PROVE  Append(a, c) = a \o <<c>> /\ Append(a, c) \in Bytes
         /\ Len(Append(a, c)) = Len(a) + 1
BY AppendIsConcat, AppendProperties DEF Bytes

LEMMA CutBytes ==
  ASSUME NEW x \in Bytes, NEW k \in Int, k <= Len(x), NEW m \in Nat, m # 0
  PROVE  SubSeq(x, m, k) \in Bytes
<1>1. \A i \in 1 .. Len(x) : x[i] \in 0 .. 255
  BY ElementOfSeq DEF Bytes
<1>2. \A i \in m .. k : x[i] \in 0 .. 255
  BY <1>1, LenProperties DEF Bytes
<1> QED BY <1>2, SubSeqProperties DEF Bytes

OwnIn(w, id, type, from) ==
  {n \in from + 1 .. Len(w) : w[n].type = type /\ w[n].id = id}

EndIn(w, s) ==
  LET ends == {n \in s : w[n].content = <<>>}
  IN  IF ends = {} THEN Len(w) + 1
      ELSE CHOOSE n \in ends : \A m \in ends : n <= m

Cut(w, s, n) ==
  [i \in 1 .. n |-> IF i \in s THEN w[i].content ELSE <<>>]

\* The content in the first n records, and in these but for the last `left'
\* bytes of record n.
ReadIn(w, s, n) == FlattenSeq(Cut(w, s, n))
Part(w, s, n, left) ==
  IF n \in s THEN SubSeq(w[n].content, 1, Len(w[n].content) - left) ELSE <<>>
Partly(w, s, n, left) == ReadIn(w, s, n - 1) \o Part(w, s, n, left)

LEMMA EndIs ==
  ASSUME NEW w \in Seq(Sent), NEW s, s \subseteq 1 .. Len(w)
  PROVE  /\ EndIn(w, s) \in Nat /\ EndIn(w, s) > 0
         /\ EndIn(w, s) <= Len(w) + 1
         /\ EndIn(w, s) # Len(w) + 1 =>
              EndIn(w, s) \in s /\ w[EndIn(w, s)].content = <<>>
         /\ \A n \in s : w[n].content = <<>> => EndIn(w, s) <= n
<1> DEFINE ends == {n \in s : w[n].content = <<>>}
<1>1. Len(w) \in Nat
  OBVIOUS
<1>2. CASE ends = {}
  <2>1. EndIn(w, s) = Len(w) + 1
    BY <1>2 DEF EndIn
  <2>2. \A n \in s : w[n].content # <<>>
    BY <1>2
  <2> QED BY <1>1, <2>1, <2>2
<1>3. CASE ends # {}
  <2>1. ends \subseteq Nat
    <3>1. 1 .. Len(w) \subseteq Nat
      OBVIOUS
    <3>2. s \subseteq Nat
      BY <3>1
    <3> QED BY <3>2
  <2>2. PICK k \in ends : \A m \in ends : k <= m
    <3> HIDE DEF ends
    <3> QED BY <1>3, <2>1, LeastNumber
  <2> DEFINE e == CHOOSE n \in ends : \A m \in ends : n <= m
  <2>3. EndIn(w, s) = e
    BY <1>3 DEF EndIn
  <2>4. e \in ends /\ \A m \in ends : e <= m
    <3> HIDE DEF ends
    <3> QED BY <2>2
  <2> HIDE DEF e
  <2> QED BY <1>1, <2>3, <2>4
<1> QED BY <1>2, <1>3

LEMMA EndUnique ==
  ASSUME NEW w \in Seq(Sent), NEW s, s \subseteq 1 .. Len(w),
         NEW n \in s, w[n].content = <<>>, n <= EndIn(w, s)
  PROVE  n = EndIn(w, s)
<1>1. EndIn(w, s) <= n /\ EndIn(w, s) \in Nat
  BY EndIs
<1>2. n \in Nat
  OBVIOUS
<1> QED BY <1>1, <1>2

LEMMA ReadNone ==
  ASSUME NEW w, NEW s
  PROVE  ReadIn(w, s, 0) = <<>>
BY DEF ReadIn, Cut, FlattenSeq

LEMMA ContentIs ==
  ASSUME NEW w \in Seq(Sent), NEW n \in 1 .. Len(w)
  PROVE  /\ w[n] \in Sent /\ w[n].content \in Bytes
         /\ Len(w[n].content) \in Nat /\ w[n].padding \in Nat
         /\ w[n].id \in Nat
<1>1. w[n] \in Sent
  OBVIOUS
<1>2. w[n].content \in Bytes /\ w[n].padding \in Nat /\ w[n].id \in Nat
  BY <1>1 DEF Sent, Bytes
<1> QED BY <1>1, <1>2, LenProperties DEF Bytes

\* One record more.
LEMMA ReadContinues ==
  ASSUME NEW w \in Seq(Sent), NEW s, NEW n \in Nat, n < Len(w),
         ReadIn(w, s, n) \in Bytes
  PROVE  /\ ReadIn(w, s, n + 1) \in Bytes
         /\ ReadIn(w, s, n + 1)
              = ReadIn(w, s, n) \o (IF n + 1 \in s THEN w[n + 1].content
                                    ELSE <<>>)
<1> DEFINE c == Cut(w, s, n)
           d == Cut(w, s, n + 1)
           x == IF n + 1 \in s THEN w[n + 1].content ELSE <<>>
<1>1. n + 1 \in 1 .. Len(w) /\ n + 1 \in 1 .. n + 1
  OBVIOUS
<1>2. x \in Bytes
  <2>1. <<>> \in Bytes
    BY BytesNone
  <2> QED BY <1>1, <2>1, ContentIs
<1>3. d[n + 1] = x
  BY <1>1 DEF Cut
<1>4. OneLonger(c, d, n)
  BY DEF OneLonger, Cut
<1> HIDE DEF c, d, x
<1>5. Continued(c, d, n)
  BY <1>4, FlattenStep
<1>6. CASE n = 0
  <2>1. ReadIn(w, s, n) = <<>>
    BY <1>6, ReadNone
  <2>2. FlattenSeq(d) = x
    BY <1>3, <1>5, <1>6 DEF Continued
  <2>3. <<>> \o x = x
    BY <1>2, BytesAlone
  <2> QED BY <1>2, <2>1, <2>2, <2>3 DEF ReadIn, d, x
<1>7. CASE n # 0
  <2>1. FlattenSeq(d) = FlattenSeq(c) \o x
    BY <1>3, <1>5, <1>7 DEF Continued
  <2>2. FlattenSeq(c) \in Bytes
    BY DEF ReadIn, c
  <2>3. FlattenSeq(d) \in Bytes
    BY <1>2, <2>1, <2>2, BytesJoined
  <2> QED BY <2>1, <2>3 DEF ReadIn, c, d, x
<1> QED BY <1>6, <1>7

LEMMA ReadType ==
  ASSUME NEW w \in Seq(Sent), NEW s, NEW n \in 0 .. Len(w)
  PROVE  ReadIn(w, s, n) \in Bytes
<1> DEFINE T == {k \in Nat : k <= Len(w) /\ ReadIn(w, s, k) \notin Bytes}
<1>1. ASSUME T # {} PROVE FALSE
  <2>1. PICK k \in T : \A j \in T : k <= j
    <3>1. T \subseteq Nat
      OBVIOUS
    <3> HIDE DEF T
    <3> QED BY <1>1, <3>1, LeastNumber
  <2>2. k \in Nat /\ k <= Len(w) /\ ReadIn(w, s, k) \notin Bytes
    BY <2>1
  <2>3. <<>> \in Bytes
    BY BytesNone
  <2>4. k # 0
    BY <2>2, <2>3, ReadNone
  <2>5. k - 1 \in Nat /\ k - 1 < Len(w) /\ k - 1 \notin T /\ (k - 1) + 1 = k
    BY <2>1, <2>2, <2>4
  <2>6. ReadIn(w, s, k - 1) \in Bytes
    BY <2>5
  <2>7. ReadIn(w, s, (k - 1) + 1) \in Bytes
    BY <2>5, <2>6, ReadContinues
  <2> QED BY <2>2, <2>5, <2>7
<1> QED BY <1>1

LEMMA ReadNext ==
  ASSUME NEW w \in Seq(Sent), NEW s, NEW n \in 1 .. Len(w)
  PROVE  /\ ReadIn(w, s, n) \in Bytes /\ ReadIn(w, s, n - 1) \in Bytes
         /\ n \in s => ReadIn(w, s, n) = ReadIn(w, s, n - 1) \o w[n].content
         /\ n \notin s => ReadIn(w, s, n) = ReadIn(w, s, n - 1)
<1>1. n - 1 \in Nat /\ n - 1 < Len(w) /\ (n - 1) + 1 = n
      /\ n - 1 \in 0 .. Len(w) /\ n \in 0 .. Len(w)
  OBVIOUS
<1>2. ReadIn(w, s, n) \in Bytes /\ ReadIn(w, s, n - 1) \in Bytes
  BY <1>1, ReadType
<1>3. PICK m \in Nat : m = n - 1 /\ m + 1 = n /\ m < Len(w)
  BY <1>1
<1>4. ReadIn(w, s, n)
        = ReadIn(w, s, n - 1) \o (IF n \in s THEN w[n].content ELSE <<>>)
  <2>1. ReadIn(w, s, m) \in Bytes
    BY <1>2, <1>3
  <2>2. ReadIn(w, s, m + 1)
          = ReadIn(w, s, m) \o (IF m + 1 \in s THEN w[m + 1].content ELSE <<>>)
    <3>1. m < Len(w)
      BY <1>3
    <3> QED BY <2>1, <3>1, ReadContinues
  <2> QED BY <1>3, <2>2
<1>5. ReadIn(w, s, n - 1) \o <<>> = ReadIn(w, s, n - 1)
  BY <1>2, BytesAlone
<1> QED BY <1>2, <1>4, <1>5

\* BytesUpTo its first record there is nothing.
LEMMA ReadBefore ==
  ASSUME NEW w \in Seq(Sent), NEW s, NEW n \in 0 .. Len(w),
         \A i \in 1 .. n : i \notin s
  PROVE  ReadIn(w, s, n) = <<>>
<1> DEFINE T == {k \in Nat : k <= n /\ ReadIn(w, s, k) # <<>>}
<1>1. ASSUME T # {} PROVE FALSE
  <2>1. PICK k \in T : \A j \in T : k <= j
    <3>1. T \subseteq Nat
      OBVIOUS
    <3> HIDE DEF T
    <3> QED BY <1>1, <3>1, LeastNumber
  <2>2. k \in Nat /\ k <= n /\ ReadIn(w, s, k) # <<>>
    BY <2>1
  <2>3. k # 0
    BY <2>2, ReadNone
  <2>4. k - 1 \in Nat /\ k - 1 <= n /\ k - 1 \notin T /\ k \in 1 .. Len(w)
        /\ k \in 1 .. n
    BY <2>1, <2>2, <2>3
  <2>5. ReadIn(w, s, k - 1) = <<>>
    BY <2>4
  <2> QED BY <2>2, <2>4, <2>5, ReadNext
<1> QED BY <1>1

\* A sequence that goes on is one of which the first part is a prefix.
Goes(a, b) == \E r \in Bytes : b = a \o r

LEMMA GoesPrefix ==
  ASSUME NEW a \in Bytes, NEW b \in Bytes, Goes(a, b)
  PROVE  IsPrefix(a, b)
<1>1. PICK r \in Bytes : b = a \o r
  BY DEF Goes
<1>2. Len(b) = Len(a) + Len(r) /\ Len(a) \in Nat /\ Len(r) \in Nat
      /\ \A i \in 1 .. Len(a) : b[i] = a[i]
  BY <1>1, ConcatProperties, LenProperties DEF Bytes
<1>3. SubSeq(a, 1, Len(a)) = SubSeq(b, 1, Len(a))
  BY <1>2 DEF Bytes
<1> QED BY <1>2, <1>3 DEF IsPrefix

LEMMA GoesOn ==
  ASSUME NEW a \in Bytes, NEW b \in Bytes, NEW c \in Bytes,
         Goes(a, b), Goes(b, c)
  PROVE  Goes(a, c)
<1>1. PICK r \in Bytes : b = a \o r
  BY DEF Goes
<1>2. PICK q \in Bytes : c = b \o q
  BY DEF Goes
<1>3. c = a \o (r \o q) /\ r \o q \in Bytes
  BY <1>1, <1>2, BytesRegroup, BytesJoined, SMTT(20)
<1> QED BY <1>3 DEF Goes

LEMMA GoesSame ==
  ASSUME NEW a \in Bytes PROVE Goes(a, a)
<1>1. a = a \o <<>> /\ <<>> \in Bytes
  BY BytesAlone, BytesNone
<1> QED BY <1>1 DEF Goes

LEMMA ReadGoes ==
  ASSUME NEW w \in Seq(Sent), NEW s, NEW m \in 0 .. Len(w),
         NEW n \in 0 .. Len(w), m <= n
  PROVE  Goes(ReadIn(w, s, m), ReadIn(w, s, n))
<1> DEFINE T == {k \in Nat : /\ m + k <= Len(w)
                             /\ ~Goes(ReadIn(w, s, m), ReadIn(w, s, m + k))}
<1>1. ASSUME T # {} PROVE FALSE
  <2>1. PICK k \in T : \A j \in T : k <= j
    <3>1. T \subseteq Nat
      OBVIOUS
    <3> HIDE DEF T
    <3> QED BY <1>1, <3>1, LeastNumber
  <2>2. k \in Nat /\ m + k <= Len(w)
        /\ ~Goes(ReadIn(w, s, m), ReadIn(w, s, m + k))
    BY <2>1
  <2>3. ReadIn(w, s, m) \in Bytes
    BY ReadType
  <2>4. k # 0
    <3>1. m + 0 = m
      OBVIOUS
    <3> QED BY <2>2, <2>3, <3>1, GoesSame
  <2>5. k - 1 \in Nat /\ m + (k - 1) <= Len(w) /\ ~(k <= k - 1)
    BY <2>2, <2>4
  <2>6. Goes(ReadIn(w, s, m), ReadIn(w, s, m + (k - 1)))
    BY <2>1, <2>5
  <2>7. PICK i \in 1 .. Len(w) : i = m + k /\ i - 1 = m + (k - 1)
    BY <2>2, <2>4
  <2>8. ReadIn(w, s, i) \in Bytes /\ ReadIn(w, s, i - 1) \in Bytes
    BY ReadNext
  <2>9. Goes(ReadIn(w, s, i - 1), ReadIn(w, s, i))
    <3>1. CASE i \in s
      <4>1. ReadIn(w, s, i) = ReadIn(w, s, i - 1) \o w[i].content
        BY <3>1, ReadNext
      <4>2. w[i].content \in Bytes
        BY ContentIs
      <4> QED BY <4>1, <4>2 DEF Goes
    <3>2. CASE i \notin s
      <4>1. ReadIn(w, s, i) = ReadIn(w, s, i - 1)
        BY <3>2, ReadNext
      <4> QED BY <2>8, <4>1, GoesSame
    <3> QED BY <3>1, <3>2
  <2>10. Goes(ReadIn(w, s, m), ReadIn(w, s, i))
    BY <2>3, <2>6, <2>7, <2>8, <2>9, GoesOn
  <2> QED BY <2>2, <2>7, <2>10
<1>2. n - m \in Nat /\ m + (n - m) = n /\ n - m \notin T
  <2>1. n - m \in Nat /\ m + (n - m) = n
    OBVIOUS
  <2> HIDE DEF T
  <2> QED BY <1>1, <2>1
<1> QED BY <1>2

-----------------------------------------------------------------------------
(* Within a record.                                                         *)

LEMMA PartIs ==
  ASSUME NEW w \in Seq(Sent), NEW s, NEW n \in 1 .. Len(w), NEW left \in Nat,
         left <= Len(w[n].content)
  PROVE  Part(w, s, n, left) \in Bytes /\ Partly(w, s, n, left) \in Bytes
<1>1. w[n].content \in Bytes /\ Len(w[n].content) \in Nat
  BY ContentIs
<1>2. SubSeq(w[n].content, 1, Len(w[n].content) - left) \in Bytes
  <2>1. Len(w[n].content) - left \in Int
        /\ Len(w[n].content) - left <= Len(w[n].content)
    BY <1>1
  <2>2. PICK x \in Bytes : x = w[n].content
    BY <1>1
  <2>3. PICK k \in Int : k = Len(w[n].content) - left /\ k <= Len(x)
    BY <2>1, <2>2
  <2>4. SubSeq(x, 1, k) \in Bytes
    BY <2>3, CutBytes
  <2> QED BY <2>2, <2>3, <2>4
<1>3. <<>> \in Bytes
  BY BytesNone
<1>4. Part(w, s, n, left) \in Bytes
  BY <1>2, <1>3 DEF Part
<1>5. ReadIn(w, s, n - 1) \in Bytes
  BY ReadNext
<1> QED BY <1>4, <1>5, BytesJoined DEF Partly

LEMMA PartlyWhole ==
  ASSUME NEW w \in Seq(Sent), NEW s, NEW n \in 1 .. Len(w)
  PROVE  Partly(w, s, n, 0) = ReadIn(w, s, n)
<1>1. w[n].content \in Bytes /\ Len(w[n].content) \in Nat
  BY ContentIs
<1>2. SubSeq(w[n].content, 1, Len(w[n].content) - 0) = w[n].content
  BY <1>1, SubSeqFull DEF Bytes
<1>3. ReadIn(w, s, n - 1) \in Bytes
  BY ReadNext
<1>4. ReadIn(w, s, n - 1) \o <<>> = ReadIn(w, s, n - 1)
  BY <1>3, BytesAlone
<1> QED BY <1>2, <1>4, ReadNext DEF Partly, Part

\* Nothing of the next record yet.
LEMMA PartlyNew ==
  ASSUME NEW w \in Seq(Sent), NEW s, NEW n \in 1 .. Len(w)
  PROVE  Partly(w, s, n, Len(w[n].content)) = ReadIn(w, s, n - 1)
<1>1. w[n].content \in Bytes /\ Len(w[n].content) \in Nat
  BY ContentIs
<1>2. SubSeq(w[n].content, 1, Len(w[n].content) - Len(w[n].content)) = <<>>
  BY <1>1, SubSeqEmpty
<1>3. ReadIn(w, s, n - 1) \in Bytes
  BY ReadNext
<1>4. ReadIn(w, s, n - 1) \o <<>> = ReadIn(w, s, n - 1)
  BY <1>3, BytesAlone
<1> QED BY <1>2, <1>4 DEF Partly, Part

\* The character that comes next is the next one of the stream.
LEMMA PartlyMore ==
  ASSUME NEW w \in Seq(Sent), NEW s, NEW n \in 1 .. Len(w), NEW left \in Nat,
         left # 0, left <= Len(w[n].content), n \in s
  PROVE  /\ w[n].content[Len(w[n].content) - left + 1] \in 0 .. 255
         /\ Partly(w, s, n, left - 1)
              = Append(Partly(w, s, n, left),
                       w[n].content[Len(w[n].content) - left + 1])
<1> DEFINE x == w[n].content
           k == Len(x) - left + 1
<1>1. x \in Bytes /\ Len(x) \in Nat
  BY ContentIs
<1>2. k \in 1 .. Len(x) /\ k - 1 = Len(x) - left /\ k = Len(x) - (left - 1)
      /\ 1 \in 1 .. Len(x) /\ k \in 1 .. Len(x)
  BY <1>1
<1>3. x[k] \in 0 .. 255
  BY <1>1, <1>2, ElementOfSeq DEF Bytes
<1> DEFINE a == ReadIn(w, s, n - 1)
           p == SubSeq(x, 1, k - 1)
<1>4. SubSeq(x, 1, k) = p \o <<x[k]>>
  BY <1>1, <1>2, SubSeqRecursiveSecond DEF Bytes
<1>5. a \in Bytes
  BY ReadNext
<1>6. p \in Bytes
  <2>1. k - 1 \in Int /\ k - 1 <= Len(x)
    BY <1>1, <1>2
  <2> HIDE DEF k, x
  <2> QED BY <1>1, <2>1, CutBytes
<1>7. Partly(w, s, n, left) = a \o p
  BY <1>2 DEF Partly, Part
<1>8. Partly(w, s, n, left - 1) = a \o SubSeq(x, 1, k)
  BY <1>2 DEF Partly, Part
<1> HIDE DEF a, p, k, x
<1>9. <<x[k]>> \in Bytes
  BY <1>3 DEF Bytes
<1>10. a \o (p \o <<x[k]>>) = (a \o p) \o <<x[k]>>
  BY <1>5, <1>6, <1>9, BytesRegroup
<1>11. a \o p \in Bytes
  BY <1>5, <1>6, BytesJoined
<1>12. (a \o p) \o <<x[k]>> = Append(a \o p, x[k])
  BY <1>3, <1>11, BytesAppend
<1> QED BY <1>3, <1>4, <1>7, <1>8, <1>10, <1>12 DEF x, k

\* A record of another stream makes no difference.
LEMMA PartlyOther ==
  ASSUME NEW w, NEW s, NEW n, n \notin s, NEW l, NEW m
  PROVE  Partly(w, s, n, l) = Partly(w, s, n, m)
BY DEF Partly, Part

\* Up to the end of the stream, what has been read is a part of it.
LEMMA PartlyPrefix ==
  ASSUME NEW w \in Seq(Sent), NEW s, s \subseteq 1 .. Len(w),
         NEW n \in 1 .. Len(w), NEW left \in Nat,
         left <= Len(w[n].content), n <= EndIn(w, s)
  PROVE  Goes(Partly(w, s, n, left), ReadIn(w, s, EndIn(w, s) - 1))
         /\ ReadIn(w, s, EndIn(w, s) - 1) \in Bytes
<1> DEFINE e == EndIn(w, s)
<1>1. e \in Nat /\ e > 0 /\ e <= Len(w) + 1
      /\ (e # Len(w) + 1 => e \in s /\ w[e].content = <<>>)
  BY EndIs
<1> HIDE DEF e
<1>2. e - 1 \in 0 .. Len(w) /\ n \in 0 .. Len(w)
  BY <1>1
<1>3. ReadIn(w, s, e - 1) \in Bytes
  BY <1>2, ReadType
<1>4. CASE n = e
  <2>1. w[n].content = <<>> /\ Len(w[n].content) = 0
    BY <1>1, <1>4
  <2>2. left = 0
    BY <2>1
  <2>3. Partly(w, s, n, 0) = ReadIn(w, s, n - 1)
    BY <2>1, PartlyNew
  <2> QED BY <1>3, <1>4, <2>2, <2>3, GoesSame DEF e
<1>5. CASE n # e
  <2>1. n <= e - 1
    BY <1>1, <1>5 DEF e
  <2>2. Goes(ReadIn(w, s, n), ReadIn(w, s, e - 1))
    BY <1>2, <2>1, ReadGoes
  <2>3. ReadIn(w, s, n) \in Bytes /\ ReadIn(w, s, n - 1) \in Bytes
    BY ReadNext
  <2>4. Partly(w, s, n, left) \in Bytes
    BY PartIs
  <2>5. Goes(Partly(w, s, n, left), ReadIn(w, s, n))
    <3>1. CASE n \in s
      <4> DEFINE x == w[n].content
                 k == Len(x) - left
                 q == SubSeq(x, k + 1, Len(x))
      <4>1. x \in Bytes /\ Len(x) \in Nat
        BY ContentIs
      <4>2. k \in 0 .. Len(x)
        BY <4>1
      <4>3. x = SubSeq(x, 1, k) \o q
        <5>1. 1 \in 1 .. Len(x) + 1 /\ k \in 1 - 1 .. Len(x) /\ Len(x) \in k .. Len(x)
          BY <4>1, <4>2
        <5>2. SubSeq(x, 1, k) \o SubSeq(x, k + 1, Len(x)) = SubSeq(x, 1, Len(x))
          BY <4>1, <5>1, ConcatAdjacentSubSeq DEF Bytes
        <5> QED BY <4>1, <5>2, SubSeqFull DEF Bytes
      <4>4. SubSeq(x, 1, k) \in Bytes /\ q \in Bytes
        <5>1. k \in Int /\ k <= Len(x) /\ k + 1 \in Nat /\ k + 1 # 0
              /\ Len(x) \in Int /\ Len(x) <= Len(x)
          BY <4>1, <4>2
        <5> HIDE DEF x, k
        <5> QED BY <4>1, <5>1, CutBytes
      <4>5. Partly(w, s, n, left) = ReadIn(w, s, n - 1) \o SubSeq(x, 1, k)
        BY <3>1 DEF Partly, Part
      <4>6. ReadIn(w, s, n) = ReadIn(w, s, n - 1) \o x
        BY <3>1, ReadNext
      <4> HIDE DEF x, k, q
      <4>7. ReadIn(w, s, n) = (ReadIn(w, s, n - 1) \o SubSeq(x, 1, k)) \o q
        <5>1. PICK a \in Bytes : a = ReadIn(w, s, n - 1)
          BY <2>3
        <5>2. PICK b \in Bytes : b = SubSeq(x, 1, k)
          BY <4>4
        <5>3. (a \o b) \o q = a \o (b \o q)
          BY <4>4, BytesRegroup
        <5> QED BY <4>3, <4>6, <5>1, <5>2, <5>3
      <4> QED BY <4>4, <4>5, <4>7 DEF Goes
    <3>2. CASE n \notin s
      <4>1. Partly(w, s, n, left) = ReadIn(w, s, n)
        <5>1. Partly(w, s, n, left) = Partly(w, s, n, 0)
          BY <3>2, PartlyOther
        <5> QED BY <5>1, PartlyWhole
      <4> QED BY <2>3, <4>1, GoesSame
    <3> QED BY <3>1, <3>2
  <2> QED BY <1>3, <2>2, <2>3, <2>4, <2>5, GoesOn DEF e
<1> QED BY <1>4, <1>5

\* At its end, all of it has been read.
LEMMA PartlyEnd ==
  ASSUME NEW w \in Seq(Sent), NEW s, s \subseteq 1 .. Len(w),
         NEW n \in 1 .. Len(w), NEW left \in Nat,
         left <= Len(w[n].content), n = EndIn(w, s)
  PROVE  Partly(w, s, n, left) = ReadIn(w, s, EndIn(w, s) - 1)
         /\ n \in s /\ w[n].content = <<>> /\ left = 0
<1>1. n \in s /\ w[n].content = <<>>
  <2>1. n # Len(w) + 1
    OBVIOUS
  <2> QED BY <2>1, EndIs
<1>2. Len(w[n].content) = 0 /\ left = 0
  BY <1>1
<1>3. Partly(w, s, n, 0) = ReadIn(w, s, n - 1)
  BY <1>2, PartlyNew
<1> QED BY <1>1, <1>2, <1>3

-----------------------------------------------------------------------------
(* The pairs in a sequence of bytes.                                        *)

Behind(b, n) == SubSeq(b, n + 1, Len(b))

LEMMA BytesEqual ==
  ASSUME NEW a \in Bytes, NEW b \in Bytes, Len(a) = Len(b),
         \A i \in 1 .. Len(a) : a[i] = b[i]
  PROVE  a = b
BY SeqEqual DEF Bytes

LEMMA BytesAt ==
  ASSUME NEW a \in Bytes, NEW b \in Bytes
  PROVE  /\ \A i \in 1 .. Len(a) : (a \o b)[i] = a[i]
         /\ \A i \in 1 .. Len(b) : (a \o b)[Len(a) + i] = b[i]
<1>1. Len(a) \in Nat /\ Len(b) \in Nat
  BY BytesLen
<1>2. \A i \in 1 .. Len(a) + Len(b) :
        (a \o b)[i] = IF i <= Len(a) THEN a[i] ELSE b[i - Len(a)]
  BY ConcatProperties DEF Bytes
<1>3. \A i \in 1 .. Len(a) : (a \o b)[i] = a[i]
  BY <1>1, <1>2
<1>4. ASSUME NEW i \in 1 .. Len(b) PROVE (a \o b)[Len(a) + i] = b[i]
  <2>1. PICK j \in 1 .. Len(a) + Len(b) : j = Len(a) + i /\ ~(j <= Len(a))
                                          /\ j - Len(a) = i
    BY <1>1
  <2> QED BY <1>2, <2>1
<1> QED BY <1>3, <1>4

LEMMA DropIs ==
  ASSUME NEW b \in Bytes, NEW n \in Nat, n <= Len(b)
  PROVE  /\ Behind(b, n) \in Bytes /\ Len(Behind(b, n)) = Len(b) - n
         /\ \A i \in 1 .. Len(b) - n : Behind(b, n)[i] = b[n + i]
<1>1. Len(b) \in Nat /\ \A i \in 1 .. Len(b) : b[i] \in 0 .. 255
  BY BytesLen
<1>2. n + 1 \in Int /\ Len(b) \in Int /\ \A i \in n + 1 .. Len(b) : b[i] \in 0 .. 255
  BY <1>1
<1> DEFINE d == SubSeq(b, n + 1, Len(b))
<1>3. /\ d \in Seq(0 .. 255)
      /\ Len(d) = IF n + 1 <= Len(b) THEN Len(b) - (n + 1) + 1 ELSE 0
      /\ \A i \in 1 .. Len(b) - (n + 1) + 1 : d[i] = b[n + 1 + i - 1]
  <2> HIDE DEF d
  <2> QED BY <1>2, SubSeqProperties DEF d
<1> HIDE DEF d
<1>4. Len(d) = Len(b) - n
  BY <1>1, <1>3
<1>5. \A i \in 1 .. Len(b) - n : d[i] = b[n + i]
  <2>1. ASSUME NEW i \in 1 .. Len(b) - n PROVE d[i] = b[n + i]
    <3>1. i \in 1 .. Len(b) - (n + 1) + 1 /\ n + 1 + i - 1 = n + i
      BY <1>1
    <3> QED BY <1>3, <3>1
  <2> QED BY <2>1
<1> QED BY <1>3, <1>4, <1>5 DEF d, Behind, Bytes

LEMMA DropDrop ==
  ASSUME NEW b \in Bytes, NEW n \in Nat, NEW m \in Nat, n + m <= Len(b)
  PROVE  Behind(Behind(b, n), m) = Behind(b, n + m)
<1>1. Len(b) \in Nat
  BY BytesLen
<1> DEFINE d == Behind(b, n)
           e == Behind(d, m)
           f == Behind(b, n + m)
<1>2. d \in Bytes /\ Len(d) = Len(b) - n
      /\ \A i \in 1 .. Len(b) - n : d[i] = b[n + i]
  <2>1. n <= Len(b)
    BY <1>1
  <2> QED BY <2>1, DropIs
<1> HIDE DEF d
<1>3. e \in Bytes /\ Len(e) = Len(d) - m
      /\ \A i \in 1 .. Len(d) - m : e[i] = d[m + i]
  <2>1. m <= Len(d)
    BY <1>1, <1>2
  <2> QED BY <1>2, <2>1, DropIs
<1>4. PICK k \in Nat : k = n + m
  OBVIOUS
<1>5. f \in Bytes /\ Len(f) = Len(b) - k
      /\ \A i \in 1 .. Len(b) - k : f[i] = b[k + i]
  BY <1>1, <1>4, DropIs
<1> HIDE DEF e, f
<1>6. Len(e) = Len(f)
  BY <1>1, <1>2, <1>3, <1>4, <1>5
<1>7. ASSUME NEW i \in 1 .. Len(e) PROVE e[i] = f[i]
  <2>1. i \in 1 .. Len(d) - m /\ i \in 1 .. Len(b) - k
        /\ m + i \in 1 .. Len(b) - n /\ n + (m + i) = k + i
    BY <1>1, <1>2, <1>3, <1>4
  <2> QED BY <1>2, <1>3, <1>5, <2>1
<1>8. e = f
  BY <1>3, <1>5, <1>6, <1>7, BytesEqual
<1> QED BY <1>8 DEF d, e, f

LEMMA DropJoined ==
  ASSUME NEW a \in Bytes, NEW b \in Bytes, NEW n \in Nat, n <= Len(a)
  PROVE  Behind(a \o b, n) = Behind(a, n) \o b
<1> DEFINE c == a \o b
           d == Behind(c, n)
           e == Behind(a, n)
           f == e \o b
<1>1. c \in Bytes /\ Len(c) = Len(a) + Len(b) /\ Len(a) \in Nat /\ Len(b) \in Nat
  BY BytesJoined, BytesLen
<1>2. /\ \A i \in 1 .. Len(a) : c[i] = a[i]
      /\ \A i \in 1 .. Len(b) : c[Len(a) + i] = b[i]
  BY BytesAt
<1> HIDE DEF c
<1>3. d \in Bytes /\ Len(d) = Len(c) - n
      /\ \A i \in 1 .. Len(c) - n : d[i] = c[n + i]
  <2>1. n <= Len(c)
    BY <1>1
  <2> QED BY <1>1, <2>1, DropIs
<1>4. e \in Bytes /\ Len(e) = Len(a) - n
      /\ \A i \in 1 .. Len(a) - n : e[i] = a[n + i]
  BY <1>1, DropIs
<1> HIDE DEF d, e
<1>5. f \in Bytes /\ Len(f) = Len(e) + Len(b)
      /\ (\A i \in 1 .. Len(e) : f[i] = e[i])
      /\ \A i \in 1 .. Len(b) : f[Len(e) + i] = b[i]
  BY <1>4, BytesJoined, BytesAt
<1> HIDE DEF f
<1>6. Len(d) = Len(f)
  BY <1>1, <1>3, <1>4, <1>5
<1>7. ASSUME NEW i \in 1 .. Len(d) PROVE d[i] = f[i]
  <2>1. d[i] = c[n + i]
    BY <1>3
  <2>2. CASE i <= Len(e)
    <3>1. i \in 1 .. Len(e) /\ i \in 1 .. Len(a) - n /\ n + i \in 1 .. Len(a)
      BY <1>1, <1>4, <2>2
    <3> QED BY <1>2, <1>4, <1>5, <2>1, <3>1
  <2>3. CASE ~(i <= Len(e))
    <3>1. PICK j \in 1 .. Len(b) : Len(e) + j = i /\ Len(a) + j = n + i
      <4>1. i - Len(e) \in 1 .. Len(b) /\ Len(e) + (i - Len(e)) = i
            /\ Len(a) + (i - Len(e)) = n + i
        BY <1>1, <1>3, <1>4, <2>3
      <4> QED BY <4>1
    <3> QED BY <1>2, <1>5, <2>1, <3>1
  <2> QED BY <2>2, <2>3
<1>8. d = f
  BY <1>3, <1>5, <1>6, <1>7, BytesEqual
<1> QED BY <1>8 DEF c, d, e, f

LEMMA DropAll ==
  ASSUME NEW b \in Bytes
  PROVE  Behind(b, 0) = b /\ Behind(b, Len(b)) = <<>>
<1>1. Len(b) \in Nat
  BY BytesLen
<1>2. Behind(b, 0) = b
  BY SubSeqFull DEF Behind, Bytes
<1>3. Behind(b, Len(b)) = <<>>
  BY <1>1, SubSeqEmpty DEF Behind
<1> QED BY <1>2, <1>3

\* The first n bytes.
LEMMA FirstJoined ==
  ASSUME NEW a \in Bytes, NEW b \in Bytes
  PROVE  SubSeq(a \o b, 1, Len(a)) = a
<1> DEFINE c == a \o b
<1>1. c \in Bytes /\ Len(c) = Len(a) + Len(b) /\ Len(a) \in Nat /\ Len(b) \in Nat
      /\ \A i \in 1 .. Len(a) : c[i] = a[i]
  BY BytesJoined, BytesLen, BytesAt
<1> HIDE DEF c
<1>2. SubSeq(c, 1, Len(a)) = SubSeq(a, 1, Len(a))
  BY <1>1
<1> QED BY <1>2, SubSeqFull DEF c, Bytes

-----------------------------------------------------------------------------
(* The size of a pair.                                                      *)

\* What is left behind the first length.
Rest(s) == Behind(s, FieldSize(s))

LEMMA FieldSizes ==
  ASSUME NEW s \in Bytes, NEW u \in Bytes
  PROVE  /\ FieldSize(s) \in {1, 4} /\ FieldSize(<<>>) = 1
         /\ s # <<>> => FieldSize(s \o u) = FieldSize(s)
<1>1. FieldSize(s) \in {1, 4} /\ FieldSize(<<>>) = 1
  BY DEF FieldSize
<1>2. ASSUME s # <<>> PROVE FieldSize(s \o u) = FieldSize(s)
  <2>1. Len(s) \in Nat /\ Len(s) # 0 /\ s \o u \in Bytes
        /\ Len(s \o u) = Len(s) + Len(u) /\ Len(u) \in Nat
    BY <1>2, BytesLen, BytesJoined
  <2>2. (s \o u)[1] = s[1]
    BY <2>1, BytesAt
  <2>3. s \o u # <<>>
    <3>1. Len(s \o u) # 0
      BY <2>1
    <3> QED BY <2>1, <3>1, BytesLen
  <2> QED BY <1>2, <2>2, <2>3 DEF FieldSize
<1> QED BY <1>1, <1>2

LEMMA Fields ==
  ASSUME NEW s \in Bytes, NEW u \in Bytes, FieldSize(s) <= Len(s)
  PROVE  Field(s) \in Nat /\ Field(s \o u) = Field(s)
<1>1. Len(s) \in Nat /\ \A i \in 1 .. Len(s) : s[i] \in 0 .. 255
  BY BytesLen
<1>2. \A i \in 1 .. Len(s) : (s \o u)[i] = s[i]
  BY BytesAt
<1>3. s # <<>>
  BY BytesNone, FieldSizes
<1>4. FieldSize(s \o u) = FieldSize(s)
  BY <1>3, FieldSizes
<1>5. CASE FieldSize(s) = 1
  <2>1. 1 \in 1 .. Len(s)
    BY <1>1, <1>5
  <2>2. Field(s) = s[1] /\ Field(s \o u) = (s \o u)[1]
    BY <1>4, <1>5 DEF Field
  <2>3. (s \o u)[1] = s[1]
    BY <1>2, <2>1
  <2>4. PICK a \in 0 .. 255 : a = s[1]
    BY <1>1, <2>1
  <2>5. a \in Nat
    OBVIOUS
  <2> QED BY <2>2, <2>3, <2>4, <2>5
<1>6. CASE FieldSize(s) = 4
  <2>1. 1 \in 1 .. Len(s) /\ 2 \in 1 .. Len(s) /\ 3 \in 1 .. Len(s)
        /\ 4 \in 1 .. Len(s)
    BY <1>1, <1>6
  <2>2. Field(s \o u) = Field(s)
    BY <1>2, <1>4, <1>6, <2>1 DEF Field
  <2>3. s[1] >= 128
    BY <1>6 DEF FieldSize
  <2>4. PICK a \in 0 .. 255, b \in 0 .. 255, c \in 0 .. 255, d \in 0 .. 255 :
          a = s[1] /\ b = s[2] /\ c = s[3] /\ d = s[4] /\ a >= 128
    BY <1>1, <2>1, <2>3
  <2>5. /\ a - 128 \in Nat /\ b \in Nat /\ c \in Nat /\ d \in Nat
        /\ 2^24 \in Nat /\ 2^16 \in Nat /\ 2^8 \in Nat
    <3>1. a - 128 \in Nat
      BY <2>4
    <3>2. 2^24 \in Nat /\ 2^16 \in Nat /\ 2^8 \in Nat
      OBVIOUS
    <3> QED BY <3>1, <3>2
  <2>6. \A x \in Nat, y \in Nat : x * y \in Nat /\ x + y \in Nat
    OBVIOUS
  <2>7. PICK x \in Nat, y \in Nat, z \in Nat :
          x = (a - 128) * 2^24 /\ y = b * 2^16 /\ z = c * 2^8
    BY <2>5, <2>6
  <2>8. Field(s) = x + y + z + d
    BY <1>6, <2>4, <2>7 DEF Field
  <2>9. x + y + z + d \in Nat
    BY <2>5
  <2> QED BY <2>2, <2>8, <2>9
<1> QED BY <1>5, <1>6, FieldSizes

\* The bytes of both lengths.
Lengths(s) == FieldSize(s) + FieldSize(Rest(s))

LEMMA RestIs ==
  ASSUME NEW s \in Bytes
  PROVE  /\ Rest(s) \in Bytes
         /\ FieldSize(s) <= Len(s) => Len(Rest(s)) = Len(s) - FieldSize(s)
         /\ Len(s) <= FieldSize(s) => Rest(s) = <<>>
<1>1. PICK n \in Nat : n = FieldSize(s)
  BY FieldSizes, BytesNone
<1>2. Len(s) \in Nat
  BY BytesLen
<1>3. n <= Len(s) => Rest(s) \in Bytes /\ Len(Rest(s)) = Len(s) - n
  BY <1>1, DropIs DEF Rest
<1>4. Len(s) <= n => Rest(s) = <<>>
  BY <1>1, <1>2, SubSeqEmpty DEF Rest, Behind
<1> QED BY <1>1, <1>2, <1>3, <1>4, BytesNone

LEMMA LengthsIs ==
  ASSUME NEW s \in Bytes
  PROVE  /\ FieldSize(s) \in Nat /\ FieldSize(Rest(s)) \in Nat
         /\ FieldSize(s) > 0 /\ FieldSize(Rest(s)) > 0
         /\ Lengths(s) \in Nat /\ Lengths(s) > 0
<1>1. Rest(s) \in Bytes
  BY RestIs
<1>2. FieldSize(s) \in {1, 4} /\ FieldSize(Rest(s)) \in {1, 4}
  BY <1>1, FieldSizes
<1> QED BY <1>2 DEF Lengths

\* A pair of which both lengths are there.
LEMMA LengthsRead ==
  ASSUME NEW s \in Bytes, Lengths(s) <= Len(s)
  PROVE  /\ FieldSize(s) <= Len(s) /\ FieldSize(Rest(s)) <= Len(Rest(s))
         /\ s # <<>> /\ Rest(s) # <<>>
         /\ Field(s) \in Nat /\ Field(Rest(s)) \in Nat
<1>1. PICK n \in Nat, m \in Nat :
        n = FieldSize(s) /\ m = FieldSize(Rest(s)) /\ n > 0 /\ m > 0
  BY LengthsIs
<1>2. Len(s) \in Nat /\ n + m <= Len(s)
  BY <1>1, BytesLen DEF Lengths
<1>3. Rest(s) \in Bytes /\ Len(Rest(s)) = Len(s) - n
  BY <1>1, <1>2, RestIs
<1>4. n <= Len(s) /\ m <= Len(Rest(s)) /\ Len(s) # 0 /\ Len(Rest(s)) # 0
  BY <1>1, <1>2, <1>3
<1>5. Field(s) \in Nat /\ Field(Rest(s)) \in Nat
  BY <1>1, <1>3, <1>4, Fields
<1> QED BY <1>1, <1>3, <1>4, <1>5, BytesLen

LEMMA PairSizeIs ==
  ASSUME NEW s \in Bytes
  PROVE  /\ PairSize(s) \in Nat /\ PairSize(s) > 0 /\ Lengths(s) <= PairSize(s)
         /\ Len(s) < Lengths(s) => PairSize(s) = Lengths(s)
         /\ Lengths(s) <= Len(s) =>
              PairSize(s) = Lengths(s) + Field(s) + Field(Rest(s))
<1>1. Lengths(s) \in Nat /\ Lengths(s) > 0 /\ Len(s) \in Nat
  BY LengthsIs, BytesLen
<1>2. PairSize(s) = IF Len(s) < Lengths(s) THEN Lengths(s)
                    ELSE Lengths(s) + Field(s) + Field(Rest(s))
  BY DEF PairSize, Lengths, Rest, Behind
<1>3. CASE Len(s) < Lengths(s)
  BY <1>1, <1>2, <1>3
<1>4. CASE Lengths(s) <= Len(s)
  <2>1. Field(s) \in Nat /\ Field(Rest(s)) \in Nat
    BY <1>4, LengthsRead
  <2> QED BY <1>1, <1>2, <1>4, <2>1
<1> QED BY <1>1, <1>3, <1>4

\* What comes behind does not change the lengths.
LEMMA LengthsAgain ==
  ASSUME NEW s \in Bytes, NEW u \in Bytes, Lengths(s) <= Len(s)
  PROVE  /\ FieldSize(s \o u) = FieldSize(s)
         /\ Rest(s \o u) = Rest(s) \o u
         /\ FieldSize(Rest(s \o u)) = FieldSize(Rest(s))
         /\ Field(s \o u) = Field(s) /\ Field(Rest(s \o u)) = Field(Rest(s))
<1>1. PICK n \in Nat : n = FieldSize(s)
  BY LengthsIs
<1>2. s # <<>> /\ n <= Len(s) /\ Rest(s) # <<>> /\ Rest(s) \in Bytes
      /\ FieldSize(Rest(s)) <= Len(Rest(s))
  BY <1>1, LengthsRead, RestIs
<1>3. FieldSize(s \o u) = n
  BY <1>1, <1>2, FieldSizes
<1>4. Behind(s \o u, n) = Behind(s, n) \o u
  BY <1>2, DropJoined
<1>5. Rest(s \o u) = Rest(s) \o u
  BY <1>1, <1>3, <1>4 DEF Rest
<1>6. FieldSize(Rest(s) \o u) = FieldSize(Rest(s))
  BY <1>2, FieldSizes
<1>7. Field(Rest(s) \o u) = Field(Rest(s))
  BY <1>2, Fields
<1>8. Field(s \o u) = Field(s)
  BY <1>1, <1>2, Fields
<1> QED BY <1>1, <1>3, <1>5, <1>6, <1>7, <1>8

LEMMA PairSizeAgain ==
  ASSUME NEW s \in Bytes, NEW u \in Bytes, PairSize(s) <= Len(s)
  PROVE  PairSize(s \o u) = PairSize(s)
<1>1. Lengths(s) \in Nat /\ PairSize(s) \in Nat /\ Len(s) \in Nat
      /\ Lengths(s) <= PairSize(s)
  BY LengthsIs, PairSizeIs, BytesLen
<1>2. Lengths(s) <= Len(s)
  BY <1>1
<1>3. s \o u \in Bytes /\ Len(s \o u) = Len(s) + Len(u) /\ Len(u) \in Nat
  BY BytesJoined, BytesLen
<1>4. Lengths(s \o u) = Lengths(s)
  BY <1>2, LengthsAgain DEF Lengths
<1>5. Lengths(s \o u) <= Len(s \o u)
  BY <1>1, <1>2, <1>3, <1>4
<1>6. PairSize(s \o u) = Lengths(s \o u) + Field(s \o u) + Field(Rest(s \o u))
  BY <1>3, <1>5, PairSizeIs
<1>7. PairSize(s) = Lengths(s) + Field(s) + Field(Rest(s))
  BY <1>2, PairSizeIs
<1> QED BY <1>2, <1>4, <1>6, <1>7, LengthsAgain

\* One byte never completes a pair before its time.
LEMMA PairSizeGrows ==
  ASSUME NEW p \in Bytes, NEW c \in 0 .. 255, Len(p) < PairSize(p)
  PROVE  Len(p) + 1 <= PairSize(Append(p, c))
<1> DEFINE u == <<c>>
           s == p \o u
<1>1. u \in Bytes /\ Append(p, c) = s /\ s \in Bytes /\ Len(s) = Len(p) + 1
  BY BytesAppend, BytesOne
<1>2. Len(p) \in Nat
  BY BytesLen
<1> HIDE DEF u
<1>3. PairSize(s) \in Nat /\ Lengths(s) \in Nat /\ Lengths(s) <= PairSize(s)
      /\ PairSize(p) \in Nat /\ Lengths(p) \in Nat
  <2> HIDE DEF s
  <2> QED BY <1>1, PairSizeIs, LengthsIs
<1>4. CASE Lengths(p) <= Len(p)
  <2>1. Lengths(s) = Lengths(p) /\ Field(s) = Field(p)
        /\ Field(Rest(s)) = Field(Rest(p))
    BY <1>1, <1>4, LengthsAgain DEF Lengths
  <2>2. Lengths(s) <= Len(s)
    BY <1>1, <1>2, <1>3, <1>4, <2>1
  <2> HIDE DEF s
  <2>3. PairSize(s) = Lengths(s) + Field(s) + Field(Rest(s))
    BY <1>1, <2>2, PairSizeIs
  <2>4. PairSize(p) = Lengths(p) + Field(p) + Field(Rest(p))
    BY <1>4, PairSizeIs
  <2>5. PairSize(s) = PairSize(p)
    BY <2>1, <2>3, <2>4
  <2> QED BY <1>1, <1>2, <1>3, <2>5
<1>5. CASE Len(p) < Lengths(p)
  <2>1. SUFFICES Len(p) + 1 <= Lengths(s)
    <3> HIDE DEF s
    <3> QED BY <1>1, <1>2, <1>3, <2>1
  <2>2. PICK n \in Nat, m \in Nat, i \in Nat, j \in Nat :
          /\ n = FieldSize(p) /\ m = FieldSize(Rest(p))
          /\ i = FieldSize(s) /\ j = FieldSize(Rest(s))
          /\ n > 0 /\ m > 0 /\ i > 0 /\ j > 0
    <3> HIDE DEF s
    <3> QED BY <1>1, LengthsIs
  <2>3. Lengths(p) = n + m /\ Lengths(s) = i + j
    BY <2>2 DEF Lengths
  <2>4. CASE p = <<>>
    BY <1>2, <2>2, <2>3, <2>4, BytesNone
  <2>5. CASE p # <<>>
    <3>1. i = n
      BY <1>1, <2>2, <2>5, FieldSizes
    <3>2. CASE Len(p) <= n
      BY <1>2, <2>2, <2>3, <3>1, <3>2
    <3>3. CASE n < Len(p)
      <4>1. Rest(p) \in Bytes /\ Len(Rest(p)) = Len(p) - n
        BY <1>2, <2>2, <3>3, RestIs
      <4>2. Len(Rest(p)) # 0
        BY <1>2, <3>3, <4>1
      <4>3. Rest(p) # <<>>
        BY <4>2, BytesNone
      <4>4. Behind(p \o u, n) = Behind(p, n) \o u
        BY <1>1, <1>2, <3>3, DropJoined
      <4>5. Rest(s) = Rest(p) \o u
        BY <2>2, <3>1, <4>4 DEF Rest
      <4>6. j = m
        BY <1>1, <2>2, <4>1, <4>3, <4>5, FieldSizes
      <4> QED BY <1>2, <1>5, <2>3, <3>1, <4>6
    <3> QED BY <1>2, <3>2, <3>3
  <2> QED BY <2>4, <2>5
<1> QED BY <1>2, <1>3, <1>4, <1>5

-----------------------------------------------------------------------------
(* The pairs one after the other.                                           *)

PairsAt(b, f, i) ==
  LET s == SubSeq(b, i, Len(b))
      n == PairSize(s)
  IN  IF n > Len(s) THEN <<>>
      ELSE <<PairOf(SubSeq(s, 1, n))>> \o f[i + n]

ArePairs(f, b) == f = [i \in 1 .. Len(b) + 1 |-> PairsAt(b, f, i)]

LEMMA PairsAre ==
  ASSUME NEW b \in Bytes, NEW f, ArePairs(f, b), NEW i \in 1 .. Len(b) + 1
  PROVE  f[i] = PairsAt(b, f, i)
<1> DEFINE e == [j \in 1 .. Len(b) + 1 |-> PairsAt(b, f, j)]
<1>1. f = e
  BY DEF ArePairs
<1>2. e[i] = PairsAt(b, f, i)
  OBVIOUS
<1> HIDE DEF e
<1> QED BY <1>1, <1>2

\* What PairsAt takes from f: the pairs behind the first.
LEMMA PairsFrom ==
  ASSUME NEW b \in Bytes, NEW f, NEW g, NEW i \in 1 .. Len(b) + 1,
         \A j \in 1 .. Len(b) + 1 : i < j => f[j] = g[j]
  PROVE  PairsAt(b, f, i) = PairsAt(b, g, i)
<1> DEFINE s == SubSeq(b, i, Len(b))
<1>1. Len(b) \in Nat /\ i - 1 \in Nat /\ i - 1 <= Len(b) /\ i - 1 + 1 = i
  BY BytesLen
<1>2. s \in Bytes /\ Len(s) = Len(b) - (i - 1)
  <2>1. PICK k \in Nat : k = i - 1 /\ k <= Len(b) /\ k + 1 = i
    BY <1>1
  <2>2. s = Behind(b, k)
    BY <2>1 DEF Behind
  <2> HIDE DEF s
  <2> QED BY <2>1, <2>2, DropIs
<1> HIDE DEF s
<1>3. PairSize(s) \in Nat /\ PairSize(s) > 0
  BY <1>2, PairSizeIs
<1>4. CASE PairSize(s) > Len(s)
  BY <1>4 DEF PairsAt, s
<1>5. CASE PairSize(s) <= Len(s)
  <2>1. i + PairSize(s) \in 1 .. Len(b) + 1 /\ i < i + PairSize(s)
    BY <1>1, <1>2, <1>3, <1>5
  <2>2. f[i + PairSize(s)] = g[i + PairSize(s)]
    BY <2>1
  <2> QED BY <2>2 DEF PairsAt, s
<1> QED BY <1>2, <1>3, <1>4, <1>5, BytesLen

LEMMA PairsUnique ==
  ASSUME NEW b \in Bytes, NEW f, NEW g, ArePairs(f, b), ArePairs(g, b)
  PROVE  \A i \in 1 .. Len(b) + 1 : f[i] = g[i]
<1> DEFINE T == {k \in Nat : \E i \in 1 .. Len(b) + 1 :
                               k = Len(b) + 1 - i /\ f[i] # g[i]}
<1>1. Len(b) \in Nat
  BY BytesLen
<1>2. ASSUME T # {} PROVE FALSE
  <2>1. PICK k \in T : \A j \in T : k <= j
    <3>1. T \subseteq Nat
      OBVIOUS
    <3> HIDE DEF T
    <3> QED BY <1>2, <3>1, LeastNumber
  <2>2. PICK i \in 1 .. Len(b) + 1 : k = Len(b) + 1 - i /\ f[i] # g[i]
    BY <2>1
  <2>3. ASSUME NEW j \in 1 .. Len(b) + 1, i < j PROVE f[j] = g[j]
    <3>1. Len(b) + 1 - j \in Nat /\ ~(k <= Len(b) + 1 - j)
      BY <1>1, <2>2, <2>3
    <3>2. Len(b) + 1 - j \notin T
      <4> HIDE DEF T
      <4> QED BY <2>1, <3>1
    <3> QED BY <3>1, <3>2
  <2>4. PairsAt(b, f, i) = PairsAt(b, g, i)
    BY <2>3, PairsFrom
  <2>5. f[i] = PairsAt(b, f, i) /\ g[i] = PairsAt(b, g, i)
    BY PairsAre
  <2> QED BY <2>2, <2>4, <2>5
<1>3. ASSUME NEW i \in 1 .. Len(b) + 1, f[i] # g[i] PROVE FALSE
  <2>1. Len(b) + 1 - i \in Nat
    BY <1>1
  <2>2. Len(b) + 1 - i \in T
    BY <1>3, <2>1
  <2> QED BY <1>2, <2>2
<1> QED BY <1>3

\* The pairs in what is left behind the first n bytes.
LEMMA PairsShift ==
  ASSUME NEW b \in Bytes, NEW n \in Nat, n <= Len(b), NEW f, NEW g,
         NEW i \in 1 .. Len(Behind(b, n)) + 1,
         \A j \in 1 .. Len(Behind(b, n)) + 1 : i < j => f[n + j] = g[j]
  PROVE  PairsAt(b, f, n + i) = PairsAt(Behind(b, n), g, i)
<1> DEFINE d == Behind(b, n)
           s == SubSeq(d, i, Len(d))
<1>1. Len(b) \in Nat /\ d \in Bytes /\ Len(d) = Len(b) - n
  BY BytesLen, DropIs
<1> HIDE DEF d
<1>2. PICK k \in Nat : k + 1 = i /\ k <= Len(d) /\ n + k + 1 = n + i
                       /\ n + k <= Len(b)
  <2>1. i \in 1 .. Len(d) + 1
    BY DEF d
  <2>2. i - 1 \in Nat /\ i - 1 + 1 = i /\ i - 1 <= Len(d)
        /\ n + (i - 1) + 1 = n + i /\ n + (i - 1) <= Len(b)
    BY <1>1, <2>1
  <2> QED BY <2>2
<1>3. s = Behind(d, k) /\ SubSeq(b, n + i, Len(b)) = Behind(b, n + k)
  BY <1>2 DEF Behind
<1> HIDE DEF s
<1>4. s = SubSeq(b, n + i, Len(b))
  BY <1>2, <1>3, DropDrop DEF d
<1>5. s \in Bytes /\ Len(s) = Len(d) - k /\ PairSize(s) \in Nat /\ PairSize(s) > 0
  BY <1>1, <1>2, <1>3, DropIs, PairSizeIs
<1>6. CASE PairSize(s) > Len(s)
  <2>1. PairsAt(b, f, n + i) = <<>>
    BY <1>4, <1>6 DEF PairsAt
  <2>2. PairsAt(d, g, i) = <<>>
    BY <1>6 DEF PairsAt, s
  <2> QED BY <2>1, <2>2 DEF d
<1>7. CASE PairSize(s) <= Len(s)
  <2>1. PICK j \in 1 .. Len(d) + 1 : j = i + PairSize(s) /\ i < j
                                     /\ n + i + PairSize(s) = n + j
    <3>1. i + PairSize(s) \in 1 .. Len(d) + 1 /\ i < i + PairSize(s)
          /\ n + i + PairSize(s) = n + (i + PairSize(s))
      BY <1>1, <1>2, <1>5, <1>7
    <3> QED BY <3>1
  <2>2. f[n + j] = g[j]
    BY <2>1 DEF d
  <2>3. Len(s) \in Nat /\ ~(PairSize(s) > Len(s))
    BY <1>5, <1>7, BytesLen
  <2>4. PairsAt(b, f, n + i)
          = <<PairOf(SubSeq(s, 1, PairSize(s)))>> \o f[n + i + PairSize(s)]
    BY <1>4, <2>3 DEF PairsAt
  <2>5. PairsAt(d, g, i)
          = <<PairOf(SubSeq(s, 1, PairSize(s)))>> \o g[i + PairSize(s)]
    BY <2>3 DEF PairsAt, s
  <2> QED BY <2>1, <2>2, <2>4, <2>5 DEF d
<1>8. Len(s) \in Nat
  BY <1>5, BytesLen
<1> QED BY <1>5, <1>6, <1>7, <1>8

LEMMA PairsExist ==
  ASSUME NEW b \in Bytes PROVE \E f : ArePairs(f, b)
<1> DEFINE Fails(k) == \E a \in Bytes : Len(a) = k /\ ~ \E f : ArePairs(f, a)
           T == {k \in Nat : Fails(k)}
<1>1. ASSUME T # {} PROVE FALSE
  <2>1. PICK k \in T : \A j \in T : k <= j
    <3>1. T \subseteq Nat
      OBVIOUS
    <3> HIDE DEF T
    <3> QED BY <1>1, <3>1, LeastNumber
  <2>2. k \in Nat /\ Fails(k)
    BY <2>1
  <2>3. PICK a \in Bytes : Len(a) = k /\ ~ \E f : ArePairs(f, a)
    BY <2>2
  <2>4. CASE k = 0
    <3> DEFINE e == [i \in 1 .. Len(a) + 1 |-> <<>>]
    <3>1. a = <<>>
      BY <2>3, <2>4, BytesLen
    <3>2. ASSUME NEW i \in 1 .. Len(a) + 1 PROVE PairsAt(a, e, i) = <<>>
      <4>1. i = 1
        BY <2>3, <2>4
      <4>2. SubSeq(a, i, Len(a)) = <<>>
        <5>1. Len(a) \in Int /\ i \in Int /\ Len(a) < i
          BY <2>3, <2>4
        <5> QED BY <5>1, SubSeqEmpty
      <4>3. PairSize(<<>>) > Len(<<>>)
        BY PairSizeIs, BytesNone
      <4> HIDE DEF e
      <4> QED BY <4>2, <4>3 DEF PairsAt
    <3>3. ArePairs(e, a)
      BY <3>2 DEF ArePairs
    <3> QED BY <2>3, <3>3
  <2>5. CASE k # 0
    <3> DEFINE d == Behind(a, 1)
    <3>1. d \in Bytes /\ Len(d) = k - 1
      BY <2>2, <2>3, <2>5, DropIs
    <3> HIDE DEF d
    <3>2. k - 1 \in Nat /\ ~(k <= k - 1)
      BY <2>2, <2>5
    <3>3. k - 1 \notin T
      <4> HIDE DEF T
      <4> QED BY <2>1, <3>2
    <3>4. PICK g : ArePairs(g, d)
      BY <3>1, <3>2, <3>3
    <3> HIDE DEF T, Fails
    <3> DEFINE h == [i \in 1 .. Len(a) + 1 |-> g[i - 1]]
               f == [i \in 1 .. Len(a) + 1 |->
                       IF i = 1 THEN PairsAt(a, h, 1) ELSE g[i - 1]]
    <3>5. \A j \in 1 .. Len(a) + 1 : 1 < j => f[j] = g[j - 1] /\ h[j] = g[j - 1]
      OBVIOUS
    <3>6. f[1] = PairsAt(a, h, 1)
      BY <2>2, <2>3
    <3> HIDE DEF h
    <3>7. f = [i \in 1 .. Len(a) + 1 |-> f[i]]
      OBVIOUS
    <3> HIDE DEF f
    <3>8. 1 \in 1 .. Len(a) + 1
      BY <2>2, <2>3
    <3>9. PairsAt(a, h, 1) = PairsAt(a, f, 1)
      BY <3>5, <3>8, PairsFrom
    <3>10. ASSUME NEW i \in 1 .. Len(a) + 1, i # 1
           PROVE  f[i] = PairsAt(a, f, i)
      <4>1. PICK m \in 1 .. Len(d) + 1 : 1 + m = i /\ m = i - 1
        <5>1. i - 1 \in 1 .. Len(d) + 1 /\ 1 + (i - 1) = i
          BY <2>2, <2>3, <3>1, <3>10
        <5> QED BY <5>1
      <4>2. f[i] = g[m]
        BY <2>2, <3>5, <3>10, <4>1
      <4>3. g[m] = PairsAt(d, g, m)
        BY <3>1, <3>4, PairsAre
      <4>4. ASSUME NEW j \in 1 .. Len(d) + 1, m < j PROVE f[1 + j] = g[j]
        <5>1. 1 + j \in 1 .. Len(a) + 1 /\ 1 < 1 + j /\ 1 + j - 1 = j
          BY <2>2, <2>3, <3>1
        <5> QED BY <3>5, <5>1
      <4>5. PairsAt(a, f, 1 + m) = PairsAt(Behind(a, 1), g, m)
        <5>1. 1 \in Nat /\ 1 <= Len(a)
          BY <2>2, <2>3, <2>5
        <5>2. \A j \in 1 .. Len(Behind(a, 1)) + 1 : m < j => f[1 + j] = g[j]
          BY <4>4 DEF d
        <5>3. m \in 1 .. Len(Behind(a, 1)) + 1
          BY DEF d
        <5> QED BY <5>1, <5>2, <5>3, PairsShift
      <4> QED BY <4>1, <4>2, <4>3, <4>5 DEF d
    <3>11. \A i \in 1 .. Len(a) + 1 : f[i] = PairsAt(a, f, i)
      BY <3>6, <3>9, <3>10
    <3>12. ArePairs(f, a)
      BY <3>7, <3>11 DEF ArePairs
    <3> QED BY <2>3, <3>12
  <2> QED BY <2>4, <2>5
<1>2. Len(b) \in Nat
  BY BytesLen
<1>3. ~Fails(Len(b))
  BY <1>1, <1>2
<1> QED BY <1>3

LEMMA PairsOfIs ==
  ASSUME NEW b \in Bytes, NEW f, ArePairs(f, b)
  PROVE  PairsOf(b) = f[1]
<1> DEFINE g == CHOOSE g : ArePairs(g, b)
<1>1. ArePairs(g, b)
  BY PairsExist
<1>2. PairsOf(b) = g[1]
  BY DEF PairsOf, ArePairs, PairsAt
<1> HIDE DEF g
<1>3. 1 \in 1 .. Len(b) + 1
  BY BytesLen
<1>4. f[1] = g[1]
  BY <1>1, <1>3, PairsUnique
<1> QED BY <1>2, <1>4

\* A whole pair and what comes behind it.
LEMMA PairsFirst ==
  ASSUME NEW s \in Bytes, NEW u \in Bytes, Len(s) = PairSize(s)
  PROVE  PairsOf(s \o u) = <<PairOf(s)>> \o PairsOf(u)
<1> DEFINE b == s \o u
           n == Len(s)
<1>1. b \in Bytes /\ Len(b) = n + Len(u) /\ n \in Nat /\ Len(u) \in Nat
  BY BytesJoined, BytesLen
<1>2. Behind(b, n) = u
  <2>1. Behind(b, n) = Behind(s, n) \o u
    BY <1>1, DropJoined, SMTT(20)
  <2> QED BY <2>1, DropAll, BytesAlone
<1>3. SubSeq(b, 1, n) = s
  BY FirstJoined
<1>4. PairSize(b) = n
  <2>1. PairSize(s) <= Len(s)
    BY <1>1
  <2> QED BY <2>1, PairSizeAgain
<1> HIDE DEF b, n
<1>5. PICK f : ArePairs(f, b)
  BY <1>1, PairsExist
<1>6. PICK g : ArePairs(g, u)
  BY PairsExist
<1>7. PairsOf(b) = f[1] /\ PairsOf(u) = g[1]
  BY <1>1, <1>5, <1>6, PairsOfIs
<1>8. f[1] = <<PairOf(s)>> \o f[1 + n]
  <2>1. 1 \in 1 .. Len(b) + 1
    BY <1>1
  <2>2. f[1] = PairsAt(b, f, 1)
    BY <1>1, <1>5, <2>1, PairsAre
  <2>3. SubSeq(b, 1, Len(b)) = b
    BY <1>1, SubSeqFull DEF Bytes
  <2>4. ~(PairSize(b) > Len(b))
    BY <1>1, <1>4
  <2> QED BY <1>3, <1>4, <2>2, <2>3, <2>4 DEF PairsAt
<1>9. f[1 + n] = g[1]
  <2> DEFINE h == [i \in 1 .. Len(u) + 1 |-> f[n + i]]
  <2>1. \A i \in 1 .. Len(u) + 1 : h[i] = f[n + i]
    OBVIOUS
  <2>2. h = [i \in 1 .. Len(u) + 1 |-> h[i]]
    OBVIOUS
  <2> HIDE DEF h
  <2>3. ASSUME NEW i \in 1 .. Len(u) + 1 PROVE h[i] = PairsAt(u, h, i)
    <3>1. n + i \in 1 .. Len(b) + 1
      BY <1>1
    <3>2. f[n + i] = PairsAt(b, f, n + i)
      <4>1. PICK j \in 1 .. Len(b) + 1 : j = n + i
        BY <3>1
      <4> QED BY <1>1, <1>5, <4>1, PairsAre
    <3>3. PairsAt(b, f, n + i) = PairsAt(Behind(b, n), h, i)
      <4>1. n <= Len(b) /\ i \in 1 .. Len(Behind(b, n)) + 1
        BY <1>1, <1>2
      <4>2. \A j \in 1 .. Len(Behind(b, n)) + 1 : i < j => f[n + j] = h[j]
        BY <1>2, <2>1
      <4> QED BY <1>1, <4>1, <4>2, PairsShift, SMTT(20)
    <3> QED BY <1>2, <2>1, <3>2, <3>3
  <2>4. ArePairs(h, u)
    BY <2>2, <2>3 DEF ArePairs
  <2>5. 1 \in 1 .. Len(u) + 1 /\ n + 1 = 1 + n
    BY <1>1
  <2>6. h[1] = g[1]
    BY <1>6, <2>4, <2>5, PairsUnique
  <2> QED BY <2>1, <2>5, <2>6
<1> QED BY <1>7, <1>8, <1>9 DEF b

Pairs == {PairOf(s) : s \in Bytes}

LEMMA PairsTyped ==
  ASSUME NEW b \in Bytes
  PROVE  PairsOf(b) \in Seq(Pairs)
         /\ (Len(b) < PairSize(b) => PairsOf(b) = <<>>)
<1>1. PICK f : ArePairs(f, b)
  BY PairsExist
<1>2. Len(b) \in Nat /\ 1 \in 1 .. Len(b) + 1
  BY BytesLen
<1> DEFINE T == {k \in Nat : \E i \in 1 .. Len(b) + 1 :
                               k = Len(b) + 1 - i /\ f[i] \notin Seq(Pairs)}
<1>3. ASSUME T # {} PROVE FALSE
  <2>1. PICK k \in T : \A j \in T : k <= j
    <3>1. T \subseteq Nat
      OBVIOUS
    <3> HIDE DEF T
    <3> QED BY <1>3, <3>1, LeastNumber
  <2>2. PICK i \in 1 .. Len(b) + 1 : k = Len(b) + 1 - i /\ f[i] \notin Seq(Pairs)
    BY <2>1
  <2>3. ASSUME NEW j \in 1 .. Len(b) + 1, i < j PROVE f[j] \in Seq(Pairs)
    <3>1. Len(b) + 1 - j \in Nat /\ ~(k <= Len(b) + 1 - j)
      BY <1>2, <2>2, <2>3
    <3>2. Len(b) + 1 - j \notin T
      <4> HIDE DEF T
      <4> QED BY <2>1, <3>1
    <3> QED BY <3>1, <3>2
  <2>4. f[i] = PairsAt(b, f, i)
    BY <1>1, PairsAre
  <2> DEFINE s == SubSeq(b, i, Len(b))
             q == SubSeq(s, 1, PairSize(s))
  <2>5. PICK m \in Nat : m + 1 = i /\ m <= Len(b)
    <3>1. i - 1 \in Nat /\ i - 1 + 1 = i /\ i - 1 <= Len(b)
      BY <1>2
    <3> QED BY <3>1
  <2>6. s = Behind(b, m)
    BY <2>5 DEF Behind
  <2> HIDE DEF s
  <2>7. s \in Bytes /\ Len(s) = Len(b) - m /\ PairSize(s) \in Nat
        /\ PairSize(s) > 0 /\ Len(s) \in Nat
    BY <2>5, <2>6, DropIs, PairSizeIs, BytesLen
  <2>8. CASE PairSize(s) > Len(s)
    <3>1. f[i] = <<>>
      BY <2>4, <2>8 DEF PairsAt, s
    <3> QED BY <2>2, <3>1
  <2>9. CASE ~(PairSize(s) > Len(s))
    <3>1. f[i] = <<PairOf(q)>> \o f[i + PairSize(s)]
      BY <2>4, <2>9 DEF PairsAt, s
    <3>2. PICK j \in 1 .. Len(b) + 1 : j = i + PairSize(s) /\ i < j
      <4>1. i + PairSize(s) \in 1 .. Len(b) + 1 /\ i < i + PairSize(s)
        BY <1>2, <2>5, <2>7, <2>9
      <4> QED BY <4>1
    <3>3. f[j] \in Seq(Pairs)
      BY <2>3, <3>2
    <3>4. q \in Bytes
      BY <2>7, <2>9, CutBytes, SMTT(20)
    <3> HIDE DEF q
    <3>5. <<PairOf(q)>> \in Seq(Pairs)
      BY <3>4 DEF Pairs
    <3>6. <<PairOf(q)>> \o f[j] \in Seq(Pairs)
      BY <3>3, <3>5, ConcatProperties
    <3> QED BY <2>2, <3>1, <3>2, <3>6
  <2> QED BY <2>8, <2>9
<1>4. f[1] \in Seq(Pairs)
  <2>1. SUFFICES ASSUME f[1] \notin Seq(Pairs) PROVE FALSE
    OBVIOUS
  <2>2. Len(b) + 1 - 1 \in Nat
    BY <1>2
  <2>3. Len(b) + 1 - 1 \in T
    BY <1>2, <2>1, <2>2
  <2> QED BY <1>3, <2>3
<1>5. ASSUME Len(b) < PairSize(b) PROVE f[1] = <<>>
  <2>1. f[1] = PairsAt(b, f, 1)
    BY <1>1, <1>2, PairsAre
  <2>2. SubSeq(b, 1, Len(b)) = b
    BY SubSeqFull DEF Bytes
  <2>3. PairSize(b) > Len(b)
    BY <1>2, <1>5, PairSizeIs
  <2> QED BY <2>1, <2>2, <2>3 DEF PairsAt
<1>6. PairsOf(b) = f[1]
  BY <1>1, PairsOfIs
<1> QED BY <1>4, <1>5, <1>6

\* In s the pairs ps have been found, and the bytes p of one more.
ParsedAs(s, ps, p) ==
  /\ ps \in Seq(Pairs) /\ p \in Bytes /\ Len(p) < PairSize(p)
  /\ \A u \in Bytes : PairsOf(s \o u) = ps \o PairsOf(p \o u)

LEMMA ParsedNone == ParsedAs(<<>>, <<>>, <<>>)
<1>1. Len(<<>>) < PairSize(<<>>) /\ <<>> \in Bytes
  BY PairSizeIs, BytesNone
<1>2. <<>> \in Seq(Pairs)
  OBVIOUS
<1>3. ASSUME NEW u \in Bytes
      PROVE  PairsOf(<<>> \o u) = <<>> \o PairsOf(<<>> \o u)
  <2>1. <<>> \o u = u
    BY BytesAlone
  <2>2. PairsOf(u) \in Seq(Pairs)
    BY PairsTyped
  <2>3. <<>> \o PairsOf(u) = PairsOf(u)
    BY <2>2, ConcatEmptySeq
  <2> QED BY <2>1, <2>3
<1> QED BY <1>1, <1>2, <1>3 DEF ParsedAs

LEMMA ParsedMore ==
  ASSUME NEW s \in Bytes, NEW ps, NEW p, ParsedAs(s, ps, p),
         NEW c \in 0 .. 255
  PROVE  /\ Append(p, c) \in Bytes
         /\ Len(Append(p, c)) < PairSize(Append(p, c)) =>
              ParsedAs(Append(s, c), ps, Append(p, c))
         /\ ~(Len(Append(p, c)) < PairSize(Append(p, c))) =>
              ParsedAs(Append(s, c), Append(ps, PairOf(Append(p, c))), <<>>)
<1>1. ps \in Seq(Pairs) /\ p \in Bytes /\ Len(p) < PairSize(p)
      /\ \A u \in Bytes : PairsOf(s \o u) = ps \o PairsOf(p \o u)
  BY DEF ParsedAs
<1> DEFINE q == Append(p, c)
           t == Append(s, c)
<1>2. q \in Bytes /\ t \in Bytes /\ Len(q) = Len(p) + 1
      /\ q = p \o <<c>> /\ t = s \o <<c>> /\ <<c>> \in Bytes
  <2>1. q = p \o <<c>> /\ q \in Bytes /\ Len(q) = Len(p) + 1
    BY <1>1, BytesAppend, Zenon
  <2>2. t = s \o <<c>> /\ t \in Bytes
    BY BytesAppend, Zenon
  <2> QED BY <2>1, <2>2, BytesOne
<1>3. Len(q) <= PairSize(q)
  BY <1>1, <1>2, PairSizeGrows
<1> HIDE DEF q, t
<1>4. ASSUME NEW u \in Bytes PROVE PairsOf(t \o u) = ps \o PairsOf(q \o u)
  <2>1. <<c>> \o u \in Bytes
    BY <1>2, BytesJoined
  <2> DEFINE d == <<c>>
  <2>2. d \in Bytes /\ t = s \o d /\ q = p \o d
    BY <1>2
  <2> HIDE DEF d
  <2>3. (s \o d) \o u = s \o (d \o u)
    BY <2>2, BytesRegroup, Zenon
  <2>4. (p \o d) \o u = p \o (d \o u)
    BY <1>1, <2>2, BytesRegroup, Zenon
  <2>5. d \o u \in Bytes
    BY <2>1 DEF d
  <2> QED BY <1>1, <2>2, <2>3, <2>4, <2>5, Zenon
<1>5. ASSUME Len(q) < PairSize(q) PROVE ParsedAs(t, ps, q)
  BY <1>1, <1>2, <1>4, <1>5 DEF ParsedAs
<1>6. ASSUME ~(Len(q) < PairSize(q)) PROVE ParsedAs(t, Append(ps, PairOf(q)), <<>>)
  <2>1. Len(q) = PairSize(q)
    <3>1. Len(q) \in Nat /\ PairSize(q) \in Nat
      BY <1>2, BytesLen, PairSizeIs
    <3> QED BY <1>3, <1>6, <3>1
  <2>2. PairOf(q) \in Pairs
    BY <1>2 DEF Pairs
  <2> DEFINE x == PairOf(q)
  <2> HIDE DEF x
  <2>3. x \in Pairs
    BY <2>2 DEF x
  <2>4. Append(ps, x) \in Seq(Pairs) /\ Append(ps, x) = ps \o <<x>>
        /\ <<x>> \in Seq(Pairs)
    BY <1>1, <2>3, AppendProperties, AppendIsConcat
  <2>5. Len(<<>>) < PairSize(<<>>) /\ <<>> \in Bytes
    BY PairSizeIs, BytesNone
  <2>6. ASSUME NEW u \in Bytes
        PROVE  PairsOf(t \o u) = Append(ps, x) \o PairsOf(<<>> \o u)
    <3>1. PairsOf(q \o u) = <<x>> \o PairsOf(u)
      BY <1>2, <2>1, PairsFirst DEF x
    <3>2. PairsOf(u) \in Seq(Pairs) /\ <<>> \o u = u
      BY PairsTyped, BytesAlone
    <3>3. ps \o (<<x>> \o PairsOf(u)) = (ps \o <<x>>) \o PairsOf(u)
      BY <1>1, <2>4, <3>2, ConcatAssociative
    <3> QED BY <1>4, <2>4, <3>1, <3>2, <3>3
  <2> QED BY <2>4, <2>5, <2>6 DEF ParsedAs, x
<1> QED BY <1>2, <1>5, <1>6 DEF q, t

LEMMA ParsedPrefix ==
  ASSUME NEW s \in Bytes, NEW ps, NEW p, ParsedAs(s, ps, p), NEW t, Goes(s, t)
  PROVE  IsPrefix(ps, PairsOf(t))
<1>1. PICK u \in Bytes : t = s \o u
  BY DEF Goes
<1>2. p \in Bytes /\ ps \in Seq(Pairs) /\ PairsOf(t) = ps \o PairsOf(p \o u)
  BY <1>1 DEF ParsedAs
<1> DEFINE r == PairsOf(p \o u)
           b == PairsOf(t)
<1>3. r \in Seq(Pairs)
  BY <1>2, BytesJoined, PairsTyped
<1> HIDE DEF r
<1>4. Len(b) = Len(ps) + Len(r) /\ Len(ps) \in Nat /\ Len(r) \in Nat
      /\ \A i \in 1 .. Len(ps) : b[i] = ps[i]
  BY <1>2, <1>3, ConcatProperties, LenProperties DEF r
<1> HIDE DEF b
<1>5. SubSeq(ps, 1, Len(ps)) = SubSeq(b, 1, Len(ps))
  BY <1>4
<1> QED BY <1>4, <1>5 DEF IsPrefix, b

LEMMA ParsedWhole ==
  ASSUME NEW s \in Bytes, NEW ps, ParsedAs(s, ps, <<>>)
  PROVE  ps = PairsOf(s) /\ IsPrefix(ps, PairsOf(s))
<1>1. <<>> \in Bytes /\ s \o <<>> = s /\ <<>> \o <<>> = <<>>
  BY BytesNone, BytesAlone
<1>2. PairsOf(s) = ps \o PairsOf(<<>>) /\ ps \in Seq(Pairs)
  BY <1>1 DEF ParsedAs
<1>3. PairsOf(<<>>) = <<>>
  BY <1>1, PairSizeIs, PairsTyped, BytesNone
<1>4. ps \o <<>> = ps
  BY <1>2, ConcatEmptySeq
<1>5. Goes(s, s)
  BY GoesSame
<1> QED BY <1>2, <1>3, <1>4, <1>5, ParsedPrefix

-----------------------------------------------------------------------------
(* The reader.                                                              *)

Errors == {"none", "protocol", "version", "os", "sequence"}

ReaderStates ==
  [rdNext : Nat, stop : Nat, buffStop : Nat, stopUnget : Nat,
   type : {"none", "params", "stdin", "data"}, eorStop : BOOLEAN,
   skip : BOOLEAN, contentLen : Nat, paddingLen : Nat, headerLen : Nat,
   isClosed : BOOLEAN, errno : Errors]

\* What always holds of the reader s, with fill = f and inner.kind = k, wherever
\* it stands.
Sound(s, f, k) ==
  /\ s \in ReaderStates
  /\ s.rdNext <= s.buffStop /\ s.stopUnget <= s.rdNext
  /\ f # "loop" => s.rdNext <= s.stop \/ s.isClosed
  /\ k # "none" <=> s.eorStop
  /\ s.headerLen < HeaderSize
  /\ s.headerLen > 0 => /\ s.contentLen = 0 /\ s.paddingLen = 0 /\ f = "loop"
                        /\ s.headerLen <= s.rdNext /\ ~s.eorStop
  /\ f = "header" => /\ s.contentLen = 0 /\ s.paddingLen = 0
                     /\ s.headerLen = 0 /\ s.stop = s.rdNext
                     /\ HeaderSize <= s.rdNext /\ ~s.eorStop
  /\ s.isClosed => f = "no"

LEMMA ReaderFields ==
  ASSUME NEW s \in ReaderStates
  PROVE  /\ s.rdNext \in Nat /\ s.stop \in Nat /\ s.buffStop \in Nat
         /\ s.stopUnget \in Nat /\ s.contentLen \in Nat
         /\ s.paddingLen \in Nat /\ s.headerLen \in Nat
         /\ s.type \in {"none", "params", "stdin", "data"}
         /\ s.eorStop \in BOOLEAN /\ s.skip \in BOOLEAN
         /\ s.isClosed \in BOOLEAN /\ s.errno \in Errors
BY DEF ReaderStates

LEMMA LeastIs ==
  ASSUME NEW a \in Nat, NEW b \in Nat
  PROVE  /\ Least(a, b) \in Nat /\ Least(a, b) <= a /\ Least(a, b) <= b
         /\ Least(a, b) = a \/ Least(a, b) = b
BY DEF Least

\* t has what s has, and the fields of the moving pointers may differ.
Alike(s, t) ==
  /\ t \in ReaderStates
  /\ t.buffStop = s.buffStop /\ t.type = s.type /\ t.eorStop = s.eorStop
  /\ t.errno = s.errno

LEMMA AfterContentIs ==
  ASSUME NEW s \in ReaderStates, s.rdNext <= s.buffStop
  PROVE  /\ Alike(s, AfterContent(s))
         /\ AfterContent(s).rdNext + AfterContent(s).contentLen
              = s.rdNext + s.contentLen
         /\ s.rdNext <= AfterContent(s).rdNext
         /\ AfterContent(s).rdNext <= s.buffStop
         /\ AfterContent(s).contentLen <= s.contentLen
         /\ AfterContent(s).stop = s.stop
         /\ AfterContent(s).stopUnget = s.stopUnget
         /\ AfterContent(s).paddingLen = s.paddingLen
         /\ AfterContent(s).headerLen = s.headerLen
         /\ AfterContent(s).isClosed = s.isClosed
         /\ AfterContent(s).skip <=>
              s.skip /\ (s.contentLen = 0 \/ AfterContent(s).contentLen > 0)
<1> DEFINE c == Least(s.contentLen, s.buffStop - s.rdNext)
<1>1. s.contentLen \in Nat /\ s.rdNext \in Nat /\ s.buffStop \in Nat
      /\ s.skip \in BOOLEAN
  BY ReaderFields
<1>2. s.buffStop - s.rdNext \in Nat
  BY <1>1
<1>3. c \in Nat /\ c <= s.contentLen /\ c <= s.buffStop - s.rdNext
  BY <1>1, <1>2, LeastIs
<1> HIDE DEF c
<1> DEFINE n == s.contentLen - c
           m == s.rdNext + c
           k == s.skip /\ (s.contentLen = 0 \/ c < s.contentLen)
<1>4. AfterContent(s) = [s EXCEPT !.contentLen = n, !.rdNext = m, !.skip = k]
  BY DEF AfterContent, c, ReaderStates
<1>5. n \in Nat /\ m \in Nat /\ k \in BOOLEAN /\ m + n = s.rdNext + s.contentLen
      /\ s.rdNext <= m /\ m <= s.buffStop /\ n <= s.contentLen
      /\ (k <=> s.skip /\ (s.contentLen = 0 \/ n > 0))
  BY <1>1, <1>3
<1> HIDE DEF n, m, k
<1> QED BY <1>4, <1>5 DEF Alike, ReaderStates

LEMMA AfterPaddingIs ==
  ASSUME NEW s \in ReaderStates, s.rdNext <= s.buffStop
  PROVE  /\ Alike(s, AfterPadding(s))
         /\ AfterPadding(s).rdNext + AfterPadding(s).paddingLen
              = s.rdNext + s.paddingLen
         /\ s.rdNext <= AfterPadding(s).rdNext
         /\ AfterPadding(s).rdNext <= s.buffStop
         /\ AfterPadding(s).stop = s.stop
         /\ AfterPadding(s).stopUnget = s.stopUnget
         /\ AfterPadding(s).contentLen = s.contentLen
         /\ AfterPadding(s).headerLen = s.headerLen
         /\ AfterPadding(s).isClosed = s.isClosed
         /\ AfterPadding(s).skip = s.skip
<1> DEFINE c == Least(s.paddingLen, s.buffStop - s.rdNext)
<1>1. s.paddingLen \in Nat /\ s.rdNext \in Nat /\ s.buffStop \in Nat
  BY ReaderFields
<1>2. s.buffStop - s.rdNext \in Nat
  BY <1>1
<1>3. c \in Nat /\ c <= s.paddingLen /\ c <= s.buffStop - s.rdNext
  BY <1>1, <1>2, LeastIs
<1> HIDE DEF c
<1> DEFINE n == s.paddingLen - c
           m == s.rdNext + c
<1>4. AfterPadding(s) = [s EXCEPT !.paddingLen = n, !.rdNext = m]
  BY DEF AfterPadding, c, ReaderStates
<1>5. n \in Nat /\ m \in Nat /\ m + n = s.rdNext + s.paddingLen
      /\ s.rdNext <= m /\ m <= s.buffStop
  BY <1>1, <1>3
<1> HIDE DEF n, m
<1> QED BY <1>4, <1>5 DEF Alike, ReaderStates

LEMMA AfterHeaderIs ==
  ASSUME NEW s \in ReaderStates, s.rdNext <= s.buffStop,
         s.headerLen < HeaderSize
  PROVE  /\ Alike(s, AfterHeader(s))
         /\ AfterHeader(s).rdNext - AfterHeader(s).headerLen
              = s.rdNext - s.headerLen
         /\ s.rdNext <= AfterHeader(s).rdNext
         /\ AfterHeader(s).rdNext <= s.buffStop
         /\ AfterHeader(s).headerLen <= HeaderSize
         /\ AfterHeader(s).stop = s.stop
         /\ AfterHeader(s).stopUnget = s.stopUnget
         /\ AfterHeader(s).contentLen = s.contentLen
         /\ AfterHeader(s).paddingLen = s.paddingLen
         /\ AfterHeader(s).isClosed = s.isClosed
         /\ AfterHeader(s).skip = s.skip
<1> DEFINE c == Least(HeaderSize - s.headerLen, s.buffStop - s.rdNext)
<1>1. s.headerLen \in Nat /\ s.rdNext \in Nat /\ s.buffStop \in Nat
      /\ HeaderSize \in Nat
  BY ReaderFields, LibraryAssumption
<1>2. s.buffStop - s.rdNext \in Nat /\ HeaderSize - s.headerLen \in Nat
  BY <1>1
<1>3. c \in Nat /\ c <= HeaderSize - s.headerLen /\ c <= s.buffStop - s.rdNext
  BY <1>2, LeastIs
<1> HIDE DEF c
<1> DEFINE n == s.headerLen + c
           m == s.rdNext + c
<1>4. AfterHeader(s) = [s EXCEPT !.headerLen = n, !.rdNext = m]
  BY DEF AfterHeader, c, ReaderStates
<1>5. n \in Nat /\ m \in Nat /\ m - n = s.rdNext - s.headerLen
      /\ s.rdNext <= m /\ m <= s.buffStop /\ n <= HeaderSize
  BY <1>1, <1>3
<1> HIDE DEF n, m
<1> QED BY <1>4, <1>5 DEF Alike, ReaderStates

LEMMA DeliveredIs ==
  ASSUME NEW s \in ReaderStates, s.rdNext <= s.buffStop
  PROVE  /\ Alike(s, Delivered(s))
         /\ Delivered(s).rdNext = s.rdNext
         /\ Delivered(s).stop + Delivered(s).contentLen
              = s.rdNext + s.contentLen
         /\ s.rdNext <= Delivered(s).stop
         /\ Delivered(s).stop <= s.buffStop
         /\ Delivered(s).stopUnget = s.rdNext
         /\ Delivered(s).paddingLen = s.paddingLen
         /\ Delivered(s).headerLen = s.headerLen
         /\ Delivered(s).isClosed = s.isClosed
         /\ Delivered(s).skip = s.skip
<1> DEFINE c == Least(s.contentLen, s.buffStop - s.rdNext)
<1>1. s.contentLen \in Nat /\ s.rdNext \in Nat /\ s.buffStop \in Nat
  BY ReaderFields
<1>2. s.buffStop - s.rdNext \in Nat
  BY <1>1
<1>3. c \in Nat /\ c <= s.contentLen /\ c <= s.buffStop - s.rdNext
  BY <1>1, <1>2, LeastIs
<1> HIDE DEF c
<1> DEFINE n == s.contentLen - c
           m == s.rdNext + c
           r == s.rdNext
<1>4. Delivered(s) = [s EXCEPT !.contentLen = n, !.stop = m, !.stopUnget = r]
  BY DEF Delivered, c, ReaderStates
<1>5. n \in Nat /\ m \in Nat /\ r \in Nat /\ m + n = s.rdNext + s.contentLen
      /\ s.rdNext <= m /\ m <= s.buffStop
  BY <1>1, <1>3
<1> HIDE DEF n, m
<1> QED BY <1>4, <1>5 DEF Alike, ReaderStates

\* How far the reader is, with the record it is in behind it.
Beyond(s) == s.rdNext + s.contentLen + s.paddingLen

\* One turn: some content delivered, the end of a record to be read by itself,
\* a header, or none of these.
TurnDelivers(s, t, g) ==
  /\ g = "no" /\ s.contentLen > 0 /\ ~s.skip /\ ~t.skip
  /\ t.rdNext = s.rdNext /\ t.stop + t.contentLen = s.rdNext + s.contentLen
  /\ s.rdNext <= t.stop /\ t.stopUnget = s.rdNext
  /\ t.paddingLen = s.paddingLen /\ t.headerLen = s.headerLen
  /\ t.isClosed = s.isClosed

TurnEnds(s, t, g) ==
  /\ g = "no" /\ s.eorStop /\ t.isClosed /\ (s.contentLen = 0 \/ s.skip)
  /\ t.rdNext = Beyond(s) /\ t.stop = t.rdNext
  /\ t.contentLen = 0 /\ t.paddingLen = 0 /\ t.headerLen = s.headerLen
  /\ t.stopUnget = s.stopUnget /\ (t.skip => s.contentLen = 0 /\ s.skip)

TurnHeader(s, t, g) ==
  /\ g = "header" /\ ~s.eorStop /\ (s.contentLen = 0 \/ s.skip)
  /\ t.rdNext = Beyond(s) + HeaderSize - s.headerLen /\ t.stop = t.rdNext
  /\ t.contentLen = 0 /\ t.paddingLen = 0 /\ t.headerLen = 0
  /\ t.stopUnget = s.stopUnget /\ t.isClosed = s.isClosed
  /\ (t.skip => s.contentLen = 0 /\ s.skip)

TurnGoesOn(s, t, g) ==
  /\ g = "loop" /\ (s.contentLen = 0 \/ s.skip)
  /\ Beyond(t) - t.headerLen = Beyond(s) - s.headerLen
  /\ t.headerLen < HeaderSize
  /\ t.headerLen > s.headerLen => t.contentLen = 0 /\ t.paddingLen = 0 /\ ~s.eorStop
  /\ s.headerLen <= t.headerLen
  /\ s.eorStop => t.contentLen > 0 \/ t.paddingLen > 0
  /\ t.contentLen <= s.contentLen /\ t.paddingLen <= s.paddingLen
  /\ t.contentLen > 0 => t.paddingLen = s.paddingLen
  /\ t.stop = s.stop /\ t.stopUnget = s.stopUnget /\ t.isClosed = s.isClosed
  /\ t.skip <=> s.skip /\ (s.contentLen = 0 \/ t.contentLen > 0)

Turned(s, t, g) ==
  /\ Alike(s, t) /\ s.rdNext <= t.rdNext /\ t.rdNext <= s.buffStop
  /\ t.stop <= s.buffStop \/ t.stop = s.stop
  /\ \/ TurnDelivers(s, t, g) \/ TurnEnds(s, t, g)
     \/ TurnHeader(s, t, g) \/ TurnGoesOn(s, t, g)

LEMMA TurnIs ==
  ASSUME NEW s \in ReaderStates, s.rdNext <= s.buffStop,
         s.headerLen < HeaderSize, fill = "loop", Turn(s)
  PROVE  Turned(s, in', fill')
<1> DEFINE a == AfterContent(s)
           b == AfterPadding(a)
           c == AfterHeader(b)
<1>0. /\ s.rdNext \in Nat /\ s.contentLen \in Nat /\ s.paddingLen \in Nat
      /\ s.headerLen \in Nat /\ s.buffStop \in Nat /\ s.skip \in BOOLEAN
      /\ s.stop \in Nat /\ HeaderSize \in Nat
  BY ReaderFields, LibraryAssumption
<1>1. /\ Alike(s, a) /\ a \in ReaderStates
      /\ a.rdNext + a.contentLen = s.rdNext + s.contentLen
      /\ s.rdNext <= a.rdNext /\ a.rdNext <= s.buffStop /\ a.buffStop = s.buffStop
      /\ a.contentLen <= s.contentLen
      /\ a.stop = s.stop /\ a.stopUnget = s.stopUnget
      /\ a.paddingLen = s.paddingLen /\ a.headerLen = s.headerLen
      /\ a.isClosed = s.isClosed
      /\ a.skip <=> s.skip /\ (s.contentLen = 0 \/ a.contentLen > 0)
  BY AfterContentIs DEF Alike
<1> HIDE DEF a
<1>2. /\ Alike(a, b) /\ b \in ReaderStates
      /\ b.rdNext + b.paddingLen = a.rdNext + a.paddingLen
      /\ a.rdNext <= b.rdNext /\ b.rdNext <= a.buffStop /\ b.buffStop = s.buffStop
      /\ b.stop = a.stop /\ b.stopUnget = a.stopUnget
      /\ b.contentLen = a.contentLen /\ b.headerLen = a.headerLen
      /\ b.isClosed = a.isClosed /\ b.skip = a.skip
  BY <1>1, AfterPaddingIs DEF Alike
<1> HIDE DEF b
<1>3. /\ Alike(b, c) /\ c \in ReaderStates
      /\ c.rdNext - c.headerLen = b.rdNext - b.headerLen
      /\ b.rdNext <= c.rdNext /\ c.rdNext <= b.buffStop
      /\ c.headerLen <= HeaderSize
      /\ c.stop = b.stop /\ c.stopUnget = b.stopUnget
      /\ c.contentLen = b.contentLen /\ c.paddingLen = b.paddingLen
      /\ c.isClosed = b.isClosed /\ c.skip = b.skip
  <2>1. b.rdNext <= b.buffStop /\ b.headerLen < HeaderSize
    BY <1>1, <1>2
  <2> QED BY <1>2, <2>1, AfterHeaderIs DEF Alike
<1> HIDE DEF c
<1>4. /\ a.rdNext \in Nat /\ a.contentLen \in Nat /\ b.rdNext \in Nat
      /\ b.contentLen \in Nat /\ b.paddingLen \in Nat /\ c.rdNext \in Nat
      /\ c.headerLen \in Nat /\ b.headerLen \in Nat /\ a.paddingLen \in Nat
      /\ a.skip \in BOOLEAN /\ b.skip \in BOOLEAN /\ c.skip \in BOOLEAN
      /\ c.contentLen \in Nat /\ c.paddingLen \in Nat
  BY <1>1, <1>2, <1>3, ReaderFields
<1>5. CASE s.contentLen > 0 /\ ~s.skip /\ in' = Delivered(s) /\ fill' = "no"
  <2> DEFINE d == Delivered(s)
  <2>1. /\ Alike(s, d) /\ d.rdNext = s.rdNext
        /\ d.stop + d.contentLen = s.rdNext + s.contentLen
        /\ s.rdNext <= d.stop /\ d.stop <= s.buffStop /\ d.stopUnget = s.rdNext
        /\ d.paddingLen = s.paddingLen /\ d.headerLen = s.headerLen
        /\ d.isClosed = s.isClosed /\ d.skip = s.skip
    BY DeliveredIs
  <2> HIDE DEF d
  <2>2. in' = d
    BY <1>5 DEF d
  <2>3. TurnDelivers(s, in', fill')
    BY <1>5, <2>1, <2>2 DEF TurnDelivers
  <2> QED BY <1>0, <2>1, <2>2, <2>3 DEF Turned
<1>6. CASE /\ s.contentLen = 0 \/ s.skip
           /\ a.contentLen > 0 /\ in' = a /\ fill' = fill
  <2>1. TurnGoesOn(s, a, "loop")
    BY <1>0, <1>1, <1>4, <1>6 DEF TurnGoesOn, Beyond
  <2> QED BY <1>1, <1>6, <2>1 DEF Turned
<1>7. CASE /\ s.contentLen = 0 \/ s.skip
           /\ a.contentLen = 0 /\ b.paddingLen > 0 /\ in' = b /\ fill' = fill
  <2>1. TurnGoesOn(s, b, "loop")
    BY <1>0, <1>1, <1>2, <1>4, <1>7 DEF TurnGoesOn, Beyond
  <2>2. Alike(s, b) /\ s.rdNext <= b.rdNext /\ b.rdNext <= s.buffStop
        /\ b.stop = s.stop
    BY <1>0, <1>1, <1>2, <1>4 DEF Alike
  <2> QED BY <1>7, <2>1, <2>2 DEF Turned
<1>8. CASE /\ s.contentLen = 0 \/ s.skip
           /\ a.contentLen = 0 /\ b.paddingLen = 0 /\ b.eorStop
           /\ in' = [b EXCEPT !.stop = b.rdNext, !.isClosed = TRUE]
           /\ fill' = "no"
  <2> DEFINE d == [b EXCEPT !.stop = b.rdNext, !.isClosed = TRUE]
  <2>1. /\ Alike(s, d) /\ d.rdNext = b.rdNext /\ d.stop = b.rdNext
        /\ d.contentLen = b.contentLen /\ d.paddingLen = b.paddingLen
        /\ d.headerLen = b.headerLen /\ d.stopUnget = b.stopUnget
        /\ d.skip = b.skip /\ d.isClosed
    BY <1>1, <1>2, <1>4 DEF Alike, ReaderStates
  <2> HIDE DEF d
  <2>2. in' = d
    BY <1>8 DEF d
  <2>3. b.rdNext = Beyond(s) /\ s.eorStop
    BY <1>0, <1>1, <1>2, <1>4, <1>8 DEF Beyond, Alike
  <2>4. TurnEnds(s, d, "no")
    BY <1>0, <1>1, <1>2, <1>4, <1>8, <2>1, <2>3 DEF TurnEnds
  <2>5. s.rdNext <= d.rdNext /\ d.rdNext <= s.buffStop /\ d.stop <= s.buffStop
    BY <1>0, <1>1, <1>2, <1>4, <2>1
  <2> QED BY <1>8, <2>1, <2>2, <2>4, <2>5 DEF Turned
<1>9. CASE /\ s.contentLen = 0 \/ s.skip
           /\ a.contentLen = 0 /\ b.paddingLen = 0 /\ ~b.eorStop
           /\ c.headerLen < HeaderSize /\ in' = c /\ fill' = fill
  <2>1. ~s.eorStop
    BY <1>1, <1>2, <1>9 DEF Alike
  <2>2. TurnGoesOn(s, c, "loop")
    BY <1>0, <1>1, <1>2, <1>3, <1>4, <1>9, <2>1 DEF TurnGoesOn, Beyond
  <2>3. Alike(s, c) /\ s.rdNext <= c.rdNext /\ c.rdNext <= s.buffStop
        /\ c.stop = s.stop
    BY <1>0, <1>1, <1>2, <1>3, <1>4 DEF Alike
  <2> QED BY <1>9, <2>2, <2>3 DEF Turned
<1>10. CASE /\ s.contentLen = 0 \/ s.skip
            /\ a.contentLen = 0 /\ b.paddingLen = 0 /\ ~b.eorStop
            /\ c.headerLen = HeaderSize
            /\ in' = [c EXCEPT !.headerLen = 0, !.stop = c.rdNext]
            /\ fill' = "header"
  <2> DEFINE d == [c EXCEPT !.headerLen = 0, !.stop = c.rdNext]
  <2>1. /\ Alike(s, d) /\ d.rdNext = c.rdNext /\ d.stop = c.rdNext
        /\ d.contentLen = c.contentLen /\ d.paddingLen = c.paddingLen
        /\ d.headerLen = 0 /\ d.stopUnget = c.stopUnget
        /\ d.skip = c.skip /\ d.isClosed = c.isClosed
    BY <1>1, <1>2, <1>3, <1>4 DEF Alike, ReaderStates
  <2> HIDE DEF d
  <2>2. in' = d
    BY <1>10 DEF d
  <2>3. ~s.eorStop /\ c.rdNext = Beyond(s) + HeaderSize - s.headerLen
    <3>1. ~s.eorStop
      BY <1>1, <1>2, <1>10 DEF Alike
    <3>2. c.rdNext = Beyond(s) + HeaderSize - s.headerLen
      <4>1. b.rdNext = Beyond(s) /\ b.headerLen = s.headerLen
        BY <1>0, <1>1, <1>2, <1>4, <1>10 DEF Beyond
      <4>2. c.rdNext - HeaderSize = b.rdNext - b.headerLen
        BY <1>3, <1>10
      <4> QED BY <1>0, <1>4, <4>1, <4>2
    <3> QED BY <3>1, <3>2
  <2>4. TurnHeader(s, d, "header")
    BY <1>0, <1>1, <1>2, <1>3, <1>4, <1>10, <2>1, <2>3 DEF TurnHeader
  <2>5. s.rdNext <= d.rdNext /\ d.rdNext <= s.buffStop /\ d.stop <= s.buffStop
    BY <1>0, <1>1, <1>2, <1>3, <1>4, <2>1
  <2> QED BY <1>10, <2>1, <2>2, <2>4, <2>5 DEF Turned
<1> QED BY <1>5, <1>6, <1>7, <1>8, <1>9, <1>10 DEF Turn, a, b, c

\* One turn leaves the reader sound.
LEMMA TurnSound ==
  ASSUME NEW s, NEW k, Sound(s, "loop", k), NEW t, NEW g, Turned(s, t, g)
  PROVE  Sound(t, g, k)
<1>1. s \in ReaderStates /\ t \in ReaderStates /\ s.rdNext <= s.buffStop
      /\ s.stopUnget <= s.rdNext /\ ~s.isClosed
      /\ (k # "none" <=> s.eorStop) /\ s.headerLen < HeaderSize
  BY DEF Sound, Turned, Alike
<1>2. /\ s.rdNext \in Nat /\ s.contentLen \in Nat /\ s.paddingLen \in Nat
      /\ s.headerLen \in Nat /\ s.buffStop \in Nat /\ s.stop \in Nat
      /\ s.stopUnget \in Nat /\ t.stopUnget \in Nat
      /\ t.rdNext \in Nat /\ t.contentLen \in Nat /\ t.paddingLen \in Nat
      /\ t.headerLen \in Nat /\ t.buffStop \in Nat /\ t.stop \in Nat
      /\ HeaderSize \in Nat /\ HeaderSize > 0
  BY <1>1, ReaderFields, LibraryAssumption
<1>3. /\ t.buffStop = s.buffStop /\ t.eorStop = s.eorStop
      /\ s.rdNext <= t.rdNext /\ t.rdNext <= s.buffStop
  BY DEF Turned, Alike
<1>4. s.headerLen > 0 => /\ s.contentLen = 0 /\ s.paddingLen = 0
                         /\ s.headerLen <= s.rdNext /\ ~s.eorStop
  BY DEF Sound
<1>5. CASE TurnDelivers(s, t, g)
  BY <1>1, <1>2, <1>3, <1>4, <1>5 DEF TurnDelivers, Sound
<1>6. CASE TurnEnds(s, t, g)
  BY <1>1, <1>2, <1>3, <1>4, <1>6 DEF TurnEnds, Sound, Beyond
<1>7. CASE TurnHeader(s, t, g)
  <2>1. HeaderSize <= t.rdNext
    BY <1>2, <1>4, <1>7 DEF TurnHeader, Beyond
  <2> QED BY <1>1, <1>2, <1>3, <1>7, <2>1 DEF TurnHeader, Sound
<1>8. CASE TurnGoesOn(s, t, g)
  <2>1. t.headerLen > 0 => /\ t.contentLen = 0 /\ t.paddingLen = 0
                           /\ t.headerLen <= t.rdNext /\ ~t.eorStop
    BY <1>2, <1>3, <1>4, <1>8 DEF TurnGoesOn, Beyond
  <2> QED BY <1>1, <1>2, <1>3, <1>8, <2>1 DEF TurnGoesOn, Sound
<1> QED BY <1>5, <1>6, <1>7, <1>8 DEF Turned

-----------------------------------------------------------------------------
(* The invariant of the reader, wherever it stands.                         *)

Connections == [open : BOOLEAN, script : Seq(Seq(Sent)), wire : Seq(Sent)]

Requests ==
  [id : Nat, keep : BOOLEAN, role : Nat, begun : BOOLEAN, nWriters : 0 .. 2,
   start : Nat]

IsInner(x) ==
  /\ x = [kind |-> x.kind, got |-> x.got, names |-> x.names]
  /\ x.kind \in {"none", "begin", "values"}

Sizes(w) == BytesUpTo(w)[Len(w)]

Held(c, s) == c.open => s.stop <= s.buffStop /\ s.buffStop <= Sizes(c.wire)

Staged ==
  /\ stage \in Stages
  /\ stage # "accept" => conn.open
  /\ stage = "accept" /\ conn.open => in.errno = NoError
  /\ stage \in {"serve", "accept"} => fill = "no" /\ inner.kind = "none"

ReaderInv ==
  /\ conns \in 0 .. MaxConns /\ conn \in Connections
  /\ peer \in {"open", "closed", "gone"}
  /\ fill \in {"no", "loop", "header"}
  /\ req \in Requests /\ IsInner(inner)
  /\ Sound(in, fill, inner.kind) /\ Held(conn, in) /\ Staged
  /\ \A w \in Writers : Len(out[w].buf) <= OutSize

LEMMA TotalIs == Total = Sizes(conn.wire) /\ BytesBefore = BytesUpTo(conn.wire)
BY DEF Total, BytesBefore, BytesUpTo, Sizes

LEMMA WhereSame == ASSUME NEW i PROVE Where(i) = WhereIn(conn.wire, i)
BY TotalIs DEF Where, WhereIn

LEMMA NewReaderIs ==
  ASSUME NEW at \in Nat, NEW f \in {"no", "loop"}
  PROVE  Sound(NewReader(at), f, "none") /\ NewReader(at).stop = at
         /\ NewReader(at).buffStop = at /\ NewReader(at).errno = NoError
         /\ NewReader(at).rdNext = at
<1> DEFINE s == NewReader(at)
<1>1. /\ s \in ReaderStates /\ s.rdNext = at /\ s.stop = at /\ s.buffStop = at
      /\ s.stopUnget = at /\ s.headerLen = 0 /\ s.contentLen = 0
      /\ s.paddingLen = 0 /\ ~s.eorStop /\ ~s.isClosed /\ s.errno = NoError
      /\ ~s.skip
  BY DEF NewReader, ReaderStates, NoError, Errors
<1> HIDE DEF s
<1>2. Sound(s, f, "none")
  BY <1>1, LibraryAssumption DEF Sound
<1> QED BY <1>1, <1>2 DEF s

LEMMA ReaderInvInit == LibraryInit => ReaderInv
<1> SUFFICES ASSUME LibraryInit PROVE ReaderInv
  OBVIOUS
<1> USE DEF LibraryInit
<1>1. conns \in 0 .. MaxConns
  BY LibraryAssumption
<1>2. conn \in Connections /\ ~conn.open
  <2>1. <<>> \in Seq(Sent) /\ <<>> \in Seq(Seq(Sent))
    OBVIOUS
  <2> QED BY <2>1 DEF NoConn, Connections
<1>3. req \in Requests
  BY DEF Requests
<1>4. IsInner(inner) /\ inner.kind = "none"
  BY DEF IsInner, Outer
<1>5. Sound(in, fill, inner.kind)
  BY <1>4, NewReaderIs
<1>6. Held(conn, in) /\ Staged
  BY <1>2, <1>4 DEF Held, Staged, Stages
<1>7. \A w \in Writers : Len(out[w].buf) <= OutSize
  BY LibraryAssumption DEF NewWriter
<1> QED BY <1>1, <1>2, <1>3, <1>4, <1>5, <1>6, <1>7 DEF ReaderInv

\* A step of the reader.
LEMMA ReaderStep ==
  ASSUME ReaderInv, conn.open, UNCHANGED <<conns, conn, out>>,
         peer' \in {"open", "closed", "gone"},
         fill' \in {"no", "loop", "header"},
         stage' \in Stages, stage' # "accept",
         stage' = "serve" => fill' = "no" /\ inner'.kind = "none",
         req' \in Requests, IsInner(inner'),
         Sound(in', fill', inner'.kind),
         in'.stop <= in'.buffStop, in'.buffStop <= Sizes(conn.wire)
  PROVE  ReaderInv'
<1>1. Held(conn', in') /\ Staged'
  BY DEF Held, Staged
<1> QED BY <1>1 DEF ReaderInv

LEMMA InnerSame ==
  ASSUME ReaderInv PROVE IsInner(inner) /\ inner.kind \in {"none", "begin", "values"}
BY DEF ReaderInv, IsInner

\* A reader at work is the reader of a connection.
LEMMA AtWork ==
  ASSUME ReaderInv, fill # "no" \/ stage # "accept" \/ inner.kind # "none"
  PROVE  /\ conn.open /\ stage # "accept" /\ stage \in Stages
         /\ conn \in Connections /\ conn.wire \in Seq(Sent)
         /\ in.stop <= in.buffStop /\ in.buffStop <= Sizes(conn.wire)
         /\ Sizes(conn.wire) \in Nat
<1>1. conn.open /\ stage # "accept" /\ stage \in Stages
  BY DEF ReaderInv, Staged
<1>2. conn \in Connections /\ conn.wire \in Seq(Sent)
  BY DEF ReaderInv, Connections
<1>3. Sizes(conn.wire) \in Nat
  <2>1. Len(conn.wire) \in 0 .. Len(conn.wire)
    BY <1>2
  <2> QED BY <1>2, <2>1, BeforeIs DEF Sizes, AddsUp
<1> QED BY <1>1, <1>2, <1>3 DEF ReaderInv, Held

LEMMA SoundFields ==
  ASSUME NEW s, NEW f, NEW k, Sound(s, f, k)
  PROVE  /\ s \in ReaderStates /\ s.rdNext <= s.buffStop
         /\ s.stopUnget <= s.rdNext /\ s.headerLen < HeaderSize
BY DEF Sound

LEMMA FillLoopSound ==
  ASSUME ReaderInv, FillLoop
  PROVE  ReaderInv' /\ \E s : /\ Sound(s, "loop", inner.kind)
                              /\ s \in ReaderStates
                              /\ \E n \in Nat : s = [in EXCEPT !.buffStop = n]
                              /\ Turned(s, in', fill')
<1>1. fill = "loop" /\ UNCHANGED <<connection, stage, inner, request, answer>>
  BY DEF FillLoop
<1>2. conn.open /\ stage # "accept" /\ stage \in Stages
      /\ conn.wire \in Seq(Sent) /\ in.stop <= in.buffStop
      /\ in.buffStop <= Sizes(conn.wire) /\ Sizes(conn.wire) \in Nat
  BY <1>1, AtWork
<1>3. Sound(in, "loop", inner.kind)
  BY <1>1 DEF ReaderInv
<1>4. in \in ReaderStates /\ in.rdNext <= in.buffStop
      /\ in.stopUnget <= in.rdNext /\ in.headerLen < HeaderSize
  BY <1>3, SoundFields
<1>5. in.buffStop \in Nat /\ in.rdNext \in Nat /\ in.stop \in Nat
  BY <1>4, ReaderFields
<1>6. PICK n \in Nat : /\ in.buffStop <= n /\ n <= Sizes(conn.wire)
                       /\ Turn([in EXCEPT !.buffStop = n])
  <2>1. CASE Turn(in)
    <3>1. [in EXCEPT !.buffStop = in.buffStop] = in
      BY <1>4 DEF ReaderStates
    <3> QED BY <1>2, <1>5, <2>1, <3>1
  <2>2. CASE \E m \in 1 .. Least(InSize, Total - in.buffStop) :
               Turn([in EXCEPT !.buffStop = @ + m])
    <3>1. PICK m \in 1 .. Least(InSize, Total - in.buffStop) :
                 Turn([in EXCEPT !.buffStop = @ + m])
      BY <2>2
    <3>2. Total - in.buffStop \in Nat /\ Total = Sizes(conn.wire)
      BY <1>2, <1>5, TotalIs
    <3>3. m <= Total - in.buffStop /\ m \in Nat
      BY <3>2, LeastIs, LibraryAssumption, SMTT(20)
    <3>4. in.buffStop + m \in Nat /\ in.buffStop <= in.buffStop + m
          /\ in.buffStop + m <= Sizes(conn.wire)
      BY <1>2, <1>5, <3>2, <3>3
    <3> QED BY <3>1, <3>4
  <2> QED BY <2>1, <2>2 DEF FillLoop
<1> DEFINE s == [in EXCEPT !.buffStop = n]
<1>7. /\ s \in ReaderStates /\ s.rdNext = in.rdNext /\ s.stop = in.stop
      /\ s.buffStop = n /\ s.stopUnget = in.stopUnget /\ s.eorStop = in.eorStop
      /\ s.skip = in.skip /\ s.contentLen = in.contentLen
      /\ s.paddingLen = in.paddingLen /\ s.headerLen = in.headerLen
      /\ s.isClosed = in.isClosed
  BY <1>4 DEF ReaderStates
<1>8. s.rdNext <= s.buffStop /\ s.headerLen < HeaderSize
  BY <1>4, <1>5, <1>6, <1>7
<1>9. Turn(s)
  BY <1>6
<1> HIDE DEF s
<1>10. Turned(s, in', fill')
  BY <1>1, <1>7, <1>8, <1>9, TurnIs
<1>11. Sound(s, "loop", inner.kind)
  BY <1>3, <1>7, <1>8 DEF Sound
<1>12. Sound(in', fill', inner.kind)
  BY <1>10, <1>11, TurnSound
<1>13. fill' \in {"no", "loop", "header"}
  BY <1>10 DEF Turned, TurnDelivers, TurnEnds, TurnHeader, TurnGoesOn
<1>14. in'.stop <= in'.buffStop /\ in'.buffStop <= Sizes(conn.wire)
  <2>1. in'.buffStop = n /\ (in'.stop <= n \/ in'.stop = in.stop)
    BY <1>7, <1>10 DEF Turned, Alike
  <2> QED BY <1>2, <1>5, <1>6, <2>1
<1>15. /\ UNCHANGED <<conns, conn, out, peer, stage, req, inner>>
  BY <1>1 DEF connection, request, answer
<1>16. peer \in {"open", "closed", "gone"} /\ req \in Requests
  BY DEF ReaderInv
<1>17. stage # "serve"
  BY <1>1 DEF ReaderInv, Staged
<1>18. ReaderInv'
  BY <1>2, <1>12, <1>13, <1>14, <1>15, <1>16, <1>17, InnerSame, ReaderStep
<1> QED BY <1>6, <1>7, <1>10, <1>11, <1>18 DEF s

LEMMA ErrorIs ==
  ASSUME NEW s \in ReaderStates, NEW e \in Errors, e # NoError
  PROVE  /\ SetError(s, e) \in ReaderStates /\ SetError(s, e).isClosed
         /\ SetError(s, e).errno # NoError
         /\ SetError(s, e).rdNext = s.rdNext /\ SetError(s, e).stop = s.stop
         /\ SetError(s, e).buffStop = s.buffStop
         /\ SetError(s, e).stopUnget = s.stopUnget
         /\ SetError(s, e).eorStop = s.eorStop
         /\ SetError(s, e).contentLen = s.contentLen
         /\ SetError(s, e).paddingLen = s.paddingLen
         /\ SetError(s, e).headerLen = s.headerLen
         /\ SetError(s, e).type = s.type /\ SetError(s, e).skip = s.skip
<1> DEFINE x == IF s.errno = NoError THEN e ELSE s.errno
<1>1. x \in Errors /\ x # NoError
  BY ReaderFields
<1>2. SetError(s, e) = [s EXCEPT !.errno = x, !.isClosed = TRUE]
  BY DEF SetError, ReaderStates
<1> HIDE DEF x
<1> QED BY <1>1, <1>2 DEF ReaderStates

LEMMA ReadFailsSound ==
  ASSUME ReaderInv, ReadFails
  PROVE  ReaderInv' /\ in'.errno # NoError
<1>1. /\ fill = "loop" /\ peer' = "gone" /\ fill' = "no"
      /\ in' = [SetError(in, "protocol") EXCEPT !.headerLen = 0]
      /\ UNCHANGED <<conns, conn, stage, inner, request, answer>>
  BY DEF ReadFails
<1>2. conn.open /\ stage # "accept" /\ stage \in Stages
      /\ in.stop <= in.buffStop /\ in.buffStop <= Sizes(conn.wire)
  BY <1>1, AtWork
<1>3. Sound(in, "loop", inner.kind) /\ in \in ReaderStates
  BY <1>1, SoundFields DEF ReaderInv
<1> DEFINE s == SetError(in, "protocol")
<1>4. /\ s \in ReaderStates /\ s.isClosed /\ s.errno # NoError
      /\ s.rdNext = in.rdNext /\ s.stop = in.stop /\ s.buffStop = in.buffStop
      /\ s.stopUnget = in.stopUnget /\ s.eorStop = in.eorStop
  <2>1. "protocol" \in Errors /\ "protocol" # NoError
    BY DEF NoError, Errors
  <2> QED BY <1>3, <2>1, ErrorIs
<1> HIDE DEF s
<1>5. /\ in' \in ReaderStates /\ in'.isClosed /\ in'.errno # NoError
      /\ in'.rdNext = in.rdNext /\ in'.stop = in.stop
      /\ in'.buffStop = in.buffStop /\ in'.stopUnget = in.stopUnget
      /\ in'.eorStop = in.eorStop /\ in'.headerLen = 0
  BY <1>1, <1>4 DEF ReaderStates, s
<1>6. Sound(in', "no", inner.kind)
  BY <1>3, <1>5, LibraryAssumption DEF Sound
<1>7. UNCHANGED <<out, req, inner>>
  BY <1>1 DEF request, answer
<1>8. req \in Requests /\ stage # "serve"
  BY <1>1 DEF ReaderInv, Staged
<1> QED BY <1>1, <1>2, <1>5, <1>6, <1>7, <1>8, InnerSame, ReaderStep

LEMMA HeaderOfIs ==
  ASSUME NEW r \in Sent
  PROVE  /\ HeaderOf(r).contentLen = Len(r.content)
         /\ HeaderOf(r).paddingLen = r.padding /\ HeaderOf(r).id = r.id
         /\ HeaderOf(r).type = r.type /\ HeaderOf(r).version = 1
         /\ Len(r.content) \in Nat /\ r.padding \in Nat /\ r.id \in Nat
<1>1. r.content \in Seq(0 .. 255) /\ r.padding \in Nat /\ r.id \in Nat
  BY DEF Sent
<1> QED BY <1>1, LenProperties DEF HeaderOf

LEMMA HeadersTyped ==
  ASSUME ReaderInv, fill = "header", NEW h \in Headers
  PROVE  /\ h.contentLen \in Nat /\ h.paddingLen \in Nat /\ h.id \in Nat
         /\ RecordRead \in Nat
         /\ RecordRead # 0 =>
              RecordRead \in 1 .. Len(conn.wire)
              /\ h = HeaderOf(conn.wire[RecordRead])
<1> DEFINE w == conn.wire
           i == in.rdNext - HeaderSize + 1
<1>1. w \in Seq(Sent) /\ in.buffStop <= Sizes(w) /\ Sizes(w) \in Nat
  BY AtWork
<1>2. in \in ReaderStates /\ in.rdNext <= in.buffStop /\ HeaderSize <= in.rdNext
  BY DEF ReaderInv, Sound
<1>3. i \in Nat /\ 0 < i /\ i <= Sizes(w) /\ Sizes(w) # 0
  BY <1>1, <1>2, ReaderFields, LibraryAssumption
<1>4. WhereIn(w, i)[1] \in 1 .. Len(w)
  <2> HIDE DEF i, w
  <2> QED BY <1>1, <1>3, WhereFound DEF Sizes
<1>5. Where(i) = WhereIn(w, i)
  BY WhereSame
<1>6. RecordRead = IF Where(i)[2] = 1 THEN Where(i)[1] ELSE 0
  BY DEF RecordRead
<1>7. RecordRead \in Nat /\ (RecordRead # 0 => RecordRead \in 1 .. Len(w))
  <2> HIDE DEF i, w
  <2> QED BY <1>4, <1>5, <1>6
<1>8. Len(w) \in Nat /\ Len(w) # 0
  <2>1. Len(w) \in Nat
    BY <1>1
  <2>2. BytesUpTo(w)[0] = 0
    BY <1>1, BeforeIs DEF AddsUp
  <2> HIDE DEF w
  <2> QED BY <1>3, <2>1, <2>2 DEF Sizes
<1>9. \A r \in 1 .. Len(w) : w[r] \in Sent
  BY <1>1
<1> HIDE DEF w, i
<1>10. CASE RecordRead # 0
  <2>1. h = HeaderOf(w[RecordRead])
    BY <1>10 DEF Headers, w
  <2>2. w[RecordRead] \in Sent
    BY <1>7, <1>9, <1>10
  <2> QED BY <1>7, <1>10, <2>1, <2>2, HeaderOfIs DEF w
<1>11. CASE RecordRead = 0
  <2>1. \/ \E r \in 1 .. Len(w) : h = HeaderOf(w[r])
        \/ h = [HeaderOf(w[1]) EXCEPT !.version = 0]
    BY <1>11 DEF Headers, w
  <2>2. ASSUME NEW r \in 1 .. Len(w), h = HeaderOf(w[r])
        PROVE  h.contentLen \in Nat /\ h.paddingLen \in Nat /\ h.id \in Nat
    BY <1>9, <2>2, HeaderOfIs
  <2>3. ASSUME h = [HeaderOf(w[1]) EXCEPT !.version = 0]
        PROVE  h.contentLen \in Nat /\ h.paddingLen \in Nat /\ h.id \in Nat
    <3>1. w[1] \in Sent
      BY <1>8, <1>9
    <3>2. /\ h.contentLen = HeaderOf(w[1]).contentLen
          /\ h.paddingLen = HeaderOf(w[1]).paddingLen
          /\ h.id = HeaderOf(w[1]).id
      BY <2>3 DEF HeaderOf
    <3> QED BY <3>1, <3>2, HeaderOfIs
  <2> QED BY <1>7, <1>11, <2>1, <2>2, <2>3
<1> QED BY <1>10, <1>11

\* The reader with a header h: it stays where it is.
LEMMA WithIs ==
  ASSUME ReaderInv, fill = "header", NEW h \in Headers
  PROVE  /\ With(h) \in ReaderStates
         /\ With(h).contentLen = h.contentLen
         /\ With(h).paddingLen = h.paddingLen
         /\ With(h).rdNext = in.rdNext /\ With(h).stop = in.rdNext
         /\ With(h).buffStop = in.buffStop
         /\ With(h).stopUnget = in.stopUnget /\ With(h).type = in.type
         /\ ~With(h).eorStop /\ With(h).skip = in.skip
         /\ With(h).headerLen = 0 /\ ~With(h).isClosed
         /\ With(h).errno = in.errno
<1>1. h.contentLen \in Nat /\ h.paddingLen \in Nat
  BY HeadersTyped
<1>2. in \in ReaderStates /\ in.stop = in.rdNext /\ ~in.eorStop
      /\ in.headerLen = 0 /\ ~in.isClosed
  BY DEF ReaderInv, Sound
<1> QED BY <1>1, <1>2 DEF With, ReaderStates

\* What ProcessHeader may do with the reader s that has the header.
HeaderDone(s, t, g, k) ==
  \/ /\ g = "no" /\ k = "none" /\ \E e \in Errors : e # NoError /\ t = SetError(s, e)
  \/ /\ g = "no" /\ k \in {"begin", "values"} /\ t = [s EXCEPT !.eorStop = TRUE]
  \/ /\ g = "loop" /\ k = "none" /\ t = [s EXCEPT !.skip = TRUE]
  \/ /\ g = "loop" /\ k = "none" /\ t = s
  \/ /\ g = "no" /\ k = "none" /\ t = [s EXCEPT !.isClosed = TRUE]

LEMMA HeaderDoneSound ==
  ASSUME NEW s \in ReaderStates, s.rdNext <= s.buffStop,
         s.stopUnget <= s.rdNext, s.stop = s.rdNext, ~s.eorStop,
         s.headerLen = 0, ~s.isClosed,
         NEW t, NEW g, NEW k, HeaderDone(s, t, g, k)
  PROVE  /\ Sound(t, g, k) /\ t.rdNext = s.rdNext /\ t.stop = s.stop
         /\ t.buffStop = s.buffStop /\ g \in {"no", "loop"}
         /\ k \in {"none", "begin", "values"}
         /\ t.contentLen = s.contentLen /\ t.paddingLen = s.paddingLen
         /\ t.headerLen = 0 /\ t.type = s.type
<1>0. s.rdNext \in Nat /\ HeaderSize \in Nat /\ HeaderSize > 0
  BY ReaderFields, LibraryAssumption
<1>1. CASE /\ g = "no" /\ k = "none"
           /\ \E e \in Errors : e # NoError /\ t = SetError(s, e)
  <2>1. /\ t \in ReaderStates /\ t.isClosed /\ t.rdNext = s.rdNext
        /\ t.stop = s.stop /\ t.buffStop = s.buffStop
        /\ t.stopUnget = s.stopUnget /\ t.eorStop = s.eorStop
        /\ t.headerLen = s.headerLen /\ t.contentLen = s.contentLen
        /\ t.paddingLen = s.paddingLen /\ t.type = s.type
    BY <1>1, ErrorIs
  <2> QED BY <1>0, <1>1, <2>1 DEF Sound
<1>2. CASE g = "no" /\ k \in {"begin", "values"} /\ t = [s EXCEPT !.eorStop = TRUE]
  <2>1. /\ t \in ReaderStates /\ ~t.isClosed /\ t.rdNext = s.rdNext
        /\ t.stop = s.stop /\ t.buffStop = s.buffStop
        /\ t.stopUnget = s.stopUnget /\ t.eorStop
        /\ t.headerLen = s.headerLen /\ t.contentLen = s.contentLen
        /\ t.paddingLen = s.paddingLen /\ t.type = s.type
    BY <1>2 DEF ReaderStates
  <2> QED BY <1>0, <1>2, <2>1 DEF Sound
<1>3. CASE /\ g = "loop" /\ k = "none"
           /\ t = [s EXCEPT !.skip = TRUE] \/ t = s
  <2>1. /\ t \in ReaderStates /\ ~t.isClosed /\ t.rdNext = s.rdNext
        /\ t.stop = s.stop /\ t.buffStop = s.buffStop
        /\ t.stopUnget = s.stopUnget /\ t.eorStop = s.eorStop
        /\ t.headerLen = s.headerLen /\ t.contentLen = s.contentLen
        /\ t.paddingLen = s.paddingLen /\ t.type = s.type
    BY <1>3 DEF ReaderStates
  <2> QED BY <1>0, <1>3, <2>1 DEF Sound
<1>4. CASE g = "no" /\ k = "none" /\ t = [s EXCEPT !.isClosed = TRUE]
  <2>1. /\ t \in ReaderStates /\ t.isClosed /\ t.rdNext = s.rdNext
        /\ t.stop = s.stop /\ t.buffStop = s.buffStop
        /\ t.stopUnget = s.stopUnget /\ t.eorStop = s.eorStop
        /\ t.headerLen = s.headerLen /\ t.contentLen = s.contentLen
        /\ t.paddingLen = s.paddingLen /\ t.type = s.type
    BY <1>4 DEF ReaderStates
  <2> QED BY <1>0, <1>4, <2>1 DEF Sound
<1> QED BY <1>1, <1>2, <1>3, <1>4 DEF HeaderDone

LEMMA ErrorNames ==
  /\ \A e \in {"protocol", "version", "os", "sequence"} :
       e \in Errors /\ e # NoError
  /\ NoError \in Errors
BY DEF Errors, NoError

LEMMA ProcessHeaderSound ==
  ASSUME ReaderInv, ProcessHeader
  PROVE  ReaderInv'
<1>1. PICK h \in Headers :
        \/ BadHeader(h) \/ BeginRequest(h) \/ CantMultiplex(h)
        \/ ManagementRecord(h) \/ SkippedRecord(h) \/ StreamRecord(h)
  BY DEF ProcessHeader
<1>2. fill = "header" /\ UNCHANGED <<connection, stage, pair, params, body, out>>
  BY DEF ProcessHeader
<1>3. conn.open /\ stage # "accept" /\ stage \in Stages
      /\ in.stop <= in.buffStop /\ in.buffStop <= Sizes(conn.wire)
  BY <1>2, AtWork
<1>4. /\ Sound(in, "header", inner.kind) /\ inner.kind = "none" /\ req \in Requests
      /\ stage # "serve"
  BY <1>2, <1>3 DEF ReaderInv, Sound, Staged
<1>5. IsInner(inner)
  BY DEF ReaderInv
<1>6. /\ in \in ReaderStates /\ in.rdNext <= in.buffStop
      /\ in.stopUnget <= in.rdNext /\ in.stop = in.rdNext /\ ~in.eorStop
      /\ in.headerLen = 0 /\ ~in.isClosed
  BY <1>4 DEF Sound
<1>7. req' \in Requests
  <2>1. \/ req' = req
        \/ req' = [req EXCEPT !.id = h.id, !.start = RecordRead]
    BY <1>1 DEF BadHeader, BeginRequest, CantMultiplex, ManagementRecord,
                SkippedRecord, StreamRecord
  <2>2. h.id \in Nat /\ RecordRead \in Nat
    BY <1>2, HeadersTyped
  <2> QED BY <1>4, <2>1, <2>2 DEF Requests
<1>8. \E s : /\ s = in \/ s = With(h)
             /\ HeaderDone(s, in', fill', inner'.kind) /\ IsInner(inner')
  <2>1. CASE BadHeader(h)
    <3>1. PICK s, e : /\ s = in \/ s = With(h)
                      /\ e \in {"protocol", "version"} /\ in' = SetError(s, e)
                      /\ fill' = "no" /\ UNCHANGED inner
      BY <2>1 DEF BadHeader, Broken
    <3> QED BY <1>4, <1>5, <3>1, ErrorNames DEF HeaderDone
  <2>2. CASE BeginRequest(h)
    <3>1. /\ in' = [With(h) EXCEPT !.eorStop = TRUE] /\ fill' = "no"
          /\ inner' = [Outer EXCEPT !.kind = "begin"]
      BY <2>2 DEF BeginRequest, ReadsRecord
    <3>2. IsInner(inner') /\ inner'.kind = "begin"
      BY <3>1 DEF IsInner, Outer
    <3> QED BY <3>1, <3>2 DEF HeaderDone
  <2>3. CASE CantMultiplex(h)
    <3>1. /\ UNCHANGED inner
          /\ \/ in' = [With(h) EXCEPT !.skip = TRUE] /\ fill' = "loop"
             \/ in' = SetError(With(h), "os") /\ fill' = "no"
      BY <2>3 DEF CantMultiplex, Broken
    <3> QED BY <1>4, <1>5, <3>1, ErrorNames DEF HeaderDone
  <2>4. CASE ManagementRecord(h)
    <3>1. CASE ReadsRecord(With(h), "values")
      <4>1. /\ in' = [With(h) EXCEPT !.eorStop = TRUE] /\ fill' = "no"
            /\ inner' = [Outer EXCEPT !.kind = "values"]
        BY <3>1 DEF ReadsRecord
      <4>2. IsInner(inner') /\ inner'.kind = "values"
        BY <4>1 DEF IsInner, Outer
      <4> QED BY <4>1, <4>2 DEF HeaderDone
    <3>2. CASE /\ UNCHANGED inner
               /\ \/ in' = With(h) /\ fill' = "loop"
                  \/ in' = SetError(With(h), "os") /\ fill' = "no"
      BY <1>4, <1>5, <3>2, ErrorNames DEF HeaderDone
    <3> QED BY <2>4, <3>1, <3>2 DEF ManagementRecord, Broken
  <2>5. CASE SkippedRecord(h)
    BY <1>4, <1>5, <2>5 DEF SkippedRecord, HeaderDone
  <2>6. CASE StreamRecord(h)
    <3>1. /\ UNCHANGED inner
          /\ \/ /\ in' = [With(h) EXCEPT !.stop = in.rdNext, !.isClosed = TRUE]
                /\ fill' = "no"
             \/ in' = With(h) /\ fill' = "loop"
      BY <2>6 DEF StreamRecord
    <3>2. [With(h) EXCEPT !.stop = in.rdNext, !.isClosed = TRUE]
            = [With(h) EXCEPT !.isClosed = TRUE]
      <4>1. With(h) \in ReaderStates /\ With(h).stop = in.rdNext
        BY <1>2, WithIs
      <4> QED BY <4>1 DEF ReaderStates
    <3> QED BY <1>4, <1>5, <3>1, <3>2 DEF HeaderDone
  <2> QED BY <1>1, <2>1, <2>2, <2>3, <2>4, <2>5, <2>6
<1>9. PICK s : /\ s = in \/ s = With(h)
               /\ HeaderDone(s, in', fill', inner'.kind) /\ IsInner(inner')
  BY <1>8
<1>10. /\ s \in ReaderStates /\ s.rdNext <= s.buffStop
       /\ s.stopUnget <= s.rdNext /\ s.stop = s.rdNext /\ ~s.eorStop
       /\ s.headerLen = 0 /\ ~s.isClosed /\ s.buffStop = in.buffStop
       /\ s.stop = in.stop
  BY <1>2, <1>6, <1>9, WithIs
<1>11. /\ Sound(in', fill', inner'.kind) /\ in'.stop = in.stop
       /\ in'.buffStop = in.buffStop /\ fill' \in {"no", "loop"}
  BY <1>9, <1>10, HeaderDoneSound, ZenonT(40)
<1>12. UNCHANGED <<conns, conn, out, peer, stage>>
  BY <1>2 DEF connection
<1>13. peer \in {"open", "closed", "gone"}
  BY DEF ReaderInv
<1> QED BY <1>3, <1>4, <1>7, <1>9, <1>11, <1>12, <1>13, ReaderStep

-----------------------------------------------------------------------------
(* The other steps of the library.                                          *)

\* What FCGX_GetChar reads from.
LEMMA ReadingIs ==
  ASSUME ReaderInv, Reading
  PROVE  /\ fill = "no" /\ conn.open /\ stage # "accept" /\ stage # "serve"
         /\ stage \in Stages
         /\ conn.wire \in Seq(Sent) /\ in.stop <= in.buffStop
         /\ in.buffStop <= Sizes(conn.wire) /\ Sizes(conn.wire) \in Nat
         /\ in \in ReaderStates /\ (in.rdNext <= in.stop \/ in.isClosed)
         /\ in.rdNext <= in.buffStop /\ in.stopUnget <= in.rdNext
         /\ in.headerLen = 0 /\ (inner.kind # "none" <=> in.eorStop)
         /\ Sound(in, "no", inner.kind) /\ IsInner(inner)
         /\ req \in Requests /\ peer \in {"open", "closed", "gone"}
<1>1. fill = "no" /\ (inner.kind # "none" \/ stage \in {"params", "getchar"})
  BY DEF Reading
<1>2. conn.open /\ stage # "accept" /\ stage \in Stages /\ conn.wire \in Seq(Sent)
      /\ in.stop <= in.buffStop /\ in.buffStop <= Sizes(conn.wire)
      /\ Sizes(conn.wire) \in Nat
  BY <1>1, AtWork
<1>3. Sound(in, "no", inner.kind) /\ IsInner(inner) /\ req \in Requests
      /\ peer \in {"open", "closed", "gone"}
  BY <1>1 DEF ReaderInv
<1>4. /\ in \in ReaderStates /\ (in.rdNext <= in.stop \/ in.isClosed)
      /\ in.rdNext <= in.buffStop /\ in.stopUnget <= in.rdNext
      /\ ~(in.headerLen > 0) /\ (inner.kind # "none" <=> in.eorStop)
  BY <1>3 DEF Sound
<1>5. in.headerLen = 0
  BY <1>4, ReaderFields
<1>6. stage # "serve"
  BY <1>1 DEF ReaderInv, Staged
<1> QED BY <1>1, <1>2, <1>3, <1>4, <1>5, <1>6

LEMMA TakenIs ==
  ASSUME ReaderInv, Reading, ~in.isClosed, in.rdNext # in.stop
  PROVE  /\ Taken \in ReaderStates /\ Taken.rdNext = in.rdNext + 1
         /\ in.rdNext + 1 <= in.stop /\ Taken.stop = in.stop
         /\ Taken.buffStop = in.buffStop /\ Taken.stopUnget = in.stopUnget
         /\ Taken.type = in.type /\ Taken.eorStop = in.eorStop
         /\ Taken.skip = in.skip /\ Taken.contentLen = in.contentLen
         /\ Taken.paddingLen = in.paddingLen /\ Taken.headerLen = 0
         /\ ~Taken.isClosed /\ Taken.errno = in.errno
         /\ Sound(Taken, "no", inner.kind)
         /\ Byte(in.rdNext + 1) \in 0 .. 255
<1>1. /\ in \in ReaderStates /\ in.rdNext <= in.stop
      /\ in.rdNext <= in.buffStop /\ in.stopUnget <= in.rdNext
      /\ in.headerLen = 0 /\ (inner.kind # "none" <=> in.eorStop)
      /\ in.stop <= in.buffStop /\ in.buffStop <= Sizes(conn.wire)
      /\ conn.wire \in Seq(Sent) /\ Sizes(conn.wire) \in Nat
  BY ReadingIs
<1>2. in.rdNext \in Nat /\ in.stop \in Nat /\ in.buffStop \in Nat
      /\ in.stopUnget \in Nat
  BY <1>1, ReaderFields
<1>3. /\ Taken \in ReaderStates /\ Taken.rdNext = in.rdNext + 1
      /\ Taken.stop = in.stop
      /\ Taken.buffStop = in.buffStop /\ Taken.stopUnget = in.stopUnget
      /\ Taken.type = in.type /\ Taken.eorStop = in.eorStop
      /\ Taken.skip = in.skip /\ Taken.contentLen = in.contentLen
      /\ Taken.paddingLen = in.paddingLen /\ Taken.headerLen = 0
      /\ ~Taken.isClosed /\ Taken.errno = in.errno
  BY <1>1, <1>2 DEF Taken, ReaderStates
<1>4. in.rdNext + 1 <= in.stop
  BY <1>1, <1>2
<1>5. Sound(Taken, "no", inner.kind)
  BY <1>1, <1>2, <1>3, <1>4, LibraryAssumption DEF Sound
<1>6. Byte(in.rdNext + 1) \in 0 .. 255
  <2>1. PICK i \in Nat : i = in.rdNext + 1 /\ 0 < i /\ i <= Sizes(conn.wire)
    BY <1>1, <1>2, <1>4
  <2>2. WhereIn(conn.wire, i)[1] \in 1 .. Len(conn.wire)
    BY <1>1, <2>1, WhereFound DEF Sizes
  <2>3. Where(i)[1] \in 1 .. Len(conn.wire)
    BY <2>2, WhereSame
  <2>4. conn.wire[Where(i)[1]].content \in Bytes
    BY <1>1, <2>3, ContentIs
  <2> DEFINE x == conn.wire[Where(i)[1]].content
  <2>5. \A k \in 1 .. Len(x) : x[k] \in 0 .. 255
    BY <2>4, BytesLen
  <2>6. Byte(i) \in 0 .. 255
    <3>1. Byte(i) = IF Where(i)[2] - HeaderSize \in 1 .. Len(x)
                    THEN x[Where(i)[2] - HeaderSize] ELSE 0
      BY DEF Byte
    <3> HIDE DEF x
    <3>2. 0 \in 0 .. 255
      OBVIOUS
    <3> QED BY <2>5, <3>1, <3>2
  <2> QED BY <2>1, <2>6
<1> QED BY <1>3, <1>4, <1>5, <1>6

LEMMA NeedFillSound == ASSUME ReaderInv, NeedFill PROVE ReaderInv'
<1>1. /\ Reading /\ ~in.isClosed /\ in.rdNext = in.stop /\ fill' = "loop"
      /\ UNCHANGED <<conns, conn, peer, stage, in, inner, req, out>>
  BY DEF NeedFill, connection, request, answer
<1>2. /\ fill = "no" /\ conn.open /\ stage # "accept" /\ stage # "serve"
      /\ stage \in Stages
      /\ in.stop <= in.buffStop /\ in.buffStop <= Sizes(conn.wire)
      /\ Sound(in, "no", inner.kind) /\ IsInner(inner)
      /\ req \in Requests /\ peer \in {"open", "closed", "gone"}
      /\ in.headerLen = 0
  BY <1>1, ReadingIs
<1>3. Sound(in, "loop", inner.kind)
  BY <1>1, <1>2 DEF Sound
<1> QED BY <1>1, <1>2, <1>3, ReaderStep

LEMMA TakeByteSound ==
  ASSUME ReaderInv, TakeByte
  PROVE  /\ ReaderInv' /\ ~in.isClosed /\ in.rdNext # in.stop
         /\ Reading
<1>1. PICK c : /\ c = Byte(in.rdNext + 1)
               /\ BeginByte(c) \/ ParamByte(c) \/ ValueByte(c) \/ GetChar(c)
  BY DEF TakeByte
<1>2. Takes(c)
  BY <1>1 DEF BeginByte, ParamByte, ValueByte, GetChar
<1>3. Reading /\ ~in.isClosed /\ in.rdNext # in.stop
  BY <1>2 DEF Takes
<1>4. /\ fill = "no" /\ conn.open /\ stage # "accept" /\ stage # "serve"
      /\ stage \in Stages
      /\ in.stop <= in.buffStop /\ in.buffStop <= Sizes(conn.wire)
      /\ IsInner(inner) /\ inner.kind \in {"none", "begin", "values"}
      /\ req \in Requests /\ peer \in {"open", "closed", "gone"}
  BY <1>3, ReadingIs, InnerSame
<1>5. /\ Taken \in ReaderStates /\ Taken.stop = in.stop
      /\ Taken.buffStop = in.buffStop /\ Taken.headerLen = 0
      /\ Sound(Taken, "no", inner.kind) /\ c \in 0 .. 255
  BY <1>1, <1>3, TakenIs
<1>6. CASE BeginByte(c)
  <2>1. /\ UNCHANGED <<conns, conn, peer, stage, fill, out>>
        /\ inner.kind = "begin"
    BY <1>6 DEF BeginByte, connection, answer
  <2>2. CASE /\ inner' = [inner EXCEPT !.got = Append(@, c)] /\ in' = Taken
             /\ UNCHANGED req
    <3>1. inner' = [kind |-> "begin", got |-> Append(inner.got, c),
                    names |-> inner.names]
      BY <1>4, <2>1, <2>2 DEF IsInner
    <3>2. IsInner(inner') /\ inner'.kind = "begin"
      BY <3>1 DEF IsInner
    <3> QED BY <1>3, <1>4, <1>5, <2>1, <2>2, <3>2, ReaderStep
  <2>3. CASE /\ req' = [req EXCEPT !.keep = c % 2 = 1, !.role = c \div 2,
                                   !.begun = TRUE]
             /\ inner' = Outer /\ in' = [Taken EXCEPT !.eorStop = FALSE]
    <3>1. c \div 2 \in Nat
      BY <1>5
    <3>2. req' \in Requests
      <4>1. PICK r \in Nat : r = c \div 2
        BY <3>1
      <4>2. PICK k \in BOOLEAN : k = (c % 2 = 1)
        OBVIOUS
      <4>3. req' = [req EXCEPT !.keep = k, !.role = r, !.begun = TRUE]
        BY <2>3, <4>1, <4>2
      <4> QED BY <1>4, <4>3 DEF Requests
    <3>3. IsInner(inner') /\ inner'.kind = "none"
      BY <2>3 DEF IsInner, Outer
    <3>4. /\ in' \in ReaderStates /\ in'.rdNext = Taken.rdNext
          /\ in'.stop = Taken.stop /\ in'.buffStop = Taken.buffStop
          /\ in'.stopUnget = Taken.stopUnget /\ ~in'.eorStop
          /\ in'.headerLen = 0 /\ in'.isClosed = Taken.isClosed
      <4>1. PICK t \in ReaderStates : t = Taken
        BY <1>5
      <4>2. in' = [t EXCEPT !.eorStop = FALSE] /\ t.headerLen = 0
        BY <1>5, <2>3, <4>1
      <4>3. /\ in' \in ReaderStates /\ in'.rdNext = t.rdNext
            /\ in'.stop = t.stop /\ in'.buffStop = t.buffStop
            /\ in'.stopUnget = t.stopUnget /\ ~in'.eorStop
            /\ in'.headerLen = 0 /\ in'.isClosed = t.isClosed
        BY <4>2 DEF ReaderStates
      <4> QED BY <4>1, <4>3
    <3>5. Sound(in', "no", "none")
      BY <1>5, <3>4, LibraryAssumption DEF Sound
    <3>6. in'.stop <= in'.buffStop /\ in'.buffStop <= Sizes(conn.wire)
      BY <1>4, <1>5, <3>4
    <3>7. /\ fill' = "no" /\ stage' \in Stages /\ stage' # "accept"
          /\ stage' # "serve" /\ peer' \in {"open", "closed", "gone"}
      BY <1>4, <2>1
    <3>8. Sound(in', fill', inner'.kind)
      BY <3>3, <3>5, <3>7
    <3>9. fill' \in {"no", "loop", "header"} /\ conn.open
          /\ UNCHANGED <<conns, conn, out>>
      BY <1>4, <2>1, <3>7
    <3>10. stage' = "serve" => fill' = "no" /\ inner'.kind = "none"
      BY <3>7
    <3> QED
      BY <1>3, <3>2, <3>3, <3>6, <3>7, <3>8, <3>9, <3>10, ReaderStep
  <2> QED BY <1>3, <1>6, <2>2, <2>3 DEF BeginByte
<1>7. CASE ParamByte(c)
  <2>1. /\ UNCHANGED <<conns, conn, peer, stage, fill, inner, req, out>>
        /\ in' = Taken
    BY <1>7 DEF ParamByte, connection, answer
  <2> QED BY <1>3, <1>4, <1>5, <2>1, ReaderStep
<1>8. CASE ValueByte(c)
  <2>1. /\ UNCHANGED <<conns, conn, peer, stage, fill, req, out>>
        /\ in' = Taken /\ inner.kind = "values"
    BY <1>8 DEF ValueByte, connection, request, answer
  <2>2. PICK s, n : inner' = [inner EXCEPT !.got = s, !.names = n]
    <3>1. \E s : \/ inner' = [inner EXCEPT !.got = s]
                 \/ inner' = [inner EXCEPT !.got = <<>>,
                                           !.names = Append(@, PairOf(s).name)]
      BY <1>8 DEF ValueByte
    <3>2. PICK s : \/ inner' = [inner EXCEPT !.got = s]
                   \/ inner' = [inner EXCEPT !.got = <<>>,
                                             !.names = Append(@, PairOf(s).name)]
      BY <3>1
    <3>3. \A x : [inner EXCEPT !.got = x]
                   = [inner EXCEPT !.got = x, !.names = inner.names]
      BY <1>4 DEF IsInner
    <3>4. [inner EXCEPT !.got = <<>>, !.names = Append(@, PairOf(s).name)]
            = [inner EXCEPT !.got = <<>>,
                            !.names = Append(inner.names, PairOf(s).name)]
      BY <1>4 DEF IsInner
    <3> QED BY <3>2, <3>3, <3>4
  <2>3. inner' = [kind |-> "values", got |-> s, names |-> n]
    BY <1>4, <2>1, <2>2 DEF IsInner
  <2>4. IsInner(inner') /\ inner'.kind = "values"
    BY <2>3 DEF IsInner
  <2> QED BY <1>3, <1>4, <1>5, <2>1, <2>4, ReaderStep
<1>9. CASE GetChar(c)
  <2>1. /\ UNCHANGED <<conns, conn, peer, fill, inner, req, out>>
        /\ in' = Taken /\ stage' = "serve" /\ inner.kind = "none"
    BY <1>9 DEF GetChar, connection, answer
  <2> QED BY <1>3, <1>4, <1>5, <2>1, ReaderStep DEF Stages
<1> QED BY <1>1, <1>6, <1>7, <1>8, <1>9

\* A closed reader that is opened again.
LEMMA OpenedIs ==
  ASSUME NEW s \in ReaderStates, NEW b \in BOOLEAN
  PROVE  LET t == [s EXCEPT !.eorStop = FALSE, !.isClosed = b]
         IN  /\ t \in ReaderStates /\ t.rdNext = s.rdNext /\ t.stop = s.stop
             /\ t.buffStop = s.buffStop /\ t.stopUnget = s.stopUnget
             /\ ~t.eorStop /\ t.isClosed = b /\ t.headerLen = s.headerLen
             /\ t.contentLen = s.contentLen /\ t.paddingLen = s.paddingLen
             /\ t.type = s.type /\ t.skip = s.skip /\ t.errno = s.errno
BY DEF ReaderStates

LEMMA BeginCutOffSound ==
  ASSUME ReaderInv, BeginCutOff PROVE ReaderInv' /\ in'.errno # NoError
<1>1. /\ Reading /\ in.isClosed /\ inner.kind = "begin"
      /\ in' = [SetError(in, "protocol") EXCEPT !.eorStop = FALSE]
      /\ inner' = Outer
      /\ UNCHANGED <<conns, conn, peer, stage, fill, req, out>>
  BY DEF BeginCutOff, Eof, connection, request, answer
<1>2. /\ fill = "no" /\ conn.open /\ stage # "accept" /\ stage # "serve"
      /\ stage \in Stages /\ in \in ReaderStates
      /\ in.stop <= in.buffStop /\ in.buffStop <= Sizes(conn.wire)
      /\ in.rdNext <= in.buffStop /\ in.stopUnget <= in.rdNext
      /\ in.headerLen = 0 /\ req \in Requests
      /\ peer \in {"open", "closed", "gone"}
  BY <1>1, ReadingIs
<1> DEFINE s == SetError(in, "protocol")
<1>3. /\ s \in ReaderStates /\ s.isClosed /\ s.errno # NoError
      /\ s.rdNext = in.rdNext /\ s.stop = in.stop /\ s.buffStop = in.buffStop
      /\ s.stopUnget = in.stopUnget /\ s.headerLen = 0
  BY <1>2, ErrorIs, ErrorNames
<1> HIDE DEF s
<1>4. /\ in' \in ReaderStates /\ in'.isClosed /\ in'.errno # NoError
      /\ in'.rdNext = in.rdNext /\ in'.stop = in.stop
      /\ in'.buffStop = in.buffStop /\ in'.stopUnget = in.stopUnget
      /\ ~in'.eorStop /\ in'.headerLen = 0
  BY <1>1, <1>3 DEF ReaderStates, s
<1>5. IsInner(inner') /\ inner'.kind = "none"
  BY <1>1 DEF IsInner, Outer
<1>6. Sound(in', "no", "none")
  BY <1>2, <1>4, LibraryAssumption DEF Sound
<1> QED BY <1>1, <1>2, <1>4, <1>5, <1>6, ReaderStep

LEMMA ValuesEndSound ==
  ASSUME ReaderInv, ValuesEnd PROVE ReaderInv'
<1> DEFINE o == [in EXCEPT !.eorStop = FALSE, !.isClosed = FALSE]
<1>1. /\ Reading /\ in.isClosed /\ inner.kind = "values" /\ inner' = Outer
      /\ UNCHANGED <<conns, conn, peer, stage, req, out>>
      /\ \/ /\ fill' = "no"
            /\ \E e \in {"protocol", "os"} : in' = SetError(o, e)
         \/ fill' = "loop" /\ in' = o
  BY DEF ValuesEnd, Eof, Broken, connection, request
<1>2. /\ fill = "no" /\ conn.open /\ stage # "accept" /\ stage # "serve"
      /\ stage \in Stages /\ in \in ReaderStates
      /\ in.stop <= in.buffStop /\ in.buffStop <= Sizes(conn.wire)
      /\ in.rdNext <= in.buffStop /\ in.stopUnget <= in.rdNext
      /\ in.headerLen = 0 /\ req \in Requests
      /\ peer \in {"open", "closed", "gone"}
  BY <1>1, ReadingIs
<1>3. /\ o \in ReaderStates /\ o.rdNext = in.rdNext /\ o.stop = in.stop
      /\ o.buffStop = in.buffStop /\ o.stopUnget = in.stopUnget /\ ~o.eorStop
      /\ ~o.isClosed /\ o.headerLen = 0
  BY <1>2, OpenedIs
<1> HIDE DEF o
<1>4. IsInner(inner') /\ inner'.kind = "none"
  BY <1>1 DEF IsInner, Outer
<1>5. /\ in' \in ReaderStates
      /\ in'.rdNext = in.rdNext /\ in'.stop = in.stop
      /\ in'.buffStop = in.buffStop /\ in'.stopUnget = in.stopUnget
      /\ ~in'.eorStop /\ in'.headerLen = 0
      /\ fill' \in {"no", "loop"} /\ (fill' = "no" <=> in'.isClosed)
  <2>1. CASE fill' = "loop" /\ in' = o
    BY <1>3, <2>1
  <2>2. ASSUME fill' = "no", NEW e \in {"protocol", "os"}, in' = SetError(o, e)
        PROVE  /\ in' \in ReaderStates
               /\ in'.rdNext = in.rdNext /\ in'.stop = in.stop
               /\ in'.buffStop = in.buffStop /\ in'.stopUnget = in.stopUnget
               /\ ~in'.eorStop /\ in'.headerLen = 0
               /\ fill' \in {"no", "loop"} /\ (fill' = "no" <=> in'.isClosed)
    BY <1>3, <2>2, ErrorIs, ErrorNames, SMTT(20)
  <2> QED BY <1>1, <2>1, <2>2
<1>6. Sound(in', fill', "none")
  BY <1>2, <1>5, LibraryAssumption DEF Sound
<1> QED BY <1>1, <1>2, <1>4, <1>5, <1>6, ReaderStep

LEMMA GetEofSound == ASSUME ReaderInv, GetEof PROVE ReaderInv'
<1>1. /\ Reading /\ inner.kind = "none" /\ stage' = "serve"
      /\ UNCHANGED <<conns, conn, peer, fill, in, inner, req, out>>
  BY DEF GetEof, Eof, connection, request, answer
<1>2. /\ fill = "no" /\ conn.open
      /\ in.stop <= in.buffStop /\ in.buffStop <= Sizes(conn.wire)
      /\ Sound(in, "no", inner.kind) /\ IsInner(inner)
      /\ req \in Requests /\ peer \in {"open", "closed", "gone"}
  BY <1>1, ReadingIs
<1> QED BY <1>1, <1>2, ReaderStep DEF Stages

LEMMA HeadTail ==
  ASSUME NEW S, NEW s \in Seq(S), s # <<>>
  PROVE  Head(s) \in S /\ Tail(s) \in Seq(S)
<1>1. s[1] \in S
  BY EmptySeq
<1> QED BY <1>1

LEMMA AcceptSound ==
  ASSUME ReaderInv, Accept_r
  PROVE  ReaderInv'
<1>1. /\ stage = "accept" /\ stage' = "begin" /\ fill' = "loop"
      /\ inner' = Outer /\ req' = [req EXCEPT !.begun = FALSE, !.start = 0]
      /\ out' = [w \in Writers |-> NewWriter]
  BY DEF Accept_r
<1>2. req' \in Requests
  BY <1>1 DEF ReaderInv, Requests
<1>3. IsInner(inner') /\ inner'.kind = "none"
  BY <1>1 DEF IsInner, Outer
<1>4. \A w \in Writers : Len(out'[w].buf) <= OutSize
  BY <1>1, LibraryAssumption DEF NewWriter
<1>5. /\ conns' \in 0 .. MaxConns /\ conn' \in Connections /\ conn'.open
      /\ peer' \in {"open", "closed", "gone"}
      /\ \E at \in Nat : in' = NewReader(at) /\ at <= Sizes(conn'.wire)
  <2>1. CASE conn.open
    <3> DEFINE b == IF conn.script = <<>> THEN <<>> ELSE Head(conn.script)
               t == IF conn.script = <<>> THEN conn.script ELSE Tail(conn.script)
               w == conn.wire \o b
    <3>1. conn \in Connections /\ conns \in 0 .. MaxConns
          /\ peer \in {"open", "closed", "gone"} /\ Held(conn, in)
          /\ in \in ReaderStates
      BY DEF ReaderInv, Sound
    <3>2. conn.script \in Seq(Seq(Sent)) /\ conn.wire \in Seq(Sent)
      BY <3>1 DEF Connections
    <3>3. b \in Seq(Sent) /\ t \in Seq(Seq(Sent))
      <4>1. CASE conn.script = <<>>
        BY <3>2, <4>1
      <4>2. CASE conn.script # <<>>
        BY <3>2, <4>2, HeadTail
      <4> QED BY <4>1, <4>2
    <3> HIDE DEF b, t
    <3>4. w \in Seq(Sent) /\ Sizes(conn.wire) <= Sizes(w)
          /\ Sizes(conn.wire) \in Nat /\ Sizes(w) \in Nat
      <4>1. w \in Seq(Sent)
        BY <3>2, <3>3
      <4>2. \A v \in Seq(Sent) : Sizes(v) \in Nat
        <5> SUFFICES ASSUME NEW v \in Seq(Sent) PROVE Sizes(v) \in Nat
          OBVIOUS
        <5>1. Len(v) \in 0 .. Len(v)
          OBVIOUS
        <5> QED BY <5>1, BeforeIs DEF Sizes, AddsUp
      <4>3. Sizes(conn.wire) <= Sizes(w)
        BY <3>2, <3>3, BeforeLonger DEF Sizes
      <4> HIDE DEF w
      <4> QED BY <3>2, <4>1, <4>2, <4>3
    <3>5. /\ conn' = [conn EXCEPT !.wire = w, !.script = t]
          /\ in' = NewReader(in.buffStop) /\ UNCHANGED <<conns, peer>>
      BY <2>1 DEF Accept_r, b, t, w
    <3> HIDE DEF w
    <3>6. conn' \in Connections /\ conn'.open /\ conn'.wire = w
      BY <2>1, <3>1, <3>3, <3>4, <3>5 DEF Connections
    <3>7. in.buffStop \in Nat /\ in.buffStop <= Sizes(w)
      <4>1. in.buffStop \in Nat /\ in.buffStop <= Sizes(conn.wire)
        BY <2>1, <3>1, ReaderFields DEF Held
      <4> QED BY <3>4, <4>1
    <3> QED BY <3>1, <3>5, <3>6, <3>7
  <2>2. CASE ~conn.open
    <3>1. PICK s \in Scripts : conn' = [open |-> TRUE, script |-> Tail(s),
                                        wire |-> Head(s)]
      BY <2>2 DEF Accept_r
    <3>2. /\ conns < MaxConns /\ conns' = conns + 1 /\ peer' = "open"
          /\ in' = NewReader(0)
      BY <2>2 DEF Accept_r
    <3>3. s \in Seq(Seq(Sent)) /\ s # <<>>
      BY LibraryAssumption
    <3>4. Head(s) \in Seq(Sent) /\ Tail(s) \in Seq(Seq(Sent))
      BY <3>3, HeadTail
    <3>5. conn' \in Connections /\ conn'.open /\ conn'.wire = Head(s)
      BY <3>1, <3>4 DEF Connections
    <3>6. Sizes(Head(s)) \in Nat
      <4>1. PICK v \in Seq(Sent) : v = Head(s)
        BY <3>4
      <4>2. Len(v) \in 0 .. Len(v)
        OBVIOUS
      <4>3. Sizes(v) \in Nat
        BY <4>2, BeforeIs DEF Sizes, AddsUp
      <4> QED BY <4>1, <4>3
    <3>7. conns' \in 0 .. MaxConns
      BY <3>2, LibraryAssumption DEF ReaderInv
    <3> QED BY <3>2, <3>5, <3>6, <3>7
  <2> QED BY <2>1, <2>2
<1>6. PICK at \in Nat : in' = NewReader(at) /\ at <= Sizes(conn'.wire)
  BY <1>5
<1>7. Sound(in', "loop", "none") /\ in'.stop = at /\ in'.buffStop = at
      /\ in'.errno = NoError
  BY <1>6, NewReaderIs
<1>8. Held(conn', in')
  BY <1>6, <1>7 DEF Held
<1>9. Staged'
  BY <1>1, <1>3, <1>5 DEF Staged, Stages
<1> QED BY <1>1, <1>2, <1>3, <1>4, <1>5, <1>7, <1>8, <1>9 DEF ReaderInv

LEMMA TryAgainSound ==
  ASSUME ReaderInv, TryAgain, fill = "no", inner.kind = "none"
  PROVE  ReaderInv' /\ ~conn'.open
<1>1. /\ conn' = NoConn /\ peer' = "closed" /\ in' = NewReader(0)
      /\ stage' = "accept"
      /\ UNCHANGED <<conns, fill, inner, req, out>>
  BY DEF TryAgain, request, answer
<1>2. conn' \in Connections /\ ~conn'.open
  <2>1. <<>> \in Seq(Sent) /\ <<>> \in Seq(Seq(Sent))
    OBVIOUS
  <2> QED BY <1>1, <2>1 DEF NoConn, Connections
<1>3. Sound(in', "no", "none")
  BY <1>1, NewReaderIs
<1>4. Held(conn', in') /\ Staged'
  BY <1>1, <1>2 DEF Held, Staged, Stages
<1>5. /\ conns \in 0 .. MaxConns /\ req \in Requests /\ IsInner(inner)
      /\ \A w \in Writers : Len(out[w].buf) <= OutSize
  BY DEF ReaderInv
<1> QED BY <1>1, <1>2, <1>3, <1>4, <1>5 DEF ReaderInv

LEMMA SetTypeIs ==
  ASSUME NEW s \in ReaderStates, NEW y \in {"params", "stdin", "data"},
         NEW k, Sound(s, "no", k), k = "none"
  PROVE  LET t == SetReaderType(s, y)
         IN  /\ t \in ReaderStates /\ Sound(t, "no", "none")
             /\ t.rdNext = s.rdNext /\ t.stop = s.rdNext
             /\ t.buffStop = s.buffStop /\ t.stopUnget = s.stopUnget
             /\ t.type = y /\ ~t.eorStop /\ ~t.skip /\ t.contentLen = 0
             /\ t.paddingLen = 0 /\ t.headerLen = 0 /\ ~t.isClosed
             /\ t.errno = s.errno
<1> DEFINE t == SetReaderType(s, y)
<1>1. /\ s.rdNext <= s.buffStop /\ s.stopUnget <= s.rdNext
      /\ ~(s.headerLen > 0) /\ s.headerLen \in Nat /\ s.rdNext \in Nat
  BY ReaderFields DEF Sound
<1>2. /\ t \in ReaderStates
      /\ t.rdNext = s.rdNext /\ t.stop = s.rdNext
      /\ t.buffStop = s.buffStop /\ t.stopUnget = s.stopUnget
      /\ t.type = y /\ ~t.eorStop /\ ~t.skip /\ t.contentLen = 0
      /\ t.paddingLen = 0 /\ t.headerLen = s.headerLen /\ ~t.isClosed
      /\ t.errno = s.errno
  BY <1>1 DEF SetReaderType, ReaderStates
<1>3. t.headerLen = 0
  BY <1>1, <1>2
<1> HIDE DEF t
<1>4. Sound(t, "no", "none")
  BY <1>1, <1>2, <1>3, LibraryAssumption DEF Sound
<1> QED BY <1>2, <1>3, <1>4 DEF t

LEMMA BeginReadSound ==
  ASSUME ReaderInv, BeginRead PROVE ReaderInv'
<1>1. /\ stage = "begin" /\ fill = "no" /\ inner.kind = "none"
      /\ in' = SetReaderType(in, "params") /\ stage' = "params"
      /\ UNCHANGED <<conns, conn, peer, fill, inner, req, out>>
  BY DEF BeginRead, connection, request, answer
<1>2. conn.open /\ in.stop <= in.buffStop /\ in.buffStop <= Sizes(conn.wire)
  BY <1>1, AtWork
<1>3. /\ Sound(in, "no", "none") /\ in \in ReaderStates /\ IsInner(inner)
      /\ req \in Requests /\ peer \in {"open", "closed", "gone"}
  BY <1>1 DEF ReaderInv, Sound
<1>4. /\ Sound(in', "no", "none") /\ in'.stop = in.rdNext
      /\ in'.buffStop = in.buffStop /\ in.rdNext <= in.buffStop
  BY <1>1, <1>3, SetTypeIs DEF Sound
<1> QED BY <1>1, <1>2, <1>3, <1>4, ReaderStep DEF Stages

LEMMA ParamsReadSound ==
  ASSUME ReaderInv, ParamsRead PROVE ReaderInv'
<1>1. /\ Reading /\ inner.kind = "none" /\ stage' = "serve"
      /\ in' = SetReaderType(in, "stdin")
      /\ req' = [req EXCEPT !.nWriters = 2]
      /\ UNCHANGED <<conns, conn, peer, fill, inner, out>>
  BY DEF ParamsRead, Eof, connection, answer
<1>2. /\ fill = "no" /\ conn.open
      /\ in \in ReaderStates /\ in.rdNext <= in.buffStop
      /\ in.buffStop <= Sizes(conn.wire)
      /\ Sound(in, "no", inner.kind) /\ IsInner(inner)
      /\ req \in Requests /\ peer \in {"open", "closed", "gone"}
  BY <1>1, ReadingIs
<1>3. /\ Sound(in', "no", "none") /\ in'.stop = in.rdNext
      /\ in'.buffStop = in.buffStop
  BY <1>1, <1>2, SetTypeIs
<1>4. req' \in Requests
  BY <1>1, <1>2 DEF Requests
<1> QED BY <1>1, <1>2, <1>3, <1>4, ReaderStep DEF Stages

-----------------------------------------------------------------------------
(* The steps of the application.                                            *)

\* While the application runs.
LEMMA ServingIs ==
  ASSUME ReaderInv, stage = "serve"
  PROVE  /\ fill = "no" /\ inner.kind = "none" /\ conn.open
         /\ in \in ReaderStates /\ Sound(in, "no", "none")
         /\ in.rdNext <= in.buffStop /\ in.stopUnget <= in.rdNext
         /\ in.rdNext <= in.stop \/ in.isClosed
         /\ ~in.eorStop /\ in.headerLen = 0
         /\ in.stop <= in.buffStop /\ in.buffStop <= Sizes(conn.wire)
         /\ conn.wire \in Seq(Sent)
         /\ IsInner(inner) /\ req \in Requests
         /\ peer \in {"open", "closed", "gone"}
<1>1. fill = "no" /\ inner.kind = "none"
  BY DEF ReaderInv, Staged
<1>2. conn.open /\ in.stop <= in.buffStop /\ in.buffStop <= Sizes(conn.wire)
      /\ conn.wire \in Seq(Sent)
  BY AtWork
<1>3. /\ Sound(in, "no", "none") /\ IsInner(inner) /\ req \in Requests
      /\ peer \in {"open", "closed", "gone"}
  BY <1>1 DEF ReaderInv
<1>4. /\ in \in ReaderStates /\ in.rdNext <= in.buffStop
      /\ in.stopUnget <= in.rdNext /\ (in.rdNext <= in.stop \/ in.isClosed)
      /\ ~in.eorStop /\ ~(in.headerLen > 0)
  BY <1>3 DEF Sound
<1>5. in.headerLen = 0
  BY <1>4, ReaderFields
<1> QED BY <1>1, <1>2, <1>3, <1>4, <1>5

LEMMA CallSound == ASSUME ReaderInv, CallGetChar PROVE ReaderInv'
<1>1. /\ stage = "serve" /\ stage' = "getchar"
      /\ UNCHANGED <<conns, conn, peer, fill, in, inner, req, out>>
  BY DEF CallGetChar, connection, request, answer
<1>2. /\ fill = "no" /\ inner.kind = "none" /\ conn.open
      /\ Sound(in, "no", "none")
      /\ in.stop <= in.buffStop /\ in.buffStop <= Sizes(conn.wire)
      /\ IsInner(inner) /\ req \in Requests
      /\ peer \in {"open", "closed", "gone"}
  BY <1>1, ServingIs
<1> QED BY <1>1, <1>2, ReaderStep DEF Stages

LEMMA UnGetSound ==
  ASSUME ReaderInv, UnGetChar
  PROVE  /\ ReaderInv'
         /\ in' \in ReaderStates /\ in'.rdNext = in.rdNext - 1
         /\ in.rdNext - 1 \in Nat /\ in.stopUnget <= in.rdNext - 1
         /\ in'.stop = in.stop /\ in'.buffStop = in.buffStop
         /\ in'.stopUnget = in.stopUnget /\ in'.eorStop = in.eorStop
         /\ in'.skip = in.skip /\ in'.contentLen = in.contentLen
         /\ in'.paddingLen = in.paddingLen /\ in'.headerLen = in.headerLen
         /\ in'.isClosed = in.isClosed /\ in'.type = in.type
         /\ in'.errno = in.errno
<1>1. /\ stage = "serve" /\ in.rdNext # in.stopUnget /\ ~in.isClosed
      /\ in' = [in EXCEPT !.rdNext = @ - 1]
      /\ UNCHANGED <<conns, conn, peer, stage, fill, inner, req, out>>
  BY DEF UnGetChar, connection, answer
<1>2. /\ fill = "no" /\ inner.kind = "none" /\ conn.open
      /\ in \in ReaderStates /\ Sound(in, "no", "none")
      /\ in.rdNext <= in.buffStop /\ in.stopUnget <= in.rdNext
      /\ (in.rdNext <= in.stop \/ in.isClosed) /\ ~in.eorStop
      /\ in.headerLen = 0
      /\ in.stop <= in.buffStop /\ in.buffStop <= Sizes(conn.wire)
      /\ IsInner(inner) /\ req \in Requests
      /\ peer \in {"open", "closed", "gone"}
  BY <1>1, ServingIs
<1>3. in.rdNext \in Nat /\ in.stopUnget \in Nat /\ in.buffStop \in Nat
      /\ in.stop \in Nat
  BY <1>2, ReaderFields
<1>4. in.rdNext - 1 \in Nat /\ in.stopUnget <= in.rdNext - 1
  BY <1>1, <1>2, <1>3
<1>5. /\ in' \in ReaderStates /\ in'.rdNext = in.rdNext - 1
      /\ in'.stop = in.stop /\ in'.buffStop = in.buffStop
      /\ in'.stopUnget = in.stopUnget /\ in'.eorStop = in.eorStop
      /\ in'.skip = in.skip /\ in'.contentLen = in.contentLen
      /\ in'.paddingLen = in.paddingLen /\ in'.headerLen = in.headerLen
      /\ in'.isClosed = in.isClosed /\ in'.type = in.type
      /\ in'.errno = in.errno
  BY <1>1, <1>2, <1>4 DEF ReaderStates
<1>6. in'.rdNext <= in'.buffStop /\ in'.rdNext <= in'.stop
  BY <1>1, <1>2, <1>3, <1>5
<1>7. Sound(in', "no", "none")
  BY <1>1, <1>2, <1>4, <1>5, <1>6, LibraryAssumption DEF Sound
<1>8. ReaderInv'
  BY <1>1, <1>2, <1>5, <1>7, ReaderStep DEF Stages
<1> QED BY <1>4, <1>5, <1>8

LEMMA FilterSound == ASSUME ReaderInv, StartFilterData PROVE ReaderInv'
<1>1. /\ stage = "serve"
      /\ in' = SetReaderType(in, "data") \/ in' = SetError(in, "sequence")
      /\ UNCHANGED <<conns, conn, peer, stage, fill, inner, req, out>>
  BY DEF StartFilterData, connection, request, answer
<1>2. /\ fill = "no" /\ inner.kind = "none" /\ conn.open
      /\ in \in ReaderStates /\ Sound(in, "no", "none")
      /\ in.rdNext <= in.buffStop /\ in.stopUnget <= in.rdNext
      /\ ~in.eorStop /\ in.headerLen = 0
      /\ in.stop <= in.buffStop /\ in.buffStop <= Sizes(conn.wire)
      /\ IsInner(inner) /\ req \in Requests
      /\ peer \in {"open", "closed", "gone"}
  BY <1>1, ServingIs
<1>3. Sound(in', "no", "none") /\ in'.stop <= in'.buffStop
      /\ in'.buffStop = in.buffStop
  <2>1. CASE in' = SetReaderType(in, "data")
    BY <1>2, <2>1, SetTypeIs
  <2>2. CASE in' = SetError(in, "sequence")
    <3>1. /\ in' \in ReaderStates /\ in'.isClosed /\ in'.rdNext = in.rdNext
          /\ in'.stop = in.stop /\ in'.buffStop = in.buffStop
          /\ in'.stopUnget = in.stopUnget /\ in'.eorStop = in.eorStop
          /\ in'.headerLen = in.headerLen
      BY <1>2, <2>2, ErrorIs, ErrorNames
    <3> QED BY <1>2, <3>1, LibraryAssumption DEF Sound
  <2> QED BY <1>1, <2>1, <2>2
<1> QED BY <1>1, <1>2, <1>3, ReaderStep DEF Stages

\* A step of the writers.
LEMMA WriterStep ==
  ASSUME ReaderInv, UNCHANGED <<connection, stage, fill, in, inner>>,
         req' \in Requests, \A w \in Writers : Len(out'[w].buf) <= OutSize
  PROVE  ReaderInv'
<1>1. UNCHANGED <<conns, conn, peer, stage, fill, in, inner>>
  BY DEF connection
<1> QED BY <1>1 DEF ReaderInv, Staged

\* The buffers after an assignment to the buffer of w.
LEMMA BuffersHeld ==
  ASSUME out \in [Writers -> WriterStates], NEW w \in Writers, NEW x,
         out' = [out EXCEPT ![w] = x], Len(x.buf) <= OutSize,
         \A v \in Writers : Len(out[v].buf) <= OutSize
  PROVE  \A v \in Writers : Len(out'[v].buf) <= OutSize
OBVIOUS

LEMMA PutSound ==
  ASSUME ReaderInv, LibraryInv, NEW w \in Writers, PutChar(w)
  PROVE  ReaderInv'
<1> DEFINE c == out[w].puts + 1
           b == out[w].buf
<1>1. /\ UNCHANGED <<connection, stage, fill, in, inner>> /\ req' = req
      /\ \/ /\ ~out[w].closed /\ Len(b) < OutSize
            /\ out' = [out EXCEPT ![w].buf = Append(@, c), ![w].puts = c]
         \/ out' = [out EXCEPT ![w].buf = <<c>>, ![w].puts = c,
                               ![w].written = TRUE]
         \/ out' = [out EXCEPT ![w] = SetError(@, "os")]
  BY DEF PutChar, request
<1>2. out \in [Writers -> WriterStates] /\ out[w] \in WriterStates
  BY DEF LibraryInv
<1>3. b \in Seq(Nat) /\ c \in Nat
  BY <1>2 DEF WriterStates
<1>4. req \in Requests /\ \A v \in Writers : Len(out[v].buf) <= OutSize
  BY DEF ReaderInv
<1> HIDE DEF c, b
<1>5. \A v \in Writers : Len(out'[v].buf) <= OutSize
  <2>1. CASE /\ ~out[w].closed /\ Len(b) < OutSize
             /\ out' = [out EXCEPT ![w].buf = Append(@, c), ![w].puts = c]
    <3> DEFINE x == [out[w] EXCEPT !.buf = Append(b, c), !.puts = c]
    <3>1. out' = [out EXCEPT ![w] = x]
      BY <1>2, <2>1 DEF WriterStates, b
    <3>2. x.buf = Append(b, c)
      BY <1>2 DEF WriterStates
    <3>3. Len(Append(b, c)) <= OutSize
      <4>1. Len(Append(b, c)) = Len(b) + 1 /\ Len(b) \in Nat
        BY <1>3, AppendProperties, LenProperties
      <4> QED BY <2>1, <4>1, LibraryAssumption
    <3> HIDE DEF x
    <3> QED BY <1>2, <1>4, <3>1, <3>2, <3>3, BuffersHeld
  <2>2. CASE out' = [out EXCEPT ![w].buf = <<c>>, ![w].puts = c,
                                ![w].written = TRUE]
    <3> DEFINE x == [out[w] EXCEPT !.buf = <<c>>, !.puts = c, !.written = TRUE]
    <3>1. out' = [out EXCEPT ![w] = x]
      BY <1>2, <2>2 DEF WriterStates
    <3>2. x.buf = <<c>>
      BY <1>2 DEF WriterStates
    <3>3. Len(<<c>>) <= OutSize
      BY LibraryAssumption
    <3> HIDE DEF x
    <3> QED BY <1>2, <1>4, <3>1, <3>2, <3>3, BuffersHeld
  <2>3. CASE out' = [out EXCEPT ![w] = SetError(@, "os")]
    <3> DEFINE x == SetError(out[w], "os")
    <3>1. out' = [out EXCEPT ![w] = x]
      BY <2>3
    <3>2. x.buf = out[w].buf
      BY <1>2 DEF WriterStates, SetError
    <3> HIDE DEF x
    <3> QED BY <1>2, <1>4, <3>1, <3>2, BuffersHeld
  <2> QED BY <1>1, <2>1, <2>2, <2>3
<1>6. req' \in Requests
  BY <1>1, <1>4
<1> QED BY <1>1, <1>5, <1>6, WriterStep

LEMMA FlushSound ==
  ASSUME ReaderInv, LibraryInv, NEW w \in Writers, FFlush(w)
  PROVE  ReaderInv'
<1>1. /\ UNCHANGED <<connection, stage, fill, in, inner>> /\ req' = req
      /\ \/ out' = [out EXCEPT ![w].buf = <<>>, ![w].written = TRUE]
         \/ out' = [out EXCEPT ![w] = SetError(@, "os")]
  BY DEF FFlush, request
<1>2. out \in [Writers -> WriterStates] /\ out[w] \in WriterStates
  BY DEF LibraryInv
<1>4. req \in Requests /\ \A v \in Writers : Len(out[v].buf) <= OutSize
  BY DEF ReaderInv
<1>5. \A v \in Writers : Len(out'[v].buf) <= OutSize
  <2>2. CASE out' = [out EXCEPT ![w].buf = <<>>, ![w].written = TRUE]
    <3> DEFINE x == [out[w] EXCEPT !.buf = <<>>, !.written = TRUE]
    <3>1. out' = [out EXCEPT ![w] = x]
      BY <1>2, <2>2 DEF WriterStates
    <3>2. x.buf = <<>>
      BY <1>2 DEF WriterStates
    <3>3. Len(<<>>) <= OutSize
      BY LibraryAssumption
    <3> HIDE DEF x
    <3> QED BY <1>2, <1>4, <3>1, <3>2, <3>3, BuffersHeld
  <2>3. CASE out' = [out EXCEPT ![w] = SetError(@, "os")]
    <3> DEFINE x == SetError(out[w], "os")
    <3>1. out' = [out EXCEPT ![w] = x]
      BY <2>3
    <3>2. x.buf = out[w].buf
      BY <1>2 DEF WriterStates, SetError
    <3> HIDE DEF x
    <3> QED BY <1>2, <1>4, <3>1, <3>2, BuffersHeld
  <2> QED BY <1>1, <2>2, <2>3
<1>6. req' \in Requests
  BY <1>1, <1>4
<1> QED BY <1>1, <1>5, <1>6, WriterStep

LEMMA ClosedBuffer ==
  ASSUME ReaderInv, LibraryInv, NEW w \in Writers, NEW e
  PROVE  Len(ClosedWriter(w, e).buf) <= OutSize
<1>1. out[w] \in WriterStates /\ Len(out[w].buf) <= OutSize
  BY DEF LibraryInv, ReaderInv
<1>2. ClosedWriter(w, e).buf = IF e = NoError THEN <<>> ELSE out[w].buf
  BY <1>1 DEF ClosedWriter, WriterStates
<1>3. Len(<<>>) <= OutSize
  BY LibraryAssumption
<1> QED BY <1>1, <1>2, <1>3

LEMMA CloseSound ==
  ASSUME ReaderInv, LibraryInv, NEW w \in Writers, FClose(w)
  PROVE  ReaderInv'
<1>1. /\ UNCHANGED <<connection, stage, fill, in, inner>>
      /\ stage = "serve" /\ ~out[w].closed
      /\ req' = [req EXCEPT !.nWriters = @ - 1]
      /\ \E e : out' = [out EXCEPT ![w] = ClosedWriter(w, e)]
  BY DEF FClose
<1>2. req.nWriters = Open(out)
  BY <1>1 DEF LibraryInv, Counted
<1>3. req.nWriters \in 1 .. 2
  BY <1>1, <1>2 DEF Open, Writers
<1>4. req' \in Requests
  <2>1. PICK n \in 0 .. 2 : n = req.nWriters - 1
    BY <1>3
  <2>2. req \in Requests
    BY DEF ReaderInv
  <2>3. req' = [req EXCEPT !.nWriters = n]
    BY <1>1, <2>1, <2>2 DEF Requests
  <2> QED BY <2>2, <2>3 DEF Requests
<1>5. \A v \in Writers : Len(out'[v].buf) <= OutSize
  <2>1. PICK e : out' = [out EXCEPT ![w] = ClosedWriter(w, e)]
    BY <1>1
  <2>2. Len(ClosedWriter(w, e).buf) <= OutSize
    BY ClosedBuffer
  <2>3. out \in [Writers -> WriterStates]
        /\ \A v \in Writers : Len(out[v].buf) <= OutSize
    BY DEF LibraryInv, ReaderInv
  <2> QED BY <2>1, <2>2, <2>3, BuffersHeld
<1> QED BY <1>1, <1>4, <1>5, WriterStep

LEMMA FinishSound ==
  ASSUME ReaderInv, LibraryInv, Finish
  PROVE  ReaderInv'
<1>1. /\ stage = "serve" /\ stage' = "accept"
      /\ req' = [req EXCEPT !.nWriters = 0]
      /\ UNCHANGED <<conns, fill, in, inner>>
      /\ \E e, o : out' = [stderr |-> ClosedWriter("stderr", e),
                           stdout |-> ClosedWriter("stdout", o)]
      /\ \/ UNCHANGED <<conn, peer>> /\ in.errno = NoError
         \/ conn' = NoConn /\ peer' = "closed"
  BY DEF Finish
<1>2. /\ fill = "no" /\ inner.kind = "none" /\ IsInner(inner)
      /\ Sound(in, "no", "none") /\ req \in Requests
  BY <1>1, ServingIs
<1>3. \A v \in Writers : Len(out'[v].buf) <= OutSize
  <2>1. PICK e, o : out' = [stderr |-> ClosedWriter("stderr", e),
                            stdout |-> ClosedWriter("stdout", o)]
    BY <1>1
  <2>2. Len(ClosedWriter("stderr", e).buf) <= OutSize
        /\ Len(ClosedWriter("stdout", o).buf) <= OutSize
    BY ClosedBuffer DEF Writers
  <2> DEFINE x == ClosedWriter("stderr", e)
             y == ClosedWriter("stdout", o)
  <2>3. out' = [stderr |-> x, stdout |-> y]
    BY <2>1
  <2>4. Len(x.buf) <= OutSize /\ Len(y.buf) <= OutSize
    BY <2>2
  <2> HIDE DEF x, y
  <2> QED BY <2>3, <2>4 DEF Writers
<1>4. req' \in Requests
  BY <1>1, <1>2 DEF Requests
<1>5. /\ conn' \in Connections /\ peer' \in {"open", "closed", "gone"}
      /\ Held(conn', in') /\ (conn'.open => in.errno = NoError)
  <2>1. CASE UNCHANGED <<conn, peer>> /\ in.errno = NoError
    BY <1>1, <2>1 DEF ReaderInv
  <2>2. CASE conn' = NoConn /\ peer' = "closed"
    <3>1. <<>> \in Seq(Sent) /\ <<>> \in Seq(Seq(Sent))
      OBVIOUS
    <3>2. conn' \in Connections /\ ~conn'.open
      BY <2>2, <3>1 DEF NoConn, Connections
    <3> QED BY <2>2, <3>2 DEF Held
  <2> QED BY <1>1, <2>1, <2>2
<1>6. Staged'
  BY <1>1, <1>2, <1>5 DEF Staged, Stages
<1>7. conns \in 0 .. MaxConns
  BY DEF ReaderInv
<1> QED BY <1>1, <1>2, <1>3, <1>4, <1>5, <1>6, <1>7 DEF ReaderInv

LEMMA PeerSound ==
  ASSUME ReaderInv, PeerCloses PROVE ReaderInv'
<1>1. /\ peer' = "closed"
      /\ UNCHANGED <<conns, conn, stage, fill, in, inner, req, out>>
  BY DEF PeerCloses, request, answer
<1> QED BY <1>1 DEF ReaderInv, Staged

LEMMA SameSound ==
  ASSUME ReaderInv, UNCHANGED libraryVars PROVE ReaderInv'
<1>1. UNCHANGED <<peer, conns, conn, stage, fill, in, inner, req, out>>
  BY DEF libraryVars, connection, request, answer
<1> QED BY <1>1 DEF ReaderInv, Staged

LEMMA ReaderInvNext ==
  ASSUME ReaderInv, LibraryInv, [LibraryNext]_libraryVars
  PROVE  ReaderInv'
<1>1. CASE PeerCloses
  BY <1>1, PeerSound
<1>2. CASE Library
  <2>1. CASE FillLoop
    BY <2>1, FillLoopSound
  <2>2. CASE ReadFails
    BY <2>2, ReadFailsSound
  <2>3. CASE ProcessHeader
    BY <2>3, ProcessHeaderSound
  <2>4. CASE NeedFill
    BY <2>4, NeedFillSound
  <2>5. CASE TakeByte
    BY <2>5, TakeByteSound
  <2>6. CASE BeginCutOff
    BY <2>6, BeginCutOffSound
  <2>7. CASE ValuesEnd
    BY <2>7, ValuesEndSound
  <2>8. CASE GetEof
    BY <2>8, GetEofSound
  <2>9. CASE Accept_r
    BY <2>9, AcceptSound
  <2>10. CASE BeginRead
    BY <2>10, BeginReadSound
  <2>11. CASE BeginFails
    BY <2>11, TryAgainSound DEF BeginFails
  <2>12. CASE ParamsRead
    BY <2>12, ParamsReadSound
  <2>13. CASE ParamsFail
    BY <2>13, TryAgainSound DEF ParamsFail, Eof, Reading
  <2> QED BY <1>2, <2>1, <2>2, <2>3, <2>4, <2>5, <2>6, <2>7, <2>8, <2>9,
             <2>10, <2>11, <2>12, <2>13 DEF Library
<1>3. CASE Application
  <2>1. CASE CallGetChar
    BY <2>1, CallSound
  <2>2. CASE UnGetChar
    BY <2>2, UnGetSound
  <2>3. CASE StartFilterData
    BY <2>3, FilterSound
  <2>4. CASE Finish
    BY <2>4, FinishSound
  <2>5. ASSUME NEW w \in Writers, PutChar(w) \/ FFlush(w) \/ FClose(w)
        PROVE  ReaderInv'
    BY <2>5, PutSound, FlushSound, CloseSound
  <2> QED BY <1>3, <2>1, <2>2, <2>3, <2>4, <2>5 DEF Application
<1>4. CASE UNCHANGED libraryVars
  BY <1>4, SameSound
<1> QED BY <1>1, <1>2, <1>3, <1>4 DEF LibraryNext

LEMMA ReaderInvTyped == ReaderInv => TypeOK
<1> SUFFICES ASSUME ReaderInv PROVE TypeOK
  OBVIOUS
<1>1. /\ in \in ReaderStates /\ in.rdNext <= in.buffStop
      /\ in.stopUnget <= in.rdNext /\ in.headerLen < HeaderSize
      /\ (inner.kind # "none" <=> in.eorStop)
      /\ (fill # "loop" => in.rdNext <= in.stop \/ in.isClosed)
  BY DEF ReaderInv, Sound
<1>2. in.contentLen \in Nat /\ in.paddingLen \in Nat /\ in.headerLen \in Nat
  BY <1>1, ReaderFields
<1>3. req.nWriters \in 0 .. 2
  BY DEF ReaderInv, Requests
<1>4. inner.kind \in {"none", "begin", "values"}
  BY InnerSame
<1>5. conn.open => in.stop <= in.buffStop /\ in.buffStop <= Total
  BY TotalIs DEF ReaderInv, Held
<1>6. in.headerLen \in 0 .. HeaderSize - 1
  BY <1>1, <1>2, LibraryAssumption
<1> QED BY <1>1, <1>2, <1>3, <1>4, <1>5, <1>6 DEF ReaderInv, TypeOK, Staged, Stages

-----------------------------------------------------------------------------
(* Where the reader stands: in record n of the records w, with `Left' bytes *)
(* of its content still to be read; f is FillBuffProc, k what ProcessHeader *)
(* reads itself, own the records of the stream.                             *)

Left(s, f) == s.contentLen + (IF f = "no" THEN s.stop - s.rdNext ELSE 0)

Stands(w, s, f, n) ==
  /\ n \in 1 .. Len(w)
  /\ Left(s, f) \in Nat /\ Left(s, f) <= Len(w[n].content)
  /\ s.rdNext + Left(s, f) + s.paddingLen
       = BytesUpTo(w)[n] + s.headerLen + (IF f = "header" THEN HeaderSize ELSE 0)
  /\ Left(s, f) > 0 => s.paddingLen = w[n].padding
  /\ s.isClosed => s.contentLen = 0 /\ s.paddingLen = 0 /\ s.stop = s.rdNext

\* Record n is of the stream `own' unless it is skipped or ProcessHeader reads
\* it; the reader is closed exactly at the end of the stream.
Within(w, s, f, k, own, n) ==
  /\ Stands(w, s, f, n)
  /\ Left(s, f) > 0 => (n \in own <=> ~s.skip /\ k = "none")
  /\ s.skip => f = "loop" /\ s.contentLen > 0
  /\ n <= EndIn(w, own)
  /\ s.isClosed /\ k = "none" <=> n = EndIn(w, own)

\* The characters that FCGX_UnGetChar may give back are content of record n.
Kept(w, s, f, k, own, n) ==
  f = "no" /\ k = "none" /\ ~s.isClosed =>
    /\ n \in own /\ s.paddingLen = w[n].padding
    /\ s.stop + s.contentLen <= s.stopUnget + Len(w[n].content)

\* BEGIN_REQUEST is being read, or has been to its last byte.
InBegin(w, r, s, f, x, n) ==
  /\ n = r.start /\ Stands(w, s, f, n)
  /\ r.begun => Left(s, f) = 0 /\ s.paddingLen = 0 /\ f = "no"
                /\ x.kind = "none" /\ ~s.isClosed
  /\ ~r.begun =>
       /\ x.kind = "begin" /\ x.got \in Bytes
       /\ ~s.isClosed => Left(s, f) > 0
                         /\ (~s.skip => Len(x.got) = BeginSize - Left(s, f))
       /\ s.skip /\ f = "no" => s.stop = s.rdNext

OwnParams(w, r) == OwnIn(w, r.id, "params", r.start)
OwnStream(w, r, type) == OwnIn(w, r.id, type, EndIn(w, OwnParams(w, r)))

\* The pairs of the parameters that have been read, with the one begun, are what
\* the records of PARAMS hold up to here.
InParams(w, r, s, f, k, ps, p, n) ==
  /\ s.type = "params" /\ r.start <= n
  /\ Within(w, s, f, k, OwnParams(w, r), n)
  /\ ParsedAs(Partly(w, OwnParams(w, r), n, Left(s, f)), ps, p)

\* The parameters are read to their end, what was read of STDIN or DATA is what its
\* records hold up to here, and DATA begins behind the end of STDIN.
InStream(w, r, s, f, k, ps, b, n) ==
  LET e == EndIn(w, OwnParams(w, r))
      own == OwnStream(w, r, s.type)
  IN  /\ s.type \in {"stdin", "data"} /\ e <= n
      /\ Within(w, s, f, k, own, n)
      /\ ps = PairsOf(ReadIn(w, OwnParams(w, r), e - 1))
      /\ b[s.type] = Partly(w, own, n, Left(s, f))
      /\ s.type = "stdin" =>
           b.data = <<>> /\ \A i \in 1 .. n : i \notin OwnStream(w, r, "data")
      /\ s.type = "data" =>
           LET stdin == OwnStream(w, r, "stdin")
           IN  b.stdin = ReadIn(w, stdin, EndIn(w, stdin) - 1)
      /\ b[s.type] # <<>> \/ s.rdNext # s.stop => Kept(w, s, f, k, own, n)

Bodies == [stdin : Bytes, data : Bytes]

\* What each stage of a request has done: the begin of a request is read once,
\* and nothing of a stream before the parameters.
Staging ==
  /\ body \in Bodies
  /\ req.start # 0 => req.id # 0
  /\ stage \in {"params", "serve", "getchar"} => req.begun
  /\ inner.kind = "begin" => ~req.begun
  /\ stage = "begin" => params = <<>> /\ pair = <<>>
                        /\ (req.begun => in.errno = NoError /\ fill = "no"
                                         /\ inner.kind = "none")
  /\ stage \in {"begin", "params"} =>
       /\ body = [stdin |-> <<>>, data |-> <<>>]
       /\ in.errno # NoError => in.isClosed

Found == conn.open /\ req.start # 0 /\ Plain

\* Unless there is an error to find, the reader stands in a record of the request.
Follows ==
  Found /\ in.errno = NoError =>
    \E n \in 1 .. Len(conn.wire) :
      /\ stage = "begin" => InBegin(conn.wire, req, in, fill, inner, n)
      /\ stage = "params" =>
           InParams(conn.wire, req, in, fill, inner.kind, params, pair, n)
      /\ stage \in {"serve", "getchar", "accept"} =>
           InStream(conn.wire, req, in, fill, inner.kind, params, body, n)

EnvironmentOf(w, r) ==
  PairsOf(ReadIn(w, OwnParams(w, r), EndIn(w, OwnParams(w, r)) - 1))

\* Whatever went wrong since, the parameters are the first of those sent.
Prefixed ==
  Found /\ stage # "begin" => IsPrefix(params, EnvironmentOf(conn.wire, req))

LEMMA StandsIs ==
  ASSUME NEW w \in Seq(Sent), NEW s \in ReaderStates, NEW f, NEW n,
         Stands(w, s, f, n)
  PROVE  /\ n \in 1 .. Len(w) /\ Len(w) \in Nat /\ w[n] \in Sent
         /\ w[n].content \in Bytes /\ Len(w[n].content) \in Nat
         /\ w[n].padding \in Nat
         /\ BytesUpTo(w)[n] \in Nat /\ BytesUpTo(w)[n - 1] \in Nat
         /\ BytesUpTo(w)[n] = BytesUpTo(w)[n - 1] + HeaderSize
                                + Len(w[n].content) + w[n].padding
         /\ Left(s, f) \in Nat /\ Left(s, f) <= Len(w[n].content)
         /\ HeaderSize \in Nat /\ HeaderSize > 0
<1>1. n \in 1 .. Len(w) /\ Left(s, f) \in Nat
      /\ Left(s, f) <= Len(w[n].content)
  BY DEF Stands
<1>2. w[n] \in Sent /\ w[n].content \in Bytes /\ Len(w[n].content) \in Nat
      /\ w[n].padding \in Nat
  BY <1>1, ContentIs
<1>3. Len(w) \in Nat /\ n \in 0 .. Len(w) /\ n - 1 \in 0 .. Len(w)
  BY <1>1
<1>4. AddsUp(BytesUpTo(w), w, Len(w))
  BY BeforeIs
<1>5. BytesUpTo(w)[n] \in Nat /\ BytesUpTo(w)[n - 1] \in Nat
  BY <1>3, <1>4 DEF AddsUp
<1>6. BytesUpTo(w)[n] = BytesUpTo(w)[n - 1] + RecordSize(w[n])
  BY <1>1, <1>4 DEF AddsUp
<1>7. RecordSize(w[n]) = HeaderSize + Len(w[n].content) + w[n].padding
  BY <1>2, RecordSizes
<1>8. HeaderSize \in Nat /\ HeaderSize > 0
  BY LibraryAssumption
<1> DEFINE a == BytesUpTo(w)[n - 1]
           b == BytesUpTo(w)[n]
           l == Len(w[n].content)
           p == w[n].padding
<1>9. a \in Nat /\ l \in Nat /\ p \in Nat /\ b = a + (HeaderSize + l + p)
  BY <1>2, <1>5, <1>6, <1>7
<1> HIDE DEF a, b, l, p
<1>10. b = a + HeaderSize + l + p
  BY <1>8, <1>9
<1> QED BY <1>1, <1>2, <1>3, <1>5, <1>8, <1>10 DEF a, b, l, p

\* What Stands says, by the kinds of places.
LEMMA StandsLoop ==
  ASSUME NEW w, NEW s \in ReaderStates, NEW n
  PROVE  /\ Left(s, "loop") = s.contentLen /\ Left(s, "header") = s.contentLen
         /\ Left(s, "no") = s.contentLen + (s.stop - s.rdNext)
BY ReaderFields DEF Left

LEMMA BeyondIs ==
  ASSUME NEW s \in ReaderStates, NEW c, s.contentLen = c
  PROVE  s.rdNext + c + s.paddingLen = Beyond(s) /\ Beyond(s) \in Nat
BY ReaderFields DEF Beyond

\* One turn of FillBuffProc's loop.
LEMMA StandsTurn ==
  ASSUME NEW w \in Seq(Sent), NEW s, NEW k, Sound(s, "loop", k), NEW n,
         Stands(w, s, "loop", n), NEW t, NEW g, Turned(s, t, g)
  PROVE  /\ Stands(w, t, g, n)
         /\ \/ Left(t, g) = Left(s, "loop")
            \/ s.skip /\ s.contentLen > 0 /\ Left(t, g) < Left(s, "loop")
         /\ Left(s, "loop") = s.contentLen
<1> DEFINE B == BytesUpTo(w)[n]
           L == Len(w[n].content)
           P == w[n].padding
<1>1. s \in ReaderStates /\ t \in ReaderStates /\ s.rdNext <= s.buffStop
      /\ ~s.isClosed
      /\ (s.headerLen > 0 => /\ s.contentLen = 0 /\ s.paddingLen = 0
                             /\ s.headerLen <= s.rdNext /\ ~s.eorStop)
  BY DEF Sound, Turned, Alike
<1>2. /\ s.rdNext \in Nat /\ s.contentLen \in Nat /\ s.paddingLen \in Nat
      /\ s.headerLen \in Nat /\ s.stop \in Nat
      /\ t.rdNext \in Nat /\ t.contentLen \in Nat /\ t.paddingLen \in Nat
      /\ t.headerLen \in Nat /\ t.stop \in Nat
  BY <1>1, ReaderFields
<1>3. /\ n \in 1 .. Len(w) /\ B \in Nat /\ L \in Nat /\ P \in Nat
      /\ HeaderSize \in Nat /\ HeaderSize > 0
  BY <1>1, StandsIs
<1>4. /\ Left(s, "loop") = s.contentLen /\ s.contentLen <= L
      /\ s.rdNext + s.contentLen + s.paddingLen = B + s.headerLen
      /\ (s.contentLen > 0 => s.paddingLen = P)
  <2>1. Left(s, "loop") = s.contentLen
    BY <1>1, StandsLoop
  <2>2. "loop" # "header"
    OBVIOUS
  <2>3. s.rdNext + s.contentLen + s.paddingLen = B + s.headerLen + 0
    BY <2>1, <2>2 DEF Stands
  <2> QED BY <1>2, <1>3, <2>1, <2>3, SMTT(20) DEF Stands
<1> HIDE DEF B, L, P
<1>5. CASE TurnDelivers(s, t, g)
  <2>1. /\ g = "no" /\ s.contentLen > 0 /\ t.rdNext = s.rdNext
        /\ t.stop + t.contentLen = s.rdNext + s.contentLen
        /\ t.paddingLen = s.paddingLen /\ t.headerLen = s.headerLen
        /\ t.isClosed = s.isClosed
    BY <1>5 DEF TurnDelivers
  <2>2. Left(t, g) = t.contentLen + (t.stop - t.rdNext)
    BY <2>1 DEF Left
  <2>3. Left(t, g) = s.contentLen
    BY <1>2, <2>1, <2>2, SMTT(20)
  <2>4. Stands(w, t, g, n)
    BY <1>1, <1>2, <1>3, <1>4, <2>1, <2>3 DEF Stands, B, L, P
  <2> QED BY <1>4, <2>3, <2>4
<1>6. CASE TurnEnds(s, t, g)
  <2>1. /\ g = "no" /\ s.eorStop /\ (s.contentLen = 0 \/ s.skip)
        /\ t.rdNext = s.rdNext + s.contentLen + s.paddingLen
        /\ t.stop = t.rdNext /\ t.contentLen = 0 /\ t.paddingLen = 0
        /\ t.headerLen = s.headerLen
    BY <1>6 DEF TurnEnds, Beyond
  <2>2. Left(t, g) = 0
    BY <1>2, <2>1 DEF Left
  <2>3. Stands(w, t, g, n)
    BY <1>1, <1>2, <1>3, <1>4, <2>1, <2>2 DEF Stands, B, L, P
  <2> QED BY <1>2, <1>4, <2>1, <2>2, <2>3
<1>7. CASE TurnHeader(s, t, g)
  <2>1. /\ g = "header" /\ (s.contentLen = 0 \/ s.skip)
        /\ t.rdNext = s.rdNext + s.contentLen + s.paddingLen + HeaderSize
                        - s.headerLen
        /\ t.stop = t.rdNext /\ t.contentLen = 0 /\ t.paddingLen = 0
        /\ t.headerLen = 0 /\ t.isClosed = s.isClosed
    BY <1>7 DEF TurnHeader, Beyond
  <2>2. Left(t, g) = 0
    BY <1>2, <2>1 DEF Left
  <2>3. Stands(w, t, g, n)
    BY <1>1, <1>2, <1>3, <1>4, <2>1, <2>2 DEF Stands, B, L, P
  <2> QED BY <1>2, <1>4, <2>1, <2>2, <2>3
<1>8. CASE TurnGoesOn(s, t, g)
  <2>1. /\ g = "loop" /\ (s.contentLen = 0 \/ s.skip)
        /\ Beyond(t) - t.headerLen = Beyond(s) - s.headerLen
        /\ t.contentLen <= s.contentLen
        /\ (t.contentLen > 0 => t.paddingLen = s.paddingLen)
        /\ t.isClosed = s.isClosed
    BY <1>8 DEF TurnGoesOn
  <2>2. Left(t, g) = t.contentLen
    BY <1>1, <2>1, StandsLoop
  <2>3. s.rdNext + s.contentLen + s.paddingLen = Beyond(s)
        /\ t.rdNext + t.contentLen + t.paddingLen = Beyond(t)
        /\ Beyond(s) \in Nat /\ Beyond(t) \in Nat
    BY <1>1, BeyondIs
  <2>4. Beyond(s) = B + s.headerLen
    BY <1>4, <2>3
  <2>5. Beyond(t) = B + t.headerLen
    BY <1>2, <1>3, <2>1, <2>3, <2>4
  <2>6. t.contentLen \in Nat /\ t.contentLen <= L
        /\ (t.contentLen > 0 => t.paddingLen = P)
    BY <1>2, <1>3, <1>4, <2>1
  <2>7. Stands(w, t, g, n)
    <3>1. t.rdNext + t.contentLen + t.paddingLen = B + t.headerLen + 0
      BY <1>2, <1>3, <2>3, <2>5
    <3> QED BY <1>1, <1>3, <2>1, <2>2, <2>6, <3>1 DEF Stands, B, L, P
  <2> QED BY <1>2, <1>4, <2>1, <2>2, <2>7
<1> QED BY <1>5, <1>6, <1>7, <1>8 DEF Turned

\* The next character is the next byte of the content.
LEMMA StandsTaken ==
  ASSUME NEW w \in Seq(Sent), NEW s \in ReaderStates, NEW t \in ReaderStates,
         NEW n, Stands(w, s, "no", n), s.rdNext < s.stop, s.headerLen = 0,
         ~s.isClosed,
         t.rdNext = s.rdNext + 1, t.stop = s.stop,
         t.contentLen = s.contentLen, t.paddingLen = s.paddingLen,
         t.headerLen = 0, t.isClosed = s.isClosed
  PROVE  /\ Stands(w, t, "no", n) /\ Left(s, "no") > 0
         /\ Left(t, "no") = Left(s, "no") - 1
         /\ s.paddingLen = w[n].padding
         /\ Len(w[n].content) - Left(s, "no") + 1 \in 1 .. Len(w[n].content)
         /\ WhereIn(w, s.rdNext + 1)
              = <<n, HeaderSize + (Len(w[n].content) - Left(s, "no") + 1)>>
<1> DEFINE B == BytesUpTo(w)[n]
           A == BytesUpTo(w)[n - 1]
           L == Len(w[n].content)
           P == w[n].padding
           left == Left(s, "no")
<1>1. /\ n \in 1 .. Len(w) /\ B \in Nat /\ A \in Nat /\ L \in Nat /\ P \in Nat
      /\ B = A + HeaderSize + L + P /\ w[n] \in Sent
      /\ HeaderSize \in Nat /\ HeaderSize > 0 /\ left \in Nat /\ left <= L
  BY StandsIs
<1>2. /\ s.rdNext \in Nat /\ s.contentLen \in Nat /\ s.paddingLen \in Nat
      /\ s.stop \in Nat
  BY ReaderFields
<1>3. /\ left = s.contentLen + (s.stop - s.rdNext)
      /\ s.rdNext + left + s.paddingLen = B
      /\ (left > 0 => s.paddingLen = P)
  <2>1. left = s.contentLen + (s.stop - s.rdNext)
    BY StandsLoop
  <2>2. s.rdNext + left + s.paddingLen = B + 0 + 0
    BY DEF Stands
  <2> QED BY <1>1, <2>1, <2>2 DEF Stands
<1>4. s.rdNext \in Nat /\ s.rdNext < s.stop /\ t.rdNext = s.rdNext + 1
      /\ t.stop = s.stop /\ t.contentLen = s.contentLen
      /\ t.paddingLen = s.paddingLen /\ t.headerLen = 0 /\ ~t.isClosed
  BY <1>2
<1>5. RecordSize(w[n]) = HeaderSize + L + P
  BY <1>1, RecordSizes
<1> HIDE DEF B, A, L, P, left
<1>6. left > 0 /\ Left(t, "no") = left - 1 /\ s.paddingLen = P
  <2>1. left > 0
    BY <1>2, <1>3, <1>4
  <2>2. Left(t, "no") = t.contentLen + (t.stop - t.rdNext)
    BY StandsLoop
  <2>3. Left(t, "no") = s.contentLen + (s.stop - (s.rdNext + 1))
    BY <1>4, <2>2
  <2> QED BY <1>2, <1>3, <2>1, <2>3
<1>7. Stands(w, t, "no", n)
  <2>1. t.rdNext + Left(t, "no") + t.paddingLen = B + t.headerLen + 0
    BY <1>1, <1>2, <1>3, <1>4, <1>6
  <2>2. Left(t, "no") \in Nat /\ Left(t, "no") <= L
    BY <1>1, <1>6
  <2>3. n \in 1 .. Len(w) /\ ~t.isClosed /\ t.paddingLen = P
    BY <1>1, <1>4, <1>6
  <2> QED BY <2>1, <2>2, <2>3 DEF Stands, B, L, P
<1>8. PICK j \in 1 .. L : j = L - left + 1
  BY <1>1, <1>6
<1>9. PICK m \in 1 .. RecordSize(w[n]) : m = HeaderSize + j /\ A + m = s.rdNext + 1
  <2>1. HeaderSize + j \in 1 .. RecordSize(w[n])
    BY <1>1, <1>5, <1>8
  <2>2. A + (HeaderSize + j) = s.rdNext + 1
    <3>1. L - left + 1 = j /\ s.rdNext + left + P = A + HeaderSize + L + P
      BY <1>1, <1>3, <1>6, <1>8
    <3>2. j \in Nat
      OBVIOUS
    <3> QED BY <1>1, <1>2, <3>1, <3>2
  <2> QED BY <2>1, <2>2
<1>10. WhereIn(w, A + m) = <<n, m>>
  BY <1>1, WhereIs DEF A
<1> QED BY <1>6, <1>7, <1>8, <1>9, <1>10 DEF L, P, left

-----------------------------------------------------------------------------
(* The header of the record behind the one the reader stands in.            *)

LEMMA HeaderAt ==
  ASSUME ReaderInv, fill = "header", NEW n, Stands(conn.wire, in, "header", n)
  PROVE  /\ n + 1 \in 1 .. Len(conn.wire) /\ RecordRead = n + 1
         /\ conn.wire[n + 1] \in Sent
         /\ in.rdNext = BytesUpTo(conn.wire)[n] + HeaderSize
         /\ Left(in, "header") = 0
<1> DEFINE w == conn.wire
           B == BytesUpTo(w)
<1>1. /\ w \in Seq(Sent) /\ in.buffStop <= Sizes(w) /\ Sizes(w) \in Nat
  BY AtWork
<1>2. /\ in \in ReaderStates /\ in.rdNext <= in.buffStop
      /\ in.contentLen = 0 /\ in.paddingLen = 0 /\ in.headerLen = 0
  BY DEF ReaderInv, Sound
<1>3. in.rdNext \in Nat /\ in.buffStop \in Nat
  BY <1>2, ReaderFields
<1>4. Left(in, "header") = 0
  BY <1>2, StandsLoop
<1>5. n \in 1 .. Len(w) /\ B[n] \in Nat /\ HeaderSize \in Nat /\ HeaderSize > 0
      /\ Len(w) \in Nat
  BY <1>1, <1>2, StandsIs
<1>6. in.rdNext = B[n] + HeaderSize
  <2>1. in.rdNext + Left(in, "header") + in.paddingLen
          = B[n] + in.headerLen + HeaderSize
    BY DEF Stands
  <2> QED BY <1>2, <1>3, <1>4, <1>5, <2>1
<1>7. n # Len(w)
  <2>1. n = Len(w) => Sizes(w) = B[n]
    BY DEF Sizes
  <2> QED BY <1>1, <1>2, <1>3, <1>5, <1>6, <2>1
<1>8. PICK m \in 1 .. Len(w) : m = n + 1
  BY <1>5, <1>7
<1>9. w[m] \in Sent /\ 1 \in 1 .. RecordSize(w[m])
  <2>1. w[m] \in Sent
    BY <1>1, ContentIs
  <2> QED BY <1>5, <2>1, RecordSizes
<1>10. WhereIn(w, B[m - 1] + 1) = <<m, 1>>
  BY <1>1, <1>9, WhereIs
<1>11. m - 1 = n /\ in.rdNext - HeaderSize + 1 = B[n] + 1
  BY <1>3, <1>5, <1>6, <1>8
<1>12. Where(in.rdNext - HeaderSize + 1) = <<m, 1>>
  BY <1>10, <1>11, WhereSame
<1>13. RecordRead = m
  BY <1>12 DEF RecordRead
<1> QED BY <1>4, <1>6, <1>8, <1>9, <1>13

\* What becomes of the reader t at a record r, kind k.
HeaderRead(s, t, g, k, r, id) ==
  /\ t \in ReaderStates /\ t.rdNext = s.rdNext /\ t.stop = s.rdNext
  /\ t.contentLen = Len(r.content) /\ t.paddingLen = r.padding
  /\ t.headerLen = 0 /\ t.type = s.type /\ t.errno = s.errno
  /\ \/ r.type = "begin" /\ g = "loop" /\ k = "none" /\ t.skip
        /\ Len(r.content) = BeginSize /\ ~t.isClosed
     \/ r.type = "values" /\ r.id = 0 /\ g = "no" /\ k = "values"
        /\ t.skip = s.skip /\ ~t.isClosed
     \/ r.type \notin {"begin", "values"} /\ r.id = 0 /\ g = "loop"
        /\ k = "none" /\ t.skip = s.skip /\ ~t.isClosed
     \/ r.type # "begin" /\ r.id # 0 /\ r.id # id /\ g = "loop" /\ k = "none"
        /\ t.skip /\ ~t.isClosed
     \/ /\ r.type # "begin" /\ r.type = s.type /\ r.id = id /\ id # 0
        /\ k = "none" /\ t.skip = s.skip
        /\ \/ Len(r.content) = 0 /\ g = "no" /\ t.isClosed
           \/ Len(r.content) # 0 /\ g = "loop" /\ ~t.isClosed

LEMMA HeaderIs ==
  ASSUME ReaderInv, ProcessHeader, req.begun, in'.errno = NoError,
         NEW m \in 1 .. Len(conn.wire), RecordRead = m
  PROVE  HeaderRead(in, in', fill', inner'.kind, conn.wire[m], req.id)
         /\ UNCHANGED <<connection, stage, request, out>>
<1> DEFINE r == conn.wire[m]
<1>1. PICK h \in Headers :
        \/ BadHeader(h) \/ BeginRequest(h) \/ CantMultiplex(h)
        \/ ManagementRecord(h) \/ SkippedRecord(h) \/ StreamRecord(h)
  BY DEF ProcessHeader
<1>2. fill = "header" /\ UNCHANGED <<connection, stage, pair, params, body, out>>
  BY DEF ProcessHeader
<1>3. in \in ReaderStates /\ inner.kind = "none"
  BY <1>2, InnerSame DEF ReaderInv, Sound
<1>4. m # 0 /\ conn.wire \in Seq(Sent)
  BY <1>2, AtWork
<1>5. h = HeaderOf(r) /\ r \in Sent
  BY <1>2, <1>4, HeadersTyped, ContentIs
<1>6. /\ h.contentLen = Len(r.content) /\ h.paddingLen = r.padding
      /\ h.id = r.id /\ h.type = r.type /\ h.version = 1
  BY <1>5, HeaderOfIs
<1> DEFINE s == With(h)
<1>7. /\ s \in ReaderStates /\ s.contentLen = Len(r.content)
      /\ s.paddingLen = r.padding /\ s.rdNext = in.rdNext
      /\ s.stop = in.rdNext /\ s.type = in.type /\ s.skip = in.skip
      /\ s.headerLen = 0 /\ ~s.isClosed /\ s.errno = in.errno
  BY <1>2, <1>6, WithIs
<1>8. \A e \in {"protocol", "version", "os"} :
        in' # SetError(in, e) /\ in' # SetError(s, e)
  <2> HIDE DEF s, r
  <2> SUFFICES ASSUME NEW e \in {"protocol", "version", "os"}
               PROVE  in' # SetError(in, e) /\ in' # SetError(s, e)
    OBVIOUS
  <2>1. e \in Errors /\ e # NoError
    BY ErrorNames
  <2>2. SetError(in, e).errno # NoError
    BY <1>3, <2>1, ErrorIs
  <2>3. SetError(s, e).errno # NoError
    BY <1>7, <2>1, ErrorIs
  <2> QED BY <2>2, <2>3
<1> HIDE DEF r, s
<1>9. ~BadHeader(h) /\ ~BeginRequest(h)
  BY <1>8 DEF BadHeader, Broken, BeginRequest, s
<1>10. req' = req
  BY <1>1, <1>9 DEF CantMultiplex, ManagementRecord, SkippedRecord, StreamRecord
<1>11. /\ [s EXCEPT !.skip = TRUE] \in ReaderStates
       /\ [s EXCEPT !.eorStop = TRUE] \in ReaderStates
       /\ [s EXCEPT !.stop = in.rdNext, !.isClosed = TRUE] \in ReaderStates
  BY <1>3, <1>7, ReaderFields DEF ReaderStates
<1>12. CASE CantMultiplex(h)
  <2>1. /\ h.type = "begin" /\ h.contentLen = BeginSize
        /\ in' = [s EXCEPT !.skip = TRUE] /\ fill' = "loop" /\ inner' = inner
    BY <1>8, <1>12 DEF CantMultiplex, Broken, s
  <2>2. /\ in'.rdNext = s.rdNext /\ in'.stop = s.stop /\ in'.skip
        /\ in'.contentLen = s.contentLen /\ in'.paddingLen = s.paddingLen
        /\ in'.headerLen = s.headerLen /\ in'.type = s.type
        /\ in'.errno = s.errno /\ in'.isClosed = s.isClosed
    BY <1>7, <2>1 DEF ReaderStates
  <2> QED BY <1>2, <1>3, <1>6, <1>7, <1>10, <1>11, <2>1, <2>2
          DEF HeaderRead, request, r
<1>13. CASE ManagementRecord(h)
  <2>1. CASE h.type = "values"
    <3>1. /\ h.id = 0 /\ in' = [s EXCEPT !.eorStop = TRUE] /\ fill' = "no"
          /\ inner' = [Outer EXCEPT !.kind = "values"]
      BY <1>13, <2>1 DEF ManagementRecord, ReadsRecord, s
    <3>2. /\ in'.rdNext = s.rdNext /\ in'.stop = s.stop /\ in'.skip = s.skip
          /\ in'.contentLen = s.contentLen /\ in'.paddingLen = s.paddingLen
          /\ in'.headerLen = s.headerLen /\ in'.type = s.type
          /\ in'.errno = s.errno /\ in'.isClosed = s.isClosed
      BY <1>7, <3>1 DEF ReaderStates
    <3>3. inner'.kind = "values"
      BY <3>1 DEF Outer
    <3> QED BY <1>2, <1>6, <1>7, <1>10, <1>11, <2>1, <3>1, <3>2, <3>3
            DEF HeaderRead, request, r
  <2>2. CASE h.type # "values"
    <3>1. /\ h.id = 0 /\ h.type # "begin" /\ in' = s /\ fill' = "loop"
          /\ inner' = inner
      BY <1>8, <1>13, <2>2 DEF ManagementRecord, Broken, s
    <3> QED BY <1>2, <1>3, <1>6, <1>7, <1>10, <2>2, <3>1
            DEF HeaderRead, request, r
  <2> QED BY <2>1, <2>2
<1>14. CASE SkippedRecord(h)
  <2>1. /\ h.type # "begin" /\ h.id # 0 /\ h.id # req.id
        /\ in' = [s EXCEPT !.skip = TRUE] /\ fill' = "loop" /\ inner' = inner
    BY <1>14 DEF SkippedRecord, s
  <2>2. /\ in'.rdNext = s.rdNext /\ in'.stop = s.stop /\ in'.skip
        /\ in'.contentLen = s.contentLen /\ in'.paddingLen = s.paddingLen
        /\ in'.headerLen = s.headerLen /\ in'.type = s.type
        /\ in'.errno = s.errno /\ in'.isClosed = s.isClosed
    BY <1>7, <2>1 DEF ReaderStates
  <2> QED BY <1>2, <1>3, <1>6, <1>7, <1>10, <1>11, <2>1, <2>2
          DEF HeaderRead, request, r
<1>15. CASE StreamRecord(h)
  <2>1. /\ h.type # "begin" /\ h.id # 0 /\ h.id = req.id /\ h.type = in.type
        /\ inner' = inner
    BY <1>15 DEF StreamRecord
  <2>2. CASE h.contentLen = 0
    <3>1. /\ in' = [s EXCEPT !.stop = in.rdNext, !.isClosed = TRUE]
          /\ fill' = "no"
      BY <1>15, <2>2 DEF StreamRecord, s
    <3>2. /\ in'.rdNext = s.rdNext /\ in'.stop = in.rdNext /\ in'.skip = s.skip
          /\ in'.contentLen = s.contentLen /\ in'.paddingLen = s.paddingLen
          /\ in'.headerLen = s.headerLen /\ in'.type = s.type
          /\ in'.errno = s.errno /\ in'.isClosed
      BY <1>7, <3>1 DEF ReaderStates
    <3> QED BY <1>2, <1>3, <1>6, <1>7, <1>10, <1>11, <2>1, <2>2, <3>1, <3>2
            DEF HeaderRead, request, r
  <2>3. CASE h.contentLen # 0
    <3>1. in' = s /\ fill' = "loop"
      BY <1>15, <2>3 DEF StreamRecord, s
    <3> QED BY <1>2, <1>3, <1>6, <1>7, <1>10, <2>1, <2>3, <3>1
            DEF HeaderRead, request, r
  <2> QED BY <2>2, <2>3
<1> QED BY <1>1, <1>9, <1>12, <1>13, <1>14, <1>15

-----------------------------------------------------------------------------
(* The reader moves on, from record n to record m.                          *)

Moves(w, s, f, k, t, g, j, own, n, m) ==
  /\ Within(w, t, g, j, own, m)
  /\ Partly(w, own, m, Left(t, g)) = Partly(w, own, n, Left(s, f))
  /\ Kept(w, t, g, j, own, m)

Moved(w, id, s, f, k, t, g, j, n, m) ==
  /\ m \in 1 .. Len(w) /\ n <= m /\ t.type = s.type
  /\ \A from \in 0 .. n :
       Within(w, s, f, k, OwnIn(w, id, s.type, from), n) =>
         Moves(w, s, f, k, t, g, j, OwnIn(w, id, s.type, from), n, m)
  /\ \A i \in n + 1 .. m :
       w[i].id = id /\ w[i].type # "begin" => w[i].type = s.type

SamePlace(s, t) ==
  /\ t.rdNext = s.rdNext /\ t.stop = s.stop /\ t.contentLen = s.contentLen
  /\ t.paddingLen = s.paddingLen /\ t.headerLen = s.headerLen
  /\ t.isClosed = s.isClosed /\ t.skip = s.skip

LEMMA PlaceAlike ==
  ASSUME NEW w, NEW s, NEW t, SamePlace(s, t), NEW f, NEW k, NEW own, NEW n
  PROVE  /\ Left(t, f) = Left(s, f)
         /\ Stands(w, s, f, n) => Stands(w, t, f, n)
         /\ Within(w, s, f, k, own, n) => Within(w, t, f, k, own, n)
<1>1. Left(t, f) = Left(s, f)
  BY DEF SamePlace, Left
<1>2. Stands(w, s, f, n) => Stands(w, t, f, n)
  BY <1>1 DEF SamePlace, Stands
<1> QED BY <1>1, <1>2 DEF SamePlace, Within

LEMMA WithinTurn ==
  ASSUME NEW w \in Seq(Sent), NEW s, NEW k, Sound(s, "loop", k), NEW own, NEW n,
         Within(w, s, "loop", k, own, n), NEW t, NEW g, Turned(s, t, g)
  PROVE  Moves(w, s, "loop", k, t, g, k, own, n, n)
<1>1. /\ Stands(w, s, "loop", n)
      /\ Left(s, "loop") > 0 => (n \in own <=> ~s.skip /\ k = "none")
      /\ s.skip => s.contentLen > 0
      /\ n <= EndIn(w, own)
      /\ s.isClosed /\ k = "none" <=> n = EndIn(w, own)
  BY DEF Within
<1>2. /\ Stands(w, t, g, n) /\ Left(s, "loop") = s.contentLen
      /\ \/ Left(t, g) = Left(s, "loop")
         \/ s.skip /\ s.contentLen > 0 /\ Left(t, g) < Left(s, "loop")
  BY <1>1, StandsTurn
<1>3. s \in ReaderStates /\ t \in ReaderStates /\ ~s.isClosed
      /\ (k # "none" <=> s.eorStop)
  BY DEF Sound, Turned, Alike
<1>4. /\ s.rdNext \in Nat /\ s.contentLen \in Nat /\ t.contentLen \in Nat
      /\ t.stop \in Nat /\ t.rdNext \in Nat /\ t.stopUnget \in Nat
      /\ s.skip \in BOOLEAN /\ t.skip \in BOOLEAN
  BY <1>3, ReaderFields
<1>5. Left(t, g) \in Nat
  BY <1>2 DEF Stands
<1>6. Partly(w, own, n, Left(t, g)) = Partly(w, own, n, Left(s, "loop"))
  <2>1. CASE Left(t, g) = Left(s, "loop")
    BY <2>1
  <2>2. CASE s.skip /\ s.contentLen > 0
    <3>1. n \notin own
      BY <1>1, <1>2, <2>2
    <3> QED BY <3>1, PartlyOther
  <2> QED BY <1>2, <2>1, <2>2
<1>7. Left(t, g) > 0 => (t.skip <=> s.skip) /\ Left(s, "loop") > 0
  <2>1. SUFFICES ASSUME Left(t, g) > 0
                 PROVE  (t.skip <=> s.skip) /\ Left(s, "loop") > 0
    OBVIOUS
  <2>2. Left(s, "loop") > 0
    BY <1>2, <1>4, <1>5, <2>1
  <2>3. CASE TurnDelivers(s, t, g)
    BY <2>2, <2>3 DEF TurnDelivers
  <2>4. CASE TurnEnds(s, t, g)
    <3>1. g = "no" /\ t.stop = t.rdNext /\ t.contentLen = 0
      BY <2>4 DEF TurnEnds
    <3>2. Left(t, g) = 0
      BY <1>3, <1>4, <3>1, StandsLoop
    <3> QED BY <2>1, <3>2
  <2>5. CASE TurnHeader(s, t, g)
    <3>1. g = "header" /\ t.contentLen = 0
      BY <2>5 DEF TurnHeader
    <3>2. Left(t, g) = 0
      BY <1>3, <3>1, StandsLoop
    <3> QED BY <2>1, <3>2
  <2>6. CASE TurnGoesOn(s, t, g)
    <3>1. g = "loop" /\ (t.skip <=> s.skip /\ (s.contentLen = 0 \/ t.contentLen > 0))
      BY <2>6 DEF TurnGoesOn
    <3>2. Left(t, g) = t.contentLen
      BY <1>3, <3>1, StandsLoop
    <3> QED BY <2>1, <2>2, <3>1, <3>2
  <2> QED BY <2>3, <2>4, <2>5, <2>6 DEF Turned
<1>8. t.skip => g = "loop" /\ t.contentLen > 0
  <2>1. CASE TurnDelivers(s, t, g)
    BY <2>1 DEF TurnDelivers
  <2>2. CASE TurnEnds(s, t, g)
    BY <1>1, <1>4, <2>2 DEF TurnEnds
  <2>3. CASE TurnHeader(s, t, g)
    BY <1>1, <1>4, <2>3 DEF TurnHeader
  <2>4. CASE TurnGoesOn(s, t, g)
    BY <1>1, <1>4, <2>4 DEF TurnGoesOn
  <2> QED BY <2>1, <2>2, <2>3, <2>4 DEF Turned
<1>9. t.isClosed /\ k = "none" <=> n = EndIn(w, own)
  <2>1. ~(t.isClosed /\ k = "none")
    BY <1>3 DEF Turned, TurnDelivers, TurnEnds, TurnHeader, TurnGoesOn
  <2> QED BY <1>1, <1>3, <2>1
<1>10. Within(w, t, g, k, own, n)
  BY <1>1, <1>2, <1>7, <1>8, <1>9 DEF Within
<1>11. Kept(w, t, g, k, own, n)
  <2>1. SUFFICES ASSUME g = "no", k = "none", ~t.isClosed
                 PROVE  /\ n \in own /\ t.paddingLen = w[n].padding
                        /\ t.stop + t.contentLen
                             <= t.stopUnget + Len(w[n].content)
    BY DEF Kept
  <2>2. TurnDelivers(s, t, g)
    BY <2>1 DEF Turned, TurnEnds, TurnHeader, TurnGoesOn
  <2>3. /\ s.contentLen > 0 /\ ~s.skip /\ t.paddingLen = s.paddingLen
        /\ t.stopUnget = s.rdNext
        /\ t.stop + t.contentLen = s.rdNext + s.contentLen
    BY <2>2 DEF TurnDelivers
  <2>4. n \in own /\ s.paddingLen = w[n].padding
    BY <1>1, <1>2, <2>1, <2>3 DEF Stands
  <2>5. s.contentLen <= Len(w[n].content) /\ Len(w[n].content) \in Nat
    BY <1>1, <1>2, <1>3, StandsIs DEF Stands
  <2> QED BY <1>4, <2>3, <2>4, <2>5
<1> QED BY <1>6, <1>10, <1>11 DEF Moves

\* A turn of FillBuffProc stays in the record.
LEMMA TurnMoved ==
  ASSUME NEW w \in Seq(Sent), NEW id, NEW a, NEW s, SamePlace(a, s),
         s.type = a.type, NEW k, Sound(s, "loop", k),
         NEW n \in 1 .. Len(w), NEW t, NEW g, Turned(s, t, g)
  PROVE  Moved(w, id, a, "loop", k, t, g, k, n, n)
<1>1. t.type = a.type /\ n <= n
  BY DEF Turned, Alike
<1>2. ASSUME NEW from \in 0 .. n,
             Within(w, a, "loop", k, OwnIn(w, id, a.type, from), n)
      PROVE  Moves(w, a, "loop", k, t, g, k, OwnIn(w, id, a.type, from), n, n)
  <2> DEFINE own == OwnIn(w, id, a.type, from)
  <2> HIDE DEF own
  <2>1. Within(w, s, "loop", k, own, n) /\ Left(s, "loop") = Left(a, "loop")
    BY <1>2, PlaceAlike DEF own
  <2>2. Moves(w, s, "loop", k, t, g, k, own, n, n)
    BY <2>1, WithinTurn
  <2> QED BY <2>1, <2>2 DEF Moves, own
<1>3. \A i \in n + 1 .. n :
        w[i].id = id /\ w[i].type # "begin" => w[i].type = a.type
  OBVIOUS
<1> QED BY <1>1, <1>2, <1>3 DEF Moved

\* FillBuffProc is called.
LEMMA FillMoved ==
  ASSUME NEW w \in Seq(Sent), NEW id, NEW s \in ReaderStates, NEW k,
         s.rdNext = s.stop, ~s.isClosed, NEW n \in 1 .. Len(w)
  PROVE  Moved(w, id, s, "no", k, s, "loop", k, n, n)
<1>1. Left(s, "no") = Left(s, "loop")
  BY ReaderFields, StandsLoop
<1>2. ASSUME NEW own, Within(w, s, "no", k, own, n)
      PROVE  Moves(w, s, "no", k, s, "loop", k, own, n, n)
  <2>1. Stands(w, s, "loop", n)
    BY <1>1, <1>2 DEF Within, Stands
  <2>2. Within(w, s, "loop", k, own, n)
    BY <1>1, <1>2, <2>1 DEF Within
  <2> QED BY <1>1, <2>2 DEF Moves, Kept
<1>3. \A i \in n + 1 .. n :
        w[i].id = id /\ w[i].type # "begin" => w[i].type = s.type
  OBVIOUS
<1> QED BY <1>2, <1>3 DEF Moved

\* What Plain says of a record.
PlainRecord(r, id) ==
  /\ r.content = <<>> => r.id \in {0, id}
  /\ r.content = <<>> /\ r.id = id => r.padding = 0
  /\ r.id = 0 /\ r.type # "values" => r.content = <<>>

LEMMA OwnIs ==
  ASSUME NEW w \in Seq(Sent), NEW id, NEW type, NEW from \in Nat
  PROVE  /\ OwnIn(w, id, type, from) \subseteq 1 .. Len(w)
         /\ \A n \in 1 .. Len(w) :
              n \in OwnIn(w, id, type, from)
                <=> from < n /\ w[n].type = type /\ w[n].id = id
<1>1. Len(w) \in Nat
  OBVIOUS
<1> QED BY <1>1 DEF OwnIn

\* ProcessHeader goes on to the next record.
LEMMA HeaderWithin ==
  ASSUME NEW w \in Seq(Sent), NEW id \in Nat, id # 0, NEW s \in ReaderStates,
         NEW n, NEW m \in 1 .. Len(w), m = n + 1, s.type # "begin",
         s.type # "values",
         Left(s, "header") = 0, s.rdNext = BytesUpTo(w)[n] + HeaderSize,
         ~s.isClosed,
         NEW t, NEW g, NEW j, HeaderRead(s, t, g, j, w[m], id),
         PlainRecord(w[m], id),
         NEW from \in 0 .. n, NEW own, own = OwnIn(w, id, s.type, from),
         Within(w, s, "header", "none", own, n)
  PROVE  Moves(w, s, "header", "none", t, g, j, own, n, m)
<1> DEFINE r == w[m]
           L == Len(r.content)
           B == BytesUpTo(w)
<1>1. /\ Stands(w, s, "header", n) /\ ~s.skip /\ n <= EndIn(w, own)
      /\ n # EndIn(w, own)
  BY DEF Within
<1>2. /\ n \in 1 .. Len(w) /\ Len(w) \in Nat /\ B[n] \in Nat
      /\ HeaderSize \in Nat
  BY <1>1, StandsIs
<1>3. r \in Sent /\ L \in Nat /\ r.padding \in Nat /\ r.content \in Bytes
      /\ (L = 0 <=> r.content = <<>>) /\ r.id \in Nat
  <2>1. r \in Sent /\ r.content \in Bytes /\ L \in Nat /\ r.padding \in Nat
        /\ r.id \in Nat
    BY ContentIs
  <2> QED BY <2>1, BytesLen
<1>4. B[m] = B[n] + HeaderSize + L + r.padding
  <2>1. B[m] = B[m - 1] + RecordSize(w[m])
    BY BeforeIs DEF AddsUp
  <2>2. m - 1 = n
    BY <1>2
  <2>3. RecordSize(r) = HeaderSize + L + r.padding
    BY <1>3, RecordSizes
  <2>4. B[m] = B[n] + (HeaderSize + L + r.padding)
    BY <2>1, <2>2, <2>3
  <2> QED BY <1>2, <1>3, <2>4, SMTT(20)
<1>5. /\ own \subseteq 1 .. Len(w)
      /\ m \in own <=> r.type = s.type /\ r.id = id
  <2>1. from \in Nat /\ from < m
    BY <1>2
  <2> QED BY <2>1, OwnIs
<1>6. /\ EndIn(w, own) \in Nat
      /\ EndIn(w, own) # Len(w) + 1 =>
           EndIn(w, own) \in own /\ w[EndIn(w, own)].content = <<>>
  BY <1>5, EndIs
<1>7. m <= EndIn(w, own)
  BY <1>1, <1>2, <1>6
<1> HIDE DEF r, L, B
<1>8. /\ t \in ReaderStates /\ t.rdNext = s.rdNext /\ t.stop = s.rdNext
      /\ t.contentLen = L /\ t.paddingLen = r.padding
      /\ t.headerLen = 0 /\ t.type = s.type
  BY DEF HeaderRead, r, L
<1>9. g \in {"no", "loop"}
  BY DEF HeaderRead
<1>10. Left(t, g) = L
  <2>1. t.stop - t.rdNext = 0 /\ t.contentLen \in Nat
    BY <1>8, ReaderFields
  <2> QED BY <1>3, <1>8, <1>9, <2>1, StandsLoop
<1>11. \/ /\ m \notin own /\ ~t.isClosed
          /\ \/ g = "loop" /\ j = "none" /\ t.skip /\ L > 0
             \/ g = "no" /\ j = "values" /\ ~t.skip
             \/ g = "loop" /\ j = "none" /\ ~t.skip /\ L = 0
       \/ /\ m \in own /\ L = 0 /\ t.isClosed /\ j = "none" /\ g = "no"
          /\ r.padding = 0 /\ ~t.skip
       \/ /\ m \in own /\ L > 0 /\ ~t.isClosed /\ j = "none" /\ g = "loop"
          /\ ~t.skip
  <2>1. BeginSize > 0
    BY LibraryAssumption
  <2>2. CASE r.type = "begin" /\ g = "loop" /\ j = "none" /\ t.skip
             /\ L = BeginSize /\ ~t.isClosed
    BY <1>5, <2>1, <2>2
  <2>3. CASE r.type = "values" /\ r.id = 0 /\ g = "no" /\ j = "values"
             /\ t.skip = s.skip /\ ~t.isClosed
    BY <1>1, <1>5, <2>3
  <2>4. CASE r.type \notin {"begin", "values"} /\ r.id = 0 /\ g = "loop"
             /\ j = "none" /\ t.skip = s.skip /\ ~t.isClosed
    <3>1. L = 0
      BY <1>3, <2>4 DEF PlainRecord, r
    <3> QED BY <1>1, <1>5, <2>4, <3>1
  <2>5. CASE r.type # "begin" /\ r.id # 0 /\ r.id # id /\ g = "loop"
             /\ j = "none" /\ t.skip /\ ~t.isClosed
    <3>1. L # 0
      BY <1>3, <2>5 DEF PlainRecord, r
    <3> QED BY <1>3, <1>5, <2>5, <3>1
  <2>6. CASE /\ r.type # "begin" /\ r.type = s.type /\ r.id = id /\ id # 0
             /\ j = "none" /\ t.skip = s.skip /\ L = 0 /\ g = "no" /\ t.isClosed
    <3>1. r.padding = 0
      BY <1>3, <2>6 DEF PlainRecord, r
    <3> QED BY <1>1, <1>5, <2>6, <3>1
  <2>7. CASE /\ r.type # "begin" /\ r.type = s.type /\ r.id = id /\ id # 0
             /\ j = "none" /\ t.skip = s.skip /\ L # 0 /\ g = "loop"
             /\ ~t.isClosed
    BY <1>1, <1>3, <1>5, <2>7
  <2> QED BY <2>2, <2>3, <2>4, <2>5, <2>6, <2>7 DEF HeaderRead, r, L
<1>12. t.isClosed /\ j = "none" <=> m = EndIn(w, own)
  <2>1. CASE m \notin own
    <3>1. m # EndIn(w, own)
      BY <1>2, <1>6, <2>1
    <3> QED BY <1>11, <2>1, <3>1
  <2>2. CASE m \in own /\ L = 0
    <3>1. w[m].content = <<>>
      BY <1>3, <2>2 DEF r
    <3>2. m = EndIn(w, own)
      BY <1>5, <1>7, <2>2, <3>1, EndUnique
    <3> QED BY <1>11, <2>2, <3>2
  <2>3. CASE m \in own /\ L # 0
    <3>1. w[m].content # <<>>
      BY <1>3, <2>3 DEF r
    <3>2. m # EndIn(w, own)
      BY <1>2, <1>6, <3>1
    <3> QED BY <1>11, <2>3, <3>2
  <2> QED BY <2>1, <2>2, <2>3
<1>13. Stands(w, t, g, m)
  <2>1. t.rdNext + L + r.padding = B[m] + 0 + 0
    BY <1>2, <1>3, <1>4, <1>8 DEF B
  <2>2. t.isClosed => t.contentLen = 0 /\ t.paddingLen = 0 /\ t.stop = t.rdNext
    BY <1>8, <1>11
  <2> QED BY <1>3, <1>8, <1>9, <1>10, <2>1, <2>2 DEF Stands, B, L, r
<1>14. Within(w, t, g, j, own, m)
  <2>1. Left(t, g) > 0 => (m \in own <=> ~t.skip /\ j = "none")
    BY <1>10, <1>11
  <2>2. t.skip => g = "loop" /\ t.contentLen > 0
    BY <1>8, <1>11
  <2> QED BY <1>7, <1>12, <1>13, <2>1, <2>2 DEF Within
<1>15. Partly(w, own, m, Left(t, g)) = Partly(w, own, n, Left(s, "header"))
  <2>1. Partly(w, own, m, Left(t, g)) = ReadIn(w, own, m - 1)
    BY <1>10, PartlyNew DEF L, r
  <2>2. Partly(w, own, n, 0) = ReadIn(w, own, n)
    BY <1>2, PartlyWhole
  <2>3. m - 1 = n
    BY <1>2
  <2> QED BY <2>1, <2>2, <2>3
<1>16. Kept(w, t, g, j, own, m)
  BY <1>11 DEF Kept
<1> QED BY <1>14, <1>15, <1>16 DEF Moves

LEMMA HeaderMoved ==
  ASSUME NEW w \in Seq(Sent), NEW id \in Nat, id # 0, NEW s \in ReaderStates,
         NEW n \in Nat, NEW m \in 1 .. Len(w), m = n + 1, s.type # "begin",
         s.type # "values",
         Left(s, "header") = 0, s.rdNext = BytesUpTo(w)[n] + HeaderSize,
         ~s.isClosed,
         NEW t, NEW g, NEW j, HeaderRead(s, t, g, j, w[m], id),
         PlainRecord(w[m], id)
  PROVE  Moved(w, id, s, "header", "none", t, g, j, n, m)
<1>1. t.type = s.type /\ n <= m
  BY DEF HeaderRead
<1>2. ASSUME NEW from \in 0 .. n,
             Within(w, s, "header", "none", OwnIn(w, id, s.type, from), n)
      PROVE  Moves(w, s, "header", "none", t, g, j,
                   OwnIn(w, id, s.type, from), n, m)
  BY <1>2, HeaderWithin
<1>3. w[m].id = id /\ w[m].type # "begin" => w[m].type = s.type
  BY DEF HeaderRead
<1>4. \A i \in n + 1 .. m :
        w[i].id = id /\ w[i].type # "begin" => w[i].type = s.type
  <2>1. \A i \in n + 1 .. m : i = m
    OBVIOUS
  <2> QED BY <1>3, <2>1
<1> QED BY <1>1, <1>2, <1>4 DEF Moved

\* A byte of a record that ProcessHeader reads itself.
LEMMA TakenMoved ==
  ASSUME NEW w \in Seq(Sent), NEW id, NEW s \in ReaderStates,
         NEW n \in 1 .. Len(w), s.rdNext < s.stop, s.headerLen = 0,
         ~s.isClosed,
         NEW t \in ReaderStates, t.rdNext = s.rdNext + 1, t.stop = s.stop,
         t.contentLen = s.contentLen, t.paddingLen = s.paddingLen,
         t.headerLen = 0, t.isClosed = s.isClosed, t.type = s.type,
         t.skip = s.skip, NEW k, k # "none"
  PROVE  Moved(w, id, s, "no", k, t, "no", k, n, n)
<1>1. ASSUME NEW own, Within(w, s, "no", k, own, n)
      PROVE  Moves(w, s, "no", k, t, "no", k, own, n, n)
  <2>1. Stands(w, s, "no", n)
    BY <1>1 DEF Within
  <2>2. /\ Stands(w, t, "no", n) /\ Left(s, "no") > 0
        /\ Left(t, "no") = Left(s, "no") - 1
    BY <2>1, StandsTaken
  <2>3. n \notin own
    BY <1>1, <2>2 DEF Within
  <2>4. Within(w, t, "no", k, own, n)
    BY <1>1, <2>2, <2>3 DEF Within
  <2>5. Partly(w, own, n, Left(t, "no")) = Partly(w, own, n, Left(s, "no"))
    BY <2>3, PartlyOther
  <2> QED BY <2>4, <2>5 DEF Moves, Kept
<1>2. \A i \in n + 1 .. n :
        w[i].id = id /\ w[i].type # "begin" => w[i].type = s.type
  OBVIOUS
<1> QED BY <1>1, <1>2 DEF Moved

\* The end of such a record.
LEMMA OpenedMoved ==
  ASSUME NEW w \in Seq(Sent), NEW id, NEW s \in ReaderStates,
         NEW n \in 1 .. Len(w), s.isClosed,
         NEW t \in ReaderStates, t.rdNext = s.rdNext, t.stop = s.stop,
         t.contentLen = s.contentLen, t.paddingLen = s.paddingLen,
         t.headerLen = s.headerLen, ~t.isClosed, t.type = s.type,
         t.skip = s.skip, NEW k, k # "none"
  PROVE  Moved(w, id, s, "no", k, t, "loop", "none", n, n)
<1>1. ASSUME NEW own, Within(w, s, "no", k, own, n)
      PROVE  Moves(w, s, "no", k, t, "loop", "none", own, n, n)
  <2>1. /\ Stands(w, s, "no", n) /\ s.contentLen = 0 /\ s.stop = s.rdNext
        /\ ~s.skip
    BY <1>1 DEF Within, Stands
  <2>2. Left(s, "no") = 0 /\ Left(t, "loop") = 0
    <3>1. s.stop - s.rdNext = 0 /\ s.contentLen \in Nat
      BY <2>1, ReaderFields
    <3> QED BY <2>1, <3>1, StandsLoop
  <2>3. Stands(w, t, "loop", n)
    BY <2>1, <2>2 DEF Stands
  <2>4. Within(w, t, "loop", "none", own, n)
    BY <1>1, <2>1, <2>2, <2>3 DEF Within
  <2> QED BY <2>2, <2>4 DEF Moves, Kept
<1>2. \A i \in n + 1 .. n :
        w[i].id = id /\ w[i].type # "begin" => w[i].type = s.type
  OBVIOUS
<1> QED BY <1>1, <1>2 DEF Moved

LEMMA RequestFields ==
  ASSUME NEW r \in Requests
  PROVE  r.id \in Nat /\ r.start \in Nat /\ r.begun \in BOOLEAN
         /\ r.role \in Nat
BY DEF Requests

\* Where the streams of a request are.
LEMMA StreamsAre ==
  ASSUME NEW w \in Seq(Sent), NEW r \in Requests, NEW type
  PROVE  /\ OwnParams(w, r) \subseteq 1 .. Len(w)
         /\ OwnParams(w, r) = OwnIn(w, r.id, "params", r.start)
         /\ EndIn(w, OwnParams(w, r)) \in Nat
         /\ OwnStream(w, r, type) \subseteq 1 .. Len(w)
         /\ OwnStream(w, r, type)
              = OwnIn(w, r.id, type, EndIn(w, OwnParams(w, r)))
         /\ \A n \in OwnStream(w, r, type) :
              n > EndIn(w, OwnParams(w, r)) /\ w[n].type = type /\ w[n].id = r.id
<1>1. r.start \in Nat /\ Len(w) \in Nat
  BY RequestFields
<1>2. OwnParams(w, r) \subseteq 1 .. Len(w)
  BY <1>1, OwnIs DEF OwnParams
<1>3. EndIn(w, OwnParams(w, r)) \in Nat
  BY <1>2, EndIs
<1>4. /\ OwnStream(w, r, type) \subseteq 1 .. Len(w)
      /\ \A n \in 1 .. Len(w) :
           n \in OwnStream(w, r, type)
             <=> EndIn(w, OwnParams(w, r)) < n /\ w[n].type = type
                 /\ w[n].id = r.id
  BY <1>3, OwnIs DEF OwnStream
<1> QED BY <1>1, <1>2, <1>3, <1>4 DEF OwnParams, OwnStream

LEMMA MovedParams ==
  ASSUME NEW w \in Seq(Sent), NEW r \in Requests, NEW s, NEW f, NEW k, NEW ps,
         NEW p, NEW n \in 1 .. Len(w), InParams(w, r, s, f, k, ps, p, n),
         NEW t, NEW g, NEW j, NEW m, Moved(w, r.id, s, f, k, t, g, j, n, m)
  PROVE  InParams(w, r, t, g, j, ps, p, m)
<1>1. /\ s.type = "params" /\ r.start <= n
      /\ Within(w, s, f, k, OwnParams(w, r), n)
      /\ ParsedAs(Partly(w, OwnParams(w, r), n, Left(s, f)), ps, p)
  BY DEF InParams
<1>2. r.start \in 0 .. n
  BY <1>1, RequestFields
<1>3. /\ m \in 1 .. Len(w) /\ n <= m /\ t.type = s.type
      /\ Moves(w, s, f, k, t, g, j, OwnParams(w, r), n, m)
  BY <1>1, <1>2 DEF Moved, OwnParams
<1>4. r.start <= m
  BY <1>1, <1>2, <1>3
<1> QED BY <1>1, <1>3, <1>4 DEF InParams, Moves

LEMMA MovedStream ==
  ASSUME NEW w \in Seq(Sent), NEW r \in Requests, NEW s, NEW f, NEW k, NEW ps,
         NEW b, NEW n \in 1 .. Len(w), InStream(w, r, s, f, k, ps, b, n),
         NEW t, NEW g, NEW j, NEW m, Moved(w, r.id, s, f, k, t, g, j, n, m)
  PROVE  InStream(w, r, t, g, j, ps, b, m)
<1> DEFINE e == EndIn(w, OwnParams(w, r))
           own == OwnStream(w, r, s.type)
           data == OwnStream(w, r, "data")
           stdin == OwnStream(w, r, "stdin")
<1>1. /\ s.type \in {"stdin", "data"} /\ e <= n /\ Within(w, s, f, k, own, n)
      /\ ps = PairsOf(ReadIn(w, OwnParams(w, r), e - 1))
      /\ b[s.type] = Partly(w, own, n, Left(s, f))
  BY DEF InStream
<1>2. /\ s.type = "stdin" =>
           b.data = <<>> /\ \A i \in 1 .. n : i \notin data
      /\ s.type = "data" => b.stdin = ReadIn(w, stdin, EndIn(w, stdin) - 1)
  BY DEF InStream
<1>3. /\ e \in Nat /\ own = OwnIn(w, r.id, s.type, e)
      /\ \A i \in data : w[i].type = "data" /\ w[i].id = r.id
  BY StreamsAre
<1>4. e \in 0 .. n
  BY <1>1, <1>3
<1> HIDE DEF e, own, data, stdin
<1>5. /\ m \in 1 .. Len(w) /\ n <= m /\ t.type = s.type
      /\ Moves(w, s, f, k, t, g, j, own, n, m)
      /\ \A i \in n + 1 .. m :
           w[i].id = r.id /\ w[i].type # "begin" => w[i].type = s.type
  BY <1>1, <1>3, <1>4 DEF Moved
<1>6. e <= m
  BY <1>1, <1>3, <1>5
<1>7. ASSUME s.type = "stdin", NEW i \in 1 .. m
      PROVE  i \notin data
  <2>1. i \in 1 .. n \/ i \in n + 1 .. m
    BY <1>5
  <2>2. CASE i \in 1 .. n
    BY <1>2, <1>7, <2>2
  <2>3. CASE i \in n + 1 .. m
    BY <1>3, <1>5, <1>7, <2>3
  <2> QED BY <2>1, <2>2, <2>3
<1>8. /\ t.type \in {"stdin", "data"} /\ Within(w, t, g, j, own, m)
      /\ b[t.type] = Partly(w, own, m, Left(t, g))
      /\ b[t.type] # <<>> \/ t.rdNext # t.stop => Kept(w, t, g, j, own, m)
  BY <1>1, <1>5 DEF Moves
<1> QED BY <1>1, <1>2, <1>5, <1>6, <1>7, <1>8
        DEF InStream, e, own, data, stdin

\* The reader stands where Follows says.
LEMMA FollowsAt ==
  ASSUME ReaderInv, Follows, Found, in.errno = NoError
  PROVE  \E n \in 1 .. Len(conn.wire) :
           /\ Stands(conn.wire, in, fill, n)
           /\ stage = "begin" => InBegin(conn.wire, req, in, fill, inner, n)
           /\ stage = "params" =>
                InParams(conn.wire, req, in, fill, inner.kind, params, pair, n)
           /\ stage \in {"serve", "getchar", "accept"} =>
                InStream(conn.wire, req, in, fill, inner.kind, params, body, n)
<1>1. PICK n \in 1 .. Len(conn.wire) :
        /\ stage = "begin" => InBegin(conn.wire, req, in, fill, inner, n)
        /\ stage = "params" =>
             InParams(conn.wire, req, in, fill, inner.kind, params, pair, n)
        /\ stage \in {"serve", "getchar", "accept"} =>
             InStream(conn.wire, req, in, fill, inner.kind, params, body, n)
  BY DEF Follows
<1>2. stage \in {"begin", "params", "serve", "getchar", "accept"}
  BY DEF ReaderInv, Staged, Stages
<1>3. Stands(conn.wire, in, fill, n)
  BY <1>1, <1>2 DEF InBegin, InParams, InStream, Within
<1> QED BY <1>1, <1>3

\* A step that only moves the reader.
LEMMA MovedFollows ==
  ASSUME ReaderInv, Follows, Found, in.errno = NoError,
         stage \in {"params", "serve", "getchar"},
         UNCHANGED <<conn, stage, req, pair, params, body>>,
         \A n \in 1 .. Len(conn.wire) :
           Stands(conn.wire, in, fill, n) =>
             \E m : Moved(conn.wire, req.id, in, fill, inner.kind,
                          in', fill', inner'.kind, n, m)
  PROVE  Follows'
<1>1. conn.wire \in Seq(Sent) /\ req \in Requests
  BY AtWork DEF ReaderInv
<1>2. PICK n \in 1 .. Len(conn.wire) :
        /\ Stands(conn.wire, in, fill, n)
        /\ stage = "params" =>
             InParams(conn.wire, req, in, fill, inner.kind, params, pair, n)
        /\ stage \in {"serve", "getchar"} =>
             InStream(conn.wire, req, in, fill, inner.kind, params, body, n)
  BY FollowsAt
<1>3. PICK m : Moved(conn.wire, req.id, in, fill, inner.kind,
                     in', fill', inner'.kind, n, m)
  BY <1>2
<1>4. m \in 1 .. Len(conn.wire)
  BY <1>3 DEF Moved
<1>5. CASE stage = "params"
  <2>1. InParams(conn.wire, req, in', fill', inner'.kind, params, pair, m)
    BY <1>1, <1>2, <1>3, <1>5, MovedParams
  <2> QED BY <1>4, <1>5, <2>1 DEF Follows
<1>6. CASE stage \in {"serve", "getchar"}
  <2>1. InStream(conn.wire, req, in', fill', inner'.kind, params, body, m)
    BY <1>1, <1>2, <1>3, <1>6, MovedStream
  <2> QED BY <1>4, <1>6, <2>1 DEF Follows
<1> QED BY <1>5, <1>6

LEMMA FoundIs ==
  ASSUME ReaderInv, Staging, Found
  PROVE  /\ conn.open /\ conn.wire \in Seq(Sent) /\ req \in Requests
         /\ req.id \in Nat /\ req.id # 0 /\ req.start \in Nat /\ req.start # 0
         /\ in \in ReaderStates
         /\ \A n \in req.start + 1 .. Len(conn.wire) :
              PlainRecord(conn.wire[n], req.id)
         /\ conn.wire[req.start].padding = 0
<1>1. conn.open /\ req.start # 0 /\ Plain
  BY DEF Found
<1>2. /\ conn.wire \in Seq(Sent) /\ req \in Requests /\ in \in ReaderStates
      /\ (req.start # 0 => req.id # 0)
  BY DEF ReaderInv, Connections, Sound, Staging
<1>3. req.id \in Nat /\ req.start \in Nat
  BY <1>2, RequestFields
<1>4. \A n \in req.start + 1 .. Len(conn.wire) :
        PlainRecord(conn.wire[n], req.id)
  BY <1>1 DEF Plain, PlainRecord
<1>5. conn.wire[req.start].padding = 0
  BY <1>1 DEF Plain
<1> QED BY <1>1, <1>2, <1>3, <1>4, <1>5

\* Found says nothing of what a step of the reader changes.
LEMMA FoundSame ==
  ASSUME conn' = conn, req'.id = req.id, req'.start = req.start
  PROVE  Found' <=> Found
BY DEF Found, Plain

-----------------------------------------------------------------------------
(* FillBuffProc and ProcessHeader.                                          *)

LEMMA BeginTurn ==
  ASSUME NEW w \in Seq(Sent), NEW r, NEW a, NEW s, SamePlace(a, s), NEW x,
         Sound(s, "loop", x.kind), NEW n, InBegin(w, r, a, "loop", x, n),
         w[n].padding = 0, NEW t, NEW g, Turned(s, t, g)
  PROVE  InBegin(w, r, t, g, x, n)
<1>1. /\ n = r.start /\ Stands(w, a, "loop", n) /\ ~r.begun
      /\ x.kind = "begin" /\ x.got \in Bytes
      /\ ~a.isClosed =>
           Left(a, "loop") > 0
           /\ (~a.skip => Len(x.got) = BeginSize - Left(a, "loop"))
  BY DEF InBegin
<1>2. /\ Stands(w, s, "loop", n) /\ Left(s, "loop") = Left(a, "loop")
      /\ s.isClosed = a.isClosed /\ s.skip = a.skip
  BY <1>1, PlaceAlike DEF SamePlace
<1>3. s \in ReaderStates /\ t \in ReaderStates /\ ~s.isClosed /\ s.eorStop
  BY <1>1 DEF Sound, Turned, Alike
<1>4. /\ s.contentLen \in Nat /\ t.contentLen \in Nat /\ s.paddingLen \in Nat
      /\ t.paddingLen \in Nat
      /\ s.skip \in BOOLEAN /\ t.skip \in BOOLEAN
  BY <1>3, ReaderFields
<1>5. /\ Stands(w, t, g, n) /\ Left(s, "loop") = s.contentLen
      /\ \/ Left(t, g) = Left(s, "loop")
         \/ s.skip /\ s.contentLen > 0 /\ Left(t, g) < Left(s, "loop")
  BY <1>2, StandsTurn
<1>6. s.contentLen > 0 /\ s.paddingLen = 0
      /\ (~s.skip => Len(x.got) = BeginSize - Left(s, "loop"))
  BY <1>1, <1>2, <1>3, <1>5 DEF Stands
<1>7. CASE TurnDelivers(s, t, g)
  <2>1. ~s.skip /\ ~t.skip
    BY <1>7 DEF TurnDelivers
  <2>2. Left(t, g) = Left(s, "loop")
    BY <1>5, <2>1
  <2> QED BY <1>1, <1>5, <1>6, <2>1, <2>2 DEF InBegin
<1>8. CASE TurnEnds(s, t, g)
  <2>1. t.isClosed /\ t.stop = t.rdNext
    BY <1>8 DEF TurnEnds
  <2> QED BY <1>1, <1>5, <2>1 DEF InBegin
<1>9. ~TurnHeader(s, t, g)
  BY <1>3 DEF TurnHeader
<1>10. CASE TurnGoesOn(s, t, g)
  <2>1. /\ g = "loop" /\ (t.contentLen > 0 \/ t.paddingLen > 0)
        /\ t.paddingLen <= s.paddingLen
        /\ (t.skip <=> s.skip /\ (s.contentLen = 0 \/ t.contentLen > 0))
    BY <1>3, <1>10 DEF TurnGoesOn
  <2>2. t.contentLen > 0 /\ t.skip = s.skip
    BY <1>4, <1>6, <2>1
  <2>3. Left(t, g) = t.contentLen
    BY <1>3, <2>1, StandsLoop
  <2>4. Left(t, g) > 0
    BY <2>2, <2>3
  <2>5. ~t.skip => Left(t, g) = Left(s, "loop")
    BY <1>5, <2>2
  <2> QED BY <1>1, <1>5, <1>6, <2>1, <2>2, <2>4, <2>5 DEF InBegin
<1> QED BY <1>7, <1>8, <1>9, <1>10 DEF Turned

LEMMA FillFollows ==
  ASSUME ReaderInv, Staging, Follows, FillLoop
  PROVE  Follows'
<1>1. fill = "loop" /\ UNCHANGED <<connection, stage, inner, request, answer>>
  BY DEF FillLoop
<1>2. PICK s : /\ Sound(s, "loop", inner.kind) /\ s \in ReaderStates
               /\ \E b \in Nat : s = [in EXCEPT !.buffStop = b]
               /\ Turned(s, in', fill')
  BY FillLoopSound
<1>3. in \in ReaderStates
  BY DEF ReaderInv, Sound
<1>4. SamePlace(in, s) /\ s.type = in.type /\ s.errno = in.errno
  BY <1>2, <1>3 DEF SamePlace, ReaderStates
<1>5. in'.errno = in.errno
  BY <1>2, <1>4 DEF Turned, Alike
<1>6. UNCHANGED <<conn, req, pair, params, body>>
  BY <1>1 DEF connection, request
<1>7. SUFFICES ASSUME Found, in.errno = NoError
               PROVE  Follows'
  BY <1>5, <1>6, FoundSame DEF Follows
<1>8. conn.wire \in Seq(Sent) /\ stage \in {"begin", "params", "getchar"}
  BY <1>1, AtWork DEF ReaderInv, Staged, Stages
<1>9. CASE stage = "begin"
  <2>1. PICK n \in 1 .. Len(conn.wire) :
          InBegin(conn.wire, req, in, "loop", inner, n)
    BY <1>1, <1>7, <1>9 DEF Follows
  <2>2. conn.wire[n].padding = 0
    BY <1>7, <2>1 DEF Found, Plain, InBegin
  <2>3. InBegin(conn.wire, req, in', fill', inner, n)
    BY <1>2, <1>4, <1>8, <2>1, <2>2, BeginTurn
  <2> QED BY <1>1, <1>6, <1>9, <2>3 DEF Follows
<1>10. CASE stage \in {"params", "getchar"}
  <2>1. ASSUME NEW n \in 1 .. Len(conn.wire)
        PROVE  Moved(conn.wire, req.id, in, fill, inner.kind,
                     in', fill', inner'.kind, n, n)
    BY <1>1, <1>2, <1>4, <1>8, TurnMoved
  <2> QED BY <1>1, <1>6, <1>7, <1>10, <2>1, MovedFollows
<1> QED BY <1>8, <1>9, <1>10

LEMMA ReadFailsFollows ==
  ASSUME ReaderInv, ReadFails PROVE Follows'
BY ReadFailsSound DEF Follows

\* ProcessHeader, once the request has begun.
LEMMA HeaderFollows ==
  ASSUME ReaderInv, Staging, Follows, ProcessHeader, stage # "begin"
  PROVE  Follows'
<1>1. SUFFICES ASSUME Found', in'.errno = NoError
               PROVE  Follows'
  BY DEF Follows
<1>2. fill = "header" /\ UNCHANGED <<conn, stage, pair, params, body>>
  BY DEF ProcessHeader, connection
<1>3. conn.wire \in Seq(Sent) /\ stage \in {"params", "getchar"}
  BY <1>2, AtWork DEF ReaderInv, Staged, Stages
<1>4. req.begun
  BY <1>3 DEF Staging
<1>5. /\ in \in ReaderStates /\ ~in.isClosed /\ inner.kind = "none"
  BY <1>2, InnerSame DEF ReaderInv, Sound
<1>6. req' = req /\ in.errno = NoError
  <2>1. PICK h \in Headers :
          \/ BadHeader(h) \/ BeginRequest(h) \/ CantMultiplex(h)
          \/ ManagementRecord(h) \/ SkippedRecord(h) \/ StreamRecord(h)
    BY DEF ProcessHeader
  <2>2. req' = req
    BY <1>4, <2>1 DEF BadHeader, BeginRequest, CantMultiplex, ManagementRecord,
                      SkippedRecord, StreamRecord
  <2>3. ~BadHeader(h)
    <3>1. SUFFICES ASSUME BadHeader(h) PROVE FALSE
      OBVIOUS
    <3>2. PICK s, e : /\ s = in \/ s = With(h)
                      /\ e \in {"protocol", "version"} /\ in' = SetError(s, e)
      BY <3>1 DEF BadHeader, Broken
    <3>3. s \in ReaderStates
      BY <1>2, <1>5, <3>2, WithIs
    <3> QED BY <1>1, <3>2, <3>3, ErrorIs, ErrorNames
  <2>4. \E s : /\ s = With(h)
               /\ \/ in' = s \/ in' = [s EXCEPT !.skip = TRUE]
                  \/ in' = [s EXCEPT !.eorStop = TRUE]
                  \/ in' = [s EXCEPT !.stop = in.rdNext, !.isClosed = TRUE]
                  \/ in' = SetError(s, "os")
    BY <2>1, <2>3, <1>4 DEF BeginRequest, CantMultiplex, ManagementRecord,
                      SkippedRecord, StreamRecord, ReadsRecord, Broken
  <2>5. With(h) \in ReaderStates /\ With(h).errno = in.errno
    BY <1>2, WithIs
  <2>6. in' # SetError(With(h), "os")
    BY <1>1, <2>5, ErrorIs, ErrorNames
  <2>7. in'.errno = With(h).errno
    BY <2>4, <2>5, <2>6 DEF ReaderStates
  <2> QED BY <1>1, <2>2, <2>5, <2>7
<1>7. Found
  BY <1>1, <1>2, <1>6, FoundSame
<1>8. /\ req.id \in Nat /\ req.id # 0
      /\ \A m \in req.start + 1 .. Len(conn.wire) :
           PlainRecord(conn.wire[m], req.id)
      /\ req.start \in Nat
  BY <1>7, FoundIs
<1>9. PICK n \in 1 .. Len(conn.wire) :
        /\ Stands(conn.wire, in, fill, n)
        /\ stage = "params" =>
             InParams(conn.wire, req, in, fill, inner.kind, params, pair, n)
        /\ stage = "getchar" =>
             InStream(conn.wire, req, in, fill, inner.kind, params, body, n)
  BY <1>6, <1>7, FollowsAt
<1>10. in.type \in {"params", "stdin", "data"} /\ req.start <= n
  <2>1. CASE stage = "params"
    BY <1>9, <2>1 DEF InParams
  <2>2. CASE stage = "getchar"
    <3>1. in.type \in {"stdin", "data"} /\ EndIn(conn.wire, OwnParams(conn.wire, req)) <= n
      BY <1>9, <2>2 DEF InStream
    <3>2. /\ OwnParams(conn.wire, req) \subseteq 1 .. Len(conn.wire)
          /\ OwnParams(conn.wire, req) = OwnIn(conn.wire, req.id, "params", req.start)
          /\ req \in Requests
      BY <1>3, StreamsAre DEF ReaderInv
    <3> DEFINE own == OwnParams(conn.wire, req)
               e == EndIn(conn.wire, own)
    <3>3. /\ e \in Nat /\ (e # Len(conn.wire) + 1 => e \in own)
      BY <1>3, <3>2, EndIs
    <3>4. e # Len(conn.wire) + 1
      BY <3>1, <1>9
    <3>5. req.start < e
      BY <1>3, <1>8, <3>2, <3>3, <3>4, OwnIs
    <3> QED BY <1>8, <3>1, <3>3, <3>5
  <2> QED BY <1>3, <2>1, <2>2
<1>11. PICK m \in 1 .. Len(conn.wire) : m = n + 1
  BY <1>2, <1>9, HeaderAt
<1>12. /\ RecordRead = m /\ Left(in, "header") = 0
       /\ in.rdNext = BytesUpTo(conn.wire)[n] + HeaderSize
  BY <1>2, <1>9, <1>11, HeaderAt
<1>13. HeaderRead(in, in', fill', inner'.kind, conn.wire[m], req.id)
  BY <1>1, <1>4, <1>12, HeaderIs
<1>14. PlainRecord(conn.wire[m], req.id)
  <2>1. m \in req.start + 1 .. Len(conn.wire)
    BY <1>8, <1>10, <1>11
  <2> QED BY <1>8, <2>1
<1>15. n \in Nat
  OBVIOUS
<1>16. Moved(conn.wire, req.id, in, "header", "none", in', fill',
             inner'.kind, n, m)
  BY <1>3, <1>5, <1>8, <1>10, <1>11, <1>12, <1>13, <1>14, <1>15, HeaderMoved
<1>17. CASE stage = "params"
  <2>1. InParams(conn.wire, req, in', fill', inner'.kind, params, pair, m)
    BY <1>2, <1>3, <1>5, <1>9, <1>16, <1>17, MovedParams DEF ReaderInv
  <2> QED BY <1>2, <1>6, <1>17, <2>1 DEF Follows
<1>18. CASE stage = "getchar"
  <2>1. InStream(conn.wire, req, in', fill', inner'.kind, params, body, m)
    BY <1>2, <1>3, <1>5, <1>9, <1>16, <1>18, MovedStream DEF ReaderInv
  <2> QED BY <1>2, <1>6, <1>18, <2>1 DEF Follows
<1> QED BY <1>3, <1>17, <1>18

\* ProcessHeader of the record that begins the request.
LEMMA BeginFollows ==
  ASSUME ReaderInv, Staging, Follows, ProcessHeader, stage = "begin"
  PROVE  Follows'
<1>1. SUFFICES ASSUME Found', in'.errno = NoError
               PROVE  Follows'
  BY DEF Follows
<1>2. fill = "header" /\ UNCHANGED <<conn, stage, pair, params, body>>
  BY DEF ProcessHeader, connection
<1>3. conn.wire \in Seq(Sent)
  BY <1>2, AtWork
<1>4. in \in ReaderStates /\ in.rdNext \in Nat /\ inner.kind = "none"
      /\ HeaderSize <= in.rdNext /\ in.rdNext <= in.buffStop
      /\ in.buffStop <= Sizes(conn.wire) /\ in.buffStop \in Nat
      /\ Sizes(conn.wire) \in Nat
  BY <1>2, AtWork, ReaderFields, InnerSame DEF ReaderInv, Sound
<1>5. PICK h \in Headers :
        \/ BadHeader(h) \/ BeginRequest(h) \/ CantMultiplex(h)
        \/ ManagementRecord(h) \/ SkippedRecord(h) \/ StreamRecord(h)
  BY DEF ProcessHeader
<1>6. CASE ~BeginRequest(h)
  <2>1. req' = req
    BY <1>5, <1>6 DEF BadHeader, CantMultiplex, ManagementRecord,
                      SkippedRecord, StreamRecord
  <2>2. Found
    BY <1>1, <1>2, <2>1, FoundSame
  <2>3. ~BadHeader(h)
    <3>1. SUFFICES ASSUME BadHeader(h) PROVE FALSE
      OBVIOUS
    <3>2. PICK s, e : /\ s = in \/ s = With(h)
                      /\ e \in {"protocol", "version"} /\ in' = SetError(s, e)
      BY <3>1 DEF BadHeader, Broken
    <3>3. s \in ReaderStates
      BY <1>2, <1>4, <3>2, WithIs
    <3> QED BY <1>1, <3>2, <3>3, ErrorIs, ErrorNames
  <2>4. in.errno = NoError
    <3>1. \/ in' = With(h) \/ in' = [With(h) EXCEPT !.skip = TRUE]
          \/ in' = [With(h) EXCEPT !.eorStop = TRUE]
          \/ in' = [With(h) EXCEPT !.stop = in.rdNext, !.isClosed = TRUE]
          \/ in' = SetError(With(h), "os")
      BY <1>5, <1>6, <2>3 DEF CantMultiplex, ManagementRecord,
                      SkippedRecord, StreamRecord, ReadsRecord, Broken
    <3>2. With(h) \in ReaderStates /\ With(h).errno = in.errno
      BY <1>2, WithIs
    <3>3. in' # SetError(With(h), "os")
      BY <1>1, <3>2, ErrorIs, ErrorNames
    <3> QED BY <1>1, <3>1, <3>2, <3>3 DEF ReaderStates
  <2>5. PICK n \in 1 .. Len(conn.wire) :
          InBegin(conn.wire, req, in, fill, inner, n)
    BY <2>2, <2>4 DEF Follows
  <2> QED BY <1>2, <1>4, <2>5 DEF InBegin
<1>7. CASE BeginRequest(h)
  <2> DEFINE m == RecordRead
             w == conn.wire
             B == BytesUpTo(w)
             first == in.rdNext - HeaderSize + 1
             s == With(h)
  <2>1. /\ h.contentLen = BeginSize /\ ~req.begun
        /\ req' = [req EXCEPT !.id = h.id, !.start = m]
        /\ in' = [s EXCEPT !.eorStop = TRUE] /\ fill' = "no"
        /\ inner' = [Outer EXCEPT !.kind = "begin"]
    BY <1>7 DEF BeginRequest, ReadsRecord
  <2>2. req'.start = m /\ ~req'.begun /\ req'.id = h.id
    BY <2>1 DEF ReaderInv, Requests
  <2>3. m # 0 /\ w[m].padding = 0
    BY <1>1, <1>2, <2>2 DEF Found, Plain
  <2>4. m \in 1 .. Len(w) /\ h = HeaderOf(w[m])
    BY <1>2, <2>3, HeadersTyped
  <2>5. h.contentLen = Len(w[m].content) /\ h.paddingLen = 0
    BY <1>3, <2>3, <2>4, ContentIs, HeaderOfIs
  <2>6. /\ s.contentLen = BeginSize /\ s.paddingLen = 0
        /\ s.rdNext = in.rdNext /\ s.stop = in.rdNext /\ s.headerLen = 0
        /\ ~s.isClosed /\ s \in ReaderStates
    BY <1>2, <2>1, <2>5, WithIs
  <2>7. Where(first)[1] = m /\ Where(first)[2] = 1
    BY <2>3 DEF RecordRead
  <2>8. first - B[m - 1] = 1
    BY <2>7, WhereSame DEF WhereIn
  <2>9. /\ B[m] = B[m - 1] + RecordSize(w[m]) /\ B[m - 1] \in Nat
        /\ B[m] \in Nat
    <3>1. m - 1 \in 0 .. Len(w) /\ m \in 0 .. Len(w)
      BY <1>3, <2>4
    <3> QED BY <1>3, <2>4, <3>1, BeforeIs DEF AddsUp
  <2>10. RecordSize(w[m]) = HeaderSize + BeginSize + 0
    BY <1>3, <2>1, <2>3, <2>4, <2>5, ContentIs, RecordSizes
  <2>11. HeaderSize \in Nat /\ BeginSize \in Nat /\ BeginSize > 0
    BY LibraryAssumption
  <2> HIDE DEF s, B
  <2>12. in.rdNext + BeginSize = B[m]
    BY <1>4, <2>8, <2>9, <2>10, <2>11
  <2>13. /\ in' \in ReaderStates /\ in'.rdNext = in.rdNext
         /\ in'.stop = in.rdNext /\ in'.headerLen = 0 /\ ~in'.isClosed
         /\ in'.contentLen = BeginSize /\ in'.paddingLen = 0
    BY <2>1, <2>6 DEF ReaderStates
  <2>14. Left(in', "no") = BeginSize
    <3>1. in'.stop - in'.rdNext = 0
      BY <1>4, <2>13
    <3> QED BY <2>11, <2>13, <3>1, StandsLoop
  <2>15. Stands(w, in', "no", m)
    <3>1. in'.rdNext + Left(in', "no") + in'.paddingLen = B[m] + 0 + 0
      BY <1>4, <2>9, <2>11, <2>12, <2>13, <2>14
    <3> QED BY <2>1, <2>3, <2>4, <2>5, <2>11, <2>13, <2>14, <3>1 DEF Stands, B
  <2>16. inner'.kind = "begin" /\ inner'.got = <<>>
    BY <2>1 DEF Outer
  <2>17. inner'.got \in Bytes /\ Len(inner'.got) = BeginSize - BeginSize
    BY <2>11, <2>16, BytesNone
  <2>18. InBegin(w, req', in', fill', inner', m)
    BY <2>1, <2>2, <2>11, <2>13, <2>14, <2>15, <2>16, <2>17 DEF InBegin
  <2> QED BY <1>2, <2>4, <2>18 DEF Follows
<1> QED BY <1>6, <1>7

-----------------------------------------------------------------------------
(* FCGX_GetChar.                                                            *)

LEMMA ByteAt ==
  ASSUME NEW i, NEW n, NEW a, NEW k \in 1 .. Len(conn.wire[n].content),
         Where(i) = <<n, a>>, a - HeaderSize = k
  PROVE  Byte(i) = conn.wire[n].content[k]
<1>1. Where(i)[1] = n /\ Where(i)[2] = a
  OBVIOUS
<1> QED BY <1>1 DEF Byte

\* The character that is taken is the next one of the record.
LEMMA ByteIs ==
  ASSUME ReaderInv, Reading, ~in.isClosed, in.rdNext # in.stop,
         NEW n, Stands(conn.wire, in, "no", n)
  PROVE  LET w == conn.wire
             left == Left(in, "no")
         IN  /\ Stands(w, Taken, "no", n) /\ left > 0 /\ left \in Nat
             /\ left <= Len(w[n].content) /\ n \in 1 .. Len(w)
             /\ Left(Taken, "no") = left - 1
             /\ in.paddingLen = w[n].padding
             /\ Byte(in.rdNext + 1) = w[n].content[Len(w[n].content) - left + 1]
<1> DEFINE w == conn.wire
           L == Len(w[n].content)
           left == Left(in, "no")
<1>1. /\ w \in Seq(Sent) /\ in \in ReaderStates /\ in.headerLen = 0
      /\ in.rdNext <= in.stop
  BY ReadingIs
<1>2. /\ Taken \in ReaderStates /\ Taken.rdNext = in.rdNext + 1
      /\ Taken.stop = in.stop /\ Taken.contentLen = in.contentLen
      /\ Taken.paddingLen = in.paddingLen /\ Taken.headerLen = 0
      /\ ~Taken.isClosed
  BY TakenIs
<1>3. in.rdNext < in.stop
  BY <1>1, ReaderFields
<1>4. Taken.isClosed = in.isClosed
  BY <1>1, <1>2, ReaderFields
<1>5. /\ Stands(w, Taken, "no", n) /\ left > 0
      /\ Left(Taken, "no") = left - 1
      /\ in.paddingLen = w[n].padding
      /\ L - left + 1 \in 1 .. L
      /\ WhereIn(w, in.rdNext + 1) = <<n, HeaderSize + (L - left + 1)>>
  BY <1>1, <1>2, <1>3, <1>4, StandsTaken
<1>6. n \in 1 .. Len(w) /\ left \in Nat /\ left <= L
  BY DEF Stands
<1> HIDE DEF L, left
<1>7. PICK k \in 1 .. L : k = L - left + 1
  BY <1>5
<1>8. Where(in.rdNext + 1) = <<n, HeaderSize + k>>
  BY <1>5, <1>7, WhereSame
<1>9. HeaderSize \in Nat /\ k \in Int
  BY <1>7, LibraryAssumption
<1>10. Byte(in.rdNext + 1) = w[n].content[k]
  <2>1. PICK a \in Int : a = HeaderSize + k
    BY <1>9
  <2>2. a - HeaderSize = k /\ Where(in.rdNext + 1) = <<n, a>>
    BY <1>8, <1>9, <2>1
  <2>3. k \in 1 .. Len(conn.wire[n].content)
    BY DEF L
  <2> QED BY <2>2, <2>3, ByteAt
<1> QED BY <1>5, <1>6, <1>7, <1>10 DEF L, left

LEMMA NeedFillFollows ==
  ASSUME ReaderInv, Staging, Follows, NeedFill
  PROVE  Follows'
<1>1. /\ Reading /\ ~in.isClosed /\ in.rdNext = in.stop /\ fill' = "loop"
      /\ UNCHANGED <<conn, stage, in, inner, req, pair, params, body>>
  BY DEF NeedFill, connection, request
<1>2. SUFFICES ASSUME Found, in.errno = NoError
               PROVE  Follows'
  BY <1>1, FoundSame DEF Follows
<1>3. /\ conn.wire \in Seq(Sent) /\ in \in ReaderStates /\ fill = "no"
      /\ stage \in {"begin", "params", "getchar"}
  BY <1>1, ReadingIs DEF Stages
<1>4. CASE stage = "begin"
  <2>1. PICK n \in 1 .. Len(conn.wire) :
          InBegin(conn.wire, req, in, "no", inner, n)
    BY <1>2, <1>3, <1>4 DEF Follows
  <2>2. inner.kind # "none"
    BY <1>1, <1>4 DEF Reading
  <2>3. Left(in, "loop") = Left(in, "no")
    BY <1>1, <1>3, ReaderFields, StandsLoop
  <2>4. Stands(conn.wire, in, "loop", n)
    BY <2>1, <2>3 DEF InBegin, Stands
  <2>5. InBegin(conn.wire, req, in, "loop", inner, n)
    BY <2>1, <2>2, <2>3, <2>4 DEF InBegin
  <2> QED BY <1>1, <1>4, <2>5 DEF Follows
<1>5. CASE stage \in {"params", "getchar"}
  <2>1. ASSUME NEW n \in 1 .. Len(conn.wire)
        PROVE  Moved(conn.wire, req.id, in, fill, inner.kind,
                     in', fill', inner'.kind, n, n)
    BY <1>1, <1>3, FillMoved
  <2> QED BY <1>1, <1>2, <1>5, <2>1, MovedFollows
<1> QED BY <1>3, <1>4, <1>5

LEMMA ValueByteFollows ==
  ASSUME ReaderInv, Staging, Follows, NEW c, ValueByte(c)
  PROVE  Follows'
<1>1. /\ Reading /\ ~in.isClosed /\ in.rdNext # in.stop
      /\ inner.kind = "values" /\ in' = Taken
      /\ UNCHANGED <<conn, stage, fill, req, pair, params, body>>
  BY DEF ValueByte, Takes, connection, request
<1>2. inner'.kind = "values"
  <2>1. IsInner(inner)
    BY <1>1, ReadingIs
  <2> QED BY <1>1, <2>1 DEF ValueByte, IsInner
<1>3. /\ conn.wire \in Seq(Sent) /\ in \in ReaderStates /\ fill = "no"
      /\ in.headerLen = 0 /\ in.rdNext <= in.stop
      /\ stage \in {"begin", "params", "getchar"}
  BY <1>1, ReadingIs DEF Stages
<1>4. /\ Taken \in ReaderStates /\ Taken.rdNext = in.rdNext + 1
      /\ Taken.stop = in.stop /\ Taken.contentLen = in.contentLen
      /\ Taken.paddingLen = in.paddingLen /\ Taken.headerLen = 0
      /\ ~Taken.isClosed /\ Taken.errno = in.errno /\ Taken.type = in.type
      /\ Taken.skip = in.skip
  BY <1>1, TakenIs
<1>5. SUFFICES ASSUME Found, in.errno = NoError
               PROVE  Follows'
  BY <1>1, <1>4, FoundSame DEF Follows
<1>6. stage # "begin"
  <2>1. SUFFICES ASSUME stage = "begin" PROVE FALSE
    OBVIOUS
  <2>2. PICK n : InBegin(conn.wire, req, in, fill, inner, n)
    BY <1>5, <2>1 DEF Follows
  <2> QED BY <1>1, <2>2 DEF InBegin
<1>7. in.rdNext < in.stop /\ Taken.isClosed = in.isClosed
  BY <1>1, <1>3, <1>4, ReaderFields
<1>8. ASSUME NEW n \in 1 .. Len(conn.wire)
      PROVE  Moved(conn.wire, req.id, in, fill, inner.kind,
                   in', fill', inner'.kind, n, n)
  <2>1. Moved(conn.wire, req.id, in, "no", "values", Taken, "no", "values", n, n)
    BY <1>1, <1>3, <1>4, <1>7, TakenMoved
  <2> QED BY <1>1, <1>2, <1>3, <2>1
<1> QED BY <1>1, <1>3, <1>5, <1>6, <1>8, MovedFollows

LEMMA ValuesEndFollows ==
  ASSUME ReaderInv, Staging, Follows, ValuesEnd
  PROVE  Follows'
<1>1. SUFFICES ASSUME Found', in'.errno = NoError
               PROVE  Follows'
  BY DEF Follows
<1> DEFINE t == [in EXCEPT !.eorStop = FALSE, !.isClosed = FALSE]
<1>2. /\ Reading /\ in.isClosed /\ inner.kind = "values" /\ inner' = Outer
      /\ UNCHANGED <<conn, stage, req, pair, params, body>>
  BY DEF ValuesEnd, Eof, connection, request
<1>3. /\ conn.wire \in Seq(Sent) /\ in \in ReaderStates /\ fill = "no"
      /\ stage \in {"begin", "params", "getchar"}
  BY <1>2, ReadingIs DEF Stages
<1>4. /\ t \in ReaderStates /\ t.rdNext = in.rdNext /\ t.stop = in.stop
      /\ t.headerLen = in.headerLen /\ ~t.isClosed
      /\ t.contentLen = in.contentLen /\ t.paddingLen = in.paddingLen
      /\ t.type = in.type /\ t.skip = in.skip /\ t.errno = in.errno
  BY <1>3, OpenedIs
<1>5. in' = t /\ fill' = "loop"
  <2>1. \/ in' = t /\ fill' = "loop"
        \/ in' = SetError(t, "protocol") \/ in' = SetError(t, "os")
    BY DEF ValuesEnd, Broken
  <2> HIDE DEF t
  <2> QED BY <1>1, <1>4, <2>1, ErrorIs, ErrorNames
<1> HIDE DEF t
<1>6. Found /\ in.errno = NoError
  BY <1>1, <1>2, <1>4, <1>5, FoundSame
<1>7. stage # "begin"
  <2>1. SUFFICES ASSUME stage = "begin" PROVE FALSE
    OBVIOUS
  <2>2. PICK n : InBegin(conn.wire, req, in, fill, inner, n)
    BY <1>6, <2>1 DEF Follows
  <2> QED BY <1>2, <2>2 DEF InBegin
<1>8. inner'.kind = "none"
  BY <1>2 DEF Outer
<1>9. ASSUME NEW n \in 1 .. Len(conn.wire)
      PROVE  Moved(conn.wire, req.id, in, fill, inner.kind,
                   in', fill', inner'.kind, n, n)
  <2>1. Moved(conn.wire, req.id, in, "no", "values", t, "loop", "none", n, n)
    BY <1>2, <1>3, <1>4, OpenedMoved
  <2> QED BY <1>2, <1>3, <1>5, <1>8, <2>1
<1> QED BY <1>2, <1>3, <1>6, <1>7, <1>9, MovedFollows

\* A byte of the body of BEGIN_REQUEST.
LEMMA BeginByteFollows ==
  ASSUME ReaderInv, Staging, Follows, NEW c, BeginByte(c), c \in 0 .. 255
  PROVE  Follows'
<1>1. /\ Reading /\ ~in.isClosed /\ in.rdNext # in.stop
      /\ inner.kind = "begin"
      /\ UNCHANGED <<conn, stage, fill, pair, params, body>>
  BY DEF BeginByte, Takes, connection
<1>2. /\ conn.wire \in Seq(Sent) /\ in \in ReaderStates /\ fill = "no"
      /\ in.headerLen = 0 /\ in.rdNext <= in.stop /\ IsInner(inner)
      /\ stage \in {"begin", "params", "getchar"} /\ req \in Requests
  BY <1>1, ReadingIs DEF Stages
<1>3. /\ Taken \in ReaderStates /\ ~Taken.isClosed
      /\ Taken.paddingLen = in.paddingLen
      /\ Taken.errno = in.errno /\ Taken.skip = in.skip
  BY <1>1, TakenIs
<1>4. \/ /\ Len(inner.got) + 1 < BeginSize /\ req' = req /\ in' = Taken
         /\ inner' = [inner EXCEPT !.got = Append(@, c)]
      \/ /\ ~(Len(inner.got) + 1 < BeginSize)
         /\ req' = [req EXCEPT !.keep = c % 2 = 1, !.role = c \div 2,
                               !.begun = TRUE]
         /\ inner' = Outer /\ in' = [Taken EXCEPT !.eorStop = FALSE]
  BY DEF BeginByte
<1>5. req'.id = req.id /\ req'.start = req.start
  BY <1>2, <1>4 DEF Requests
<1>6. SamePlace(Taken, in') /\ in'.errno = in.errno
  BY <1>3, <1>4 DEF SamePlace, ReaderStates
<1>7. SUFFICES ASSUME Found, in.errno = NoError
               PROVE  Follows'
  BY <1>1, <1>5, <1>6, FoundSame DEF Follows
<1>8. stage = "begin"
  <2>1. SUFFICES ASSUME stage \in {"params", "getchar"} PROVE FALSE
    BY <1>2
  <2>2. req.begun
    BY <2>1 DEF Staging
  <2> QED BY <1>1, <2>2 DEF Staging
<1>9. PICK n \in 1 .. Len(conn.wire) :
        InBegin(conn.wire, req, in, "no", inner, n)
  BY <1>2, <1>7, <1>8 DEF Follows
<1> DEFINE w == conn.wire
           left == Left(in, "no")
           got == inner.got
<1>10. /\ n = req.start /\ Stands(w, in, "no", n) /\ got \in Bytes
       /\ left > 0 /\ (~in.skip => Len(got) = BeginSize - left)
       /\ (in.skip => in.stop = in.rdNext)
  BY <1>1, <1>9 DEF InBegin
<1>11. Len(got) = BeginSize - left /\ Len(got) \in Nat /\ BeginSize \in Nat
  BY <1>1, <1>2, <1>10, ReaderFields, BytesLen, LibraryAssumption
<1>12. /\ Stands(w, Taken, "no", n) /\ Left(Taken, "no") = left - 1
       /\ in.paddingLen = w[n].padding /\ left \in Nat
  BY <1>1, <1>10, ByteIs
<1>13. w[n].padding = 0
  BY <1>7, <1>10 DEF Found, Plain
<1>14. ~in.skip /\ ~Taken.skip
  BY <1>1, <1>3, <1>10
<1> HIDE DEF left
<1>15. CASE Len(got) + 1 < BeginSize
  <2>1. /\ req' = req /\ in' = Taken
        /\ inner' = [inner EXCEPT !.got = Append(@, c)]
    BY <1>4, <1>15
  <2>2. inner'.kind = "begin" /\ inner'.got = Append(got, c)
    BY <1>1, <1>2, <2>1 DEF IsInner
  <2>3. Append(got, c) \in Bytes /\ Len(Append(got, c)) = Len(got) + 1
    BY <1>10, BytesAppend
  <2>4. Left(Taken, "no") > 0 /\ Len(got) + 1 = BeginSize - Left(Taken, "no")
    BY <1>11, <1>12, <1>15
  <2>5. ~req.begun
    BY <1>1, <1>9 DEF InBegin
  <2>6. InBegin(w, req', in', "no", inner', n)
    BY <1>10, <1>12, <1>14, <2>1, <2>2, <2>3, <2>4, <2>5 DEF InBegin
  <2> QED BY <1>1, <1>2, <1>8, <1>9, <2>6 DEF Follows
<1>16. CASE ~(Len(got) + 1 < BeginSize)
  <2>1. /\ req' = [req EXCEPT !.keep = c % 2 = 1, !.role = c \div 2,
                              !.begun = TRUE]
        /\ inner' = Outer
    BY <1>4, <1>16
  <2>2. inner'.kind = "none" /\ req'.begun
    BY <1>2, <2>1 DEF Outer, Requests
  <2>3. Left(Taken, "no") = 0
    BY <1>10, <1>11, <1>12, <1>16
  <2>4. Stands(w, in', "no", n) /\ Left(in', "no") = 0
    BY <1>6, <1>12, <2>3, PlaceAlike
  <2>5. in'.paddingLen = 0 /\ ~in'.isClosed
    BY <1>3, <1>6, <1>12, <1>13 DEF SamePlace
  <2>6. InBegin(w, req', in', "no", inner', n)
    BY <1>5, <1>10, <2>2, <2>4, <2>5 DEF InBegin
  <2> QED BY <1>1, <1>2, <1>8, <1>9, <2>6 DEF Follows
<1> QED BY <1>15, <1>16

\* A byte of a stream.
LEMMA WithinTaken ==
  ASSUME ReaderInv, Reading, ~in.isClosed, in.rdNext # in.stop,
         NEW own, NEW n, Within(conn.wire, in, "no", "none", own, n)
  PROVE  /\ Within(conn.wire, Taken, "no", "none", own, n) /\ n \in own
         /\ n \in 1 .. Len(conn.wire)
         /\ Byte(in.rdNext + 1) \in 0 .. 255
         /\ Partly(conn.wire, own, n, Left(in, "no")) \in Bytes
         /\ Partly(conn.wire, own, n, Left(Taken, "no"))
              = Append(Partly(conn.wire, own, n, Left(in, "no")),
                       Byte(in.rdNext + 1))
         /\ Kept(conn.wire, in, "no", "none", own, n)
              => Kept(conn.wire, Taken, "no", "none", own, n)
<1> DEFINE w == conn.wire
           left == Left(in, "no")
<1>1. w \in Seq(Sent) /\ in \in ReaderStates
  BY ReadingIs
<1>2. /\ Taken.stop = in.stop /\ Taken.contentLen = in.contentLen
      /\ Taken.paddingLen = in.paddingLen /\ Taken.stopUnget = in.stopUnget
      /\ ~Taken.isClosed /\ Taken.skip = in.skip
      /\ Byte(in.rdNext + 1) \in 0 .. 255
  BY TakenIs
<1>3. Stands(w, in, "no", n)
  BY DEF Within
<1>4. /\ Stands(w, Taken, "no", n) /\ left > 0 /\ left \in Nat
      /\ left <= Len(w[n].content) /\ n \in 1 .. Len(w)
      /\ Left(Taken, "no") = left - 1
      /\ Byte(in.rdNext + 1) = w[n].content[Len(w[n].content) - left + 1]
  BY <1>3, ByteIs
<1>5. n \in own /\ ~in.skip
  BY <1>4 DEF Within
<1>6. Partly(w, own, n, left) \in Bytes
  BY <1>1, <1>4, PartIs
<1>7. Partly(w, own, n, left - 1)
        = Append(Partly(w, own, n, left), Byte(in.rdNext + 1))
  <2>1. left # 0
    BY <1>4
  <2> HIDE DEF left
  <2> QED BY <1>1, <1>4, <1>5, <2>1, PartlyMore, SMTT(20)
<1>8. Within(w, Taken, "no", "none", own, n)
  BY <1>2, <1>4, <1>5 DEF Within
<1>9. Kept(w, in, "no", "none", own, n)
        => Kept(w, Taken, "no", "none", own, n)
  BY <1>2 DEF Kept
<1> QED BY <1>2, <1>4, <1>5, <1>6, <1>7, <1>8, <1>9

LEMMA ParamByteFollows ==
  ASSUME ReaderInv, Staging, Follows, NEW c, c = Byte(in.rdNext + 1),
         ParamByte(c)
  PROVE  Follows'
<1>1. /\ Reading /\ ~in.isClosed /\ in.rdNext # in.stop
      /\ inner.kind = "none" /\ stage = "params" /\ in' = Taken
      /\ UNCHANGED <<conn, stage, fill, inner, req, body>>
  BY DEF ParamByte, Takes, connection
<1>2. /\ conn.wire \in Seq(Sent) /\ fill = "no"
  BY <1>1, ReadingIs
<1>3. Taken.errno = in.errno /\ Taken.type = in.type
  BY <1>1, TakenIs
<1>4. SUFFICES ASSUME Found, in.errno = NoError
               PROVE  Follows'
  BY <1>1, <1>3, FoundSame DEF Follows
<1>5. PICK n \in 1 .. Len(conn.wire) :
        InParams(conn.wire, req, in, fill, inner.kind, params, pair, n)
  BY <1>1, <1>4 DEF Follows
<1> DEFINE own == OwnParams(conn.wire, req)
           read == Partly(conn.wire, own, n, Left(in, "no"))
           more == Partly(conn.wire, own, n, Left(Taken, "no"))
<1>6. /\ in.type = "params" /\ req.start <= n
      /\ Within(conn.wire, in, "no", "none", own, n)
      /\ ParsedAs(read, params, pair)
  BY <1>1, <1>2, <1>5 DEF InParams
<1>7. /\ Within(conn.wire, Taken, "no", "none", own, n)
      /\ c \in 0 .. 255 /\ read \in Bytes /\ more = Append(read, c)
  BY <1>1, <1>6, WithinTaken
<1> HIDE DEF own, read, more
<1>8. ParsedAs(more, params', pair')
  <2>1. CASE Len(Append(pair, c)) < PairSize(Append(pair, c))
    <3>1. pair' = Append(pair, c) /\ params' = params
      BY <2>1 DEF ParamByte
    <3> QED BY <1>6, <1>7, <2>1, <3>1, ParsedMore
  <2>2. CASE ~(Len(Append(pair, c)) < PairSize(Append(pair, c)))
    <3>1. pair' = <<>> /\ params' = Append(params, PairOf(Append(pair, c)))
      BY <2>2 DEF ParamByte
    <3> QED BY <1>6, <1>7, <2>2, <3>1, ParsedMore
  <2> QED BY <2>1, <2>2
<1>9. InParams(conn.wire, req, Taken, "no", "none", params', pair', n)
  BY <1>3, <1>6, <1>7, <1>8 DEF InParams, own, more
<1> QED BY <1>1, <1>2, <1>5, <1>9 DEF Follows

LEMMA BodyIs ==
  ASSUME body \in Bodies, NEW y \in {"stdin", "data"}, NEW x,
         body' = [body EXCEPT ![y] = x]
  PROVE  /\ body'[y] = x /\ body[y] \in Bytes
         /\ y = "stdin" => body'.data = body.data
         /\ y = "data" => body'.stdin = body.stdin
         /\ x \in Bytes => body' \in Bodies
BY DEF Bodies

\* The streams of a request are where its id and its first record say.
LEMMA StreamSame ==
  ASSUME NEW w, NEW r, NEW q, q.id = r.id, q.start = r.start,
         NEW s, NEW f, NEW k, NEW ps, NEW b, NEW n,
         InStream(w, r, s, f, k, ps, b, n)
  PROVE  InStream(w, q, s, f, k, ps, b, n)
<1>1. OwnParams(w, q) = OwnParams(w, r)
  BY DEF OwnParams
<1>2. \A type : OwnStream(w, q, type) = OwnStream(w, r, type)
  BY <1>1 DEF OwnStream
<1> QED BY <1>1, <1>2 DEF InStream

LEMMA GetCharFollows ==
  ASSUME ReaderInv, Staging, Follows, NEW c, c = Byte(in.rdNext + 1),
         GetChar(c)
  PROVE  Follows'
<1>1. /\ Reading /\ ~in.isClosed /\ in.rdNext # in.stop
      /\ inner.kind = "none" /\ stage = "getchar" /\ in' = Taken
      /\ stage' = "serve" /\ body' = [body EXCEPT ![in.type] = Append(@, c)]
      /\ UNCHANGED <<conn, fill, inner, req, params>>
  BY DEF GetChar, Takes, connection
<1>2. fill = "no" /\ body \in Bodies
  BY <1>1, ReadingIs DEF Staging
<1>3. Taken.errno = in.errno /\ Taken.type = in.type
  BY <1>1, TakenIs
<1>4. SUFFICES ASSUME Found, in.errno = NoError
               PROVE  Follows'
  BY <1>1, <1>3, FoundSame DEF Follows
<1>5. PICK n \in 1 .. Len(conn.wire) :
        InStream(conn.wire, req, in, fill, inner.kind, params, body, n)
  BY <1>1, <1>4 DEF Follows
<1> DEFINE own == OwnStream(conn.wire, req, in.type)
           read == Partly(conn.wire, own, n, Left(in, "no"))
           more == Partly(conn.wire, own, n, Left(Taken, "no"))
           data == OwnStream(conn.wire, req, "data")
           stdin == OwnStream(conn.wire, req, "stdin")
<1>6. /\ in.type \in {"stdin", "data"}
      /\ Within(conn.wire, in, "no", "none", own, n) /\ body[in.type] = read
      /\ Kept(conn.wire, in, "no", "none", own, n)
      /\ in.type = "stdin" => body.data = <<>>
      /\ in.type = "data" =>
           body.stdin = ReadIn(conn.wire, stdin, EndIn(conn.wire, stdin) - 1)
  BY <1>1, <1>2, <1>5 DEF InStream
<1>7. /\ Within(conn.wire, Taken, "no", "none", own, n)
      /\ Kept(conn.wire, Taken, "no", "none", own, n)
      /\ more = Append(read, c)
  BY <1>1, <1>6, WithinTaken
<1>8. /\ body'[in.type] = more
      /\ in.type = "stdin" => body'.data = body.data
      /\ in.type = "data" => body'.stdin = body.stdin
  <2>1. body' = [body EXCEPT ![in.type] = more]
    BY <1>1, <1>6, <1>7
  <2> QED BY <1>2, <1>6, <2>1, BodyIs
<1>9. InStream(conn.wire, req, Taken, "no", "none", params, body', n)
  BY <1>1, <1>2, <1>3, <1>5, <1>6, <1>7, <1>8 DEF InStream
<1> QED BY <1>1, <1>2, <1>5, <1>9 DEF Follows

\* Steps that leave the reader alone.
LEMMA StreamStays ==
  ASSUME ReaderInv, Follows, UNCHANGED <<conn, in, fill, inner, params, body>>,
         req'.id = req.id, req'.start = req.start,
         stage \in {"serve", "getchar", "accept"},
         stage' \in {"serve", "getchar", "accept"}
  PROVE  Follows'
<1>1. SUFFICES ASSUME Found, in.errno = NoError
               PROVE  Follows'
  BY FoundSame DEF Follows
<1>2. PICK n \in 1 .. Len(conn.wire) :
        InStream(conn.wire, req, in, fill, inner.kind, params, body, n)
  BY <1>1 DEF Follows
<1>3. InStream(conn.wire, req', in, fill, inner.kind, params, body, n)
  BY <1>2, StreamSame
<1> QED BY <1>2, <1>3 DEF Follows

LEMMA AllStays ==
  ASSUME Follows,
         UNCHANGED <<conn, stage, in, fill, inner, req, pair, params, body>>
  PROVE  Follows'
<1>1. UNCHANGED Found
  BY DEF Found, Plain
<1> QED BY <1>1 DEF Follows

-----------------------------------------------------------------------------
(* The reader is opened for the next stream.                                *)

LEMMA OpenedWithin ==
  ASSUME NEW w \in Seq(Sent), NEW s \in ReaderStates, NEW n,
         Stands(w, s, "no", n), Left(s, "no") = 0, s.paddingLen = 0,
         s.headerLen = 0,
         NEW t \in ReaderStates, t.rdNext = s.rdNext, t.stop = s.rdNext,
         t.contentLen = 0, t.paddingLen = 0, t.headerLen = 0,
         ~t.isClosed, ~t.skip,
         NEW own, own \subseteq 1 .. Len(w), \A i \in 1 .. n : i \notin own
  PROVE  /\ Within(w, t, "no", "none", own, n) /\ Left(t, "no") = 0
         /\ Partly(w, own, n, 0) = <<>>
<1>1. Left(t, "no") = 0
  <2>1. t.stop - t.rdNext = 0
    BY ReaderFields
  <2> QED BY <2>1, StandsLoop
<1>2. n \in 1 .. Len(w) /\ Len(w) \in Nat
  BY DEF Stands
<1>3. Stands(w, t, "no", n)
  <2>1. s.rdNext + 0 + 0 = BytesUpTo(w)[n] + 0 + 0
    BY DEF Stands
  <2>2. 0 \in Nat /\ 0 <= Len(w[n].content)
    BY DEF Stands
  <2> QED BY <1>1, <1>2, <2>1, <2>2 DEF Stands
<1>4. n < EndIn(w, own)
  <2>1. /\ EndIn(w, own) \in Nat /\ EndIn(w, own) > 0
        /\ (EndIn(w, own) # Len(w) + 1 => EndIn(w, own) \in own)
    BY EndIs
  <2> QED BY <1>2, <2>1
<1>5. EndIn(w, own) \in Nat
  BY EndIs
<1>6. Within(w, t, "no", "none", own, n)
  BY <1>1, <1>2, <1>3, <1>4, <1>5 DEF Within
<1>7. Partly(w, own, n, 0) = <<>>
  <2>1. n \in 0 .. Len(w)
    BY <1>2
  <2>2. ReadIn(w, own, n) = <<>>
    BY <2>1, ReadBefore
  <2> QED BY <1>2, <2>2, PartlyWhole
<1> QED BY <1>1, <1>6, <1>7

LEMMA BeginReadFollows ==
  ASSUME ReaderInv, Staging, Follows, BeginRead
  PROVE  Follows'
<1>1. /\ stage = "begin" /\ fill = "no" /\ inner.kind = "none" /\ req.begun
      /\ in' = SetReaderType(in, "params") /\ stage' = "params"
      /\ UNCHANGED <<conn, fill, inner, req, pair, params, body>>
  BY DEF BeginRead, connection, request
<1>2. conn.wire \in Seq(Sent) /\ Sound(in, "no", "none") /\ in \in ReaderStates
      /\ req \in Requests
  BY <1>1, AtWork DEF ReaderInv, Sound
<1> DEFINE t == SetReaderType(in, "params")
<1>3. /\ t \in ReaderStates /\ t.rdNext = in.rdNext /\ t.stop = in.rdNext
      /\ t.type = "params" /\ ~t.skip /\ t.contentLen = 0
      /\ t.paddingLen = 0 /\ t.headerLen = 0 /\ ~t.isClosed
      /\ t.errno = in.errno
  BY <1>2, SetTypeIs
<1> HIDE DEF t
<1>4. SUFFICES ASSUME Found, in.errno = NoError
               PROVE  Follows'
  BY <1>1, <1>3, FoundSame DEF Follows, t
<1>5. PICK n \in 1 .. Len(conn.wire) :
        InBegin(conn.wire, req, in, "no", inner, n)
  BY <1>1, <1>4 DEF Follows
<1>6. /\ n = req.start /\ Stands(conn.wire, in, "no", n)
      /\ Left(in, "no") = 0 /\ in.paddingLen = 0
  BY <1>1, <1>5 DEF InBegin
<1>7. in.headerLen = 0
  BY <1>2, ReaderFields DEF Sound
<1> DEFINE own == OwnParams(conn.wire, req)
<1>8. own \subseteq 1 .. Len(conn.wire) /\ \A i \in 1 .. n : i \notin own
  <2>1. req.start \in Nat
    BY <1>2, RequestFields
  <2>2. own \subseteq 1 .. Len(conn.wire) /\ \A i \in own : req.start < i
    BY <1>2, <2>1, OwnIs DEF OwnParams
  <2> QED BY <1>6, <2>1, <2>2
<1> HIDE DEF own
<1>9. /\ Within(conn.wire, t, "no", "none", own, n) /\ Left(t, "no") = 0
      /\ Partly(conn.wire, own, n, 0) = <<>>
  BY <1>2, <1>3, <1>6, <1>7, <1>8, OpenedWithin, ZenonT(40)
<1>10. params = <<>> /\ pair = <<>>
  BY <1>1 DEF Staging
<1>11. InParams(conn.wire, req, t, "no", "none", params, pair, n)
  BY <1>3, <1>6, <1>9, <1>10, ParsedNone DEF InParams, own
<1> QED BY <1>1, <1>5, <1>11 DEF Follows, t

\* A stream has been read to its end.
LEMMA ClosedIs ==
  ASSUME NEW w \in Seq(Sent), NEW s \in ReaderStates, s.isClosed,
         NEW own, own \subseteq 1 .. Len(w), NEW n,
         Within(w, s, "no", "none", own, n)
  PROVE  /\ Left(s, "no") = 0 /\ s.paddingLen = 0 /\ n = EndIn(w, own)
         /\ Stands(w, s, "no", n) /\ s.stop = s.rdNext
         /\ Partly(w, own, n, 0) = ReadIn(w, own, EndIn(w, own) - 1)
         /\ ReadIn(w, own, EndIn(w, own) - 1) \in Bytes
<1>1. /\ Stands(w, s, "no", n) /\ s.contentLen = 0 /\ s.paddingLen = 0
      /\ s.stop = s.rdNext /\ n = EndIn(w, own) /\ n \in 1 .. Len(w)
  BY DEF Within, Stands
<1>2. Left(s, "no") = 0
  <2>1. s.stop - s.rdNext = 0
    BY <1>1, ReaderFields
  <2> QED BY <1>1, <2>1, StandsLoop
<1>3. 0 \in Nat /\ 0 <= Len(w[n].content)
  BY <1>1, ContentIs
<1>4. Partly(w, own, n, 0) = ReadIn(w, own, EndIn(w, own) - 1)
  BY <1>1, <1>3, PartlyEnd
<1>5. Partly(w, own, n, 0) \in Bytes
  BY <1>1, <1>3, PartIs
<1> QED BY <1>1, <1>2, <1>4, <1>5

LEMMA ParamsReadFollows ==
  ASSUME ReaderInv, Staging, Follows, ParamsRead
  PROVE  Follows'
<1>1. /\ Reading /\ in.isClosed /\ inner.kind = "none" /\ stage = "params"
      /\ pair = <<>> /\ in' = SetReaderType(in, "stdin") /\ stage' = "serve"
      /\ req' = [req EXCEPT !.nWriters = 2]
      /\ UNCHANGED <<conn, fill, inner, pair, params, body>>
  BY DEF ParamsRead, Eof, connection
<1>2. /\ conn.wire \in Seq(Sent) /\ Sound(in, "no", "none")
      /\ in \in ReaderStates /\ req \in Requests /\ fill = "no"
      /\ in.headerLen = 0
  BY <1>1, ReadingIs
<1> DEFINE t == SetReaderType(in, "stdin")
<1>3. /\ t \in ReaderStates /\ t.rdNext = in.rdNext /\ t.stop = in.rdNext
      /\ t.type = "stdin" /\ ~t.skip /\ t.contentLen = 0
      /\ t.paddingLen = 0 /\ t.headerLen = 0 /\ ~t.isClosed
      /\ t.errno = in.errno
  BY <1>2, SetTypeIs
<1> HIDE DEF t
<1>4. req'.id = req.id /\ req'.start = req.start
  BY <1>1, <1>2 DEF Requests
<1>5. SUFFICES ASSUME Found, in.errno = NoError
               PROVE  Follows'
  BY <1>1, <1>3, <1>4, FoundSame DEF Follows, t
<1>6. PICK n \in 1 .. Len(conn.wire) :
        InParams(conn.wire, req, in, fill, inner.kind, params, pair, n)
  BY <1>1, <1>5 DEF Follows
<1> DEFINE w == conn.wire
           own == OwnParams(w, req)
           e == EndIn(w, own)
           stdin == OwnStream(w, req, "stdin")
           data == OwnStream(w, req, "data")
<1>7. /\ Within(w, in, "no", "none", own, n)
      /\ ParsedAs(Partly(w, own, n, Left(in, "no")), params, <<>>)
  BY <1>1, <1>2, <1>6 DEF InParams
<1>8. /\ own \subseteq 1 .. Len(w) /\ e \in Nat /\ stdin \subseteq 1 .. Len(w)
      /\ \A i \in stdin : i > e
      /\ \A i \in data : i > e
  BY <1>2, StreamsAre
<1> HIDE DEF own, stdin, data
<1>9. /\ Left(in, "no") = 0 /\ in.paddingLen = 0 /\ n = e
      /\ Stands(w, in, "no", n)
      /\ Partly(w, own, n, 0) = ReadIn(w, own, e - 1)
      /\ ReadIn(w, own, e - 1) \in Bytes
  BY <1>1, <1>2, <1>7, <1>8, ClosedIs
<1> HIDE DEF e
<1>10. params = PairsOf(ReadIn(w, own, e - 1))
  BY <1>7, <1>9, ParsedWhole
<1>11. \A i \in 1 .. n : i \notin stdin /\ i \notin data
  BY <1>8, <1>9
<1>12. /\ Within(w, t, "no", "none", stdin, n) /\ Left(t, "no") = 0
       /\ Partly(w, stdin, n, 0) = <<>>
  BY <1>2, <1>3, <1>8, <1>9, <1>11, OpenedWithin, ZenonT(40)
<1>13. body.stdin = <<>> /\ body.data = <<>>
  BY <1>1 DEF Staging
<1>14. e <= n
  BY <1>8, <1>9
<1>15. InStream(w, req, t, "no", "none", params, body, n)
  <2>1. body[t.type] = <<>> /\ t.rdNext = t.stop
    BY <1>3, <1>13
  <2> QED BY <1>3, <1>10, <1>11, <1>12, <1>13, <1>14, <2>1
          DEF InStream, own, e, stdin, data
<1>16. InStream(w, req', t, "no", "none", params, body, n)
  BY <1>4, <1>15, StreamSame
<1> QED BY <1>1, <1>2, <1>6, <1>16 DEF Follows, t

LEMMA FilterFollows ==
  ASSUME ReaderInv, Staging, Follows, StartFilterData
  PROVE  Follows'
<1>1. /\ stage = "serve" /\ stage' = "serve"
      /\ UNCHANGED <<conn, fill, inner, req, pair, params, body>>
  BY DEF StartFilterData, connection, request
<1>2. /\ conn.wire \in Seq(Sent) /\ Sound(in, "no", "none")
      /\ in \in ReaderStates /\ req \in Requests /\ fill = "no"
      /\ inner.kind = "none" /\ in.headerLen = 0
  BY <1>1, ServingIs
<1> DEFINE t == SetReaderType(in, "data")
<1>3. /\ t \in ReaderStates /\ t.rdNext = in.rdNext /\ t.stop = in.rdNext
      /\ t.type = "data" /\ ~t.skip /\ t.contentLen = 0
      /\ t.paddingLen = 0 /\ t.headerLen = 0 /\ ~t.isClosed
      /\ t.errno = in.errno
  BY <1>2, SetTypeIs
<1> HIDE DEF t
<1>4. SUFFICES ASSUME Found', in'.errno = NoError
               PROVE  Follows'
  BY DEF Follows
<1>5. in' = t /\ in.isClosed /\ in.type = "stdin"
  <2>1. in'.errno # NoError \/ (in' = t /\ in.isClosed /\ in.type = "stdin")
    BY <1>2, ErrorIs, ErrorNames DEF StartFilterData, t
  <2> QED BY <1>4, <2>1
<1>6. Found /\ in.errno = NoError
  BY <1>1, <1>3, <1>4, <1>5, FoundSame
<1>7. PICK n \in 1 .. Len(conn.wire) :
        InStream(conn.wire, req, in, fill, inner.kind, params, body, n)
  BY <1>1, <1>6 DEF Follows
<1> DEFINE w == conn.wire
           own == OwnParams(w, req)
           e == EndIn(w, own)
           stdin == OwnStream(w, req, "stdin")
           data == OwnStream(w, req, "data")
<1>8. /\ e <= n /\ Within(w, in, "no", "none", stdin, n)
      /\ params = PairsOf(ReadIn(w, own, e - 1))
      /\ body.stdin = Partly(w, stdin, n, Left(in, "no"))
      /\ body.data = <<>> /\ \A i \in 1 .. n : i \notin data
  BY <1>2, <1>5, <1>7 DEF InStream
<1>9. /\ stdin \subseteq 1 .. Len(w) /\ data \subseteq 1 .. Len(w)
  BY <1>2, StreamsAre
<1> HIDE DEF own, e, stdin, data
<1>10. /\ Left(in, "no") = 0 /\ in.paddingLen = 0
       /\ Stands(w, in, "no", n)
       /\ Partly(w, stdin, n, 0) = ReadIn(w, stdin, EndIn(w, stdin) - 1)
  BY <1>2, <1>5, <1>8, <1>9, ClosedIs
<1>11. /\ Within(w, t, "no", "none", data, n) /\ Left(t, "no") = 0
       /\ Partly(w, data, n, 0) = <<>>
  <2>1. \A i \in 1 .. n : i \notin data
    BY <1>8
  <2> QED BY <1>2, <1>3, <1>9, <1>10, <2>1, OpenedWithin
<1>12. InStream(w, req, t, "no", "none", params, body, n)
  <2>1. body[t.type] = <<>> /\ t.rdNext = t.stop
    BY <1>3, <1>8
  <2> QED BY <1>3, <1>8, <1>10, <1>11, <2>1
          DEF InStream, own, e, stdin, data
<1> QED BY <1>1, <1>2, <1>5, <1>7, <1>12 DEF Follows

LEMMA BytesFront ==
  ASSUME NEW a \in Bytes, NEW c
  PROVE  Front(Append(a, c)) = a
<1>1. a \in Seq(0 .. 255) /\ Len(a) \in Nat
  BY DEF Bytes
<1>2. Front(Append(a, c)) = SubSeq(Append(a, c), 1, Len(a))
  <2>1. Len(Append(a, c)) - 1 = Len(a)
    BY <1>1
  <2> QED BY <2>1 DEF Front
<1> QED BY <1>1, <1>2

LEMMA UnGetFollows ==
  ASSUME ReaderInv, Staging, Follows, UnGetChar
  PROVE  Follows'
<1>1. /\ stage = "serve" /\ stage' = "serve" /\ ~in.isClosed
      /\ in.rdNext # in.stopUnget /\ body[in.type] # <<>>
      /\ body' = [body EXCEPT ![in.type] = Front(body[in.type])]
      /\ UNCHANGED <<conn, fill, inner, req, pair, params>>
  BY DEF UnGetChar, connection
<1>2. /\ conn.wire \in Seq(Sent) /\ in \in ReaderStates /\ fill = "no"
      /\ inner.kind = "none" /\ in.headerLen = 0
      /\ (in.rdNext <= in.stop \/ in.isClosed) /\ in.stopUnget <= in.rdNext
  BY <1>1, ServingIs
<1>3. /\ in' \in ReaderStates /\ in'.rdNext = in.rdNext - 1
      /\ in'.stop = in.stop /\ in'.stopUnget = in.stopUnget
      /\ in'.skip = in.skip /\ in'.contentLen = in.contentLen
      /\ in'.paddingLen = in.paddingLen /\ in'.headerLen = in.headerLen
      /\ in'.isClosed = in.isClosed /\ in'.type = in.type
      /\ in'.errno = in.errno
  BY UnGetSound
<1>4. SUFFICES ASSUME Found, in.errno = NoError
               PROVE  Follows'
  BY <1>1, <1>3, FoundSame DEF Follows
<1>5. PICK n \in 1 .. Len(conn.wire) :
        InStream(conn.wire, req, in, fill, inner.kind, params, body, n)
  BY <1>1, <1>4 DEF Follows
<1> DEFINE w == conn.wire
           own == OwnStream(w, req, in.type)
           data == OwnStream(w, req, "data")
           stdin == OwnStream(w, req, "stdin")
           L == Len(w[n].content)
           left == Left(in, "no")
<1>6. /\ in.type \in {"stdin", "data"} /\ Within(w, in, "no", "none", own, n)
      /\ body[in.type] = Partly(w, own, n, left)
      /\ Kept(w, in, "no", "none", own, n)
      /\ in.type = "stdin" => body.data = <<>>
      /\ in.type = "data" => body.stdin = ReadIn(w, stdin, EndIn(w, stdin) - 1)
  BY <1>1, <1>2, <1>5 DEF InStream
<1>7. /\ n \in own /\ in.paddingLen = w[n].padding
      /\ in.stop + in.contentLen <= in.stopUnget + L
  BY <1>1, <1>6 DEF Kept
<1>8. /\ Stands(w, in, "no", n) /\ ~in.skip
  BY <1>6 DEF Within
<1>9. /\ left \in Nat /\ left <= L
      /\ in.rdNext + left + in.paddingLen = BytesUpTo(w)[n] + 0 + 0
  BY <1>2, <1>8 DEF Stands
<1>10. L \in Nat /\ BytesUpTo(w)[n] \in Nat
  BY <1>2, <1>8, StandsIs
<1>11. /\ in.rdNext \in Nat /\ in.stop \in Nat /\ in.stopUnget \in Nat
       /\ in.contentLen \in Nat /\ in.paddingLen \in Nat
  BY <1>2, ReaderFields
<1>12. left = in.contentLen + (in.stop - in.rdNext)
  BY <1>2, StandsLoop
<1>13. Left(in', "no") = in.contentLen + (in.stop - (in.rdNext - 1))
  BY <1>3, StandsLoop
<1> HIDE DEF left, L, own, data, stdin
<1>14. PICK more \in Nat : /\ more = left + 1 /\ more # 0 /\ more <= L
                           /\ Left(in', "no") = more
  <2>1. in.stopUnget < in.rdNext
    BY <1>1, <1>2, <1>11
  <2>2. left + 1 <= L
    BY <1>7, <1>10, <1>11, <1>12, <2>1, SMTT(20)
  <2>3. Left(in', "no") = left + 1
    BY <1>11, <1>12, <1>13
  <2> QED BY <1>9, <2>2, <2>3
<1>15. Stands(w, in', "no", n)
  <2>1. in'.rdNext + more + in'.paddingLen = BytesUpTo(w)[n] + 0 + 0
    BY <1>3, <1>9, <1>10, <1>11, <1>14
  <2>2. in'.headerLen = 0 /\ ~in'.isClosed /\ in'.paddingLen = w[n].padding
    BY <1>1, <1>2, <1>3, <1>7
  <2> QED BY <1>14, <2>1, <2>2 DEF Stands, L
<1>16. Within(w, in', "no", "none", own, n)
  BY <1>1, <1>3, <1>6, <1>7, <1>8, <1>15 DEF Within
<1>17. Kept(w, in', "no", "none", own, n)
  BY <1>3, <1>7 DEF Kept, L
<1>18. Front(body[in.type]) = Partly(w, own, n, more)
  <2>1. Partly(w, own, n, more) \in Bytes
    BY <1>2, <1>14, PartIs DEF L
  <2>2. Partly(w, own, n, more - 1)
          = Append(Partly(w, own, n, more), w[n].content[L - more + 1])
    BY <1>2, <1>7, <1>14, PartlyMore, SMTT(20) DEF L
  <2>3. more - 1 = left
    BY <1>9, <1>14
  <2> QED BY <1>6, <2>1, <2>2, <2>3, BytesFront
<1>19. /\ body'[in.type] = Partly(w, own, n, more)
       /\ in.type = "stdin" => body'.data = body.data
       /\ in.type = "data" => body'.stdin = body.stdin
  <2>1. body' = [body EXCEPT ![in.type] = Partly(w, own, n, more)]
    BY <1>1, <1>18
  <2>2. body \in Bodies
    BY DEF Staging
  <2> QED BY <1>6, <2>1, <2>2, BodyIs
<1>20. InStream(w, req, in', "no", "none", params, body', n)
  BY <1>2, <1>3, <1>5, <1>6, <1>14, <1>16, <1>17, <1>19
     DEF InStream, own, data, stdin
<1> QED BY <1>1, <1>2, <1>5, <1>20 DEF Follows

-----------------------------------------------------------------------------
(* The invariant is kept.                                                   *)

LEMMA TakeByteFollows ==
  ASSUME ReaderInv, Staging, Follows, TakeByte
  PROVE  Follows'
<1>1. PICK c : /\ c = Byte(in.rdNext + 1)
               /\ BeginByte(c) \/ ParamByte(c) \/ ValueByte(c) \/ GetChar(c)
  BY DEF TakeByte
<1>2. c \in 0 .. 255
  BY <1>1, TakeByteSound, TakenIs
<1> QED BY <1>1, <1>2, BeginByteFollows, ParamByteFollows, ValueByteFollows,
           GetCharFollows

LEMMA FollowsNext ==
  ASSUME ReaderInv, Staging, Follows, [LibraryNext]_libraryVars
  PROVE  Follows'
<1>1. CASE UNCHANGED libraryVars \/ PeerCloses
  BY <1>1, AllStays DEF PeerCloses, libraryVars, connection, request
<1>2. CASE FillLoop
  BY <1>2, FillFollows
<1>3. CASE ReadFails
  BY <1>3, ReadFailsFollows
<1>4. CASE ProcessHeader
  BY <1>4, HeaderFollows, BeginFollows
<1>5. CASE NeedFill
  BY <1>5, NeedFillFollows
<1>6. CASE TakeByte
  BY <1>6, TakeByteFollows
<1>7. CASE BeginCutOff
  BY <1>7, BeginCutOffSound DEF Follows
<1>8. CASE ValuesEnd
  BY <1>8, ValuesEndFollows
<1>9. CASE GetEof
  BY <1>9, StreamStays DEF GetEof, connection, request
<1>10. CASE Accept_r
  <2>1. req \in Requests /\ req' = [req EXCEPT !.begun = FALSE, !.start = 0]
    BY <1>10 DEF Accept_r, ReaderInv
  <2>2. req'.start = 0
    BY <2>1 DEF Requests
  <2> QED BY <2>2 DEF Follows, Found
<1>11. CASE BeginRead
  BY <1>11, BeginReadFollows
<1>12. CASE BeginFails \/ ParamsFail
  <2>1. ~conn'.open
    BY <1>12 DEF BeginFails, ParamsFail, TryAgain, NoConn
  <2> QED BY <2>1 DEF Follows, Found
<1>13. CASE ParamsRead
  BY <1>13, ParamsReadFollows
<1>14. CASE CallGetChar
  BY <1>14, StreamStays DEF CallGetChar, connection, request
<1>15. CASE UnGetChar
  BY <1>15, UnGetFollows
<1>16. CASE StartFilterData
  BY <1>16, FilterFollows
<1>17. CASE Finish
  <2>1. /\ stage = "serve" /\ stage' = "accept"
        /\ req' = [req EXCEPT !.nWriters = 0]
        /\ UNCHANGED <<fill, in, inner, params, body>>
        /\ conn' = conn \/ conn' = NoConn
    BY <1>17 DEF Finish
  <2>2. req'.id = req.id /\ req'.start = req.start
    BY <2>1 DEF ReaderInv, Requests
  <2>3. CASE conn' = conn
    BY <2>1, <2>2, <2>3, StreamStays
  <2>4. CASE conn' = NoConn
    BY <2>4 DEF Follows, Found, NoConn
  <2> QED BY <2>1, <2>3, <2>4
<1>18. CASE \E w \in Writers : PutChar(w) \/ FFlush(w)
  BY <1>18, AllStays DEF PutChar, FFlush, connection, request
<1>19. CASE \E w \in Writers : FClose(w)
  <2>1. /\ stage = "serve" /\ stage' = "serve"
        /\ req' = [req EXCEPT !.nWriters = @ - 1]
        /\ UNCHANGED <<conn, fill, in, inner, params, body>>
    BY <1>19 DEF FClose, connection
  <2>2. req'.id = req.id /\ req'.start = req.start
    BY <2>1 DEF ReaderInv, Requests
  <2> QED BY <2>1, <2>2, StreamStays
<1> QED BY <1>1, <1>2, <1>3, <1>4, <1>5, <1>6, <1>7, <1>8, <1>9, <1>10, <1>11,
           <1>12, <1>13, <1>14, <1>15, <1>16, <1>17, <1>18, <1>19
        DEF LibraryNext, Library, Application

-----------------------------------------------------------------------------
(* The stages of a request.                                                 *)

LEMMA StagingInit == LibraryInit => Staging
<1> SUFFICES ASSUME LibraryInit PROVE Staging
  OBVIOUS
<1>1. <<>> \in Bytes
  BY BytesNone
<1> QED BY <1>1 DEF LibraryInit, Staging, Bodies, Outer

LEMMA StagingReads ==
  ASSUME Staging, UNCHANGED <<stage, req, params, pair, body>>,
         fill # "no" \/ inner.kind # "none",
         inner'.kind = "begin" => inner.kind = "begin",
         in'.errno # NoError /\ stage \in {"begin", "params"} => in'.isClosed
  PROVE  Staging'
BY DEF Staging

LEMMA FillStaging ==
  ASSUME ReaderInv, Staging, FillLoop \/ NeedFill
  PROVE  Staging'
<1>1. CASE FillLoop
  <2>1. fill = "loop" /\ UNCHANGED <<stage, inner, req, params, pair, body>>
    BY <1>1 DEF FillLoop, request
  <2>2. in \in ReaderStates /\ ~in.isClosed
    BY <2>1 DEF ReaderInv, Sound
  <2>3. in'.errno = in.errno
    <3>1. PICK s : /\ \E b \in Nat : s = [in EXCEPT !.buffStop = b]
                   /\ Turned(s, in', fill')
      BY <1>1, FillLoopSound
    <3>2. s.errno = in.errno
      BY <2>2, <3>1 DEF ReaderStates
    <3> QED BY <3>1, <3>2 DEF Turned, Alike
  <2>4. stage \in {"begin", "params"} => in.errno = NoError
    BY <2>2 DEF Staging
  <2> QED BY <2>1, <2>3, <2>4, StagingReads
<1>2. CASE NeedFill
  <2>1. /\ Reading /\ ~in.isClosed
        /\ UNCHANGED <<stage, in, inner, req, params, pair, body>>
    BY <1>2 DEF NeedFill, request
  <2>2. ~(stage = "begin" /\ req.begun)
    BY <2>1 DEF Staging, Reading
  <2> QED BY <2>1, <2>2 DEF Staging
<1> QED BY <1>1, <1>2

LEMMA FailStaging ==
  ASSUME ReaderInv, Staging, ReadFails \/ BeginCutOff
  PROVE  Staging'
<1>1. in \in ReaderStates
  BY DEF ReaderInv, Sound
<1>2. CASE ReadFails
  <2>1. /\ fill = "loop" /\ UNCHANGED <<stage, inner, req, params, pair, body>>
        /\ in' = [SetError(in, "protocol") EXCEPT !.headerLen = 0]
    BY <1>2 DEF ReadFails, request
  <2>2. in'.isClosed
    BY <1>1, <2>1, ErrorIs, ErrorNames DEF ReaderStates
  <2> QED BY <2>1, <2>2, StagingReads
<1>3. CASE BeginCutOff
  <2>1. /\ inner.kind = "begin" /\ inner' = Outer
        /\ UNCHANGED <<stage, req, params, pair, body>>
        /\ in' = [SetError(in, "protocol") EXCEPT !.eorStop = FALSE]
    BY <1>3 DEF BeginCutOff, request
  <2>2. in'.isClosed
    BY <1>1, <2>1, ErrorIs, ErrorNames DEF ReaderStates
  <2> QED BY <2>1, <2>2, StagingReads DEF Outer
<1> QED BY <1>2, <1>3

LEMMA HeaderStaging ==
  ASSUME ReaderInv, Staging, ProcessHeader
  PROVE  Staging'
<1>1. fill = "header" /\ UNCHANGED <<stage, pair, params, body>>
  BY DEF ProcessHeader
<1>2. in \in ReaderStates /\ ~in.isClosed /\ inner.kind = "none"
  BY <1>1, InnerSame DEF ReaderInv, Sound
<1>3. PICK h \in Headers :
        \/ BadHeader(h) \/ BeginRequest(h) \/ CantMultiplex(h)
        \/ ManagementRecord(h) \/ SkippedRecord(h) \/ StreamRecord(h)
  BY DEF ProcessHeader
<1> DEFINE s == With(h)
<1>4. s \in ReaderStates /\ s.errno = in.errno
  BY <1>1, WithIs
<1> HIDE DEF s
<1>5. stage \in {"begin", "params"} => in.errno = NoError
  BY <1>2 DEF Staging
<1>6. ~(stage = "begin" /\ req.begun)
  BY <1>1 DEF Staging
<1>7. in'.errno # NoError /\ stage \in {"begin", "params"} => in'.isClosed
  <2>1. \/ in' = SetError(in, "version") \/ in' = SetError(s, "protocol")
        \/ in' = SetError(s, "os")
        \/ in' = s \/ in' = [s EXCEPT !.skip = TRUE]
        \/ in' = [s EXCEPT !.eorStop = TRUE]
        \/ in' = [s EXCEPT !.stop = in.rdNext, !.isClosed = TRUE]
    BY <1>3 DEF BadHeader, BeginRequest, CantMultiplex, ManagementRecord,
                SkippedRecord, StreamRecord, ReadsRecord, Broken, s
  <2>2. CASE \/ in' = SetError(in, "version") \/ in' = SetError(s, "protocol")
             \/ in' = SetError(s, "os")
    <3>1. PICK v \in {in, s} : \E e \in {"version", "protocol", "os"} :
                             in' = SetError(v, e)
      BY <2>2
    <3>2. PICK e \in {"version", "protocol", "os"} : in' = SetError(v, e)
      BY <3>1
    <3>3. v \in ReaderStates /\ e \in Errors /\ e # NoError
      BY <1>2, <1>4, ErrorNames
    <3> QED BY <3>2, <3>3, ErrorIs
  <2>3. CASE \/ in' = s \/ in' = [s EXCEPT !.skip = TRUE]
             \/ in' = [s EXCEPT !.eorStop = TRUE]
             \/ in' = [s EXCEPT !.stop = in.rdNext, !.isClosed = TRUE]
    <3>1. in'.errno = s.errno
      BY <1>4, <2>3 DEF ReaderStates
    <3> QED BY <1>4, <1>5, <3>1
  <2> QED BY <2>1, <2>2, <2>3
<1>8. CASE ~BeginRequest(h)
  <2>1. req' = req /\ (inner' = inner \/ inner' = [Outer EXCEPT !.kind = "values"])
    BY <1>3, <1>8 DEF BadHeader, CantMultiplex, ManagementRecord,
                      SkippedRecord, StreamRecord, ReadsRecord
  <2>2. inner'.kind # "begin"
    BY <1>2, <2>1 DEF Outer
  <2> QED BY <1>1, <1>7, <2>1, <2>2, StagingReads
<1>9. CASE BeginRequest(h)
  <2>1. /\ h.id # 0 /\ ~req.begun
        /\ req' = [req EXCEPT !.id = h.id, !.start = RecordRead]
    BY <1>9 DEF BeginRequest
  <2>2. req'.id # 0 /\ ~req'.begun
    BY <2>1 DEF ReaderInv, Requests
  <2> QED BY <1>1, <1>7, <2>1, <2>2 DEF Staging
<1> QED BY <1>8, <1>9

LEMMA TakeStaging ==
  ASSUME ReaderInv, Staging, TakeByte
  PROVE  Staging'
<1>1. PICK c : /\ c = Byte(in.rdNext + 1)
               /\ BeginByte(c) \/ ParamByte(c) \/ ValueByte(c) \/ GetChar(c)
  BY DEF TakeByte
<1>2. Reading /\ ~in.isClosed /\ in.rdNext # in.stop
  BY TakeByteSound
<1>3. /\ Taken \in ReaderStates /\ Taken.errno = in.errno
      /\ c \in 0 .. 255
  BY <1>1, <1>2, TakenIs
<1>4. fill = "no" /\ req \in Requests /\ IsInner(inner)
  BY <1>2, ReadingIs
<1>5. stage \in {"begin", "params"} => in.errno = NoError
  BY <1>2 DEF Staging
<1>6. CASE BeginByte(c)
  <2>1. /\ inner.kind = "begin" /\ UNCHANGED <<stage, fill, params, pair, body>>
        /\ \/ /\ req' = req /\ in' = Taken
              /\ inner' = [inner EXCEPT !.got = Append(@, c)]
           \/ /\ req' = [req EXCEPT !.keep = c % 2 = 1, !.role = c \div 2,
                                    !.begun = TRUE]
              /\ inner' = Outer /\ in' = [Taken EXCEPT !.eorStop = FALSE]
    BY <1>6 DEF BeginByte
  <2>2. in'.errno = in.errno
    BY <1>3, <2>1 DEF ReaderStates
  <2>3. req'.id = req.id /\ req'.start = req.start
    BY <1>4, <2>1 DEF Requests
  <2>4. ~req.begun /\ stage \notin {"params", "serve", "getchar"}
    BY <2>1 DEF Staging
  <2>5. CASE req' = req
    <3>1. inner' = [inner EXCEPT !.got = Append(@, c)]
      BY <1>4, <2>1, <2>4, <2>5 DEF Requests
    <3>2. inner'.kind = "begin"
      BY <1>4, <2>1, <3>1 DEF IsInner
    <3> QED BY <1>5, <2>1, <2>2, <2>4, <2>5, <3>2 DEF Staging
  <2>6. CASE inner' = Outer
    <3>1. inner'.kind = "none" /\ fill' = "no"
      BY <1>4, <2>1, <2>6 DEF Outer
    <3> QED BY <1>5, <2>1, <2>2, <2>3, <2>4, <3>1 DEF Staging
  <2> QED BY <2>1, <2>5, <2>6
<1>7. CASE ParamByte(c)
  <2>1. /\ inner.kind = "none" /\ stage = "params" /\ in' = Taken
        /\ UNCHANGED <<stage, inner, req, body>>
    BY <1>7 DEF ParamByte
  <2> QED BY <1>3, <1>5, <2>1 DEF Staging
<1>8. CASE ValueByte(c)
  <2>1. /\ inner.kind = "values" /\ in' = Taken
        /\ UNCHANGED <<stage, req, params, pair, body>>
    BY <1>8 DEF ValueByte, request
  <2>2. inner'.kind = "values"
    BY <1>4, <1>8, <2>1 DEF ValueByte, IsInner
  <2> QED BY <1>3, <1>5, <2>1, <2>2, StagingReads
<1>9. CASE GetChar(c)
  <2>1. /\ inner.kind = "none" /\ stage = "getchar" /\ stage' = "serve"
        /\ body' = [body EXCEPT ![in.type] = Append(@, c)]
        /\ UNCHANGED <<inner, req>>
    BY <1>9 DEF GetChar
  <2>2. body' \in Bodies
    <3>1. body \in Bodies
      BY DEF Staging
    <3>2. CASE in.type \in {"stdin", "data"}
      <4>1. PICK y \in {"stdin", "data"} : y = in.type
        BY <3>2
      <4>2. PICK x : x = Append(body[y], c)
        OBVIOUS
      <4>3. body' = [body EXCEPT ![y] = x]
        BY <2>1, <4>1, <4>2
      <4>4. body[y] \in Bytes
        BY <3>1, <4>3, BodyIs
      <4>5. x \in Bytes
        BY <1>3, <4>2, <4>4, BytesAppend
      <4> QED BY <3>1, <4>3, <4>5, BodyIs
    <3>3. CASE in.type \notin {"stdin", "data"}
      BY <2>1, <3>1, <3>3 DEF Bodies
    <3> QED BY <3>2, <3>3
  <2> QED BY <2>1, <2>2 DEF Staging
<1> QED BY <1>1, <1>6, <1>7, <1>8, <1>9

LEMMA ValuesStaging ==
  ASSUME ReaderInv, Staging, ValuesEnd
  PROVE  Staging'
<1>1. /\ inner.kind = "values" /\ inner' = Outer
      /\ UNCHANGED <<stage, req, params, pair, body>>
  BY DEF ValuesEnd, request
<1> DEFINE t == [in EXCEPT !.eorStop = FALSE, !.isClosed = FALSE]
<1>2. in \in ReaderStates
  BY DEF ReaderInv, Sound
<1>3. t \in ReaderStates /\ t.errno = in.errno
  BY <1>2, OpenedIs
<1>4. \/ in' = SetError(t, "protocol") \/ in' = SetError(t, "os")
      \/ in' = t /\ in.errno = NoError
  BY DEF ValuesEnd, Broken
<1> HIDE DEF t
<1>5. in'.errno # NoError => in'.isClosed
  BY <1>3, <1>4, ErrorIs, ErrorNames, SMTT(20)
<1> QED BY <1>1, <1>5, StagingReads DEF Outer

LEMMA UnGetStaging ==
  ASSUME ReaderInv, Staging, UnGetChar
  PROVE  Staging'
<1>1. /\ stage = "serve" /\ stage' = "serve" /\ body[in.type] # <<>>
      /\ in.type \in DOMAIN body
      /\ body' = [body EXCEPT ![in.type] = Front(body[in.type])]
      /\ UNCHANGED <<inner, req>>
  BY DEF UnGetChar
<1>2. body \in Bodies
  BY DEF Staging
<1>3. PICK y \in {"stdin", "data"} : y = in.type
  BY <1>1, <1>2 DEF Bodies
<1>4. body' = [body EXCEPT ![y] = Front(body[y])]
  BY <1>1, <1>3
<1>5. body[y] \in Bytes
  BY <1>2, <1>4, BodyIs
<1>6. Front(body[y]) \in Bytes
  <2>1. Len(body[y]) \in Nat
    BY <1>5, BytesLen
  <2> DEFINE m == Len(body[y])
  <2>2. PICK k \in Int : k = Len(body[y]) - 1
    <3>1. m \in Nat
      BY <2>1
    <3> HIDE DEF m
    <3>2. m - 1 \in Int
      BY <3>1
    <3> QED BY <3>2 DEF m
  <2>3. k <= Len(body[y]) /\ 1 \in Nat
    BY <2>1, <2>2
  <2>4. SubSeq(body[y], 1, k) \in Bytes
    BY <1>5, <2>3, CutBytes
  <2> QED BY <2>2, <2>4 DEF Front
<1>7. body' \in Bodies
  BY <1>2, <1>4, <1>6, BodyIs
<1> QED BY <1>1, <1>7 DEF Staging

LEMMA StagingNext ==
  ASSUME ReaderInv, Staging, [LibraryNext]_libraryVars
  PROVE  Staging'
<1>1. CASE UNCHANGED libraryVars \/ PeerCloses
  BY <1>1 DEF PeerCloses, libraryVars, request, Staging
<1>2. CASE FillLoop \/ NeedFill
  BY <1>2, FillStaging
<1>3. CASE ReadFails \/ BeginCutOff
  BY <1>3, FailStaging
<1>4. CASE ProcessHeader
  BY <1>4, HeaderStaging
<1>5. CASE TakeByte
  BY <1>5, TakeStaging
<1>6. CASE ValuesEnd
  BY <1>6, ValuesStaging
<1>7. CASE GetEof \/ CallGetChar \/ StartFilterData
  BY <1>7 DEF GetEof, CallGetChar, StartFilterData, request, Staging
<1>8. CASE Accept_r
  <2>1. /\ stage' = "begin" /\ inner' = Outer
        /\ req' = [req EXCEPT !.begun = FALSE, !.start = 0]
        /\ pair' = <<>> /\ params' = <<>>
        /\ body' = [stdin |-> <<>>, data |-> <<>>]
        /\ \E at : in' = NewReader(at)
    BY <1>8 DEF Accept_r
  <2>2. req'.start = 0 /\ ~req'.begun
    BY <2>1 DEF ReaderInv, Requests
  <2>3. in'.errno = NoError /\ inner'.kind = "none"
    BY <2>1 DEF NewReader, Outer
  <2>4. body' \in Bodies
    BY <2>1, BytesNone DEF Bodies
  <2> QED BY <2>1, <2>2, <2>3, <2>4 DEF Staging
<1>9. CASE BeginRead
  <2>1. /\ stage = "begin" /\ req.begun /\ stage' = "params"
        /\ inner.kind = "none" /\ in' = SetReaderType(in, "params")
        /\ UNCHANGED <<inner, req, pair, params, body>>
    BY <1>9 DEF BeginRead, request
  <2>2. in \in ReaderStates
    BY DEF ReaderInv, Sound
  <2>3. in'.errno = in.errno
    BY <2>1, <2>2 DEF SetReaderType, ReaderStates
  <2> QED BY <2>1, <2>3 DEF Staging
<1>10. CASE BeginFails \/ ParamsFail
  BY <1>10 DEF BeginFails, ParamsFail, TryAgain, request, Staging
<1>11. CASE ParamsRead
  <2>1. /\ stage = "params" /\ stage' = "serve"
        /\ req' = [req EXCEPT !.nWriters = 2] /\ UNCHANGED <<inner, body>>
    BY <1>11 DEF ParamsRead
  <2>2. req'.start = req.start /\ req'.id = req.id /\ req'.begun = req.begun
    BY <2>1 DEF ReaderInv, Requests
  <2> QED BY <2>1, <2>2 DEF Staging
<1>12. CASE UnGetChar
  BY <1>12, UnGetStaging
<1>13. CASE Finish \/ \E w \in Writers : FClose(w)
  <2>1. /\ stage = "serve" /\ stage' \in {"serve", "accept"}
        /\ \E k : req' = [req EXCEPT !.nWriters = k]
        /\ UNCHANGED <<inner, body>>
    BY <1>13 DEF Finish, FClose
  <2>2. req'.start = req.start /\ req'.id = req.id /\ req'.begun = req.begun
    BY <2>1 DEF ReaderInv, Requests
  <2> QED BY <2>1, <2>2 DEF Staging
<1>14. CASE \E w \in Writers : PutChar(w) \/ FFlush(w)
  BY <1>14 DEF PutChar, FFlush, request, Staging
<1> QED BY <1>1, <1>2, <1>3, <1>4, <1>5, <1>6, <1>7, <1>8, <1>9, <1>10, <1>11,
           <1>12, <1>13, <1>14
        DEF LibraryNext, Library, Application

-----------------------------------------------------------------------------
(* The parameters are the environment, or the first of it.                  *)

LEMMA PrefixSelf ==
  ASSUME NEW S, NEW s \in Seq(S)
  PROVE  IsPrefix(s, s)
BY DEF IsPrefix

LEMMA EnvironmentIs ==
  ASSUME NEW w \in Seq(Sent), NEW r \in Requests
  PROVE  IsPrefix(EnvironmentOf(w, r), EnvironmentOf(w, r))
<1> DEFINE own == OwnParams(w, r)
           e == EndIn(w, own)
           b == ReadIn(w, own, e - 1)
<1>1. own \subseteq 1 .. Len(w)
  BY StreamsAre
<1> HIDE DEF own
<1>2. e \in Nat /\ e > 0 /\ e <= Len(w) + 1 /\ Len(w) \in Nat
  <2>1. Len(w) \in Nat
    OBVIOUS
  <2> QED BY <1>1, <2>1, EndIs
<1> HIDE DEF e
<1>3. PICK k \in 0 .. Len(w) : k = e - 1
  BY <1>2
<1>4. b \in Bytes
  BY <1>3, ReadType
<1> HIDE DEF b
<1>5. PairsOf(b) \in Seq(Pairs)
  BY <1>4, PairsTyped
<1> QED BY <1>5, PrefixSelf DEF EnvironmentOf, own, e, b

LEMMA ParamsPrefix ==
  ASSUME NEW w \in Seq(Sent), NEW r \in Requests, NEW s \in ReaderStates,
         NEW f, NEW k, NEW ps, NEW p, NEW n, InParams(w, r, s, f, k, ps, p, n)
  PROVE  IsPrefix(ps, EnvironmentOf(w, r))
<1> DEFINE own == OwnParams(w, r)
           e == EndIn(w, own)
           b == ReadIn(w, own, e - 1)
           left == Left(s, f)
<1>1. /\ Stands(w, s, f, n) /\ n <= e
      /\ ParsedAs(Partly(w, own, n, left), ps, p)
  BY DEF InParams, Within
<1>2. own \subseteq 1 .. Len(w)
  BY StreamsAre
<1>3. n \in 1 .. Len(w) /\ left \in Nat /\ left <= Len(w[n].content)
  BY <1>1, StandsIs
<1> HIDE DEF own, left
<1>4. Goes(Partly(w, own, n, left), b)
  BY <1>1, <1>2, <1>3, PartlyPrefix
<1>5. Partly(w, own, n, left) \in Bytes
  BY <1>3, PartIs
<1> HIDE DEF b, e
<1>6. IsPrefix(ps, PairsOf(b))
  BY <1>1, <1>4, <1>5, ParsedPrefix
<1> QED BY <1>6 DEF EnvironmentOf, own, b, e

\* A step that leaves an error, and no new request.
LEMMA ErrorKeeps ==
  ASSUME ReaderInv, Staging, [LibraryNext]_libraryVars, in'.errno # NoError,
         stage' # "begin", conn'.open
  PROVE  /\ UNCHANGED <<conn, params>> /\ stage # "begin"
         /\ req'.id = req.id /\ req'.start = req.start
<1>1. CASE UNCHANGED libraryVars \/ PeerCloses
  BY <1>1 DEF PeerCloses, libraryVars, request, connection
<1>2. CASE \/ FillLoop \/ ReadFails \/ NeedFill \/ BeginCutOff \/ ValuesEnd
           \/ GetEof \/ CallGetChar \/ StartFilterData \/ UnGetChar
  BY <1>2 DEF FillLoop, ReadFails, NeedFill, BeginCutOff, ValuesEnd, GetEof,
              CallGetChar, StartFilterData, UnGetChar, request, connection
<1>3. CASE ProcessHeader
  <2>1. fill = "header" /\ UNCHANGED <<conn, stage, params>>
    BY <1>3 DEF ProcessHeader, connection
  <2>2. stage \in {"params", "serve", "getchar"}
    BY <2>1 DEF ReaderInv, Staged, Stages
  <2>3. req.begun
    BY <2>2 DEF Staging
  <2>4. req' = req
    BY <1>3, <2>3 DEF ProcessHeader, BadHeader, BeginRequest, CantMultiplex,
                      ManagementRecord, SkippedRecord, StreamRecord
  <2> QED BY <2>1, <2>2, <2>4
<1>4. CASE TakeByte
  <2>1. PICK c : BeginByte(c) \/ ParamByte(c) \/ ValueByte(c) \/ GetChar(c)
    BY <1>4 DEF TakeByte
  <2>2. ~in.isClosed /\ in.rdNext # in.stop /\ Reading
    BY <1>4, TakeByteSound
  <2>3. ~ParamByte(c)
    <3>1. SUFFICES ASSUME ParamByte(c) PROVE FALSE
      OBVIOUS
    <3>2. in' = Taken /\ stage = "params"
      BY <3>1 DEF ParamByte
    <3>3. in.errno # NoError
      BY <2>2, <3>2, TakenIs
    <3> QED BY <2>2, <3>2, <3>3 DEF Staging
  <2>4. UNCHANGED <<conn, params>> /\ stage # "begin"
    BY <2>1, <2>3 DEF BeginByte, ValueByte, GetChar, request, connection
  <2>5. req' = req \/ \E a, b : req' = [req EXCEPT !.keep = a, !.role = b,
                                                   !.begun = TRUE]
    BY <2>1, <2>3, ZenonT(40) DEF BeginByte, ValueByte, GetChar, request
  <2>6. req'.id = req.id /\ req'.start = req.start
    BY <2>5 DEF ReaderInv, Requests
  <2> QED BY <2>4, <2>6
<1>5. CASE Accept_r
  BY <1>5 DEF Accept_r
<1>6. CASE BeginRead
  <2>1. /\ stage = "begin" /\ req.begun /\ in' = SetReaderType(in, "params")
        /\ in \in ReaderStates
    BY <1>6 DEF BeginRead, ReaderInv, Sound
  <2>2. in'.errno = in.errno
    BY <2>1 DEF SetReaderType, ReaderStates
  <2> QED BY <2>1, <2>2 DEF Staging
<1>7. CASE BeginFails \/ ParamsFail
  BY <1>7 DEF BeginFails, ParamsFail, TryAgain, NoConn
<1>8. CASE ParamsRead
  <2>1. /\ stage = "params" /\ UNCHANGED <<conn, params>>
        /\ req' = [req EXCEPT !.nWriters = 2]
    BY <1>8 DEF ParamsRead, connection
  <2> QED BY <2>1 DEF ReaderInv, Requests
<1>9. CASE Finish \/ \E w \in Writers : FClose(w)
  <2>1. /\ stage = "serve" /\ UNCHANGED params
        /\ \E k : req' = [req EXCEPT !.nWriters = k]
        /\ conn' = conn \/ conn' = NoConn
    BY <1>9 DEF Finish, FClose, connection
  <2>2. conn' = conn
    BY <2>1 DEF NoConn
  <2> QED BY <2>1, <2>2 DEF ReaderInv, Requests
<1>10. CASE \E w \in Writers : PutChar(w) \/ FFlush(w)
  BY <1>10 DEF PutChar, FFlush, request, connection
<1> QED BY <1>1, <1>2, <1>3, <1>4, <1>5, <1>6, <1>7, <1>8, <1>9, <1>10
        DEF LibraryNext, Library, Application

LEMMA PrefixedNext ==
  ASSUME ReaderInv, Staging, Prefixed, [LibraryNext]_libraryVars,
         ReaderInv', Follows'
  PROVE  Prefixed'
<1> SUFFICES ASSUME Found', stage' # "begin"
             PROVE  IsPrefix(params', EnvironmentOf(conn'.wire, req'))
  BY DEF Prefixed
<1>1. /\ conn'.open /\ conn'.wire \in Seq(Sent) /\ req' \in Requests
      /\ in' \in ReaderStates
      /\ stage' \in {"params", "serve", "getchar", "accept"}
  BY DEF Found, ReaderInv, Connections, Sound, Staged, Stages
<1>2. CASE in'.errno = NoError
  <2>1. PICK n :
          /\ stage' = "params" =>
               InParams(conn'.wire, req', in', fill', inner'.kind, params',
                        pair', n)
          /\ stage' \in {"serve", "getchar", "accept"} =>
               InStream(conn'.wire, req', in', fill', inner'.kind, params',
                        body', n)
    BY <1>2 DEF Follows
  <2>2. CASE stage' = "params"
    BY <1>1, <2>1, <2>2, ParamsPrefix
  <2>3. CASE stage' \in {"serve", "getchar", "accept"}
    <3>1. params' = EnvironmentOf(conn'.wire, req')
      BY <2>1, <2>3 DEF InStream, EnvironmentOf
    <3> QED BY <1>1, <3>1, EnvironmentIs
  <2> QED BY <1>1, <2>2, <2>3
<1>3. CASE in'.errno # NoError
  <2>1. /\ UNCHANGED <<conn, params>> /\ stage # "begin"
        /\ req'.id = req.id /\ req'.start = req.start
    BY <1>1, <1>3, ErrorKeeps
  <2>2. Found
    BY <2>1, FoundSame
  <2>3. IsPrefix(params, EnvironmentOf(conn.wire, req))
    BY <2>1, <2>2 DEF Prefixed
  <2>4. EnvironmentOf(conn.wire, req') = EnvironmentOf(conn.wire, req)
    BY <2>1 DEF EnvironmentOf, OwnParams
  <2> QED BY <2>1, <2>3, <2>4
<1> QED BY <1>2, <1>3

-----------------------------------------------------------------------------
(* What the application is given.                                           *)

LEMMA SameStreams ==
  ASSUME NEW type, NEW from
  PROVE  LET own == OwnIn(conn.wire, req.id, type, from)
         IN  /\ EndOf(type, from) = EndIn(conn.wire, own)
             /\ Chars(type, from)
                  = ReadIn(conn.wire, own, EndIn(conn.wire, own) - 1)
<1>1. Own(type, from) = OwnIn(conn.wire, req.id, type, from)
  BY DEF Own, OwnIn
<1>2. EndOf(type, from) = EndIn(conn.wire, Own(type, from))
  BY DEF EndOf, EndIn
<1>3. Chars(type, from)
        = ReadIn(conn.wire, Own(type, from), EndOf(type, from) - 1)
  BY DEF Chars, ReadIn, Cut
<1> QED BY <1>1, <1>2, <1>3

LEMMA WholeIs ==
  ASSUME NEW w \in Seq(Sent), NEW own, own \subseteq 1 .. Len(w)
  PROVE  ReadIn(w, own, EndIn(w, own) - 1) \in Bytes
<1> DEFINE e == EndIn(w, own)
<1>1. Len(w) \in Nat
  OBVIOUS
<1>2. e \in Nat /\ e > 0 /\ e <= Len(w) + 1
  BY EndIs
<1> HIDE DEF e
<1>3. PICK k \in 0 .. Len(w) : k = e - 1
  BY <1>1, <1>2
<1>4. ReadIn(w, own, k) \in Bytes
  BY ReadType
<1> QED BY <1>3, <1>4 DEF e

\* A stream of which Within holds has been read in part, at its end in whole.
LEMMA WithinRead ==
  ASSUME NEW w \in Seq(Sent), NEW s \in ReaderStates, NEW f, NEW k, NEW n,
         NEW own, own \subseteq 1 .. Len(w), Within(w, s, f, k, own, n)
  PROVE  LET read == Partly(w, own, n, Left(s, f))
             whole == ReadIn(w, own, EndIn(w, own) - 1)
         IN  IsPrefix(read, whole) /\ (s.isClosed /\ k = "none" => read = whole)
<1> DEFINE left == Left(s, f)
           e == EndIn(w, own)
           read == Partly(w, own, n, left)
           whole == ReadIn(w, own, e - 1)
<1>1. /\ Stands(w, s, f, n) /\ n <= e
      /\ (s.isClosed /\ k = "none" => n = e)
  BY DEF Within
<1>2. n \in 1 .. Len(w) /\ left \in Nat /\ left <= Len(w[n].content)
  BY <1>1, StandsIs
<1> HIDE DEF left
<1>3. Goes(read, whole) /\ whole \in Bytes
  BY <1>1, <1>2, PartlyPrefix
<1>4. read \in Bytes
  BY <1>2, PartIs
<1>5. n = e => read = whole
  BY <1>2, PartlyEnd
<1> HIDE DEF read, whole, e
<1>6. IsPrefix(read, whole)
  BY <1>3, <1>4, GoesPrefix
<1> QED BY <1>1, <1>5, <1>6 DEF left, read, whole, e

LEMMA RequestIsIntact ==
  ASSUME ReaderInv, Staging, Follows, Prefixed
  PROVE  RequestIntact
<1> DEFINE w == conn.wire
           end == EndOf("params", req.start)
<1> SUFFICES ASSUME Serving
             PROVE  /\ IsPrefix(params, Environment)
                    /\ in.errno = NoError =>
                         /\ params = Environment
                         /\ \A type \in DOMAIN body :
                              /\ IsPrefix(body[type], Chars(type, end))
                              /\ in.type = type /\ in.isClosed
                                   /\ inner.kind = "none" =>
                                   body[type] = Chars(type, end)
  BY DEF RequestIntact
<1>1. stage \in {"serve", "getchar"} /\ Found
  BY DEF Serving, Found, ReaderInv, Staged
<1>2. /\ w \in Seq(Sent) /\ req \in Requests /\ in \in ReaderStates
      /\ body \in Bodies
  BY <1>1, FoundIs DEF Staging
<1>3. end = EndIn(w, OwnParams(w, req)) /\ Environment = EnvironmentOf(w, req)
  BY SameStreams DEF Environment, EnvironmentOf, OwnParams
<1> HIDE DEF end
<1>4. IsPrefix(params, Environment)
  BY <1>1, <1>3 DEF Prefixed
<1>5. ASSUME in.errno = NoError
      PROVE  /\ params = Environment
             /\ \A type \in DOMAIN body :
                  /\ IsPrefix(body[type], Chars(type, end))
                  /\ in.type = type /\ in.isClosed /\ inner.kind = "none" =>
                       body[type] = Chars(type, end)
  <2>1. PICK n : InStream(w, req, in, fill, inner.kind, params, body, n)
    BY <1>1, <1>5 DEF Follows
  <2>2. params = Environment
    BY <1>3, <2>1 DEF InStream, EnvironmentOf
  <2>3. ASSUME NEW type \in DOMAIN body
        PROVE  /\ IsPrefix(body[type], Chars(type, end))
               /\ in.type = type /\ in.isClosed /\ inner.kind = "none" =>
                    body[type] = Chars(type, end)
    <3> DEFINE own == OwnStream(w, req, type)
               whole == ReadIn(w, own, EndIn(w, own) - 1)
    <3>1. type \in {"stdin", "data"} /\ body.stdin \in Bytes
      BY <1>2 DEF Bodies
    <3>2. Chars(type, end) = whole
      BY <1>3, SameStreams DEF OwnStream
    <3>3. own \subseteq 1 .. Len(w)
      BY <1>2, StreamsAre
    <3>4. whole \in Bytes
      BY <1>2, <3>3, WholeIs
    <3>5. CASE in.type = type
      <4>1. /\ Within(w, in, fill, inner.kind, own, n)
            /\ body[type] = Partly(w, own, n, Left(in, fill))
        BY <2>1, <3>5 DEF InStream
      <4> QED BY <1>2, <3>2, <3>3, <4>1, WithinRead
    <3>6. CASE in.type # type
      <4>1. \/ type = "data" /\ body[type] = <<>>
            \/ type = "stdin" /\ body[type] = whole
        BY <2>1, <3>1, <3>6 DEF InStream
      <4> HIDE DEF whole
      <4>2. Goes(<<>>, whole) /\ Goes(whole, whole) /\ <<>> \in Bytes
        BY <3>4, BytesAlone, BytesNone, GoesSame DEF Goes
      <4>3. IsPrefix(<<>>, whole) /\ IsPrefix(whole, whole)
        BY <3>4, <4>2, GoesPrefix
      <4> QED BY <3>2, <3>6, <4>1, <4>3
    <3> QED BY <3>5, <3>6
  <2> QED BY <2>2, <2>3
<1> QED BY <1>4, <1>5

LEMMA NextIsFound ==
  ASSUME ReaderInv, Staging, Follows
  PROVE  NextRequestFound
<1> DEFINE w == conn.wire
           end == EndOf("params", req.start)
           n == EndOf(in.type, end)
<1> SUFFICES ASSUME stage = "accept", conn.open, in.isClosed, req.start # 0,
                    Plain
             PROVE  /\ n <= Len(w) /\ in.rdNext = BytesBefore[n]
                    /\ n = Len(w) => in.buffStop = Total
  BY DEF NextRequestFound
<1>1. Found /\ in.errno = NoError /\ fill = "no" /\ inner.kind = "none"
  BY DEF Found, ReaderInv, Staged
<1>2. /\ w \in Seq(Sent) /\ req \in Requests /\ in \in ReaderStates
      /\ in.rdNext <= in.buffStop /\ in.headerLen = 0
      /\ in.buffStop <= Sizes(w)
  <2>1. Sound(in, "no", "none") /\ Held(conn, in)
    BY <1>1 DEF ReaderInv
  <2>2. in.headerLen \in Nat /\ ~(in.headerLen > 0) /\ in.rdNext <= in.buffStop
    BY <2>1, ReaderFields DEF Sound
  <2> QED BY <1>1, <2>1, <2>2, FoundIs DEF Held
<1> DEFINE own == OwnStream(w, req, in.type)
<1>3. n = EndIn(w, own) /\ own \subseteq 1 .. Len(w)
  <2>1. end = EndIn(w, OwnParams(w, req))
    BY SameStreams DEF OwnParams
  <2>2. own \subseteq 1 .. Len(w)
    BY <1>2, StreamsAre
  <2>3. n = EndIn(w, OwnIn(w, req.id, in.type, end))
    BY SameStreams
  <2> QED BY <2>1, <2>2, <2>3 DEF OwnStream
<1>4. PICK m : InStream(w, req, in, "no", "none", params, body, m)
  BY <1>1 DEF Follows
<1>5. Within(w, in, "no", "none", own, m)
  BY <1>4 DEF InStream
<1> HIDE DEF own, n
<1>6. /\ Left(in, "no") = 0 /\ in.paddingLen = 0 /\ m = EndIn(w, own)
      /\ Stands(w, in, "no", m)
  BY <1>2, <1>3, <1>5, ClosedIs
<1>7. m = n /\ m \in 1 .. Len(w) /\ BytesUpTo(w)[m] \in Nat
  BY <1>2, <1>3, <1>6, StandsIs
<1>8. in.rdNext \in Nat /\ in.buffStop \in Nat
  BY <1>2, ReaderFields
<1>9. in.rdNext = BytesUpTo(w)[m]
  <2>1. in.rdNext + 0 + 0 = BytesUpTo(w)[m] + 0 + 0
    BY <1>2, <1>6 DEF Stands
  <2> QED BY <1>7, <1>8, <2>1
<1>10. n = Len(w) => in.buffStop = Sizes(w)
  <2>1. n = Len(w) => Sizes(w) = in.rdNext
    BY <1>7, <1>9 DEF Sizes
  <2> QED BY <1>2, <1>8, <2>1
<1> QED BY <1>7, <1>9, <1>10, TotalIs

-----------------------------------------------------------------------------
LEMMA LibrarySafe ==
  LibrarySpec =>
    [](LibraryInv /\ ReaderInv /\ Staging /\ Follows /\ Prefixed)
<1> DEFINE Inv == LibraryInv /\ ReaderInv /\ Staging /\ Follows /\ Prefixed
<1>1. LibraryInit => Inv
  <2>1. LibraryInit => Follows /\ Prefixed
    BY DEF LibraryInit, NoConn, Follows, Prefixed, Found
  <2> QED BY <2>1, LibraryInvInit, ReaderInvInit, StagingInit
<1>2. Inv /\ [LibraryNext]_libraryVars => Inv'
  <2> SUFFICES ASSUME Inv, [LibraryNext]_libraryVars PROVE Inv'
    OBVIOUS
  <2>1. LibraryInv'
    BY LibraryInvNext
  <2>2. ReaderInv'
    BY ReaderInvNext
  <2>3. Staging' /\ Follows'
    BY StagingNext, FollowsNext
  <2>4. Prefixed'
    BY <2>2, <2>3, PrefixedNext
  <2> QED BY <2>1, <2>2, <2>3, <2>4
<1> QED BY <1>1, <1>2, PTL DEF LibrarySpec

(* What the application is given is what the web server sent: the parameters *)
(* are the environment, or the first of it and an error that can be found,   *)
(* and what has been read of STDIN and DATA is the first of each, the whole  *)
(* at its end; the reader's pointers stay in the buffer.                     *)
(* FCGX_Accept_r, ReadParams and FillBuffProc, fcgiapp.c.                    *)
THEOREM RequestServed == LibrarySpec => []RequestArrives
<1>1. /\ LibraryInv /\ ReaderInv /\ Staging /\ Follows /\ Prefixed
      => RequestArrives
  BY ReaderInvTyped, RequestIsIntact DEF RequestArrives
<1> QED BY <1>1, LibrarySafe, PTL

(* A kept connection is left with the reader behind the end of the last      *)
(* stream that the application read to its end, so that the next request is  *)
(* found there.  FCGX_Finish_r and FillBuffProc, fcgiapp.c.                  *)
THEOREM NextFound == LibrarySpec => []NextRequestFound
<1>1. /\ LibraryInv /\ ReaderInv /\ Staging /\ Follows /\ Prefixed
      => NextRequestFound
  BY NextIsFound
<1> QED BY <1>1, LibrarySafe, PTL

-----------------------------------------------------------------------------
(* Printf: what a conversion takes fits where sprintf() writes it.          *)

LEMMA ItemIs ==
  ASSUME NEW item \in Items
  PROVE  /\ item.op \in {"text", "d", "u", "c", "p", "s", "n", "f", "e", "%"}
         /\ item.len \in Nat /\ item.width \in FieldSpecs /\ item.precision \in FieldSpecs
         /\ item.width.n \in Int /\ item.precision.n \in Int
         /\ item.op \in {"d", "u", "c", "p"} => item.len <= 46
BY DEF Items, FieldSpecs

LEMMA NumbersOf ==
  ASSUME NEW item \in Items, item.op # "text"
  PROVE  /\ Precision(item) \in Int /\ MinWidth(item) \in Int
         /\ Abs(MinWidth(item)) \in Nat /\ MinWidth(item) <= Abs(MinWidth(item))
         /\ Stars(item) \in Nat /\ Wants(item) \in Nat
         /\ Wants(item) = Stars(item) + (IF item.op = "%" THEN 0 ELSE 1)
BY ItemIs DEF Precision, MinWidth, Abs, Stars, Wants, Larger

LEMMA PrecisionAtLeast ==
  ASSUME NEW item \in Items
  PROVE  Precision(item) >= -1
<1>1. /\ item.precision.kind \in {"none", "digits", "star"}
      /\ item.precision.n \in Int
      /\ item.precision.kind = "digits" => item.precision.n >= 0
  BY DEF Items, FieldSpecs
<1> QED BY <1>1 DEF Precision, Larger

\* By itself, without width, on the fast path.
LEMMA FastFits ==
  ASSUME NEW item \in Items, item.op # "text", Fast(item) = "done"
  PROVE  /\ Length(item) \in Nat
         /\ Length(item) < IF item.op = "s" THEN item.len + 1 ELSE PrintfBuffLen
<1>1. Simple(item) /\ item.op # "f"
  BY DEF Fast
<1>2. MinWidth(item) = 0 /\ Precision(item) = -1
  BY <1>1 DEF Simple, NoField, MinWidth, Precision
<1>3. /\ Body(item) \in Nat
      /\ Body(item) < IF item.op = "s" THEN item.len + 1 ELSE PrintfBuffLen
  <2> DEFINE l == item.len
  <2>1. l \in Nat /\ (item.op \in {"d", "u", "c", "p"} => l <= 46)
    BY ItemIs
  <2>2. CASE item.op \in {"d", "u"}
    <3>1. Body(item) = Larger(l, 1)
      BY <1>2, <2>2 DEF Body
    <3> HIDE DEF l
    <3> QED BY <2>1, <2>2, <3>1 DEF Larger, PrintfBuffLen
  <2>3. CASE item.op \in {"c", "p"}
    <3>1. Body(item) = l
      BY <2>3 DEF Body
    <3> HIDE DEF l
    <3> QED BY <2>1, <2>3, <3>1 DEF PrintfBuffLen
  <2>4. CASE item.op = "s"
    <3>1. Body(item) = l
      BY <1>2, <2>4 DEF Body
    <3> QED BY <2>1, <2>4, <3>1
  <2>5. CASE item.op \in {"e", "%", "n"}
    <3>1. Body(item) \in {14, 1, 0}
      BY <1>2, <2>5 DEF Body
    <3> QED BY <2>5, <3>1 DEF PrintfBuffLen
  <2>6. item.op \in {"d", "u", "c", "p", "s", "e", "%", "n"}
    BY <1>1, ItemIs
  <2> QED BY <2>2, <2>3, <2>4, <2>5, <2>6
<1>4. Length(item) = Body(item)
  BY <1>2, <1>3 DEF Length, Larger, Abs
<1> QED BY <1>3, <1>4

\* Bounded, on the slow path, unless the field is wider than the bound or the
\* number was narrowed.
LEMMA SlowFits ==
  ASSUME NEW item \in Items, item.op # "text", ~SlowFails(item)
  PROVE  /\ Length(item) \in Nat /\ Reqd(item) \in Nat /\ Bound(item) \in Int
         /\ \/ Abs(MinWidth(item)) >= Bound(item) + 10
            \/ Narrowed(item)
            \/ Length(item) < Reqd(item)
<1> DEFINE l == item.len
           p == Precision(item)
           w == Abs(MinWidth(item))
           b == Bound(item)
<1>1. /\ l \in Nat /\ p \in Int /\ w \in Nat /\ MinWidth(item) \in Int
      /\ MinWidth(item) <= w /\ p >= -1
      /\ item.op \in {"d", "u", "c", "p"} => l <= 46
  <2>1. l \in Nat /\ (item.op \in {"d", "u", "c", "p"} => l <= 46)
    BY ItemIs
  <2>2. p \in Int /\ w \in Nat /\ MinWidth(item) \in Int /\ MinWidth(item) <= w
    BY NumbersOf
  <2>3. p >= -1
    BY PrecisionAtLeast
  <2> QED BY <2>1, <2>2, <2>3
<1>2. item.op \in {"d", "u", "c", "p", "s", "f", "e"}
  BY ItemIs DEF SlowFails
<1>3. /\ b \in Nat /\ Body(item) \in Nat
      /\ Narrowed(item) \/ Body(item) < b + 10
  <2>1. CASE item.op \in {"d", "u"}
    <3>1. b = Larger(p, 46) /\ Body(item) = Larger(l, p + 2)
      BY <2>1 DEF Bound, Body
    <3> HIDE DEF b, p, l
    <3> QED BY <1>1, <2>1, <3>1 DEF Larger
  <2>2. CASE item.op \in {"c", "p"}
    <3>1. b = Larger(p, 46) /\ Body(item) = l
      BY <2>2 DEF Bound, Body
    <3> HIDE DEF b, p, l
    <3> QED BY <1>1, <2>2, <3>1 DEF Larger
  <2>3. CASE item.op = "s"
    <3>1. b = (IF p = -1 \/ l < p THEN l ELSE p) /\ Body(item) = b
      BY <2>3 DEF Bound, Body
    <3> HIDE DEF b, p, l
    <3> QED BY <1>1, <3>1
  <2>4. CASE item.op = "f"
    <3> DEFINE six == IF p = -1 THEN 6 ELSE p
               third == Larger(Exp(item), 0) \div 3
    <3>1. b = six + 3 + third /\ Body(item) = l + six + 2
      BY <2>4 DEF Bound, Body
    <3>2. Exponent(l) \in Int /\ l < Larger(Exponent(l), 0) \div 3 + 11
      <4> HIDE DEF l
      <4> QED BY <1>1 DEF Exponent, Larger
    <3>3. Exp(item) \in Int /\ (Narrowed(item) \/ Exp(item) = Exponent(l))
      BY <3>2 DEF Exp
    <3>4. third \in Nat /\ (Narrowed(item) \/ l < third + 11)
      <4> DEFINE e == Exp(item)
      <4>1. Larger(e, 0) \div 3 \in Nat
        <5> HIDE DEF e
        <5> QED BY <3>3 DEF Larger, e
      <4> QED BY <3>2, <3>3, <4>1
    <3>5. six \in Nat
      BY <1>1
    <3> HIDE DEF b, l, six, p, third
    <3> QED BY <1>1, <3>1, <3>4, <3>5
  <2>5. CASE item.op = "e"
    <3>1. b = (IF p = -1 THEN 6 ELSE p) + 8 /\ Body(item) = b
      BY <2>5 DEF Bound, Body
    <3> HIDE DEF b, p
    <3> QED BY <1>1, <3>1
  <2> QED BY <1>2, <2>1, <2>2, <2>3, <2>4, <2>5
<1>4. Length(item) = Larger(Body(item), w) /\ Reqd(item) = Larger(b + 10, MinWidth(item))
  BY DEF Length, Reqd
<1> HIDE DEF b, w
<1>5. /\ Length(item) \in Nat /\ Reqd(item) \in Nat
      /\ w >= b + 10 \/ Narrowed(item) \/ Length(item) < Reqd(item)
  BY <1>1, <1>3, <1>4 DEF Larger
<1> QED BY <1>3, <1>5 DEF b, w

PrintfInv ==
  /\ format \in Seq(Items) /\ output \in Int /\ count \in Int
  /\ taken \in Int /\ wanted \in Int /\ aux \in Int
  /\ PrintedWhole

LEMMA PrintfInvNext == PrintfInv /\ [PrintfNext]_printfVars => PrintfInv'
<1> SUFFICES ASSUME PrintfInv, [PrintfNext]_printfVars PROVE PrintfInv'
  OBVIOUS
<1> DEFINE item == Head(format)
<1>1. CASE UNCHANGED printfVars
  BY <1>1 DEF printfVars, PrintfInv, PrintedWhole
<1>2. ASSUME NEW f \in Formats, CallPrintf(f) PROVE PrintfInv'
  <2>1. f \in Seq(Items)
    BY PrintfAssumption
  <2> QED BY <1>2, <2>1 DEF CallPrintf, PrintfInv, PrintedWhole
<1>3. CASE PrintfReturns
  BY <1>3 DEF PrintfReturns, PrintfInv, PrintedWhole
<1>4. ASSUME format # <<>>
      PROVE  item \in Items /\ Tail(format) \in Seq(Items) /\ item.len \in Nat
  <2>1. item \in Items /\ Tail(format) \in Seq(Items)
    BY <1>4, HeadTailProperties DEF PrintfInv
  <2> QED BY <2>1, ItemIs
<1>5. ASSUME NEW stars \in Nat, Fail(stars) PROVE PrintfInv'
  BY <1>5 DEF Fail, PrintfInv, PrintedWhole
<1> HIDE DEF item
<1>6. CASE Literal
  <2>1. /\ format # <<>> /\ result = "none"
        /\ output' = output + item.len /\ count' = count + item.len
        /\ format' = Tail(format) /\ UNCHANGED <<taken, wanted, aux, last, result>>
    BY <1>6 DEF Literal, Put, item
  <2>2. item.len \in Nat /\ Tail(format) \in Seq(Items)
    BY <1>4, <2>1
  <2> QED BY <2>1, <2>2 DEF PrintfInv, PrintedWhole
<1>7. CASE FastPath
  <2>1. item \in Items /\ Tail(format) \in Seq(Items) /\ item.op # "text"
        /\ result = "none"
    BY <1>4, <1>7 DEF FastPath, item
  <2>2. CASE Fast(item) = "done" /\ result' = result
    <3> DEFINE room == IF item.op = "s" THEN item.len + 1 ELSE PrintfBuffLen
               n == Length(item)
               k == Wants(item)
    <3>1. /\ output' = output + n /\ count' = count + n /\ UNCHANGED aux
          /\ taken' = taken + k /\ wanted' = wanted + k
          /\ last' = [need |-> n, room |-> room, beyond |-> FALSE]
          /\ format' = Tail(format)
      BY <1>7, <2>1, <2>2 DEF FastPath, Put, item, Fail
    <3>2. n \in Nat /\ n < room /\ k \in Nat
      BY <2>1, <2>2, FastFits, NumbersOf
    <3> HIDE DEF n, k, room
    <3> QED BY <2>1, <2>2, <3>1, <3>2 DEF PrintfInv, PrintedWhole
  <2>3. CASE Fail(0)
    BY <1>5, <2>3
  <2> QED BY <1>7, <2>2, <2>3 DEF FastPath, item
<1>8. CASE SlowPath
  <2>1. item \in Items /\ Tail(format) \in Seq(Items) /\ item.op # "text"
        /\ result = "none"
    BY <1>4, <1>8 DEF SlowPath, item
  <2>2. Stars(item) \in Nat
    BY <2>1, NumbersOf
  <2>3. CASE Fail(Stars(item))
    BY <1>5, <2>2, <2>3
  <2> DEFINE n == Length(item)
             k == Wants(item)
             r == Reqd(item)
             held == IF r <= PrintfBuffLen THEN aux ELSE Larger(aux, r)
             room == IF r <= PrintfBuffLen THEN PrintfBuffLen ELSE held
             beyond == \/ Abs(MinWidth(item)) >= Bound(item) + 10
                       \/ Narrowed(item)
             s == Stars(item)
  <2>4. CASE ~SlowFails(item)
    <3>1. n \in Nat /\ r \in Nat /\ (beyond \/ n < r)
      BY <2>1, <2>4, SlowFits
    <3>2. k \in Nat /\ k = s + 1
      BY <2>1, <2>4, NumbersOf DEF SlowFails
    <3>3. held \in Int /\ room \in Int /\ r <= room
      <4> HIDE DEF r
      <4> QED BY <3>1 DEF PrintfInv, PrintfBuffLen, Larger
    <3>4. CASE Fail(s)
      BY <1>5, <2>2, <3>4
    <3>5. CASE /\ aux' = held
               /\ last' = [need |-> n, room |-> room, beyond |-> beyond]
               /\ result' = "overflow"
               /\ UNCHANGED <<format, output, count, taken, wanted>>
      <4> HIDE DEF n, k, r, held, room, beyond, s
      <4>1. beyond \/ n < room
        BY <3>1, <3>3
      <4> QED BY <3>3, <3>5, <4>1 DEF PrintfInv, PrintedWhole
    <3>6. CASE /\ aux' = held
               /\ last' = [need |-> n, room |-> room, beyond |-> beyond]
               /\ Put(n)
               /\ taken' = taken + s + (IF item.op \in {"s", "f"} THEN 1 ELSE 0)
                             + (IF item.op \in {"s", "f"} THEN 0 ELSE 1)
               /\ wanted' = wanted + k
               /\ format' = Tail(format) /\ UNCHANGED result
      <4> HIDE DEF n, k, r, held, room, beyond, s
      <4>1. beyond \/ n < room
        BY <3>1, <3>3
      <4>2. s \in Nat
        BY <2>2 DEF s
      <4>3. taken' = taken + s + 1
        <5>1. \/ taken' = taken + s + 1 + 0
              \/ taken' = taken + s + 0 + 1
          BY <3>6
        <5>2. taken \in Int
          BY DEF PrintfInv
        <5> QED BY <4>2, <5>1, <5>2
      <4>4. output' = output + n /\ count' = count + n
        BY <3>6 DEF Put
      <4>5. last'.need = n /\ last'.room = room /\ last'.beyond = beyond
        BY <3>6
      <4>6. /\ taken \in Int /\ wanted \in Int /\ output \in Int /\ count \in Int
            /\ taken = wanted /\ output = count
        BY <2>1 DEF PrintfInv, PrintedWhole
      <4>7. /\ taken' \in Int /\ wanted' \in Int /\ output' \in Int
            /\ count' \in Int /\ taken' = wanted' /\ output' = count'
        BY <3>1, <3>2, <3>6, <4>2, <4>3, <4>4, <4>6
      <4>8. PrintedWhole'
        BY <4>1, <4>5, <4>7 DEF PrintedWhole
      <4> QED BY <2>1, <3>3, <3>6, <4>7, <4>8 DEF PrintfInv
    <3> QED BY <1>8, <2>4, <3>4, <3>5, <3>6 DEF SlowPath, item
  <2>5. SlowFails(item) => Fail(Stars(item))
    BY <1>8 DEF SlowPath, item
  <2> QED BY <2>3, <2>4, <2>5
<1> QED BY <1>1, <1>2, <1>3, <1>6, <1>7, <1>8 DEF PrintfNext

(* The count that FCGX_VFPrintF returns is what went to the stream, every     *)
(* conversion got its own arguments, and sprintf() kept to its buffer: for    *)
(* every format and argument, as long as no field is wider than its           *)
(* conversion and no long double above DBL_MAX is printed with %Lf, which the *)
(* bound of fcgiapp.c:585-632 does not cover.                                 *)
THEOREM PrintsWhole == PrintfSpec => []PrintedWhole
<1>1. PrintfInit => PrintfInv
  <2>1. <<>> \in Seq(Items)
    OBVIOUS
  <2> QED BY <2>1 DEF PrintfInit, PrintfInv, PrintedWhole, Nothing
<1>2. PrintfInv => PrintedWhole
  BY DEF PrintfInv
<1> QED BY <1>1, <1>2, PrintfInvNext, PTL DEF PrintfSpec

==============================================================================
