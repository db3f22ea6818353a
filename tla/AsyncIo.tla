------------------------------- MODULE AsyncIo -------------------------------
(***************************************************************************)
(* Asynchronous reads and writes of fcgi/libfcgi/os_unix.c: one operation  *)
(* per descriptor and direction waits in a table, OS_DoIo asks select()    *)
(* for the descriptors that are ready, posts their operations, and carries *)
(* them out one after the other, each with a callback that may start and   *)
(* cancel operations itself, those that are posted included.               *)
(*                                                                         *)
(* A place of the table stands for a descriptor and a direction: AIO_RD_IX *)
(* and AIO_WR_IX.  The descriptor sets are sets of such places.  OS_Close  *)
(* and OS_CloseRead look at the places of any descriptor, those behind the *)
(* end of the table included.                                              *)
(***************************************************************************)
EXTENDS Integers, FiniteSets

CONSTANTS
  Descriptors,   \* the numbers of descriptors
  FirstSize,     \* asyncIoTableSize at first
  MaxOperations  \* bound on the operations that are started

VARIABLES
  size,      \* asyncIoTableSize
  table,     \* asyncIoTable: the operation of each place in use, 0 elsewhere
  armed,     \* readFdSet and writeFdSet
  posted,    \* readFdSetPost and writeFdSetPost
  numRd, numWr,   \* numRdPosted, numWrPosted
  maxFd,
  asyncIoInUse,   \* an operation was started, or OS_DoIo called
  place,     \* OS_DoIo: the place it has come to, -1 outside it
  inCall,    \* a callback is running
  started,   \* operations started
  calls,     \* how often each operation's callback was called
  cancelled, \* operations that were cancelled
  dropped,   \* how many of them were posted
  ended      \* the process has exited or crashed, or has overwritten memory
             \* behind the table, after which nothing is defined

asyncVars ==
  <<size, table, armed, posted, numRd, numWr, maxFd, asyncIoInUse, place,
    inCall, started, calls, cancelled, dropped, ended>>

RdIx(fd) == fd * 2
WrIx(fd) == fd * 2 + 1
IsRead(ix) == ix % 2 = 0
LastPlace == 2 * (CHOOSE d \in Descriptors : \A e \in Descriptors : e <= d) + 1
InUse(ix) == ix < size /\ table[ix] # 0

\* select() takes descriptors up to 1023, and the table has 16 places at first.
ASSUME AsyncAssumption ==
  /\ Descriptors \subseteq Nat
  /\ \E d \in Descriptors : \A e \in Descriptors : e <= d
  /\ FirstSize \in Nat /\ LastPlace < 128 * FirstSize
  /\ MaxOperations \in Nat

-----------------------------------------------------------------------------

AsyncInit ==
  /\ size = FirstSize /\ table = [ix \in 0..LastPlace |-> 0]
  /\ armed = {} /\ posted = {} /\ numRd = 0 /\ numWr = 0 /\ maxFd = -1
  /\ asyncIoInUse = FALSE /\ place = -1 /\ inCall = FALSE
  /\ started = 0 /\ calls = [op \in 1..MaxOperations |-> 0]
  /\ cancelled = {} /\ dropped = 0 /\ ended = FALSE

\* The application runs: outside OS_DoIo, or in a callback.
Running == ~ended /\ (place = -1 \/ inCall)

\* Mutant of Grown: the table is doubled once, far enough or not.
GrownOnce(ix) == IF ix < size THEN size ELSE 2 * size

\* How much the table can have to grow, by AsyncAssumption.
Doublings == {1, 2, 4, 8, 16, 32, 64, 128}

\* GrowAsyncTable doubles the table until it has the place.
Grown(ix) ==
  CHOOSE s \in {size * k : k \in Doublings} :
    s > ix /\ (s > size => s \div 2 <= ix)

\* OS_AsyncRead, OS_AsyncWrite; the place must be free.
Start(fd, ix) ==
  /\ Running /\ started < MaxOperations /\ ~InUse(ix)
  /\ started' = started + 1
  /\ maxFd' = IF fd > maxFd THEN fd ELSE maxFd
  /\ asyncIoInUse' = TRUE
  /\ size' = Grown(ix)
  /\ table' = [table EXCEPT ![ix] = started + 1]
  /\ armed' = armed \cup {ix}
  /\ UNCHANGED <<posted, numRd, numWr, place, inCall, calls, cancelled,
                 dropped, ended>>

OperationsAt(places) == {table[ix] : ix \in {p \in places : InUse(p)}}

\* OS_Close of a descriptor: the operations that are posted are no longer, but
\* they remain counted.  Behind the table it reads what is there, and sets it to
\* 0 unless it is; before any operation it leaves the table alone.
Close(fd) ==
  LET places == {RdIx(fd), WrIx(fd)}
  IN  /\ Running /\ asyncIoInUse
      /\ armed' = armed \ places /\ posted' = posted \ places
      /\ table' = [ix \in DOMAIN table |->
                     IF ix \in places THEN 0 ELSE table[ix]]
      /\ maxFd' = IF maxFd = fd THEN maxFd - 1 ELSE maxFd
      /\ cancelled' = cancelled \cup OperationsAt(places)
      /\ dropped' = dropped + Cardinality(posted \cap places)
      /\ \/ UNCHANGED ended
         \/ WrIx(fd) >= size /\ ended' = TRUE
      /\ UNCHANGED <<size, numRd, numWr, asyncIoInUse, place, inCall, started,
                     calls>>

\* OS_CloseRead: what is posted remains so, without an operation.
CloseRead(fd) ==
  LET ix == RdIx(fd)
  IN  /\ Running /\ InUse(ix)
      /\ table' = [table EXCEPT ![ix] = 0]
      /\ armed' = armed \ {ix}
      /\ cancelled' = cancelled \cup {table[ix]}
      /\ dropped' = dropped + (IF ix \in posted THEN 1 ELSE 0)
      /\ UNCHANGED <<size, posted, numRd, numWr, maxFd, asyncIoInUse, place,
                     inCall, started, calls, ended>>

\* The same for a descriptor that the table has no place for; where what it
\* reads is 0, as where the place is free, there is no effect.
CloseReadBehind(fd) ==
  /\ Running /\ RdIx(fd) >= size
  /\ ended' = TRUE
  /\ UNCHANGED <<size, table, armed, posted, numRd, numWr, maxFd, asyncIoInUse,
                 place, inCall, started, calls, cancelled, dropped>>

-----------------------------------------------------------------------------
(* OS_DoIo.                                                                *)

Asked == {ix \in armed : ix <= WrIx(maxFd)}

\* select() reports any of what it is asked for, or nothing in time; when it
\* fails, for a signal too, the process exits.
Select(ready) ==
  /\ ~ended /\ place = -1 /\ numRd = 0 /\ numWr = 0 /\ ready \subseteq Asked
  /\ posted' = posted \cup ready /\ armed' = armed \ ready
  /\ numRd' = Cardinality({ix \in ready : IsRead(ix)})
  /\ numWr' = Cardinality({ix \in ready : ~IsRead(ix)})
  /\ place' = IF ready = {} THEN -1 ELSE 0
  /\ asyncIoInUse' = TRUE
  /\ UNCHANGED <<size, table, maxFd, inCall, started, calls, cancelled, dropped,
                 ended>>

SelectFails ==
  /\ ~ended /\ place = -1 /\ numRd = 0 /\ numWr = 0
  /\ ended' = TRUE /\ asyncIoInUse' = TRUE
  /\ UNCHANGED <<size, table, armed, posted, numRd, numWr, maxFd, place, inCall,
                 started, calls, cancelled, dropped>>

\* With events left from an earlier call select() is not asked.
Resume ==
  /\ ~ended /\ place = -1 /\ numRd + numWr # 0
  /\ place' = 0 /\ asyncIoInUse' = TRUE
  /\ UNCHANGED <<size, table, armed, posted, numRd, numWr, maxFd, inCall,
                 started, calls, cancelled, dropped, ended>>

Due(ix) == ix \in posted /\ InUse(ix)

\* The operation at the place, and its callback.
Dispatch ==
  /\ ~ended /\ place # -1 /\ ~inCall
  /\ place <= WrIx(maxFd) /\ Due(place)
  /\ posted' = posted \ {place}
  /\ numRd' = numRd - (IF IsRead(place) THEN 1 ELSE 0)
  /\ numWr' = numWr - (IF IsRead(place) THEN 0 ELSE 1)
  /\ table' = [table EXCEPT ![place] = 0]
  /\ calls' = [op \in DOMAIN calls |->
                 IF op = table[place] THEN calls[op] + 1 ELSE calls[op]]
  /\ inCall' = TRUE
  /\ UNCHANGED <<size, armed, maxFd, asyncIoInUse, place, started, cancelled,
                 dropped, ended>>

\* To the next place: behind a callback, or where there is nothing to do.
Advance ==
  /\ ~ended /\ place # -1
  /\ inCall \/ place > WrIx(maxFd) \/ ~Due(place)
  /\ inCall' = FALSE
  /\ place' = IF place >= WrIx(maxFd) THEN -1 ELSE place + 1
  /\ UNCHANGED <<size, table, armed, posted, numRd, numWr, maxFd, asyncIoInUse,
                 started, calls, cancelled, dropped, ended>>

AsyncNext ==
  \/ \E fd \in Descriptors :
       \/ Start(fd, RdIx(fd)) \/ Start(fd, WrIx(fd))
       \/ Close(fd) \/ CloseRead(fd) \/ CloseReadBehind(fd)
  \/ \E ready \in SUBSET Asked : Select(ready)
  \/ SelectFails \/ Resume \/ Dispatch \/ Advance

AsyncSpec == AsyncInit /\ [][AsyncNext]_asyncVars

-----------------------------------------------------------------------------

Waiting == {op \in 1..started : op \notin cancelled /\ calls[op] = 0}

\* A callback is called once, not for a cancelled operation; an operation that
\* waits is in its table and select() will be asked for it or has reported it;
\* and events are left over only where a posted operation was cancelled.
CalledOnce ==
  /\ \A op \in 1..MaxOperations : calls[op] <= 1
  /\ \A op \in cancelled : calls[op] = 0
  /\ \A op \in Waiting : \E ix \in Asked \cup posted :
       table[ix] = op /\ ix < size /\ ix <= WrIx(maxFd)
  /\ place = -1 /\ dropped = 0 => numRd = 0 /\ numWr = 0 /\ posted = {}

=============================================================================
