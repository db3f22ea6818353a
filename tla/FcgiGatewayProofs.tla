--------------------------- MODULE FcgiGatewayProofs ---------------------------
(***************************************************************************)
(* Proofs about FcgiGateway, for any number of workers, requests and        *)
(* faults: what requests that meet in the gateway do to each other does not *)
(* reach a request that is alone, and such a request leaves nothing behind. *)
(***************************************************************************)
EXTENDS FcgiGateway, SequenceTheorems, TLAPS

USE GatewayAssumption DEF Reqs, None, Unset, Taken

-----------------------------------------------------------------------------
(* The inductive invariant.                                                 *)

\* A thread has a request exactly while it is in the gateway, one of its own;
\* two that are there at once have met.
Numbered ==
  /\ \A t \in Threads : req[t] = None <=> pc[t] = "idle"
  /\ \A t, u \in Threads :
       t # u /\ req[t] # None /\ req[u] # None =>
         req[t] # req[u] /\ req[t] \in overlap

\* The handle points to the object of a request that is in the gateway.
Held == proc # None => \E t \in Threads : req[t] = proc

\* What is known of the object, process and connection of requests that have
\* met: nothing.
Met(x, y) == x = y \/ (x \in overlap /\ y \in overlap)

\* All others go by the number of their own request.
Linked ==
  \A r \in Reqs :
    /\ sock[r] # None => Met(r, sock[r])
    /\ listener[r] # None => Met(r, listener[r])
    /\ pid[r] > 0 => Met(r, pid[r])
    /\ conns[r].peer # None => Met(r, conns[r].peer)

Fresh(r) ==
  /\ sock[r] = None /\ pid[r] = Unset /\ ~path[r] /\ listener[r] = None
  /\ process[r] = "none" /\ conns[r] = NoConn /\ answered[r] = None

Later == \A r \in Reqs : r > begun => Fresh(r)

\* The records of request r, up to its parameters, its body and its end.
Record(r, part) == [of |-> r, part |-> part]
SentParams(r) == Append(<<>>, Record(r, "params"))
SentBody(r) == Append(SentParams(r), Record(r, "body"))
SentEnd(r) == Append(SentBody(r), Record(r, "end"))
Sendings(r) == {<<>>, SentParams(r), SentBody(r), SentEnd(r)}

Joined == {"params", "stdin", "end", "read", "disconnect"}
Apart == {"connect", "unreachable", "reset"}

\* What thread t has made of its request r, as long as it is alone.
Stage(t, r) ==
  /\ pc[t] = "assign" => proc = None /\ Fresh(r)
  /\ pc[t] # "assign" => proc = r
  /\ pc[t] = "launch" => Fresh(r)
  /\ pc[t] \in Joined \cup Apart =>
       /\ pid[r] \in {None, r} /\ process[r] # "killed"
       /\ pid[r] = None => process[r] # "running"
  /\ pc[t] \in Apart => sock[r] = None /\ conns[r] = NoConn
  /\ pc[t] \in Joined =>
       sock[r] = r /\ conns[r].peer = r /\ process[r] # "none"
  /\ pc[t] = "params" => conns[r].in = <<>>
  /\ pc[t] = "stdin" => conns[r].in = SentParams(r)
  /\ pc[t] = "end" => conns[r].in = SentBody(r)
  /\ pc[t] = "read" => conns[r].in = SentEnd(r)

Stages ==
  \A t \in Threads :
    req[t] # None /\ req[t] \notin overlap => Stage(t, req[t])

\* What a request that was alone has sent, and been answered.
OwnOf(r) ==
  /\ answered[r] \in {None, r}
  /\ conns[r].in \in Sendings(r)
  /\ conns[r].answer \in {None, Taken, r}
  /\ conns[r].answer = Taken => conns[r].in = SentEnd(r)

Own == \A r \in Reqs \ overlap : OwnOf(r)

\* What it leaves.
LeftOf(r) == process[r] # "running" /\ conns[r] = NoConn /\ ~path[r]

Left == \A r \in Reqs \ overlap : Ended(r) => LeftOf(r)

\* proc_expired is set as soon as a connection was made.
Expiring == \A t \in Threads : pc[t] \in Joined \cup {"reset"} => expired

IInv ==
  /\ TypeOK /\ Numbered /\ Held /\ Linked /\ Later /\ Stages /\ Own /\ Left
  /\ Expiring /\ CrashHasCause

-----------------------------------------------------------------------------
(* What follows from it for a thread in the gateway.                        *)

LEMMA RequestTyped ==
  ASSUME IInv, NEW t \in Threads
  PROVE  /\ req[t] # None => req[t] \in Reqs /\ req[t] <= begun
         /\ pc[t] # "idle" => req[t] # None
         /\ proc # None => proc \in Reqs
<1>1. begun \in 0 .. MaxRequests /\ req[t] \in 0 .. begun /\ proc \in 0 .. begun
  BY DEF IInv, TypeOK
<1> QED
  BY <1>1 DEF IInv, Numbered

LEMMA HandleMet ==
  ASSUME IInv, NEW t \in Threads, req[t] # None, proc # None
  PROVE  Met(proc, req[t])
<1>1. PICK u \in Threads : req[u] = proc
  BY DEF IInv, Held
<1>2. CASE u = t
  BY <1>1, <1>2 DEF Met
<1>3. CASE u # t
  BY <1>1, <1>3 DEF Met, IInv, Numbered
<1> QED
  BY <1>2, <1>3

\* A request that is alone, and where its thread stands.
LEMMA AloneHere ==
  ASSUME IInv, NEW t \in Threads, req[t] # None, req[t] \notin overlap
  PROVE  /\ Stage(t, req[t])
         /\ \A u \in Threads : u # t => req[u] = None /\ pc[u] = "idle"
         /\ proc \in {None, req[t]}
<1>1. Stage(t, req[t])
  BY DEF IInv, Stages
<1>2. \A u \in Threads : u # t => req[u] = None /\ pc[u] = "idle"
  BY DEF IInv, Numbered
<1> QED
  BY <1>1, <1>2 DEF Stage

LEMMA Spelled ==
  ASSUME NEW r \in Reqs
  PROVE  /\ Sendings(r) \subseteq Seq(Records)
         /\ SentEnd(r) = <<Record(r, "params"), Record(r, "body"),
                           Record(r, "end")>>
         /\ SentEnd(r)[1].of = r
         /\ SentEnd(r) \notin {<<>>, SentParams(r), SentBody(r)}
         /\ \A s \in Sendings(r) :
              /\ s # <<>> => s[1].of = r
              /\ Len(s) <= Len(Parts)
              /\ \A k \in 1 .. Len(s) : s[k] = Record(r, Parts[k])
              /\ Len(s) = Len(Parts) <=> s = SentEnd(r)
<1> DEFINE a == Record(r, "params")
           b == Record(r, "body")
           e == Record(r, "end")
<1>1. /\ a \in Records /\ b \in Records /\ e \in Records
      /\ a.part # "end" /\ b.part # "end" /\ a.of = r
  BY DEF Record, Records
<1> HIDE DEF a, b, e
<1>2. /\ SentParams(r) = <<a>> /\ SentBody(r) = <<a, b>>
      /\ SentEnd(r) = <<a, b, e>>
  <2> DEFINE s1 == <<a>>
             s2 == <<a, b>>
             s3 == <<a, b, e>>
             t1 == Append(<<>>, a)
             t2 == Append(s1, b)
             t3 == Append(s2, e)
  <2>1. /\ s1 \in Seq(Records) /\ s2 \in Seq(Records) /\ s3 \in Seq(Records)
        /\ t1 \in Seq(Records) /\ t2 \in Seq(Records) /\ t3 \in Seq(Records)
    BY <1>1
  <2>2. /\ Len(s1) = 1 /\ Len(t1) = 1 /\ s1[1] = a /\ t1[1] = a
        /\ Len(s2) = 2 /\ Len(t2) = 2 /\ s2[1] = t2[1] /\ s2[2] = t2[2]
    BY <1>1
  <2>3. /\ Len(s3) = 3 /\ Len(t3) = 3
        /\ s3[1] = t3[1] /\ s3[2] = t3[2] /\ s3[3] = t3[3]
    BY <1>1
  <2>7. \A i \in 1 .. 3 : i = 1 \/ i = 2 \/ i = 3
    OBVIOUS
  <2> HIDE DEF s1, s2, s3, t1, t2, t3
  <2>4. s1 = t1
    BY <2>1, <2>2, SeqEqual
  <2>5. s2 = t2
    BY <2>1, <2>2, SeqEqual
  <2>6. s3 = t3
    <3>1. \A i \in 1 .. Len(s3) : s3[i] = t3[i]
      BY <2>3, <2>7
    <3> QED
      BY <2>1, <2>3, <3>1, SeqEqual
  <2> QED
    BY <2>4, <2>5, <2>6
    DEF s1, s2, s3, t1, t2, t3, SentParams, SentBody, SentEnd, a, b, e
<1>3. <<>> \in Seq(Records) /\ <<a>> \in Seq(Records)
  BY <1>1
<1>4. <<a, b>> \in Seq(Records)
  BY <1>1
<1>5. <<a, b, e>> \in Seq(Records)
  BY <1>1
<1>6. /\ Len(<<>>) = 0 /\ Len(<<a>>) = 1 /\ Len(<<a, b>>) = 2
      /\ Len(<<a, b, e>>) = 3
  OBVIOUS
<1>7. Sendings(r) = {<<>>, <<a>>, <<a, b>>, <<a, b, e>>}
  BY <1>2 DEF Sendings
<1>8. /\ Len(Parts) = 3
      /\ Record(r, Parts[1]) = a /\ Record(r, Parts[2]) = b
      /\ Record(r, Parts[3]) = e
  BY DEF Parts, a, b, e
<1>9. ASSUME NEW s \in Sendings(r)
      PROVE  /\ s # <<>> => s[1].of = r
             /\ Len(s) <= 3 /\ \A k \in 1 .. Len(s) : s[k] = Record(r, Parts[k])
             /\ Len(s) = 3 <=> s = SentEnd(r)
  <2>1. CASE s = <<>>
    BY <1>2, <1>6, <2>1
  <2>2. CASE s = <<a>>
    BY <1>1, <1>2, <1>6, <1>8, <2>2
  <2>3. CASE s = <<a, b>>
    <3>1. Len(s) = 2 /\ s[1] = a /\ s[2] = b
      BY <2>3
    <3>2. \A k \in 1 .. 2 : k = 1 \/ k = 2
      OBVIOUS
    <3>3. \A k \in 1 .. Len(s) : s[k] = Record(r, Parts[k])
      BY <1>8, <3>1, <3>2
    <3>4. s # SentEnd(r)
      BY <1>2, <1>6, <2>3
    <3> QED
      BY <1>1, <3>1, <3>3, <3>4
  <2>4. CASE s = <<a, b, e>>
    <3>1. Len(s) = 3 /\ s[1] = a /\ s[2] = b /\ s[3] = e
      BY <2>4
    <3>2. \A k \in 1 .. 3 : k = 1 \/ k = 2 \/ k = 3
      OBVIOUS
    <3>3. \A k \in 1 .. Len(s) : s[k] = Record(r, Parts[k])
      BY <1>8, <3>1, <3>2
    <3>4. s = SentEnd(r)
      BY <1>2, <2>4
    <3> QED
      BY <1>1, <3>1, <3>3, <3>4
  <2> QED
    BY <1>7, <2>1, <2>2, <2>3, <2>4
<1> QED
  BY <1>1, <1>2, <1>3, <1>4, <1>5, <1>6, <1>7, <1>8, <1>9 DEF a, b, e

-----------------------------------------------------------------------------
(* One lemma for each group of actions.                                     *)

LEMMA InitInvariant == Init => IInv
<1> SUFFICES ASSUME Init PROVE IInv
  OBVIOUS
<1>1. TypeOK
  <2>1. NoConn \in Conns
    BY DEF NoConn, Conns
  <2>2. begun \in 0 .. MaxRequests /\ faults \in 0 .. MaxFaults
    BY DEF Init
  <2>3. /\ pid \in [Reqs -> -1 .. begun] /\ sock \in [Reqs -> 0 .. begun]
        /\ answered \in [Reqs -> 0 .. begun] /\ req \in [Threads -> 0 .. begun]
        /\ listener \in [Reqs -> 0 .. begun] /\ overlap \subseteq 1 .. begun
        /\ proc \in 0 .. begun
    BY DEF Init
  <2>4. conns \in [Reqs -> Conns]
    BY <2>1 DEF Init
  <2> QED
    BY <2>2, <2>3, <2>4 DEF Init, TypeOK
<1>2. Numbered /\ Held /\ Expiring /\ CrashHasCause
  BY DEF Init, Numbered, Held, Expiring, CrashHasCause, Joined
<1>3. Linked /\ Later /\ Stages
  BY DEF Init, Linked, Later, Fresh, Stages, NoConn
<1>4. Own
  BY DEF Init, Own, OwnOf, NoConn, Sendings
<1>5. Left
  BY DEF Init, Left, LeftOf, Ended
<1> QED
  BY <1>1, <1>2, <1>3, <1>4, <1>5 DEF IInv

\* The early returns of a request that has its connection.
LEMMA FailPreserves ==
  ASSUME IInv, NEW t \in Threads, WriteFails(t) \/ BodyFails(t) \/ ReadFails(t)
  PROVE  IInv'
<1> USE DEF IInv
<1>1. /\ pc[t] \in {"params", "stdin", "end", "read"}
      /\ pc' = [pc EXCEPT ![t] = "disconnect"]
      /\ \E code \in {"400", "502"} : status' = [status EXCEPT ![t] = code]
      /\ UNCHANGED <<begun, req, answered, overlap, faults, proc, expired, sock,
                     pid, path, listener, process, conns, crashed>>
      /\ crashed = "no"
  BY DEF WriteFails, BodyFails, ReadFails, Fail, At, Goto, requests, object
<1>2. TypeOK'
  BY <1>1 DEF TypeOK
<1>3. Numbered' /\ Held' /\ Expiring'
  BY <1>1 DEF Numbered, Held, Expiring, TypeOK, Joined
<1>4. Linked' /\ Later' /\ Own' /\ Left' /\ CrashHasCause'
  BY <1>1 DEF Linked, Met, Later, Fresh, Own, OwnOf, Left, LeftOf, Ended,
              CrashHasCause
<1>5. Stages'
  <2>1. /\ pc'[t] = "disconnect" /\ \A u \in Threads : u # t => pc'[u] = pc[u]
    BY <1>1 DEF TypeOK
  <2> QED
    BY <1>1, <2>1 DEF Stages, Stage, Joined, Apart, Fresh
<1> QED
  BY <1>2, <1>3, <1>4, <1>5

\* The end of the server.
LEMMA CrashPreserves ==
  ASSUME IInv, NEW t \in Threads, NullCall(t) \/ BrokenPipe(t)
  PROVE  IInv'
<1> USE DEF IInv
<1>1. /\ crashed' \in {"null", "sigpipe"}
      /\ UNCHANGED <<begun, req, answered, overlap, faults, pc, status, proc,
                     expired, sock, pid, path, listener, process, conns>>
      /\ pc[t] \in {"launch", "connect"} \cup Joined
  BY DEF NullCall, BrokenPipe, Crash, At, requests, object, Joined
<1>2. TypeOK'
  BY <1>1 DEF TypeOK
<1>3. Numbered' /\ Held' /\ Expiring'
  BY <1>1 DEF Numbered, Held, Expiring
<1>4. Linked' /\ Later' /\ Own' /\ Left'
  BY <1>1 DEF Linked, Met, Later, Fresh, Own, OwnOf, Left, LeftOf, Ended
<1>5. Stages'
  BY <1>1 DEF Stages, Stage, Fresh
<1>6. CrashHasCause'
  <2> DEFINE r == req[t]
  <2>1. r # None /\ r \in Reqs
    <3>1. r # None
      BY <1>1 DEF Numbered, Joined
    <3>2. begun \in 0 .. MaxRequests /\ r \in 0 .. begun
      BY DEF TypeOK
    <3> QED
      BY <3>1, <3>2
  <2>2. CASE r \in overlap
    BY <1>1, <2>2 DEF CrashHasCause
  <2>3. CASE r \notin overlap
    <3>1. Stage(t, r)
      BY <2>1, <2>3, AloneHere
    <3>2. proc = r
      BY <1>1, <3>1 DEF Stage, Joined
    <3>3. BrokenPipe(t)
      BY <2>1, <3>2 DEF NullCall
    <3>4. crashed' = "sigpipe" /\ pc[t] \in {"params", "stdin", "end"}
          /\ ~PeerOpen(sock[proc])
      BY <3>3 DEF BrokenPipe, Crash, At
    <3>5. sock[r] = r /\ conns[r].peer = r /\ conns[r].in # SentEnd(r)
      <4>1. SentEnd(r) \notin {<<>>, SentParams(r), SentBody(r)}
        BY <2>1, Spelled
      <4> QED
        BY <3>1, <3>4, <4>1 DEF Stage, Joined
    <3>6. Len(conns[r].in) < Len(Parts)
      <4>1. conns[r].in \in Sendings(r)
        BY <2>1, <2>3 DEF Own, OwnOf
      <4>2. /\ Len(conns[r].in) <= Len(Parts)
            /\ Len(conns[r].in) # Len(Parts)
        BY <2>1, <3>5, <4>1, Spelled
      <4>3. Len(conns[r].in) \in Nat /\ Len(Parts) = 3
        <5>1. conns[r].in \in Seq(Records)
          BY <2>1, <4>1, Spelled
        <5> QED
          BY <5>1 DEF Parts
      <4>4. \A n \in Nat : n <= 3 /\ n # 3 => n < 3
        OBVIOUS
      <4> QED
        BY <4>2, <4>3, <4>4, Zenon
    <3>7. conns[r].left \/ process[r] # "running"
      BY <3>2, <3>4, <3>5 DEF PeerOpen
    <3>8. conns[r].left \/ process[r] = "exited"
      <4>1. process[r] \in {"none", "running", "exited", "killed"}
        BY <2>1 DEF TypeOK
      <4> QED
        BY <4>1, <3>1, <3>4, <3>7 DEF Stage, Joined
    <3> HIDE DEF IInv
    <3> QED
      BY <1>1, <2>1, <3>4, <3>5, <3>6, <3>8 DEF CrashHasCause
  <2> QED
    BY <2>2, <2>3
<1> QED
  BY <1>2, <1>3, <1>4, <1>5, <1>6

\* The backend processes.
LEMMA BackendPreserves ==
  ASSUME IInv, NEW c \in Reqs, Backend(c)
  PROVE  IInv'
<1> USE DEF IInv
<1>1. CASE BackendAnswers(c)
  <2>1. /\ UNCHANGED <<begun, req, answered, overlap, faults, pc, status, proc,
                       expired, sock, pid, path, listener, process, crashed>>
        /\ conns[c].peer # None /\ conns[c].answer = None
        /\ conns[c].in # <<>> /\ crashed = "no"
        /\ conns' = [conns EXCEPT ![c].answer = conns[c].in[1].of]
    BY <1>1 DEF BackendAnswers, PeerOpen, requests, object
  <2>2. conns[c] \in Conns /\ conns[c].in \in Seq(Records)
    BY DEF TypeOK, Conns
  <2>3. conns[c].in[1].of \in Reqs
    <3>1. conns[c].in[1] \in Records
      BY <2>1, <2>2
    <3> QED
      BY <3>1 DEF Records
  <2>4. /\ \A r \in Reqs : /\ conns'[r].peer = conns[r].peer
                           /\ conns'[r].in = conns[r].in
                           /\ conns'[r].left = conns[r].left
                           /\ r # c => conns'[r] = conns[r]
        /\ conns'[c].answer = conns[c].in[1].of
        /\ conns' \in [Reqs -> Conns]
    BY <2>1, <2>2, <2>3 DEF TypeOK, Conns
  <2>5. TypeOK'
    BY <2>1, <2>4 DEF TypeOK
  <2>6. Numbered' /\ Held' /\ Expiring' /\ CrashHasCause'
    BY <2>1 DEF Numbered, Held, Expiring, CrashHasCause
  <2>7. Linked'
    BY <2>1, <2>4 DEF Linked, Met
  <2>8. Later' /\ Left'
    <3>1. conns[c] # NoConn
      BY <2>1 DEF NoConn
    <3> QED
      BY <2>1, <2>4, <3>1 DEF Later, Left, LeftOf, Fresh, Ended
  <2>9. Stages'
    BY <2>1, <2>4 DEF Stages, Stage, Fresh, NoConn
  <2>10. Own'
    <3>1. c \notin overlap => conns'[c].answer = c
      BY <2>1, <2>4, Spelled DEF Own, OwnOf
    <3> QED
      BY <2>1, <2>4, <3>1 DEF Own, OwnOf
  <2> QED
    BY <2>5, <2>6, <2>7, <2>8, <2>9, <2>10
<1>2. CASE BackendExits(c)
  <2>1. /\ UNCHANGED <<begun, req, answered, overlap, pc, status, proc, expired,
                       sock, pid, path, listener, conns, crashed>>
        /\ process[c] = "running" /\ process' = [process EXCEPT ![c] = "exited"]
        /\ faults' = faults + 1 /\ faults < MaxFaults
        /\ crashed = "no"
    BY <1>2 DEF BackendExits, requests, object
  <2>7. /\ process \in [Reqs -> {"none", "running", "exited", "killed"}]
        /\ faults \in 0 .. MaxFaults
    BY DEF TypeOK
  <2>8. faults' \in 0 .. MaxFaults
    BY <2>1, <2>7
  <2>2. TypeOK'
    BY <2>1, <2>7, <2>8 DEF TypeOK
  <2>3. /\ process'[c] = "exited"
        /\ \A r \in Reqs : r # c => process'[r] = process[r]
    BY <2>1, <2>7
  <2>4. Numbered' /\ Held' /\ Expiring' /\ CrashHasCause'
    BY <2>1 DEF Numbered, Held, Expiring, CrashHasCause
  <2>5. Linked' /\ Later' /\ Left' /\ Own'
    BY <2>1, <2>3 DEF Linked, Met, Later, Left, LeftOf, Fresh, Ended, Own, OwnOf
  <2>9. \A t \in Threads : req[t] # None => req[t] \in Reqs
    BY RequestTyped
  <2>6. Stages'
    BY <2>1, <2>3, <2>9 DEF Stages, Stage, Fresh
  <2> QED
    BY <2>2, <2>4, <2>5, <2>6
<1>3. CASE BackendCloses(c)
  <2>1. /\ UNCHANGED <<begun, req, answered, overlap, faults, pc, status, proc,
                       expired, sock, pid, path, listener, process, crashed>>
        /\ conns[c].peer # None /\ crashed = "no"
        /\ conns' = [conns EXCEPT ![c].left = TRUE]
    BY <1>3 DEF BackendCloses, requests, object
  <2>2. conns[c] \in Conns /\ conns \in [Reqs -> Conns]
    BY DEF TypeOK
  <2>3. /\ \A r \in Reqs : /\ conns'[r].peer = conns[r].peer
                           /\ conns'[r].in = conns[r].in
                           /\ conns'[r].answer = conns[r].answer
                           /\ r # c => conns'[r] = conns[r]
        /\ conns' \in [Reqs -> Conns]
    BY <2>1, <2>2 DEF Conns
  <2>4. TypeOK'
    BY <2>1, <2>3 DEF TypeOK
  <2>5. Numbered' /\ Held' /\ Expiring' /\ CrashHasCause'
    BY <2>1 DEF Numbered, Held, Expiring, CrashHasCause
  <2>6. Linked' /\ Own'
    BY <2>1, <2>3 DEF Linked, Met, Own, OwnOf
  <2>7. Later' /\ Left'
    <3>1. conns[c] # NoConn
      BY <2>1 DEF NoConn
    <3> QED
      BY <2>1, <2>3, <3>1 DEF Later, Left, LeftOf, Fresh, Ended
  <2>8. Stages'
    BY <2>1, <2>3 DEF Stages, Stage, Fresh, NoConn
  <2> QED
    BY <2>4, <2>5, <2>6, <2>7, <2>8
<1> QED
  BY <1>1, <1>2, <1>3 DEF Backend

\* A request comes in: it is alone, or has met all that are there.
LEMMA BeginPreserves ==
  ASSUME IInv, NEW t \in Threads, Begin(t)
  PROVE  IInv'
<1> USE DEF IInv
<1> DEFINE b == begun + 1
<1>1. /\ pc[t] = "idle" /\ begun < MaxRequests
      /\ begun' = b /\ req' = [req EXCEPT ![t] = b]
      /\ pc' = [pc EXCEPT ![t] = "assign"]
      /\ overlap' = IF Busy = {} THEN overlap
                    ELSE overlap \cup {b} \cup {req[u] : u \in Busy}
      /\ UNCHANGED <<answered, faults, status, proc, expired, sock, pid, path,
                     listener, process, conns, crashed>>
  BY DEF Begin, At, Goto, object
<1>2. /\ begun \in 0 .. MaxRequests /\ overlap \subseteq 1 .. begun
      /\ b \in Reqs /\ b > begun /\ b \in 0 .. MaxRequests
      /\ req[t] = None
      /\ \A u \in Threads : req[u] \in 0 .. begun
  <2>1. /\ begun \in 0 .. MaxRequests /\ overlap \subseteq 1 .. begun
        /\ req \in [Threads -> 0 .. begun]
    BY DEF TypeOK
  <2>2. req[t] = None
    BY <1>1 DEF Numbered
  <2> HIDE DEF IInv
  <2>3. b \in Reqs /\ b > begun /\ b \in 0 .. MaxRequests
    BY <1>1, <2>1
  <2> QED
    BY <2>1, <2>2, <2>3
<1>3. /\ req'[t] = b /\ pc'[t] = "assign"
      /\ \A u \in Threads : u # t => req'[u] = req[u] /\ pc'[u] = pc[u]
  BY <1>1 DEF TypeOK
<1>4. /\ overlap \subseteq overlap' /\ overlap' \subseteq 1 .. b
      /\ \A u \in Threads :
           u # t /\ req[u] # None => b \in overlap' /\ req[u] \in overlap'
  <2>1. \A u \in Busy : u \in Threads /\ req[u] # None /\ req[u] \in 1 .. begun
    BY <1>2, RequestTyped DEF Busy
  <2>2. \A u \in Threads : req[u] # None => u \in Busy
    BY DEF Busy, Numbered
  <2> HIDE DEF IInv
  <2>3. CASE Busy = {}
    BY <1>1, <1>2, <2>2, <2>3
  <2>4. CASE Busy # {}
    <3>1. overlap' = overlap \cup {b} \cup {req[u] : u \in Busy}
      BY <1>1, <2>4
    <3>2. overlap' \subseteq 1 .. b
      <4>1. 1 .. begun \subseteq 1 .. b /\ b \in 1 .. b
        BY <1>2
      <4> HIDE DEF b
      <4> QED
        BY <1>2, <2>1, <3>1, <4>1
    <3> HIDE DEF b
    <3> QED
      BY <2>2, <3>1, <3>2
  <2> QED
    BY <2>3, <2>4
<1> HIDE DEF b
<1>5. TypeOK'
  <2>1. /\ req \in [Threads -> 0 .. begun]
        /\ pc \in [Threads -> {"idle", "assign", "launch", "connect",
                               "unreachable", "params", "stdin", "end", "read",
                               "disconnect", "reset"}]
    BY DEF TypeOK
  <2>3. req' \in [Threads -> 0 .. b]
    <3>1. \A u \in Threads : req'[u] \in 0 .. b
      BY <1>2, <1>3 DEF b
    <3> QED
      BY <1>1, <2>1, <3>1
  <2>4. pc' \in [Threads -> {"idle", "assign", "launch", "connect",
                             "unreachable", "params", "stdin", "end", "read",
                             "disconnect", "reset"}]
    BY <1>1, <2>1
  <2>2. /\ sock' \in [Reqs -> 0 .. b]
        /\ listener' \in [Reqs -> 0 .. b] /\ pid' \in [Reqs -> -1 .. b]
        /\ proc' \in 0 .. b
    <3>1. /\ sock \in [Reqs -> 0 .. begun] /\ listener \in [Reqs -> 0 .. begun]
          /\ pid \in [Reqs -> -1 .. begun] /\ proc \in 0 .. begun
      BY DEF TypeOK
    <3> HIDE DEF IInv
    <3>2. 0 .. begun \subseteq 0 .. b /\ -1 .. begun \subseteq -1 .. b
      BY <1>2 DEF b
    <3> QED
      BY <1>1, <3>1, <3>2
  <2> QED
    BY <1>1, <1>2, <1>4, <2>2, <2>3, <2>4 DEF TypeOK
<1>6. Numbered'
  <2>1. Numbered
    OBVIOUS
  <2> HIDE DEF IInv
  <2>2. \A u \in Threads : req'[u] = None <=> pc'[u] = "idle"
    BY <1>2, <1>3, <2>1 DEF Numbered, b
  <2>3. ASSUME NEW u \in Threads, NEW v \in Threads, u # v,
               req'[u] # None, req'[v] # None
        PROVE  req'[u] # req'[v] /\ req'[u] \in overlap'
    <3>1. CASE u = t
      BY <1>2, <1>3, <1>4, <2>3, <3>1
    <3>2. CASE v = t
      BY <1>2, <1>3, <1>4, <2>3, <3>2
    <3>3. CASE u # t /\ v # t
      BY <1>3, <1>4, <2>1, <2>3, <3>3 DEF Numbered
    <3> QED
      BY <3>1, <3>2, <3>3
  <2> QED
    BY <2>2, <2>3 DEF Numbered
<1>7. Held'
  BY <1>1, <1>2, <1>3 DEF Held
<1>8. Expiring' /\ CrashHasCause'
  BY <1>1, <1>3, <1>4 DEF Expiring, CrashHasCause, Joined
<1>9. Linked'
  BY <1>1, <1>4 DEF Linked, Met
<1>10. Later'
  BY <1>1, <1>2 DEF Later, Fresh, b
<1>11. Fresh(b)
  BY <1>2 DEF Later
<1>12. Stages'
  <2> SUFFICES ASSUME NEW u \in Threads, req'[u] # None, req'[u] \notin overlap'
               PROVE  Stage(u, req[u])'
    BY DEF Stages
  <2>1. CASE u = t
    <3>1. \A v \in Threads : req[v] = None
      BY <1>2, <1>3, <1>4, <2>1
    <3>2. proc = None
      BY <3>1 DEF Held
    <3> QED
      BY <1>1, <1>3, <1>11, <2>1, <3>2 DEF Stage, Fresh, Joined, Apart
  <2>2. CASE u # t
    BY <1>1, <1>3, <1>4, <2>2 DEF Stages, Stage, Fresh
  <2> QED
    BY <2>1, <2>2
<1>13. Own'
  BY <1>1, <1>4 DEF Own, OwnOf
<1>14. Left'
  <2> SUFFICES ASSUME NEW r \in Reqs \ overlap', Ended(r)'
               PROVE  process[r] # "running" /\ conns[r] = NoConn /\ ~path[r]
    BY <1>1 DEF Left, LeftOf
  <2>1. r # b
    BY <1>3 DEF Ended
  <2>2. Ended(r)
    BY <1>1, <1>2, <1>3, <2>1 DEF Ended, b
  <2> QED
    BY <1>4, <2>2 DEF Left, LeftOf
<1> QED
  BY <1>5, <1>6, <1>7, <1>8, <1>9, <1>10, <1>12, <1>13, <1>14
-----------------------------------------------------------------------------
(* The steps of a thread that is in the gateway.                            *)

\* Nothing that is made for request q changes.
Same(q) ==
  /\ sock'[q] = sock[q] /\ pid'[q] = pid[q] /\ path'[q] = path[q]
  /\ listener'[q] = listener[q] /\ process'[q] = process[q]
  /\ conns'[q] = conns[q]

\* Whatever a request that is in the gateway holds, it is not that of a
\* request that was alone; and no such request has a process that still runs.
LEMMA Quiet ==
  ASSUME IInv, NEW t \in Threads, NEW r \in Reqs, req[t] = r,
         NEW q \in Reqs, q # r, q \notin overlap
  PROVE  /\ process[q] # "running" /\ \A u \in Threads : req[u] # q
         /\ q # proc
         /\ proc # None =>
              q # sock[proc] /\ q # listener[proc] /\ q # pid[proc]
<1>1. \A u \in Threads : req[u] # q
  BY DEF IInv, Numbered
<1>2. process[q] # "running"
  <2>1. CASE q <= begun
    BY <1>1, <2>1 DEF IInv, Left, LeftOf, Ended
  <2>2. CASE q > begun
    BY <2>2 DEF IInv, Later, Fresh
  <2>3. begun \in 0 .. MaxRequests
    BY DEF IInv, TypeOK
  <2> QED
    BY <2>1, <2>2, <2>3
<1>3. q # proc
  BY <1>1 DEF IInv, Held
<1>4. proc # None => q # sock[proc] /\ q # listener[proc] /\ q # pid[proc]
  <2> SUFFICES ASSUME proc # None
               PROVE  q # sock[proc] /\ q # listener[proc] /\ q # pid[proc]
    OBVIOUS
  <2>1. proc \in Reqs
    BY RequestTyped
  <2>2. /\ sock[proc] # None => Met(proc, sock[proc])
        /\ listener[proc] # None => Met(proc, listener[proc])
        /\ pid[proc] > 0 => Met(proc, pid[proc])
    BY <2>1 DEF IInv, Linked
  <2> QED
    BY <1>3, <2>2 DEF Met
<1> QED
  BY <1>1, <1>2, <1>3, <1>4

\* A thread's step leaves what it must leave alone: what remains to be shown is
\* that its own request, when alone, is where its stage says.
LEMMA Carried ==
  ASSUME IInv, NEW t \in Threads, NEW r \in Reqs, req[t] = r,
         begun' = begun, overlap' = overlap, crashed' = "no",
         \A u \in Threads : u # t => req'[u] = req[u] /\ pc'[u] = pc[u],
         req'[t] \in {None, r}, req'[t] = None <=> pc'[t] = "idle",
         \A q \in Reqs : q # r => answered'[q] = answered[q],
         \A q \in Reqs : q # r /\ q \notin overlap => Same(q),
         r \notin overlap =>
           /\ OwnOf(r)'
           /\ IF req'[t] = None THEN LeftOf(r)' ELSE Stage(t, r)'
  PROVE  Numbered' /\ Later' /\ Own' /\ Left' /\ Stages' /\ CrashHasCause'
<1> USE DEF IInv
<1>1. r <= begun /\ begun \in Nat /\ overlap \subseteq 1 .. begun
  BY DEF TypeOK
<1>2. Numbered'
  BY DEF Numbered
<1>3. CrashHasCause'
  BY DEF CrashHasCause
<1>4. Later'
  <2> SUFFICES ASSUME NEW q \in Reqs, q > begun PROVE Fresh(q)'
    BY DEF Later
  <2>1. q # r /\ q \notin overlap
    BY <1>1
  <2> QED
    BY <2>1 DEF Later, Fresh, Same
<1>5. Own'
  BY DEF Own, OwnOf, Same
<1>6. Left'
  <2> SUFFICES ASSUME NEW q \in Reqs \ overlap, Ended(q)' PROVE LeftOf(q)'
    BY DEF Left
  <2>1. CASE q = r
    BY <2>1 DEF Ended
  <2>2. CASE q # r
    <3>1. Ended(q)
      BY <2>2 DEF Ended
    <3> QED
      BY <2>2, <3>1 DEF Left, LeftOf, Same
  <2> QED
    BY <2>1, <2>2
<1>7. Stages'
  <2> SUFFICES ASSUME NEW u \in Threads, req'[u] # None, req'[u] \notin overlap
               PROVE  Stage(u, req[u])'
    BY DEF Stages
  <2>1. u = t
    BY DEF Numbered
  <2> QED
    BY <2>1
<1> QED
  BY <1>2, <1>3, <1>4, <1>5, <1>6, <1>7

\* close() ends the connection of the object, and no other.
LEMMA ClosedConns ==
  ASSUME IInv, NEW o \in Reqs
  PROVE  /\ Closed(o) \in [Reqs -> Conns]
         /\ \A q \in Reqs : /\ q = sock[o] => Closed(o)[q] = NoConn
                            /\ q # sock[o] => Closed(o)[q] = conns[q]
<1>1. conns \in [Reqs -> Conns] /\ sock[o] \in 0 .. MaxRequests
  BY DEF IInv, TypeOK
<1>2. NoConn \in Conns
  BY DEF NoConn, Conns
<1> HIDE DEF IInv
<1>3. CASE sock[o] = None
  BY <1>1, <1>3 DEF Closed
<1>4. CASE sock[o] # None
  <2>1. sock[o] \in Reqs /\ Closed(o) = [conns EXCEPT ![sock[o]] = NoConn]
    BY <1>1, <1>4 DEF Closed
  <2> QED
    BY <1>1, <1>2, <2>1
<1> QED
  BY <1>3, <1>4

\* The destructor ends what the object has, and nothing of a request that was
\* alone, unless it is the thread's own.
LEMMA Destroyed ==
  ASSUME IInv, NEW t \in Threads, NEW r \in Reqs, req[t] = r, Destroy(proc)
  PROVE  /\ sock' \in [Reqs -> 0 .. begun] /\ pid' \in [Reqs -> -1 .. begun]
         /\ path' \in [Reqs -> BOOLEAN] /\ listener' \in [Reqs -> 0 .. begun]
         /\ process' \in [Reqs -> {"none", "running", "exited", "killed"}]
         /\ conns' \in [Reqs -> Conns]
         /\ \A q \in Reqs : /\ sock'[q] \in {None, sock[q]}
                            /\ listener'[q] \in {None, listener[q]}
                            /\ pid'[q] \in {Unset, pid[q]}
                            /\ conns'[q] \in {NoConn, conns[q]}
         /\ \A q \in Reqs : q # r /\ q \notin overlap => Same(q)
<1>1. /\ sock \in [Reqs -> 0 .. begun] /\ pid \in [Reqs -> -1 .. begun]
      /\ path \in [Reqs -> BOOLEAN] /\ listener \in [Reqs -> 0 .. begun]
      /\ process \in [Reqs -> {"none", "running", "exited", "killed"}]
      /\ conns \in [Reqs -> Conns] /\ begun \in 0 .. MaxRequests
  BY DEF IInv, TypeOK
<1>2. CASE proc = None
  BY <1>1, <1>2 DEF Destroy, object, Same
<1>3. CASE proc # None
  <2>1. /\ proc \in Reqs
        /\ conns' = Closed(proc) /\ sock' = [sock EXCEPT ![proc] = None]
        /\ process' \in Killed(proc) /\ path' = [path EXCEPT ![proc] = FALSE]
        /\ pid' = [pid EXCEPT ![proc] = Unset]
        /\ listener' = [listener EXCEPT ![proc] = None]
    BY <1>3, RequestTyped DEF Destroy
  <2>2. /\ conns' \in [Reqs -> Conns]
        /\ \A q \in Reqs : /\ q = sock[proc] => conns'[q] = NoConn
                           /\ q # sock[proc] => conns'[q] = conns[q]
    BY <2>1, ClosedConns
  <2>3. PICK p : /\ process' = Kill(p)
                 /\ pid[proc] # Unset => p = pid[proc]
    BY <2>1 DEF Killed
  <2>4. /\ process' \in [Reqs -> {"none", "running", "exited", "killed"}]
        /\ \A q \in Reqs : process[q] # "running" => process'[q] = process[q]
    <3>1. CASE p \in Reqs /\ process[p] = "running"
      BY <1>1, <2>3, <3>1 DEF Kill
    <3>2. CASE ~(p \in Reqs /\ process[p] = "running")
      BY <1>1, <2>3, <3>2 DEF Kill
    <3> QED
      BY <3>1, <3>2
  <2>5. ASSUME NEW q \in Reqs, q # r, q \notin overlap PROVE Same(q)
    <3>1. process[q] # "running" /\ q # proc /\ q # sock[proc]
      BY <1>3, <2>5, Quiet
    <3> QED
      BY <1>1, <2>1, <2>2, <2>4, <3>1 DEF Same
  <2>6. /\ sock' \in [Reqs -> 0 .. begun] /\ pid' \in [Reqs -> -1 .. begun]
        /\ path' \in [Reqs -> BOOLEAN] /\ listener' \in [Reqs -> 0 .. begun]
        /\ \A q \in Reqs : /\ sock'[q] \in {None, sock[q]}
                           /\ listener'[q] \in {None, listener[q]}
                           /\ pid'[q] \in {Unset, pid[q]}
    <3>1. -1 \in -1 .. begun /\ 0 \in 0 .. begun
      BY <1>1
    <3>2. /\ sock' \in [Reqs -> 0 .. begun]
          /\ \A q \in Reqs : sock'[q] \in {None, sock[q]}
      BY <1>1, <2>1, <3>1
    <3>3. /\ listener' \in [Reqs -> 0 .. begun]
          /\ \A q \in Reqs : listener'[q] \in {None, listener[q]}
      BY <1>1, <2>1, <3>1
    <3>4. /\ pid' \in [Reqs -> -1 .. begun]
          /\ \A q \in Reqs : pid'[q] \in {Unset, pid[q]}
      BY <1>1, <2>1, <3>1
    <3>5. path' \in [Reqs -> BOOLEAN]
      BY <1>1, <2>1
    <3> QED
      BY <3>2, <3>3, <3>4, <3>5
  <2> QED
    BY <2>2, <2>4, <2>5, <2>6
<1> QED
  BY <1>2, <1>3

\* The handle is made to point to the new object: the old one ends.
LEMMA AssignPreserves ==
  ASSUME IInv, NEW t \in Threads, Assign(t)
  PROVE  IInv'
<1>1. /\ pc[t] = "assign" /\ pc' = [pc EXCEPT ![t] = "launch"]
      /\ proc' = req[t] /\ Destroy(proc) /\ crashed = "no"
      /\ UNCHANGED <<begun, req, answered, overlap, faults, status, expired,
                     crashed>>
  BY DEF Assign, At, Goto, requests
<1> SUFFICES ASSUME NEW r \in Reqs, req[t] = r, r <= begun PROVE IInv'
  BY <1>1, RequestTyped
<1>2. /\ sock' \in [Reqs -> 0 .. begun] /\ pid' \in [Reqs -> -1 .. begun]
      /\ path' \in [Reqs -> BOOLEAN] /\ listener' \in [Reqs -> 0 .. begun]
      /\ process' \in [Reqs -> {"none", "running", "exited", "killed"}]
      /\ conns' \in [Reqs -> Conns]
      /\ \A q \in Reqs : /\ sock'[q] \in {None, sock[q]}
                         /\ listener'[q] \in {None, listener[q]}
                         /\ pid'[q] \in {Unset, pid[q]}
                         /\ conns'[q] \in {NoConn, conns[q]}
      /\ \A q \in Reqs : q # r /\ q \notin overlap => Same(q)
  BY <1>1, Destroyed
<1>3. pc'[t] = "launch" /\ \A u \in Threads : u # t => pc'[u] = pc[u]
  BY <1>1 DEF IInv, TypeOK
<1>4. r \notin overlap => OwnOf(r)' /\ Stage(t, r)'
  <2> SUFFICES ASSUME r \notin overlap PROVE OwnOf(r)' /\ Stage(t, r)'
    OBVIOUS
  <2>1. proc = None /\ Fresh(r) /\ OwnOf(r)
    BY <1>1, AloneHere DEF Stage, IInv, Own
  <2>2. UNCHANGED <<sock, pid, path, listener, process, conns>>
    BY <1>1, <2>1 DEF Destroy, object
  <2> QED
    BY <1>1, <1>3, <2>1, <2>2 DEF OwnOf, Stage, Fresh, Joined, Apart
<1>5. Numbered' /\ Later' /\ Own' /\ Left' /\ Stages' /\ CrashHasCause'
  <2>1. /\ \A q \in Reqs : q # r /\ q \notin overlap => Same(q)
        /\ begun' = begun /\ overlap' = overlap /\ crashed' = "no"
        /\ req' = req /\ req'[t] = r /\ pc'[t] # "idle" /\ r # None
        /\ \A q \in Reqs : answered'[q] = answered[q]
    BY <1>1, <1>2, <1>3
  <2> QED
    BY <1>3, <1>4, <2>1, Carried
<1>6. TypeOK'
  <2>1. /\ begun \in 0 .. MaxRequests /\ req \in [Threads -> 0 .. begun]
        /\ pc \in [Threads -> {"idle", "assign", "launch", "connect",
                               "unreachable", "params", "stdin", "end", "read",
                               "disconnect", "reset"}]
    BY DEF IInv, TypeOK
  <2> QED
    BY <1>1, <1>2, <2>1 DEF IInv, TypeOK
<1>7. Held'
  BY <1>1 DEF Held
<1>8. Expiring'
  BY <1>1, <1>3 DEF IInv, Expiring, Joined
<1>9. Linked'
  <2>1. Linked /\ overlap' = overlap
    BY <1>1 DEF IInv
  <2>2. \A q \in Reqs : conns'[q].peer \in {None, conns[q].peer}
    BY <1>2 DEF NoConn
  <2>3. ASSUME NEW q \in Reqs, pid'[q] > 0 PROVE pid'[q] = pid[q]
    <3>1. pid'[q] \in {-1, pid[q]}
      BY <1>2
    <3>2. pid'[q] # -1
      BY <2>3
    <3> QED
      BY <3>1, <3>2
  <2>4. \A q \in Reqs : sock'[q] \in {None, sock[q]}
                       /\ listener'[q] \in {None, listener[q]}
    BY <1>2
  <2> QED
    BY <2>1, <2>2, <2>3, <2>4 DEF Linked, Met
<1> QED
  BY <1>5, <1>6, <1>7, <1>8, <1>9 DEF IInv

\* The backend is launched, or it is not.
LEMMA LaunchPreserves ==
  ASSUME IInv, NEW t \in Threads, Launch(t)
  PROVE  IInv'
<1>1. /\ pc[t] = "launch" /\ pc' = [pc EXCEPT ![t] = "connect"]
      /\ proc # None /\ crashed = "no"
      /\ conns' = Closed(proc) /\ sock' = [sock EXCEPT ![proc] = None]
      /\ UNCHANGED <<begun, req, answered, overlap, status, proc, expired,
                     crashed>>
  BY DEF Launch, At, Goto, requests
<1> SUFFICES ASSUME NEW r \in Reqs, req[t] = r, r <= begun, proc \in Reqs
             PROVE  IInv'
  BY <1>1, RequestTyped
<1>2. PICK forked \in BOOLEAN, bound \in BOOLEAN, child \in {None, r} :
        /\ faults' \in {faults, faults + 1} /\ faults' <= MaxFaults
        /\ path' = [path EXCEPT ![proc] = bound]
        /\ listener' = [listener EXCEPT ![proc] = child]
        /\ pid' = [pid EXCEPT ![proc] = child]
        /\ forked <=> child # None
        /\ forked => process' = [process EXCEPT ![r] = "running"]
        /\ ~forked => process' = process
  <2>1. PICK forked \in BOOLEAN, bound \in BOOLEAN :
          LET child == IF forked THEN r ELSE None
          IN  /\ faults' = IF forked THEN faults ELSE faults + 1
              /\ faults' <= MaxFaults
              /\ path' = [path EXCEPT ![proc] = bound]
              /\ listener' = [listener EXCEPT ![proc] = child]
              /\ pid' = [pid EXCEPT ![proc] = child]
              /\ process' = IF forked THEN [process EXCEPT ![child] = "running"]
                            ELSE process
    BY DEF Launch
  <2>2. CASE forked
    <3> WITNESS forked \in BOOLEAN, bound \in BOOLEAN, r \in {None, r}
    <3> QED
      BY <2>1, <2>2
  <2>3. CASE ~forked
    <3> WITNESS forked \in BOOLEAN, bound \in BOOLEAN, None \in {None, r}
    <3> QED
      BY <2>1, <2>3
  <2> QED
    BY <2>2, <2>3
<1>3. pc'[t] = "connect" /\ \A u \in Threads : u # t => pc'[u] = pc[u]
  BY <1>1 DEF IInv, TypeOK
<1>4. /\ sock \in [Reqs -> 0 .. begun] /\ pid \in [Reqs -> -1 .. begun]
      /\ path \in [Reqs -> BOOLEAN] /\ listener \in [Reqs -> 0 .. begun]
      /\ process \in [Reqs -> {"none", "running", "exited", "killed"}]
      /\ begun \in 0 .. MaxRequests /\ faults \in 0 .. MaxFaults
  BY DEF IInv, TypeOK
<1>5. /\ conns' \in [Reqs -> Conns]
      /\ \A q \in Reqs : /\ q = sock[proc] => conns'[q] = NoConn
                         /\ q # sock[proc] => conns'[q] = conns[q]
  BY <1>1, ClosedConns
<1>6. /\ sock' \in [Reqs -> 0 .. begun] /\ pid' \in [Reqs -> -1 .. begun]
      /\ path' \in [Reqs -> BOOLEAN] /\ listener' \in [Reqs -> 0 .. begun]
      /\ process' \in [Reqs -> {"none", "running", "exited", "killed"}]
      /\ faults' \in 0 .. MaxFaults
  <2>1. child \in 0 .. begun
    BY <1>4
  <2>2. listener' \in [Reqs -> 0 .. begun]
    <3>1. listener' = [listener EXCEPT ![proc] = child]
      BY <1>2
    <3> QED
      BY <1>4, <2>1, <3>1
  <2>6. pid' \in [Reqs -> -1 .. begun]
    <3>1. pid' = [pid EXCEPT ![proc] = child] /\ child \in -1 .. begun
      BY <1>2, <1>4, <2>1
    <3> QED
      BY <1>4, <3>1
  <2>3. faults' \in 0 .. MaxFaults
    <3>1. faults' \in {faults, faults + 1} /\ faults' <= MaxFaults
      BY <1>2
    <3> QED
      BY <1>4, <3>1
  <2>4. process' \in [Reqs -> {"none", "running", "exited", "killed"}]
    <3>1. CASE forked
      BY <1>2, <1>4, <3>1
    <3>2. CASE ~forked
      BY <1>2, <1>4, <3>2
    <3> QED
      BY <3>1, <3>2
  <2>5. sock' \in [Reqs -> 0 .. begun] /\ path' \in [Reqs -> BOOLEAN]
    <3>1. path' = [path EXCEPT ![proc] = bound]
      BY <1>2
    <3>2. sock' \in [Reqs -> 0 .. begun]
      <4>1. sock' = [sock EXCEPT ![proc] = None] /\ None \in 0 .. begun
        BY <1>1, <1>4
      <4> QED
        BY <1>4, <4>1
    <3>3. path' \in [Reqs -> BOOLEAN]
      BY <1>4, <3>1
    <3> QED
      BY <3>2, <3>3
  <2> QED
    BY <2>2, <2>3, <2>4, <2>5, <2>6
<1>7. /\ \A q \in Reqs : q # proc =>
           /\ sock'[q] = sock[q] /\ pid'[q] = pid[q] /\ path'[q] = path[q]
           /\ listener'[q] = listener[q]
      /\ \A q \in Reqs : q # r => process'[q] = process[q]
      /\ sock'[proc] = None /\ listener'[proc] \in {None, r}
      /\ pid'[proc] = listener'[proc]
      /\ pid'[proc] = None => process'[r] = process[r]
      /\ pid'[proc] # None => process'[r] = "running"
  BY <1>1, <1>2, <1>4
<1>8. \A q \in Reqs : q # r /\ q \notin overlap => Same(q)
  <2> SUFFICES ASSUME NEW q \in Reqs, q # r, q \notin overlap PROVE Same(q)
    OBVIOUS
  <2>1. q # proc /\ q # sock[proc]
    BY <1>1, Quiet
  <2> QED
    BY <1>5, <1>7, <2>1 DEF Same
<1>9. r \notin overlap => OwnOf(r)' /\ Stage(t, r)'
  <2> SUFFICES ASSUME r \notin overlap PROVE OwnOf(r)' /\ Stage(t, r)'
    OBVIOUS
  <2>1. proc = r /\ Fresh(r) /\ OwnOf(r)
    BY <1>1, AloneHere DEF Stage, IInv, Own
  <2>2. conns'[r] = conns[r] /\ conns[r] = NoConn /\ process[r] = "none"
    BY <1>5, <2>1 DEF Fresh
  <2>3. OwnOf(r)'
    BY <1>1, <2>1, <2>2 DEF OwnOf
  <2>4. Stage(t, r)'
    BY <1>1, <1>3, <1>7, <2>1, <2>2 DEF Stage, Joined, Apart
  <2> QED
    BY <2>3, <2>4
<1>10. Numbered' /\ Later' /\ Own' /\ Left' /\ Stages' /\ CrashHasCause'
  BY <1>1, <1>3, <1>8, <1>9, Carried
<1>11. TypeOK'
  <2>1. pc \in [Threads -> {"idle", "assign", "launch", "connect",
                            "unreachable", "params", "stdin", "end", "read",
                            "disconnect", "reset"}]
    BY DEF IInv, TypeOK
  <2> QED
    BY <1>1, <1>5, <1>6, <2>1 DEF IInv, TypeOK
<1>12. Held'
  BY <1>1 DEF IInv, Held
<1>13. Expiring'
  BY <1>1, <1>3 DEF IInv, Expiring, Joined
<1>14. Linked'
  <2>1. Met(proc, r)
    BY <1>1, HandleMet
  <2>2. \A q \in Reqs : /\ sock'[q] \in {None, sock[q]}
                        /\ conns'[q].peer \in {None, conns[q].peer}
    BY <1>5, <1>7 DEF NoConn
  <2>3. Linked /\ overlap' = overlap
    BY <1>1 DEF IInv
  <2> QED
    BY <1>7, <2>1, <2>2, <2>3 DEF Linked, Met
<1> QED
  BY <1>10, <1>11, <1>12, <1>13, <1>14 DEF IInv

\* The connection is made, to the process that listens on the socket, or it is
\* not.
LEMMA ConnectPreserves ==
  ASSUME IInv, NEW t \in Threads, Connect(t)
  PROVE  IInv'
<1>1. /\ pc[t] = "connect" /\ proc # None /\ crashed = "no"
      /\ UNCHANGED <<begun, req, answered, overlap, faults, proc, pid, path,
                     listener, process, crashed>>
  BY DEF Connect, At, requests
<1> SUFFICES ASSUME NEW r \in Reqs, req[t] = r, r <= begun, proc \in Reqs
             PROVE  IInv'
  BY <1>1, RequestTyped
<1>2. /\ pc \in [Threads -> {"idle", "assign", "launch", "connect",
                             "unreachable", "params", "stdin", "end", "read",
                             "disconnect", "reset"}]
      /\ status \in [Threads -> {"none", "done", "400", "502", "503"}]
      /\ sock \in [Reqs -> 0 .. begun] /\ listener \in [Reqs -> 0 .. begun]
      /\ conns \in [Reqs -> Conns]
      /\ begun \in 0 .. MaxRequests /\ expired \in BOOLEAN
  BY DEF IInv, TypeOK
<1>3. /\ Closed(proc) \in [Reqs -> Conns]
      /\ \A q \in Reqs : /\ q = sock[proc] => Closed(proc)[q] = NoConn
                         /\ q # sock[proc] => Closed(proc)[q] = conns[q]
  BY ClosedConns
<1>4. /\ Met(proc, r) /\ Linked /\ Expiring
      /\ listener[proc] # None => Met(proc, listener[proc])
  BY <1>1, HandleMet DEF IInv, Linked
<1>5. ASSUME NEW q \in Reqs, q # r, q \notin overlap
      PROVE  q # proc /\ q # sock[proc]
  BY <1>1, <1>5, Quiet
<1>6. ASSUME r \notin overlap
      PROVE  proc = r /\ sock[r] = None /\ conns[r] = NoConn /\ OwnOf(r)
             /\ pid[r] \in {None, r} /\ process[r] # "killed"
             /\ (pid[r] = None => process[r] # "running")
  BY <1>1, <1>6, AloneHere DEF Stage, Apart, IInv, Own
<1>7. CASE Reachable(proc)
  <2> DEFINE new == [peer |-> listener[proc], in |-> <<>>, answer |-> None,
                 left |-> FALSE]
  <2>1. /\ conns' = [Closed(proc) EXCEPT ![r] = new]
        /\ sock' = [sock EXCEPT ![proc] = r] /\ expired' = TRUE
        /\ pc' = [pc EXCEPT ![t] = "params"] /\ UNCHANGED status
    BY <1>7 DEF Connect, Goto, NoConn
  <2>2. /\ listener[proc] \in Reqs /\ process[listener[proc]] = "running"
    BY <1>2, <1>7 DEF Reachable
  <2>3. new \in Conns /\ new.peer = listener[proc] /\ new.in = <<>>
        /\ new.answer = None
    BY <2>2 DEF Conns
  <2> HIDE DEF new
  <2>4. /\ conns' \in [Reqs -> Conns] /\ conns'[r] = new
        /\ \A q \in Reqs : q # r => conns'[q] = Closed(proc)[q]
    BY <1>3, <2>1, <2>3
  <2>5. /\ sock' \in [Reqs -> 0 .. begun] /\ sock'[proc] = r
        /\ \A q \in Reqs : q # proc => sock'[q] = sock[q]
    BY <1>2, <2>1
  <2>6. pc'[t] = "params" /\ \A u \in Threads : u # t => pc'[u] = pc[u]
    BY <1>2, <2>1
  <2>7. \A q \in Reqs : q # r /\ q \notin overlap => Same(q)
    BY <1>1, <1>3, <1>5, <2>4, <2>5 DEF Same
  <2>8. ASSUME r \notin overlap PROVE OwnOf(r)' /\ Stage(t, r)'
    <3>1. listener[r] = r /\ process[r] = "running"
      BY <1>4, <1>6, <2>2, <2>8 DEF Met
    <3>2. OwnOf(r)'
      BY <1>1, <1>6, <2>3, <2>4, <2>8 DEF OwnOf, Sendings
    <3>3. Stage(t, r)'
      BY <1>1, <1>6, <2>3, <2>4, <2>5, <2>6, <2>8, <3>1
      DEF Stage, Joined, Apart
    <3> QED
      BY <3>2, <3>3
  <2>9. Numbered' /\ Later' /\ Own' /\ Left' /\ Stages' /\ CrashHasCause'
    BY <1>1, <2>6, <2>7, <2>8, Carried
  <2>10. TypeOK'
    <3>1. pc' \in [Threads -> {"idle", "assign", "launch", "connect",
                               "unreachable", "params", "stdin", "end", "read",
                               "disconnect", "reset"}]
      BY <1>2, <2>1
    <3> QED
      BY <1>1, <2>1, <2>4, <2>5, <3>1 DEF IInv, TypeOK
  <2>11. Held' /\ Expiring'
    BY <1>1, <2>1, <2>6 DEF IInv, Held, Expiring, Joined
  <2>12. Linked'
    <3>1. Met(r, listener[proc]) /\ overlap' = overlap
      BY <1>1, <1>4, <2>2 DEF Met
    <3>2. \A q \in Reqs : q # r => conns'[q].peer \in {None, conns[q].peer}
      BY <1>3, <2>4 DEF NoConn
    <3>3. \A q \in Reqs : sock'[q] # None => Met(q, sock'[q])
      BY <1>4, <2>5 DEF Linked, Met
    <3>4. \A q \in Reqs : conns'[q].peer # None => Met(q, conns'[q].peer)
      BY <1>4, <2>3, <2>4, <3>1, <3>2 DEF Linked
    <3> QED
      BY <1>1, <1>4, <3>1, <3>3, <3>4 DEF Linked, Met
  <2> QED
    BY <2>9, <2>10, <2>11, <2>12 DEF IInv
<1>8. CASE ~Reachable(proc)
  <2>1. /\ conns' = Closed(proc)
        /\ sock' = [sock EXCEPT ![proc] = None]
        /\ pc' = [pc EXCEPT ![t] = "unreachable"]
        /\ status' = [status EXCEPT ![t] = "503"] /\ UNCHANGED expired
    BY <1>8 DEF Connect, Goto
  <2>2. /\ sock' \in [Reqs -> 0 .. begun] /\ sock'[proc] = None
        /\ \A q \in Reqs : q # proc => sock'[q] = sock[q]
    BY <1>2, <2>1
  <2>3. pc'[t] = "unreachable" /\ \A u \in Threads : u # t => pc'[u] = pc[u]
    BY <1>2, <2>1
  <2>4. \A q \in Reqs : q # r /\ q \notin overlap => Same(q)
    BY <1>1, <1>3, <1>5, <2>1, <2>2 DEF Same
  <2>5. ASSUME r \notin overlap PROVE OwnOf(r)' /\ Stage(t, r)'
    <3>1. conns'[r] = conns[r]
      BY <1>3, <1>6, <2>1, <2>5
    <3>2. OwnOf(r)'
      BY <1>1, <1>6, <2>5, <3>1 DEF OwnOf
    <3>3. Stage(t, r)'
      BY <1>1, <1>6, <2>2, <2>3, <2>5, <3>1 DEF Stage, Joined, Apart
    <3> QED
      BY <3>2, <3>3
  <2>6. Numbered' /\ Later' /\ Own' /\ Left' /\ Stages' /\ CrashHasCause'
    BY <1>1, <2>3, <2>4, <2>5, Carried
  <2>7. TypeOK'
    <3>1. /\ pc' \in [Threads -> {"idle", "assign", "launch", "connect",
                                  "unreachable", "params", "stdin", "end",
                                  "read", "disconnect", "reset"}]
          /\ status' \in [Threads -> {"none", "done", "400", "502", "503"}]
      BY <1>2, <2>1
    <3> QED
      BY <1>1, <1>3, <2>1, <2>2, <3>1 DEF IInv, TypeOK
  <2>8. Held' /\ Expiring'
    BY <1>1, <2>1, <2>3 DEF IInv, Held, Expiring, Joined
  <2>9. Linked'
    <3>1. \A q \in Reqs : conns'[q].peer \in {None, conns[q].peer}
      BY <1>3, <2>1 DEF NoConn
    <3> QED
      BY <1>1, <1>4, <2>2, <3>1 DEF Linked, Met
  <2> QED
    BY <2>6, <2>7, <2>8, <2>9 DEF IInv
<1> QED
  BY <1>7, <1>8

\* A record is written, on the connection that the handle has.
LEMMA WritePreserves ==
  ASSUME IInv, NEW t \in Threads, WriteParams(t) \/ WriteBody(t) \/ WriteEnd(t)
  PROVE  IInv'
<1>1. PICK part \in {"params", "body", "end"},
           next \in {"stdin", "end", "read"} :
        /\ pc[t] \in {"params", "stdin", "end"} /\ crashed = "no"
        /\ pc[t] = "params" => part = "params" /\ next = "stdin"
        /\ pc[t] = "stdin" => part = "body" /\ next = "end"
        /\ pc[t] = "end" => part = "end" /\ next = "read"
        /\ WriteRecord(t, part, next)
  BY DEF WriteParams, WriteBody, WriteEnd, At
<1>2. /\ proc # None /\ sock[proc] # None /\ PeerOpen(sock[proc])
      /\ conns' = [conns EXCEPT ![sock[proc]].in =
                     Append(@, [of |-> req[t], part |-> part])]
      /\ pc' = [pc EXCEPT ![t] = next]
      /\ UNCHANGED <<begun, req, answered, overlap, faults, status, proc,
                     expired, sock, pid, path, listener, process, crashed>>
  BY <1>1 DEF WriteRecord, Goto, requests, object
<1>3. req[t] # None
  BY <1>1, RequestTyped
<1> SUFFICES ASSUME NEW r \in Reqs, req[t] = r, r <= begun, proc \in Reqs
             PROVE  IInv'
  BY <1>2, <1>3, RequestTyped
<1>4. /\ pc \in [Threads -> {"idle", "assign", "launch", "connect",
                             "unreachable", "params", "stdin", "end", "read",
                             "disconnect", "reset"}]
      /\ sock \in [Reqs -> 0 .. begun] /\ conns \in [Reqs -> Conns]
      /\ begun \in 0 .. MaxRequests
  BY DEF IInv, TypeOK
<1> SUFFICES ASSUME NEW c \in Reqs, sock[proc] = c PROVE IInv'
  BY <1>2, <1>4
<1> DEFINE longer == Append(conns[c].in, Record(r, part))
<1>5. longer \in Seq(Records)
  <2>1. Record(r, part) \in Records /\ conns[c].in \in Seq(Records)
    BY <1>4 DEF Record, Records, Conns
  <2> QED
    BY <2>1
<1>6. conns' = [conns EXCEPT ![c].in = longer]
  BY <1>2 DEF Record
<1> HIDE DEF longer
<1>7. /\ conns' \in [Reqs -> Conns]
      /\ \A q \in Reqs : q # c => conns'[q] = conns[q]
      /\ conns'[c].in = longer /\ conns'[c].peer = conns[c].peer
      /\ conns'[c].answer = conns[c].answer
  BY <1>4, <1>5, <1>6 DEF Conns
<1>8. pc'[t] = next /\ \A u \in Threads : u # t => pc'[u] = pc[u]
  BY <1>2, <1>4
<1>9. \A q \in Reqs : q # r /\ q \notin overlap => Same(q)
  <2> SUFFICES ASSUME NEW q \in Reqs, q # r, q \notin overlap PROVE Same(q)
    OBVIOUS
  <2>1. q # c
    BY <1>2, Quiet
  <2> QED
    BY <1>2, <1>7, <2>1 DEF Same
<1>10. ASSUME r \notin overlap PROVE OwnOf(r)' /\ Stage(t, r)'
  <2>1. Stage(t, r) /\ OwnOf(r)
    BY <1>10, AloneHere DEF IInv, Own
  <2>2. proc = r /\ c = r /\ conns[r].peer = r
    BY <1>1, <2>1 DEF Stage, Joined
  <2>3. conns[r].answer # Taken
    BY <1>1, <2>1, Spelled DEF Stage, OwnOf
  <2>4. /\ pc[t] = "params" => longer = SentParams(r)
        /\ pc[t] = "stdin" => longer = SentBody(r)
        /\ pc[t] = "end" => longer = SentEnd(r)
    BY <1>1, <2>1, <2>2 DEF Stage, longer, SentParams, SentBody, SentEnd
  <2>5. OwnOf(r)'
    BY <1>1, <1>2, <1>7, <2>1, <2>2, <2>3, <2>4 DEF OwnOf, Sendings
  <2>6. /\ pid[r] \in {None, r} /\ process[r] # "killed" /\ sock[r] = r
        /\ process[r] # "none" /\ (pid[r] = None => process[r] # "running")
    BY <1>1, <2>1 DEF Stage, Joined
  <2>7. Stage(t, r)'
    BY <1>1, <1>2, <1>7, <1>8, <2>2, <2>4, <2>6 DEF Stage, Joined, Apart
  <2> QED
    BY <2>5, <2>7
<1>11. Numbered' /\ Later' /\ Own' /\ Left' /\ Stages' /\ CrashHasCause'
  BY <1>1, <1>2, <1>8, <1>9, <1>10, Carried
<1>12. TypeOK'
  <2>1. pc' \in [Threads -> {"idle", "assign", "launch", "connect",
                             "unreachable", "params", "stdin", "end", "read",
                             "disconnect", "reset"}]
    BY <1>2, <1>4
  <2> QED
    BY <1>2, <1>7, <2>1 DEF IInv, TypeOK
<1>13. Held'
  BY <1>2 DEF IInv, Held
<1>14. Expiring'
  BY <1>1, <1>2, <1>8 DEF IInv, Expiring, Joined
<1>15. Linked'
  <2>1. \A q \in Reqs : conns'[q].peer = conns[q].peer
    BY <1>7
  <2> QED
    BY <1>2, <2>1 DEF IInv, Linked, Met
<1> QED
  BY <1>11, <1>12, <1>13, <1>14, <1>15 DEF IInv

\* The answer is read from the connection that the handle has.
LEMMA AnswerReadPreserves ==
  ASSUME IInv, NEW t \in Threads, AnswerRead(t)
  PROVE  IInv'
<1>1. /\ pc[t] = "read" /\ crashed = "no"
      /\ proc # None /\ sock[proc] # None
      /\ conns[sock[proc]].answer \notin {None, Taken}
      /\ answered' = [answered EXCEPT ![req[t]] = conns[sock[proc]].answer]
      /\ conns' = [conns EXCEPT ![sock[proc]].answer = Taken]
      /\ status' = [status EXCEPT ![t] = "done"]
      /\ pc' = [pc EXCEPT ![t] = "disconnect"]
      /\ UNCHANGED <<begun, req, overlap, faults, proc, expired, sock, pid,
                     path, listener, process, crashed>>
  BY DEF AnswerRead, At, Goto, object
<1> SUFFICES ASSUME NEW r \in Reqs, req[t] = r, r <= begun, proc \in Reqs
             PROVE  IInv'
  BY <1>1, RequestTyped
<1>2. /\ pc \in [Threads -> {"idle", "assign", "launch", "connect",
                             "unreachable", "params", "stdin", "end", "read",
                             "disconnect", "reset"}]
      /\ status \in [Threads -> {"none", "done", "400", "502", "503"}]
      /\ sock \in [Reqs -> 0 .. begun] /\ conns \in [Reqs -> Conns]
      /\ answered \in [Reqs -> Reqs \cup {None}]
      /\ begun \in 0 .. MaxRequests
  BY DEF IInv, TypeOK
<1> SUFFICES ASSUME NEW c \in Reqs, sock[proc] = c PROVE IInv'
  BY <1>1, <1>2
<1>3. conns[c].answer \in Reqs
  BY <1>1, <1>2 DEF Conns
<1>4. /\ answered' \in [Reqs -> Reqs \cup {None}]
      /\ answered'[r] = conns[c].answer
      /\ \A q \in Reqs : q # r => answered'[q] = answered[q]
  BY <1>1, <1>2, <1>3
<1>5. /\ conns' \in [Reqs -> Conns]
      /\ \A q \in Reqs : q # c => conns'[q] = conns[q]
      /\ conns'[c].in = conns[c].in /\ conns'[c].peer = conns[c].peer
      /\ conns'[c].answer = Taken
  BY <1>1, <1>2 DEF Conns
<1>6. pc'[t] = "disconnect" /\ \A u \in Threads : u # t => pc'[u] = pc[u]
  BY <1>1, <1>2
<1>7. \A q \in Reqs : q # r /\ q \notin overlap => Same(q)
  <2> SUFFICES ASSUME NEW q \in Reqs, q # r, q \notin overlap PROVE Same(q)
    OBVIOUS
  <2>1. q # c
    BY <1>1, Quiet
  <2> QED
    BY <1>1, <1>5, <2>1 DEF Same
<1>8. ASSUME r \notin overlap PROVE OwnOf(r)' /\ Stage(t, r)'
  <2>1. Stage(t, r) /\ OwnOf(r)
    BY <1>8, AloneHere DEF IInv, Own
  <2>2. /\ proc = r /\ c = r /\ conns[r].peer = r
        /\ pid[r] \in {None, r} /\ process[r] # "killed" /\ sock[r] = r
        /\ process[r] # "none" /\ (pid[r] = None => process[r] # "running")
        /\ conns[r].in = SentEnd(r)
    BY <1>1, <2>1 DEF Stage, Joined
  <2>3. OwnOf(r)'
    BY <1>1, <1>4, <1>5, <2>1, <2>2 DEF OwnOf
  <2>4. Stage(t, r)'
    BY <1>1, <1>5, <1>6, <2>2 DEF Stage, Joined, Apart
  <2> QED
    BY <2>3, <2>4
<1>9. Numbered' /\ Later' /\ Own' /\ Left' /\ Stages' /\ CrashHasCause'
  BY <1>1, <1>4, <1>6, <1>7, <1>8, Carried
<1>10. TypeOK'
  <2>1. /\ pc' \in [Threads -> {"idle", "assign", "launch", "connect",
                                "unreachable", "params", "stdin", "end", "read",
                                "disconnect", "reset"}]
        /\ status' \in [Threads -> {"none", "done", "400", "502", "503"}]
    BY <1>1, <1>2
  <2> QED
    BY <1>1, <1>4, <1>5, <2>1 DEF IInv, TypeOK
<1>11. Held'
  BY <1>1 DEF IInv, Held
<1>12. Expiring'
  BY <1>1, <1>6 DEF IInv, Expiring, Joined
<1>13. Linked'
  <2>1. \A q \in Reqs : conns'[q].peer = conns[q].peer
    BY <1>5
  <2> QED
    BY <1>1, <2>1 DEF IInv, Linked, Met
<1> QED
  BY <1>9, <1>10, <1>11, <1>12, <1>13 DEF IInv

\* The connection is closed.
LEMMA DisconnectPreserves ==
  ASSUME IInv, NEW t \in Threads, Disconnect(t)
  PROVE  IInv'
<1>1. /\ pc[t] = "disconnect" /\ proc # None /\ crashed = "no"
      /\ conns' = Closed(proc) /\ sock' = [sock EXCEPT ![proc] = None]
      /\ pc' = [pc EXCEPT ![t] = "reset"]
      /\ UNCHANGED <<begun, req, answered, overlap, faults, status, proc,
                     expired, pid, path, listener, process, crashed>>
  BY DEF Disconnect, At, Goto, requests
<1> SUFFICES ASSUME NEW r \in Reqs, req[t] = r, r <= begun, proc \in Reqs
             PROVE  IInv'
  BY <1>1, RequestTyped
<1>2. /\ pc \in [Threads -> {"idle", "assign", "launch", "connect",
                             "unreachable", "params", "stdin", "end", "read",
                             "disconnect", "reset"}]
      /\ sock \in [Reqs -> 0 .. begun] /\ begun \in 0 .. MaxRequests
  BY DEF IInv, TypeOK
<1>3. /\ conns' \in [Reqs -> Conns]
      /\ \A q \in Reqs : /\ q = sock[proc] => conns'[q] = NoConn
                         /\ q # sock[proc] => conns'[q] = conns[q]
  BY <1>1, ClosedConns
<1>4. /\ sock' \in [Reqs -> 0 .. begun] /\ sock'[proc] = None
      /\ \A q \in Reqs : q # proc => sock'[q] = sock[q]
  BY <1>1, <1>2
<1>5. pc'[t] = "reset" /\ \A u \in Threads : u # t => pc'[u] = pc[u]
  BY <1>1, <1>2
<1>6. \A q \in Reqs : q # r /\ q \notin overlap => Same(q)
  <2> SUFFICES ASSUME NEW q \in Reqs, q # r, q \notin overlap PROVE Same(q)
    OBVIOUS
  <2>1. q # proc /\ q # sock[proc]
    BY <1>1, Quiet
  <2> QED
    BY <1>1, <1>3, <1>4, <2>1 DEF Same
<1>7. ASSUME r \notin overlap PROVE OwnOf(r)' /\ Stage(t, r)'
  <2>1. Stage(t, r) /\ OwnOf(r)
    BY <1>7, AloneHere DEF IInv, Own
  <2>2. /\ proc = r /\ sock[r] = r
        /\ pid[r] \in {None, r} /\ process[r] # "killed"
        /\ (pid[r] = None => process[r] # "running")
    BY <1>1, <2>1 DEF Stage, Joined
  <2>3. conns'[r] = NoConn
    BY <1>3, <2>2
  <2>4. OwnOf(r)'
    BY <1>1, <2>1, <2>3 DEF OwnOf, NoConn, Sendings
  <2>5. Stage(t, r)'
    BY <1>1, <1>4, <1>5, <2>2, <2>3 DEF Stage, Joined, Apart
  <2> QED
    BY <2>4, <2>5
<1>8. Numbered' /\ Later' /\ Own' /\ Left' /\ Stages' /\ CrashHasCause'
  BY <1>1, <1>5, <1>6, <1>7, Carried
<1>9. TypeOK'
  <2>1. pc' \in [Threads -> {"idle", "assign", "launch", "connect",
                             "unreachable", "params", "stdin", "end", "read",
                             "disconnect", "reset"}]
    BY <1>1, <1>2
  <2> QED
    BY <1>1, <1>3, <1>4, <2>1 DEF IInv, TypeOK
<1>10. Held'
  BY <1>1 DEF IInv, Held
<1>11. Expiring'
  BY <1>1, <1>5 DEF IInv, Expiring, Joined
<1>12. Linked'
  <2>1. \A q \in Reqs : /\ sock'[q] \in {None, sock[q]}
                        /\ conns'[q].peer \in {None, conns[q].peer}
    BY <1>3, <1>4 DEF NoConn
  <2>2. Linked
    BY DEF IInv
  <2> QED
    BY <1>1, <2>1, <2>2 DEF Linked, Met
<1> QED
  BY <1>8, <1>9, <1>10, <1>11, <1>12 DEF IInv

\* The request returns; the handle and its object go.
LEMMA ResetPreserves ==
  ASSUME IInv, NEW t \in Threads, Reset(t)
  PROVE  IInv'
<1>1. pc[t] \in {"reset", "unreachable"} /\ crashed = "no"
  BY DEF Reset, At
<1>2. expired \/ pc[t] = "unreachable"
  BY <1>1 DEF IInv, Expiring, Joined
<1>3. /\ proc' = None /\ Destroy(proc)
      /\ pc' = [pc EXCEPT ![t] = "idle"] /\ req' = [req EXCEPT ![t] = None]
      /\ status' = [status EXCEPT ![t] = "none"]
      /\ UNCHANGED <<begun, answered, overlap, faults, expired, crashed>>
  BY <1>2 DEF Reset, Return, Goto
<1> SUFFICES ASSUME NEW r \in Reqs, req[t] = r, r <= begun PROVE IInv'
  BY <1>1, RequestTyped
<1>4. /\ sock' \in [Reqs -> 0 .. begun] /\ pid' \in [Reqs -> -1 .. begun]
      /\ path' \in [Reqs -> BOOLEAN] /\ listener' \in [Reqs -> 0 .. begun]
      /\ process' \in [Reqs -> {"none", "running", "exited", "killed"}]
      /\ conns' \in [Reqs -> Conns]
      /\ \A q \in Reqs : /\ sock'[q] \in {None, sock[q]}
                         /\ listener'[q] \in {None, listener[q]}
                         /\ pid'[q] \in {Unset, pid[q]}
                         /\ conns'[q] \in {NoConn, conns[q]}
      /\ \A q \in Reqs : q # r /\ q \notin overlap => Same(q)
  BY <1>3, Destroyed
<1>5. /\ pc \in [Threads -> {"idle", "assign", "launch", "connect",
                             "unreachable", "params", "stdin", "end", "read",
                             "disconnect", "reset"}]
      /\ status \in [Threads -> {"none", "done", "400", "502", "503"}]
      /\ req \in [Threads -> 0 .. begun] /\ begun \in 0 .. MaxRequests
      /\ path \in [Reqs -> BOOLEAN]
      /\ process \in [Reqs -> {"none", "running", "exited", "killed"}]
  BY DEF IInv, TypeOK
<1>6. /\ pc'[t] = "idle" /\ req'[t] = None
      /\ \A u \in Threads : u # t => pc'[u] = pc[u] /\ req'[u] = req[u]
  BY <1>3, <1>5
<1>7. ASSUME r \notin overlap PROVE OwnOf(r)' /\ LeftOf(r)'
  <2>1. Stage(t, r) /\ OwnOf(r)
    BY <1>7, AloneHere DEF IInv, Own
  <2>2. /\ proc = r /\ sock[r] = None /\ conns[r] = NoConn
        /\ pid[r] \in {None, r} /\ (pid[r] = None => process[r] # "running")
    BY <1>1, <2>1 DEF Stage, Apart
  <2>3. /\ conns' = conns /\ process' = Kill(pid[r])
        /\ path' = [path EXCEPT ![r] = FALSE]
    BY <1>3, <2>2 DEF Destroy, Closed, Killed
  <2>4. process'[r] # "running"
    BY <1>5, <2>2, <2>3 DEF Kill
  <2>5. ~path'[r]
    BY <1>5, <2>3
  <2> QED
    BY <1>3, <2>1, <2>2, <2>3, <2>4, <2>5 DEF OwnOf, LeftOf
<1>8. Numbered' /\ Later' /\ Own' /\ Left' /\ Stages' /\ CrashHasCause'
  <2>1. /\ \A q \in Reqs : q # r /\ q \notin overlap => Same(q)
        /\ begun' = begun /\ overlap' = overlap /\ crashed' = "no"
        /\ \A q \in Reqs : answered'[q] = answered[q]
    BY <1>1, <1>3, <1>4
  <2> QED
    BY <1>6, <1>7, <2>1, Carried
<1>9. TypeOK'
  <2>1. /\ pc' \in [Threads -> {"idle", "assign", "launch", "connect",
                                "unreachable", "params", "stdin", "end", "read",
                                "disconnect", "reset"}]
        /\ status' \in [Threads -> {"none", "done", "400", "502", "503"}]
        /\ req' \in [Threads -> 0 .. begun] /\ proc' \in 0 .. begun
    BY <1>3, <1>5
  <2> QED
    BY <1>3, <1>4, <2>1 DEF IInv, TypeOK
<1>10. Held'
  BY <1>3 DEF Held
<1>11. Expiring'
  BY <1>3, <1>6 DEF IInv, Expiring, Joined
<1>12. Linked'
  <2>1. Linked /\ overlap' = overlap
    BY <1>3 DEF IInv
  <2>2. \A q \in Reqs : conns'[q].peer \in {None, conns[q].peer}
    BY <1>4 DEF NoConn
  <2>3. ASSUME NEW q \in Reqs, pid'[q] > 0 PROVE pid'[q] = pid[q]
    <3>1. pid'[q] \in {-1, pid[q]}
      BY <1>4
    <3>2. pid'[q] # -1
      BY <2>3
    <3> QED
      BY <3>1, <3>2
  <2>4. \A q \in Reqs : sock'[q] \in {None, sock[q]}
                       /\ listener'[q] \in {None, listener[q]}
    BY <1>4
  <2> QED
    BY <2>1, <2>2, <2>3, <2>4 DEF Linked, Met
<1> QED
  BY <1>8, <1>9, <1>10, <1>11, <1>12 DEF IInv

-----------------------------------------------------------------------------
(* The theorems.                                                            *)

LEMMA Invariance == Spec => []IInv
<1>1. Init => IInv
  BY InitInvariant
<1>2. IInv /\ [Next]_vars => IInv'
  <2> SUFFICES ASSUME IInv, [Next]_vars PROVE IInv'
    OBVIOUS
  <2>1. ASSUME NEW t \in Threads, Begin(t) PROVE IInv'
    BY <2>1, BeginPreserves
  <2>2. ASSUME NEW t \in Threads, Step(t) PROVE IInv'
    <3>1. CASE WriteFails(t) \/ BodyFails(t) \/ ReadFails(t)
      BY <3>1, FailPreserves
    <3>2. CASE NullCall(t) \/ BrokenPipe(t)
      BY <3>2, CrashPreserves
    <3>3. CASE WriteParams(t) \/ WriteBody(t) \/ WriteEnd(t)
      BY <3>3, WritePreserves
    <3>4. CASE Assign(t)
      BY <3>4, AssignPreserves
    <3>5. CASE Launch(t)
      BY <3>5, LaunchPreserves
    <3>6. CASE Connect(t)
      BY <3>6, ConnectPreserves
    <3>7. CASE AnswerRead(t)
      BY <3>7, AnswerReadPreserves
    <3>8. CASE Disconnect(t)
      BY <3>8, DisconnectPreserves
    <3>9. CASE Reset(t)
      BY <3>9, ResetPreserves
    <3> QED
      BY <2>2, <3>1, <3>2, <3>3, <3>4, <3>5, <3>6, <3>7, <3>8, <3>9 DEF Step
  <2>3. ASSUME NEW c \in Reqs, Backend(c) PROVE IInv'
    BY <2>3, BackendPreserves
  <2>4. CASE UNCHANGED vars
    <3>1. UNCHANGED <<begun, faults, pc, req, status, answered, overlap, proc,
                      expired, sock, pid, path, listener, process, conns,
                      crashed>>
      BY <2>4 DEF vars, requests, object
    <3>2. TypeOK' /\ Numbered' /\ Held' /\ Expiring' /\ CrashHasCause'
      BY <3>1 DEF IInv, TypeOK, Numbered, Held, Expiring, CrashHasCause
    <3>3. Linked' /\ Later' /\ Own' /\ Left'
      BY <3>1 DEF IInv, Linked, Met, Later, Fresh, Own, OwnOf, Left, LeftOf,
                  Ended
    <3>4. Stages'
      BY <3>1 DEF IInv, Stages, Stage, Fresh
    <3> QED
      BY <3>2, <3>3, <3>4 DEF IInv
  <2> QED
    BY <2>1, <2>2, <2>3, <2>4 DEF Next
<1> QED
  BY <1>1, <1>2, PTL DEF Spec

\* However many workers meet in the gateway, and whatever the backends do: a
\* request that was alone is answered by its own backend, which was sent its
\* records and no others; and the server dies only where two requests met, or
\* where a backend ended, or answered and closed, before it was sent the whole
\* request (invoke_fastcgi, the unguarded MyHandler::proc, write_all_fd).
THEOREM Isolated == Spec => []RequestsIsolated
<1>1. IInv => RequestsIsolated
  <2> SUFFICES ASSUME IInv PROVE RequestsIsolated
    OBVIOUS
  <2>1. TypeOK /\ CrashHasCause
    BY DEF IInv
  <2>2. OwnAnswer
    <3> SUFFICES ASSUME NEW r \in Reqs, r \notin overlap
                 PROVE  /\ answered[r] \in {None, r}
                        /\ conns[r].peer \in {None, r}
                        /\ Len(conns[r].in) <= Len(Parts)
                        /\ \A k \in 1 .. Len(conns[r].in) :
                             conns[r].in[k] = [of |-> r, part |-> Parts[k]]
                        /\ conns[r].answer = Taken =>
                             Len(conns[r].in) = Len(Parts)
      BY DEF OwnAnswer
    <3>1. OwnOf(r) /\ (conns[r].peer # None => Met(r, conns[r].peer))
      BY DEF IInv, Own, Linked
    <3>2. /\ Len(conns[r].in) <= Len(Parts)
          /\ \A k \in 1 .. Len(conns[r].in) :
               conns[r].in[k] = Record(r, Parts[k])
          /\ conns[r].in = SentEnd(r) => Len(conns[r].in) = Len(Parts)
      BY <3>1, Spelled DEF OwnOf
    <3> QED
      BY <3>1, <3>2, Zenon DEF OwnOf, Met, Record
  <2> QED
    BY <2>1, <2>2 DEF RequestsIsolated
<1> QED
  BY <1>1, Invariance, PTL

\* A request that was alone leaves no process, connection or socket file on any
\* return path; and when all requests have returned, no handle is left.
THEOREM LeavesNothing == Spec => []NothingLeft
<1>1. IInv => NothingLeft
  <2> SUFFICES ASSUME IInv PROVE NothingLeft
    OBVIOUS
  <2>1. Busy = {} => proc = None
    BY RequestTyped DEF IInv, Held, Numbered, Busy
  <2>2. \A r \in Reqs \ overlap : Ended(r) => LeftOf(r)
    BY DEF IInv, Left
  <2> QED
    BY <2>1, <2>2 DEF NothingLeft, LeftOf
<1> QED
  BY <1>1, Invariance, PTL
==============================================================================
