------------------------------ MODULE SessionIds ------------------------------
(***************************************************************************)
(* Where MCP session ids and the names of a backend's sockets come from:   *)
(* uuidv7() of misc/uuid.cpp, called by all worker threads, and the random *)
(* words of misc/ChaCha20.cpp, drawn one at a time under a mutex.          *)
(*                                                                         *)
(* A word of 32 bits is the pair of its halves, and an id the sequence of  *)
(* its eight groups of 16 bits.  What the cipher makes of a block and a    *)
(* place in it is stood for by numbers that are different for different    *)
(* blocks and places (Word): they have two upper bits, which go elsewhere, *)
(* and as many lower ones as it takes.                                     *)
(***************************************************************************)
EXTENDS Integers, Sequences, FiniteSets

CONSTANTS
  Threads,
  BufferSize,   \* BUFFER_SIZE, the words of a block
  KeySize,      \* sizeof(key_) + sizeof(nonce_)
  MaxClock,     \* bound on the clock, in microseconds
  MaxIds        \* bound on the ids

ASSUME IdAssumption ==
  /\ BufferSize \in Nat \ {0} /\ KeySize \in Nat
  /\ MaxClock \in Nat /\ MaxIds \in Nat
  /\ "none" \notin Threads

VARIABLES
  filled,    \* octets of key_ and nonce_ that getrandom() has given
  aborted,   \* the program has given up for want of random octets
  counter,   \* state_[12]
  index,     \* index_
  buffer,    \* buffer_, by the block it comes from
  lock,      \* who holds rng_mutex, or "none"
  clock,     \* microseconds
  at,        \* each thread: where it is
  id,        \* each thread: the time and the words of the id it makes
  ids        \* all the ids that have been handed out, in their order

seed == <<filled, aborted>>
block == <<counter, index, buffer>>
idVars == <<seed, block, lock, clock, at, id, ids>>

SixteenBits == 65536
Dash == -1

-----------------------------------------------------------------------------
(* The shape of an id.                                                     *)

Word(number, place) ==
  LET n == number * BufferSize + place
  IN  <<((n % 4) * 16384) + ((n \div 4) % 16384), n * 257>>

\* Version 7: 48 bits of milliseconds; 10 of microseconds, and the two upper
\* ones of a word; the rest of it behind the two bits of the variant; a word.
Uuidv7(time, hi, lo) ==
  LET ms == time \div 1000
      us == time % 1000
  IN  <<0, ms \div SixteenBits, ms % SixteenBits,
        7 * 4096 + us * 4 + hi[1] \div 16384,
        32768 + (hi[1] % 16384), hi[2], lo[1], lo[2]>>

\* Groups of four digits, with or without dashes.
UuidToString(groups) ==
  <<groups[1], groups[2], Dash, groups[3], Dash, groups[4], Dash, groups[5],
    Dash, groups[6], groups[7], groups[8]>>
SessionId(groups) == groups

-----------------------------------------------------------------------------
(* The generator is seeded before main() runs; one thread is all there is. *)

IdInit ==
  /\ filled = 0 /\ aborted = FALSE
  /\ counter = 0 /\ index = 0 /\ buffer = 0 /\ lock = "none"
  /\ clock = 999 /\ at = [t \in Threads |-> "idle"]
  /\ id = [t \in Threads |-> [time |-> 0, words |-> <<>>]]
  /\ ids = <<>>

\* getrandom() gives all, some, is interrupted, or fails for good.
FillRandom ==
  /\ filled < KeySize /\ ~aborted
  /\ \/ \E n \in 0..(KeySize - filled) :
          IF n = 0 THEN aborted' = TRUE /\ UNCHANGED filled
          ELSE filled' = filled + n /\ UNCHANGED aborted
     \/ UNCHANGED <<filled, aborted>>
  /\ UNCHANGED <<block, lock, clock, at, id, ids>>

Seeded == filled = KeySize

Tick ==
  /\ Seeded /\ clock < MaxClock
  /\ clock' = clock + 1
  /\ UNCHANGED <<seed, block, lock, at, id, ids>>

Begin(t) ==
  /\ Seeded /\ at[t] = "idle"
  /\ Len(ids) + Cardinality({u \in Threads : at[u] # "idle"}) < MaxIds
  /\ at' = [at EXCEPT ![t] = "lock"]
  /\ id' = [id EXCEPT ![t] = [time |-> clock, words |-> <<>>]]
  /\ UNCHANGED <<seed, block, lock, clock, ids>>

\* Mutant of Lock: the mutex is not waited for.
LockIgnored(t) ==
  /\ at[t] = "lock"
  /\ lock' = t /\ at' = [at EXCEPT ![t] = "block"]
  /\ UNCHANGED <<seed, block, clock, id, ids>>

Lock(t) ==
  /\ at[t] = "lock" /\ lock = "none"
  /\ lock' = t /\ at' = [at EXCEPT ![t] = "block"]
  /\ UNCHANGED <<seed, block, clock, id, ids>>

\* A new block when the last one is used up.
NextBlock(t) ==
  /\ at[t] = "block"
  /\ IF index = 0 THEN buffer' = counter /\ counter' = counter + 1
     ELSE UNCHANGED <<buffer, counter>>
  /\ at' = [at EXCEPT ![t] = "word"]
  /\ UNCHANGED <<seed, index, lock, clock, id, ids>>

NextWord(t) ==
  /\ at[t] = "word"
  /\ id' = [id EXCEPT ![t].words = Append(@, Word(buffer, index))]
  /\ at' = [at EXCEPT ![t] = "index"]
  /\ UNCHANGED <<seed, block, lock, clock, ids>>

\* The mutex is given back, and taken again for the second word.
NextIndex(t) ==
  /\ at[t] = "index"
  /\ index' = (index + 1) % BufferSize
  /\ lock' = "none"
  /\ at' = [at EXCEPT ![t] = IF Len(id[t].words) = 2 THEN "made" ELSE "lock"]
  /\ UNCHANGED <<seed, counter, buffer, clock, id, ids>>

HandOut(t) ==
  /\ at[t] = "made"
  /\ LET uuid == Uuidv7(id[t].time, id[t].words[1], id[t].words[2])
     IN  \E text \in {SessionId(uuid), UuidToString(uuid)} :
           ids' = Append(ids, [text |-> text, time |-> id[t].time])
  /\ at' = [at EXCEPT ![t] = "idle"]
  /\ UNCHANGED <<seed, block, lock, clock, id>>

IdNext ==
  \/ FillRandom \/ Tick
  \/ \E t \in Threads :
       \/ Begin(t) \/ Lock(t) \/ NextBlock(t) \/ NextWord(t) \/ NextIndex(t)
       \/ HandOut(t)

IdSpec == IdInit /\ [][IdNext]_idVars

-----------------------------------------------------------------------------

\* An id without its dashes.
Groups(text) ==
  IF Len(text) = 8 THEN text
  ELSE <<text[1], text[2], text[4], text[6], text[8], text[10], text[11],
         text[12]>>

Earlier(a, b) ==
  \E k \in 1..4 : a[k] < b[k] /\ \A j \in 1..(k - 1) : a[j] = b[j]

\* No two ids are the same, whatever threads make them at the same time, be
\* it in the same microsecond; and an id of an earlier microsecond sorts
\* before one of a later.
IdsUnique ==
  \A i, j \in 1..Len(ids) :
    LET a == Groups(ids[i].text)
        b == Groups(ids[j].text)
    IN  /\ i # j => a # b
        /\ ids[i].time < ids[j].time => Earlier(a, b)

=============================================================================
