-------------------------------- MODULE Digest --------------------------------
(***************************************************************************)
(* SHA-1 as serv/sha1.c computes it for the WebSocket handshake: a message *)
(* is taken in portions and processed a block at a time, and the last      *)
(* block is padded with a one, zeros and the length in bits.               *)
(*                                                                         *)
(* What the rounds make of the blocks is left open: the hash stands for    *)
(* the blocks that went into it, in their order.  A block has BlockSize    *)
(* octets, the two words of the length have one octet each, and they wrap  *)
(* at LowLimit and HighLimit.                                              *)
(***************************************************************************)
EXTENDS Integers, Sequences

CONSTANTS
  Octets,      \* what messages are made of
  Portions,    \* sizes of what one call is given
  MaxOctets,   \* bound on what one context is given
  BlockSize, LowLimit, HighLimit

\* A block holds the one and the length; the lower word of the length, which is
\* in bits, comes to zero when it wraps.
ASSUME DigestAssumption ==
  /\ {BlockSize, LowLimit, HighLimit, MaxOctets} \subseteq Nat
  /\ BlockSize > 2 /\ LowLimit > 0 /\ LowLimit % 8 = 0 /\ HighLimit > 0
  /\ Portions \subseteq Nat

VARIABLES
  context,     \* SHA1Context
  message,     \* what the context has been given since it was reset
  code         \* what the last call returned

digestVars == <<context, message, code>>

LengthPlace == BlockSize - 2   \* where the length begins in the last block

shaSuccess == 0
shaStateError == 3
TooLong == 1                \* the number that SHA1Input sets

-----------------------------------------------------------------------------
(* The steps inside the calls.                                             *)

Fresh(c) == [c EXCEPT !.low = 0, !.high = 0, !.index = 0, !.hash = <<>>,
                      !.computed = FALSE, !.corrupted = 0]

ProcessMessageBlock(c) ==
  [c EXCEPT !.hash = Append(@, c.block), !.index = 0]

Stored(c, octet) ==
  [c EXCEPT !.block[c.index + 1] = octet, !.index = @ + 1]

LengthCounted(c) ==
  LET low == (c.low + 8) % LowLimit
      high == IF low = 0 THEN (c.high + 1) % HighLimit ELSE c.high
  IN  [c EXCEPT !.low = low, !.high = high,
                !.corrupted = IF low = 0 /\ high = 0 THEN TooLong ELSE @]

OctetTaken(c, octet) ==
  IF c.corrupted # 0 THEN c
  ELSE LET d == LengthCounted(Stored(c, octet))
       IN  IF d.index = BlockSize THEN ProcessMessageBlock(d) ELSE d

\* A portion, octet by octet.
PortionTaken(c, octets) ==
  LET After[n \in 0..Len(octets)] ==
        IF n = 0 THEN c ELSE OctetTaken(After[n - 1], octets[n])
  IN  After[Len(octets)]

\* Zeros from the index up to a place of the block.
ZerosTo(c, place) ==
  [c EXCEPT !.block = [i \in 1..BlockSize |->
                         IF i > c.index /\ i <= place THEN 0 ELSE @[i]],
            !.index = place]

\* Mutant of PadMessage: a block with room for the length, but not for the
\* one before it, is taken for the last.
PadMessageTight(c) ==
  LET one == Stored(c, 128)
      padded == IF c.index > LengthPlace
                THEN ZerosTo(ProcessMessageBlock(ZerosTo(one, BlockSize)),
                             LengthPlace)
                ELSE ZerosTo(one, LengthPlace)
  IN  ProcessMessageBlock([padded EXCEPT !.block[LengthPlace + 1] = c.high,
                                         !.block[LengthPlace + 2] = c.low])

PadMessage(c) ==
  LET one == Stored(c, 128)
      padded == IF c.index > LengthPlace - 1
                THEN ZerosTo(ProcessMessageBlock(ZerosTo(one, BlockSize)),
                             LengthPlace)
                ELSE ZerosTo(one, LengthPlace)
  IN  ProcessMessageBlock([padded EXCEPT !.block[LengthPlace + 1] = c.high,
                                         !.block[LengthPlace + 2] = c.low])

-----------------------------------------------------------------------------
(* The calls.                                                              *)

\* A reset does not clear the block, so it holds anything, not only zeros.
DigestInit ==
  /\ context = Fresh([block |-> [i \in 1..BlockSize |-> 255],
                      index |-> 0, low |-> 0, high |-> 0, hash |-> <<>>,
                      computed |-> FALSE, corrupted |-> 0])
  /\ message = <<>> /\ code = shaSuccess

SHA1Reset ==
  /\ message # <<>>
  /\ context' = Fresh(context) /\ message' = <<>> /\ code' = shaSuccess

\* A message that gets too long is noticed, but not by the call's result.
SHA1Input(octets) ==
  /\ octets # <<>>
  /\ IF context.computed
     THEN /\ context' = [context EXCEPT !.corrupted = shaStateError]
          /\ code' = shaStateError
     ELSE /\ context' = PortionTaken(context, octets)
          /\ code' = context.corrupted
  /\ message' = message \o octets

SHA1Result ==
  /\ context' =
       IF context.corrupted # 0 \/ context.computed THEN context
       ELSE LET c == PadMessage(context)
            IN  [c EXCEPT !.block = [i \in 1..BlockSize |-> 0],
                          !.low = 0, !.high = 0, !.computed = TRUE]
  /\ code' = context.corrupted
  /\ UNCHANGED message

DigestNext ==
  \/ SHA1Reset
  \/ \E n \in Portions :
       /\ Len(message) + n <= MaxOctets
       /\ \E octets \in [1..n -> Octets] : SHA1Input(octets)
  \/ SHA1Result

DigestSpec == DigestInit /\ [][DigestNext]_digestVars

-----------------------------------------------------------------------------
(* The standard: the message, a one, as few zeros as there may be, and the *)
(* length, cut into blocks.                                                *)

Padded(m) ==
  LET zeros == (LengthPlace - 1 - Len(m)) % BlockSize
      bits == 8 * Len(m)
  IN  m \o <<128>> \o [i \in 1..zeros |-> 0]
        \o <<(bits \div LowLimit) % HighLimit, bits % LowLimit>>

Blocks(m) ==
  [k \in 1..(Len(Padded(m)) \div BlockSize) |->
     SubSeq(Padded(m), (k - 1) * BlockSize + 1, k * BlockSize)]

\* A digest is that of the whole message, however it was divided into calls
\* and however often the digest is asked for, of a message that was not too
\* long, and nothing was added to it after the first time it was asked for.
DigestOfWhole ==
  context.computed /\ context.corrupted = 0 =>
    /\ context.hash = Blocks(message)
    /\ 8 * Len(message) < LowLimit * HighLimit

=============================================================================
