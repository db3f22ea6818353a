-------------------------------- MODULE Printf --------------------------------
(***************************************************************************)
(* FCGX_VFPrintF of fcgi/libfcgi/fcgiapp.c, printf for a stream: every     *)
(* conversion is tried on a fast path first, without flags, width and      *)
(* precision, and on a slow path else, which bounds what sprintf() will    *)
(* write and takes a larger buffer where it has to.                        *)
(*                                                                         *)
(* Only lengths are kept.  An item of a format is some text, or a          *)
(* conversion: its letter (of d, u, c, p, s, n, f, e and % , each for all  *)
(* those treated alike), its size modifier, how many flags it has, its     *)
(* width and precision (none, written out, or * and an argument), and the  *)
(* length that the argument has by itself; for %f, without the precision,  *)
(* the digits in front of the point.                                       *)
(***************************************************************************)
EXTENDS Integers, Sequences

CONSTANT Formats

\* Widths and precisions: none, written out, which has no sign, or an argument.
FieldSpecs ==
  {f \in [kind : {"none", "digits", "star"}, n : Int] :
     f.kind = "digits" => f.n >= 0}

\* What an item may be.  By itself an integer, a character or an address takes
\* no more than the 46 characters with which the slow path bounds it.
Items ==
  {item \in [op : {"text", "d", "u", "c", "p", "s", "n", "f", "e", "%"},
             size : {" ", "l", "h", "L"}, flags : Nat,
             width : FieldSpecs, precision : FieldSpecs, len : Nat] :
     item.op \in {"d", "u", "c", "p"} => item.len <= 46}

ASSUME PrintfAssumption == Formats \subseteq Seq(Items)

PrintfBuffLen == 100
MaxField == 999999
DoubleDigits == 309   \* of DBL_MAX

VARIABLES
  format,   \* the items still to come, after the one at hand
  output,   \* characters of this call that have gone to the stream
  count,    \* streamCount
  taken,    \* arguments taken from the list
  wanted,   \* arguments that the items so far stand for
  aux,      \* auxBuffLen, 0 without one
  last,     \* what sprintf() wrote last, the room it had, and whether that
            \* was beyond what the bound looks at
  result    \* "idle", "none" yet, "ok", "error", or "overflow" behind the end
            \* of a buffer, after which nothing is defined

printfVars == <<format, output, count, taken, wanted, aux, last, result>>

Larger(a, b) == IF a > b THEN a ELSE b
Abs(n) == IF n < 0 THEN -n ELSE n

Nothing == [need |-> 0, room |-> 1, beyond |-> FALSE]
NoField == [kind |-> "none", n |-> 0]
Simple(item) ==
  item.flags = 0 /\ item.width = NoField /\ item.precision = NoField
Stars(item) ==
  (IF item.width.kind = "star" THEN 1 ELSE 0)
    + (IF item.precision.kind = "star" THEN 1 ELSE 0)
Wants(item) ==
  IF item.op = "text" THEN 0
  ELSE Stars(item) + (IF item.op = "%" THEN 0 ELSE 1)

-----------------------------------------------------------------------------
(* The two paths.                                                          *)

\* The size modifiers that the switch over the conversions knows.
Modifiers(op) ==
  CASE op \in {"d", "u", "n"} -> {" ", "l", "h"}
    [] op \in {"f", "e"} -> {" ", "L"}
    [] op \in {"c", "s", "p", "%"} -> {" "}

\* %f, and what is none of the letters, is left to the slow path.
Fast(item) ==
  IF ~Simple(item) \/ item.op = "f" THEN "slow"
  ELSE IF item.size \in Modifiers(item.op) THEN "done" ELSE "error"

MinWidth(item) == item.width.n
Precision(item) ==
  CASE item.precision.kind = "none" -> -1
    [] item.precision.kind = "star" -> Larger(item.precision.n, 0)
    [] OTHER -> item.precision.n

\* frexp(): the exponent of the smallest number with so many digits.
Exponent(digits) == ((digits - 1) * 332) \div 100 + 1

\* A long double is made a double before frexp(): with as many digits as
\* DBL_MAX it is taken to be above it, and infinity has the exponent 0.
Narrowed(item) == item.op = "f" /\ item.size = "L" /\ item.len >= DoubleDigits
Exp(item) == IF Narrowed(item) THEN 0 ELSE Exponent(item.len)

\* An upper bound on what the conversion itself takes.
Bound(item) ==
  LET p == Precision(item)
      six == IF p = -1 THEN 6 ELSE p
  IN  CASE item.op \in {"d", "u", "c", "p"} -> Larger(p, 46)
        [] item.op = "s" -> IF p = -1 \/ item.len < p THEN item.len ELSE p
        [] item.op = "f" -> six + 3 + Larger(Exp(item), 0) \div 3
        [] item.op = "e" -> six + 8

SlowFails(item) ==
  \/ item.flags > 5
  \/ Abs(MinWidth(item)) > MaxField \/ Precision(item) > MaxField
  \/ item.op \in {"n", "%"}
  \/ item.size \notin Modifiers(item.op)

\* Mutant of Reqd: the bound forgets what flags may add.
ReqdBare(item) == Larger(Bound(item), MinWidth(item))

Reqd(item) == Larger(Bound(item) + 10, MinWidth(item))

-----------------------------------------------------------------------------
(* sprintf() of the C library: sign, prefix and point are in len.          *)

Body(item) ==
  LET p == Precision(item)
      six == IF p = -1 THEN 6 ELSE p
  IN  CASE item.op \in {"d", "u"} -> Larger(item.len, p + 2)
        [] item.op \in {"c", "p"} -> item.len
        [] item.op = "s" -> IF p = -1 \/ item.len < p THEN item.len ELSE p
        [] item.op = "f" -> item.len + six + 2
        [] item.op = "e" -> six + 8
        [] item.op = "%" -> 1
        [] item.op = "n" -> 0
        [] OTHER -> item.len

Length(item) == Larger(Body(item), Abs(MinWidth(item)))

-----------------------------------------------------------------------------

\* A call's variables are its own, so one call is all there is.
PrintfInit ==
  /\ format = <<>> /\ output = 0 /\ count = 0 /\ taken = 0 /\ wanted = 0
  /\ aux = 0 /\ last = Nothing
  /\ result = "idle"

CallPrintf(f) ==
  /\ result = "idle"
  /\ format' = f /\ result' = "none"
  /\ UNCHANGED <<output, count, taken, wanted, aux, last>>

Put(n) == output' = output + n /\ count' = count + n

Literal ==
  /\ result = "none" /\ format # <<>> /\ Head(format).op = "text"
  /\ Put(Head(format).len)
  /\ format' = Tail(format)
  /\ UNCHANGED <<taken, wanted, aux, last, result>>

Fail(stars) ==
  /\ result' = "error" /\ count' = -1 /\ taken' = taken + stars
  /\ UNCHANGED <<format, output, wanted, aux, last>>

\* A string goes to the stream as it is, the rest by way of the array buff.
FastPath ==
  LET item == Head(format)
      room == IF item.op = "s" THEN item.len + 1 ELSE PrintfBuffLen
  IN  /\ result = "none" /\ format # <<>> /\ item.op # "text"
      /\ \/ /\ Fast(item) = "done"
            /\ Put(Length(item))
            /\ taken' = taken + Wants(item)
            /\ wanted' = wanted + Wants(item)
            /\ last' = [need |-> Length(item), room |-> room, beyond |-> FALSE]
            /\ format' = Tail(format)
            /\ UNCHANGED <<aux, result>>
         \/ Fast(item) = "error" /\ Fail(0)

\* The arguments of the stars are taken while the conversion is scanned, that
\* of %s and %f when it is bounded, and the others when they are converted.
\* What does not fit is written all the same.
SlowPath ==
  LET item == Head(format)
      size == IF Reqd(item) <= PrintfBuffLen THEN aux
              ELSE Larger(aux, Reqd(item))
      room == IF Reqd(item) <= PrintfBuffLen THEN PrintfBuffLen ELSE size
      scanned == Stars(item)
      bounded == IF item.op \in {"s", "f"} THEN 1 ELSE 0
      converted == IF item.op \in {"s", "f"} THEN 0 ELSE 1
  IN  /\ result = "none" /\ format # <<>> /\ item.op # "text"
      /\ Fast(item) = "slow"
      /\ \/ SlowFails(item) /\ Fail(scanned)
         \/ /\ ~SlowFails(item)
            /\ aux' = size
            /\ last' = [need |-> Length(item), room |-> room,
                        beyond |-> \/ Abs(MinWidth(item)) >= Bound(item) + 10
                                   \/ Narrowed(item)]
            /\ \/ /\ Length(item) < room
                  /\ Put(Length(item))
                  /\ taken' = taken + scanned + bounded + converted
                  /\ wanted' = wanted + Wants(item)
                  /\ format' = Tail(format)
                  /\ UNCHANGED result
               \/ /\ Length(item) >= room
                  /\ result' = "overflow"
                  /\ UNCHANGED <<format, output, count, taken, wanted>>

PrintfReturns ==
  /\ result = "none" /\ format = <<>>
  /\ result' = "ok"
  /\ UNCHANGED <<format, output, count, taken, wanted, aux, last>>

PrintfNext ==
  \/ \E f \in Formats : CallPrintf(f)
  \/ Literal \/ FastPath \/ SlowPath \/ PrintfReturns

PrintfSpec == PrintfInit /\ [][PrintfNext]_printfVars

-----------------------------------------------------------------------------

\* The count that is returned is what went to the stream, each conversion got
\* its own arguments, and sprintf() kept to the buffer that was bounded for it:
\* but for a field wider than its conversion and a long double above DBL_MAX,
\* which the bound does not cover (the assertion of fcgiapp.c:836 fails there).
PrintedWhole ==
  /\ result \notin {"error", "overflow"} => count = output /\ taken = wanted
  /\ last.beyond \/ last.need < last.room

=============================================================================
