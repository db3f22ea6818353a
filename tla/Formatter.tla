------------------------------ MODULE Formatter ------------------------------
(***************************************************************************)
(* string_formatter of misc/strformat.h, with which the server writes      *)
(* nearly every text it makes: a text with printf-like conversions, the    *)
(* arguments given one call at a time, and the parts that the result is    *)
(* put together from, in memory of an arena of its own (QuickAlloc).       *)
(*                                                                         *)
(* A text is a sequence of characters.  int32_t and int64_t have Bits and  *)
(* LongBits bits here, a double is counted in halves, and what is one      *)
(* character by its code is written as that code ("c65").                  *)
(***************************************************************************)
EXTENDS Integers, Sequences, SequencesExt, TLC

CONSTANTS
  Texts,        \* the texts to format
  Arguments,    \* of each text: what may be given first, what then, and so on,
                \* each as [value, width, precision]
  Again,        \* texts that a formatter is used for again
  MaxTexts,     \* bound on the texts one formatter is used for
  Bits, LongBits, CharBits,
  MaxNumber,    \* INT_MAX
  MaxPrecision, \* max_precision
  BufferSize,   \* default_buffer_size
  HeaderSize,   \* sizeof(Header)
  PartSize,     \* sizeof(Part)
  Alignment

VARIABLES
  text,    \* q.text
  head,    \* q.head, where the text not yet copied begins
  next,    \* q.next
  parts,   \* q.list, each part with its place in the arena
  blocks,  \* the arena's blocks, the first one being the object's own
  given,   \* the arguments so far
  shown,   \* what the last argument has become, or Nothing
  done,    \* the text has been rendered
  uses     \* texts formatted before

cursor == <<head, next, parts, blocks>>
vars == <<text, cursor, given, shown, done, uses>>

Nothing == [chars |-> <<>>, value |-> [type |-> "none"], hint |-> "none"]

Lower == <<"0", "1", "2", "3", "4", "5", "6", "7",
           "8", "9", "a", "b", "c", "d", "e", "f">>
Upper == <<"0", "1", "2", "3", "4", "5", "6", "7",
           "8", "9", "A", "B", "C", "D", "E", "F">>
Digit(n) == {Lower[i] : i \in 1..n}
ValueOf(c) == (CHOOSE i \in 1..16 : Lower[i] = c \/ Upper[i] = c) - 1
Letters == {"a", "d", "u", "o", "x", "X", "c", "s", "f"}
LowerCase(c) == IF c = "X" THEN "x" ELSE c
Times(n, c) == [i \in 1..n |-> c]
Smaller(a, b) == IF a < b THEN a ELSE b

-----------------------------------------------------------------------------
(* QuickAlloc.                                                             *)

AlignUp(n) == ((n + Alignment - 1) \div Alignment) * Alignment
Room(b, n) == b.allocated + n <= b.capacity

\* The two blocks that are probed, then a new one: a standard one goes second,
\* one made for a large request third.
Alloc(bs, size) ==
  LET n == AlignUp(IF size = 0 THEN 1 ELSE size)
      k == IF Room(bs[1], n) THEN 1
           ELSE IF Len(bs) > 1 /\ Room(bs[2], n) THEN 2 ELSE 0
      standard == HeaderSize + n < BufferSize
      bytes == IF standard THEN BufferSize ELSE HeaderSize + n
      block == [id |-> Len(bs) + 1, bytes |-> bytes,
                capacity |-> bytes - HeaderSize, allocated |-> n]
  IN  IF k # 0
      THEN [blocks |-> [bs EXCEPT ![k].allocated = @ + n],
            id |-> bs[k].id, at |-> bs[k].allocated]
      ELSE [blocks |-> InsertAt(bs, IF standard \/ Len(bs) = 1 THEN 2 ELSE 3,
                                block),
            id |-> block.id, at |-> 0]

\* alloc_part or add_chars, and add_part.
AddPart(f, chars) ==
  LET a == Alloc(f.blocks, PartSize + Len(chars))
  IN  [f EXCEPT !.blocks = a.blocks,
                !.parts = Append(@, [chars |-> chars, id |-> a.id, at |-> a.at,
                                     size |-> PartSize + Len(chars)])]

-----------------------------------------------------------------------------
(* Numbers.                                                                *)

\* n > 0 to any base.
Numeral(n, base, digits) ==
  LET f[k \in 0..n] ==
        IF k < base THEN <<digits[k + 1]>>
        ELSE Append(f[k \div base], digits[(k % base) + 1])
  IN  f[n]

ToUnsigned(n, w) == n % 2^w
ToSigned(n, w) == LET u == n % 2^w IN IF u < 2^(w - 1) THEN u ELSE u - 2^w

\* format_c
Character(n) == <<"c" \o ToString(n % 2^CharBits)>>

\* format_int32, format_int64
FormatInt(n, w, plus) ==
  LET u == IF n < 0 THEN ToUnsigned(0 - ToUnsigned(n, w), w) ELSE n
      sign == IF n < 0 THEN <<"-">> ELSE IF n > 0 /\ plus THEN <<"+">> ELSE <<>>
  IN  sign \o Numeral(u, 10, Lower)

\* format_double: h halves with p digits after the point.
FormatDouble(v, p, trim, plus) ==
  LET a == IF v.halves < 0 THEN -v.halves ELSE v.halves
      even == (a \div 2) + (IF a % 4 = 3 THEN 1 ELSE 0)
      whole == Numeral(IF p = 0 THEN even ELSE a \div 2, 10, Lower)
      half == IF a % 2 = 1 THEN "5" ELSE "0"
      short == IF half = "0" THEN whole ELSE whole \o <<".", half>>
      sign == IF v.halves < 0 THEN <<"-">> ELSE IF plus THEN <<"+">> ELSE <<>>
  IN  CASE v.special = "nan" -> <<"#", "N", "A", "N">>
        [] v.special = "inf" -> <<"#", "I", "N", "F">>
        [] p = 0 -> sign \o whole
        [] trim -> sign \o short
        [] OTHER -> sign \o whole \o <<".", half>> \o Times(p - 1, "0")

Double(h) == [type |-> "double", halves |-> h, special |-> "none"]

\* (int64_t)value: a number that is none becomes the smallest.
Truncated(v) ==
  IF v.special # "none" THEN -(2^(LongBits - 1))
  ELSE IF v.halves < 0 THEN -((-v.halves) \div 2) ELSE v.halves \div 2

\* NumberParser, parse_number and num<>: a text as a number of w bits.
Prefix(s, digits) ==
  CHOOSE n \in 0..Len(s) :
    /\ \A i \in 1..n : s[i] \in digits
    /\ n = Len(s) \/ s[n + 1] \notin digits

Unsign(s) == IF s # <<>> /\ s[1] \in {"+", "-"} THEN Tail(s) ELSE s
Negative(s) == s # <<>> /\ s[1] = "-"

ParseNumber(s) ==
  LET p == Unsign(s)
      hex == Len(p) >= 2 /\ p[1] = "0" /\ p[2] \in {"x", "X"}
      octal == Len(p) >= 2 /\ p[1] = "0" /\ p[2] \in Digit(8)
      radix == IF hex THEN 16 ELSE IF octal THEN 8 ELSE 10
      rest == IF hex THEN SubSeq(p, 3, Len(p)) ELSE p
      digits == SubSeq(rest, 1, Prefix(rest, Digit(radix)))
      n == FoldLeft(LAMBDA a, c : Smaller(a * radix + ValueOf(c),
                                          2^LongBits - 1), 0, digits)
  IN  [radix |-> radix, number |-> IF Negative(s) THEN -n ELSE n]

\* strtod() and my_strtod(), of a decimal number in halves.
ParseDouble(s) ==
  LET p == Unsign(s)
      n == Prefix(p, Digit(10))
      half == Len(p) >= n + 2 /\ p[n + 1] = "." /\ ValueOf(p[n + 2]) >= 5
      a == FoldLeft(LAMBDA x, c : x * 10 + ValueOf(c), 0, SubSeq(p, 1, n)) * 2
           + (IF half THEN 1 ELSE 0)
  IN  IF ParseNumber(s).radix # 10 THEN ParseNumber(s).number * 2
      ELSE IF Negative(s) THEN -a ELSE a

-----------------------------------------------------------------------------
(* The conversion of one argument.                                         *)

Precision(f) ==
  IF f.precision < 0 THEN 6 ELSE Smaller(f.precision, MaxPrecision)

\* format(value, hint) of an integer of w bits; f has the flags.
FormatInteger(v, hint, f) ==
  LET w == IF v.type \in {"int64", "uint64"} THEN LongBits ELSE Bits
      u == ToUnsigned(v.number, w)
      upper == f.upper /\ v.type # "uint64"
  IN  CASE hint = "c" -> Character(u)
        [] hint = "o" -> Numeral(u, 8, Lower)
        [] hint = "x" -> Numeral(u, 16, IF upper THEN Upper ELSE Lower)
        [] hint = "f" -> FormatDouble(Double(2 * v.number), Precision(f), FALSE,
                                      f.plus)
        [] hint = "u" \/ (hint # "d" /\ v.type \in {"uint32", "uint64"})
             -> Numeral(u, 10, Lower)
        [] OTHER -> FormatInt(ToSigned(u, w), w, f.plus)

FormatFloating(v, hint, f) ==
  LET long(type) == [type |-> type, number |-> Truncated(v)]
  IN  CASE hint \in {"c", "d"} -> FormatInteger(long("int64"), hint, f)
        [] hint \in {"u", "o", "x"} ->
             FormatInteger([long("int64") EXCEPT
                              !.number = ToUnsigned(@, LongBits)], hint, f)
        [] OTHER -> FormatDouble(v, Precision(f), hint = "s", f.plus)

\* A text is taken for a number where the conversion asks for one.
FormatText(v, hint, f) ==
  LET n == ParseNumber(v.chars).number
      w == IF f.long THEN LongBits ELSE Bits
      type(s, u) == IF hint = "d" THEN s ELSE u
      number == [type |-> IF f.long THEN type("int64", "uint64")
                          ELSE type("int32", "uint32"),
                 number |-> IF hint = "d" THEN ToSigned(n, w)
                            ELSE ToUnsigned(n, w)]
  IN  CASE v.type = "null" -> <<"(", "n", "u", "l", "l", ")">>
        [] hint = "c" -> Character(n)
        [] hint \in {"d", "u", "o", "x"} -> FormatInteger(number, hint, f)
        [] hint = "f" -> FormatFloating(Double(ParseDouble(v.chars)), hint, f)
        [] OTHER -> v.chars

\* format_pointer: all the digits of a uintptr_t.
FormatPointer(v) ==
  [i \in 1..(LongBits \div 4) |->
     Upper[((v.number \div 16^((LongBits \div 4) - i)) % 16) + 1]]

Converted(v, hint, f) ==
  CASE v.type = "double" -> FormatFloating(v, hint, f)
    [] v.type \in {"text", "null"} -> FormatText(v, hint, f)
    [] v.type = "pointer" -> FormatPointer(v)
    [] OTHER -> FormatInteger(v, hint, f)

-----------------------------------------------------------------------------
(* The text.                                                               *)

At(i) == IF i \in 1..Len(text) THEN text[i] ELSE "NUL"

\* The first place from i on that is not one of chars.
After(i, chars) ==
  CHOOSE j \in i..(Len(text) + 1) :
    At(j) \notin chars /\ \A k \in i..(j - 1) : At(k) \in chars

GetNumber(i, alternate) ==
  LET j == After(i, Digit(10))
      add(a, c) == Smaller(10 * a + ValueOf(c), MaxNumber)
  IN  IF At(i) = "*"
      THEN [number |-> alternate, next |-> i + 1]
      ELSE [number |-> IF i = j THEN alternate
                       ELSE FoldLeft(add, 0, SubSeq(text, i, j - 1)),
            next |-> j]

\* What stands at i, behind a %: flags, width, precision, size, conversion.
Conversion(i, width, precision) ==
  LET flags == After(i, {"0", "+", "-"})
      w == GetNumber(flags, width)
      p == GetNumber(IF At(w.next) = "." THEN w.next + 1 ELSE w.next, precision)
      c == After(p.next, {"l"})
      flag(ch) == \E k \in i..(flags - 1) : At(k) = ch
      letter == At(c) \in Letters
  IN  [zero |-> flag("0"), plus |-> flag("+"), left |-> flag("-"),
       width |-> w.number, precision |-> p.number, long |-> c > p.next,
       upper |-> At(c) = "X",
        hint |-> IF letter THEN LowerCase(At(c)) ELSE "no",
       next |-> IF letter THEN c + 1 ELSE c]

\* The parts that a converted argument becomes (its own is allocated first).
Padding(f, t) ==
  LET n == f.width - Len(t)
      signed == t # <<>> /\ t[1] \in {"+", "-"}
  IN  IF n <= 0 THEN <<t>>
      ELSE IF f.left THEN <<t, Times(n, " ")>>
      ELSE IF ~f.zero THEN <<Times(n, " "), t>>
      ELSE IF ~signed THEN <<Times(n, "0"), t>>
      ELSE << <<t[1]>> \o Times(n - 1, "0"), <<"0">> \o Tail(t)>>

Here == [head |-> head, next |-> next, parts |-> parts, blocks |-> blocks]

Flush(f) ==
  IF f.head < f.next
  THEN [AddPart(f, SubSeq(text, f.head, f.next - 1)) EXCEPT !.head = f.next]
  ELSE f

\* advance(): up to the next conversion, or with complete to the end.
RECURSIVE Advance(_, _)
Advance(f, complete) ==
  IF f.next > Len(text) THEN Flush(f)
  ELSE IF At(f.next) # "%" THEN Advance([f EXCEPT !.next = @ + 1], complete)
  ELSE IF At(f.next + 1) = "%"
       THEN LET g == Flush([f EXCEPT !.next = @ + 1])
            IN  Advance([g EXCEPT !.next = @ + 1, !.head = g.next + 1],
                        complete)
  ELSE IF complete THEN Advance([f EXCEPT !.next = @ + 1], complete)
  ELSE Flush(f)

Set(f) ==
  /\ head' = f.head /\ next' = f.next
  /\ parts' = f.parts /\ blocks' = f.blocks

-----------------------------------------------------------------------------

FirstBlock == [id |-> 1, bytes |-> BufferSize,
               capacity |-> BufferSize - HeaderSize, allocated |-> 0]

Init ==
  /\ text \in Texts
  /\ head = 1 /\ next = 1 /\ parts = <<>> /\ blocks = <<FirstBlock>>
  /\ given = <<>> /\ shown = Nothing /\ done = FALSE /\ uses = 0

\* Mutant of Arg: the text goes on at the conversion's letter.
ArgLetterLeft(a) ==
  LET f == Advance(Here, FALSE)
      c == Conversion(f.next + 1, a.width, a.precision)
      to == IF c.hint = "no" THEN c.next ELSE c.next - 1
      t == Converted(a.value, c.hint, c)
  IN  /\ ~done
      /\ given' = Append(given, a)
      /\ Set(IF f.next > Len(text) THEN f
             ELSE [FoldLeft(AddPart, f, IF c.hint = "no" THEN <<>>
                                        ELSE Padding(c, t))
                     EXCEPT !.next = to, !.head = to])
      /\ shown' = Nothing
      /\ UNCHANGED <<text, done, uses>>

\* arg(): the argument takes the place of the next conversion.  One that names
\* no conversion uses it up; without any left it is ignored.
Arg(a) ==
  LET f == Advance(Here, FALSE)
      c == Conversion(f.next + 1, a.width, a.precision)
      t == Converted(a.value, c.hint, c)
      some == f.next <= Len(text) /\ c.hint # "no"
      pieces == Padding(c, t)
  IN  /\ ~done
      /\ given' = Append(given, a)
      /\ Set(IF f.next > Len(text) THEN f
             ELSE [FoldLeft(AddPart, f, IF some THEN pieces ELSE <<>>)
                     EXCEPT !.next = c.next, !.head = c.next])
      /\ shown' = IF some THEN [chars |-> FlattenSeq(pieces),
                                value |-> a.value, hint |-> c.hint]
                  ELSE Nothing
      /\ UNCHANGED <<text, done, uses>>

\* str(), and the others that render the text.
Render ==
  /\ ~done /\ done' = TRUE
  /\ Set(Advance(Here, TRUE))
  /\ UNCHANGED <<text, given, shown, uses>>

\* reset(): the parts are given up, their memory is not used again.
Reset(t) ==
  /\ done /\ uses + 1 < MaxTexts
  /\ text' = t /\ head' = 1 /\ next' = 1 /\ parts' = <<>>
  /\ given' = <<>> /\ shown' = Nothing /\ done' = FALSE /\ uses' = uses + 1
  /\ UNCHANGED blocks

Next ==
  \/ /\ Len(given) < Len(Arguments[text])
     /\ \E a \in Arguments[text][Len(given) + 1] : Arg(a)
  \/ Render
  \/ \E t \in Again : Reset(t)

Spec == Init /\ [][Next]_vars

-----------------------------------------------------------------------------
(* What is promised.                                                       *)

\* The meaning of the text from place i on with arguments still to come.
RECURSIVE Meaning(_, _)
Meaning(i, args) ==
  IF i > Len(text) THEN <<>>
  ELSE IF At(i) = "%" /\ At(i + 1) = "%" THEN <<"%">> \o Meaning(i + 2, args)
  ELSE IF At(i) # "%" \/ args = <<>> THEN <<At(i)>> \o Meaning(i + 1, args)
  ELSE LET c == Conversion(i + 1, args[1].width, args[1].precision)
           field == IF c.hint = "no" THEN <<>>
                    ELSE FlattenSeq(Padding(c, Converted(args[1].value,
                                                         c.hint, c)))
       IN  field \o Meaning(c.next, Tail(args))

\* However the calls are spread, the result is the text with each conversion
\* replaced by its argument, %% by %, and what has no argument left as it is.
Rendered ==
  done =>
    FlattenSeq([i \in DOMAIN parts |-> parts[i].chars]) = Meaning(1, given)

\* The number that a reader finds in s, written to a base.
Reading(s, base) ==
  LET p == SelectSeq(s, LAMBDA c : c # " ")
      n == FoldLeft(LAMBDA a, c : a * base + ValueOf(c), 0, Unsign(p))
  IN  IF Negative(p) THEN -n ELSE n

\* An integer, of whatever type and with whatever flags, can be read back: it
\* is the argument, or what the conversion makes of that.
NumbersReadable ==
  LET v == shown.value
      w == IF v.type \in {"int64", "uint64"} THEN LongBits ELSE Bits
      Reads(hint, base, n) ==
        shown.hint = hint => Reading(shown.chars, base) = n
  IN  v.type \in {"char", "int32", "uint32", "int64", "uint64"} =>
        /\ Reads("d", 10, ToSigned(v.number, w))
        /\ Reads("u", 10, ToUnsigned(v.number, w))
        /\ Reads("o", 8, ToUnsigned(v.number, w))
        /\ Reads("x", 16, ToUnsigned(v.number, w))

\* The parts lie within the arena's blocks, and no two of them overlap.
PartsApart ==
  /\ \A i \in DOMAIN parts : \E k \in DOMAIN blocks :
       /\ blocks[k].id = parts[i].id
       /\ HeaderSize + parts[i].at + parts[i].size <= blocks[k].bytes
  /\ \A i, j \in DOMAIN parts :
       i # j /\ parts[i].id = parts[j].id =>
         \/ parts[i].at + parts[i].size <= parts[j].at
         \/ parts[j].at + parts[j].size <= parts[i].at

=============================================================================
