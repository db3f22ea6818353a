-------------------------------- MODULE Codecs --------------------------------
(***************************************************************************)
(* How texts are put into other texts and taken out again: the strings and *)
(* the numbers of misc/jstream.h, misc/urlencode.cpp and                   *)
(* misc/htmlencode.cpp.                                                    *)
(*                                                                         *)
(* A client spells a text, a sequence of code points, as a JSON string,    *)
(* each character in one of the ways that JSON has for it.  A number is a  *)
(* mantissa with its power of ten; that a double has 53 bits is left out.  *)
(* Bytes are numbers.                                                      *)
(***************************************************************************)
EXTENDS Integers, Sequences, SequencesExt

CONSTANTS
  CodePoints,   \* what texts are made of
  Mantissas, Exponents,   \* what numbers are made of
  MaxText       \* bound on the length of a text

VARIABLES
  points,    \* the code points so far
  spelled,   \* the bytes that they were spelled with
  number     \* a number

codecVars == <<points, spelled, number>>

Quote == 34
Backslash == 92
Between(a, b, c) == a <= b /\ b <= c
IsDigit(c) == Between(48, c, 57)
IsXDigit(c) == IsDigit(c) \/ Between(65, c, 70) \/ Between(97, c, 102)
IsAlnum(c) == IsDigit(c) \/ Between(65, c, 90) \/ Between(97, c, 122)
IsSpace(c) == c = 32 \/ Between(9, c, 13)

At(s, i) == IF i <= Len(s) THEN s[i] ELSE 0   \* the NUL behind a string
Remainder(s, i) == SubSeq(s, i, Len(s))

HexDigit(n) == IF n < 10 THEN 48 + n ELSE 55 + n
HexValue(c) ==
  IF IsDigit(c) THEN c - 48 ELSE IF c < 97 THEN c - 55 ELSE c - 87
Number16(digits) == FoldLeft(LAMBDA n, c : 16 * n + HexValue(c), 0, digits)
Hex4(n) == <<HexDigit(n \div 4096), HexDigit((n \div 256) % 16),
             HexDigit((n \div 16) % 16), HexDigit(n % 16)>>

\* The bytes of a code point, as parse_string puts them together.
Utf8(c) ==
  LET tail(k) == 128 + ((c \div 2 ^ (6 * k)) % 64)
  IN  IF c < 2 ^ 7 THEN <<c>>
      ELSE IF c < 2 ^ 11 THEN <<192 + c \div 64, tail(0)>>
      ELSE IF c < 2 ^ 16 THEN <<224 + c \div 2 ^ 12, tail(1), tail(0)>>
      ELSE <<240 + c \div 2 ^ 18, tail(2), tail(1), tail(0)>>

Bytes(cs) == FlattenSeq([i \in 1..Len(cs) |-> Utf8(cs[i])])

-----------------------------------------------------------------------------
(* JSON strings.                                                           *)

Short == <<<<Quote, Quote>>, <<Backslash, Backslash>>, <<8, 98>>, <<12, 102>>,
           <<10, 110>>, <<13, 114>>, <<9, 116>>>>
HasShort(c) == \E k \in 1..7 : Short[k][1] = c
ShortFor(c) == Short[CHOOSE k \in 1..7 : Short[k][1] = c][2]

\* How many bytes the character at p has, 0 for what is not UTF-8.
Utf8Length(s, p) ==
  LET c == s[p]
      n == CASE Between(192, c, 223) -> 2
             [] Between(224, c, 239) -> 3
             [] Between(240, c, 247) -> 4
             [] OTHER -> 0
      follow == \A k \in (p + 1)..(p + n - 1) : Between(128, s[k], 191)
  IN  IF n > 0 /\ p + n - 1 <= Len(s) /\ follow THEN n ELSE 0

\* Control characters, DEL, and bytes that are not UTF-8 are left out.
encode_json_string(s) ==
  LET step(e, p) ==
        LET c == s[p]
            n == Utf8Length(s, p)
        IN  IF p < e.next THEN e
            ELSE IF HasShort(c)
            THEN [e EXCEPT !.out = @ \o <<Backslash, ShortFor(c)>>]
            ELSE IF Between(32, c, 126) THEN [e EXCEPT !.out = Append(@, c)]
            ELSE IF n > 0
            THEN [next |-> p + n, out |-> e.out \o SubSeq(s, p, p + n - 1)]
            ELSE e
  IN  FoldLeft(step, [next |-> 1, out |-> <<>>],
               [p \in 1..Len(s) |-> p]).out

\* Mutant of Combined: a surrogate pair without the offset of its plane.
CombinedLow(high, low) == (high - 55296) * 1024 + (low - 56320)

Combined(high, low) == (high - 55296) * 1024 + (low - 56320) + 65536

\* \uXXXX at p, behind the u: the code point and where it ends.
Unicode(s, p) ==
  LET high == Number16(SubSeq(s, p, p + 3))
      low == Number16(SubSeq(s, p + 6, p + 9))
  IN  IF /\ Between(55296, high, 56319) /\ p + 9 <= Len(s)
         /\ SubSeq(s, p + 4, p + 5) = <<Backslash, 117>>
         /\ Between(56320, low, 57343)
      THEN [point |-> Combined(high, low), next |-> p + 10]
      ELSE [point |-> high, next |-> p + 4]

Unescaped(c) ==
  CASE c = 98 -> 8 [] c = 110 -> 10 [] c = 114 -> 13 [] c = 102 -> 12
    [] c = 116 -> 9 [] c = 118 -> 11 [] OTHER -> c

\* One character of the string at p.  An escape that the end cuts off is lost.
ReadCharacter(r, s, p) ==
  LET c == At(s, p + 1)
      u == Unicode(s, p + 2)
  IN  IF s[p] # Backslash
      THEN [r EXCEPT !.out = Append(@, s[p]), !.next = p + 1]
      ELSE IF p = Len(s) THEN [r EXCEPT !.next = p + 1]
      ELSE IF c # 117
      THEN [r EXCEPT !.out = Append(@, Unescaped(c)), !.next = p + 2]
      ELSE IF p + 5 > Len(s) THEN [r EXCEPT !.next = p + 2]
      ELSE [r EXCEPT !.out = @ \o Utf8(u.point), !.next = u.next]

\* The string that s begins with, behind blanks, and where it ends; 0 without.
parse_string(s) ==
  LET blanks == CHOOSE k \in 0..Len(s) :
                  /\ \A j \in 1..k : IsSpace(s[j])
                  /\ k < Len(s) => ~IsSpace(s[k + 1])
      step(r, p) ==
        IF r.end # 0 \/ p < r.next THEN r
        ELSE IF s[p] = Quote THEN [r EXCEPT !.end = p]
        ELSE ReadCharacter(r, s, p)
  IN  IF At(s, blanks + 1) # Quote THEN [end |-> 0, out |-> <<>>, next |-> 0]
      ELSE FoldLeft(step, [end |-> 0, out |-> <<>>, next |-> blanks + 2],
                    [p \in 1..Len(s) |-> p])

Quoted(s) == <<Quote>> \o s \o <<Quote>>

-----------------------------------------------------------------------------
(* JSON numbers.                                                           *)

Decimal(n) ==
  LET digits == CHOOSE k \in 1..9 : n < 10 ^ k /\ (k > 1 => n >= 10 ^ (k - 1))
  IN  [i \in 1..digits |-> 48 + ((n \div 10 ^ (digits - i)) % 10)]
Zeros(n) == [i \in 1..n |-> 48]

\* std::to_chars: whichever is shorter, the digits with a point or with an
\* exponent, of two digits at least.
format_double(v) ==
  LET d == Decimal(v.mantissa)
      n == Len(d)
      point == n + v.exponent   \* digits before the point
      plain == IF v.exponent >= 0 THEN d \o Zeros(v.exponent)
               ELSE IF point > 0
               THEN SubSeq(d, 1, point) \o <<46>> \o Remainder(d, point + 1)
               ELSE <<48, 46>> \o Zeros(-point) \o d
      power == IF point < 1 THEN 1 - point ELSE point - 1
      scientific ==
        <<d[1]>> \o (IF n > 1 THEN <<46>> \o Tail(d) ELSE <<>>)
          \o <<101, IF point < 1 THEN 45 ELSE 43>>
          \o (IF power < 10 THEN Zeros(1) ELSE <<>>) \o Decimal(power)
  IN  (IF v.negative THEN <<45>> ELSE <<>>)
        \o (IF v.mantissa = 0 THEN <<48>>
            ELSE IF Len(scientific) < Len(plain) THEN scientific ELSE plain)

\* The digits from p on.
Digits(s, p) ==
  LET more == CHOOSE k \in 0..(Len(s) + 1 - p) :
                /\ \A j \in p..(p + k - 1) : IsDigit(s[j])
                /\ ~IsDigit(At(s, p + k))
  IN  SubSeq(s, p, p + more - 1)
ValueOf(digits) == FoldLeft(LAMBDA n, c : 10 * n + c - 48, 0, digits)
IsSign(c) == c \in {43, 45}

\* The value, and where the number ends; an e without digits is not part of it.
my_strtod(s) ==
  LET signed == IsSign(At(s, 1))
      whole == Digits(s, IF signed THEN 2 ELSE 1)
      point == (IF signed THEN 2 ELSE 1) + Len(whole)
      fraction == IF At(s, point) = 46 THEN Digits(s, point + 1) ELSE <<>>
      e == IF At(s, point) = 46 THEN point + 1 + Len(fraction) ELSE point
      minus == At(s, e + 1) = 45
      from == IF IsSign(At(s, e + 1)) THEN e + 2 ELSE e + 1
      power == IF At(s, e) \in {69, 101} THEN Digits(s, from) ELSE <<>>
      exponent == IF minus THEN -ValueOf(power) ELSE ValueOf(power)
  IN  IF whole \o fraction = <<>>
      THEN [negative |-> FALSE, mantissa |-> 0, exponent |-> 0, end |-> 1]
      ELSE [negative |-> At(s, 1) = 45, mantissa |-> ValueOf(whole \o fraction),
            exponent |-> exponent - Len(fraction),
            end |-> IF power = <<>> THEN e ELSE from + Len(power)]

-----------------------------------------------------------------------------
(* URLs.                                                                   *)

\* strchr() finds the NUL at the end of what it searches, too.
Unreserved(c) == IsAlnum(c) \/ c \in {95, 46, 45, 126, 0}

EncodedByte(c, path_mode) ==
  IF Unreserved(c) THEN <<c>>
  ELSE IF c = 32 THEN <<43>>
  ELSE IF path_mode /\ c \in {58, 47} THEN <<c>>
  ELSE <<37, HexDigit(c \div 16), HexDigit(c % 16)>>

\* What needs no encoding at the beginning is copied.
url_encode(s, path_mode) ==
  LET p == CHOOSE k \in 0..Len(s) :
             /\ \A j \in 1..k : Unreserved(s[j])
             /\ k < Len(s) => ~Unreserved(s[k + 1])
  IN  SubSeq(s, 1, p)
        \o FlattenSeq([i \in 1..(Len(s) - p) |->
                         EncodedByte(s[p + i], path_mode)])

url_decode(s) ==
  LET step(d, p) ==
        LET escape == /\ s[p] = 37
                      /\ IsXDigit(At(s, p + 1)) /\ IsXDigit(At(s, p + 2))
        IN  IF p < d.next THEN d
            ELSE IF s[p] = 43 THEN [d EXCEPT !.out = Append(@, 32)]
            ELSE IF escape
            THEN [next |-> p + 3,
                  out |-> Append(d.out, Number16(SubSeq(s, p + 1, p + 2)))]
            ELSE [d EXCEPT !.out = Append(@, s[p])]
  IN  FoldLeft(step, [next |-> 1, out |-> <<>>], [p \in 1..Len(s) |-> p]).out

-----------------------------------------------------------------------------
(* HTML.                                                                   *)

Entities == <<[char |-> 38, name |-> <<97, 109, 112>>],
              [char |-> 60, name |-> <<108, 116>>],
              [char |-> 62, name |-> <<103, 116>>],
              [char |-> 34, name |-> <<113, 117, 111, 116>>],
              [char |-> 39, name |-> <<97, 112, 111, 115>>]>>
HtmlSpecial(c) == \E k \in 1..5 : Entities[k].char = c

EncodedCharacter(c) ==
  IF HtmlSpecial(c)
  THEN LET e == CHOOSE k \in 1..5 : Entities[k].char = c
       IN  <<38>> \o Entities[e].name \o <<59>>
  ELSE IF c < 32 /\ c \notin {9, 10} THEN <<38, 35>> \o Decimal(c) \o <<59>>
  ELSE <<c>>

\* What is copied at the beginning ends at a blank or a special character;
\* strchr() takes NUL for one of them.
html_encode(s) ==
  LET stops(c) == IsSpace(c) \/ HtmlSpecial(c) \/ c = 0
      p == CHOOSE k \in 0..Len(s) :
             /\ \A j \in 1..k : ~stops(s[j])
             /\ k < Len(s) => stops(s[k + 1])
  IN  SubSeq(s, 1, p)
        \o FlattenSeq([i \in 1..(Len(s) - p) |-> EncodedCharacter(s[p + i])])

\* An entity that is none is left out, and so is all from a & without ; on.
html_decode(s) ==
  LET step(d, p) ==
        LET ends == {k \in p..Len(s) : s[k] = 59 /\ \A j \in p..k : s[j] # 0}
            end == CHOOSE k \in ends : \A j \in ends : k <= j
            name == SubSeq(s, p + 1, end - 1)
            named == {k \in 1..5 : Entities[k].name = name}
            char == IF At(name, 1) = 35 THEN <<ValueOf(Tail(name)) % 256>>
                    ELSE IF named # {}
                    THEN <<Entities[CHOOSE k \in named : TRUE].char>>
                    ELSE <<>>
        IN  IF p < d.next THEN d
            ELSE IF s[p] # 38 THEN [d EXCEPT !.out = Append(@, s[p])]
            ELSE IF ends = {} THEN [d EXCEPT !.next = Len(s) + 1]
            ELSE [next |-> end + 1, out |-> d.out \o char]
  IN  FoldLeft(step, [next |-> 1, out |-> <<>>], [p \in 1..Len(s) |-> p]).out

-----------------------------------------------------------------------------

Zero == [negative |-> FALSE, mantissa |-> 0, exponent |-> 0]

\* A text is spelled, or a number written.
CodecInit ==
  /\ points = <<>> /\ spelled = <<>> /\ number = Zero

Spell(c, way) ==
  /\ Len(points) < MaxText /\ number = Zero
  /\ points' = Append(points, c) /\ spelled' = spelled \o way
  /\ UNCHANGED number

\* What need not be escaped may be; a client may also escape the slash.
AsItIs(c) ==
  c >= 32 /\ c \notin {Quote, Backslash} /\ Spell(c, Utf8(c))
AsShort(c) ==
  \/ HasShort(c) /\ Spell(c, <<Backslash, ShortFor(c)>>)
  \/ c = 47 /\ Spell(c, <<Backslash, c>>)
AsHex(c) == c < 2 ^ 16 /\ Spell(c, <<Backslash, 117>> \o Hex4(c))
AsPair(c) ==
  /\ c >= 2 ^ 16
  /\ Spell(c, <<Backslash, 117>> \o Hex4(55296 + (c - 65536) \div 1024)
                \o <<Backslash, 117>> \o Hex4(56320 + ((c - 65536) % 1024)))

Count(negative, mantissa, exponent) ==
  /\ points = <<>>
  /\ number' = [negative |-> negative, mantissa |-> mantissa,
                exponent |-> IF mantissa = 0 THEN 0 ELSE exponent]
  /\ UNCHANGED <<points, spelled>>

CodecNext ==
  \/ \E c \in CodePoints : AsItIs(c) \/ AsShort(c) \/ AsHex(c) \/ AsPair(c)
  \/ \E negative \in BOOLEAN, m \in Mantissas, e \in Exponents :
       Count(negative, m, e)

-----------------------------------------------------------------------------

Printable(cs) ==
  SelectSeq(cs, LAMBDA c : HasShort(c) \/ (c >= 32 /\ c # 127))

\* A JSON string is read as the text it spells, in whatever way it does, and
\* not at all where it is cut off; written and read again it has only
\* lost its control characters.
StringsSurvive ==
  LET bytes == Bytes(points)
      json == Quoted(spelled)
      again == parse_string(Quoted(encode_json_string(bytes)))
  IN  /\ parse_string(json).out = bytes /\ parse_string(json).end = Len(json)
      /\ \A k \in 0..(Len(json) - 1) :
           parse_string(SubSeq(json, 1, k)).end = 0
      /\ again.end # 0 /\ again.out = Bytes(Printable(points))

\* A number is read as the value that was written.
NumbersSurvive ==
  LET s == format_double(number)
      v == my_strtod(s)
      shift == v.exponent - number.exponent
  IN  /\ v.negative = number.negative /\ v.end = Len(s) + 1
      /\ IF shift >= 0 THEN v.mantissa * 10 ^ shift = number.mantissa
         ELSE v.mantissa = number.mantissa * 10 ^ (-shift)

\* Decoding undoes encoding, and no markup is left in what is encoded.
AddressesSurvive ==
  LET bytes == Bytes(points)
  IN  /\ \A path_mode \in BOOLEAN :
           url_decode(url_encode(bytes, path_mode)) = bytes
      /\ html_decode(html_encode(bytes)) = bytes
      /\ \A i \in 1..Len(html_encode(bytes)) :
           html_encode(bytes)[i] \notin {34, 39, 60, 62}

\* What is put into another text comes out again as it was.
TextsSurvive == StringsSurvive /\ NumbersSurvive /\ AddressesSurvive

=============================================================================
