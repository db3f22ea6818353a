----------------------------- MODULE MCUtilities -----------------------------
(***************************************************************************)
(* The utilities that the other parts are built on, each checked by        *)
(* itself: they share no state, so one run takes one of them (tool) and    *)
(* leaves the others as they are.  AsyncIo, SessionIds, Streams, Printf and *)
(* Digest, which theorems are about, are extended; Utilities.cfg has their *)
(* constants.                                                              *)
(***************************************************************************)
EXTENDS AsyncIo, SessionIds, Streams, Printf, Digest

VARIABLES
  tool,
  text, head, next, parts, blocks, given, shown, done, uses,
  points, spelled, number,
  contype, boundary, nl, sent, body, found

-----------------------------------------------------------------------------
(* string_formatter: one conversion with everything it may have, for every *)
(* argument; and any sequence of few characters, for a few arguments.      *)

Conversions ==
  {<<"%">> \o a \o b \o c \o d \o <<e>> :
     a \in {<<>>, <<"0">>, <<"-">>, <<"+", "0">>},
     b \in {<<>>, <<"5">>, <<"*">>},
     c \in {<<>>, <<".", "9">>},
     d \in {<<>>, <<"l">>},
     e \in {"d", "u", "X", "o", "c", "s", "f", "!"}}

Single == {t \o s : t \in Conversions, s \in {<<>>, <<"%", "%", "a">>}}

Several == UNION {[1..n -> {"%", "d", "5", "a"}] : n \in 1..5}

McTexts == Single \cup Several

Number(type, n) == [type |-> type, number |-> n]
Plain(v) == [value |-> v, width |-> -1, precision |-> -1]
Halves(n) == [type |-> "double", halves |-> n, special |-> "none"]

Values ==
  {Number("char", -4), Number("int32", -8), Number("int32", 7),
   Number("uint32", 15), Number("int64", -128), Number("uint64", 255),
   Number("pointer", 10), Halves(5), Halves(-3),
   [type |-> "double", halves |-> 0, special |-> "nan"],
   [type |-> "text", chars |-> <<"-", "8">>],
   [type |-> "text", chars |-> <<"0", "x", "1", "f">>],
   [type |-> "text", chars |-> <<"0", "1", "8">>],
   [type |-> "null", chars |-> <<>>]}

Few == {Plain(Number("int32", -8)),
        [value |-> Number("int32", 7), width |-> 20, precision |-> 0]}

McArguments ==
  [t \in McTexts |->
     IF t \in Single
     THEN <<{Plain(v) : v \in Values}
              \cup {[value |-> v, width |-> 4, precision |-> 0] :
                     v \in {Number("int32", -8), Halves(5)}}>>
     ELSE <<Few, Few, Few>>]

McAgain == {<<"%", "d">>, <<"a", "%", "%", "d", "a">>}
F == INSTANCE Formatter WITH
  Texts <- McTexts, Arguments <- McArguments, Again <- McAgain, MaxTexts <- 2,
  Bits <- 4, LongBits <- 8, CharBits <- 3, MaxNumber <- 30, MaxPrecision <- 8,
  BufferSize <- 24, HeaderSize <- 6, PartSize <- 3, Alignment <- 2

-----------------------------------------------------------------------------
(* FCGX_VFPrintF: formats of one or two conversions.                       *)

Item(op, long, flags, width, precision, len) ==
  [op |-> op, size |-> long, flags |-> flags, width |-> width,
   precision |-> precision, len |-> len]

Field(kind, n) == [kind |-> kind, n |-> n]

Widths == {NoField, Field("digits", 56), Field("star", -120),
           Field("star", 1000000)}
Precisions == {NoField, Field("digits", 110), Field("star", -1),
               Field("digits", 3)}

McItems ==
  {Item("text", " ", 0, NoField, NoField, 7)}
    \cup {Item(op, long, flags, width, precision, len) :
            op \in {"d", "s", "f", "e", "n", "%", "c"},
            long \in {" ", "l"}, flags \in {0, 2, 6},
            width \in Widths, precision \in Precisions, len \in {1, 95}}

Possible(item) ==
  /\ item.len = 95 => item.op \in {"s", "f"}
  /\ item.op = "%" => item.size = " "

\* What follows another conversion: a larger buffer, one that fits, an error.
McSeveral ==
  {Item("text", " ", 0, NoField, NoField, 7),
   Item("d", " ", 0, NoField, NoField, 1),
   Item("s", " ", 0, NoField, Field("digits", 110), 200),
   Item("s", " ", 0, NoField, NoField, 200),
   Item("f", "L", 2, Field("star", -8), NoField, 95),
   Item("f", " ", 0, NoField, Field("star", 120), 300),
   Item("f", "L", 0, NoField, NoField, 400),
   Item("c", "l", 0, NoField, NoField, 1)}

McFormats ==
  {<<item>> : item \in {i \in McItems : Possible(i)}}
    \cup McSeveral \X McSeveral \X McSeveral

-----------------------------------------------------------------------------
(* Texts of three characters: plain, quote, backslash, tab, DEL, u, percent, *)
(* plus, ampersand, semicolon, NUL and characters of two, three and four     *)
(* bytes in UTF-8.  Numbers of up to three digits from 10^-12 to 10^6.       *)

C == INSTANCE Codecs WITH
  CodePoints <- {0, 9, 34, 37, 38, 39, 43, 47, 59, 92, 117, 127, 160,
                 8364, 128512},
  Mantissas <- {0, 7, 10, 105}, Exponents <- -12..6, MaxText <- 3

-----------------------------------------------------------------------------
(* Streams: parts and counts of up to three characters, which end in front *)
(* of, behind and in the lines of the content.  SHA-1: blocks of five      *)
(* octets, two of them for the length, and messages of up to nine octets,  *)
(* where eight are too many (Utilities.cfg).                               *)

McContents == {<<"a", "n", "b">>, <<"a", "b", "a", "n", "n">>, <<>>}

-----------------------------------------------------------------------------
(* Forms: contents with every line end and dash in every place.            *)

McData == UNION {[1..n -> {"x", "-", "\r", "\n"}] : n \in 0..2}

M == INSTANCE Forms WITH
  Boundaries <- {<<"b">>, <<"-">>, <<"-", "b">>}, Data <- McData,
  MaxParts <- 2, parts <- found

-----------------------------------------------------------------------------

formatterVars == <<text, head, next, parts, blocks, given, shown, done, uses>>
codecVars == <<points, spelled, number>>
formVars == <<contype, boundary, nl, sent, body, found>>

FormatterIdle ==
  /\ text = <<>> /\ head = 1 /\ next = 1 /\ parts = <<>> /\ blocks = <<>>
  /\ given = <<>> /\ shown = F!Nothing /\ done = FALSE /\ uses = 0

StreamsIdle ==
  /\ side = "none" /\ unread = <<>> /\ memory = <<>> /\ rd = 0
  /\ isClosed = FALSE /\ call = NoCall /\ answer = NoAnswer
  /\ ideal = <<>> /\ pushable = FALSE /\ wire = <<>> /\ broken = FALSE

FormsIdle ==
  contype = <<>> /\ boundary = <<>> /\ nl = <<>> /\ sent = <<>>
    /\ body = <<>> /\ found = <<>>

Tools == {"formatter", "printf", "codecs", "digest", "ids", "asyncio",
          "streams", "forms"}

Init ==
  /\ tool \in Tools
  /\ IF tool = "formatter" THEN F!Init ELSE FormatterIdle
  /\ IF tool = "streams" THEN StreamInit ELSE StreamsIdle
  /\ IF tool = "forms" THEN M!FormInit ELSE FormsIdle
  /\ PrintfInit /\ C!CodecInit /\ DigestInit /\ IdInit /\ AsyncInit

Next ==
  \/ /\ tool = "formatter" /\ F!Next
     /\ UNCHANGED <<tool, printfVars, codecVars, digestVars,
                    idVars, asyncVars, streamVars, formVars>>
  \/ /\ tool = "printf" /\ PrintfNext
     /\ UNCHANGED <<tool, formatterVars, codecVars, digestVars,
                    idVars, asyncVars, streamVars, formVars>>
  \/ /\ tool = "codecs" /\ C!CodecNext
     /\ UNCHANGED <<tool, formatterVars, printfVars, digestVars,
                    idVars, asyncVars, streamVars, formVars>>
  \/ /\ tool = "digest" /\ DigestNext
     /\ UNCHANGED <<tool, formatterVars, printfVars, codecVars,
                    idVars, asyncVars, streamVars, formVars>>
  \/ /\ tool = "ids" /\ IdNext
     /\ UNCHANGED <<tool, formatterVars, printfVars, codecVars,
                    digestVars, asyncVars, streamVars, formVars>>
  \/ /\ tool = "asyncio" /\ AsyncNext
     /\ UNCHANGED <<tool, formatterVars, printfVars, codecVars,
                    digestVars, idVars, streamVars, formVars>>
  \/ /\ tool = "streams" /\ StreamNext
     /\ UNCHANGED <<tool, formatterVars, printfVars, codecVars,
                    digestVars, idVars, asyncVars, formVars>>
  \/ /\ tool = "forms" /\ M!FormNext
     /\ UNCHANGED <<tool, formatterVars, printfVars, codecVars,
                    digestVars, idVars, asyncVars, streamVars>>

Spec ==
  Init /\ [][Next]_<<tool, formatterVars, printfVars, codecVars, digestVars,
                     idVars, asyncVars, streamVars, formVars>>

-----------------------------------------------------------------------------

\* The server's formatter: what it renders is its text with the arguments in,
\* integers readable as they went in, in every base and type, and what it has
\* put together stays as it is.
WellFormatted ==
  tool = "formatter" => F!Rendered /\ F!NumbersReadable /\ F!PartsApart

\* JSON strings and numbers, URLs and HTML are decoded to what was encoded.
TextsSurvive == tool = "codecs" => C!TextsSurvive

\* A posted form arrives part by part as it was sent.
FormUnderstood == tool = "forms" => M!FormUnderstood

=============================================================================
