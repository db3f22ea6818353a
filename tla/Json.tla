--------------------------------- MODULE Json ---------------------------------
(***************************************************************************)
(* The streaming JSON writer and reader of src/misc/jstream.h.  A document *)
(* is a sequence of tokens: the writer appends them, one call after the    *)
(* other, and the reader returns one event for each call of next().        *)
(*                                                                         *)
(* A token is a record of its type and its text; blanks and layout are     *)
(* left out, and so are the allow_... options of the reader, which nothing *)
(* in the server sets.  A string is one token: its escapes are the subject *)
(* of Codecs.                                                              *)
(***************************************************************************)
EXTENDS Integers, Sequences, SequencesExt, FiniteSetsExt

Token(type, text) == [t |-> type, v |-> text]
Punct(c) == Token(c, "")
Constants == {"String", "Number", "Null", "False", "True"}

-----------------------------------------------------------------------------
(* Writer: how many values stand in each open container (stack), and what  *)
(* has been written.                                                       *)

NewWriter == [stack |-> <<0>>, out |-> <<>>]

Put(w, tokens) == [w EXCEPT !.out = @ \o tokens]

\* A comma behind an earlier value of the container, then the name, if any.
PrintName(w, name) ==
  Put(w, (IF Last(w.stack) > 0 THEN <<Punct(",")>> ELSE <<>>)
           \o (IF name = "" THEN <<>>
               ELSE <<Token("string", name), Punct(":")>>))

\* At the top level the document ends and the count starts again.
Flush(w) == IF Len(w.stack) = 1 THEN [w EXCEPT !.stack = <<0>>] ELSE w

Counted(w) == [w EXCEPT !.stack[Len(w.stack)] = @ + 1]

PrintValue(w, name, token) ==
  Flush(Counted(Put(PrintName(w, name), <<token>>)))

PrintStart(w, name, bracket) ==
  LET named == Put(PrintName(w, name), <<Punct(bracket)>>)
  IN  [named EXCEPT !.stack = Append(@, 0)]

EndBlock(w, bracket) ==
  Flush(Put(Counted([w EXCEPT !.stack = Front(@)]), <<Punct(bracket)>>))

-----------------------------------------------------------------------------
(* Reader: the place in the document, the stack of states, the keys of the *)
(* open containers (depth) with their brackets, and the levels that nested *)
(* loops stop at (depth_stack).  "event" says whether the last call of     *)
(* next() returned true.                                                   *)

NewReader(document) ==
  [toks |-> document, pos |-> 1, states |-> <<>>, key |-> "", string |-> "",
   is_array |-> FALSE, depth |-> <<>>, depth_stack |-> <<>>, hold |-> FALSE,
   errors |-> 0, event |-> FALSE]

Peek(d) == IF d.pos <= Len(d.toks) THEN d.toks[d.pos] ELSE Punct("end")
AtEnd(d) == d.pos > Len(d.toks)
Advance(d) == [d EXCEPT !.pos = @ + 1]

state(d) == IF d.states = <<>> THEN "None" ELSE Last(d.states)

is_constant(d) == state(d) \in Constants

is_structure(d) ==
  \/ state(d) \in {"StartObject", "StartArray"}
  \/ /\ state(d) \in {"EndObject", "EndArray"}
     /\ Len(d.states) > 1
     /\ d.states[Len(d.states) - 1] \in {"StartObject", "StartArray"}

is_value(d) == is_constant(d) \/ is_structure(d)

push_error(d) ==
  [d EXCEPT !.states = <<>>, !.errors = @ + 1, !.event = FALSE]

\* A value takes the place of the key or comma in front of it.
push_state(d, s) ==
  [d EXCEPT
    !.states = Append(IF state(d) \in {"Key", "Comma", "EndObject"}
                      THEN Front(@) ELSE @, s),
    !.key = IF d.is_array THEN "" ELSE @,
    !.is_array = CASE s = "StartArray" -> TRUE
                   [] s \in {"StartObject", "Key"} -> FALSE
                   [] OTHER -> @,
    !.event = TRUE]

\* Whether the innermost container of these states is an array.
InArray(states, otherwise) ==
  LET within == {i \in DOMAIN states :
                   states[i] \in {"StartObject", "StartArray", "Key"}}
  IN  IF within = {} THEN otherwise
      ELSE states[Max(within)] = "StartArray"

\* Back to the first n states: one pop_state() after the other.  The last one
\* that leaves a container behind decides is_array.
PopTo(d, n) ==
  LET rest == SubSeq(d.states, 1, n)
      under == InArray(SubSeq(d.states, 1, n + 1), d.is_array)
  IN  [d EXCEPT !.states = rest, !.key = "",
                !.is_array = InArray(rest, under)]

pop_state(d) == IF d.states = <<>> THEN [d EXCEPT !.key = ""]
                ELSE PopTo(d, Len(d.states) - 1)

\* A closing bracket.  Without its start everything is popped, and the next
\* token is looked at in the same call.
Close(d, bracket, start, end) ==
  LET open == {i \in DOMAIN d.states : d.states[i] = start}
      top == IF d.depth = <<>> THEN [key |-> "", b |-> bracket]
             ELSE Last(d.depth)
      key == IF top.b = bracket THEN top.key ELSE top.key \o top.b
      outer == [Advance(d) EXCEPT !.string = "",
                                  !.depth = IF @ = <<>> THEN @ ELSE Front(@)]
  IN  IF open = {}
      THEN [outer EXCEPT !.states = <<>>, !.key = "",
                         !.is_array = InArray(d.states, @)]
      ELSE [push_state(PopTo(outer, Max(open) - 1), end) EXCEPT !.key = key]

Open(d, bracket, start) ==
  LET named == IF state(d) = "Key" THEN d
               ELSE [d EXCEPT !.key = "", !.string = ""]
  IN  push_state([Advance(named) EXCEPT
                    !.depth = Append(@, [key |-> named.key, b |-> bracket])],
                 start)

\* Behind a key a comma is a missing value; else it ends one.
Comma(d) ==
  IF state(d) = "Key" THEN push_state(Advance(d), "Null")
  ELSE [push_state(IF is_value(d) THEN pop_state(Advance(d)) ELSE Advance(d),
                   "Comma") EXCEPT !.event = FALSE]

\* A string is a key when a colon follows, unless it stands behind a key.
ReadString(d) ==
  LET read == [Advance(d) EXCEPT !.string = Peek(d).v]
  IN  CASE state(d) \notin {"None", "StartObject", "StartArray", "Key",
                            "Comma"} -> push_error(d)
        [] state(d) # "Key" /\ Peek(read) = Punct(":") ->
             IF d.is_array THEN push_error(read)
             ELSE push_state([Advance(read) EXCEPT !.key = read.string],
                             "Key")
        [] OTHER -> push_state(read, "String")

WordState == [false |-> "False", true |-> "True", null |-> "Null"]

\* A number or a word counts only behind a key or in an array.
ReadScalar(d) ==
  LET token == Peek(d)
      read == [Advance(d) EXCEPT !.string = token.v]
  IN  CASE ~(state(d) = "Key" \/ d.is_array) -> push_error(d)
        [] token.t = "number" -> push_state(read, "Number")
        [] /\ token.t = "word"
           /\ token.v \in DOMAIN WordState
           /\ state(d) \in {"Key", "Comma", "StartArray"} ->
             push_state(read, WordState[token.v])
        [] OTHER -> push_error(d)

\* _internal_next(): the tests stand one behind the other, and a token that
\* gives no event leads to the next one.
Closing(d, token, bracket, start, end) ==
  IF ~d.event /\ Peek(d).t = token THEN Close(d, bracket, start, end) ELSE d

SkipComma(d) == IF ~d.event /\ Peek(d).t = "," THEN Comma(d) ELSE d

ReadValue(d) ==
  CASE d.event -> d
    [] Peek(d).t = "{" -> Open(d, "{", "StartObject")
    [] Peek(d).t = "[" -> Open(d, "[", "StartArray")
    [] Peek(d).t = "string" -> ReadString(d)
    [] OTHER -> ReadScalar(d)

InternalNext(d) ==
  LET first == [d EXCEPT !.event = FALSE]
  IN  IF AtEnd(d) THEN first
      ELSE ReadValue(SkipComma(
             Closing(Closing(first, "}", "{", "StartObject", "EndObject"),
                     "]", "[", "StartArray", "EndArray")))

\* nest(): a loop of next() that ends when the container is left.
nest(d) == [d EXCEPT !.depth_stack = Append(@, Len(d.depth))]

\* next(): the event that leaves a nested loop's container ends that loop and
\* is held for the loop outside.
Held(read) ==
  IF /\ read.event
     /\ read.depth_stack # <<>>
     /\ Len(read.depth) < Last(read.depth_stack)
  THEN [read EXCEPT !.depth_stack = Front(@), !.hold = TRUE, !.event = FALSE]
  ELSE read

next(d) ==
  IF d.hold THEN [d EXCEPT !.hold = FALSE, !.event = TRUE]
  ELSE Held(InternalNext(d))

\* path(): the open containers and the key.
path(d) == [open |-> d.depth,
            key |-> IF state(d) \in {"StartObject", "StartArray"} THEN ""
                    ELSE d.key]

\* match(): the value stands in the containers "open" under the key; the key
\* "*" is any constant there or the start of any container.
match(d, open, key) ==
  /\ is_value(d)
  /\ IsPrefix(open, d.depth)
  /\ \/ /\ Len(d.depth) = Len(open)
        /\ IF key = "*" THEN is_constant(d) ELSE key = d.key
     \/ /\ key = "*" /\ Len(d.depth) = Len(open) + 1
        /\ state(d) = IF Last(d.depth).b = "{" THEN "StartObject"
                      ELSE "StartArray"

=============================================================================
