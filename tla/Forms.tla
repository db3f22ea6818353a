-------------------------------- MODULE Forms --------------------------------
(***************************************************************************)
(* Posted forms in serv/main.cpp: a client puts parts between boundaries   *)
(* (multipart/form-data), and parse_content_type, parse_multipart and      *)
(* parse_form_part take them apart again, with split_ of serv/misc.cpp.    *)
(*                                                                         *)
(* Texts are sequences of characters; the letters of a header line, the    *)
(* words multipart and charset and the name "boundary=", in any case, are  *)
(* one character each.                                                     *)
(***************************************************************************)
EXTENDS Integers, Sequences, SequencesExt

CONSTANTS
  Boundaries,   \* boundaries that clients choose
  Data,         \* contents of parts
  MaxParts      \* bound on the parts of a form

VARIABLES
  contype,   \* the Content-Type of the request
  boundary,  \* the client's boundary
  nl,        \* how the client ends its lines
  sent,      \* the parts that it has sent
  body,      \* the text of the body
  parts      \* what the server has found in the whole body

formVars == <<contype, boundary, nl, sent, body, parts>>

CR == "\r"
LF == "\n"

-----------------------------------------------------------------------------
(* The server.                                                             *)

Spaces == {" ", "\t"}
Trim(word) ==
  LET kept == {i \in 1..Len(word) : word[i] \notin Spaces}
  IN  IF kept = {} THEN <<>>
      ELSE SubSeq(word, CHOOSE i \in kept : \A j \in kept : i <= j,
                        CHOOSE i \in kept : \A j \in kept : j <= i)

\* misc::split_words: the words between separators, without the empty ones.
SplitWords(text, sep) ==
  LET words == FoldLeft(LAMBDA ws, c :
                          IF c = sep THEN Append(ws, <<>>)
                          ELSE [ws EXCEPT ![Len(ws)] = Append(@, c)],
                        << <<>> >>, text)
  IN  SelectSeq([i \in 1..Len(words) |-> Trim(words[i])],
                LAMBDA word : word # <<>>)

\* parse_content_type: the last boundary counts; quotes are part of it.
ParseContentType(text) ==
  LET found == SelectSeq(SplitWords(text, ";"),
                         LAMBDA word : word[1] = "boundary=")
  IN  IF found = <<>> THEN <<>> ELSE Tail(Last(found))

IsAt(text, i, mark) ==
  i + Len(mark) - 1 <= Len(text) /\ SubSeq(text, i, i + Len(mark) - 1) = mark

\* Mutant of LineEnd: a line end has one character.
LineEndOne(text, i) == IF i <= Len(text) /\ text[i] \in {CR, LF} THEN 1 ELSE 0

\* How many characters the line end at i has.
LineEnd(text, i) ==
  CASE IsAt(text, i, <<CR, LF>>) -> 2
    [] IsAt(text, i, <<CR>>) -> 1
    [] IsAt(text, i, <<LF>>) -> 1
    [] OTHER -> 0

\* The data of a part ends before the line end in front of the boundary.
Trimmed(data) ==
  LET n == Len(data)
      cut == CASE n >= 2 /\ IsAt(data, n - 1, <<CR, LF>>) -> 2
               [] n >= 1 /\ data[n] \in {CR, LF} -> 1
               [] OTHER -> 0
  IN  SubSeq(data, 1, n - cut)

\* parse_form_part: header lines up to the empty one, from left at i on.
ParseFormPart(text) ==
  LET Stops(i) == i > Len(text) \/ text[i] \in {CR, LF}
      From[left \in 1..(Len(text) + 1)] ==
        LET right == CHOOSE i \in left..(Len(text) + 1) :
                       Stops(i) /\ \A j \in left..(i - 1) : ~Stops(j)
            after == right + LineEnd(text, right)
        IN  IF right = left
            THEN [header |-> <<>>,
                  data |-> Trimmed(SubSeq(text, after, Len(text)))]
            ELSE [From[after] EXCEPT
                    !.header = <<SubSeq(text, left, right - 1)>> \o @]
  IN  From[1]

\* parse_multipart: marks are looked for one after the other, and what is
\* between two of them is a part, the line end behind the first taken off.
ParseMultipart(text, bound) ==
  LET mark == <<"-", "-">> \o bound
      Marks[i \in 1..(Len(text) + 1)] ==
        CASE i + Len(mark) - 1 > Len(text) -> <<>>
          [] IsAt(text, i, mark) -> <<i>> \o Marks[i + Len(mark)]
          [] OTHER -> Marks[i + 1]
      at == Marks[1]
      Between(k) == SubSeq(text, at[k] + Len(mark), at[k + 1] - 1)
      Inner(k) ==
        SubSeq(Between(k), 1 + LineEnd(Between(k), 1), Len(Between(k)))
      found == SelectSeq([k \in 1..(Len(at) - 1) |-> Inner(k)],
                         LAMBDA inner : inner # <<>>)
  IN  IF Len(bound) \in 1..70
      THEN [k \in 1..Len(found) |-> ParseFormPart(found[k])]
      ELSE <<>>

-----------------------------------------------------------------------------
(* The client.                                                             *)

\* What a Content-Type looks like with a boundary in it.
ContentTypes(bound) ==
  LET named == <<"boundary=">> \o bound
  IN  {<<"multipart", ";", " ">> \o named,
       <<" ", "multipart", ";">> \o named \o <<" ", ";", "charset">>,
       <<"multipart", ";", ";", "charset", ";", "\t">> \o named \o <<" ">>}

FormInit ==
  /\ boundary \in Boundaries /\ nl \in {<<CR, LF>>, <<LF>>}
  /\ contype = <<>> /\ sent = <<>> /\ parts = <<>>
  /\ body \in {<<>>, <<"x">> \o nl}

\* With bare line feeds, a carriage return at the end would be part of one.
Sendable(data) ==
  ~(nl = <<LF>> /\ data # <<>> /\ Last(data) = CR)

SendPart ==
  /\ contype = <<>> /\ Len(sent) < MaxParts
  /\ \E header \in {<<>>, << <<"h">>, <<"h", "h">> >>}, data \in Data :
       /\ Sendable(data)
       /\ sent' = Append(sent, [header |-> header, data |-> data])
       /\ body' = body \o <<"-", "-">> \o boundary \o nl
                    \o FlattenSeq([i \in 1..Len(header) |-> header[i] \o nl])
                    \o nl \o data \o nl
  /\ UNCHANGED <<contype, boundary, nl, parts>>

\* The end of the form; then the server reads it.
Submit ==
  /\ contype = <<>> /\ sent # <<>>
  /\ contype' \in ContentTypes(boundary)
  /\ body' = body \o <<"-", "-">> \o boundary \o <<"-", "-">> \o nl
  /\ parts' = ParseMultipart(body', ParseContentType(contype'))
  /\ UNCHANGED <<boundary, nl, sent>>

FormNext == SendPart \/ Submit

-----------------------------------------------------------------------------

\* The server finds the parts that the client has sent: all of them, with
\* their header lines, and the data to the byte, line ends in it included.
FormUnderstood == contype # <<>> => parts = sent

=============================================================================
