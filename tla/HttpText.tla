------------------------------- MODULE HttpText -------------------------------
(***************************************************************************)
(* The text of one request and its answer: paths and header blocks, as     *)
(* src/serv/misc.cpp, httpserver.cpp and main.cpp take them apart and put  *)
(* them together.                                                          *)
(*                                                                         *)
(* A path is a sequence of characters.  A header block with what follows   *)
(* it is a sequence of units: CR, LF, a line's text, or a piece of a body. *)
(* Two header names that differ in case only are one name here.            *)
(***************************************************************************)
EXTENDS Integers, Sequences, SequencesExt, FiniteSetsExt

-----------------------------------------------------------------------------
(* Paths.                                                                  *)

Before(p, chars) ==
  LET found == {i \in DOMAIN p : p[i] \in chars}
  IN  IF found = {} THEN p ELSE SubSeq(p, 1, Min(found) - 1)

\* Without the slashes at its end.
Trimmed(p) ==
  LET kept == {i \in DOMAIN p : p[i] # "/"}
  IN  IF kept = {} THEN <<>> ELSE SubSeq(p, 1, Max(kept))

\* The parts between slashes, in order; empty ones do not count.
Parts(p) ==
  LET Begins(i) == p[i] # "/" /\ (i = 1 \/ p[i - 1] = "/")
      parts[i \in 0 .. Len(p)] ==
        IF i = 0 THEN <<>>
        ELSE IF Begins(i)
             THEN Append(parts[i - 1], Before(SubSeq(p, i, Len(p)), {"/"}))
             ELSE parts[i - 1]
  IN  parts[Len(p)]

\* One part further: "." stays, ".." leaves; ok is FALSE below the root.
Entered(walk, part) ==
  CASE part = <<".">> -> walk
    [] part = <<".", ".">> ->
         IF walk.at = <<>> THEN [walk EXCEPT !.ok = FALSE]
         ELSE [walk EXCEPT !.at = Front(@)]
    [] OTHER -> [walk EXCEPT !.at = Append(@, part)]

Walk(parts) ==
  LET walk[i \in 0 .. Len(parts)] ==
        IF i = 0 THEN [ok |-> TRUE, at |-> <<>>]
        ELSE Entered(walk[i - 1], parts[i])
  IN  walk[Len(parts)]

Joined(parts) ==
  LET joined[i \in 0 .. Len(parts)] ==
        IF i = 0 THEN <<>> ELSE joined[i - 1] \o <<"/">> \o parts[i]
  IN  joined[Len(parts)]

\* normalize_path() of a path that begins with a slash; <<>> is "no path".
normalize_path(p) ==
  LET walk == Walk(Parts(p))
      joined == IF walk.at = <<>> THEN <<"/">> ELSE Joined(walk.at)
  IN  CASE p = <<>> \/ ~walk.ok -> <<>>
        [] Len(p) > 1 /\ Last(p) = "/" /\ Last(joined) # "/" ->
             Append(joined, "/")
        [] OTHER -> joined

HasDots(p) == \E i \in 1..(Len(p) - 1) : p[i] = "." /\ p[i + 1] = "."

\* Mutant of validate_url: ".." is left to normalize_path.
validate_urlDots(url) ==
  /\ url # <<>>
  /\ url[1] = "/"
  /\ "\\" \notin ToSet(url)
  /\ normalize_path(url) # <<>>

validate_url(url) ==
  /\ url # <<>>
  /\ url[1] = "/"
  /\ "\\" \notin ToSet(url)
  /\ ~HasDots(url)
  /\ normalize_path(url) # <<>>

\* The path of a POST, and of a GET, which is normalised as well.
PostPath(url) == Trimmed(Before(url, {"?", "#"}))

IndexPath == <<"/", "i">>

GetPath(url) ==
  LET path == Trimmed(normalize_path(PostPath(url)))
  IN  IF path = <<>> THEN IndexPath ELSE path

\* A path in quotes loses them, and then its leading slashes.
trimquot(p) == IF Len(p) >= 2 /\ p[1] = "\"" /\ Last(p) = "\""
               THEN SubSeq(p, 2, Len(p) - 1) ELSE p

Unrooted(p) ==
  LET kept == {i \in DOMAIN p : p[i] # "/"}
  IN  IF kept = {} THEN <<>> ELSE SubSeq(p, Min(kept), Len(p))

joinpath(root, p) == root \o <<"/">> \o Unrooted(trimquot(p))

\* The file that serve_static_file() opens for a path; <<>> is none.
FileOf(root, p) ==
  LET relative == Tail(normalize_path(<<"/">> \o p))
  IN  CASE p = <<>> \/ Last(p) = "/" -> <<>>
        [] normalize_path(<<"/">> \o p) = <<>> \/ relative = <<>> -> <<>>
        [] ~IsPrefix(root \o <<"/">>, joinpath(root, relative)) -> <<>>
        [] OTHER -> joinpath(root, relative)

-----------------------------------------------------------------------------
(* Header blocks.                                                          *)

CR == [t |-> "CR"]
LF == [t |-> "LF"]
Line(n, v) == [t |-> "line", n |-> n, v |-> v]
Text(x) == [t |-> "text", v |-> x]
Blank == <<CR, LF>>
Header(n, v) == <<Line(n, v)>> \o Blank

IsHeader(u) == u.t = "line" /\ u.n # ""

\* parse_header(): lines up to an empty one, and the place behind it.  A line
\* ends with CR, LF or both.
parse_header(c) ==
  LET n == Len(c)
      Break(i) == LET ends == {j \in i..n : c[j] \in {CR, LF}}
                  IN  IF ends = {} THEN n + 1 ELSE Min(ends)
      Behind(j) == CASE j > n -> j
                     [] c[j] = CR /\ j < n /\ c[j + 1] = LF -> j + 2
                     [] OTHER -> j + 1
      parse[i \in 1..(n + 1)] ==
        CASE i > n -> [header |-> <<>>, body |-> i]
          [] Break(i) = i -> [header |-> <<>>, body |-> Behind(i)]
          [] OTHER -> LET rest == parse[Behind(Break(i))]
                      IN  [rest EXCEPT !.header = <<c[i]>> \o @]
  IN  [header |-> parse[1].header, content |-> SubSeq(c, parse[1].body, n)]

\* split_header_block() of what an application wrote: the block ends with an
\* empty line, the same kind of line end twice; its lines end with LF.
split_header_block(c) ==
  LET Long(i) == i + 3 <= Len(c) /\ SubSeq(c, i, i + 3) = Blank \o Blank
      Short(i) == i + 1 <= Len(c) /\ SubSeq(c, i, i + 1) = <<LF, LF>>
      ends == {i \in DOMAIN c : Long(i) \/ Short(i)}
      end == Min(ends)
      starts == {i \in 1..(end - 1) : i = 1 \/ c[i - 1] = LF}
      LineAt(i) == LET raw == Before(SubSeq(c, i, end - 1), {LF})
                       line == IF Last(raw) = CR THEN Front(raw) ELSE raw
                   IN  IF Len(line) = 1 THEN line[1] ELSE Text("no header")
  IN  IF ends = {} THEN [ok |-> FALSE, lines |-> <<>>, content |-> <<>>]
      ELSE [ok |-> TRUE,
            lines |-> [k \in 1..Cardinality(starts) |->
                         LineAt(SetToSortSeq(starts, <)[k])],
            content |-> SubSeq(c, end + IF Long(end) THEN 4 ELSE 2, Len(c))]

HopByHop == {"Connection", "Keep-Alive", "Proxy-Authenticate",
             "Proxy-Authorization", "TE", "Trailer", "Transfer-Encoding",
             "Upgrade", "Content-Length"}

\* Mutant of sanitize: every header is passed on.
sanitizeAll(raw, known) ==
  LET split == split_header_block(raw)
      status == SelectSeq(split.lines, LAMBDA u : u.n = "Status")
      block == FoldLeft(LAMBDA b, u : b \o Header(u.n, u.v), <<>>,
                        split.lines)
  IN  IF ~split.ok \/ \E i \in DOMAIN split.lines : ~IsHeader(split.lines[i])
      THEN [status |-> 0, content |-> <<>>]
      ELSE [status |-> IF status = <<>> THEN 200 ELSE Last(status).v,
            content |-> block \o Blank \o split.content]

\* sanitize_fcgi_response(): the status, and the block that is passed on.
\* Statuses are those that the table knows; 0 stands for "refused".
sanitize(raw, known) ==
  LET split == split_header_block(raw)
      status == SelectSeq(split.lines, LAMBDA u : u.n = "Status")
      passed == SelectSeq(split.lines,
                          LAMBDA u : u.n \notin HopByHop \cup {"Status"})
      block == FoldLeft(LAMBDA b, u : b \o Header(u.n, u.v), <<>>, passed)
  IN  IF \/ ~split.ok
         \/ \E i \in DOMAIN split.lines : ~IsHeader(split.lines[i])
         \/ \E i \in DOMAIN status : status[i].v \notin known
      THEN [status |-> 0, content |-> <<>>]
      ELSE [status |-> IF status = <<>> THEN 200 ELSE Last(status).v,
            content |-> block \o Blank \o split.content]

\* The first header of this name, "" when there is none.
header_value(header, n) ==
  LET found == {i \in DOMAIN header : header[i].t = "line" /\ header[i].n = n}
  IN  IF found = {} THEN "" ELSE header[Min(found)].v

\* What http_send_response_header() sends of the lines: those with a colon,
\* and of several with one name the last, in the place of the first.
Deduped(header) ==
  FoldLeft(LAMBDA out, u :
             LET same == {i \in DOMAIN out : out[i].n = u.n}
             IN  CASE ~IsHeader(u) -> out
                   [] same # {} -> [out EXCEPT ![Min(same)] = u]
                   [] OTHER -> Append(out, u),
           <<>>, header)

=============================================================================
