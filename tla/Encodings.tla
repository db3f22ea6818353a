------------------------------ MODULE Encodings ------------------------------
(***************************************************************************)
(* Encodings the server writes for others to read: Base64 of               *)
(* src/serv/base64.cpp and misc.cpp with the check of a WebSocket key, and *)
(* the environment of a FastCGI request with its name-value pairs, both in *)
(* src/serv/main.cpp.                                                      *)
(*                                                                         *)
(* A byte is a number.  A Base64 character is its value, Pad or Other.     *)
(***************************************************************************)
EXTENDS Integers, Sequences, SequencesExt, FiniteSetsExt

Pad == -2
Other == -1

-----------------------------------------------------------------------------
(* Base64.                                                                 *)

ByteAt(bytes, i) == IF i <= Len(bytes) THEN bytes[i] ELSE 0

\* Three bytes make four characters; what is missing at the end is padding.
base64_encode(bytes) ==
  LET Block(i) ==
        LET v == ByteAt(bytes, i) * 65536 + ByteAt(bytes, i + 1) * 256
                 + ByteAt(bytes, i + 2)
        IN  <<v \div 262144, (v \div 4096) % 64,
              IF i + 1 <= Len(bytes) THEN (v \div 64) % 64 ELSE Pad,
              IF i + 2 <= Len(bytes) THEN v % 64 ELSE Pad>>
  IN  FoldLeft(LAMBDA out, k : out \o Block(3 * k - 2), <<>>,
               [k \in 1..((Len(bytes) + 2) \div 3) |-> k])

\* The bytes of count characters whose bits have been collected: none of one
\* character, else one fewer than there are characters.
Emitted(bits, count) ==
  SubSeq(<<bits \div 65536, (bits \div 256) % 256, bits % 256>>, 1,
         IF count < 2 THEN 0 ELSE count - 1)

\* The first character that is none, or the end, ends the text.
base64_decode(chars) ==
  LET stop == Min({i \in DOMAIN chars : chars[i] < 0} \cup {Len(chars) + 1})
      Bits(i, n) == FoldLeft(LAMBDA b, k : b * 64
                               + IF k < n THEN chars[i + k] ELSE 0,
                             0, <<0, 1, 2, 3>>)
      Group(i) == LET n == Min({4, stop - i}) IN Emitted(Bits(i, n), n)
  IN  FoldLeft(LAMBDA out, k : out \o Group(4 * k - 3), <<>>,
               [k \in 1..((stop + 2) \div 4) |-> k])

\* Mutant of valid_websocket_key: padding may stand in any block.
valid_websocket_keyPads(key, length, size) ==
  LET Bytes(i) == CASE key[i + 2] = Pad -> 1
                    [] key[i + 3] = Pad -> 2
                    [] OTHER -> 3
      blocks == {i \in 1..length : i % 4 = 1}
  IN  /\ Len(key) = length
      /\ \A i \in blocks : /\ key[i] >= 0 /\ key[i + 1] >= 0
                           /\ key[i + 2] # Other /\ key[i + 3] # Other
      /\ size <= FoldSet(LAMBDA i, n : n + Bytes(i), 0, blocks)

\* valid_websocket_key(): blocks of four characters; padding only at the end.
\* No more than "size" bytes are counted.
valid_websocket_key(key, length, size) ==
  LET Bytes(i) == CASE key[i + 2] = Pad -> 1
                    [] key[i + 3] = Pad -> 2
                    [] OTHER -> 3
      Good(i) == /\ key[i] >= 0 /\ key[i + 1] >= 0
                 /\ key[i + 2] # Other /\ key[i + 3] # Other
                 /\ key[i + 2] = Pad => i + 4 > length /\ key[i + 3] = Pad
                 /\ key[i + 3] = Pad => i + 4 > length
      blocks == {i \in 1..length : i % 4 = 1}
  IN  /\ Len(key) = length
      /\ \A i \in blocks : Good(i)
      /\ size <= FoldSet(LAMBDA i, n : n + Bytes(i), 0, blocks)

-----------------------------------------------------------------------------
(* The environment: a sequence of pairs.  A value is a sequence of units.  *)

\* A name that is there keeps its place.
setEnvironment(env, name, value) ==
  LET same == {i \in DOMAIN env : env[i].name = name}
  IN  IF same = {} THEN Append(env, [name |-> name, v |-> value])
      ELSE [env EXCEPT ![Min(same)].v = value]

\* Some of those that makeEnvironment() puts in front.
MadeNames == <<"HTTP_HOST", "SERVER_PROTOCOL", "REQUEST_METHOD",
               "QUERY_STRING", "REQUEST_URI", "SCRIPT_NAME">>

\* Mutant of Query: the last question mark counts.
QueryLast(uri) ==
  LET marks == {i \in DOMAIN uri : uri[i] = "?"}
  IN  IF marks = {} THEN <<>> ELSE SubSeq(uri, Max(marks) + 1, Len(uri))

Query(uri) ==
  LET marks == {i \in DOMAIN uri : uri[i] = "?"}
  IN  IF marks = {} THEN <<>> ELSE SubSeq(uri, Min(marks) + 1, Len(uri))

\* makeEnvironment(): names without a value first, then those of the request.
makeEnvironment(method, protocol, uri, type, length) ==
  LET made == FoldLeft(LAMBDA env, name : setEnvironment(env, name, <<>>),
                       <<>>, MadeNames)
      sets == <<<<"REQUEST_METHOD", <<method>>>>,
                <<"SERVER_PROTOCOL", <<protocol>>>>,
                <<"GATEWAY_INTERFACE", <<"CGI/1.1">>>>,
                <<"REQUEST_URI", uri>>, <<"QUERY_STRING", Query(uri)>>>>
              \o (IF type = "" THEN <<>>
                  ELSE <<<<"CONTENT_TYPE", <<type>>>>>>)
              \o (IF length \in {"", "0"} THEN <<>>
                  ELSE <<<<"CONTENT_LENGTH", <<length>>>>>>)
  IN  FoldLeft(LAMBDA env, s : setEnvironment(env, s[1], s[2]), made, sets)

Byte(n) == [t |-> "byte", v |-> n]
Char(c) == [t |-> "char", v |-> c]
Chars(s) == [i \in DOMAIN s |-> Char(s[i])]

\* A length below 128 is one byte, another is four with the highest bit set.
append_length(n) ==
  IF n < 128 THEN <<Byte(n)>>
  ELSE <<Byte((n \div 16777216) + 128), Byte((n \div 65536) % 256),
         Byte((n \div 256) % 256), Byte(n % 256)>>

\* The name is one character here; its length is 1.
append_name_value(pair) ==
  append_length(1) \o append_length(Len(pair.v))
  \o Chars(<<pair.name>>) \o Chars(pair.v)

write_fcgi_params(env) ==
  FoldLeft(LAMBDA body, pair : body \o append_name_value(pair), <<>>, env)

\* The other side: FCGX_ReadParams() of libfcgi on a whole stream.  A character
\* that is read as a length is some byte below 128; what ends early is no pair.
Number(body, i) == IF i > Len(body) THEN 0
                   ELSE IF body[i].t = "byte" THEN body[i].v ELSE 97

LengthAt(body, i) ==
  IF Number(body, i) < 128 THEN [n |-> Number(body, i), next |-> i + 1]
  ELSE [n |-> (Number(body, i) % 128) * 16777216
              + Number(body, i + 1) * 65536 + Number(body, i + 2) * 256
              + Number(body, i + 3),
        next |-> i + 4]

FCGX_ReadParams(body) ==
  LET read[i \in 1..(Len(body) + 1)] ==
        LET name == LengthAt(body, i)
            value == LengthAt(body, name.next)
            at == value.next + name.n
        IN  IF i > Len(body) \/ at + value.n - 1 > Len(body) THEN <<>>
            ELSE <<[name |-> SubSeq(body, value.next, at - 1),
                    v |-> SubSeq(body, at, at + value.n - 1)]>>
                 \o read[at + value.n]
  IN  read[1]

=============================================================================
