--------------------------- MODULE MCFcgiLibrary ---------------------------
(* What a web server may send: records of a header of 2 bytes.               *)
EXTENDS FcgiLibrary

R(t, i, c, p) == [type |-> t, id |-> i, content |-> c, padding |-> p]

Keep == 1
Begin(i, role, keep) == R("begin", i, <<0, 2 * role + keep>>, 0)
End(t) == R(t, 1, <<>>, 0)

\* A pair cut in two, in both forms of its lengths.
Pair == <<R("params", 1, <<1, 1, 7>>, 1), R("params", 1, <<8>>, 0)>>
LongPair == <<R("params", 1, <<128, 0, 0, 1>>, 0),
              R("params", 1, <<0, 9>>, 2)>>

Get(keep) == <<Begin(1, Responder, keep)>> \o Pair \o <<End("params"),
                                                       End("stdin")>>
Plainest == <<Begin(1, Responder, 0), End("params"), End("stdin")>>
Post == <<Begin(1, Responder, Keep), End("params"), R("stdin", 1, <<1>>, 1),
          R("stdin", 1, <<2>>, 0), End("stdin")>>

Filtered == <<Begin(1, Filter, 0), End("params"), R("stdin", 1, <<1>>, 0),
              End("stdin"), R("data", 1, <<2>>, 1), End("data")>>

\* Records of another request and management records in between.
Mixed == <<Begin(1, Responder, 0)>> \o LongPair
           \o <<R("values", 0, <<1, 0, 5>>, 1), End("params"),
                Begin(2, Responder, 0), R("stdin", 2, <<9, 9>>, 1),
                R("values", 0, <<>>, 1), R("stdin", 1, <<1>>, 0),
                R("other", 0, <<>>, 0),
                End("stdin")>>

\* What no web server should send.
Odd == <<Begin(1, 7, 0)>>
OddBody == <<R("begin", 1, <<2>>, 0)>>
OddOrder == <<Begin(1, Responder, Keep), R("stdin", 1, <<1>>, 0)>>
OddPadding == <<R("begin", 1, <<0, 3>>, 1), End("params"), End("stdin")>>
OddBegin == <<Begin(1, Responder, 0), Begin(2, Responder, 0), End("params"),
              R("stdin", 1, <<1>>, 0), End("stdin")>>
OddData == <<Begin(1, Filter, Keep), End("params"), End("stdin"),
             R("data", 1, <<2>>, 1), End("data"), R("stdin", 1, <<3>>, 0)>>
OddValues == <<R("values", 0, <<1>>, 1), Begin(1, Responder, 0)>>

MCScripts ==
  {<<Get(Keep), Plainest>>, <<Post, Plainest>>, <<Filtered>>, <<Mixed>>,
   <<Odd>>, <<OddBody>>, <<OddOrder>>, <<OddPadding>>, <<OddBegin>>, <<OddData>>,
   <<OddValues>>}
=============================================================================
