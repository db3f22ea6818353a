----------------------------- MODULE MCAppProcess -----------------------------
EXTENDS AppProcess

CONSTANTS p1, p2, c1, c2

McProcesses == {p1, p2}
McClients == {c1, c2}
McKinds ==
  {[c \in McClients |-> IF c = c1 THEN pair[1] ELSE pair[2]] :
     pair \in {<<"bad", "kept">>, <<"foreign", "silent">>}}
=============================================================================
