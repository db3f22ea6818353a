---------------------------- MODULE MCFcgiRecords ----------------------------
\* TLC instances of FcgiRecords, with a header of two bytes.
EXTENDS FcgiRecords

Rec(type, content, padding) ==
  [type |-> type, content |-> content, padding |-> padding]

\* With content and padding, without either, and with content alone.
SomeRecords ==
  {Rec("stdout", 0, 0), Rec("stdout", 1, 0), Rec("stdout", 2, 1),
   Rec("stderr", 0, 0), Rec("stderr", 1, 1), Rec("end", 0, 0), Rec("end", 1, 0)}

\* An answer of one byte and empty records on STDERR.
EmptyStderr ==
  {Rec("stdout", 1, 0), Rec("stderr", 0, 0), Rec("end", 1, 0)}
===============================================================================
