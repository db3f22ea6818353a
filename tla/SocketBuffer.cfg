CONSTANTS
  Byte <- MCByte
  NL = "nl"
  Space <- MCSpace
  Zero = "a"
  LineInitial = 1
  ReadInitial = 2
  MaxLine = 3
  MaxSent = 5
  ReadLengths <- MCReadLengths
SPECIFICATION FairSpec
INVARIANTS InBounds
PROPERTIES ImplementsStream CallsEnd
