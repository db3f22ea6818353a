CONSTANTS
  BodyLen = 3
  AnswerLen = 3
  CapIn = 2
  CapOut = 2
SPECIFICATION FairSpec
INVARIANTS OkIsWhole
PROPERTIES GivenUpForCause ExchangeEnds
CHECK_DEADLOCK FALSE
