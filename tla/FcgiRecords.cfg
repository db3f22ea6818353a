CONSTANTS
  HeaderSize = 2
  Records <- SomeRecords
  MaxSent = 4
  MaxBytes = 12
  MaxRecords = 3
SPECIFICATION FairSpec
INVARIANTS AnswerRecovered
PROPERTIES Terminates
