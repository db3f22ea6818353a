CONSTANTS
  HeaderSize = 2
  Records <- EmptyStderr
  MaxSent = 3
  MaxBytes = 12
  MaxRecords = 3
SPECIFICATION FairSpec
PROPERTIES LoopBounded
