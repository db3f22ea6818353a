CONSTANTS
  Descriptors = {0, 1, 2}
  FirstSize = 2
  MaxOperations = 4
  Threads = {t1, t2}
  BufferSize = 3
  KeySize = 3
  MaxClock = 1001
  MaxIds = 3
  Contents <- McContents
  Newline = "n"
  Pushed = "p"
  MaxPart = 3
  MaxCount = 3
  WriterRoom = 3
  MaxWritten = 7
  Formats <- McFormats
  Octets = {0, 128}
  Portions = {1, 2, 5}
  MaxOctets = 9
  BlockSize = 5
  LowLimit = 32
  HighLimit = 2
SPECIFICATION Spec
INVARIANTS WellFormatted PrintedWhole TextsSurvive DigestOfWhole
INVARIANTS IdsUnique CalledOnce StreamsFaithful FormUnderstood
CHECK_DEADLOCK FALSE
