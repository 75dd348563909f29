SPECIFICATION BytesSpec
CONSTANTS
  Block = 4
  LenBytes = 2
  Bits = 2
  Word = 16
  Chunks = {0, 1, 2, 3, 4, 5, 6, 7, 8, 9, 11}
  MaxLen = 40
  WordBytes = 3
  Base = 3
  Offsets = {0, 1, 2, 5, 6, 8, 9, 27}
  SeekMax = 8
  Sizes = {0, 1, 2, 3, 4}
  Repls = {0, 1, 5, 14, 21, 26, 27, 30}
  PatchFiles <- MCFiles
INVARIANTS
  Absorbed
  DigestsPaddedMessage
  PatchExact
PROPERTY
  FinalEnds
CHECK_DEADLOCK FALSE
