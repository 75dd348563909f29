SPECIFICATION FairSpec
CONSTANTS
  HdrSize = 2
  Word = 16
  MaxSection = 5
  MaxPageSize = 4
  Images <- CycleImages
  MaxDtb = 2
  Unterminated = {8}
  ExitMod = 4
  PageSizes = {4, 5}
  NewId = 3
  MaxRuns = 4
  MaxEdits = 2
  MaxFaults = 0
INVARIANTS
  TypeOK
  LayoutAgree
  ReadBack
  PackedAccepted
  RoundTrip
  SecondRoundTrip
  ReplacedKernelPacked
PROPERTIES
  ImplementsSpec
  RunEnds
CHECK_DEADLOCK FALSE
