SPECIFICATION Spec
CONSTANTS
  HdrSize = 2
  Word = 16
  MaxSection = 5
  MaxPageSize = 4
  Images <- FaultImages
  MaxDtb = 2
  Unterminated = {8}
  ExitMod = 4
  PageSizes = {4}
  NewId = 3
  MaxRuns = 3
  MaxEdits = 2
  MaxFaults = 2
INVARIANTS
  NoPackOfPartialUnpack
  OutputSafe
  RoundTrip
PROPERTY
  ImplementsSpec
CHECK_DEADLOCK FALSE
