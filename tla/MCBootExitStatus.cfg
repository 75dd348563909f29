SPECIFICATION Spec
CONSTANTS
  HdrSize = 2
  Word = 16
  MaxSection = 5
  MaxPageSize = 4
  Images <- SignedImages
  MaxDtb = 2
  Unterminated = {8}
  ExitMod = 4
  PageSizes = {4}
  NewId = 3
  MaxRuns = 2
  MaxEdits = 0
  MaxFaults = 1
INVARIANT
  ExitStatusTellsFailure
CHECK_DEADLOCK FALSE
