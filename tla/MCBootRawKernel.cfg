SPECIFICATION Spec
CONSTANTS
  HdrSize = 2
  Word = 16
  MaxSection = 5
  MaxPageSize = 4
  Images <- RawImages
  MaxDtb = 2
  Unterminated = {8}
  ExitMod = 4
  PageSizes = {4}
  NewId = 3
  MaxRuns = 2
  MaxEdits = 0
  MaxFaults = 0
INVARIANT
  KernelDtbsKept
CHECK_DEADLOCK FALSE
