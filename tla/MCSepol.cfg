SPECIFICATION Spec
CONSTANTS
  Proc = {p1, p2}
  Name <- MCName
  Cut <- MCCut
  CutPerm <- MCCutPerm
  Class <- MCClass
  OwnPerms <- MCOwn
  CommonPerms <- MCCommon
  Bits = {0, 1}
  Command <- MCCommands
  Policies <- MCPolicies
  Files <- MCFiles
  MaxRuns = 3
  MaxFaults = 1
SYMMETRY ProcSymmetry
INVARIANTS
  TypeOK
  PolicySound
  LiveEffects
  FileLoadsBack
PROPERTY
  LiveExact
CHECK_DEADLOCK FALSE
