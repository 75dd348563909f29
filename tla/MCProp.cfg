SPECIFICATION FairSpec
CONSTANTS
  Proc = {p1, p2}
  Prop = {"debuggable", "sys"}
  Debuggable = "debuggable"
  Updated = {"sys"}
  PROP_VALUE_MAX = 3
  NameChar = 9
  Maps <- MCMaps
  Addr <- MCAddr
  Command <- MCCommands
  NewValue <- MCNewValue
  Pid = {1, 2}
  Budgets <- MCBudgets
INVARIANTS
  TypeOK
  Coherent
  ReadsOldOrNew
  HotRebootSees
PROPERTIES
  KillRace
  ReadEnds
CHECK_DEADLOCK FALSE
