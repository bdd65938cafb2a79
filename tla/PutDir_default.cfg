CONSTANTS
  Files = {"index", "a", "b"}
  MaxConcurrent = 2
  Modes = {"whole"}
  Globals = {FALSE}
  Faults = FALSE
SPECIFICATION Spec
CHECK_DEADLOCK FALSE
INVARIANTS
  NamesEveryFile
