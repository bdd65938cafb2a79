SPECIFICATION Spec
CONSTANTS
  Scalars = {"index"}
  Structures = {"files", "mimeTypeMatch"}
  Texts = {"(", "'"}
  MaxOnLine = 3
  MaxTokens = 6
INVARIANTS TypeOK InStep KnowsTheEnd
CHECK_DEADLOCK FALSE
