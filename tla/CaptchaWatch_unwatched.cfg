SPECIFICATION Spec
CONSTANTS
  Stored = {"old"}
  New = {"new"}
PROPERTY SolvedIsSeen
