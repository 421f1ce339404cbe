SPECIFICATION CartSpec
CONSTANTS
  items = items
  a = a
  b = b
  Names <- MCNames
  Copies = {"plain", "dict", "list", "deepcopy", "each", "each_dict"}
  MaxStatements = 5
  MaxDepth = 3
CONSTRAINT MCUndecided
SYMMETRY MCSymmetry
CHECK_DEADLOCK FALSE
INVARIANTS
  FalseAlarmHasCause
  MissHasCause
