SPECIFICATION EditorSpec
CONSTANTS
  MaxHistory = 3
INVARIANTS EditsAreGuarded
CHECK_DEADLOCK FALSE
