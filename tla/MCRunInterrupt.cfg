SPECIFICATION Spec
CONSTANTS
  Names = {n1}
  Statuses = {0, 1}
  MaxPresses = 1
INVARIANT
  InterruptIsForwarded
CHECK_DEADLOCK FALSE
