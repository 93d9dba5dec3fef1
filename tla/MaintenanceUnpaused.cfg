SPECIFICATION Spec
CONSTANTS
  Operators = {op1, op2}
  Monitor = monitor
  Jobs = {j1, j2}
  MaxLeases = 1
  Slow = {"pause", "submit"}
  None = None
SYMMETRY Symmetry
INVARIANTS
  MaintenanceIsPaused
