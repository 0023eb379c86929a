SPECIFICATION Spec
CONSTANTS
  Designs <- MCDesigns
  MaxChecks = 2
INVARIANTS
  ValueRight
  VerdictRight
CHECK_DEADLOCK FALSE
