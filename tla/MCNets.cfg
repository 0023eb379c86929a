SPECIFICATION Spec
CONSTANT Designs <- Files
INVARIANTS
  CircuitsKept
  DanglingPortsSeen
CHECK_DEADLOCK FALSE
