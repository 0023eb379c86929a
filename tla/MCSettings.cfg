SPECIFICATION Spec
CONSTANTS
  Netlists <- MCNetlists
  Commands <- MCCommands
  MaxCommands = 2
INVARIANTS
  ParallelAsSaid
PROPERTIES
  MergesApart
  AppliesAsNamed
CHECK_DEADLOCK FALSE
