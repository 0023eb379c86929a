SPECIFICATION Spec
CONSTANTS
  Designs <- MCDesigns
  NoCell = NoCell
  Outcomes = {"unique", "properties", "ports", "both", "symmetric", "mismatch"}
  PinResults <- SomePinResults
INVARIANTS
  PrimitivesKept
  MatchIsSame
  FlatMatchFound
PROPERTIES
  QueueSound
  BoxesStay
  KeepsPromise
CHECK_DEADLOCK FALSE
