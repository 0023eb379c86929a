SPECIFICATION Spec
CONSTANTS
  Designs <- MCDesigns
  NodeClasses <- MCNodeClasses
  PinNames = {"p", "q", "s"}
  MinPins = 2
  MaxPins1 = 3
  MaxPins2 = 3
  Nets <- MCNets
INVARIANTS
  PinsAgree
  ExactNames
PROPERTIES
  ConnectionsKept
CHECK_DEADLOCK FALSE
