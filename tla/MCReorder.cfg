SPECIFICATION Spec
CONSTANTS
  Element <- MCElement
  Net <- MCNet
  GraphOf <- MCGraphOf
  Model <- MCModel
  Pin <- MCPin
  NoNet <- MCNoNet
  NoValue = NoValue
  NoPair = "none"
  Pairs <- ReorderedPairs
  Circuits <- MCCircuits
  Commands = {"compare", "iterate", "restart", "equate", "resolve"}
INVARIANTS
  UniqueIsMatching
