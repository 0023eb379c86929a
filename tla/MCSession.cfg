SPECIFICATION FairSpec
CONSTANTS
  Element <- MCElement
  Net <- MCNet
  GraphOf <- MCGraphOf
  Model <- MCModel
  Pin <- MCPin
  NoNet <- MCNoNet
  NoValue = NoValue
  NoPair = "none"
  Pairs <- EvenPairs
  Circuits <- MCCircuits
  Commands = {"compare", "iterate", "exhaustive", "converge", "resolve", "verify", "interrupt"}
INVARIANTS
  TypeOK
  IllegalOnlyIfBad
  LegalClassesAreOneCell
  MatchingsRespected
  UniqueIsMatching
  ConvergedIsStable
  PropertyVerdict
PROPERTIES
  BreakKeepsBalance
  RunEnds
  RefinesPromise
