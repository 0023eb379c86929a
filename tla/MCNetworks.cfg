SPECIFICATION FairSpec
CONSTANTS
  Series = {"r", "c"}
  NoParallel = {}
  Permuted = {"r", "c"}
  ParallelOpen = TRUE
  Merges = {"s_add", "p_par"}
  MDeclared = TRUE
  Tolerance <- Zero
  ExactTopology = FALSE
  Inputs <- MCInputs
  Netlists <- MCNetlists
  MaxMatches = 2
  MaxNode = 5
  Sizes = {4}
  Runs = 3
  Ohms = {1, 2, 3}
INVARIANTS
  OrderIrrelevant
  FullyMerged
  VerdictRight
  ReportAgrees
PROPERTIES
  NetworkKept
  CallsEnd
CHECK_DEADLOCK FALSE
