SPECIFICATION Spec
CONSTANTS
  Comparisons <- MCComparisons
INVARIANTS
  ReportTrue
CHECK_DEADLOCK FALSE
