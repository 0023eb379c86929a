SPECIFICATION Spec
CONSTANTS
  Files <- LoopFiles
  FileName = "file"
  Numbers <- MCNumbers
INVARIANTS LoopsUnrolled
CHECK_DEADLOCK FALSE
