SPECIFICATION Spec
CONSTANTS
  Files <- MCFiles
  FileName = "file"
  Numbers <- MCNumbers
INVARIANTS NetsAsWritten PinsFollowPorts
CHECK_DEADLOCK FALSE
