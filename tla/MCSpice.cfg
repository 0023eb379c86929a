SPECIFICATION Spec
CONSTANTS
  Files <- MCFiles
  FileName = "file"
  Included = "included"
  Numbers <- MCNumbers
  MaxLines = 6
INVARIANTS
  TypeOK
  NetsKept
  InstancesResolved
  GlobalsInherited
CHECK_DEADLOCK FALSE
