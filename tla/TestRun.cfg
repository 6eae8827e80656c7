\* All four programs, clients that fail and samples out of range.
CONSTANTS
  Program = {"test1", "test2", "test3", "test4"}
  Ksm = {1, 2}
  ClientCount = 2
  GroupCount = 3
  AssignedCount = 2
  Time <- MCTime
  Fault = {"client_fails", "fork_fails"}
  MaxReject = 2
SPECIFICATION Spec
INVARIANTS
  TypeOK
  LogIsMeasured
  RequestsInOrder
  NeverRunCached
CHECK_DEADLOCK FALSE
