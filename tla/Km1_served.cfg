SPECIFICATION FairSpec
CONSTANTS
  a = a
  b = b
  c3 = c3
  Client = {a, b, c3}
  MaxRun <- OneTwice
  Backlog = 1
  Fault = {"tgs_error"}
  NONE = NONE
PROPERTIES
  RunIsServed
CHECK_DEADLOCK FALSE
