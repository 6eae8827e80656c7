\* All four programs; results within and beyond a tenth of each other.
CONSTANTS
  Program = {"test1", "test2", "test3", "test4"}
  Param <- MCParam
  GroupCount = 2
  StartingK = 3
  MaxK = 7
  IgnoreCount = 1
  Y = {0, 9, 10, 11, 20}
SPECIFICATION Spec
INVARIANTS
  TypeOK
  MeanIsOfKept
  VarianceOfKept
  KCountsResults
  ServicesMatchRequests
CHECK_DEADLOCK FALSE
