\* A client is run again with its service ticket in the cache.
CONSTANTS
  a = a
  b = b
  c3 = c3
  h1 = h1
  h2 = h2
  h3 = h3
  Client = {a}
  Host = {h1}
  HostOf <- MCThreeHosts
  MaxRun <- Twice
  GcksBacklog = 1
  ClientBacklog = 1
  Fault = {}
  NONE = NONE
SPECIFICATION FairSpec
PROPERTIES
  ListenerIsCalled
CHECK_DEADLOCK FALSE
