\* The test programs' loop when nothing fails.
CONSTANTS
  a = a
  b = b
  c3 = c3
  h1 = h1
  h2 = h2
  h3 = h3
  Client = {a, b}
  Host = {h1}
  HostOf <- MCOneHost
  MaxRun <- ThreeTimes
  GcksBacklog = 1
  ClientBacklog = 1
  Fault = {}
  NONE = NONE
SPECIFICATION FairHarnessSpec
INVARIANTS
  ListenerIsServed
  EveryReadAuthenticates
  NothingLeftBehind
PROPERTIES
  EveryRunCompletes
CHECK_DEADLOCK FALSE
