\* The test programs' loop when a client dies before it listens.
CONSTANTS
  a = a
  b = b
  c3 = c3
  h1 = h1
  h2 = h2
  h3 = h3
  Client = {a, b}
  Host = {h1}
  HostOf <- MCOneHost
  MaxRun <- Once
  GcksBacklog = 1
  ClientBacklog = 1
  Fault = {"client_dies"}
  NONE = NONE
SPECIFICATION HarnessSpec
INVARIANTS
  EveryReadAuthenticates
CHECK_DEADLOCK FALSE
