\* Clients on hosts of their own, at the same time, and a GCKS that hangs, dies
\* and restarts.
CONSTANTS
  a = a
  b = b
  c3 = c3
  h1 = h1
  h2 = h2
  h3 = h3
  Client = {a, b, c3}
  Host = {h1, h2, h3}
  HostOf <- MCThreeHosts
  MaxRun <- Once
  GcksBacklog = 1
  ClientBacklog = 1
  Fault = {"connect_timeout", "gcks_crash", "client_dies"}
  NONE = NONE
SPECIFICATION FairSpec
PROPERTIES
  EveryRequestAnswered
  AskingClientIsServed
CHECK_DEADLOCK FALSE
