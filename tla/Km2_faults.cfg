\* Every failure, two clients fighting for one port.
CONSTANTS
  a = a
  b = b
  c3 = c3
  h1 = h1
  h2 = h2
  h3 = h3
  Client = {a, b}
  Host = {h1}
  HostOf <- MCOneHost
  MaxRun <- TwiceAndOnce
  GcksBacklog = 2
  ClientBacklog = 2
  Fault = {"tgs_error", "tgs_timeout", "socket_error", "connect_timeout", "kdc_exit", "gcks_crash", "client_dies", "no_reuse"}
  NONE = NONE
SPECIFICATION Spec
INVARIANTS
  TypeOK
  AuthenticAcceptance
  AcceptedOnce
  EveryKeyAccountedFor
  ServedInOrder
CHECK_DEADLOCK FALSE
PROPERTY ImplementsTransport
