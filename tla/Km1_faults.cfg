SPECIFICATION FairSpec
CONSTANTS
  a = a
  b = b
  c3 = c3
  Client = {a, b}
  MaxRun <- OneTwice
  Backlog = 2
  Fault = {"tgs_error", "connect_timeout", "bad_ap_req", "unparse_error", "client_dies", "gcks_crash"}
  NONE = NONE
INVARIANTS
  TypeOK
  AuthenticAcceptance
  EveryTgkAccountedFor
  ServedInConnectOrder
PROPERTIES
  ImplementsTransport
  EveryRunEnds
CHECK_DEADLOCK FALSE
