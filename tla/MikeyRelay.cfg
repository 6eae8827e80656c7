SPECIFICATION Spec
CONSTANTS
  a = a
  b = b
  Client = {a, b}
  MaxReq = 4
  MaxKvno = 3
  Fault = {"no_keytab", "short_recv", "gcks_crash", "client_dies"}
  NONE = NONE
SYMMETRY ClientSymmetry
INVARIANTS
  TypeOK
  RejectionExplained
  AuthenticEndToEnd
  RejectedKeyIsPrivate
  EveryOfferHasStreams
CHECK_DEADLOCK FALSE
