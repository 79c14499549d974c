SPECIFICATION FairSpec
CONSTANTS
  r1 = r1
  r2 = r2
  r3 = r3
  shell = shell
  python = python
  NoScope = NoScope
  Requests <- MCRequests
  Scopes <- MCScopes
INVARIANTS WaiterIsReachable ToldTruth
PROPERTIES ImplementsConsent EveryRequestSettles
CHECK_DEADLOCK FALSE
