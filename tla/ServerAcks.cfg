SPECIFICATION FairSpec
CONSTANTS
  a = a
  b = b
  d = d
  Threads = {t1, t2}
  Workspaces = {a, b}
  Docs = {d}
  Failing = {b}
  Requests <- MCRequests
  Policies = {"request", "timer"}
  MaxRequests = 2
  MaxRestarts = 1
CHECK_DEADLOCK FALSE
INVARIANTS
  TypeOK
  AckedDurable
  OneOutcome
  NoEarlyExit
PROPERTIES
  AckedSynced
  RequestsAnswered
