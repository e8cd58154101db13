SPECIFICATION DrainSpec
CONSTANTS
  Turns = {t1}
  Principals = {}
  Keys = {}
  Leases = {l1, l2}
  None = None
  Retention = 1
  MaxTime = 0
  Resumable = TRUE
  Requests = {"Run", "Suspend"}
  MayFail = FALSE
  MayShutDown = FALSE
  MaxCalls = 1
  MaxAsks = 3
  MaxCrashes = 0
CHECK_DEADLOCK FALSE
INVARIANT ObserversServed
