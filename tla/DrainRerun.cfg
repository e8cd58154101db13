SPECIFICATION DrainSpec
CONSTANTS
  Turns = {t1}
  Principals = {}
  Keys = {}
  Leases = {l1}
  None = None
  Retention = 1
  MaxTime = 0
  Resumable = TRUE
  Requests = {"Run", "Suspend"}
  MayFail = FALSE
  MayShutDown = FALSE
  MaxCalls = 1
  MaxAsks = 3
  MaxCrashes = 1
CHECK_DEADLOCK FALSE
INVARIANT NoRerun
