SPECIFICATION FairDrainSpec
CONSTANTS
  Turns = {t1, t2}
  Principals = {}
  Keys = {}
  Leases = {l1, l2}
  None = None
  Retention = 1
  MaxTime = 0
  Resumable = TRUE
  Requests = {"Run", "Cancel", "Suspend"}
  MayFail = FALSE
  MayShutDown = FALSE
  MaxCalls = 1
  MaxAsks = 2
  MaxCrashes = 1
CHECK_DEADLOCK FALSE
INVARIANTS
  NeverStranded
PROPERTIES
  Drains
