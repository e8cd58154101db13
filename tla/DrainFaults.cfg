SPECIFICATION DrainSpec
CONSTANTS
  Turns = {t1, t2}
  Principals = {}
  Keys = {k1}
  Leases = {l1}
  None = None
  Retention = 1
  MaxTime = 0
  Resumable = FALSE
  Requests = {"Cancel"}
  MayFail = TRUE
  MayShutDown = TRUE
  MaxCalls = 2
  MaxAsks = 1
  MaxCrashes = 1
CHECK_DEADLOCK FALSE
SYMMETRY Symmetry
INVARIANTS
  ExecutionKept
  NoRerun
  ObserversServed
PROPERTIES
  EndIsFinal
