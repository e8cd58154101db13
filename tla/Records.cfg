SPECIFICATION MCSpec
CONSTANTS
  Turns = {t1, t2}
  Principals = {p1}
  Keys = {k1}
  Leases = {l1, l2}
  None = None
  Retention = 1
  MaxTime = 1
  r1 = r1
  NoValue = NoValue
  Tasks = {r1}
  Schedule <- FastSchedule
  Policy <- AllAll
  LeaseMs = 1
  CatchupCap = 2
  Batch = 1
  MayEdit = TRUE
  MaxClock = 3
  MaxStarts = 2
  MaxFaults = 0
  Handles = {h1}
  Watchers = {w1}
  MaxEvent = 4
  MaxBatch = 2
  MaxRestarts = 1
  NoEvent = NoEvent
  Clones = {1, 2}
  ForkKeys <- OwnKeys
  SnapKeys = {3}
  Helpers = {1, 2}
  MaxTplCalls = 3
  MaxTplFaults = 2
  a1 = a1
  a2 = a2
  o1 = o1
  A = A
  B = B
  NoVm = NoVm
  Vms = {a1, a2, o1}
  SandboxOf <- MCSandboxOf
  OneShots = {o1}
  VmSlots = {1, 2}
  MaxVms = 1
  Workers = {1, 2}
  MaxVmCalls = 3
  MaxVmFaults = 1
  Limit = 1
  Users = {1, 2}
  MaxTurns = 2
  MaxCalls = 2
  MaxDisturbances = 2
CHECK_DEADLOCK FALSE
INVARIANTS
  RecordsTypeOK
  QueueKept
  WatchIsCurrent
  ReadsComplete
  ToolsRunOnce
  HistoryComplete
  ResponseCounts
  MachinesOnRecord
  HostLimitsKept
PROPERTIES
  EnqueueIsScoped
  ImplementsPromise
  PlanKept
  SuspendsAtBoundary
  
