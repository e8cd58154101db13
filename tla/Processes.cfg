SPECIFICATION MCSpec
CONSTANTS
  Procs = {1, 2, 3}
  None = None
  Overlap = FALSE
  Hosts = {4, 5}
  Jobs = {1, 2, 3}
  HostOf <- MCHostOf
  Threads = {t1, t2}
  Agent = Agent
  Existing = {t1}
  NoOne = NoOne
  Rounds = 2
  MaxJobs = 3
  MayFork = TRUE
  Wakers = {1, 2, 3}
  MaxWakeups = 2
  Targets = {1, 2}
  MaxTools = 2
  MaxTaken = 2
  MaxFails = 1
  Gone = Gone
  r1 = r1
  o1 = o1
  NoValue = NoValue
  Tasks = {r1, o1}
  Schedule <- MCSchedule
  Policy <- AllOnce
  LeaseMs = 1
  CatchupCap = 3
  Batch = 2
  MayEdit = FALSE
  MaxClock = 3
  MaxStarts = 3
  MaxFaults = 1
  Messages = {m1, m2}
  Inbound = {i1}
  Nothing = Nothing
  MaxAttempts = 2
  MaxQueued = 2
  MaxClaim = 2
  MaxStops = 2
  MaxArrivals = 2
CHECK_DEADLOCK FALSE
INVARIANTS
  ProcessesTypeOK
  OneRunner
  Startable
  OneOwner
  MachinesCovered
  OneTurnAtATime
  AdapterKept
  FiresHeard
  HandoversCounted
  HeardOnce
PROPERTIES
  OthersVmsKept
  NobodyWaitsForEver
  Delivers
