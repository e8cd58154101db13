SPECIFICATION SchedSpec
CONSTANTS
  NoValue = NoValue
  Tasks = {r1}
  Schedule <- MCSchedule
  Policy <- AllOnce
  LeaseMs = 2
  CatchupCap = 3
  Batch = 1
  MayEdit = TRUE
  MaxClock = 3
  MaxStarts = 1
  MaxFaults = 0
CHECK_DEADLOCK FALSE
INVARIANT CancelSticks
