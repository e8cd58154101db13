SPECIFICATION SchedSpec
CONSTANTS
  NoValue = NoValue
  Tasks = {r1}
  Schedule <- MCSchedule
  Policy <- AllOnce
  LeaseMs = 1
  CatchupCap = 3
  Batch = 1
  MayEdit = FALSE
  MaxClock = 4
  MaxStarts = 2
  MaxFaults = 0
CHECK_DEADLOCK FALSE
INVARIANT OneRepeat
