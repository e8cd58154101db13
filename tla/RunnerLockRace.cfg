SPECIFICATION FairLockSpec
CONSTANTS
  Procs = {p1, p2, p3, p4}
  None = None
  Overlap = TRUE
CHECK_DEADLOCK FALSE
INVARIANT OneRunner
