SPECIFICATION FairSessSpec
CONSTANTS
  Hosts = {3}
  Jobs = {1, 2}
  HostOf <- MCHostOf
  Threads = {t1, t2}
  Agent = Agent
  Existing = {t1}
  NoOne = NoOne
  Rounds = 2
  MaxJobs = 2
  MayFork = TRUE
CHECK_DEADLOCK FALSE
PROPERTY NamespaceGuardIsShort
