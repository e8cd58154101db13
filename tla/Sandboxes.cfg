SPECIFICATION MCSpec
CONSTANTS
  Boxes = {1, 2, 3}
  Calls = {1, 2, 3}
  Earlier = {1}
  Tries = 2
  KeepsDisk = FALSE
  MaxBoxCalls = 3
  BackendFails = TRUE
  Streams = {"out", "err"}
  Waiters = {w}
  MaxChunks = 1
  Pipes = {"out", "err"}
  Talkers = {"out"}
  MaxWrites = 1
CHECK_DEADLOCK FALSE
INVARIANTS
  SandboxesTypeOK
  RecordsTrue
  OutputFirst
PROPERTIES
  SnapshotKept
  LogPromise
  EveryoneReturns
