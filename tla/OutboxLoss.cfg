SPECIFICATION OutboxSpec
CONSTANTS
  Messages = {m1}
  Inbound = {}
  Nothing = Nothing
  MaxAttempts = 3
  MaxQueued = 1
  MaxClaim = 1
  MaxStops = 1
  MaxArrivals = 0
CHECK_DEADLOCK FALSE
INVARIANT NeverLost
