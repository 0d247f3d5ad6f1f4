SPECIFICATION Spec
CONSTANTS
  PassSessions = {s1}
  AddonSessions = {s2}
  Requests = {r1, r2}
  Poller = poller
  Nobody = nobody
  Limit = 100
  Lookback = 3
  Events = {"disconnect", "timeout", "fault", "crash"}
  MaxTime = 2
  MaxFaults = 2
INVARIANTS TypeOK FulfilledOnce OrderBacked WorkUndone
PROPERTY OnceOnly
