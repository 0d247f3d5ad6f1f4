SPECIFICATION FairSpec
CONSTANTS
  PassSessions = {s1}
  AddonSessions = {}
  Requests = {r1}
  Poller = poller
  Nobody = nobody
  Limit = 100
  Lookback = 3
  Events = {"disconnect"}
  MaxTime = 2
  MaxFaults = 1
PROPERTIES PaidFulfilled

