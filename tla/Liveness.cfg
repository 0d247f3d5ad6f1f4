SPECIFICATION LiveSpec
CONSTANTS
  LiveDesks = {"store", "index"}
  PassSessions = {s1}
  AddonSessions = {s2}
  Requests = {r1, r2}
  Poller = poller
  Nobody = nobody
  Limit = 100
  Lookback = 3
  Events = {}
  MaxTime = 2
  MaxFaults = 0
  Drafts = {d1, d2}
  Reviews = {v1, v2}
  NoDoc = NoDoc
  EmptyDoc = EmptyDoc
  Faults = {"build"}
CHECK_DEADLOCK FALSE
INVARIANT DraftingIsHeld
PROPERTIES PaidFulfilled BuyerMailed DraftingEnds
