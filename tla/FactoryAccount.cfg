\* Two finals of two books compete for one slot and may fail; no faults.
SPECIFICATION FairSpec
CONSTANTS
  Books = {b1, b2}
  Projects = {p1}
  Requests = {r1, r2}
  NoProject = NoProject
  NoJob = NoJob
  BuildsIncluded = 1
  MaxConcurrentBuilds = 1
  MaxExtra = 1
  Kinds = {"final"}
  Callers = {"customer", "admin"}
  Events = {"grant", "passlive", "gate"}
CHECK_DEADLOCK FALSE
INVARIANTS
  FailedFinalRepaid
PROPERTIES
  BuildEnds
