\* One book, two POSTs of either kind, and what may happen beside them.
SPECIFICATION Spec
CONSTANTS
  Books = {b1}
  Projects = {p1}
  Requests = {r1, r2}
  NoProject = NoProject
  NoJob = NoJob
  BuildsIncluded = 1
  MaxConcurrentBuilds = 2
  MaxExtra = 1
  Kinds = {"proof", "final"}
  Callers = {"customer", "admin"}
  Events = {"attach", "grant", "gate", "link", "delete", "disconnect", "dberror", "crash"}
SYMMETRY Symmetry
CHECK_DEADLOCK FALSE
INVARIANTS
  TypeOK
  OneBuildPerBook
  NoOverspend
  DeliveredWithinAllowance
  RefundOnlyCharged
  LedgerMatches
PROPERTIES
  ReleasedByOwner
