\* A proof and a final of one book: the POST that loses rewrites build_kind.
SPECIFICATION Spec
CONSTANTS
  Books = {b1}
  Projects = {p1}
  Requests = {r1, r2}
  NoProject = NoProject
  NoJob = NoJob
  BuildsIncluded = 1
  MaxConcurrentBuilds = 2
  MaxExtra = 0
  Kinds = {"proof", "final"}
  Callers = {"customer"}
  Events = {}
SYMMETRY Symmetry
CHECK_DEADLOCK FALSE
INVARIANTS
  FailedFinalRepaid
