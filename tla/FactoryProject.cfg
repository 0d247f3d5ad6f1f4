\* Three finals of the two books of one project, under every fault.
SPECIFICATION Spec
CONSTANTS
  Books = {b1, b2}
  Projects = {p1}
  Requests = {r1, r2, r3}
  NoProject = NoProject
  NoJob = NoJob
  BuildsIncluded = 1
  MaxConcurrentBuilds = 2
  MaxExtra = 1
  Kinds = {"final"}
  Callers = {"customer"}
  Events = {"gate", "disconnect", "dberror", "crash"}
SYMMETRY Symmetry
CHECK_DEADLOCK FALSE
INVARIANTS
  OneBuildPerProject
