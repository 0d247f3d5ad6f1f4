SPECIFICATION IndexFairSpec
CONSTANTS
  Drafts = {d1}
  Reviews = {}
  NoDoc = NoDoc
  EmptyDoc = EmptyDoc
  Faults = {"expire"}
CHECK_DEADLOCK FALSE
PROPERTIES
  DraftingEnds
