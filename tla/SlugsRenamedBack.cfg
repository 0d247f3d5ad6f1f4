SPECIFICATION SlugsSpec
CONSTANTS
    MaxClient = 2
    MaxBook = 1
    Projects = {p1}
    Renames = {r1, r2, r3}
    Edits = {}
INVARIANT EmailedURLsWork
CHECK_DEADLOCK FALSE
