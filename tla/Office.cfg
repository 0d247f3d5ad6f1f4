SPECIFICATION OfficeSpec
CONSTANTS
    OfficeDesks = {"transmittals", "specs", "sheet", "review",
                   "calendar", "entries", "places", "map", "stages"}
    SpecsRev = 2
    SpecsTime = 1
    Projects = {p1, p2}
    PassHeld = {p2}
    Saves = {v1, v2}
    Forms <- MCForms
    Window = 1
    MaxVersions = 2
    MaxRev = 4
    MaxTime = 2
    Typeset = {p1}
    Syncs = {v1, v2}
    Touches = {t1}
    BothRules = {b1}
    FictionRules = {f1}
    NonfictionRules = {n1}
    OwnRules = {o1}
    Texts = {0, 1}
    Visits = {v1, v2}
    ItemPatches = {x1}
    Proposals = {q1, q2, q3}
    Decisions = {d1, d2, d3}
    Calendars = {c1, c2}
    TaskIds = {1, 2, 3, 4}
    Workflow <- MCWorkflow
    Starts <- MCStarts
    Bodies <- MCBodies
    Editors = {v1, v2}
    Copies = 1
    Proper = {}
    Replies <- MCReplies
    Merges <- MCMerges
    Targets <- MCTargets
    Chapters = 2
    MaxSaves = 2
    Manuscripts <- MCManuscripts
    WordTails <- MCWordTails
    WordHeads <- MCWordHeads
    MinChunk = 3
    MaxInput = 5
    MinAnchor = 2
    AnchorWords = 3
    MaxUploads = 2
    Paragraphs <- MCParagraphs
    Declarations <- MCDeclarations
    StubParas = 1
    StubWords = 2
    MaxTyped = 4
    PrintRuns = {j1}
    EPUBRuns = {j1}
    Titles = {0, 1, 2, 3}
    UploadTitle = 0
    NoTitle = NoTitle
    Patch <- MCPatch
    Scoped = {}
    SpecTitles = {1, NoTitle}
    MaxEdits = 4
INVARIANTS
    TransmittalSafe SpecSafe SheetsSafe CalendarSafe
    EntriesSafe PlacesSafe MapSafe PrintSafe StagesSafe
PROPERTIES HistoryKeeps DecisionsKept
SYMMETRY MCSymmetry
CHECK_DEADLOCK FALSE
