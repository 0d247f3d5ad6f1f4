SPECIFICATION Spec
CONSTANTS
    PortalDesks = {"links", "tokens", "slugs", "workshop", "limiter", "notifier", "index", "shelf",
                   "letters"}
    Links = {x1, x2}
    Openings = {x1, x2}
    Resets = {x1, x2}
    Rolls = {m1, m2, m3}
    LinkTTL = 1
    RateWindow = 1
    RateMax = 1
    MaxClock = 2
    MaxClient = 2
    MaxBook = 2
    Projects = {p1, p2}
    Renames = {x1, x2}
    Edits = {e1}
    Emails = {a1, a2}
    Smoke = a1
    Coupons = {c1}
    Redeems = {x1, x2}
    AdminEdits = {d1}
    Batches = {g1}
    Asked <- MCAsked
    Bodies <- MCBodies
    MaxRegs = 2
    MaxReplies = 1
    FormKeys = {"ip", "target", "day"}
    MailKeys = {"mail"}
    Limit <- MCLimit
    Span <- MCSpan
    Callers = {x1, x2}
    Asks <- MCAsks
    Notified = {x1, x2}
    NotifyGap = 2
    MaxTicks = 2
    Drafts = {x1, x2}
    Reviews = {v1, v2}
    NoDoc = NoDoc
    EmptyDoc = EmptyDoc
    Faults = {"build", "expire", "crash"}
    Books = {x1, x2}
    Askers = {"customer", "admin"}
    ProofsKept = 1
    EPUBsKept = 1
    RateLimit = 1
    Window = 0
    MaxRows = 4
    MaxTime = 1
    NoBuild = NoBuild
    Authored = {a1, a2}
    Scheduled = {a1}
    TaskRows <- MCTasks
    LogRows <- MCLog
    FormsSent <- MCSent
    Senders <- MCSenders
    Letters = {h1}
    Audit <- MCAudit
    Today = 2
    Days = 1
    MaxLines = 2
INVARIANTS
    SignInSafe SlugsSafe CouponsSafe MailingsSafe ThrottleSafe
    IndexSafe OutputsSafe ProofsBounded ReadyHasPDF MailSafe
SYMMETRY MCSymmetry
CHECK_DEADLOCK FALSE
