SPECIFICATION DeliverySpec
CONSTANTS
    p1 = p1
    p2 = p2
    r1 = r1
    g1 = g1
    g2 = g2
    s1 = s1
    s2 = s2
    t1 = t1
    t2 = t2
    t3 = t3
    Posts = {p1, p2}
    Runs = {r1}
    Gets = {g1, g2}
    Processes = {s1, s2}
    Home <- MCHome
    Texts = {t1, t2, t3}
    First = t1
    Exported = TRUE
    SameDevice = TRUE
    Postgres = TRUE
    Tools <- MCTools
    None = None
    MaxEdits = 2
    MaxLosses = 1
    Packets = {"p1", "p2"}
    Issues <- MCIssues
    Kind <- MCKind
    Blocking <- MCBlocking
    Scope <- MCScope
    Remedy <- MCRemedy
    PacketsOf <- MCPacketsOf
    Gap <- MCGap
    Order <- MCOrder
    Lockable = {"concept"}
    AttemptLimit = 2
    RoundLimit = 2
    MaxSessions = 2
INVARIANTS
    CheckedIsClean
    OpenIsPlanned
    OneRebuild
    MissingWasLost
    StampIsOfTheFile
PROPERTIES
    ExportIsWhole
    SuccessIsChecked
CHECK_DEADLOCK FALSE
