CONSTANTS
    Items = {i1, i2}
    Leases = {l1, l2, l3}
    MaxRetry = 2
    NoItem = NoItem
    NoLease = NoLease
    Packets = {q1, q2}
    ChapterOf <- OneChapter
    AutoPatchCap = 1
    MaxRetries = 2
    MaxAttempt = 3
    MaxRepair = 2
    NoRevision = NoRevision
SPECIFICATION ItemsSpec
SYMMETRY Symmetry
INVARIANTS
    TypeOK
    OwnedItemHasActiveLease
    SettledMeansTranslated
    OneThreadPerItem
    AttemptCountsClaims
    OneLiveItem
    
    EscalationIsTrue
    
PROPERTIES
    SettledIsFinal
    ImplementsLedger
CHECK_DEADLOCK FALSE
