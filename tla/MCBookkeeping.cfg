CONSTANTS
    p1 = p1
    p2 = p2
    s1 = s1
    s2 = s2
    Packets = {p1, p2}
    Tokens = {s1, s2}
    NoPacket = NoPacket
    MaxRetry = 2
    MaxPatches = 1
    MaxUsage = 1
    PatchBound = 1
    ControlBound = 1
    ChapterPackets = {p1, p2}
    Sessions = {s1, s2}
    MaxAttempt = 2
SPECIFICATION BookSpec
SYMMETRY Symmetry
INVARIANTS
    NothingInvented
    NewestIsActive
    PendingIsNewest
CHECK_DEADLOCK FALSE
