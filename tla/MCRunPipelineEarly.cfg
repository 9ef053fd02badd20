CONSTANTS
    c1 = c1
    c2 = c2
    Chapters = {c1}
    Length <- OnePacket
    Parallelism = 1
    MaxFaults = 0
SPECIFICATION Spec
INVARIANT SucceededMeansAllStages
CHECK_DEADLOCK FALSE
