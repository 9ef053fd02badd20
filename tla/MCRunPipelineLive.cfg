CONSTANTS
    c1 = c1
    c2 = c2
    Chapters = {c1}
    Length <- TwoPackets
    Parallelism = 1
    MaxFaults = 2
SPECIFICATION FairSpec
PROPERTY ReportedRunSettles
CHECK_DEADLOCK FALSE
