CONSTANTS
    c1 = c1
    c2 = c2
    Chapters = {c1, c2}
    Length <- TwoChapters
    Parallelism = 1
    MaxFaults = 2
SPECIFICATION Spec
INVARIANTS
    TypeOK
    SuccessIsComplete
    OnePacketPerChapter
    PacketsInOrder
    StagesInOrder
    WithinParallelism
PROPERTIES
    OutcomeIsFinal
CHECK_DEADLOCK FALSE
