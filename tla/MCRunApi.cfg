CONSTANTS
    Runs = {r1, r2, r3}
    Sessions = {s1, s2}
    Packets = {p1}
    NoRun = NoRun
    Writers = {w1, w2}
    Limit = 2
    MaxId = 6
    MaxDrops = 2
SPECIFICATION ApiSpec
SYMMETRY Symmetry
INVARIANTS
    
    ReceivedInOrder
PROPERTIES
    ImplementsSlot
    DisplacedRunHasFailed
CHECK_DEADLOCK FALSE
