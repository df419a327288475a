SPECIFICATION FairSpec
CONSTANTS
    Node = {1, 2}
    Pos = {0, 1}
    Key = {0, 1}
    ChunkNodes = {1, 2}
    MoveThresholds = {0}
    InFlightHistory = 8
    FairShareDivisor = 2
    MaxChanges = 3
    MaxFaults = 1
INVARIANTS
    TypeOK
    HeldByClient
PROPERTIES
    EventuallyCurrent
