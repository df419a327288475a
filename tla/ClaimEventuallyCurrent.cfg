SPECIFICATION FairSpec
CONSTANTS
    Node = {1, 2}
    Pos = {0, 1}
    Key = {0}
    ChunkNodes = {1}
    MoveThresholds = {0}
    InFlightHistory = 2
    FairShareDivisor = 2
    MaxChanges = 3
    MaxFaults = 2
PROPERTIES
    EventuallyCurrent
