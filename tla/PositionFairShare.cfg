SPECIFICATION HistorySpec
CONSTANTS
    Node = {1, 2, 3}
    Pos = {0, 1}
    Key = {0}
    ChunkNodes = {1, 2}
    MoveThresholds = {0}
    InFlightHistory = 8
    FairShareDivisor = 2
    MaxChanges = 3
    MaxFaults = 0
INVARIANTS
    NotStarved
