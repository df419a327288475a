CONSTANTS
    Proposal = {1, 2, 3}
    Key = {k1}
    Payload = {h1, h2}
    Principal = {alice, bob}
    Significant = {h1}
    MaxCrashes = 1
SPECIFICATION Spec
INVARIANTS
    SuccessIsRecorded
CHECK_DEADLOCK FALSE
