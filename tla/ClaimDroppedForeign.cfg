SPECIFICATION Spec
CONSTANTS
    c1 = c1
    r1 = r1
    r2 = r2
    Case = {c1}
    Request = {r1}
    Local = {}
    Outcome = {"approve"}
    MaxOpenCases = 1
    OpenCaseTtl = 0
    ReconcileMaxAttempts = 1
    PollSlot = {}
    Faults = {}
    Retrigger = FALSE
    MaxCrashes = 1
    MaxNow = 0
CHECK_DEADLOCK FALSE
PROPERTY DroppedIsReplayedOrForeign
