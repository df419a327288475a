SPECIFICATION FairSpec
CONSTANTS
    c1 = c1
    r1 = r1
    p1 = p1
    p2 = p2
    Case = {c1}
    Request = {r1}
    Local = {}
    Outcome = {"approve", "reject", "amend"}
    MaxOpenCases = 1
    OpenCaseTtl = 0
    ReconcileMaxAttempts = 1
    PollSlot = {p1, p2}
    Faults = {"relay", "stamp", "poll"}
    Retrigger = FALSE
    MaxCrashes = 2
    MaxNow = 1
CHECK_DEADLOCK FALSE
PROPERTIES
    ImplementsLifecycle
    SettledPrConcludes
    ApprovalIsTakenUp
