SPECIFICATION Spec
CONSTANTS
    c1 = c1
    c2 = c2
    r1 = r1
    r2 = r2
    p1 = p1
    Case = {c1, c2}
    Request = {r1, r2}
    Local = {}
    Outcome = {"approve"}
    MaxOpenCases = 2
    OpenCaseTtl = 0
    ReconcileMaxAttempts = 1
    PollSlot = {p1}
    Faults = {}
    Retrigger = FALSE
    MaxCrashes = 0
    MaxNow = 0
CHECK_DEADLOCK FALSE
INVARIANT PublishedReachedCorpus
