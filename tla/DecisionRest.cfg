SPECIFICATION Spec
CONSTANTS
    c1 = c1
    r1 = r1
    l1 = l1
    l2 = l2
    p1 = p1
    Case = {c1}
    Request = {r1}
    Local = {l1, l2}
    Outcome = {"approve", "reject"}
    MaxOpenCases = 1
    OpenCaseTtl = 0
    ReconcileMaxAttempts = 1
    PollSlot = {p1}
    Faults = {"ack", "open", "record", "claim", "github", "stamp", "terminal", "poll", "scan", "connect", "relay"}
    Retrigger = TRUE
    MaxCrashes = 1
    MaxNow = 1
CHECK_DEADLOCK FALSE
INVARIANTS
    AppliedOnce
    AnswerOnRecord
    AgreesWithGit
    OneAnswerPerRequest
