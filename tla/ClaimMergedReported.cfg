SPECIFICATION FairSpec
CONSTANTS
    c1 = c1
    r1 = r1
    o1 = o1
    p1 = p1
    Case = {c1}
    Request = {r1}
    Local = {}
    Outcome = {"approve", "reject"}
    Spelling = {"title"}
    GraphSpelling = {"title"}
    MaxOpenCases = 1
    OpenCaseTtl = 0
    OpenSlot = {o1}
    PollSlot = {p1}
    Faults = {}
    MaxCrashes = 1
    MaxNow = 0
CHECK_DEADLOCK FALSE
PROPERTIES
    MergedIsReported
