SPECIFICATION Spec
CONSTANTS
    c1 = c1
    r1 = r1
    r2 = r2
    l1 = l1
    o1 = o1
    o2 = o2
    p1 = p1
    Case = {c1}
    Request = {r1, r2}
    Local = {l1}
    Outcome = {"approve", "reject"}
    Spelling = {"title", "raw"}
    GraphSpelling = {"raw"}
    MaxOpenCases = 1
    OpenCaseTtl = 0
    OpenSlot = {o1, o2}
    PollSlot = {p1}
    Faults = {"connect", "open", "relay", "ack", "record", "github", "terminal", "poll", "scan"}
    MaxCrashes = 1
    MaxNow = 1
SYMMETRY Symmetry
CHECK_DEADLOCK FALSE
INVARIANTS
    TypeOK
    OneDraftPerApproval
    DraftIsRecorded
    ElevatedIsMerged
    AwaitingIsOnForum
