CONSTANTS
    Proposal = {1, 2, 3}
    Key = {k1}
    Payload = {h1, h2}
    Principal = {alice}
    Significant = {h1}
    MaxCrashes = 1
SPECIFICATION Spec
INVARIANTS
    TypeOK
    OnePayloadPerKey
    ReceiptIsBacked
    AnswerIsTrue
    LateWritesNothing
    ElevatedIsRecorded
    IntentResolved
CHECK_DEADLOCK FALSE
