\* The chat, one kind of traffic at a time.
SPECIFICATION Spec
CONSTANTS
    Client = {u1}
    Seller = {v1, v2}
    Event = {e1}
    Booking = {b1}
    NULL = NULL
    RequestId = {r1, r2}
    Suites <- RunSuites
    MaxConvs = 2
    MaxMsgs = 2
    MaxTodos = 1
SYMMETRY Symmetry
CHECK_DEADLOCK FALSE
INVARIANTS
    TypeOK
    UnreadCountsUnseen
    ReceiptsTruthful
    OneDirectPerPair
    GroupComplete
    TodosBelong
    LiveForMembers
PROPERTIES
    LeftOutOnlyAtCreation
    FinalEventsStay
    PushReachesMembers
