\* The owner thread, the backend and a cancelling thread over small graphs.
CONSTANTS
    Requests <- MCRequests
    Stream = {1, 2}
    Segment = {"a", "b"}
    Budget = 2
    MaxRejected = 1
SPECIFICATION FairSpec
INVARIANTS
    ConflictsNeverOverlap
    NoSelfInflictedQuarantine
    SucceededIsRetired
    FreeSlotFreeContext
PROPERTIES
    CancellationStopsIssue
    ReplyComes
