\* A root with two more domains and two records; slots are used again.  The
\* ledger comes to rest when every handle and token is gone.
CONSTANTS
    Kind = {"bytes", "count"}
    Capacity <- MCCapacity
    Baseline <- MCBaseline
    MaxDomains = 3
    MaxRecords = 2
    MaxDepth = 3
    Shapes <- MCShapes
    Batches <- MCBatches
    MaxOwner = 4
    MaxGeneration = 5
    MaxHandles = 2
CHECK_DEADLOCK FALSE
SPECIFICATION Spec
INVARIANTS
    Conserved
    NothingDangles
    RetiredExactly
PROPERTIES
    ImplementsAccount
