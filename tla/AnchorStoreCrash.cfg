\* Crashes, I/O errors, restarts and contention, no loss of power.
CONSTANTS
    Instances = {i1, i2}
    Nobody = Nobody
    Transactions = {t1, t2}
    Requests <- MCRequests
    NoRequest = NoRequest
    Absent = Absent
    Partial = Partial
    MaxSequence = 3
    MaxPowerLosses = 0
SPECIFICATION Spec
INVARIANTS
    TypeOK
    SignedStaysVisible
    PriorUncontradicted
PROPERTIES
    InvalidStateNeverReset
    ImplementsMonotonicAnchor
