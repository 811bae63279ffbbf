\* The synced-before-signed claim of lib.rs against what the code does.
CONSTANTS
    Instances = {i1, i2}
    Nobody = Nobody
    Transactions = {t1, t2}
    Requests <- MCRequests
    NoRequest = NoRequest
    Absent = Absent
    Partial = Partial
    MaxSequence = 2
    MaxPowerLosses = 0
SPECIFICATION Spec
INVARIANT
    ProposedOnlyAfterSync
SYMMETRY MCSymmetry
