\* The same, with losses of power.
CONSTANTS
    Instances = {i1, i2}
    Nobody = Nobody
    Transactions = {t1, t2}
    Requests <- MCRequests
    NoRequest = NoRequest
    Absent = Absent
    Partial = Partial
    MaxSequence = 2
    MaxPowerLosses = 2
SPECIFICATION Spec
INVARIANTS
    WrittenIsDurable
SYMMETRY MCSymmetry
