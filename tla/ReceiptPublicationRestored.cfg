\* The service directory replaced by a copy of an earlier one.
CONSTANTS
    MaxSequence = 2
    MaxFresh = 5
    MaxOccurrence = 1
    MaxFaults = 2
    MaxRestores = 1
SPECIFICATION Spec
INVARIANTS
    AcknowledgedIsAnchored
    AttestedIsCurrent
