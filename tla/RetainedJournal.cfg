\* Failed calls, exits and losses of power at every step of the journal.
CONSTANTS
    Values = {a, b}
    Absent = Absent
    Torn = Torn
    MaxVersion = 3
    MaxFaults = 5
SPECIFICATION FairSpec
INVARIANTS
    EveryCrashIsAdmissible
    AcknowledgedIsDurable
PROPERTIES
    ImplementsDurableRecord
    RecoveryCompletes
