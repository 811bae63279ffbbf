\* Crashes, timeouts and losses of power at every step of two publications.
CONSTANTS
    MaxSequence = 2
    MaxFresh = 5
    MaxOccurrence = 2
    MaxFaults = 3
    MaxRestores = 0
SPECIFICATION FairSpec
INVARIANTS
    EveryCrashJoins
    AnchoredIsJournalled
    AcknowledgedStays
    OneReceiptPerSequence
PROPERTIES
    ImplementsDurableRecord
    PublicationCompletes
