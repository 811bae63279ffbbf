\* Two threads share one operation and one of them owns another; the
\* quarantine has room for one of them and one ticket left.
CONSTANTS
    Operation = {shared, owned}
    Exclusive = {owned}
    Thread = {t1, t2}
    Owner = t1
    Capacity = 1
    MaxTicket = 1
    Nobody = Nobody
SPECIFICATION FairSpec
INVARIANTS
    QuiescentIsNeverLeaked
    CallbacksRunOnce
PROPERTIES
    ImplementsRetention
    EverythingSettles
