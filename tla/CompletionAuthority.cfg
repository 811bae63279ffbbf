\* Every order of observations and cancellations of small graphs.
CONSTANTS
    Graphs <- MCGraphs
    Stream = {1, 2}
    Code = {1, 2}
SPECIFICATION AuthorityFairSpec
INVARIANTS
    ReadyAfterDependencies
    NobodyWaitsForAFailure
    CausesAreTrue
    NotifiedOnce
PROPERTIES
    ReportComes
