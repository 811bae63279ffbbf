\* Two tasks in turn in one slot, each with its completion record and a
\* dependency; one worker.
CONSTANTS
    Slots = {s1}
    Tasks = {t1, t2}
    Leases = {l1}
    Workers = {w1}
    Records = {c1, c2}
    Dependencies = {d1}
    MaxGeneration = 1
    Needs <- EachNeedsAll
SPECIFICATION Spec
INVARIANTS
    ReusableAfterCompletion
SYMMETRY MCSymmetry
