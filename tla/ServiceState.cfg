\* Two tasks in turn in one slot that is used twice, two workers and one lease.
CONSTANTS
    Slots = {s1}
    Tasks = {t1, t2}
    Leases = {l1}
    Workers = {w1, w2}
    Records = {c1}
    Dependencies = {}
    MaxGeneration = 1
    Needs <- NoNeeds
SPECIFICATION Spec
INVARIANTS
    OneTaskPerGeneration
    RunsAlone
PROPERTIES
    AdmissionStaysClosed
SYMMETRY MCSymmetry
