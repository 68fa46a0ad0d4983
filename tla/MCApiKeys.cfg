SPECIFICATION Spec
CONSTANTS
    Procs = {p1, p2}
    ResponderIds = {r1, r2, r3}
    NoResponder = NoResponder
    KeyIds = {k1, k2, k3}
    Boot = Boot
    NoKey = NoKey
    Workloads <- MCWorkloads
    Grants = {{"write"}, {"operator"}}
    MaxTime = 1
    MaxStarts = 2
SYMMETRY Symmetry
INVARIANTS DeadTokensRefused RotationExclusive OneActiveResponder
CHECK_DEADLOCK FALSE
