SPECIFICATION Spec
CONSTANTS
    Nonces = {n1, n2, n3}
    TTL = 2
    MaxNonces = 2
    Procs = {p1, p2}
    Accounts = {A, B}
    Keys = {k1, k2}
    NoAccount = NoAccount
    NoKey = NoKey
    NoRequest = NoRequest
    MaxTime = 2
SYMMETRY Symmetry
INVARIANTS NonceOnce OneAccountPerKey KeyChangeKept
CHECK_DEADLOCK FALSE
