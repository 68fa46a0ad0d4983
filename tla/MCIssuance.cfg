CONSTANTS
    p1 = p1  p2 = p2  e1 = e1  e2 = e2  ca = ca
    NoRequest = NoRequest
    IssuerOf <- OneIssuer
    Procs = {p1, p2}
    Enrollments = {e1, e2}
    Serials = {1, 2}
    Lease = 1
    MaxTime = 2
    MaxSignings = 3
SPECIFICATION Spec
INVARIANTS IssuedConsistent LiveLeaseExclusive AnswersAgree
PROPERTIES GivesUpOnlyOnCollision StoredMaterialKept ImplementsLedger
SYMMETRY Symmetry
CHECK_DEADLOCK FALSE
