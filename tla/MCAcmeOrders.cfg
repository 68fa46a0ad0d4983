SPECIFICATION FairSpec
CONSTANTS
    a1 = a1
    a2 = a2
    o1 = o1
    Procs = {p1, p2}
    Orders = {o1}
    Authzs = {a1, a2}
    OrderOf <- MCOrderOf
    PublicTLS = {o1}
    Enrollments = {e1, e2}
    Serials = {1, 2}
    NoRequest = NoRequest
    NoEnrollment = NoEnrollment
    Lifetime = 2
    ReuseCeiling = 1
    MaxTime = 2
    MaxAborts = 1
INVARIANTS ValidatedIsReady LateValidationNeverIssues OneOutcome
PROPERTIES ImplementsOrderLedger ReadyIsSettled
CHECK_DEADLOCK FALSE
