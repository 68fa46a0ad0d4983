CONSTANTS
    p1 = p1  p2 = p2  e1 = e1  e2 = e2  ca = ca
    NoRequest = NoRequest
    IssuerOf <- OneIssuer
    Procs = {p1, p2}
    Enrollments = {e1}
    Serials = {1, 2}
    Lease = 2
    MaxTime = 3
    MaxSignings = 6
SPECIFICATION FairSpec
PROPERTIES IssuanceCompletes
CHECK_DEADLOCK FALSE
