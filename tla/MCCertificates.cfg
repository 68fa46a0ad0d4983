CONSTANTS
    o1 = o1  o2 = o2  s1 = s1  s2 = s2  c1 = c1  c2 = c2  c3 = c3
    NotAfter <- Ends
    Operators = {o1}
    Scanners = {s1, s2}
    Certificates = {c1, c3}
    WarningWindow = 1
    Limit = 1
    MaxTime = 3
    MaxRequests = 2
    MaxAborts = 1
SPECIFICATION FairSpec
INVARIANTS EventsMatchStatus
PROPERTIES ImplementsStatus ScansCatchUp
CHECK_DEADLOCK FALSE
