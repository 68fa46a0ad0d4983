SPECIFICATION Spec
CONSTANTS
    Ids = {1, 2, 3}
    NotAfter <- MCNotAfter
    Attr <- MCAttr
    AnyValue = AnyValue
    NoRow = NoRow
    Procs = {p1, p2}
    NoProc = NoProc
    NoList = NoList
    EventIds = {1, 2, 3}
    MaxTime = 2
    MaxRequests = 2
    Workloads <- MCWorkloads
    Issued = {{}, {1, 2}, {2, 3}}
    Windows = {1}
SYMMETRY Symmetry
INVARIANTS WalksSeeAll 
  
CHECK_DEADLOCK FALSE
