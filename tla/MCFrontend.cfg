SPECIFICATION Spec
CONSTANTS
    Names <- MCNames
    Hosts <- MCHosts
    NameSets <- MCNameSets
    IdentityNames <- MCIdentityNames
    ProfileIds = {p1}
    NoProfile = NoProfile
    ProfileRequests <- MCProfileRequests
    RequestIds = {r1, r2}
    NoRequest = NoRequest
    Periods = {1, 3}
    Zones <- MCZones
    Schedule <- MCSchedule
    Override = 0
    AllowIndeterminate = FALSE
    OrderLifetime = 2
    MaxTime = 3
    client = client
    proxy = proxy
    a1 = a1
    r1 = r1
    r2 = r2
    Remotes = {client, proxy}
    Proxies = {proxy}
    Forwarded = {NoAddress, a1}
    NoAddress = NoAddress
    RateLimit = 2
    RateLimitWindow = 2
    Workloads <- MCWorkloads
INVARIANTS ScopesRespected RateLimitExact 
CHECK_DEADLOCK FALSE
