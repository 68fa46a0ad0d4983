SPECIFICATION FairSpec
CONSTANTS
    Replicas = {r1, r2}
    Builds = {b1, b2}
    NoBuild = NoBuild
    Databases <- MCDatabases
    Configs <- MCConfigs
    MaxLaunches = 1
INVARIANTS ServesItsSchema 
PROPERTIES StartsAndStops
CHECK_DEADLOCK FALSE
