\* Three apps; lists of one dependency.
CONSTANTS
    a = a
    b = b
    c = c
    Apps <- ThreeApps
    Unknown = unknown
    MaxDeps = 1
SPECIFICATION OrderSpec
INVARIANTS FreeAppsInConfigOrder
CHECK_DEADLOCK FALSE
