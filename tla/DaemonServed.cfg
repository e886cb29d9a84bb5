SPECIFICATION DSFairSpec
CONSTANTS
    Daemons = {d1}
    Service = d1
    None = None
    MaxFiles = 3
    MaxEvents = 2
PROPERTY ServedAgain
CHECK_DEADLOCK FALSE
