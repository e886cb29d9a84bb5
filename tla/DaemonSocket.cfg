SPECIFICATION DSFairSpec
CONSTANTS
    Daemons = {d1, d2}
    Service = d1
    None = None
    MaxFiles = 5
    MaxEvents = 3
INVARIANTS AnswersLocked
PROPERTIES LiveSocketKept SocketBack LockReleased
CHECK_DEADLOCK FALSE
