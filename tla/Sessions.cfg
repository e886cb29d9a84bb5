SPECIFICATION SSFairSpec
CONSTANTS
    MaxSessions = 3
    Legacy = {1, 2}
    Renamed = {1}
    Bmux = {2}
    Cap = 1
    None = None
    MaxDay = 1
    MaxEvents = 2
INVARIANTS ResetHasHandoff
PROPERTIES PromptsWelcome FencedStays ResetEnds
CHECK_DEADLOCK FALSE
