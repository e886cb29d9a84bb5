SPECIFICATION FairSpec
CONSTANTS
    Mentions = {m1, m2}
    Unset = Unset
    MaxRuntimes = 2
    MaxClock = 3
INVARIANTS ASTypeOK OneLaunchAtATime
PROPERTY EveryMentionEnds
CHECK_DEADLOCK FALSE
