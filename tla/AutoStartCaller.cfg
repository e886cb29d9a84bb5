SPECIFICATION FairSpec
CONSTANTS
    Mentions = {m1, m2}
    Unset = Unset
    MaxRuntimes = 2
    MaxClock = 3
PROPERTY CallerGoesOn
CHECK_DEADLOCK FALSE
