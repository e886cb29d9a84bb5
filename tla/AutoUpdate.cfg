SPECIFICATION AUFairSpec
CONSTANTS
    MaxVersion = 3
    Broken <- MCBroken
    Cap = 3
    None = None
    MaxKills = 3
    MaxUpgrades = 1
INVARIANTS StartsAreCounted RollbackRecorded NoThrash
PROPERTY CrashLoopEnds
CHECK_DEADLOCK FALSE
