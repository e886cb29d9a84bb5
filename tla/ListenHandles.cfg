SPECIFICATION Spec
CONSTANTS
    h1 = h1
    h2 = h2
    b1 = b1
    Handles = {h1, h2}
    Bots = {b1}
    BotOf <- MCBotOf
    Listeners = {s1}
    Anonymous = Anonymous
    Runs = {r1, r2}
    None = None
    MaxRestarts = 1
SYMMETRY Symmetry
INVARIANTS TypeOK ClaimExcludesRuntime ClaimExcludesManaged OneMainRuntime StoppedStaysStopped
CHECK_DEADLOCK FALSE
