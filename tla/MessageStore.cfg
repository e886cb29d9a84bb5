SPECIFICATION StoreSpec
CONSTANTS
    LocalMessages = {l1, l2}
    CloudMessages = {c1}
    Sessions = {s1, s2}
    Owners = {o1}
    Keys = {k1}
    Requests = {q1}
    RedeliveryCap = 2
    None = None
SYMMETRY Symmetry
INVARIANTS RowsCoherent NoLocalMessageLost OneClaimPerSession SendOnce RedeliveryBounded
PROPERTY KeepsPromise
CHECK_DEADLOCK FALSE
