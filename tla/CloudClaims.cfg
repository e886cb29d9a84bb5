SPECIFICATION CCSpec
CONSTANTS
    LocalMessages = {}
    CloudMessages = {c1}
    Msg = c1
    Sessions = {s1, s2}
    Owners = {}
    Keys = {}
    Requests = {}
    RedeliveryCap = 1
    None = None
    Slots = {x1}
    Kinds = {"ack", "release", "renew"}
    MaxClaims = 3
    MaxOps = 2
    MaxStarts = 1
SYMMETRY Symmetry
VIEW View
INVARIANTS CCTypeOK AckAgreed OneTerminalPerClaim PendingAckPins NoForeignRenew NoClaimForgotten
CHECK_DEADLOCK FALSE
