CONSTANTS
    Pods = {p1, p2}
    Keys = {k}
    Kinds = {"plain", "malformed", "slow", "retained"}
    AckWait = 5
    Budget = 2
    Lease = 6
    TTL = 6
    Dupe = 5
    Margin = 7
    NakBase = 1
    NakMax = 2
    MaxDeliver = 3
    MaxAckPending = 2
    MaxAttempts = 2
    MaxRedrives = 1
    MaxFaults = 1
SPECIFICATION Spec
INVARIANTS
    Accounted
    
    OnceWithoutFault
PROPERTIES
    RetainedRetried
    
