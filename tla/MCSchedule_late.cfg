SPECIFICATION Spec
CONSTANTS
    r1 = r1
    r2 = r2
    c1 = c1
    None = None
    Replicas = {r1}
    Cancels = {c1}
    Home <- HomeOne
    Slices = 2
    SliceQty = 1
    MaxFaults = 0
    MaxHalts = 0
CHECK_DEADLOCK FALSE
INVARIANT ChildrenStop
