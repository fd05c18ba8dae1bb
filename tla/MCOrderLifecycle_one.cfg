\* One replica; a delivery may die anywhere and comes again.
SPECIFICATION LiveSpec
CONSTANTS
    a = a  b = b  s1 = s1  s2 = s2  c1 = c1  m1 = m1  w1 = w1
    Submits = {s1}
    Cancels = {c1}
    Amends = {}
    Sweeps = {w1}
    Replicas = {a}
    Home <- HomeOne
    Qtys = {2}
    Prices = {TRUE}
    Faulty = {s1}
    MaxDeliver = 2
    MaxPlaced = 2
    MaxTrade = 3
    None = None
INVARIANTS
    OnePlacement
    CancelledIsClosed
    ExpiredIsComplete
PROPERTIES
    
    TradesAreFolded
CHECK_DEADLOCK FALSE
