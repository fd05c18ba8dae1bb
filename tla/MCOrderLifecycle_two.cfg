\* Two replicas: admission in a; cancel, amendment and sweep in b.
SPECIFICATION Spec
CONSTANTS
    a = a  b = b  s1 = s1  s2 = s2  c1 = c1  m1 = m1  w1 = w1
    Submits = {s1}
    Cancels = {c1}
    Amends = {m1}
    Sweeps = {w1}
    Replicas = {a, b}
    Home <- HomeTwo
    Qtys = {1, 2}
    Prices = {TRUE, FALSE}
    Faulty = {s1}
    MaxDeliver = 1
    MaxPlaced = 2
    MaxTrade = 4
    None = None
INVARIANTS
    FoldedOnce
    CancelBeforeRoute
    TermsAtVenue
 
CHECK_DEADLOCK FALSE
