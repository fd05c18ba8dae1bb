\* Two keys, two replicas, every fault except the loss of a lock session.
SPECIFICATION Spec
CONSTANTS
    p1 = p1  p2 = p2  w1 = w1  w2 = w2  b1 = b1  b2 = b2  f1 = f1  f2 = f2
    Keys = {k1, k2}
    Writers = {w1, w2}
    Background = {b2}
    Flushers = {f1}
    Bounded = {f1}
    Procs = {p1, p2}
    Home <- HomeTwo
    PoolSize = 2
    Batch = 2
    Poison = {}
    Faults = {"db", "broker", "crash"}
    MaxId = 3
    None = None
INVARIANTS
    
    FlushedMeansSent

    
    
