\* One key is stuck for good, fewer than Batch; lock sessions may be lost.
SPECIFICATION LiveSpec
CONSTANTS
    p1 = p1  p2 = p2  w1 = w1  w2 = w2  b1 = b1  b2 = b2  f1 = f1  f2 = f2
    Keys = {k1, k2}
    Writers = {w1}
    Background = {b1}
    Flushers = {f1}
    Bounded = {f1}
    Procs = {p1}
    Home <- HomeOne
    PoolSize = 3
    Batch = 2
    Poison = {k1}
    Faults = {"session"}
    MaxId = 2
    None = None
PROPERTY HealthyKeysDrain
