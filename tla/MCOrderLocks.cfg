\* A parent and its slice; three deliveries that wait and one that does not.
SPECIFICATION LiveSpec
CONSTANTS
    p = p  c = c  d1 = d1  d2 = d2  d3 = d3  t1 = t1  l1 = l1  l2 = l2
    Orders = {p, c}
    Children <- OneParent
    Deliveries = {d1, d2, d3, t1}
    Tries = {t1}
    Locks = {l1, l2}
    None = None
INVARIANT NoLeak
PROPERTIES
    Served
    ImplementsClaim
