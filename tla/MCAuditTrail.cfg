\* One tenant with a row that is refused, one with two decisions; two workers
\* and two replicas of the audit service.
SPECIFICATION Spec
CONSTANTS
    Decisions = {1, 2, 3}
    TenantOf <- MCTenantOf
    Unsendable = {1}
    Workers = {w1, w2}
    Pods = {p1, p2}
    Batch = 1
    Readings = {1001}
    Reader = 2
    Limit = 1
    MaxFaults = 1
    None = none
SYMMETRY Interchangeable
INVARIANTS
    EvidenceKept
    QuietMeansDrained
    MetricsAreTrue
    
    ExportIsWhole
