SPECIFICATION LiveSpec
CONSTANTS
    Procs = {p1, p2}
    Kinds = {"halt", "resume"}
    MaxFacts = 2
    Submit = Submit
    a1 = a1
    a2 = a2
    self = self
    ann = ann
    bob = bob
    cyd = cyd
    Approvals = {a1, self}
    Signer <- MCSigner
    Exact = {a1, self}
    Proposer = ann
    MaxFailures = 1
    None = None
INVARIANTS
    OnlyResumeOpens
    TwoSignatures
    ExpiredNeverTrades
 
CHECK_DEADLOCK FALSE
