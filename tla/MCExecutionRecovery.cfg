\* Two cases about one execution, whose fee the venue changes once after the
\* adapter's stream has reported it; two books, and a delivery that fails.
SPECIFICATION Spec
CONSTANTS
    Execs = {x1}
    Cases = {c1, c2}
    Books = {position, ledger}
    Handlers = {h1}
    Fees = {0, 1}
    First = 0
    Streamed = {x1}
    Faulty = {position, ledger}
    MaxMoves = 1
    MaxFailures = 1
    Oms = oms
    None = none
SYMMETRY Interchangeable
CHECK_DEADLOCK FALSE
INVARIANTS
    CorrectedIsBooked
    FeesAgree
PROPERTIES
    CaseIsFinal
    FeesMoveBySignature
