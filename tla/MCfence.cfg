CONSTANTS
    j1 = j1  j2 = j2  a1 = a1  a2 = a2  k1 = k1  k2 = k2  b1 = b1  b2 = b2  p1 = p1  p2 = p2
    NoJob = NoJob  NoAttempt = NoAttempt  NoKey = NoKey
    NoPayload = NoPayload  NoBatch = NoBatch
    Jobs = {j1}
    Attempts = {a1, a2}
    Keys = {k1, k2}
    Payloads = {p1, p2}
    LocalBatches = {b1, b2}
    MaxToken = 2
    Horizon = 1
    MaxRenewals = 1
SPECIFICATION Spec
SYMMETRY Interchangeable
INVARIANTS OneBatchPerAssignment EvidenceBehindFence
PROPERTY ImplementsAuthority
CHECK_DEADLOCK FALSE
