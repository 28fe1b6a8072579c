\* The lock may expire under its batch.
CONSTANTS
    m1 = m1
    m2 = m2
    a1 = a1
    a2 = a2
    a3 = a3
    b1 = b1
    Replicas = {r1, r2}
    MRs = {m1}
    Jobs = {a1, a2}
    MROf <- TwoOnOne
    NoJob = NoJob
    NoMR = NoMR
    MaxAttempts = 2
    BatchFitsLock = FALSE
    Faults = {}
    MaxFaults = 0
    MaxStops = 0
    MaxExpiries = 0
SPECIFICATION Spec
SYMMETRY FullSymmetry
INVARIANTS
    NeverProcessedTwiceAtOnce
