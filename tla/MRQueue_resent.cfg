\* Two merge requests; the Redis client sends one command twice.
CONSTANTS
    m1 = m1
    m2 = m2
    a1 = a1
    a2 = a2
    a3 = a3
    b1 = b1
    Replicas = {r1, r2}
    MRs = {m1, m2}
    Jobs = {a1, b1}
    MROf <- OneOnEach
    NoJob = NoJob
    NoMR = NoMR
    MaxAttempts = 2
    BatchFitsLock = TRUE
    Faults = {"refused", "lostReply", "resent"}
    MaxFaults = 1
    MaxStops = 1
    MaxExpiries = 1
SPECIFICATION Spec
SYMMETRY ReplicaSymmetry
INVARIANTS
    OneJobPerFailure
    AttemptsUnderResends
