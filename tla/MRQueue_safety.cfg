\* Two replicas and three jobs of one merge request: a failing command, and a
\* stop at any point.
CONSTANTS
    m1 = m1
    m2 = m2
    a1 = a1
    a2 = a2
    a3 = a3
    b1 = b1
    Replicas = {r1, r2}
    MRs = {m1}
    Jobs = {a1, a2, a3}
    MROf <- ThreeOnOne
    NoJob = NoJob
    NoMR = NoMR
    MaxAttempts = 2
    BatchFitsLock = TRUE
    Faults = {"refused", "lostReply"}
    MaxFaults = 1
    MaxStops = 1
    MaxExpiries = 0
SPECIFICATION Spec
SYMMETRY FullSymmetry
INVARIANTS
    TypeOK
    OneCopy
    OneBatchPerMR
    AttemptBound
    FirstRunsInOrder
    OneJobPerFailure
    OneKeyPerFailure
PROPERTIES
    FinalIsFinal
