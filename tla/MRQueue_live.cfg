\* One merge request with two jobs: a failing command, a replica that may stop
\* with the lock held, an expired queue.  (Temporal properties: no symmetry.)
CONSTANTS
    m1 = m1
    m2 = m2
    a1 = a1
    a2 = a2
    a3 = a3
    b1 = b1
    Replicas = {r1, r2}
    MRs = {m1}
    Jobs = {a1, a2}
    MROf <- TwoOnOne
    NoJob = NoJob
    NoMR = NoMR
    MaxAttempts = 2
    BatchFitsLock = TRUE
    Faults = {"refused", "lostReply"}
    MaxFaults = 1
    MaxStops = 1
    MaxExpiries = 1
SPECIFICATION FairSpec
PROPERTIES
    JobsSettle
    LocksFreed
    ImplementsLedger
    ImplementsLines
