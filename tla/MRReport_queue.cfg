\* Queue on: two changes, a failing call, a crash and a hand on the thread.
\* When every webhook is served and every bound spent, nothing is left to do.
CONSTANTS
    r1 = r1
    r2 = r2
    NoJob = NoJob
    Queued = TRUE
    Runners = {r1}
    RulesOf <- Lenient
    Codeowners = {"repo"}
    Moving = {"approvals", "commits"}
    MaxAttempts = 2
    Faults = {"refused", "lostReply"}
    MaxFaults = 1
    MaxFallbacks = 1
    MaxChanges = 2
    MaxToggles = 1
    MaxLosses = 1
SPECIFICATION FairSpec
INVARIANTS
    TypeOK
    OneReport
    ReportIsCurrent
PROPERTIES
    StatusFollowsReport
    Converges
CHECK_DEADLOCK FALSE
