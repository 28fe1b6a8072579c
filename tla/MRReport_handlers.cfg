\* Queue off: two handlers side by side, a failing or repeated call.
\* When every webhook is served and every bound spent, nothing is left to do.
CONSTANTS
    r1 = r1
    r2 = r2
    NoJob = NoJob
    Queued = FALSE
    Runners = {r1, r2}
    RulesOf <- Lenient
    Codeowners = {}
    Moving = {"details", "commits"}
    MaxAttempts = 1
    Faults = {"refused", "lostReply", "resent"}
    MaxFaults = 1
    MaxFallbacks = 0
    MaxChanges = 2
    MaxToggles = 0
    MaxLosses = 1
SPECIFICATION Spec
SYMMETRY RunnerSymmetry
INVARIANTS
    ReportsBounded
CHECK_DEADLOCK FALSE
