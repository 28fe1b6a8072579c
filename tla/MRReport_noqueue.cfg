\* Queue off: two webhooks about the same merge request, every call works.
CONSTANTS
    r1 = r1
    r2 = r2
    NoJob = NoJob
    Queued = FALSE
    Runners = {r1, r2}
    RulesOf <- Lenient
    Codeowners = {}
    Moving = {"details", "commits"}
    MaxAttempts = 1
    Faults = {}
    MaxFaults = 0
    MaxFallbacks = 0
    MaxChanges = 1
    MaxToggles = 0
    MaxLosses = 0
SPECIFICATION Spec
SYMMETRY RunnerSymmetry
INVARIANTS
    OneReport
CHECK_DEADLOCK FALSE
