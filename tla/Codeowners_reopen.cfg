\* A section is opened, closed and opened again.
\* The end of the file is the end of the behaviour.
CONSTANTS
    A = A
    B = B
    rep = rep
    mnt = mnt
    lead = lead
    ghost = ghost
    Names = {A, B, Default}
    NoName = NoName
    Unmatchable = Unmatchable
    Default = Default
    Diffs <- TwoFiles
    LevelOf <- Levels
    Users = {rep, mnt, lead}
    Lines <- ReopenLines
    MaxLines = 4
SPECIFICATION Spec
INVARIANTS
    NoRuleLost
CHECK_DEADLOCK FALSE
