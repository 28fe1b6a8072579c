\* Directory patterns, with and without a leading slash.
\* The end of the file is the end of the behaviour.
CONSTANTS
    A = A
    B = B
    rep = rep
    mnt = mnt
    lead = lead
    ghost = ghost
    Names = {A, B, Default}
    NoName = NoName
    Unmatchable = Unmatchable
    Default = Default
    Diffs <- TwoFiles
    LevelOf <- Levels
    Users = {rep, mnt, lead}
    Lines <- SlashLines
    MaxLines = 2
SPECIFICATION Spec
INVARIANTS
    DirectoryPatternsMatch
CHECK_DEADLOCK FALSE
