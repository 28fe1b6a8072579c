\* Every file of up to five lines over nine kinds of line.
\* The end of the file is the end of the behaviour.
CONSTANTS
    A = A
    B = B
    rep = rep
    mnt = mnt
    lead = lead
    ghost = ghost
    Names = {A, B, Default}
    NoName = NoName
    Unmatchable = Unmatchable
    Default = Default
    Diffs <- TwoFiles
    LevelOf <- Levels
    Users = {rep, mnt, lead}
    Lines <- OwnershipLines
    MaxLines = 5
SPECIFICATION Spec
INVARIANTS
    TypeOK
    ParsedAsWritten
    LastMatchDecides
    DefaultsGiveWay
    GroupsSpeakForTheirFiles
    AskedAsWritten
    PassesHaveApprovers
    ChanceNeedsDisagreement
    ApprovingNeverHurts
    StuckOnlyForAReason
    RowsTellTheVerdict
    BlindVerdict
CHECK_DEADLOCK FALSE
