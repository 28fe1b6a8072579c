\* Texts, patterns and configurations judged in a quiet merge request, and
\* approvals and the report's discussion in one where people talk.
\* When every run is over and everything is said, nothing is left to do.
CONSTANTS
    NoHeader = NoHeader
    NoScope = NoScope
    BadPattern = BadPattern
    author = author
    rev = rev
    Users = {author, rev}
    Nobody = Nobody
    PageSize = 2
    Cases <- AllCases
SPECIFICATION Spec
INVARIANTS
    TypeOK
    TallyIsALastWord
    VerdictNeedsApprovals
    ReportIsFound
    PassesAreEarned
    ValidReferenceSuffices
    SquashAsConfigured
    ReportTellsAll
CHECK_DEADLOCK FALSE
