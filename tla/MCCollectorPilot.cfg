SPECIFICATION CollectorSpec
CONSTANTS
    Upload <- MCUpload
    Gateway = {g1, g2}
    Journal = {j1, j2}
    Layout <- MCLayout
    Time = {1, 2}
    KeyFrom = 0
    KeyUntil = 3
    None = None
    g1 = g1
    g2 = g2
    j1 = j1
    j2 = j2
INVARIANTS
    OneSendPerIntent ResultsAreTrue ReportIsDurable ReconciledIsTrue
PROPERTIES
    SentAsCollected
SYMMETRY MCSymmetry
