SPECIFICATION Spec
CONSTANTS
    Caller = {w1, w2}
    Candidate <- MCCandidate
    Contents <- MCContents
    Approval <- MCApproval
    AiActivity <- MCAi
    MaxOperations = 2
    MaxBlocks = 1
    Genesis = Genesis
    Time = {1, 2}
    CollectorFrom = 0
    CollectorUntil = 1
    ReviewerFrom = 0
    ReviewerUntil = 2
    None = None
    w1 = w1
    w2 = w2
SYMMETRY MCSymmetry
INVARIANTS
    OutputAsApproved ReportsVerify
PROPERTIES
    Implements
