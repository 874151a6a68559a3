SPECIFICATION Spec
CONSTANTS
    Cases <- MCCases
    FirstAt = 3
    LastAt = 6
    PaymentKeys <- MCPaymentKeys
    Identity <- MCIdentity
    PaymentAge = 2
    Absent = Absent
    WalletKeys <- MCWalletKeys
    WalletAge = 2
    ScopeKeys <- MCScopeKeys
    EventSigners <- MCEventSigners
    PinnedScope = "scope"
    RegisterId = "reg"
    Simulate = TRUE
    Keys <- MCKeys
    Authorities <- MCAuthorities
    OperationAt = 3
    Unknown = "unknown"
    Document <- Doc
CONSTRAINT FewStatements
CHECK_DEADLOCK FALSE
PROPERTIES
    VerdictsSettle ScopeSettles NotBackdated ViolationStands EvidenceBuilds
