SPECIFICATION CustodySpec
CONSTANTS
    Request <- MCRequest
    Journal = {j1}
    Worker = {w1, w2}
    JournalOf <- MCJournalOf
    Provider = {p1}
    Generation <- MCGeneration
    Scope = s1
    Unit = u1
    Account = {alice, bob}
    InitialBalance <- MCBalance
    MaxBalance = 9
    Claimed = Claimed
    NoReceipt = NoReceipt
    None = None
    Absent = Absent
    Evidence <- MCEvidence
    Config <- MCConfig
    Time = {1}
    Collector = {c1}
    Epoch = {1, 2}
    j1 = j1
    w1 = w1
    w2 = w2
    p1 = p1
    c1 = c1
    c2 = c2
    alice = alice
    bob = bob
    s1 = s1
    u1 = u1
    agent = agent
    k1 = k1
    k2 = k2
    ka = ka
PROPERTIES
    MarkedBeforeSend
    PastEpochsClosed
VIEW MCView
ACTION_CONSTRAINT MCFocus
