SPECIFICATION Spec
CONSTANTS
    Request <- MCRequest
    Journal = {j1}
    Worker = {w1, w2}
    JournalOf <- MCJournalOf
    Provider = {p1}
    Generation <- MCGeneration
    Scope = s1
    Unit = u1
    Account = {alice, bob}
    InitialBalance <- MCBalance
    MaxBalance = 3
    Claimed = Claimed
    NoReceipt = NoReceipt
    None = None
    j1 = j1
    w1 = w1
    w2 = w2
    p1 = p1
    alice = alice
    bob = bob
    s1 = s1
    u1 = u1
PROPERTIES GenerationFence Implements
INVARIANTS IdentityNamesOne
    TypeOK AtMostOnePost JournalAgrees BooksBalance ReportedIsDurable
