SPECIFICATION LiveSpec
CONSTANTS
    Request <- MCTwo
    Journal = {j1}
    Worker = {w1}
    JournalOf <- MCJournalOfOne
    Provider = {p1}
    Generation <- MCGeneration
    Scope = s1
    Unit = u1
    Account = {alice, bob}
    InitialBalance <- MCBalance
    MaxBalance = 9
    Claimed = Claimed
    NoReceipt = NoReceipt
    None = None
    j1 = j1
    w1 = w1
    w2 = w2
    p1 = p1
    alice = alice
    bob = bob
    s1 = s1
    u1 = u1
PROPERTIES
    RecordedIsLearned
