SPECIFICATION Spec
CONSTANTS
    Session = {s1, s2}
    DocumentOf <- MCDocumentOf
    Block = {b1, b2}
    Text = {x, y}
    Activity = {"import", "generation"}
    AiActivity = {"generation"}
    Time = {1, 2}
    MaxOperations = 2
    MaxBlocks = 2
    Genesis = Genesis
    None = None
    s1 = s1
    s2 = s2
    b1 = b1
    b2 = b2
    x = x
    y = y
SYMMETRY MCSymmetry
INVARIANTS
    NoSplice
