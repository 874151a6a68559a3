SPECIFICATION Spec
CONSTANTS
    Request <- MCRequest
    Gate = {g1, g2}
    None = None
    g1 = g1
    g2 = g2
    i1 = i1
INVARIANTS
    AtMostOneWrite ConfirmedIsReal ExportsValidate
SYMMETRY MCSymmetry
