SPECIFICATION LiveSpec
CONSTANTS
    Request <- MCTwo
    Gate = {g1}
    None = None
    g1 = g1
    g2 = g2
    i1 = i1
PROPERTIES
    EffectIsConfirmed
