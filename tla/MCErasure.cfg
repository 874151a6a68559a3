SPECIFICATION Spec
CONSTANTS
    Caller = {w1, w2}
    Task <- MCTask
    Time = {1, 2}
    KeyFrom = 0
    KeyUntil = 3
    MaxFile = 2
    MaxObservations = 2
    None = None
    w1 = w1
    w2 = w2
SYMMETRY MCSymmetry
CONSTRAINT Bounds
INVARIANTS
    WhatWasRemoved RemovalObserved ToldIsKept
PROPERTIES
    ClaimedIsTold Implements
