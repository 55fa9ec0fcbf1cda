\* Two calls of up to four signals together, and one restart.
SPECIFICATION Spec
CHECK_DEADLOCK FALSE
CONSTANTS
    Requests = {q1, q2}
    Signals <- MCSignals
    Spread = 1
    RRUnit = 1
    MaxSignals = 4
    MaxBoots = 1
SYMMETRY Symmetry
INVARIANTS
    TypeOK
    OwnResult
    TotalsAgree
    DrawdownIsLargestFall
    AnsweredHasLoss
