\* Two requests, one worker, no cancel request,
\* and a cap of one position per account.
SPECIFICATION Spec
CHECK_DEADLOCK FALSE
CONSTANTS
    Jobs = {j1, j2}
    Signals = {s1, s2}
    Accounts = {a1}
    Cancels = {}
    Workers = {w1}
    MaxPositions = 1
    NoJob = NoJob
    NoPair = NoPair
INVARIANT PositionCap
