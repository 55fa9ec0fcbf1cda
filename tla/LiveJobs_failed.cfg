\* One request, one worker.
\* and no cancel request.
SPECIFICATION Spec
CHECK_DEADLOCK FALSE
CONSTANTS
    Jobs = {j1}
    Signals = {s1, s2}
    Accounts = {a1}
    Cancels = {}
    Workers = {w1}
    MaxPositions = 10
    NoJob = NoJob
    NoPair = NoPair
INVARIANT FailedIsUntraded
