\* Two requests, one cancel request, one worker, under fairness.
SPECIFICATION FairSpec
CHECK_DEADLOCK FALSE
CONSTANTS
    Jobs = {j1, j2}
    Signals = {s1, s2}
    Accounts = {a1}
    Cancels = {c1}
    Workers = {w1}
    MaxPositions = 10
    NoJob = NoJob
    NoPair = NoPair
PROPERTIES
    RequestsAnswered
    PendingServed
    ClaimedResolved
