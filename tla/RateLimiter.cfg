\* Three requests of two clients for a limit of one, two connections, and time
\* for rows to leave the window; under fairness.
SPECIFICATION FairSpec
CHECK_DEADLOCK FALSE
CONSTANTS
    Requests = {q1, q2, q3}
    Clients = {a, b}
    Limit = 1
    Window = 2
    PoolSize = 2
    MaxTime = 2
INVARIANTS
    TypeOK
    WindowBound
    RefusedAtLimit
    IInv
PROPERTIES
    RequestsAnswered
