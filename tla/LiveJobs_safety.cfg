\* Three requests for two signals on one account, so that two requests share a
\* pair; one cancel request; two workers.
SPECIFICATION Spec
CHECK_DEADLOCK FALSE
SYMMETRY Symmetry
CONSTANTS
    Jobs = {j1, j2, j3}
    Signals = {s1, s2}
    Accounts = {a1}
    Cancels = {c1}
    Workers = {w1, w2}
    MaxPositions = 10
    NoJob = NoJob
    NoPair = NoPair
INVARIANTS
    TypeOK
    TradedOnce
    OneOwner
    SuccessIsTraded
    CancelAnswersTrue
    IInv
PROPERTIES
    StatusMoves
    StrandedStays
    ImplementsTradeOnce
