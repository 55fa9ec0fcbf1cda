\* Balances from 0.01 to 200.00, the largest lot scaled down to 0.1.
SPECIFICATION Spec
CHECK_DEADLOCK FALSE
CONSTANTS
    Signals <- MCSignals
    Lots <- MCLots
    Balances <- MCBalances
    Ledger <- MCLedger
    Percents = {2}
    MinLot = 100
    MaxLot = 1000
    MaxDrawdown = 5
    MaxPositions = 1
    MinRR = 15
    NoJob = NoJob
INVARIANTS
    TypeOK
    LossWithinLimit
    UnclampedNeedsGrowth
