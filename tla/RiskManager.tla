----------------------------- MODULE RiskManager -----------------------------
(***************************************************************************)
(* How a live job gets its size and passes or fails the risk checks: the   *)
(* lot size computed when a signal is routed (app/routes/v1/live.py), the  *)
(* payload stored with the job, and ValidateJob, which the live worker     *)
(* runs on it later (go_workers/live_worker/risk_mgr.go) with the account  *)
(* and the day's profit and loss as they are by then.                      *)
(*                                                                         *)
(* Lots and money are integers in units of 1/10000, prices in units of     *)
(* 1/100000, so that 100000 * lot * distance is a product of units.  A     *)
(* price or a balance that is NULL counts as 0, in Python and in Go.       *)
(***************************************************************************)
EXTENDS Integers, Sequences

CONSTANTS
    Signals,       \* [action, entry, stop, tp]: the rows a client may store
    Lots,          \* lot sizes a client may ask for
    Balances,      \* values of balance_cache
    Ledger,        \* values of the day's realized profit and loss
    Percents,      \* values of account_risk_settings.max_daily_loss
    MinLot,        \* 0.01, as the route has it and as risk_limits has it
    MaxLot,        \* 100.0
    MaxDrawdown,   \* risk_limits.max_daily_drawdown_percent
    MaxPositions,
    MinRR,         \* risk_limits.min_rr_ratio, in tenths
    NoJob

Cent   == 100      \* 0.01 in units of money
PerLot == 10       \* the loss per lot assumed without prices

ASSUME LimitsAssumption ==
    /\ MinLot \in Nat /\ MaxLot \in Nat /\ 0 < MinLot /\ MinLot <= MaxLot
    /\ MaxDrawdown \in Nat /\ MaxDrawdown > 0
    /\ MaxPositions \in Nat /\ MinRR \in Nat

ASSUME InputsAssumption ==
    /\ \A s \in Signals : s.action \in {"BUY", "SELL"} /\ s.entry \in Int /\ s.stop \in Int
    /\ Lots \subseteq Int /\ Balances \subseteq Int /\ Ledger \subseteq Int /\ Percents \subseteq Int
    /\ NoJob \notin [signal : Signals, lot : Int, auto : BOOLEAN, from : Balances]

VARIABLES
    signal,    \* the row of signals
    balance,   \* balance_cache of the account
    pl,        \* the day's realized profit and loss
    job,       \* the payload of the job, or NoJob; and, for the properties, the
               \* balance it was sized from
    verdict,   \* where its validation is
    limit,     \* the greatest loss the check allows, once it is computed
    today      \* the profit and loss an accepted job was checked against

vars == <<signal, balance, pl, job, verdict, limit, today>>

Verdicts == {"none", "pending", "checking", "accepted", "refused"}

Abs(x) == IF x < 0 THEN -x ELSE x

Init ==
    /\ signal  \in Signals
    /\ balance \in Balances
    /\ pl      \in Ledger
    /\ job     = NoJob
    /\ verdict = "none"
    /\ limit   = 0
    /\ today   = 0

-----------------------------------------------------------------------------
(* Sizing and payload.                                                     *)

\* Faulty variant: no lower bound.
NormalizeLotAbove(n, d) == IF n > MaxLot * d THEN MaxLot ELSE (n + d \div 2) \div d

\* normalize_lot of n / d: clamped, then rounded half up.  The rounding is to
\* 1/100 of a step, decimal_round's default of two places being applied to the
\* number of steps.
NormalizeLot(n, d) ==
    IF n < MinLot * d THEN MinLot
    ELSE IF n > MaxLot * d THEN MaxLot
    ELSE (n + d \div 2) \div d

Distance(s) == Abs(s.entry - s.stop)

\* The lot size when the client names none: 1 % of the balance divided by the
\* distance of the stop, both placeholders of 0.0001 cancelling out.
AutoLot(s, b) ==
    IF b # 0 /\ s.entry # 0 /\ s.stop # 0 /\ Distance(s) > 0
    THEN NormalizeLot(1000 * b, Distance(s))
    ELSE MinLot

-----------------------------------------------------------------------------
(* The checks.                                                             *)

\* Faulty variant: the loss is not scaled by the distance.
PotentialLossFlat(lot, entry, stop) == lot * PerLot

\* The estimate of the loss at the stop.
PotentialLoss(lot, entry, stop) ==
    IF lot > 0 /\ entry > 0 /\ stop > 0
    THEN LET loss == lot * Abs(entry - stop)
         IN  IF loss > 0 /\ loss < Cent THEN Cent ELSE loss
    ELSE lot * PerLot

\* A take profit of the payload is an object {level, price}; the worker keeps
\* the items that are numbers.
Numbers(tp) == SelectSeq(tp, LAMBDA x : x.type = "number")

\* checkMinRR: TRUE when the job may pass.
MinRRPasses(entry, stop, tp) ==
    IF entry = 0 \/ stop = 0 \/ tp = <<>> \/ entry = stop
    THEN TRUE
    ELSE 10 * Abs(tp[1].price - entry) >= MinRR * Abs(entry - stop)

\* Faulty variant: a stop at the entry passes.
SideLoose(s) ==
    /\ s.entry # 0 /\ s.stop # 0
    /\ s.action = "BUY"  => s.stop <= s.entry
    /\ s.action = "SELL" => s.stop >= s.entry

\* The stop is on the losing side.
SidePasses(s) ==
    /\ s.entry # 0 /\ s.stop # 0
    /\ s.action = "BUY"  => s.stop < s.entry
    /\ s.action = "SELL" => s.stop > s.entry

-----------------------------------------------------------------------------
(* The API.                                                                *)

\* update_signal stores what the client sends, without a check.
UpdateSignal(s) ==
    /\ signal' = s
    /\ UNCHANGED <<balance, pl, job, verdict, limit, today>>

\* update_account: balance_cache is a field like any other.
UpdateBalance(b) ==
    /\ balance' = b
    /\ UNCHANGED <<signal, pl, job, verdict, limit, today>>

\* The account's trades are booked to daily_pl by others.
Book(p) ==
    /\ pl' = p
    /\ UNCHANGED <<signal, balance, job, verdict, limit, today>>

\* route_signal_to_live: the size is settled and the signal copied.
Route(lot, auto) ==
    /\ job = NoJob
    /\ job' = [signal |-> signal, lot |-> lot, auto |-> auto, from |-> balance]
    /\ verdict' = "pending"
    /\ UNCHANGED <<signal, balance, pl, limit, today>>

RouteAsked == \E lot \in Lots : Route(lot, FALSE)
RouteAuto  == Route(AutoLot(signal, balance), TRUE)

-----------------------------------------------------------------------------
(* ValidateJob.  An error of a query refuses the job, except that of the   *)
(* day's profit and loss, which then counts as 0.                          *)

Refuse ==
    /\ verdict' = "refused"
    /\ UNCHANGED <<signal, balance, pl, job, limit, today>>

\* Up to the limit: the lot, the balance, the settings.
CheckLimit ==
    /\ verdict = "pending"
    /\ \/ Refuse
       \/ /\ MinLot <= job.lot /\ job.lot <= MaxLot
          /\ balance > 0
          /\ \E p \in Percents \union {0} :
                LET percent == IF p > 0 THEN p ELSE MaxDrawdown
                IN  limit' = (balance * percent) \div 100
          /\ limit' > 0
          /\ verdict' = "checking"
          /\ UNCHANGED <<signal, balance, pl, job, today>>

\* The rest of checkDailyDrawdown, with the profit and loss read as p, and the
\* checks after it, with n open positions.
Accepts(p, n) ==
    /\ p - PotentialLoss(job.lot, job.signal.entry, job.signal.stop) >= -limit
    /\ n < MaxPositions
    /\ MinRRPasses(job.signal.entry, job.signal.stop, Numbers(job.signal.tp))
    /\ SidePasses(job.signal)

CheckRest ==
    /\ verdict = "checking"
    /\ \/ Refuse
       \/ \E p \in {pl, 0}, n \in 0..MaxPositions :
             /\ Accepts(p, n)
             /\ today' = p
             /\ verdict' = "accepted"
             /\ UNCHANGED <<signal, balance, pl, job, limit>>

Next ==
    \/ \E s \in Signals : UpdateSignal(s)
    \/ \E b \in Balances : UpdateBalance(b)
    \/ \E p \in Ledger : Book(p)
    \/ RouteAsked
    \/ RouteAuto
    \/ CheckLimit
    \/ CheckRest

Spec == Init /\ [][Next]_vars

-----------------------------------------------------------------------------
(* Properties.                                                             *)

TypeOK ==
    /\ signal  \in Signals
    /\ balance \in Balances
    /\ pl      \in Ledger
    /\ job = NoJob \/ job \in [signal : Signals, lot : Int, auto : BOOLEAN, from : Balances]
    /\ (job # NoJob /\ job.auto) => (MinLot <= job.lot /\ job.lot <= MaxLot)
    /\ verdict \in Verdicts
    /\ verdict # "none" => job # NoJob
    /\ limit \in Int
    /\ today \in Ledger \union {0}

\* What the worker may trade: a lot within the limits with its stop on the
\* losing side of its entry, as both were when the job was routed, and, if the
\* prices are positive, a loss at the stop that together with the loss booked
\* today (or none, if it could not be read) keeps the daily limit.
LossWithinLimit ==
    verdict = "accepted" =>
        /\ MinLot <= job.lot /\ job.lot <= MaxLot
        /\ IF job.signal.action = "BUY" THEN job.signal.stop < job.signal.entry
                                        ELSE job.signal.entry < job.signal.stop
        /\ (job.signal.entry > 0 /\ job.signal.stop > 0) =>
              job.lot * Distance(job.signal) <= limit + today

\* A size the API computed and did not clamp loses about 1000 times the balance
\* it was computed from.  It is traded only if that balance was positive and by
\* the time of the check the limit, together with the day's result, came to two
\* thirds of that amount: with a limit of 5 % and nothing booked, if the balance
\* has grown 13000fold since.
UnclampedNeedsGrowth ==
    (/\ verdict = "accepted" /\ job.auto
     /\ job.signal.entry > 0 /\ job.signal.stop > 0
     /\ job.lot \notin {MinLot, MaxLot})
        => job.from > 0 /\ 2000 * job.from <= 3 * (limit + today)

=============================================================================
