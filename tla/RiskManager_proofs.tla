-------------------------- MODULE RiskManager_proofs --------------------------
(***************************************************************************)
(* Theorems about RiskManager, for any limits and any inputs.  The loss    *)
(* check is made in two steps between which nothing but the job and the    *)
(* limit may be relied on: the invariant says what is known of the job     *)
(* while the check is under way.                                           *)
(***************************************************************************)
EXTENDS RiskManager, TLAPS

\* What the first half of ValidateJob has established for the second.
CheckedInv ==
    verdict \in {"checking", "accepted"} => MinLot <= job.lot /\ job.lot <= MaxLot

IInv == TypeOK /\ CheckedInv /\ LossWithinLimit

Jobs == [signal : Signals, lot : Int, auto : BOOLEAN, from : Balances]

-----------------------------------------------------------------------------
(* Sizing.                                                                 *)

\* Rounding half up stays between the bounds that the exact quotient keeps.
LEMMA RoundedBetween ==
    ASSUME NEW n \in Int, NEW d \in Int, d > 0, NEW lo \in Int, NEW hi \in Int,
           lo * d <= n, n <= hi * d
    PROVE  LET q == (n + d \div 2) \div d IN q \in Int /\ lo <= q /\ q <= hi
<1> DEFINE a == n + d \div 2
           q == a \div d
<1>1. d \div 2 \in Int /\ 0 <= d \div 2 /\ d \div 2 < d
  BY SMT
<1>2. a \in Int /\ lo * d <= a /\ a < hi * d + d
  BY <1>1, SMT
<1>3. q \in Int /\ d * q <= a /\ a < d * q + d
  <2> HIDE DEF a
  <2> QED BY <1>2, SMT
<1>4. ~(q < lo)
  <2> HIDE DEF a, q
  <2>1. SUFFICES ASSUME q + 1 <= lo PROVE FALSE
    BY <1>3, SMT
  <2>2. (q + 1) * d <= lo * d
    BY <1>3, <2>1, SMT
  <2> QED BY <1>2, <1>3, <2>2, SMT
<1>5. ~(q > hi)
  <2> HIDE DEF a, q
  <2>1. SUFFICES ASSUME hi + 1 <= q PROVE FALSE
    BY <1>3, SMT
  <2>2. (hi + 1) * d <= q * d
    BY <1>3, <2>1, SMT
  <2> QED BY <1>2, <1>3, <2>2, SMT
<1> QED BY <1>3, <1>4, <1>5, SMT

\* normalize_lot returns a lot between its limits.
LEMMA NormalizedLot ==
    ASSUME NEW n \in Int, NEW d \in Int, d > 0
    PROVE  /\ NormalizeLot(n, d) \in Int
           /\ MinLot <= NormalizeLot(n, d) /\ NormalizeLot(n, d) <= MaxLot
<1>1. MinLot \in Int /\ MaxLot \in Int /\ MinLot <= MaxLot
  BY LimitsAssumption
<1>2. CASE n < MinLot * d
  BY <1>1, <1>2 DEF NormalizeLot
<1>3. CASE n > MaxLot * d
  <2>1. ~(n < MinLot * d)
    <3>1. MinLot * d <= MaxLot * d
      BY <1>1, SMT
    <3> QED BY <1>1, <1>3, <3>1, SMT
  <2> QED BY <1>1, <1>3, <2>1 DEF NormalizeLot
<1>4. CASE MinLot * d <= n /\ n <= MaxLot * d
  <2>1. NormalizeLot(n, d) = (n + d \div 2) \div d
    BY <1>1, <1>4, SMT DEF NormalizeLot
  <2> QED BY <1>1, <1>4, <2>1, RoundedBetween
<1> QED BY <1>1, <1>2, <1>3, <1>4, SMT

\* So does the sizing of the route, whatever the signal and the balance.
LEMMA AutoLotBetween ==
    ASSUME NEW s \in Signals, NEW b \in Balances
    PROVE  AutoLot(s, b) \in Int /\ MinLot <= AutoLot(s, b) /\ AutoLot(s, b) <= MaxLot
<1>1. MinLot \in Int /\ MaxLot \in Int /\ MinLot <= MaxLot
  BY LimitsAssumption
<1>2. Distance(s) \in Int /\ 1000 * b \in Int
  BY InputsAssumption DEF Distance, Abs
<1>3. CASE Distance(s) > 0
  <2>1. /\ NormalizeLot(1000 * b, Distance(s)) \in Int
        /\ MinLot <= NormalizeLot(1000 * b, Distance(s))
        /\ NormalizeLot(1000 * b, Distance(s)) <= MaxLot
    BY <1>2, <1>3, NormalizedLot
  <2> QED BY <1>1, <2>1 DEF AutoLot
<1>4. CASE ~(Distance(s) > 0)
  BY <1>1, <1>4 DEF AutoLot
<1> QED BY <1>3, <1>4

\* The estimate is at least the loss at the stop.
LEMMA EstimateCovers ==
    ASSUME NEW lot \in Int, NEW s \in Signals, lot > 0, s.entry > 0, s.stop > 0
    PROVE  lot * Distance(s) <= PotentialLoss(lot, s.entry, s.stop)
<1>1. s.entry \in Int /\ s.stop \in Int
  BY InputsAssumption
<1>2. Distance(s) \in Int /\ Distance(s) = Abs(s.entry - s.stop)
  BY <1>1 DEF Distance, Abs
<1>3. lot * Distance(s) \in Int
  BY <1>2
<1> QED BY <1>2, <1>3 DEF PotentialLoss, Cent

-----------------------------------------------------------------------------
(* The invariant.                                                          *)

\* Before anything is routed nothing has been checked.
LEMMA InitInv == Init => IInv
<1>1. LimitsAssumption /\ InputsAssumption
  BY LimitsAssumption, InputsAssumption
<1> QED BY <1>1 DEF Init, IInv, TypeOK, CheckedInv, LossWithinLimit, Verdicts

\* A job that has been routed is one.
LEMMA JobTyped == IInv /\ job # NoJob => job \in Jobs
BY DEF IInv, TypeOK, Jobs

\* Routing: the job is new, so no check of it has begun.
LEMMA RouteInv ==
    ASSUME IInv, NEW lot \in Int, NEW auto \in BOOLEAN, Route(lot, auto),
           auto => MinLot <= lot /\ lot <= MaxLot
    PROVE  IInv'
<1> USE DEF Route
<1>1. job' \in Jobs /\ job'.lot = lot /\ job'.auto = auto
  BY DEF IInv, TypeOK, Jobs
<1>2. job' # NoJob
  BY <1>1, InputsAssumption DEF Jobs
<1>3. TypeOK'
  BY <1>1, <1>2 DEF IInv, TypeOK, Jobs, Verdicts
<1>4. verdict' = "pending"
  OBVIOUS
<1> QED BY <1>3, <1>4 DEF IInv, CheckedInv, LossWithinLimit

\* A refusal of a job that has been routed.
LEMMA RefuseInv == IInv /\ verdict # "none" /\ Refuse => IInv'
BY DEF Refuse, IInv, TypeOK, CheckedInv, LossWithinLimit, Verdicts

\* The first half of ValidateJob.
LEMMA CheckLimitInv == IInv /\ CheckLimit => IInv'
<1> SUFFICES ASSUME IInv, CheckLimit PROVE IInv'
  OBVIOUS
<1>1. CASE Refuse
  BY <1>1, RefuseInv DEF CheckLimit
<1>2. CASE ~Refuse
  <2>1. /\ MinLot <= job.lot /\ job.lot <= MaxLot
        /\ verdict = "pending" /\ verdict' = "checking"
        /\ UNCHANGED <<signal, balance, pl, job, today>>
    BY <1>2 DEF CheckLimit
  <2>2. limit' \in Int
    <3>1. PICK p \in Percents \union {0} :
              LET percent == IF p > 0 THEN p ELSE MaxDrawdown
              IN  limit' = (balance * percent) \div 100
      BY <1>2 DEF CheckLimit
    <3>2. p \in Int /\ balance \in Int /\ MaxDrawdown \in Int
      BY LimitsAssumption, InputsAssumption DEF IInv, TypeOK
    <3> QED BY <3>1, <3>2, SMT
  <2>3. TypeOK'
    BY <2>1, <2>2 DEF IInv, TypeOK, Verdicts
  <2> QED BY <2>1, <2>3 DEF IInv, CheckedInv, LossWithinLimit
<1> QED BY <1>1, <1>2

\* The second half: what it accepts keeps the limit, because the job is the one
\* whose lot the first half has checked.
LEMMA CheckRestInv == IInv /\ CheckRest => IInv'
<1> SUFFICES ASSUME IInv, CheckRest PROVE IInv'
  OBVIOUS
<1>1. CASE Refuse
  BY <1>1, RefuseInv DEF CheckRest
<1>2. CASE ~Refuse
  <2>1. PICK p \in {pl, 0}, n \in 0..MaxPositions :
            /\ Accepts(p, n)
            /\ today' = p
            /\ verdict' = "accepted"
            /\ UNCHANGED <<signal, balance, pl, job, limit>>
    BY <1>2 DEF CheckRest
  <2>2. verdict = "checking"
    BY DEF CheckRest
  <2>3. /\ job \in Jobs
        /\ MinLot <= job.lot /\ job.lot <= MaxLot
    BY <2>2, JobTyped DEF IInv, TypeOK, CheckedInv
  <2>4. TypeOK'
    BY <2>1, <2>2 DEF IInv, TypeOK, Verdicts
  <2>5. CheckedInv'
    BY <2>1, <2>3 DEF CheckedInv
  <2>6. LossWithinLimit'
    <3>1. /\ job.signal \in Signals /\ job.lot \in Int /\ job.lot > 0
          /\ job.signal.action \in {"BUY", "SELL"}
          /\ job.signal.entry \in Int /\ job.signal.stop \in Int
      BY <2>3, LimitsAssumption, InputsAssumption DEF Jobs
    <3>2. IF job.signal.action = "BUY" THEN job.signal.stop < job.signal.entry
                                       ELSE job.signal.entry < job.signal.stop
      BY <2>1, <3>1 DEF Accepts, SidePasses
    <3>3. ASSUME job.signal.entry > 0, job.signal.stop > 0
          PROVE  job.lot * Distance(job.signal) <= limit + p
      <4> DEFINE loss     == PotentialLoss(job.lot, job.signal.entry, job.signal.stop)
                 distance == job.lot * Distance(job.signal)
      <4>1. distance <= loss
        BY <3>1, <3>3, EstimateCovers
      <4>2. p - loss >= -limit
        BY <2>1 DEF Accepts
      <4>3. p \in Int /\ limit \in Int
        BY InputsAssumption DEF IInv, TypeOK
      <4>4. distance \in Int /\ loss \in Int
        BY <3>1 DEF Distance, PotentialLoss, Abs, Cent, PerLot
      <4> HIDE DEF loss, distance
      <4>5. distance <= limit + p
        BY <4>1, <4>2, <4>3, <4>4, SMT
      <4> QED BY <4>5 DEF distance
    <3> QED BY <2>1, <2>3, <3>2, <3>3 DEF LossWithinLimit, Distance
  <2> QED BY <2>4, <2>5, <2>6 DEF IInv
<1> QED BY <1>1, <1>2

\* Whatever else changes, nobody touches the job.
LEMMA StepInv == IInv /\ [Next]_vars => IInv'
<1> SUFFICES ASSUME IInv, [Next]_vars PROVE IInv'
  OBVIOUS
<1>1. ASSUME NEW s \in Signals, UpdateSignal(s) PROVE IInv'
  BY <1>1 DEF UpdateSignal, IInv, TypeOK, CheckedInv, LossWithinLimit
<1>2. ASSUME NEW b \in Balances, UpdateBalance(b) PROVE IInv'
  BY <1>2 DEF UpdateBalance, IInv, TypeOK, CheckedInv, LossWithinLimit
<1>3. ASSUME NEW p \in Ledger, Book(p) PROVE IInv'
  <2>1. today \in Int
    BY InputsAssumption DEF IInv, TypeOK
  <2> QED BY <1>3 DEF Book, IInv, TypeOK, CheckedInv, LossWithinLimit
<1>4. CASE RouteAsked
  <2>1. PICK lot \in Lots : Route(lot, FALSE)
    BY <1>4 DEF RouteAsked
  <2>2. lot \in Int
    BY InputsAssumption
  <2> QED BY <2>1, <2>2, RouteInv
<1>5. CASE RouteAuto
  <2>1. signal \in Signals /\ balance \in Balances
    BY DEF IInv, TypeOK
  <2> QED BY <1>5, <2>1, AutoLotBetween, RouteInv DEF RouteAuto
<1>6. CASE UNCHANGED vars
  BY <1>6 DEF vars, IInv, TypeOK, CheckedInv, LossWithinLimit
<1> QED BY <1>1, <1>2, <1>3, <1>4, <1>5, <1>6, CheckLimitInv, CheckRestInv DEF Next

\* The invariant of the check.
THEOREM Invariance == Spec => []IInv
BY InitInv, StepInv, PTL DEF Spec

\* Type correctness, and with it: a job that was sized by the API has a lot
\* between the limits of the route.
THEOREM TypeCorrect == Spec => []TypeOK
<1>1. IInv => TypeOK
  BY DEF IInv
<1> QED BY <1>1, Invariance, PTL

\* What the worker may trade, for any signals, limits, balances and ledgers:
\* ValidateJob accepts only lots within the limits, stops on the losing side,
\* and losses that keep the day's limit.
THEOREM AcceptedKeepsLimit == Spec => []LossWithinLimit
<1>1. IInv => LossWithinLimit
  BY DEF IInv
<1> QED BY <1>1, Invariance, PTL

-----------------------------------------------------------------------------
(* The computed size.                                                      *)

\* A size of signal s that is clamped, or loses nearly 1000 times the balance b.
Covering(lot, s, b) ==
    \/ lot \in {MinLot, MaxLot}
    \/ b > 0 /\ 2000 * b <= 3 * (lot * Distance(s))

\* A computed size covers the balance it was computed from, whatever has become
\* of the signal and the balance since.
SizeInv == (job # NoJob /\ job.auto) => Covering(job.lot, job.signal, job.from)

\* Rounding loses at most half a step, and a lot is at least a step.
LEMMA RoundedCovers ==
    ASSUME NEW n \in Int, NEW d \in Int, d > 0, d <= n
    PROVE  2 * n <= 3 * (((n + d \div 2) \div d) * d)
<1> DEFINE a == n + d \div 2
           q == a \div d
<1>1. d \div 2 \in Int /\ 0 <= d \div 2 /\ d <= 2 * (d \div 2) + 1
  BY SMT
<1>2. a \in Int /\ d <= a
  BY <1>1, SMT
<1>3. q \in Int /\ d * q <= a /\ a < d * q + d
  <2> HIDE DEF a
  <2> QED BY <1>2, SMT
<1>4. q >= 1
  <2> HIDE DEF a, q
  <2>1. SUFFICES ASSUME q <= 0 PROVE FALSE
    BY <1>3, SMT
  <2>2. d * q <= 0
    BY <1>3, <2>1, SMT
  <2> QED BY <1>2, <1>3, <2>2, SMT
<1> DEFINE r == q * d
<1>5. r \in Int /\ r = d * q /\ d <= r
  <2> HIDE DEF a, q
  <2> QED BY <1>3, <1>4, SMT
<1> HIDE DEF q, r
<1>6. 2 * n <= 3 * r
  BY <1>1, <1>3, <1>5, SMT
<1> QED BY <1>6 DEF q, r

\* The size of the route is clamped or covers its balance.
LEMMA AutoLotCovers ==
    ASSUME NEW s \in Signals, NEW b \in Balances
    PROVE  Covering(AutoLot(s, b), s, b)
<1> DEFINE d == Distance(s)
           n == 1000 * b
<1>1. MinLot \in Int /\ MaxLot \in Int /\ 0 < MinLot
  BY LimitsAssumption
<1>2. d \in Int /\ b \in Int
  BY InputsAssumption DEF Distance, Abs
<1> SUFFICES ASSUME AutoLot(s, b) \notin {MinLot, MaxLot}
             PROVE  b > 0 /\ 2000 * b <= 3 * (AutoLot(s, b) * d)
  BY DEF Covering
<1>3. d > 0 /\ AutoLot(s, b) = NormalizeLot(n, d)
  BY DEF AutoLot
<1>4. ~(n < MinLot * d) /\ AutoLot(s, b) = (n + d \div 2) \div d
  BY <1>3 DEF NormalizeLot
<1> HIDE DEF d
<1>5. d <= MinLot * d
  BY <1>1, <1>2, <1>3, SMT
<1>6. n \in Int /\ d <= n /\ b > 0
  BY <1>1, <1>2, <1>3, <1>4, <1>5, SMT
<1>7. 2 * n <= 3 * (AutoLot(s, b) * d)
  <2> HIDE DEF n
  <2> QED BY <1>2, <1>3, <1>4, <1>6, RoundedCovers
<1> QED BY <1>2, <1>6, <1>7, SMT

\* Routing sizes a job.
LEMMA RouteSize ==
    ASSUME SizeInv, NEW lot \in Int, NEW auto \in BOOLEAN, Route(lot, auto),
           auto => Covering(lot, signal, balance)
    PROVE  SizeInv'
<1>1. /\ job'.lot = lot /\ job'.auto = auto /\ job'.signal = signal
      /\ job'.from = balance
  BY DEF Route
<1> QED BY <1>1 DEF SizeInv, Covering, Distance

\* A step keeps it: a job is sized once.
LEMMA SizeStep == IInv /\ SizeInv /\ [Next]_vars => SizeInv'
<1> SUFFICES ASSUME IInv, SizeInv, [Next]_vars PROVE SizeInv'
  OBVIOUS
<1>2. CASE RouteAsked
  <2>1. PICK lot \in Lots : Route(lot, FALSE)
    BY <1>2 DEF RouteAsked
  <2>2. lot \in Int
    BY InputsAssumption
  <2> QED BY <2>1, <2>2, RouteSize
<1>3. CASE RouteAuto
  <2>1. signal \in Signals /\ balance \in Balances
    BY DEF IInv, TypeOK
  <2> DEFINE lot == AutoLot(signal, balance)
  <2>2. lot \in Int /\ Covering(lot, signal, balance)
    BY <2>1, AutoLotBetween, AutoLotCovers
  <2>3. Route(lot, TRUE)
    BY <1>3 DEF RouteAuto
  <2> HIDE DEF lot
  <2> QED BY <2>2, <2>3, RouteSize
<1>4. CASE \/ \E s \in Signals : UpdateSignal(s)
           \/ \E b \in Balances : UpdateBalance(b)
           \/ \E p \in Ledger : Book(p)
           \/ CheckLimit
           \/ CheckRest
           \/ UNCHANGED vars
  <2>1. job' = job
    BY <1>4 DEF UpdateSignal, UpdateBalance, Book, CheckLimit, CheckRest, Refuse, vars
  <2> QED BY <2>1 DEF SizeInv, Covering, Distance
<1> QED BY <1>2, <1>3, <1>4 DEF Next

\* A size that the route computes and does not clamp is traded only against a
\* limit that dwarfs the balance it was computed from, for any limits, settings,
\* signals and balances, and whatever happens between the route and the check.
THEOREM ComputedNeedsGrowth == Spec => []UnclampedNeedsGrowth
<1>1. Init => SizeInv
  BY DEF Init, SizeInv
<1>2. IInv /\ SizeInv => UnclampedNeedsGrowth
  <2> SUFFICES ASSUME IInv, SizeInv, verdict = "accepted", job.auto,
                      job.signal.entry > 0, job.signal.stop > 0, job.lot \notin {MinLot, MaxLot}
               PROVE  job.from > 0 /\ 2000 * job.from <= 3 * (limit + today)
    BY DEF UnclampedNeedsGrowth
  <2> DEFINE loss == job.lot * Distance(job.signal)
             b    == job.from
  <2>1. job # NoJob /\ job \in Jobs
    BY JobTyped DEF IInv, TypeOK
  <2>2. b > 0 /\ 2000 * b <= 3 * loss
    BY <2>1 DEF SizeInv, Covering
  <2>3. loss <= limit + today
    BY DEF IInv, LossWithinLimit
  <2>4. loss \in Int
    <3>1. job.lot \in Int /\ job.signal.entry \in Int /\ job.signal.stop \in Int
      BY <2>1, InputsAssumption DEF Jobs
    <3> QED BY <3>1 DEF Distance, Abs
  <2>5. limit \in Int /\ today \in Int /\ b \in Int
    <3>1. limit \in Int /\ today \in Int
      BY InputsAssumption DEF IInv, TypeOK
    <3>2. b \in Balances
      BY <2>1 DEF Jobs
    <3> QED BY <3>1, <3>2, InputsAssumption
  <2> HIDE DEF loss, b
  <2>6. b > 0 /\ 2000 * b <= 3 * (limit + today)
    BY <2>2, <2>3, <2>4, <2>5, SMT
  <2> QED BY <2>6 DEF b
<1> QED BY <1>1, <1>2, Invariance, SizeStep, PTL DEF Spec

=============================================================================
