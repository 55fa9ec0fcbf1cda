------------------------------ MODULE Simulator ------------------------------
(***************************************************************************)
(* The backtester service (go_workers/backtester/main.go and simulator.go):*)
(* RunBacktest calls served concurrently by one Simulator, whose counter   *)
(* and cache are guarded by a mutex, and the trades and figures a run      *)
(* computes from its signals.                                              *)
(*                                                                         *)
(* Prices are integers in one small unit and RR figures integers in units  *)
(* of 1/RRUnit; DefaultRR / 2, by which every RR is scaled, is 1 as        *)
(* configured.  An RR over a zero distance is infinite.  The Sharpe ratio  *)
(* and the log lines are left out.                                         *)
(***************************************************************************)
EXTENDS Integers, SequencesExt, FiniteSetsExt

CONSTANTS
    Requests,   \* RunBacktest calls
    Signals,    \* [buy, entry, stop, tp, at]: tp is a sequence of prices, at a timestamp
    Spread,     \* cfg.SpreadPips / 10000
    RRUnit,
    MaxSignals, \* bound on the signals of all requests together
    MaxBoots    \* bound on the restarts of the service

ASSUME PricesAssumption ==
    /\ Signals \subseteq [buy : BOOLEAN, entry : Int, stop : Int, tp : Seq(Int), at : Int]
    /\ Spread \in Int /\ RRUnit \in Nat \ {0}

VARIABLES
    boots,       \* restarts so far
    runCounter,
    cache,       \* run id -> result
    pc,          \* pc[q]: where the call is
    sigs,        \* sigs[q]: its signals
    run,         \* run[q]: the run id it was given
    life         \* life[q]: boots when it was given

vars == <<boots, runCounter, cache, pc, sigs, run, life>>

States == {"idle", "counted", "streaming", "answered", "error"}

Init ==
    /\ boots      = 0
    /\ runCounter = 0
    /\ cache      = [id \in {} |-> {}]
    /\ pc         = [q \in Requests |-> "idle"]
    /\ sigs       = [q \in Requests |-> <<>>]
    /\ run        = [q \in Requests |-> 0]
    /\ life       = [q \in Requests |-> 0]

-----------------------------------------------------------------------------
(* simulateTrade: a trade ends at its first take profit if that lies on    *)
(* the winning side of the entry, else at its stop if that lies on the     *)
(* losing side, else it stays OPEN.                                        *)

Entry(s) == IF s.buy THEN s.entry + Spread ELSE s.entry - Spread

TpHit(s) == s.tp # <<>> /\ IF s.buy THEN s.tp[1] > Entry(s) ELSE s.tp[1] < Entry(s)

SlHit(s) == ~TpHit(s) /\ IF s.buy THEN s.stop < Entry(s) ELSE s.stop > Entry(s)

\* The distance every RR is divided by: signed, and negative for a SELL with
\* its stop above the entry.
Risk(s) == Entry(s) - s.stop

Infinite(s) == TpHit(s) /\ Risk(s) = 0

Quotient(n, d) == IF d > 0 THEN (n * RRUnit) \div d ELSE ((-n) * RRUnit) \div (-d)

\* A stop is a loss of 1 on both sides, the sign of the quotient being forced.
RR(s) ==
    CASE TpHit(s) /\ ~Infinite(s) ->
            Quotient(IF s.buy THEN s.tp[1] - Entry(s) ELSE Entry(s) - s.tp[1], Risk(s))
      [] SlHit(s) -> -RRUnit
      [] OTHER    -> 0

-----------------------------------------------------------------------------
(* The figures of a run whose signals are, in the order simulated, s.      *)

CountOf(s, Test(_)) == Cardinality({i \in DOMAIN s : Test(s[i])})

\* The sums of the first numbers of c.
Sums(c) ==
    LET sum[i \in 0..Len(c)] == IF i = 0 THEN 0 ELSE sum[i - 1] + c[i]
    IN  sum

SumOf(c) == Sums(c)[Len(c)]

\* What each trade adds to cumRR: an OPEN one leaves it as it is.
Gains(s) == [i \in DOMAIN s |-> IF TpHit(s[i]) \/ SlHit(s[i]) THEN RR(s[i]) ELSE 0]

EquityCurve(s) == [i \in DOMAIN s |-> Sums(Gains(s))[i]]

\* calculateProfitFactor divides the sum of the first of these by that of the
\* second.
Profits(s) == [i \in DOMAIN s |-> IF RR(s[i]) > 0 THEN RR(s[i]) ELSE 0]
Losses(s)  == [i \in DOMAIN s |-> IF RR(s[i]) > 0 THEN 0 ELSE -RR(s[i])]

GrossProfit(s) == SumOf(Profits(s))
GrossLoss(s)   == SumOf(Losses(s))

\* Faulty variant: the peak stays at the first point.
MaxDrawdownFromStart(e) ==
    IF Len(e) < 2 THEN 0
    ELSE FoldLeft(LAMBDA max, v : IF e[1] - v > max THEN e[1] - v ELSE max, 0, e)

\* calculateMaxDrawdown: the peak and the largest fall after each point, in one
\* pass over the curve.
Pass(e) ==
    LET at[i \in 0..Len(e)] ==
            IF i = 0 THEN [peak |-> e[1], max |-> 0]
            ELSE LET peak == IF e[i] > at[i - 1].peak THEN e[i] ELSE at[i - 1].peak
                 IN  [peak |-> peak,
                      max  |-> IF peak - e[i] > at[i - 1].max THEN peak - e[i] ELSE at[i - 1].max]
    IN  at

MaxDrawdown(e) == IF Len(e) < 2 THEN 0 ELSE Pass(e)[Len(e)].max

\* Faulty variant: the total is the highest point of the curve.
ResultAtPeak(s) ==
    [order    |-> s,
     wins     |-> CountOf(s, TpHit),
     losses   |-> CountOf(s, SlHit),
     equity   |-> EquityCurve(s),
     total    |-> Max({0} \union ToSet(EquityCurve(s))),
     profit   |-> GrossProfit(s),
     loss     |-> GrossLoss(s),
     drawdown |-> MaxDrawdown(EquityCurve(s))]

Result(s) ==
    [order    |-> s,
     wins     |-> CountOf(s, TpHit),
     losses   |-> CountOf(s, SlHit),
     equity   |-> EquityCurve(s),
     total    |-> Last(EquityCurve(s)),
     profit   |-> GrossProfit(s),
     loss     |-> GrossLoss(s),
     drawdown |-> MaxDrawdown(EquityCurve(s))]

Finite(s) == \A i \in DOMAIN s : ~Infinite(s[i])

\* Faulty variant: no losses give a profit factor of 0.
SerializableAlways(s) == Finite(s)

\* encoding/json refuses infinite numbers: an RR over a zero distance, and the
\* profit factor of a run without losses.
Serializable(s) == Finite(s) /\ GrossLoss(s) # 0

\* sort.Slice by timestamp is not stable: signals of one timestamp come in any
\* order.
Sorted(s) ==
    {o \in SetToSeqs({<<i, s[i]>> : i \in DOMAIN s}) :
        \A i, j \in DOMAIN o : i < j => o[i][2].at <= o[j][2].at}

-----------------------------------------------------------------------------
Goto(q, s) == pc' = [pc EXCEPT ![q] = s]

\* Faulty variant: the counter is read and not written back.
StartUncounted(q, s, valid) ==
    /\ pc[q] = "idle"
    /\ sigs' = [sigs EXCEPT ![q] = s]
    /\ IF s = <<>> \/ ~valid
       THEN Goto(q, "error") /\ UNCHANGED <<run, life>>
       ELSE /\ Goto(q, "counted")
            /\ run'  = [run EXCEPT ![q] = runCounter + 1]
            /\ life' = [life EXCEPT ![q] = boots]
    /\ UNCHANGED <<boots, runCounter, cache>>

\* RunBacktest, up to the first unlock in Run.  A request without signals is
\* refused, and one whose overrides of the configuration are not valid JSON;
\* valid ones are not applied.
Start(q, s, valid) ==
    /\ pc[q] = "idle"
    /\ sigs' = [sigs EXCEPT ![q] = s]
    /\ IF s = <<>> \/ ~valid
       THEN Goto(q, "error") /\ UNCHANGED <<runCounter, run, life>>
       ELSE /\ Goto(q, "counted")
            /\ runCounter' = runCounter + 1
            /\ run'  = [run EXCEPT ![q] = runCounter + 1]
            /\ life' = [life EXCEPT ![q] = boots]
    /\ UNCHANGED <<boots, cache>>

\* The simulation, which touches nothing shared, and the entry in the cache.
Simulate(q) ==
    /\ pc[q] = "counted"
    /\ \E o \in Sorted(sigs[q]) :
          cache' = [id \in DOMAIN cache \union {run[q]} |->
                       IF id = run[q] THEN Result([i \in DOMAIN o |-> o[i][2]]) ELSE cache[id]]
    /\ Goto(q, "streaming")
    /\ UNCHANGED <<boots, runCounter, sigs, run, life>>

\* The log lines and the result are sent, or the result cannot be serialized.
Stream(q) ==
    /\ pc[q] = "streaming"
    /\ Goto(q, IF Serializable(sigs[q]) THEN "answered" ELSE "error")
    /\ UNCHANGED <<boots, runCounter, cache, sigs, run, life>>

\* A Send fails: the client has gone.
StreamError(q) ==
    /\ pc[q] = "streaming"
    /\ Goto(q, "error")
    /\ UNCHANGED <<boots, runCounter, cache, sigs, run, life>>

\* GetResult, from the cache; nothing is ever removed from it.
GetResult(id) == IF id \in DOMAIN cache THEN {cache[id]} ELSE {}

\* Faulty variant: the counter starts again, the cache does not.
RestartKeepsCache ==
    /\ boots < MaxBoots
    /\ boots'      = boots + 1
    /\ runCounter' = 0
    /\ pc'         = [q \in Requests |-> IF pc[q] \in {"counted", "streaming"} THEN "error" ELSE pc[q]]
    /\ UNCHANGED <<cache, sigs, run, life>>

\* The service ends and starts again: the counter and the cache are in memory.
Restart ==
    /\ boots < MaxBoots
    /\ boots'      = boots + 1
    /\ runCounter' = 0
    /\ cache'      = [id \in {} |-> {}]
    /\ pc'         = [q \in Requests |-> IF pc[q] \in {"counted", "streaming"} THEN "error" ELSE pc[q]]
    /\ UNCHANGED <<sigs, run, life>>

Sent == MapThenSumSet(LAMBDA q : Len(sigs[q]), Requests)

Next ==
    \/ Restart
    \/ \E q \in Requests :
          \/ \E s \in BoundedSeq(Signals, MaxSignals - Sent), valid \in BOOLEAN : Start(q, s, valid)
          \/ Simulate(q)
          \/ Stream(q)
          \/ StreamError(q)

Spec == Init /\ [][Next]_vars

-----------------------------------------------------------------------------
(* Properties.                                                             *)

TypeOK ==
    /\ boots \in Nat
    /\ runCounter \in Nat
    /\ DOMAIN cache \subseteq 1..runCounter
    /\ pc   \in [Requests -> States]
    /\ sigs \in [Requests -> Seq(Signals)]
    /\ run  \in [Requests -> Nat]
    /\ life \in [Requests -> Nat]

\* The run ids that calls of this life of the service have simulated.
Simulated(q) == pc[q] # "idle" /\ life[q] = boots /\ run[q] \in DOMAIN cache

\* The same signals, each as often, in any order.
SameBag(s, t) == \E f \in Bijection(DOMAIN s, DOMAIN t) : \A i \in DOMAIN s : s[i] = t[f[i]]

\* Concurrent calls do not mix: as long as the service lives, GetResult for the
\* run id of a call whose stream has begun gives the trades of that call's own
\* signals, also when the stream failed.
OwnResult ==
    \A q \in Requests :
        (life[q] = boots /\ pc[q] \in {"streaming", "answered"}) =>
            \E r \in GetResult(run[q]) : SameBag(r.order, sigs[q])

\* Two calls with the same signals, in whatever order they came and signals of
\* one timestamp were simulated, agree on the wins, the losses and the total;
\* the total is the gross profit less the gross loss, which are summed apart.
TotalsAgree ==
    /\ \A id \in DOMAIN cache :
          Finite(cache[id].order) => cache[id].total = cache[id].profit - cache[id].loss
    /\ \A q, r \in Requests :
          (Simulated(q) /\ Simulated(r) /\ Finite(sigs[q]) /\ SameBag(sigs[q], sigs[r])) =>
              LET a == cache[run[q]]
                  b == cache[run[r]]
              IN  <<a.wins, a.losses, a.total>> = <<b.wins, b.losses, b.total>>

Falls(e) == {e[p[1]] - e[p[2]] : p \in {x \in (DOMAIN e) \X (DOMAIN e) : x[1] <= x[2]}}

\* The one-pass drawdown is the largest fall from a point of the curve to a
\* later one.
DrawdownIsLargestFall ==
    \A id \in DOMAIN cache :
        Finite(cache[id].order) => cache[id].drawdown = Max(Falls(cache[id].equity))

\* A call is answered with a result only if its run has a loss: a stop that was
\* hit, or a winning trade with its stop above the entry, whose RR is negative
\* (every SELL with its stop on the right side).
AnsweredHasLoss ==
    \A q \in Requests : pc[q] = "answered" =>
        \E i \in DOMAIN sigs[q] :
            LET s == sigs[q][i] IN SlHit(s) \/ (TpHit(s) /\ s.stop > Entry(s))

=============================================================================
