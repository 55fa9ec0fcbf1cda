# A TLA+ verification development for Sphere FX Manager API

Sphere FX Manager receives trading signals (from Telegram or a webhook), lets
users backtest them, and trades them on MetaTrader 5 accounts. This directory
holds TLA+ models of the program, the TLC runs that check them on small
instances, and theorems about them that TLAPS proves for every instance.
Paths such as `app/...` are relative to `src/`.

Check everything with

    tlc -workers 2 -config <run>.cfg <MC module>.tla      # one run of PROJECT.json
    for m in *_proofs.tla; do tlapm $m; done              # the proofs, of eight modules

## 1. Inventory

| Component | State | Operations | Talks to |
|---|---|---|---|
| Live job queue, API side (`app/routes/v1/live.py`, `app/services/queue_service.py`) | rows of `live_jobs` (MS SQL), one transaction per request | enqueue, cancel, status | workers, through the table |
| Live worker (`go_workers/live_worker`) | position in `ProcessNextJob`, the claimed job | claim, validate, execute, final update | `live_jobs`, MT5 bridge (HTTP), risk manager |
| Risk manager (`risk_mgr.go`, `risk_limits` of its configuration) | none of its own; reads balance, settings and the day's profit and loss | drawdown, lot, risk-reward and position checks | database |
| MT5 bridge (`containers/mt5_bridge`) | terminal connection, orders in the making | execute order, health | MT5 terminal |
| Backtest runs (`app/routes/v1/backtest.py`, `app/services/backtest_grpc.py`) | rows of `backtest_runs`, a background task in the API process | start, execute, read, delete | backtester (gRPC), sockets |
| WebSocket manager (`app/services/websocket_manager.py`) | `active_connections`, `job_subscriptions` | connect, disconnect, subscribe, send, broadcast | sockets |
| Backtest log socket (`app/websocket/backtest_logs.py`) | one handler per socket | open, listen, cancel, close | run rows, manager |
| Live-updates socket and service broker (`app/websocket/live_updates.py`, `app/services/broker_service.py`) | a queue table in MS SQL | receive, forward | manager |
| Licenses (`app/routes/v1/license.py`, `app/dependencies.py`) | rows of `licenses` | activate, status, first-run creation | configuration |
| Authentication (`app/services/auth.py`, `app/middleware/auth.py`, `app/dependencies.py`) | tokens | login, verify | users |
| MT5 accounts (`app/routes/v1/accounts.py`) | rows of `mt5_accounts`, encrypted | create, update, delete | encryption service |
| Channels, symbols, users (`app/routes/v1`) | one table each | create, update, delete | - |
| Signals and webhook (`app/routes/v1/signals.py`, `webhook.py`, `app/utils/validators.py`) | rows of `signals` | create, update, delete, receive | extractor (gRPC), manager |
| Telegram listener (`containers/telethon_listener`) | session | forward a message | webhook (HTTP) |
| Extractor (`go_workers/extractor`) | none | clean, parse, validate a signal text | - |
| Backtest simulator (`go_workers/backtester`) | run counter and result cache, under a mutex | run, get result | - |
| Rate limiter (`app/middleware/rate_limit.py`) | rows of `rate_limit_log` | count, record | every request |
| Configuration, metrics, health, errors, migrations | set-up only | - | - |

What is hard in each, and the property that makes it right:

- **Live pipeline.** Three kinds of process (requests, workers, bridge) share a
  table under row locks; a cancel races a claim, two requests race for one
  (signal, account), an HTTP timeout races an order that is still being
  executed, commits are applied whose answer is lost, workers die with a claimed
  job. Correct means: a signal is traded at most once on an account, a job has
  at most one worker, what the client is told about a cancel stays true, and a
  job that is enqueued is served.
- **Backtests.** A background task and any number of WebSocket handlers each
  load the row of a run, wait, and write it back. Correct means: a settled run
  keeps its status, a deleted one does not come back, a run ends, and a run that
  was cancelled stays cancelled.
- **WebSocket manager.** Two dictionaries changed from every handler. Correct
  means: a live socket is registered under its user, a dead one is not.
- **Rate limiter.** Requests count, wait, and record. Correct means: a client
  gets no more than its limit in a window.
- **Licenses.** Two check-then-insert paths to one table. Correct means: one
  active license per user, one row per key, and the check that reads it works.
- **Accounts, channels, symbols, users, signals.** Check-then-insert, with a
  unique constraint in some tables only; deletions against foreign keys; a signal
  whose fields come from a request and from the extractor. Correct means: no
  dangling reference, no duplicate but by a race, no signal stored that its own
  validation forbids, and what a response masks stays intact in the table.
- **Extractor.** Two patterns read one text. Correct means: the levels of a
  message are those it quotes.
- **Simulator.** Concurrent calls on one counter and cache, and figures computed
  in one pass. Correct means: a call keeps its own result, and the figures agree
  with each other and with a reference definition.
- **Risk manager.** Arithmetic on values that are read one after the other.
  Correct means: an accepted job keeps the limit the code computed.

The hazards, each at its line and with the properties that cover it, are listed
in `PROJECT.json`.

## 2. Modules

| Module | Models | Uses |
|---|---|---|
| `TradeOnce` | abstract specification: what the pipeline promises for one (signal, account) | - |
| `LiveJobs` | live pipeline: requests, rows and locks, workers, bridge | `TradeOnce` (refinement) |
| `LiveJobs_proofs`, `MCLiveJobs` | theorems; model-checking instances | `LiveJobs` |
| `RiskManager`, `RiskManager_proofs`, `MCRiskManager` | lot sizing of `live.py` and `ValidateJob` of the worker | - |
| `ConnectionManager` | the two dictionaries of the WebSocket manager and their methods | - |
| `Backtests`, `Backtests_proofs`, `MCBacktests` | backtest runs, background task, log socket | `ConnectionManager` (composed) |
| `Simulator`, `Simulator_proofs`, `MCSimulator` | the backtester service: calls, counter, cache, trades, figures | - |
| `RateLimiter`, `RateLimiter_proofs`, `MCRateLimiter` | rate limiter on a bounded pool | - |
| `Licenses`, `Licenses_proofs`, `MCLicenses` | licenses: activation, deactivation, guard | - |
| `Requests` | what all requests of the API share: read, commit or roll back | - |
| `Extractor`, `Extractor_proofs` | parsing and validation of a message, as pure operators; what they compute for any message | - |
| `Signals` | the signal endpoints, the webhook, jobs in short | `Requests`, `Extractor` |
| `Directory` | accounts, channels, symbols, users | `Requests` |
| `Api`, `Api_proofs`, `MCApi` | the two above, concurrently, with the foreign keys between them | `Signals`, `Directory` (composed) |

The modules were written in the order of importance: what trades, what decides
what may be traded, long-running work, access, and then the tables. Each has
its theorems in a module of its own beside it. Every safety property that holds in a
run is also proved; only liveness is left to TLC alone.

### 2.1 LiveJobs

One action per database statement or network event, because these are the
points where the code awaits and another process may step in.

- *Transactions and locks.* `status[j]` is the committed status of row `j` of
  `live_jobs`. A row inserted or updated by an open transaction is locked
  (`RowLocked`): writers wait, the claim query skips it (`READPAST`), plain
  SELECTs see the committed row. `get_async_db` commits after the handler and
  before the response, so every request ends in a commit, a rollback, or a
  commit whose answer is lost (`RouteCommit`, `RouteRollback`,
  `RouteCommitLost`, and the same for cancels).
- *Requests.* `RouteCheck` is the duplicate query, `RouteInsert` the flush, which
  waits for an uncommitted row with the same (signal, account) and fails on a
  committed one. `CancelUpdate` is the guarded UPDATE of `cancel_job`.
- *Workers.* `worker[w]` is the program counter in `ProcessNextJob`. Claiming is
  `ClaimSelect` and `ClaimCommit`; `failing` is the deferred function that writes
  FAILED; `WorkerCrash` may happen at every step and forgets the job.
- *Bridge.* An order that has been sent stays at the bridge whatever the worker
  does. `BridgeExecute` distinguishes a trade that is reported, a trade that is
  not reported as done, and a refusal.

Not in the module: reading endpoints, `claim_job` and `complete_job` of
`queue_service.py` and three functions of the worker (no caller), closing
positions. A validation passes or fails; what decides it is in `RiskManager`.

### 2.2 ConnectionManager and Backtests

The manager's methods contain no await between reading and writing, so each is
an operator that the action of its caller conjoins. `Backtests` adds the run rows
(`status`, `owner`), the task (`task[r]` is the position in `execute_backtest`)
and the socket handlers (`sock[h]`). A handler or the task that has loaded a row
commits `UPDATE ... WHERE id = ?` later, whatever the row holds by then; the
UPDATE of a deleted row raises. `SocketRefuse` models the early returns above the
`try`, `SocketCleanup` the `finally`. A cancel is three steps, between which the
client may leave and the process die: the read (`SocketCancelRead`), the commit, which
may be applied and reported as an error (`SocketCommit`, `SocketCommitError`), and
"Backtest canceled" (`SocketAnswer`), which is said whatever the read found. `ApiCrash`
ends tasks and sockets and empties the manager; nothing restarts a run.

### 2.3 RateLimiter

A request computes its cutoff, waits for a connection of the pool, counts, inserts
and commits, and is then forwarded. `Connected` are the requests that hold a
connection between two steps; `PoolSize` is `DB_POOL_SIZE + DB_MAX_OVERFLOW` of the
engine in `app/services/database.py`, which only this middleware uses. The table
`rate_limit_log` is created by no migration; it is modelled from its use.

### 2.4 Licenses

A request names the row it inserts. Each path is a query step and a write step.
`salt[r]` is the number of restarts when row `r` was stored: `hash()` of a string is
salted per process, so the unique constraint compares pairs of key and salt.
Signature checks are an assumption: `Keys` are keys that verify.

### 2.5 RiskManager

One job from its routing to its verdict. `Route` copies the signal and settles the
size: a lot the client names, or `AutoLot`, the formula of `live.py` with
`normalize_lot`. The worker checks later, so the check is two actions:
`CheckLimit` reads balance and settings and computes `limit`, `CheckRest` reads the
day's profit and loss and makes the other checks. The signal, the balance and the
ledger may change before, between and after. Lots and money are integers in units
of 1/10000, prices in 1/100000, so that the products of the code are products of
units. A failing query refuses the job, except that of the profit and loss, which
then counts as 0: hence `today`, the figure an accepted job was checked against.
`job.from`, the balance a job was sized from, is kept for the properties only.

### 2.6 Simulator

A call is three actions, split where `Run` unlocks: `Start` takes a run id,
`Simulate` computes and stores under it, `Stream` sends or fails. `Restart` loses
counter and cache. The trades (`TpHit`, `SlHit`, `RR`) and figures (`Result`) are
operators over integer prices, one function each for the running sum (`Sums`) and
for the pass of `calculateMaxDrawdown` (`Pass`); an infinite RR and the profit factor of a run
without losses are what `json.Marshal` refuses (`Serializable`). In the figures an
infinite RR counts as 0, so the properties speak of runs without one
(`Finite`). `sort.Slice` is not
stable: `Sorted` is the set of all orders it may leave.

### 2.7 Extractor, Requests, Signals, Directory, Api

`Extractor` reads a message as a sequence of tokens, words and numbers with their
written decimal places. `IndexedLevels` is the pattern `with_index`, with what its
digit group may capture of a number (`Indexed`); `ListLevels` is the list pattern,
which runs over the same text and stops at the first decimal point. Both are loops over
the tokens, written as functions of how many have been read (`IndexedTo`, `ListedTo`)
whose steps are `IndexedAt` and `Listed`. `Quoted` is the
reference: the levels a reader sees. `PlacesKept` and `Relisted` name, also as a reference,
the two things that make the code read others.

`Requests` is the shape of every endpoint: `Begin` is everything up to the point
where the handler has something to commit, in one session that awaits;
the commit is an action of its own, and `Rollback` may come instead. `Signals` and
`Directory` add the tables, one pair of operators per endpoint (say, `UpdateSignal` and
`StoreUpdate`). A column is written only if the attribute differs from what the
session has read (`Written`). `SignalCreate` and `SignalUpdate` are the schemas of the request
bodies, and `IsSignal`, `IsAccount`, `IsChannel` and `LiveJob` what the columns require
of the rows. The schema wants a price of every take profit but none of its type: a
level may have a null price, which the check skips (`Ending`), or one that is no number
(`NoNumber`), at which it raises if it comes to it before a wrong one (`ProfitRaises`);
without an action or an entry nothing is checked and the levels are stored as sent.
Constraints of the migrations are guards of the commits: unique columns, NOT NULL, foreign keys. `MaskLogin` is the second commit
of `update_account`, which `get_async_db` makes when the handler has returned.
`Api` composes the two and owns what crosses them: a deleted channel is
detached from its signals (ON DELETE SET NULL), a signal or an account with jobs
cannot be deleted. `delete_signal` also reads `backtest_trades`, which no migration
creates, so `StoreDelete` allows more deletions than the code would get through.

### 2.8 What the models assume

- Handlers are modelled from the point where authentication has returned a
  user. `JWTBearer` in `app/dependencies.py` uses `AsyncSessionLocal`, which the
  module does not import, and python-jose refuses a token whose `sub` is not a
  string; taken literally no protected route answers, and nothing could be said.
- `DefaultRR / 2`, by which every RR of a simulation is scaled, is 1, as in
  `config.yaml`.
- Isolation is MS SQL Server's READ COMMITTED. Reads see committed rows; that
  they may also wait for a lock only removes interleavings.
- Tables that no migration creates (`account_risk_settings`, `daily_pl`,
  `rate_limit_log`) are modelled from their use; in `RiskManager` the day's figures
  change by other means; `live_positions` and `daily_pl`
  are read and never written.

## 3. Runs

`CHECK_DEADLOCK FALSE` is used throughout: requests are finitely many, and when all
are answered and the workers idle, the system rests.

| Run | Shows | Bounds |
|---|---|---|
| `live_safety` | no double trade, no shared job, SUCCESS means traded, cancel answers stay true; what a step may do to a status, that stranded jobs stay stranded; refinement of `TradeOnce`; `IInv` of the proof | 3 enqueue requests for 2 signals and 1 account, so that two share a pair; 1 cancel; 2 workers; symmetry in requests, cancels, workers and signals |
| `live_fair` | requests are answered, PENDING jobs served, CLAIMED ones resolved or stranded | 2 requests, 1 cancel, 1 worker |
| `live_failed`, `live_cap` | violations, see 5 | 1 or 2 requests, 1 worker |
| `backtests` | sockets are registered under their user, only refused ones are left behind, no subscription outlives its listeners; settled and deleted runs stay so, a run ends unless its task ended without a word | 1 run, 3 sockets, 2 users |
| `backtest_cancel` | violation, see 5 | 1 run, 1 socket |
| `rate` | the limit is exceeded by less than the pool; refusals are justified; a request that came in is forwarded or refused; `IInv` of the proof | 3 requests, 2 clients, limit 1, pool 2, window 2, time 0 to 2 |
| `licenses` | rows belong to the right user; the guard lets licensed users pass; two active rows are for ever | 4 requests, 2 users, 2 keys, 1 restart, time 0 to 2 |
| `license_active` | violation, see 5 | 2 requests |
| `simulator` | each call keeps its own result; figures agree with each other and with a reference; only a run with a loss is answered | 2 calls, 4 signals together out of 6 kinds (win, loss, winning SELL, stop on the wrong side, stop at the entry, open) with two timestamps, 1 restart |
| `risk` | what an accepted job can lose; what a balance must become before the computed size is traded | 14 signals, negative and missing prices among them, 5 lots, 5 balances from -1.00 to 200.00, 3 days, lot limits 0.01 and 0.10, 1 job |
| `api` | references between tables; consistency of created signals; nothing extracted is stored; duplicate symbols only by a race or a rename; masked logins; extracted levels are the quoted ones, with two exceptions | 3 requests of 2 users, 1 account, 2 names, 6 messages, 7 bodies (levels without a price before a right and a wrong one, and with a price that is no number, checked and unchecked, among them), 3 patches; symmetry in requests |

*Why the bounds are enough to be interesting.* A race needs two actors on one
object, and a third that meets what they left: two workers on one job while a
second job waits, two requests on one pair while a cancel runs, two sockets on a
run with its task and a third that is refused, two requests that have counted
while one is on record, a deletion between the read and the commit of an update of
a row that a third request made. The bounds give each of these. That nothing new
happens beyond them is proved for every safety property and for the refinement
(section 4).

The inputs of `risk` and `simulator` are chosen by case: each branch of a check is
taken by one signal and missed by another, on both sides. The balances of `risk`
include one that grows twenty thousandfold between routing and check, so that
the case `UnclampedNeedsGrowth` speaks of happens. The messages of `api` cover each way the two patterns can read a number: an
index and a price, a price with zeros at its end, a price without an index, a whole
price without an index, levels of a symbol that may have whole prices, and a message whose action is not understood.

*Fairness.* `LiveJobs`: the insertion and the commit of a request, the steps of
`ProcessNextJob` (the HTTP client has a timeout, the ticker never stops) are
weakly fair. `ClaimCommit` is strongly fair: a claim may be rolled back any number
of times, but the database does not refuse for ever; without it a job could be
selected and rolled back for ever. `Backtests`: the task and the handlers between
two database awaits, and up to their answer, are weakly fair, as the event loop
resumes what is ready.
`RateLimiter`: a waiting request gets a connection or times out (30 s), and a
statement returns or fails. Nothing is assumed of clients, crashes, the bridge, or
the arrival of requests.

## 4. Proofs

No proof takes anything on trust beyond the named assumptions on the constants.

`LiveJobs_proofs` proves, for any sets of jobs, signals, accounts, cancels and
workers and from `ConstantsAssumption` alone, that `IInv` is inductive, and from it:

- `TypeCorrect`, `OwnerIsUnique` (two workers never have one job),
  `TradedAtMostOnce`, `SuccessTraded`, `CancelTrue` as invariants;
- `StatusMovesForward` and `StrandedForEver` as action properties.

`TradedOnce` is not inductive: a step can break it from a state in which, say, a
job has an order at the bridge and a trade already. The strengthening follows the
life of a job. `RowInv` ties rows to the requests that inserted them and `UniqueInv`
says that two live rows never share a pair, the unique constraint seen across
uncommitted rows. `CancelInv` says what an open cancel transaction may assume of its
row, `HoldInv` ties the position of a worker to the status of the job it holds, and
`OneOwner` is part of the invariant. `OrderInv` is the heart: a job has either no
order yet, or one order at the bridge, or a trade, and never two of these, because
an order is sent only by the owner of a job that has neither. `FillInv` and
`ReplyInv` tie trades and answers to statuses. Each step lemma
(`RouteStepInv`, `CancelStepInv`, `WorkerStepInv`, `BridgeStepInv`) has one step per
action. Locks and the status CLAIMED carry the argument: nothing makes a CLAIMED
job PENDING again, so nobody can own it twice in its life.

`Refinement` shows that the pipeline implements `TradeOnce`. The mapping reads the phase
of a pair off its committed rows and its trades off their fills; `PhaseOfPair` and
`TradesOfPair` say that by `UniqueInv` only one row matters. A step is then one of
three: nothing of a pair is seen to change (`Unseen`, a stutter), the committed status of one row
changes (`Written`: `Queue`, `Cancel` or `Take` of its pair, or a stutter), or
the bridge trades (`Executed`: `Trade`, possible because `OrderInv` says that an
order belongs to a claimed job without a trade). `StepSeen` goes through the
actions and sorts them.

`RateLimiter_proofs` proves `WindowBounded` for any finite set of requests. A client
is charged with its rows in the window and with its requests that have counted
and not yet inserted. The charge grows only in `Count`, where the committed rows
are fewer than `Limit` and the others belong to connected requests, at most
`PoolSize`: hence `Limit + PoolSize - 1`. `RefusedRightly` adds that what a client was
refused for stays on record: rows only grow (`RowsGrow`), so a count that has
reached `Limit` stays there.

`RiskManager_proofs` proves `AcceptedKeepsLimit`, from `LimitsAssumption` and
`InputsAssumption`, for any signals, lots, balances, ledgers and limits. The
check is made in two halves and the tables may change between them, so
`LossWithinLimit` alone is not inductive: `CheckedInv` carries what the first half
has established of the lot, which holds on because nothing touches a job
once it is routed. The second half compares an estimate, and `EstimateCovers` says
that with positive prices the estimate is at least the loss at the stop.
`TypeCorrect` rests on `NormalizedLot`, that clamping and rounding stay between the
limits, and so on the arithmetic of the rounding (`RoundedBetween`).
`ComputedNeedsGrowth` proves `UnclampedNeedsGrowth` without further assumptions.
`SizeInv` remembers, of a size that was not clamped, that it loses at least two thirds of
1000 times the balance it was computed from, the rounding taking a third at most
(`RoundedCovers`); the rest is `LossWithinLimit`.

`Backtests_proofs`, from `TopicsAssumption`, proves `SocketsRegistered` and
`SettledForEver` for any numbers of runs, sockets and users. `Registered` needs
`SocketInv`: only a socket that has been opened is registered. The cleanup of
a handler is the delicate step (`CleanupInv`), because `unsubscribe` takes the
subscription of a run whoever holds it: nothing may be left that points to the
handler that leaves, while the others keep their entries. `SettledForEver` shows that
what writes a run is its own task, which has ended, or a handler that has
loaded it, of which there is none, and that a handler cannot load a settled run
as RUNNING again. `RunsMove` lists what may follow what in the life of a run (`Moves`), and that a
run is cancelled only by a handler of its owner that saw it RUNNING. It needs `LifeInv`: while a task has yet to
start a run, nobody else has touched it, and a handler that has seen a run
RUNNING cannot meet it PENDING. The list also shows what the two writers do to
each other: DONE may follow CANCELLED, and CANCELLED may follow DONE or FAILED.

`Licenses_proofs`, from `KeysAssumption`, proves `KeysStayOwned`, `GrantedLicensed` and
`LockedOutForEver`. What a request has checked must still hold when it writes:
`StoreInv` carries the owner of the key from the query to the insertion, `LoadInv`
the owner of the row a deactivation has loaded, and `UniqueInv` is the unique constraint
on the hash. `LockedOutForEver` is about cardinalities: once two rows are active
and no deactivation has loaded one, each of the queries that would lead to a
change raises.

`Api_proofs` proves eight theorems, from `NullAssumption`, `TokensAssumption`,
`BodiesAssumption`, `PatchesAssumption` and `AccountsAssumption`: any messages, rules of the
extractor, bodies and patches that the schemas let through, and any numbers of requests. A
handler reads, waits and commits; `ReadyInv` collects what it has found and what is
still true at its commit whatever others have committed (`Found`), and `Keeps` says why:
an owner never changes, ids are not given twice, names of
symbols change only by a rename. `RowsReferenced` follows from that and the foreign
keys. `UnderstoodLost` needs no fact about the extractor's recursion: an
understood message has an action and a price above zero (`ParsedUnderstood`), which is
enough for `create_signal` to raise, and the webhook's insertion fails whatever it holds.

`Extractor_proofs` proves, without any assumption on the rules, what the two
patterns make of a message of any length. `IndexedTo` and `ListedTo` are recursive
functions, so first that they satisfy their equations (`IndexedStep`, `ListedStep`), and then,
by induction over the tokens read:

- `IndexedAllowed`: the levels are finitely many, with allowed prices; from that,
  `PricesAllowed`: the extractor answers no price that `validatePrice` forbids, whichever
  of its four ways it was read in;
- `IndexedQuoted`: of a message that quotes its levels the first pattern reads those with an
  allowed price and no other. A later level replaces an earlier one with its
  number, so this needs that the quotation names a level once;
- `Listing`: the list pattern changes no level the first one has read, and adds one exactly
  if it takes a number. The invariant ties the flag `open` to the text read so far
  (`OpenAt`), and the level that is given away is free (`FirstFreeIsFree`, by counting).

`QuotedRead` puts them together: a quoted level is read exactly if its price has enough
places without trailing zeros, and the levels are those quoted exactly if all have and
nothing is taken once more. `LevelsAlwaysQuoted` in `Api_proofs` states it of what the
webhook is about to store.

`Simulator_proofs` first proves what the one-pass functions compute, for sequences of any
length. From induction: a sum does not depend on the order of what is
summed (`SumPermuted`, by moving one element at a time), the sum of
differences is the difference of the sums, and the pass of `calculateMaxDrawdown` holds the
highest point and the largest fall so far (`PassIsLargest`): hence
`DrawdownCorrect` and `TotalIsNet`. Then, from `PricesAssumption`, it puts these under
the state machine.
`RunInv` says that ids are given once in a life of the process, `StageInv` when a result is
in the cache, and `CacheInv` that it is the figures of an order of the
call's own signals; `ResultsNotMixed`, `TotalsAlwaysAgree`, `DrawdownAlwaysLargest` and
`AnswersHaveLosses` follow.

Both modules do their inductions with `SetInduction`: the library's induction theorems take an
operator as a parameter and cannot be used, so it states induction with a set in
place of a predicate and gets it from `WFMin`, which is first-order.

Only model-checked: liveness under fairness (`live_fair`, `RunsEnd`, and the answers of
`rate`), which is outside the prover's reach.

## 5. What the code says and does not keep

Each has a run whose counterexample shows it, and quotes the line in `PROJECT.json`.

- `FailedIsUntraded`: a job recorded as FAILED may have been traded, because the
  HTTP timeout and every other answer than success count as failures.
- `PositionCap`: the cap on positions counts a table nothing fills.
- `CancelSticks`: the background task commits DONE over CANCELLED.
- `OneActive`: two activations leave a user with two active licenses, and then
  (`LockedOutStays`) no request can repair it.

Seen while modelling, and part of the models, without a run of their own:

- No run reaches the Go backtester: `run_backtest` uses `json`, which
  `app/services/backtest_grpc.py` does not import, swallows the NameError and
  returns nothing; the run is stored as DONE with a fixed result
  (`TaskCallBacktester`, `TaskDone`).
- Sockets closed by the early returns of the log socket stay in
  `active_connections` (`SocketRefuse`; `Registered` shows that only they do), where
  the manager says "Connection may be dead; will be cleaned up later".
- Concurrent requests exceed "100 requests per minute per client" (`WindowBound` is
  the bound that does hold).
- After a restart of the API the guard stores the environment's key again, even
  when its user has deactivated it, because the unique hash has another salt
  (`Store`).
- A closing socket unsubscribes the others on its run; nothing sends to
  subscribers, so nobody notices.
- Nothing the extractor understood is ever stored (`ExtractionsLost`). The webhook
  assigns a container of the answer to a JSON column, so its insertion fails and
  its broadcast is never reached; `create_signal` validates a price that is then a
  float, and `is_finite` is a method of Decimal.
- "TP1 1.0850 TP2 1.0800", the example of a comment (`parser.go:341`), is not
  understood for a symbol that wants four places: they are counted without
  trailing zeros (`LevelsQuoted`). Of a symbol that may have whole prices (ETHUSD, say)
  the list pattern reads what the indexed one has read once more: "TP 1 3100 TP 2 3200" has levels
  1 to 4, and a whole stop behind a take profit becomes a level too (`Relisted`). A price without an index is
  read by the digit group as far as it can: "TP 2400" is level 240 at 0, and
  "TP 1.6123" level 1 at 0.6123, if that is in the range of the symbol.
- An account cannot be created through the API, nor its login changed: a Fernet
  token has at least 100 characters, and the column 50 (`Fits`). Every other update
  of an account stores the masked login (`MaskLogin`, `LoginsOnlyLost`).
- `update_me` changes an object of a session that is closed (`UpdateProfile`).
- A computed lot size risks 1000 times the balance, two placeholders cancelling
  out, so only clamped sizes pass unless the balance has grown some 10000fold by the
  time of the check, or the day's profit makes up for it (`UnclampedNeedsGrowth`). `normalize_lot` rounds to
  1/100 of a step.
- The take profits of a payload are objects where the worker expects numbers, so
  the risk-reward check never refuses a job (`Numbers`, `MinRRPasses`).
- A winning SELL has a negative RR, its distance being signed, and a run without a
  loss has an infinite profit factor and cannot be answered (`AnsweredHasLoss`).
  The overrides of the configuration are parsed and not applied, and the cache is
  never emptied.
- The test files of the repository are empty.

## 6. Not modelled

- *Authentication*: requests start where it has returned a user (2.8).
- *Live-updates socket and service broker*: migration 003 creates the table the socket
  polls, but `DELETE TOP ... ORDER BY` is no T-SQL and `send_notification` has no
  caller. Each handler ends at its first poll; that its early return
  leaves a closed socket registered is the hazard `Registered` shows for the log
  socket.
- *Telegram listener*: it keeps no state and forwards each message once; its
  messages are the webhook's inputs. The HMAC check of the webhook is left out.
- *Broadcast* of the manager, which iterates over sets across awaits: its only
  caller is the webhook, after the insertion that fails.
- *Extractor*: the cleaner's work on characters, connectors and commas in the
  patterns, and the confidence.
- *Simulator*: the Sharpe ratio, log lines, and `metrics.go` and `risk.go`, which have
  no caller.
- *Configuration, metrics, health, error handlers, migrations*: no state of their
  own beyond the constraints used above.
- `claim_job`, `complete_job`, `GetSignalData`, `UpdatePositionPrice`,
  `ClosePosition`, `send_to_job_subscribers`: no caller.
- Timing, except where a clock decides (rate limiter, licenses).
