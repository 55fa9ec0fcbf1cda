------------------------------ MODULE LiveJobs ------------------------------
(***************************************************************************)
(* The live-trading pipeline: the API requests that enqueue and cancel     *)
(* jobs (app/routes/v1/live.py, app/services/queue_service.py), the table  *)
(* live_jobs in MS SQL, the Go workers that claim and process jobs         *)
(* (go_workers/live_worker) and the MT5 bridge that places the orders      *)
(* (containers/mt5_bridge).                                                *)
(*                                                                         *)
(* Every API request runs in one database transaction that get_async_db    *)
(* commits after the handler returns, before the response is sent, and     *)
(* rolls back when the handler raises.  A row that an open transaction has *)
(* inserted or updated is locked until the transaction ends: writers wait  *)
(* for it, the READPAST claim query skips it, and plain SELECTs see the    *)
(* committed row.                                                          *)
(***************************************************************************)
EXTENDS Naturals, FiniteSets

CONSTANTS
    Jobs,          \* POST /live/route requests; each draws a fresh uuid, so a request names its job
    Signals,
    Accounts,
    Cancels,       \* DELETE /live/job/{id} requests
    Workers,       \* live_worker processes
    MaxPositions,  \* risk_limits.max_positions
    NoJob,
    NoPair

Pairs == Signals \X Accounts

ASSUME ConstantsAssumption ==
    /\ MaxPositions \in Nat
    /\ NoJob \notin Jobs
    /\ NoPair \notin Pairs

VARIABLES
    route,    \* route[j]: where the enqueueing request j is
    pair,     \* pair[j]: the (signal, account) it asks for, once checked
    stamp,    \* stamp[j]: created_at
    clock,    \* datetime.utcnow()
    cancel,   \* cancel[c]: where the cancel request c is
    target,   \* target[c]: the job it names, once known
    status,   \* status[j]: the COMMITTED status of row j of live_jobs; "ABSENT" when there is no row
    worker,   \* worker[w]: where worker w is in ProcessNextJob
    holds,    \* holds[w]: the job it is working on
    orders,   \* <<w, j>>: order of job j, sent by w, at the bridge and not executed yet
    replies,  \* <<w, j, answer>>: the bridge's response, on its way to w
    fills     \* fills[j]: how many trades the broker made for job j

apiVars    == <<route, pair, stamp, clock>>
cancelVars == <<cancel, target>>
workerVars == <<worker, holds>>
bridgeVars == <<orders, replies, fills>>
vars       == <<apiVars, cancelVars, status, workerVars, bridgeVars>>

RouteStates  == {"idle", "checked", "inserted", "accepted", "conflict", "notfound", "error"}
CancelStates == {"idle", "flushed", "done", "refused", "notfound", "error"}
JobStatuses  == {"ABSENT", "PENDING", "CLAIMED", "SUCCESS", "FAILED", "CANCELLED"}
WorkerStates == {"idle", "claiming", "validate", "execute", "waiting", "finish", "failing"}
Answers      == {"ok", "error"}
Outcomes     == {"done", "unreported", "refused"}

-----------------------------------------------------------------------------
(* Rows and locks.                                                         *)

\* Row j is write-locked by the open transaction that inserted it, that is
\* cancelling it or that is claiming it.
RowLocked(j) ==
    \/ route[j] = "inserted"
    \/ \E c \in Cancels : cancel[c] = "flushed" /\ target[c] = j
    \/ \E w \in Workers : worker[w] = "claiming" /\ holds[w] = j

\* Faulty variant: the claim query without READPAST and UPDLOCK.
ClaimableIgnoringLocks == {j \in Jobs : status[j] = "PENDING"}

\* Faulty variant: the claim query takes up CLAIMED rows again.
ClaimableOrClaimed == {j \in Jobs : status[j] \in {"PENDING", "CLAIMED"} /\ ~RowLocked(j)}

\* The rows the claim query sees: PENDING and, by READPAST, not locked.
Claimable == {j \in Jobs : status[j] = "PENDING" /\ ~RowLocked(j)}

\* The rows of live_jobs for the pair p, by committed status.
RowsFor(p, statuses) == {j \in Jobs : pair[j] = p /\ status[j] \in statuses}

\* GetOpenPositions reads live_positions, a table that no statement of the
\* repository inserts into.
OpenPositions(a) == {}

-----------------------------------------------------------------------------
Init ==
    /\ route   = [j \in Jobs |-> "idle"]
    /\ pair    = [j \in Jobs |-> NoPair]
    /\ stamp   = [j \in Jobs |-> 0]
    /\ clock   = 0
    /\ cancel  = [c \in Cancels |-> "idle"]
    /\ target  = [c \in Cancels |-> NoJob]
    /\ status  = [j \in Jobs |-> "ABSENT"]
    /\ worker  = [w \in Workers |-> "idle"]
    /\ holds   = [w \in Workers |-> NoJob]
    /\ orders  = {}
    /\ replies = {}
    /\ fills   = [j \in Jobs |-> 0]

-----------------------------------------------------------------------------
(* POST /live/route.                                                       *)

\* The signal or the account does not exist, is not the user's or is inactive.
RouteNotFound(j) ==
    /\ route[j] = "idle"
    /\ route' = [route EXCEPT ![j] = "notfound"]
    /\ UNCHANGED <<pair, stamp, clock, cancelVars, status, workerVars, bridgeVars>>

\* The duplicate check: ConflictError when the pair has a PENDING or CLAIMED
\* job, otherwise the LiveJob object is built, created_at included.
RouteCheck(j, p) ==
    /\ route[j] = "idle"
    /\ IF RowsFor(p, {"PENDING", "CLAIMED"}) # {}
       THEN /\ route' = [route EXCEPT ![j] = "conflict"]
            /\ UNCHANGED <<pair, stamp, clock>>
       ELSE /\ route' = [route EXCEPT ![j] = "checked"]
            /\ pair'  = [pair EXCEPT ![j] = p]
            /\ clock' = clock + 1
            /\ stamp' = [stamp EXCEPT ![j] = clock + 1]
    /\ UNCHANGED <<cancelVars, status, workerVars, bridgeVars>>

\* Faulty variant: no unique constraint on (signal_id, account_id).
RouteInsertNotUnique(j) ==
    /\ route[j] = "checked"
    /\ route' = [route EXCEPT ![j] = "inserted"]
    /\ UNCHANGED <<pair, stamp, clock, cancelVars, status, workerVars, bridgeVars>>

\* enqueue_job's flush: the INSERT waits for an uncommitted row with the same
\* key, and fails on a committed one (uq_job_signal_account).
RouteInsert(j) ==
    /\ route[j] = "checked"
    /\ \A i \in Jobs : pair[i] = pair[j] => route[i] # "inserted"
    /\ route' = [route EXCEPT ![j] =
                    IF RowsFor(pair[j], JobStatuses \ {"ABSENT"}) = {} THEN "inserted" ELSE "error"]
    /\ UNCHANGED <<pair, stamp, clock, cancelVars, status, workerVars, bridgeVars>>

\* Faulty variant: the session is left open, not committed.
RouteCommitForgotten(j) == route[j] = "inserted" /\ UNCHANGED vars

\* get_async_db commits; the client gets 202.
RouteCommit(j) ==
    /\ route[j] = "inserted"
    /\ route'  = [route EXCEPT ![j] = "accepted"]
    /\ status' = [status EXCEPT ![j] = "PENDING"]
    /\ UNCHANGED <<pair, stamp, clock, cancelVars, workerVars, bridgeVars>>

\* The transaction fails, or the API process dies with it open: rollback.
RouteRollback(j) ==
    /\ route[j] \in {"checked", "inserted"}
    /\ route' = [route EXCEPT ![j] = "error"]
    /\ UNCHANGED <<pair, stamp, clock, cancelVars, status, workerVars, bridgeVars>>

\* The commit is applied but its answer is lost: the client sees an error.
RouteCommitLost(j) ==
    /\ route[j] = "inserted"
    /\ route'  = [route EXCEPT ![j] = "error"]
    /\ status' = [status EXCEPT ![j] = "PENDING"]
    /\ UNCHANGED <<pair, stamp, clock, cancelVars, workerVars, bridgeVars>>

-----------------------------------------------------------------------------
(* DELETE /live/job/{id}.                                                  *)

\* get_job_status finds no row, or another user's.
CancelNotFound(c) ==
    /\ cancel[c] = "idle"
    /\ cancel' = [cancel EXCEPT ![c] = "notfound"]
    /\ UNCHANGED <<apiVars, target, status, workerVars, bridgeVars>>

\* Faulty variant: UPDATE ... WHERE id = j.
CancelUpdateAnyStatus(c, j) ==
    /\ cancel[c] = "idle"
    /\ status[j] # "ABSENT"
    /\ ~RowLocked(j)
    /\ cancel' = [cancel EXCEPT ![c] = "flushed"]
    /\ target' = [target EXCEPT ![c] = j]
    /\ UNCHANGED <<apiVars, status, workerVars, bridgeVars>>

\* UPDATE ... WHERE id = j AND status = 'PENDING'; no row hit: ConflictError.
CancelUpdate(c, j) ==
    /\ cancel[c] = "idle"
    /\ status[j] # "ABSENT"
    /\ ~RowLocked(j)
    /\ cancel' = [cancel EXCEPT ![c] = IF status[j] = "PENDING" THEN "flushed" ELSE "refused"]
    /\ target' = [target EXCEPT ![c] = j]
    /\ UNCHANGED <<apiVars, status, workerVars, bridgeVars>>

CancelCommit(c) ==
    /\ cancel[c] = "flushed"
    /\ cancel' = [cancel EXCEPT ![c] = "done"]
    /\ status' = [status EXCEPT ![target[c]] = "CANCELLED"]
    /\ UNCHANGED <<apiVars, target, workerVars, bridgeVars>>

CancelRollback(c) ==
    /\ cancel[c] = "flushed"
    /\ cancel' = [cancel EXCEPT ![c] = "error"]
    /\ UNCHANGED <<apiVars, target, status, workerVars, bridgeVars>>

CancelCommitLost(c) ==
    /\ cancel[c] = "flushed"
    /\ cancel' = [cancel EXCEPT ![c] = "error"]
    /\ status' = [status EXCEPT ![target[c]] = "CANCELLED"]
    /\ UNCHANGED <<apiVars, target, workerVars, bridgeVars>>

-----------------------------------------------------------------------------
(* The live worker: ProcessNextJob, on every tick.                         *)

Goto(w, pc) == worker' = [worker EXCEPT ![w] = pc]

\* The worker is back in the polling loop.
Release(w) ==
    /\ Goto(w, "idle")
    /\ holds' = [holds EXCEPT ![w] = NoJob]

\* Faulty variant: no job is claimed while another one is CLAIMED.
ClaimSelectOneAtATime(w, j) ==
    /\ worker[w] = "idle"
    /\ j \in Claimable
    /\ \A i \in Jobs : status[i] # "CLAIMED"
    /\ Goto(w, "claiming")
    /\ holds' = [holds EXCEPT ![w] = j]
    /\ UNCHANGED <<apiVars, cancelVars, status, bridgeVars>>

\* ClaimNextJob: SELECT TOP 1 ... WITH (UPDLOCK, READPAST) ... ORDER BY
\* created_at, then UPDATE ... 'CLAIMED', in a transaction.  A tick that finds
\* no row changes nothing.
ClaimSelect(w, j) ==
    /\ worker[w] = "idle"
    /\ j \in Claimable
    /\ \A i \in Claimable : stamp[j] <= stamp[i]
    /\ Goto(w, "claiming")
    /\ holds' = [holds EXCEPT ![w] = j]
    /\ UNCHANGED <<apiVars, cancelVars, status, bridgeVars>>

ClaimCommit(w) ==
    /\ worker[w] = "claiming"
    /\ Goto(w, "validate")
    /\ status' = [status EXCEPT ![holds[w]] = "CLAIMED"]
    /\ UNCHANGED <<apiVars, cancelVars, holds, bridgeVars>>

\* The UPDATE or the commit fails: ClaimNextJob returns the error.
ClaimRollback(w) ==
    /\ worker[w] = "claiming"
    /\ Release(w)
    /\ UNCHANGED <<apiVars, cancelVars, status, bridgeVars>>

\* The commit is applied but returns an error, so the job is not processed.
ClaimCommitLost(w) ==
    /\ worker[w] = "claiming"
    /\ Release(w)
    /\ status' = [status EXCEPT ![holds[w]] = "CLAIMED"]
    /\ UNCHANGED <<apiVars, cancelVars, bridgeVars>>

\* riskMgr.ValidateJob accepts the job.  Of its checks only the position cap
\* depends on the pipeline's state.
ValidatePass(w) ==
    /\ worker[w] = "validate"
    /\ Cardinality(OpenPositions(pair[holds[w]][2])) < MaxPositions
    /\ Goto(w, "execute")
    /\ UNCHANGED <<apiVars, cancelVars, status, holds, bridgeVars>>

\* ValidateJob returns an error or panics.
ValidateFail(w) ==
    /\ worker[w] = "validate"
    /\ Goto(w, "failing")
    /\ UNCHANGED <<apiVars, cancelVars, status, holds, bridgeVars>>

\* executeOrder: the POST reaches the bridge.
SendOrder(w) ==
    /\ worker[w] = "execute"
    /\ Goto(w, "waiting")
    /\ orders' = orders \union {<<w, holds[w]>>}
    /\ UNCHANGED <<apiVars, cancelVars, status, holds, replies, fills>>

\* executeOrder fails before the request is delivered.
SendError(w) ==
    /\ worker[w] = "execute"
    /\ Goto(w, "failing")
    /\ UNCHANGED <<apiVars, cancelVars, status, holds, bridgeVars>>

\* Faulty variant: the status code of the response is not looked at.
ReceiveReplyUnchecked(w, answer) ==
    /\ worker[w] = "waiting"
    /\ <<w, holds[w], answer>> \in replies
    /\ Goto(w, "finish")
    /\ replies' = replies \ {<<w, holds[w], answer>>}
    /\ UNCHANGED <<apiVars, cancelVars, status, holds, orders, fills>>

\* The response: 200 with an OrderResponse, or any other status.
ReceiveReply(w, answer) ==
    /\ worker[w] = "waiting"
    /\ <<w, holds[w], answer>> \in replies
    /\ Goto(w, IF answer = "ok" THEN "finish" ELSE "failing")
    /\ replies' = replies \ {<<w, holds[w], answer>>}
    /\ UNCHANGED <<apiVars, cancelVars, status, holds, orders, fills>>

\* Faulty variant: an HTTP client without a timeout.
TimeoutNever(w) == worker[w] = "waiting" /\ UNCHANGED vars

\* The HTTP client's timeout, or a broken connection: what the bridge does
\* with the order from here on is not heard of.
Timeout(w) ==
    /\ worker[w] = "waiting"
    /\ Goto(w, "failing")
    /\ replies' = {m \in replies : m[1] # w}
    /\ UNCHANGED <<apiVars, cancelVars, status, holds, orders, fills>>

\* UpdateJobStatus(id, "SUCCESS"): no guard on the current status.
UpdateSuccess(w) ==
    /\ worker[w] = "finish"
    /\ ~RowLocked(holds[w])
    /\ Release(w)
    /\ status' = [status EXCEPT ![holds[w]] = "SUCCESS"]
    /\ UNCHANGED <<apiVars, cancelVars, bridgeVars>>

\* It returns an error, applied or not, and the deferred function takes over.
UpdateSuccessError(w, applied) ==
    /\ worker[w] = "finish"
    /\ applied => ~RowLocked(holds[w])
    /\ Goto(w, "failing")
    /\ status' = IF applied THEN [status EXCEPT ![holds[w]] = "SUCCESS"] ELSE status
    /\ UNCHANGED <<apiVars, cancelVars, holds, bridgeVars>>

\* Faulty variant: another name for the status.
UpdateFailedMisnamed(w) ==
    /\ worker[w] = "failing"
    /\ ~RowLocked(holds[w])
    /\ Release(w)
    /\ status' = [status EXCEPT ![holds[w]] = "ERROR"]
    /\ UNCHANGED <<apiVars, cancelVars, bridgeVars>>

\* The deferred UpdateJobStatus(id, "FAILED").
UpdateFailed(w) ==
    /\ worker[w] = "failing"
    /\ ~RowLocked(holds[w])
    /\ Release(w)
    /\ status' = [status EXCEPT ![holds[w]] = "FAILED"]
    /\ UNCHANGED <<apiVars, cancelVars, bridgeVars>>

\* It fails: only logged.
UpdateFailedError(w) ==
    /\ worker[w] = "failing"
    /\ Release(w)
    /\ UNCHANGED <<apiVars, cancelVars, status, bridgeVars>>

\* The process dies and the container restarts it: an open transaction is
\* rolled back, a claimed job is forgotten, an order at the bridge stays there.
WorkerCrash(w) ==
    /\ worker[w] # "idle"
    /\ Release(w)
    /\ replies' = {m \in replies : m[1] # w}
    /\ UNCHANGED <<apiVars, cancelVars, status, orders, fills>>

-----------------------------------------------------------------------------
(* The MT5 bridge.                                                         *)

\* execute_order.  "done": order_send traded with TRADE_RETCODE_DONE.
\* "unreported": it traded, but with another retcode (a partial fill, an order
\* placed) or without a result, which the bridge answers as a failure.
\* "refused": no trade.  An abandoned request is executed all the same.
BridgeExecute(w, j, outcome) ==
    /\ <<w, j>> \in orders
    /\ orders'  = orders \ {<<w, j>>}
    /\ fills'   = IF outcome = "refused" THEN fills ELSE [fills EXCEPT ![j] = @ + 1]
    /\ replies' = IF worker[w] = "waiting" /\ holds[w] = j
                  THEN replies \union {<<w, j, IF outcome = "done" THEN "ok" ELSE "error">>}
                  ELSE replies
    /\ UNCHANGED <<apiVars, cancelVars, status, workerVars>>

\* The bridge process dies with the orders it has not executed.
BridgeCrash ==
    /\ orders # {}
    /\ orders' = {}
    /\ UNCHANGED <<apiVars, cancelVars, status, workerVars, replies, fills>>

-----------------------------------------------------------------------------
RouteStep(j) ==
    \/ RouteNotFound(j)
    \/ \E p \in Pairs : RouteCheck(j, p)
    \/ RouteInsert(j)
    \/ RouteCommit(j)
    \/ RouteRollback(j)
    \/ RouteCommitLost(j)

CancelStep(c) ==
    \/ CancelNotFound(c)
    \/ \E j \in Jobs : CancelUpdate(c, j)
    \/ CancelCommit(c)
    \/ CancelRollback(c)
    \/ CancelCommitLost(c)

WorkerStep(w) ==
    \/ \E j \in Jobs : ClaimSelect(w, j)
    \/ ClaimCommit(w)
    \/ ClaimRollback(w)
    \/ ClaimCommitLost(w)
    \/ ValidatePass(w)
    \/ ValidateFail(w)
    \/ SendOrder(w)
    \/ SendError(w)
    \/ \E answer \in Answers : ReceiveReply(w, answer)
    \/ Timeout(w)
    \/ UpdateSuccess(w)
    \/ \E applied \in BOOLEAN : UpdateSuccessError(w, applied)
    \/ UpdateFailed(w)
    \/ UpdateFailedError(w)
    \/ WorkerCrash(w)

BridgeStep ==
    \/ \E w \in Workers, j \in Jobs, outcome \in Outcomes :
            BridgeExecute(w, j, outcome)
    \/ BridgeCrash

Next ==
    \/ \E j \in Jobs : RouteStep(j)
    \/ \E c \in Cancels : CancelStep(c)
    \/ \E w \in Workers : WorkerStep(w)
    \/ BridgeStep

Spec == Init /\ [][Next]_vars

-----------------------------------------------------------------------------
(* Fairness.  A request that is running goes on; the ticker keeps calling  *)
(* ProcessNextJob; a claim that is tried again and again is committed some *)
(* day (the database does not refuse for ever); a job being processed      *)
(* moves on, by an answer or by the HTTP timeout.  Nothing is assumed of   *)
(* the bridge, of crashes or of the arrival of requests.                   *)

ProcessStep(w) ==
    \/ ValidatePass(w)
    \/ ValidateFail(w)
    \/ SendOrder(w)
    \/ SendError(w)
    \/ \E answer \in Answers : ReceiveReply(w, answer)
    \/ Timeout(w)
    \/ UpdateSuccess(w)
    \/ \E applied \in BOOLEAN : UpdateSuccessError(w, applied)
    \/ UpdateFailed(w)
    \/ UpdateFailedError(w)

Fairness ==
    /\ \A j \in Jobs : WF_vars(RouteInsert(j)) /\ WF_vars(RouteCommit(j))
    /\ \A c \in Cancels : WF_vars(CancelCommit(c))
    /\ \A w \in Workers :
          /\ WF_vars(\E j \in Jobs : ClaimSelect(w, j))
          /\ SF_vars(ClaimCommit(w))
          /\ WF_vars(ProcessStep(w))

FairSpec == Spec /\ Fairness

-----------------------------------------------------------------------------
(* Properties.                                                             *)

TypeOK ==
    /\ route  \in [Jobs -> RouteStates]
    /\ pair   \in [Jobs -> Pairs \union {NoPair}]
    /\ stamp  \in [Jobs -> Nat]
    /\ clock  \in Nat
    /\ cancel \in [Cancels -> CancelStates]
    /\ target \in [Cancels -> Jobs \union {NoJob}]
    /\ status \in [Jobs -> JobStatuses]
    /\ worker \in [Workers -> WorkerStates]
    /\ holds  \in [Workers -> Jobs \union {NoJob}]
    /\ orders  \subseteq Workers \X Jobs
    /\ replies \subseteq Workers \X Jobs \X Answers
    /\ fills  \in [Jobs -> Nat]

\* A signal is traded at most once on an account, whatever is retried, lost,
\* crashed or answered late: no job trades twice and no two jobs of the same
\* (signal, account) trade (duplicate check, unique constraint and claim).
TradedOnce ==
    \A i, j \in Jobs :
        /\ fills[j] <= 1
        /\ (fills[i] > 0 /\ fills[j] > 0 /\ pair[i] = pair[j]) => i = j

\* Two workers never have the same job, neither in their claim transactions
\* nor while processing it (UPDLOCK and the CLAIMED status).
OneOwner ==
    \A v, w \in Workers : (holds[v] = holds[w] /\ holds[v] # NoJob) => v = w

\* SUCCESS is only recorded for a job the broker traded.
SuccessIsTraded ==
    \A j \in Jobs : status[j] = "SUCCESS" => fills[j] = 1

\* The answers of DELETE /live/job/{id} stay true: after 204 the job is
\* CANCELLED, no worker has it, and it has no order and no trade; after the
\* 409 "already claimed or completed" it never is PENDING (to be claimed).
CancelAnswersTrue ==
    \A c \in Cancels :
        /\ cancel[c] = "done" =>
              /\ status[target[c]] = "CANCELLED"
              /\ fills[target[c]] = 0
              /\ \A w \in Workers : holds[w] # target[c] /\ <<w, target[c]>> \notin orders
        /\ cancel[c] = "refused" => status[target[c]] \notin {"ABSENT", "PENDING"}

\* What an update of status may do.  CANCELLED and FAILED are final, nothing
\* returns to PENDING, and SUCCESS gives way only to the FAILED that the same
\* ProcessNextJob writes when its SUCCESS update reported an error.
StatusMove(j) ==
    status'[j] # status[j] =>
        \/ status[j] = "ABSENT"  /\ status'[j] = "PENDING"
        \/ status[j] = "PENDING" /\ status'[j] \in {"CLAIMED", "CANCELLED"}
        \/ status[j] = "CLAIMED" /\ status'[j] \in {"SUCCESS", "FAILED"}
        \/ /\ status[j] = "SUCCESS" /\ status'[j] = "FAILED"
           /\ \E w \in Workers : holds[w] = j /\ worker[w] = "failing"

StatusMoves == [][\A j \in Jobs : StatusMove(j)]_vars

\* A CLAIMED job that no worker has: its worker died, or lost the answer of a
\* commit or of the last update.
Stranded(j) == status[j] = "CLAIMED" /\ \A w \in Workers : holds[w] # j

\* Nothing takes up a stranded job again, so its order is never sent twice.
StrandedStays == [][\A j \in Jobs : Stranded(j) => Stranded(j)']_vars

\* Every enqueueing request gets its answer: none waits for ever on the key
\* that another request has inserted.
RequestsAnswered ==
    \A j \in Jobs : route[j] = "checked" ~> route[j] \in {"accepted", "error"}

\* "The job will be picked up by the Go Live Worker": a PENDING job is claimed
\* or cancelled.
PendingServed == \A j \in Jobs : status[j] = "PENDING" ~> status[j] # "PENDING"

\* A claimed job gets a final status, unless it is stranded.
ClaimedResolved ==
    \A j \in Jobs :
        status[j] = "CLAIMED" ~> (status[j] \in {"SUCCESS", "FAILED"} \/ Stranded(j))

\* The phase of a pair, read off the rows of live_jobs, and its trades.
PairPhase(p) ==
    CASE RowsFor(p, {"PENDING"}) # {}                      -> "queued"
      [] RowsFor(p, {"CANCELLED"}) # {}                    -> "cancelled"
      [] RowsFor(p, {"CLAIMED", "SUCCESS", "FAILED"}) # {} -> "taken"
      [] OTHER                                             -> "none"

PairTrades(p) == UNION {{j} \X (1 .. fills[j]) : j \in {i \in Jobs : pair[i] = p}}

Abstract == INSTANCE TradeOnce WITH
    Trades <- Jobs \X {1},
    phase  <- [p \in Pairs |-> PairPhase(p)],
    trades <- [p \in Pairs |-> PairTrades(p)]

\* The pipeline implements TradeOnce: requests, transactions, claims, lost
\* answers, crashes and late executions are steps of a pair or stutter.
ImplementsTradeOnce == Abstract!Spec

\* What the code says and does not keep (runs that expect a violation).

\* The FAILED status is written with "MT5 execution failed" or "risk
\* validation failed": the job was not traded.
FailedIsUntraded ==
    \A j \in Jobs : status[j] = "FAILED" => fills[j] = 0

\* "Check max concurrent positions": an account never gets more trades than
\* max_positions (here none of them is closed).
PositionCap ==
    \A a \in Accounts :
        Cardinality({j \in Jobs : fills[j] > 0 /\ pair[j][2] = a}) <= MaxPositions

=============================================================================
