------------------------------ MODULE Backtests ------------------------------
(***************************************************************************)
(* Backtest runs: the endpoints that start and delete a run and the        *)
(* background task that executes it (app/routes/v1/backtest.py), and the   *)
(* WebSocket on which a client watches and cancels it                      *)
(* (app/websocket/backtest_logs.py).                                       *)
(*                                                                         *)
(* The task and the sockets each use a session of their own: they load the *)
(* row, change the object and commit an UPDATE ... WHERE id = ?, with      *)
(* awaits in between, so a commit overwrites whatever the row holds by     *)
(* then.  An UPDATE of a deleted row raises StaleDataError.                *)
(***************************************************************************)
EXTENDS ConnectionManager

CONSTANTS
    Runs,    \* POST /backtest requests; a request names the run it creates
    NoRun

ASSUME TopicsAssumption == Topics = Runs   \* f"backtest_{run_id}"

VARIABLES
    status,   \* status[r]: the committed status of the row; "ABSENT" before, "DELETED" after
    owner,    \* owner[r]: user_id
    task,     \* task[r]: where execute_backtest is
    sock,     \* sock[h]: where the WebSocket handler h is
    who,      \* who[h]: its authenticated user
    watch,    \* watch[h]: the run it was opened for
    told      \* told[h]: it has answered "Backtest canceled"

runVars  == <<status, owner, task>>
sockVars == <<sock, who, watch, told>>
vars     == <<managerVars, runVars, sockVars>>

RunStatuses == {"ABSENT", "PENDING", "RUNNING", "DONE", "FAILED", "CANCELLED", "DELETED"}
TaskStates  == {"none", "queued", "loaded", "running", "called", "failing", "ended"}
SockStates  == {"idle", "accepted", "listening", "stop", "answer", "refused", "closed"}

\* Past the early returns, above the finally block.
InTry(h) == sock[h] \in {"listening", "stop", "answer"}

Exists(r) == status[r] \notin {"ABSENT", "DELETED"}

Init ==
    /\ ManagerInit
    /\ status = [r \in Runs |-> "ABSENT"]
    /\ owner  = [r \in Runs |-> NoUser]
    /\ task   = [r \in Runs |-> "none"]
    /\ sock   = [h \in Sockets |-> "idle"]
    /\ who    = [h \in Sockets |-> NoUser]
    /\ watch  = [h \in Sockets |-> NoRun]
    /\ told   = [h \in Sockets |-> FALSE]

-----------------------------------------------------------------------------
(* The endpoints.                                                          *)

\* start_backtest: the row is committed, the task is added and runs after the
\* response is sent.
StartBacktest(r, u) ==
    /\ status[r] = "ABSENT"
    /\ status' = [status EXCEPT ![r] = "PENDING"]
    /\ owner'  = [owner EXCEPT ![r] = u]
    /\ task'   = [task EXCEPT ![r] = "queued"]
    /\ UNCHANGED <<managerVars, sockVars>>

\* The commit is applied but it, or the refresh, raises: the task is not added.
StartBacktestError(r, u) ==
    /\ status[r] = "ABSENT"
    /\ status' = [status EXCEPT ![r] = "PENDING"]
    /\ owner'  = [owner EXCEPT ![r] = u]
    /\ task'   = [task EXCEPT ![r] = "ended"]
    /\ UNCHANGED <<managerVars, sockVars>>

\* delete_backtest, at any time in the life of the run.
DeleteBacktest(r) ==
    /\ Exists(r)
    /\ status' = [status EXCEPT ![r] = "DELETED"]
    /\ UNCHANGED <<managerVars, owner, task, sockVars>>

-----------------------------------------------------------------------------
(* execute_backtest.                                                       *)

TaskGoto(r, pc) == task' = [task EXCEPT ![r] = pc]

\* The row is loaded; scalar_one raises for a deleted one, and so does the one
\* in the except block.
TaskLoad(r) ==
    /\ task[r] = "queued"
    /\ TaskGoto(r, IF Exists(r) THEN "loaded" ELSE "ended")
    /\ UNCHANGED <<managerVars, status, owner, sockVars>>

\* Commit of an assignment to run.status, then the next statement pc.
TaskWrite(r, new, pc) ==
    /\ status' = IF Exists(r) THEN [status EXCEPT ![r] = new] ELSE status
    /\ TaskGoto(r, IF Exists(r) THEN pc ELSE "failing")
    /\ UNCHANGED <<managerVars, owner, sockVars>>

TaskRunning(r) == task[r] = "loaded" /\ TaskWrite(r, "RUNNING", "running")

\* Faulty variant: it waits for a stream that has no timeout.
TaskCallBacktesterForEver(r) == task[r] = "running" /\ UNCHANGED vars

\* run_backtest: building the request raises (json is not imported), the
\* except clause returns None, no RPC is made and there is no stream to read.
TaskCallBacktester(r) ==
    /\ task[r] = "running"
    /\ TaskGoto(r, "called")
    /\ UNCHANGED <<managerVars, status, owner, sockVars>>

\* The placeholder result is stored with status DONE.
TaskDone(r) == task[r] = "called" /\ TaskWrite(r, "DONE", "ended")

\* The same commit, applied, but reported as an error.
TaskDoneLost(r) == task[r] = "called" /\ TaskWrite(r, "DONE", "failing")

\* A database error in the try block.
TaskError(r) ==
    /\ task[r] \in {"queued", "loaded", "called"}
    /\ TaskGoto(r, "failing")
    /\ UNCHANGED <<managerVars, status, owner, sockVars>>

\* Faulty variant: another name for the status.
TaskFailedMisnamed(r) ==
    /\ task[r] = "failing"
    /\ Exists(r)
    /\ TaskWrite(r, "ERROR", "ended")

\* The except block: reload, store FAILED.
TaskFailed(r) ==
    /\ task[r] = "failing"
    /\ Exists(r)
    /\ TaskWrite(r, "FAILED", "ended")

\* It raises in turn (no such row, a session that needs a rollback, a database
\* error): the run keeps the status it has.
TaskFailedError(r) ==
    /\ task[r] = "failing"
    /\ TaskGoto(r, "ended")
    /\ UNCHANGED <<managerVars, status, owner, sockVars>>

-----------------------------------------------------------------------------
(* backtest_logs_websocket.                                                *)

SockGoto(h, pc) == sock' = [sock EXCEPT ![h] = pc]

SocketOpen(h, u, r) ==
    /\ sock[h] = "idle"
    /\ SockGoto(h, "accepted")
    /\ who'   = [who EXCEPT ![h] = u]
    /\ watch' = [watch EXCEPT ![h] = r]
    /\ connect(h, u)
    /\ UNCHANGED <<subscriptions, runVars, told>>

\* Not found or not owned, or DONE: answered, closed and returned from, above
\* the try block and so without its finally.
SocketRefuse(h) ==
    /\ sock[h] = "accepted"
    /\ \/ ~Exists(watch[h])
       \/ owner[watch[h]] # who[h]
       \/ status[watch[h]] = "DONE"
    /\ SockGoto(h, "refused")
    /\ UNCHANGED <<managerVars, runVars, who, watch, told>>

SocketListen(h) ==
    /\ sock[h] = "accepted"
    /\ Exists(watch[h])
    /\ owner[watch[h]] = who[h]
    /\ status[watch[h]] # "DONE"
    /\ SockGoto(h, "listening")
    /\ subscribe_to_job(who[h], watch[h])
    /\ UNCHANGED <<active, runVars, who, watch, told>>

\* Faulty variant: the status is not looked at.
SocketCancelReadAny(h) ==
    /\ sock[h] = "listening"
    /\ SockGoto(h, "stop")
    /\ UNCHANGED <<managerVars, runVars, who, watch, told>>

\* The client's "cancel": the row is loaded.  It is to be changed if RUNNING;
\* otherwise, or if there is none, the client is answered the same.
SocketCancelRead(h) ==
    /\ sock[h] = "listening"
    /\ SockGoto(h, IF status[watch[h]] = "RUNNING" THEN "stop" ELSE "answer")
    /\ UNCHANGED <<managerVars, runVars, who, watch, told>>

\* The finally block.
SocketCleanup(h) ==
    /\ SockGoto(h, "closed")
    /\ unsubscribe_from_job(watch[h])
    /\ disconnect(h, who[h])
    /\ UNCHANGED <<who, watch>>

\* CANCELLED is committed.
SocketCommit(h) ==
    /\ sock[h] = "stop"
    /\ Exists(watch[h])
    /\ status' = [status EXCEPT ![watch[h]] = "CANCELLED"]
    /\ SockGoto(h, "answer")
    /\ UNCHANGED <<managerVars, owner, task, who, watch, told>>

\* The commit raises, and the client is told nothing: the row was deleted, or the
\* commit is applied but reported as an error.
SocketCommitError(h) ==
    /\ sock[h] = "stop"
    /\ status' = IF Exists(watch[h]) THEN [status EXCEPT ![watch[h]] = "CANCELLED"] ELSE status
    /\ SocketCleanup(h)
    /\ UNCHANGED <<owner, task, told>>

\* "Backtest canceled", whether this handler cancelled it or not.
SocketAnswer(h) ==
    /\ sock[h] = "answer"
    /\ told' = [told EXCEPT ![h] = TRUE]
    /\ SocketCleanup(h)
    /\ UNCHANGED runVars

\* The client leaves, so that receiving or sending raises, or a database error
\* ends the handler with nothing committed.
SocketLeave(h) ==
    /\ InTry(h)
    /\ SocketCleanup(h)
    /\ UNCHANGED <<runVars, told>>

\* The API process dies: tasks, sockets and the manager's memory go with it,
\* and nothing takes the runs up again.
ApiCrash ==
    /\ \/ \E r \in Runs : task[r] \notin {"none", "ended"}
       \/ \E h \in Sockets : sock[h] \notin {"idle", "closed"}
    /\ task' = [r \in Runs |-> IF task[r] = "none" THEN "none" ELSE "ended"]
    /\ sock' = [h \in Sockets |-> IF sock[h] = "idle" THEN "idle" ELSE "closed"]
    /\ active' = [u \in Users |-> {}]
    /\ subscriptions' = [t \in Topics |-> NoUser]
    /\ UNCHANGED <<status, owner, who, watch, told>>

-----------------------------------------------------------------------------
TaskStep(r) ==
    \/ TaskLoad(r)
    \/ TaskRunning(r)
    \/ TaskCallBacktester(r)
    \/ TaskDone(r)
    \/ TaskDoneLost(r)
    \/ TaskError(r)
    \/ TaskFailed(r)
    \/ TaskFailedError(r)

Next ==
    \/ \E r \in Runs, u \in Users : StartBacktest(r, u) \/ StartBacktestError(r, u)
    \/ \E r \in Runs : DeleteBacktest(r) \/ TaskStep(r)
    \/ \E h \in Sockets, u \in Users, r \in Runs : SocketOpen(h, u, r)
    \/ \E h \in Sockets :
          \/ SocketRefuse(h)
          \/ SocketListen(h)
          \/ SocketCancelRead(h)
          \/ SocketCommit(h)
          \/ SocketCommitError(h)
          \/ SocketAnswer(h)
          \/ SocketLeave(h)
    \/ ApiCrash

Spec == Init /\ [][Next]_vars

\* A task that was added goes on, and so does a handler between two awaits of
\* the database and its answer.  Nothing is assumed of clients, deletions and crashes.
Fairness ==
    /\ \A r \in Runs : WF_vars(TaskStep(r))
    /\ \A h \in Sockets : WF_vars(SocketRefuse(h) \/ SocketListen(h)
                                 \/ SocketCommit(h) \/ SocketCommitError(h) \/ SocketAnswer(h))

FairSpec == Spec /\ Fairness

-----------------------------------------------------------------------------
(* Properties.                                                             *)

TypeOK ==
    /\ ManagerTypeOK
    /\ status \in [Runs -> RunStatuses]
    /\ owner \in [Runs -> Users \union {NoUser}]
    /\ task  \in [Runs -> TaskStates]
    /\ sock  \in [Sockets -> SockStates]
    /\ who   \in [Sockets -> Users \union {NoUser}]
    /\ watch \in [Sockets -> Runs \union {NoRun}]
    /\ told  \in [Sockets -> BOOLEAN]

\* Closing one socket never unregisters another, and only a refused socket is
\* left behind: a socket whose handler runs is in active_connections, under its
\* own user and no other, and a socket whose handler ended in its finally block,
\* or with the process, is not.
Registered ==
    /\ \A h \in Sockets : sock[h] = "accepted" \/ InTry(h) => h \in active[who[h]]
    /\ \A u \in Users : \A h \in active[u] : who[h] = u /\ sock[h] # "closed"
    /\ \A r \in Runs : subscriptions[r] # NoUser =>
          \E h \in Sockets : watch[h] = r /\ who[h] = subscriptions[r] /\ InTry(h)

\* The task has ended and no handler is about to write.
Settled(r) ==
    /\ status[r] \in {"PENDING", "DONE", "FAILED", "CANCELLED"}
    /\ task[r] = "ended"
    /\ \A h \in Sockets : ~(sock[h] = "stop" /\ watch[h] = r)

\* A settled run keeps its status until it is deleted, whatever clients and
\* crashes do, and neither the task nor a handler brings a deleted run back.
SettledStays ==
    [][\A r \in Runs :
          /\ Settled(r) => status'[r] = "DELETED" \/ (Settled(r)' /\ status'[r] = status[r])
          /\ status[r] = "DELETED" => status'[r] = "DELETED"]_vars

\* A run does not stay PENDING or RUNNING, unless its task ended without a word
\* (an API crash, or an error in the except block).
RunsEnd ==
    \A r \in Runs :
        status[r] \in {"PENDING", "RUNNING"} ~>
            (status[r] \notin {"PENDING", "RUNNING"} \/ task[r] = "ended")

\* What the code says and does not keep (a run that expects a violation).

\* "Cancel the backtest (update DB status to CANCELLED)", answered with
\* "Backtest canceled": a run cancelled so does not become DONE.
CancelSticks ==
    [][\A h \in Sockets :
          (told[h] /\ status[watch[h]] = "CANCELLED") => status'[watch[h]] # "DONE"]_vars

=============================================================================
