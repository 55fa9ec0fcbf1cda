-------------------------- MODULE Backtests_proofs ---------------------------
(***************************************************************************)
(* Proofs about Backtests, for any numbers of runs, sockets and users: the *)
(* connection manager knows the open sockets and no other, and a settled   *)
(* run keeps its status.                                                   *)
(***************************************************************************)
EXTENDS Backtests, TLAPS

\* A socket that was opened has a user and a run, and only an open socket is
\* registered.
SocketInv ==
    /\ \A h \in Sockets : sock[h] # "idle" => who[h] \in Users /\ watch[h] \in Runs
    /\ \A u \in Users : \A h \in active[u] : sock[h] # "idle"

IInv == TypeOK /\ SocketInv /\ Registered

\* The steps that leave sockets and manager alone.
RunStep ==
    \/ \E r \in Runs, u \in Users : StartBacktest(r, u) \/ StartBacktestError(r, u)
    \/ \E r \in Runs : DeleteBacktest(r) \/ TaskStep(r)

-----------------------------------------------------------------------------
\* The invariant holds when nothing has happened.
LEMMA InitInv == Init => IInv
  BY TopicsAssumption
  DEF Init, ManagerInit, IInv, TypeOK, ManagerTypeOK, RunStatuses, TaskStates, SockStates,
      SocketInv, Registered, InTry

\* The endpoints and the background task write the row of a run and nothing of
\* the sockets' (TaskWrite is UPDATE ... WHERE id).
LEMMA RunStepTypes ==
    ASSUME IInv, RunStep
    PROVE  /\ UNCHANGED <<managerVars, sockVars>>
           /\ status' \in [Runs -> RunStatuses]
           /\ owner' \in [Runs -> Users \union {NoUser}]
           /\ task' \in [Runs -> TaskStates]
<1>. USE DEF IInv, TypeOK, RunStatuses, TaskStates
<1>1. ASSUME NEW r \in Runs, NEW u \in Users, StartBacktest(r, u) \/ StartBacktestError(r, u)
      PROVE  /\ UNCHANGED <<managerVars, sockVars>>
             /\ status' \in [Runs -> RunStatuses]
             /\ owner' \in [Runs -> Users \union {NoUser}]
             /\ task' \in [Runs -> TaskStates]
  BY <1>1 DEF StartBacktest, StartBacktestError
<1>2. ASSUME NEW r \in Runs, DeleteBacktest(r)
      PROVE  /\ UNCHANGED <<managerVars, sockVars, owner, task>>
             /\ status' \in [Runs -> RunStatuses]
  BY <1>2 DEF DeleteBacktest
<1>3. ASSUME NEW r \in Runs, TaskStep(r)
      PROVE  /\ UNCHANGED <<managerVars, sockVars, owner>>
             /\ status' \in [Runs -> RunStatuses]
             /\ task' \in [Runs -> TaskStates]
  <2>1. CASE TaskLoad(r) \/ TaskCallBacktester(r) \/ TaskError(r) \/ TaskFailedError(r)
    BY <2>1 DEF TaskLoad, TaskCallBacktester, TaskError, TaskFailedError, TaskGoto
  <2>2. CASE TaskRunning(r) \/ TaskDone(r) \/ TaskDoneLost(r) \/ TaskFailed(r)
    BY <2>2 DEF TaskRunning, TaskDone, TaskDoneLost, TaskFailed, TaskWrite, TaskGoto
  <2>. QED
    BY <1>3, <2>1, <2>2 DEF TaskStep
<1>. QED
  BY <1>1, <1>2, <1>3 DEF RunStep

\* A handler's finally block unregisters its own socket only, and the topic of
\* its own run only.
LEMMA CleanupInv ==
    ASSUME IInv, NEW h \in Sockets, InTry(h),
           SocketCleanup(h), told' \in [Sockets -> BOOLEAN],
           status' \in [Runs -> RunStatuses], UNCHANGED <<owner, task>>
    PROVE  IInv'
<1>. USE DEF IInv, InTry, SocketCleanup, SockGoto, unsubscribe_from_job, disconnect
<1>1. who[h] \in Users /\ watch[h] \in Runs
  BY DEF SocketInv
<1>2. TypeOK'
  BY <1>1, TopicsAssumption DEF TypeOK, ManagerTypeOK, SockStates
<1>3. \A g \in Sockets : sock'[g] = IF g = h THEN "closed" ELSE sock[g]
  BY DEF TypeOK
<1>4. \A u \in Users : active'[u] = active[u] \ {h}
  <2>. SUFFICES ASSUME NEW u \in Users PROVE active'[u] = active[u] \ {h}
    OBVIOUS
  <2>1. u # who[h] => h \notin active[u]
    BY DEF Registered
  <2>. QED
    BY <1>1, <2>1 DEF TypeOK, ManagerTypeOK
<1>5. SocketInv'
  BY <1>1, <1>3, <1>4 DEF SocketInv
<1>6. Registered'
  <2>1. \A g \in Sockets :
           sock'[g] = "accepted" \/ InTry(g)' => g \in active'[who'[g]]
    BY <1>3, <1>4 DEF Registered, SocketInv
  <2>2. \A u \in Users : \A g \in active'[u] : who'[g] = u /\ sock'[g] # "closed"
    BY <1>3, <1>4 DEF Registered, TypeOK, ManagerTypeOK
  <2>3. ASSUME NEW r \in Runs, subscriptions'[r] # NoUser
        PROVE  \E g \in Sockets :
                  watch'[g] = r /\ who'[g] = subscriptions'[r] /\ InTry(g)'
    <3>1. r # watch[h] /\ subscriptions'[r] = subscriptions[r]
      BY <1>1, <2>3, TopicsAssumption DEF TypeOK, ManagerTypeOK
    <3>2. PICK g \in Sockets :
             watch[g] = r /\ who[g] = subscriptions[r] /\ InTry(g)
      BY <2>3, <3>1 DEF Registered
    <3>. QED
      BY <1>3, <3>1, <3>2
  <2>. QED
    BY <2>1, <2>2, <2>3 DEF Registered
<1>. QED
  BY <1>2, <1>5, <1>6

\* A step of a handler preserves the invariant.
LEMMA SocketStepInv ==
    ASSUME IInv, NEW h \in Sockets,
           \/ \E u \in Users, r \in Runs : SocketOpen(h, u, r)
           \/ SocketRefuse(h)
           \/ SocketListen(h)
           \/ SocketCancelRead(h)
           \/ SocketCommit(h)
           \/ SocketCommitError(h)
           \/ SocketAnswer(h)
           \/ SocketLeave(h)
    PROVE  IInv'
<1>. USE DEF InTry
<1>1. ASSUME NEW u \in Users, NEW r \in Runs, SocketOpen(h, u, r)
      PROVE  IInv'
  <2>. USE <1>1 DEF IInv, SocketOpen, SockGoto, connect, runVars
  <2>1. TypeOK'
    BY DEF TypeOK, ManagerTypeOK, SockStates
  <2>2. /\ \A g \in Sockets : sock'[g] = IF g = h THEN "accepted" ELSE sock[g]
        /\ \A g \in Sockets : who'[g] = IF g = h THEN u ELSE who[g]
        /\ \A g \in Sockets : watch'[g] = IF g = h THEN r ELSE watch[g]
        /\ \A v \in Users : active'[v] = IF v = u THEN active[v] \union {h} ELSE active[v]
    BY DEF TypeOK, ManagerTypeOK
  <2>3. SocketInv'
    BY <2>2 DEF SocketInv, TypeOK, ManagerTypeOK
  <2>4. \A v \in Users : h \notin active[v]
    BY DEF SocketInv
  <2>5. \A g \in Sockets :
           sock'[g] = "accepted" \/ InTry(g)' => g \in active'[who'[g]]
    <3>. SUFFICES ASSUME NEW g \in Sockets,
                         sock'[g] = "accepted" \/ InTry(g)'
                  PROVE  g \in active'[who'[g]]
      OBVIOUS
    <3>1. CASE g = h
      BY <2>2, <3>1
    <3>2. CASE g # h
      <4>1. who[g] \in Users /\ who'[g] = who[g] /\ g \in active[who[g]]
        BY <2>2, <3>2 DEF Registered, SocketInv
      <4>. QED
        BY <2>2, <4>1
    <3>. QED
      BY <3>1, <3>2
  <2>6. \A v \in Users : \A g \in active'[v] : who'[g] = v /\ sock'[g] # "closed"
    BY <2>2, <2>4 DEF Registered, TypeOK, ManagerTypeOK
  <2>7. \A q \in Runs : subscriptions'[q] # NoUser =>
           \E g \in Sockets :
              watch'[g] = q /\ who'[g] = subscriptions'[q] /\ InTry(g)'
    BY <2>2 DEF Registered
  <2>. QED
    BY <2>1, <2>3, <2>5, <2>6, <2>7 DEF Registered
<1>2. CASE SocketRefuse(h)
  <2>. USE <1>2 DEF IInv, SocketRefuse, SockGoto, managerVars, runVars
  <2>1. TypeOK'
    BY DEF TypeOK, ManagerTypeOK, SockStates
  <2>2. \A g \in Sockets : sock'[g] = IF g = h THEN "refused" ELSE sock[g]
    BY DEF TypeOK
  <2>3. SocketInv'
    BY <2>2 DEF SocketInv, TypeOK, ManagerTypeOK
  <2>4. Registered'
    BY <2>2 DEF Registered, TypeOK, ManagerTypeOK
  <2>. QED
    BY <2>1, <2>3, <2>4
<1>3. CASE SocketListen(h)
  <2>. USE <1>3 DEF IInv, SocketListen, SockGoto, subscribe_to_job, runVars
  <2>1. who[h] \in Users /\ watch[h] \in Runs
    BY DEF SocketInv
  <2>2. TypeOK'
    BY <2>1 DEF TypeOK, ManagerTypeOK, SockStates
  <2>3. /\ \A g \in Sockets : sock'[g] = IF g = h THEN "listening" ELSE sock[g]
        /\ \A r \in Runs : subscriptions'[r] = IF r = watch[h] THEN who[h] ELSE subscriptions[r]
    BY TopicsAssumption DEF TypeOK, ManagerTypeOK
  <2>4. SocketInv'
    BY <2>3 DEF SocketInv, TypeOK, ManagerTypeOK
  <2>5. Registered'
    BY <2>3 DEF Registered, TypeOK, ManagerTypeOK
  <2>. QED
    BY <2>2, <2>4, <2>5
<1>4. CASE SocketCancelRead(h)
  <2>. USE <1>4 DEF IInv, SocketCancelRead, SockGoto, managerVars, runVars
  <2>1. TypeOK'
    BY DEF TypeOK, ManagerTypeOK, SockStates
  <2>2. \A g \in Sockets : sock'[g] \in IF g = h THEN {"stop", "answer"} ELSE {sock[g]}
    BY DEF TypeOK
  <2>3. SocketInv'
    BY <2>2 DEF SocketInv, TypeOK, ManagerTypeOK
  <2>4. Registered'
    BY <2>2 DEF Registered, TypeOK, ManagerTypeOK
  <2>. QED
    BY <2>1, <2>3, <2>4
<1>5. CASE SocketCommit(h)
  <2>. USE <1>5 DEF IInv, SocketCommit, SockGoto, managerVars
  <2>1. status' \in [Runs -> RunStatuses]
    BY DEF TypeOK, RunStatuses
  <2>2. TypeOK'
    BY <2>1 DEF TypeOK, ManagerTypeOK, SockStates
  <2>3. \A g \in Sockets : sock'[g] = IF g = h THEN "answer" ELSE sock[g]
    BY DEF TypeOK
  <2>4. SocketInv'
    BY <2>3 DEF SocketInv, TypeOK, ManagerTypeOK
  <2>5. Registered'
    BY <2>3 DEF Registered, TypeOK, ManagerTypeOK
  <2>. QED
    BY <2>2, <2>4, <2>5
<1>6. CASE SocketCommitError(h)
  <2>1. InTry(h) /\ SocketCleanup(h) /\ UNCHANGED <<owner, task, told>>
    BY <1>6 DEF SocketCommitError
  <2>2. told' \in [Sockets -> BOOLEAN]
    BY <2>1 DEF IInv, TypeOK
  <2>3. status' \in [Runs -> RunStatuses]
    BY <1>6 DEF SocketCommitError, IInv, TypeOK, RunStatuses
  <2>. QED
    BY <2>1, <2>2, <2>3, CleanupInv
<1>7. CASE SocketAnswer(h)
  <2>1. InTry(h) /\ SocketCleanup(h) /\ UNCHANGED runVars
    BY <1>7 DEF SocketAnswer
  <2>2. told' \in [Sockets -> BOOLEAN]
    BY <1>7 DEF SocketAnswer, IInv, TypeOK
  <2>. QED
    BY <2>1, <2>2, CleanupInv DEF runVars, IInv, TypeOK
<1>8. CASE SocketLeave(h)
  BY <1>8, CleanupInv DEF SocketLeave, runVars, IInv, TypeOK
<1>. QED
  BY <1>1, <1>2, <1>3, <1>4, <1>5, <1>6, <1>7, <1>8

\* The death of the API process empties the manager and closes every socket.
LEMMA CrashInv ==
    ASSUME IInv, ApiCrash
    PROVE  IInv'
<1>. USE DEF IInv, ApiCrash, InTry
<1>1. TypeOK'
  BY DEF TypeOK, ManagerTypeOK, TaskStates, SockStates
<1>2. SocketInv'
  BY DEF SocketInv
<1>3. Registered'
  BY TopicsAssumption DEF Registered
<1>. QED
  BY <1>1, <1>2, <1>3

\* Every step preserves the invariant.
LEMMA NextInv == IInv /\ [Next]_vars => IInv'
<1>. SUFFICES ASSUME IInv, [Next]_vars
              PROVE  IInv'
  OBVIOUS
<1>1. CASE RunStep
  <2>1. /\ UNCHANGED <<managerVars, sockVars>>
        /\ status' \in [Runs -> RunStatuses]
        /\ owner' \in [Runs -> Users \union {NoUser}]
        /\ task' \in [Runs -> TaskStates]
    BY <1>1, RunStepTypes
  <2>. QED
    BY <2>1 DEF IInv, TypeOK, ManagerTypeOK, SocketInv, Registered, InTry, managerVars, sockVars
<1>2. CASE ApiCrash
  BY <1>2, CrashInv
<1>3. CASE UNCHANGED vars
  BY <1>3 DEF vars, runVars, managerVars, sockVars, IInv, TypeOK, ManagerTypeOK, SocketInv, Registered, InTry
<1>. QED
  BY <1>1, <1>2, <1>3, SocketStepInv DEF Next, RunStep

\* The inductive invariant of runs and sockets.
THEOREM Invariance == Spec => []IInv
  BY InitInv, NextInv, PTL DEF Spec

\* Type correctness.
THEOREM TypeCorrect == Spec => []TypeOK
<1>1. IInv => TypeOK
  BY DEF IInv
<1>. QED
  BY <1>1, Invariance, PTL

\* active_connections and job_subscriptions agree with the handlers that run,
\* whichever of them leave, are refused, cancel or die.
THEOREM SocketsRegistered == Spec => []Registered
<1>1. IInv => Registered
  BY DEF IInv
<1>. QED
  BY <1>1, Invariance, PTL

-----------------------------------------------------------------------------
\* What a step may do to a settled and to a deleted run.
SettledKept(r) ==
    /\ Settled(r) => status'[r] = "DELETED" \/ (Settled(r)' /\ status'[r] = status[r])
    /\ status[r] = "DELETED" => status'[r] = "DELETED"

\* A task touches its own run, and neither a deleted run nor one whose task has
\* ended.
LEMMA RunStepSettled ==
    ASSUME IInv, RunStep, NEW q \in Runs
    PROVE  SettledKept(q)
<1>. USE DEF SettledKept, Settled, IInv, TypeOK
<1>1. ASSUME NEW r \in Runs, NEW u \in Users, StartBacktest(r, u) \/ StartBacktestError(r, u)
      PROVE  SettledKept(q)
  BY <1>1 DEF StartBacktest, StartBacktestError, sockVars
<1>2. ASSUME NEW r \in Runs, DeleteBacktest(r)
      PROVE  SettledKept(q)
  BY <1>2 DEF DeleteBacktest, sockVars
<1>3. ASSUME NEW r \in Runs, TaskStep(r)
      PROVE  SettledKept(q)
  <2>1. task[r] # "ended" /\ UNCHANGED <<sock, watch>>
    BY <1>3 DEF TaskStep, TaskLoad, TaskRunning, TaskCallBacktester, TaskDone, TaskDoneLost,
       TaskError, TaskFailed, TaskFailedError, TaskWrite, TaskGoto, sockVars
  <2>2. q # r => task'[q] = task[q] /\ status'[q] = status[q]
    BY <1>3 DEF TaskStep, TaskLoad, TaskRunning, TaskCallBacktester, TaskDone, TaskDoneLost,
       TaskError, TaskFailed, TaskFailedError, TaskWrite, TaskGoto
  <2>3. status[r] = "DELETED" => status'[r] = "DELETED"
    BY <1>3 DEF TaskStep, TaskLoad, TaskRunning, TaskCallBacktester, TaskDone, TaskDoneLost,
       TaskError, TaskFailed, TaskFailedError, TaskWrite, TaskGoto, Exists
  <2>. QED
    BY <2>1, <2>2, <2>3
<1>. QED
  BY <1>1, <1>2, <1>3 DEF RunStep

\* A handler writes a run only after it saw RUNNING, and no deleted run.
LEMMA SocketStepSettled ==
    ASSUME IInv, NEW h \in Sockets, NEW q \in Runs,
           \/ \E u \in Users, r \in Runs : SocketOpen(h, u, r)
           \/ SocketRefuse(h)
           \/ SocketListen(h)
           \/ SocketCancelRead(h)
           \/ SocketCommit(h)
           \/ SocketCommitError(h)
           \/ SocketAnswer(h)
           \/ SocketLeave(h)
    PROVE  SettledKept(q)
<1>. USE DEF SettledKept, Settled, IInv, TypeOK, SockGoto, SocketCleanup
<1>1. CASE \E u \in Users, r \in Runs : SocketOpen(h, u, r)
  BY <1>1 DEF SocketOpen, runVars
<1>2. CASE SocketRefuse(h) \/ SocketListen(h) \/ SocketCancelRead(h)
  BY <1>2 DEF SocketRefuse, SocketListen, SocketCancelRead, runVars
<1>3. CASE SocketLeave(h) \/ SocketAnswer(h)
  BY <1>3 DEF SocketLeave, SocketAnswer, runVars
<1>4. CASE SocketCommit(h) \/ SocketCommitError(h)
  <2>1. /\ UNCHANGED <<task, watch>> /\ sock[h] = "stop"
        /\ sock' = [sock EXCEPT ![h] = "answer"] \/ sock' = [sock EXCEPT ![h] = "closed"]
    BY <1>4 DEF SocketCommit, SocketCommitError
  <2>2. CASE watch[h] = q /\ Exists(q)
    <3>1. ~Settled(q) /\ status[q] # "DELETED"
      BY <2>1, <2>2 DEF Exists
    <3>. QED
      BY <3>1
  <2>3. CASE ~(watch[h] = q /\ Exists(q))
    <3>1. status'[q] = status[q]
      BY <1>4, <2>3 DEF SocketCommit, SocketCommitError
    <3>. QED
      BY <2>1, <3>1
  <2>. QED
    BY <2>2, <2>3
<1>. QED
  BY <1>1, <1>2, <1>3, <1>4

\* A settled run keeps its status until it is deleted, and a deleted run is not
\* brought back, whatever other runs, clients and crashes do.
THEOREM SettledForEver == Spec => SettledStays
<1>1. IInv /\ [Next]_vars => [\A r \in Runs : SettledKept(r)]_vars
  <2>. SUFFICES ASSUME IInv, Next, NEW q \in Runs
                PROVE  SettledKept(q)
    OBVIOUS
  <2>1. CASE RunStep
    BY <2>1, RunStepSettled
  <2>2. CASE ApiCrash
    BY <2>2 DEF ApiCrash, SettledKept, Settled, IInv, TypeOK
  <2>. QED
    BY <2>1, <2>2, SocketStepSettled DEF Next, RunStep
<1>2. [\A r \in Runs : SettledKept(r)]_vars
        => [\A r \in Runs :
               /\ Settled(r) => status'[r] = "DELETED" \/ (Settled(r)' /\ status'[r] = status[r])
               /\ status[r] = "DELETED" => status'[r] = "DELETED"]_vars
  BY DEF SettledKept
<1>. QED
  BY <1>1, <1>2, Invariance, PTL DEF Spec, SettledStays

-----------------------------------------------------------------------------
(* The life of a run.                                                      *)

\* From what to what the status of a run may change.
Moves ==
    {<<"ABSENT", "PENDING">>, <<"PENDING", "RUNNING">>, <<"RUNNING", "DONE">>,
     <<"CANCELLED", "DONE">>}
    \union {<<s, "FAILED">> : s \in {"PENDING", "RUNNING", "DONE", "CANCELLED"}}
    \union {<<s, "CANCELLED">> : s \in {"RUNNING", "DONE", "FAILED"}}
    \union {<<s, "DELETED">> : s \in RunStatuses \ {"ABSENT", "DELETED"}}

\* A run is cancelled by a handler of its owner that has seen it RUNNING.
Moved(r) ==
    status'[r] # status[r] =>
        /\ <<status[r], status'[r]>> \in Moves
        /\ status'[r] = "CANCELLED" =>
              \E h \in Sockets : sock[h] = "stop" /\ watch[h] = r /\ who[h] = owner[r]

\* A task that is to start a run has it PENDING, one that has started it has it
\* as it left it or cancelled; both may find it deleted.
RunLife(r) ==
    /\ status[r] = "ABSENT" <=> task[r] = "none"
    /\ task[r] \in {"queued", "loaded"} => status[r] \in {"PENDING", "DELETED"}
    /\ task[r] \in {"running", "called"} => status[r] \in {"RUNNING", "CANCELLED", "DELETED"}

\* A handler past its checks is of the owner of the run, and one that has seen
\* it RUNNING will not see it PENDING again.
SockLife(h) ==
    /\ InTry(h) =>
          status[watch[h]] # "ABSENT" /\ owner[watch[h]] = who[h]
    /\ sock[h] = "stop" => status[watch[h]] # "PENDING"

LifeInv == (\A r \in Runs : RunLife(r)) /\ (\A h \in Sockets : SockLife(h))

\* What the endpoints and the task do to a run.
LEMMA RunStepLife ==
    ASSUME IInv, LifeInv, RunStep
    PROVE  /\ \A q \in Runs : RunLife(q)' /\ Moved(q)
           /\ \A q \in Runs : status[q] # "ABSENT" => owner'[q] = owner[q]
           /\ UNCHANGED sockVars
<1>. DEFINE Good(q) == RunLife(q)' /\ Moved(q) /\ (status[q] # "ABSENT" => owner'[q] = owner[q])
<1>. USE DEF IInv, TypeOK, RunStatuses, TaskStates, LifeInv
<1>0. UNCHANGED sockVars
  BY RunStepTypes
<1>1. ASSUME NEW r \in Runs, NEW u \in Users, StartBacktest(r, u) \/ StartBacktestError(r, u),
             NEW q \in Runs
      PROVE  Good(q)
  BY <1>1 DEF StartBacktest, StartBacktestError, RunLife, Moved, Moves
<1>2. ASSUME NEW r \in Runs, DeleteBacktest(r), NEW q \in Runs
      PROVE  Good(q)
  BY <1>2 DEF DeleteBacktest, Exists, RunLife, Moved, Moves
<1>3. ASSUME NEW r \in Runs, TaskStep(r), NEW q \in Runs
      PROVE  Good(q)
  <2>1. owner' = owner
    BY <1>3 DEF TaskStep, TaskLoad, TaskRunning, TaskCallBacktester, TaskDone, TaskDoneLost,
       TaskError, TaskFailed, TaskFailedError, TaskWrite, TaskGoto
  <2>2. CASE q # r
    <3>1. status'[q] = status[q] /\ task'[q] = task[q]
      BY <1>3, <2>2 DEF TaskStep, TaskLoad, TaskRunning, TaskCallBacktester, TaskDone,
         TaskDoneLost, TaskError, TaskFailed, TaskFailedError, TaskWrite, TaskGoto
    <3>2. RunLife(q)
      OBVIOUS
    <3>. QED
      BY <2>1, <3>1, <3>2 DEF RunLife, Moved
  <2>3. CASE q = r
    <3>1. CASE TaskLoad(r) \/ TaskCallBacktester(r) \/ TaskError(r) \/ TaskFailedError(r)
      BY <2>1, <2>3, <3>1
         DEF TaskLoad, TaskCallBacktester, TaskError, TaskFailedError, TaskGoto, Exists, RunLife, Moved
    <3>2. CASE TaskRunning(r)
      BY <2>1, <2>3, <3>2 DEF TaskRunning, TaskWrite, TaskGoto, Exists, RunLife, Moved, Moves
    <3>3. CASE TaskDone(r) \/ TaskDoneLost(r)
      BY <2>1, <2>3, <3>3 DEF TaskDone, TaskDoneLost, TaskWrite, TaskGoto, Exists, RunLife, Moved, Moves
    <3>4. CASE TaskFailed(r)
      BY <2>1, <2>3, <3>4 DEF TaskFailed, TaskWrite, TaskGoto, Exists, RunLife, Moved, Moves
    <3>. QED
      BY <1>3, <3>1, <3>2, <3>3, <3>4 DEF TaskStep
  <2>. QED
    BY <2>2, <2>3
<1>4. \A q \in Runs : Good(q)
  BY <1>1, <1>2, <1>3 DEF RunStep
<1>. HIDE DEF IInv, TypeOK, LifeInv
<1>. QED
  BY <1>0, <1>4

\* What a handler does to a run, and to itself.
LEMMA SocketStepLife ==
    ASSUME IInv, LifeInv, NEW h \in Sockets,
           \/ \E u \in Users, r \in Runs : SocketOpen(h, u, r)
           \/ SocketRefuse(h)
           \/ SocketListen(h)
           \/ SocketCancelRead(h)
           \/ SocketCommit(h)
           \/ SocketCommitError(h)
           \/ SocketAnswer(h)
           \/ SocketLeave(h)
    PROVE  LifeInv' /\ \A q \in Runs : Moved(q)
<1>. USE DEF IInv, TypeOK, InTry, SockGoto, SocketCleanup
<1>1. sock[h] # "idle" => who[h] \in Users /\ watch[h] \in Runs
  BY DEF SocketInv
<1>2. ASSUME NEW u \in Users, NEW r \in Runs, SocketOpen(h, u, r)
      PROVE  LifeInv' /\ \A q \in Runs : Moved(q)
  BY <1>2 DEF SocketOpen, runVars, LifeInv, RunLife, SockLife, Moved
<1>3. CASE SocketRefuse(h)
  BY <1>3 DEF SocketRefuse, runVars, LifeInv, RunLife, SockLife, Moved
<1>4. CASE SocketListen(h)
  BY <1>4 DEF SocketListen, runVars, Exists, LifeInv, RunLife, SockLife, Moved
<1>5. CASE SocketCancelRead(h)
  BY <1>5 DEF SocketCancelRead, runVars, LifeInv, RunLife, SockLife, Moved
<1>6. CASE SocketLeave(h) \/ SocketAnswer(h)
  BY <1>6 DEF SocketLeave, SocketAnswer, runVars, LifeInv, RunLife, SockLife, Moved
<1>7. CASE SocketCommit(h) \/ SocketCommitError(h)
  <2>1. /\ UNCHANGED <<owner, task, who, watch>> /\ sock[h] = "stop"
        /\ sock' = [sock EXCEPT ![h] = "answer"] \/ sock' = [sock EXCEPT ![h] = "closed"]
        /\ watch[h] \in Runs
    BY <1>1, <1>7 DEF SocketCommit, SocketCommitError
  <2>2. CASE Exists(watch[h])
    <3>. DEFINE r == watch[h]
    <3>1. status' = [status EXCEPT ![r] = "CANCELLED"]
      BY <1>7, <2>2 DEF SocketCommit, SocketCommitError
    <3>2. sock[h] = "stop"
      BY <2>1
    <3>3. status[r] \notin {"ABSENT", "DELETED", "PENDING"} /\ who[h] = owner[r]
      BY <2>1, <2>2 DEF Exists, LifeInv, SockLife
    <3>. HIDE DEF r
    <3>4. \A q \in Runs : RunLife(q)'
      <4>1. \A q \in Runs : RunLife(q) /\ task'[q] = task[q]
        BY <2>1 DEF LifeInv
      <4>2. r \in Runs
        BY <2>1 DEF r
      <4>3. \A q \in Runs : status'[q] = IF q = r THEN "CANCELLED" ELSE status[q]
        BY <3>1, <4>2
      <4>. QED
        BY <3>3, <4>1, <4>3 DEF RunLife
    <3>5. \A g \in Sockets : SockLife(g)'
      BY <2>1, <3>1, <3>3 DEF LifeInv, SockLife, r
    <3>6. \A q \in Runs : Moved(q)
      <4>1. status[r] \in {"RUNNING", "DONE", "FAILED", "CANCELLED"}
        BY <2>1, <3>3 DEF r, RunStatuses
      <4>2. <<status[r], "CANCELLED">> \in Moves \/ status[r] = "CANCELLED"
        BY <4>1 DEF Moves
      <4>3. \A q \in Runs : q # r => status'[q] = status[q]
        BY <3>1
      <4>4. status'[r] = "CANCELLED"
        BY <2>1, <3>1 DEF r
      <4>. QED
        BY <3>2, <3>3, <4>2, <4>3, <4>4 DEF Moved, r
    <3>. QED
      BY <3>4, <3>5, <3>6 DEF LifeInv
  <2>3. CASE ~Exists(watch[h])
    <3>1. status' = status
      BY <1>7, <2>3 DEF SocketCommit, SocketCommitError
    <3>. QED
      BY <2>1, <3>1 DEF LifeInv, RunLife, SockLife, Moved
  <2>. QED
    BY <2>2, <2>3
<1>. QED
  BY <1>2, <1>3, <1>4, <1>5, <1>6, <1>7

\* Every step keeps the lives, and moves a run as it may.
LEMMA NextLife ==
    ASSUME IInv, LifeInv, [Next]_vars
    PROVE  LifeInv' /\ \A q \in Runs : Moved(q)
<1>1. CASE RunStep
  <2>1. /\ \A q \in Runs : RunLife(q)' /\ Moved(q)
        /\ \A q \in Runs : status[q] # "ABSENT" => owner'[q] = owner[q]
        /\ UNCHANGED sockVars
    BY <1>1, RunStepLife
  <2>2. ASSUME NEW h \in Sockets
        PROVE  SockLife(h)'
    <3>1. SockLife(h) /\ (sock[h] # "idle" => watch[h] \in Runs)
      BY DEF LifeInv, IInv, SocketInv
    <3>2. sock'[h] = sock[h] /\ who'[h] = who[h] /\ watch'[h] = watch[h]
      BY <2>1 DEF sockVars
    <3>3. \A q \in Runs : status[q] # "ABSENT" =>
              /\ status'[q] # "ABSENT" /\ owner'[q] = owner[q]
              /\ status[q] # "PENDING" => status'[q] # "PENDING"
      BY <2>1 DEF Moved, Moves
    <3>. QED
      BY <3>1, <3>2, <3>3 DEF SockLife, InTry
  <2>. QED
    BY <2>1, <2>2 DEF LifeInv
<1>2. CASE ApiCrash
  BY <1>2 DEF ApiCrash, LifeInv, RunLife, SockLife, Moved, InTry, IInv, TypeOK
<1>3. CASE UNCHANGED vars
  BY <1>3 DEF vars, runVars, sockVars, LifeInv, RunLife, SockLife, InTry, Moved
<1>. QED
  BY <1>1, <1>2, <1>3, SocketStepLife DEF Next, RunStep

\* A run is executed once: it never becomes PENDING or RUNNING again, it is DONE
\* or CANCELLED only if it was started, and what cancels it is a handler of its
\* owner that saw it RUNNING.  Besides, execute_backtest and the handler overwrite
\* each other's verdicts, in both directions.
THEOREM RunsMove == Spec => [][\A r \in Runs : Moved(r)]_vars
<1>1. Init => LifeInv
  BY DEF Init, LifeInv, RunLife, SockLife, InTry
<1>2. IInv /\ LifeInv /\ [Next]_vars => LifeInv'
  BY NextLife
<1>3. IInv /\ LifeInv /\ [Next]_vars => [\A r \in Runs : Moved(r)]_vars
  BY NextLife
<1>. QED
  BY <1>1, <1>2, <1>3, Invariance, PTL DEF Spec

=============================================================================
