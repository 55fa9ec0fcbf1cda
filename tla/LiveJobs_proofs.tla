--------------------------- MODULE LiveJobs_proofs ---------------------------
(***************************************************************************)
(* Proofs about LiveJobs, for any numbers of requests, signals, accounts   *)
(* and workers.                                                            *)
(***************************************************************************)
EXTENDS LiveJobs, TLAPS

Taken == {"CLAIMED", "SUCCESS", "FAILED"}

\* Row j exists, committed or not.
Present(j) == status[j] # "ABSENT" \/ route[j] = "inserted"

\* A request that has not inserted its row has none, and a row has its pair.
RowInv ==
    \A j \in Jobs :
        /\ route[j] \in {"idle", "checked", "inserted", "conflict", "notfound"} => status[j] = "ABSENT"
        /\ (Present(j) \/ route[j] = "checked") => pair[j] \in Pairs

\* uq_job_signal_account, open transactions included.
UniqueInv ==
    \A i, j \in Jobs : (Present(i) /\ Present(j) /\ pair[i] = pair[j]) => i = j

\* A cancel transaction holds a PENDING row that no other transaction holds.
CancelInv ==
    \A c \in Cancels :
        /\ cancel[c] \in {"flushed", "done", "refused"} => target[c] \in Jobs
        /\ cancel[c] = "flushed" =>
              /\ status[target[c]] = "PENDING"
              /\ \A w \in Workers : holds[w] # target[c]
              /\ \A d \in Cancels : (cancel[d] = "flushed" /\ target[d] = target[c]) => d = c
        /\ cancel[c] = "done" => status[target[c]] = "CANCELLED"
        /\ cancel[c] = "refused" => status[target[c]] \notin {"ABSENT", "PENDING"}

\* What the row of a worker's job says, by where the worker is.
HoldInv ==
    \A w \in Workers :
        /\ holds[w] = NoJob <=> worker[w] = "idle"
        /\ worker[w] = "claiming" => status[holds[w]] = "PENDING"
        /\ worker[w] \in {"validate", "execute", "waiting", "finish"} => status[holds[w]] = "CLAIMED"
        /\ worker[w] = "failing" => status[holds[w]] \in {"CLAIMED", "SUCCESS"}
        /\ worker[w] = "finish" => fills[holds[w]] = 1

\* An order at the bridge is the only one of its job, which is claimed, past
\* the sending and not traded yet.
OrderInv ==
    \A w \in Workers, j \in Jobs :
        <<w, j>> \in orders =>
            /\ status[j] \in Taken
            /\ fills[j] = 0
            /\ \A v \in Workers : <<v, j>> \in orders => v = w
            /\ \A v \in Workers : holds[v] = j => worker[v] \in {"waiting", "failing"}

\* A traded job is claimed and past the sending.
FillInv ==
    \A j \in Jobs :
        /\ fills[j] <= 1
        /\ fills[j] > 0 =>
              /\ status[j] \in Taken
              /\ \A v \in Workers : holds[v] = j => worker[v] \in {"waiting", "finish", "failing"}
        /\ status[j] = "SUCCESS" => fills[j] = 1

\* An ok on its way to a worker reports a trade.
ReplyInv ==
    \A w \in Workers, j \in Jobs : <<w, j, "ok">> \in replies => fills[j] = 1

IInv ==
    /\ TypeOK
    /\ RowInv
    /\ UniqueInv
    /\ CancelInv
    /\ HoldInv
    /\ OneOwner
    /\ OrderInv
    /\ FillInv
    /\ ReplyInv

\* A step of an enqueueing request preserves the invariant.
LEMMA RouteStepInv ==
    ASSUME IInv, NEW j \in Jobs, RouteStep(j)
    PROVE  IInv'
<1>1. CASE RouteNotFound(j)
  <2>1. CancelInv' /\ HoldInv' /\ OneOwner' /\ OrderInv' /\ FillInv' /\ ReplyInv'
    BY <1>1 DEF IInv, RouteNotFound, cancelVars, workerVars, bridgeVars, CancelInv,
       HoldInv, OneOwner, OrderInv, FillInv, ReplyInv
  <2>2. TypeOK'
    BY <1>1 DEF IInv, RouteNotFound, cancelVars, workerVars, bridgeVars, TypeOK,
       RouteStates
  <2>3. RowInv'
    BY <1>1 DEF IInv, RouteNotFound, RowInv, Present
  <2>4. UniqueInv'
    BY <1>1 DEF IInv, RouteNotFound, UniqueInv, Present
  <2>. QED
    BY <2>1, <2>2, <2>3, <2>4 DEF IInv
<1>2. ASSUME NEW p \in Pairs, RouteCheck(j, p)
     PROVE  IInv'
  <2>1. CancelInv' /\ HoldInv' /\ OneOwner' /\ OrderInv' /\ FillInv' /\ ReplyInv'
    BY <1>2 DEF IInv, RouteCheck, cancelVars, workerVars, bridgeVars, CancelInv, HoldInv,
       OneOwner, OrderInv, FillInv, ReplyInv
  <2>2. TypeOK'
    BY <1>2 DEF IInv, RouteCheck, cancelVars, workerVars, bridgeVars, TypeOK, RouteStates
  <2>3. RowInv'
    BY <1>2 DEF IInv, RouteCheck, RowInv, TypeOK, Present
  <2>4. UniqueInv'
    BY <1>2 DEF IInv, RouteCheck, UniqueInv, TypeOK, RowInv, Present
  <2>. QED
    BY <2>1, <2>2, <2>3, <2>4 DEF IInv
<1>3. CASE RouteInsert(j)
  <2>1. CancelInv' /\ HoldInv' /\ OneOwner' /\ OrderInv' /\ FillInv' /\ ReplyInv'
    BY <1>3 DEF IInv, RouteInsert, cancelVars, workerVars, bridgeVars, CancelInv, HoldInv,
       OneOwner, OrderInv, FillInv, ReplyInv
  <2>2. TypeOK'
    BY <1>3 DEF IInv, RouteInsert, cancelVars, workerVars, bridgeVars, TypeOK, RouteStates
  <2>3. RowInv'
    BY <1>3 DEF IInv, RouteInsert, RowInv, Present
  <2>4. UniqueInv'
    BY <1>3 DEF IInv, RouteInsert, UniqueInv, TypeOK, RowsFor, Present
  <2>. QED
    BY <2>1, <2>2, <2>3, <2>4 DEF IInv
<1>4. CASE RouteCommit(j)
  <2>1. OneOwner' /\ ReplyInv'
    BY <1>4 DEF IInv, RouteCommit, cancelVars, workerVars, bridgeVars, OneOwner, ReplyInv
  <2>2. TypeOK'
    BY <1>4 DEF IInv, RouteCommit, cancelVars, workerVars, bridgeVars, TypeOK,
       RouteStates, JobStatuses
  <2>3. RowInv'
    BY <1>4 DEF IInv, RouteCommit, RowInv, TypeOK, Present
  <2>4. UniqueInv'
    BY <1>4 DEF IInv, RouteCommit, UniqueInv, Present
  <2>5. CancelInv'
    BY <1>4 DEF IInv, RouteCommit, cancelVars, workerVars, CancelInv, RowInv
  <2>6. HoldInv'
    BY <1>4 DEF IInv, RouteCommit, workerVars, bridgeVars, HoldInv, RowInv
  <2>7. OrderInv'
    BY <1>4 DEF IInv, RouteCommit, workerVars, bridgeVars, OrderInv, RowInv, Taken
  <2>8. FillInv'
    BY <1>4 DEF IInv, RouteCommit, workerVars, bridgeVars, FillInv, RowInv, Taken
  <2>. QED
    BY <2>1, <2>2, <2>3, <2>4, <2>5, <2>6, <2>7, <2>8 DEF IInv
<1>5. CASE RouteRollback(j)
  <2>1. CancelInv' /\ HoldInv' /\ OneOwner' /\ OrderInv' /\ FillInv' /\ ReplyInv'
    BY <1>5 DEF IInv, RouteRollback, cancelVars, workerVars, bridgeVars, CancelInv,
       HoldInv, OneOwner, OrderInv, FillInv, ReplyInv
  <2>2. TypeOK'
    BY <1>5 DEF IInv, RouteRollback, cancelVars, workerVars, bridgeVars, TypeOK,
       RouteStates
  <2>3. RowInv'
    BY <1>5 DEF IInv, RouteRollback, RowInv, Present
  <2>4. UniqueInv'
    BY <1>5 DEF IInv, RouteRollback, UniqueInv, Present
  <2>. QED
    BY <2>1, <2>2, <2>3, <2>4 DEF IInv
<1>6. CASE RouteCommitLost(j)
  <2>1. OneOwner' /\ ReplyInv'
    BY <1>6 DEF IInv, RouteCommitLost, cancelVars, workerVars, bridgeVars, OneOwner,
       ReplyInv
  <2>2. TypeOK'
    BY <1>6 DEF IInv, RouteCommitLost, cancelVars, workerVars, bridgeVars, TypeOK,
       RouteStates, JobStatuses
  <2>3. RowInv'
    BY <1>6 DEF IInv, RouteCommitLost, RowInv, TypeOK, Present
  <2>4. UniqueInv'
    BY <1>6 DEF IInv, RouteCommitLost, UniqueInv, Present
  <2>5. CancelInv'
    BY <1>6 DEF IInv, RouteCommitLost, cancelVars, workerVars, CancelInv, RowInv
  <2>6. HoldInv'
    BY <1>6 DEF IInv, RouteCommitLost, workerVars, bridgeVars, HoldInv, RowInv
  <2>7. OrderInv'
    BY <1>6 DEF IInv, RouteCommitLost, workerVars, bridgeVars, OrderInv, RowInv, Taken
  <2>8. FillInv'
    BY <1>6 DEF IInv, RouteCommitLost, workerVars, bridgeVars, FillInv, RowInv, Taken
  <2>. QED
    BY <2>1, <2>2, <2>3, <2>4, <2>5, <2>6, <2>7, <2>8 DEF IInv
<1>. QED
  BY <1>1, <1>2, <1>3, <1>4, <1>5, <1>6 DEF RouteStep

\* A step of a cancel request preserves the invariant.
LEMMA CancelStepInv ==
    ASSUME IInv, NEW c \in Cancels, CancelStep(c)
    PROVE  IInv'
<1>1. CASE CancelNotFound(c)
  <2>1. RowInv' /\ UniqueInv' /\ HoldInv' /\ OneOwner' /\ OrderInv' /\ FillInv' /\ ReplyInv'
    BY <1>1 DEF IInv, CancelNotFound, apiVars, workerVars, bridgeVars, RowInv, UniqueInv,
       HoldInv, OneOwner, OrderInv, FillInv, ReplyInv, Present
  <2>2. TypeOK'
    BY <1>1 DEF IInv, CancelNotFound, apiVars, workerVars, bridgeVars, TypeOK,
       CancelStates
  <2>3. CancelInv'
    BY <1>1 DEF IInv, CancelNotFound, workerVars, CancelInv
  <2>. QED
    BY <2>1, <2>2, <2>3 DEF IInv
<1>2. ASSUME NEW j \in Jobs, CancelUpdate(c, j)
     PROVE  IInv'
  <2>1. status[j] = "PENDING" => \A v \in Workers : holds[v] # j
    BY ConstantsAssumption, <1>2 DEF IInv, CancelUpdate, TypeOK, HoldInv, RowLocked,
       WorkerStates
  <2>2. RowInv' /\ UniqueInv' /\ HoldInv' /\ OneOwner' /\ OrderInv' /\ FillInv' /\ ReplyInv'
    BY <1>2 DEF IInv, CancelUpdate, apiVars, workerVars, bridgeVars, RowInv, UniqueInv,
       HoldInv, OneOwner, OrderInv, FillInv, ReplyInv, Present
  <2>3. TypeOK'
    BY <1>2 DEF IInv, CancelUpdate, apiVars, workerVars, bridgeVars, TypeOK, CancelStates
  <2>4. CancelInv'
    BY <1>2, <2>1 DEF IInv, CancelUpdate, workerVars, CancelInv, TypeOK, RowLocked
  <2>. QED
    BY <2>1, <2>2, <2>3, <2>4 DEF IInv
<1>3. CASE CancelCommit(c)
  <2>1. OneOwner' /\ ReplyInv'
    BY <1>3 DEF IInv, CancelCommit, apiVars, workerVars, bridgeVars, OneOwner, ReplyInv
  <2>2. TypeOK'
    BY <1>3 DEF IInv, CancelCommit, apiVars, workerVars, bridgeVars, TypeOK, CancelStates,
       JobStatuses
  <2>3. RowInv'
    BY <1>3 DEF IInv, CancelCommit, apiVars, RowInv, CancelInv, Present
  <2>4. UniqueInv'
    BY <1>3 DEF IInv, CancelCommit, apiVars, UniqueInv, CancelInv, Present
  <2>5. CancelInv'
    BY <1>3 DEF IInv, CancelCommit, workerVars, CancelInv, TypeOK
  <2>6. HoldInv'
    BY <1>3 DEF IInv, CancelCommit, workerVars, bridgeVars, HoldInv, CancelInv
  <2>7. OrderInv'
    BY <1>3 DEF IInv, CancelCommit, workerVars, bridgeVars, OrderInv, CancelInv, Taken
  <2>8. FillInv'
    BY <1>3 DEF IInv, CancelCommit, workerVars, bridgeVars, FillInv, CancelInv, Taken
  <2>. QED
    BY <2>1, <2>2, <2>3, <2>4, <2>5, <2>6, <2>7, <2>8 DEF IInv
<1>4. CASE CancelRollback(c)
  <2>1. RowInv' /\ UniqueInv' /\ HoldInv' /\ OneOwner' /\ OrderInv' /\ FillInv' /\ ReplyInv'
    BY <1>4 DEF IInv, CancelRollback, apiVars, workerVars, bridgeVars, RowInv, UniqueInv,
       HoldInv, OneOwner, OrderInv, FillInv, ReplyInv, Present
  <2>2. TypeOK'
    BY <1>4 DEF IInv, CancelRollback, apiVars, workerVars, bridgeVars, TypeOK,
       CancelStates
  <2>3. CancelInv'
    BY <1>4 DEF IInv, CancelRollback, workerVars, CancelInv
  <2>. QED
    BY <2>1, <2>2, <2>3 DEF IInv
<1>5. CASE CancelCommitLost(c)
  <2>1. OneOwner' /\ ReplyInv'
    BY <1>5 DEF IInv, CancelCommitLost, apiVars, workerVars, bridgeVars, OneOwner,
       ReplyInv
  <2>2. TypeOK'
    BY <1>5 DEF IInv, CancelCommitLost, apiVars, workerVars, bridgeVars, TypeOK,
       CancelStates, JobStatuses
  <2>3. RowInv'
    BY <1>5 DEF IInv, CancelCommitLost, apiVars, RowInv, CancelInv, Present
  <2>4. UniqueInv'
    BY <1>5 DEF IInv, CancelCommitLost, apiVars, UniqueInv, CancelInv, Present
  <2>5. CancelInv'
    BY <1>5 DEF IInv, CancelCommitLost, workerVars, CancelInv, TypeOK
  <2>6. HoldInv'
    BY <1>5 DEF IInv, CancelCommitLost, workerVars, bridgeVars, HoldInv, CancelInv
  <2>7. OrderInv'
    BY <1>5 DEF IInv, CancelCommitLost, workerVars, bridgeVars, OrderInv, CancelInv, Taken
  <2>8. FillInv'
    BY <1>5 DEF IInv, CancelCommitLost, workerVars, bridgeVars, FillInv, CancelInv, Taken
  <2>. QED
    BY <2>1, <2>2, <2>3, <2>4, <2>5, <2>6, <2>7, <2>8 DEF IInv
<1>. QED
  BY <1>1, <1>2, <1>3, <1>4, <1>5 DEF CancelStep

\* A step of a worker preserves the invariant.
LEMMA WorkerStepInv ==
    ASSUME IInv, NEW w \in Workers, WorkerStep(w)
    PROVE  IInv'
<1>1. ASSUME NEW j \in Jobs, ClaimSelect(w, j)
     PROVE  IInv'
  <2>1. \A v \in Workers : holds[v] # j
    BY ConstantsAssumption, <1>1 DEF IInv, ClaimSelect, TypeOK, HoldInv, RowLocked,
       WorkerStates, Claimable
  <2>2. RowInv' /\ UniqueInv' /\ ReplyInv'
    BY <1>1 DEF IInv, ClaimSelect, apiVars, cancelVars, bridgeVars, Goto, RowInv,
       UniqueInv, ReplyInv, Present
  <2>3. TypeOK'
    BY <1>1 DEF IInv, ClaimSelect, apiVars, cancelVars, bridgeVars, Goto, TypeOK,
       WorkerStates
  <2>4. CancelInv'
    BY <1>1, <2>1 DEF IInv, ClaimSelect, cancelVars, CancelInv, Claimable, RowLocked
  <2>5. HoldInv'
    BY ConstantsAssumption, <1>1 DEF IInv, ClaimSelect, bridgeVars, Goto, HoldInv, TypeOK,
       Claimable
  <2>6. OneOwner'
    BY <1>1, <2>1 DEF IInv, ClaimSelect, OneOwner
  <2>7. OrderInv'
    BY <1>1 DEF IInv, ClaimSelect, bridgeVars, Goto, OrderInv, Claimable, Taken
  <2>8. FillInv'
    BY <1>1 DEF IInv, ClaimSelect, bridgeVars, Goto, FillInv, Claimable, Taken
  <2>. QED
    BY <2>1, <2>2, <2>3, <2>4, <2>5, <2>6, <2>7, <2>8 DEF IInv
<1>2. CASE ClaimCommit(w)
  <2>1. OneOwner' /\ ReplyInv'
    BY <1>2 DEF IInv, ClaimCommit, apiVars, cancelVars, bridgeVars, Goto, OneOwner,
       ReplyInv
  <2>2. TypeOK'
    BY <1>2 DEF IInv, ClaimCommit, apiVars, cancelVars, bridgeVars, Goto, TypeOK,
       JobStatuses, WorkerStates
  <2>3. RowInv'
    BY <1>2 DEF IInv, ClaimCommit, apiVars, RowInv, HoldInv, Present
  <2>4. UniqueInv'
    BY <1>2 DEF IInv, ClaimCommit, apiVars, UniqueInv, HoldInv, Present
  <2>5. CancelInv'
    BY <1>2 DEF IInv, ClaimCommit, cancelVars, CancelInv, HoldInv
  <2>6. HoldInv'
    BY <1>2 DEF IInv, ClaimCommit, bridgeVars, Goto, HoldInv, TypeOK, OneOwner
  <2>7. OrderInv'
    BY <1>2 DEF IInv, ClaimCommit, bridgeVars, Goto, OrderInv
  <2>8. FillInv'
    BY <1>2 DEF IInv, ClaimCommit, bridgeVars, Goto, FillInv
  <2>. QED
    BY <2>1, <2>2, <2>3, <2>4, <2>5, <2>6, <2>7, <2>8 DEF IInv
<1>3. CASE ClaimRollback(w)
  <2>1. RowInv' /\ UniqueInv' /\ ReplyInv'
    BY <1>3 DEF IInv, ClaimRollback, apiVars, cancelVars, bridgeVars, Release, Goto,
       RowInv, UniqueInv, ReplyInv, Present
  <2>2. TypeOK'
    BY <1>3 DEF IInv, ClaimRollback, apiVars, cancelVars, bridgeVars, Release, Goto,
       TypeOK, WorkerStates
  <2>3. CancelInv'
    BY ConstantsAssumption, <1>3 DEF IInv, ClaimRollback, cancelVars, Release, CancelInv
  <2>4. HoldInv'
    BY <1>3 DEF IInv, ClaimRollback, bridgeVars, Release, Goto, HoldInv, TypeOK
  <2>5. OneOwner'
    BY <1>3 DEF IInv, ClaimRollback, Release, OneOwner
  <2>6. OrderInv'
    BY ConstantsAssumption, <1>3 DEF IInv, ClaimRollback, bridgeVars, Release, Goto,
       OrderInv
  <2>7. FillInv'
    BY ConstantsAssumption, <1>3 DEF IInv, ClaimRollback, bridgeVars, Release, Goto,
       FillInv
  <2>. QED
    BY <2>1, <2>2, <2>3, <2>4, <2>5, <2>6, <2>7 DEF IInv
<1>4. CASE ClaimCommitLost(w)
  <2>1. ReplyInv'
    BY <1>4 DEF IInv, ClaimCommitLost, apiVars, cancelVars, bridgeVars, Release, Goto,
       ReplyInv
  <2>2. TypeOK'
    BY <1>4 DEF IInv, ClaimCommitLost, apiVars, cancelVars, bridgeVars, Release, Goto,
       TypeOK, JobStatuses, WorkerStates
  <2>3. RowInv'
    BY <1>4 DEF IInv, ClaimCommitLost, apiVars, RowInv, HoldInv, Present
  <2>4. UniqueInv'
    BY <1>4 DEF IInv, ClaimCommitLost, apiVars, UniqueInv, HoldInv, Present
  <2>5. CancelInv'
    BY ConstantsAssumption, <1>4 DEF IInv, ClaimCommitLost, cancelVars, Release,
       CancelInv, HoldInv
  <2>6. HoldInv'
    BY <1>4 DEF IInv, ClaimCommitLost, bridgeVars, Release, Goto, HoldInv, TypeOK,
       OneOwner
  <2>7. OneOwner'
    BY <1>4 DEF IInv, ClaimCommitLost, Release, OneOwner
  <2>8. OrderInv'
    BY ConstantsAssumption, <1>4 DEF IInv, ClaimCommitLost, bridgeVars, Release, Goto,
       OrderInv
  <2>9. FillInv'
    BY ConstantsAssumption, <1>4 DEF IInv, ClaimCommitLost, bridgeVars, Release, Goto,
       FillInv
  <2>. QED
    BY <2>1, <2>2, <2>3, <2>4, <2>5, <2>6, <2>7, <2>8, <2>9 DEF IInv
<1>5. CASE ValidatePass(w)
  <2>1. RowInv' /\ UniqueInv' /\ CancelInv' /\ OneOwner' /\ ReplyInv'
    BY <1>5 DEF IInv, ValidatePass, apiVars, cancelVars, bridgeVars, Goto, RowInv,
       UniqueInv, CancelInv, OneOwner, ReplyInv, Present
  <2>2. TypeOK'
    BY <1>5 DEF IInv, ValidatePass, apiVars, cancelVars, bridgeVars, Goto, TypeOK,
       WorkerStates
  <2>3. HoldInv'
    BY <1>5 DEF IInv, ValidatePass, bridgeVars, Goto, HoldInv
  <2>4. OrderInv'
    BY <1>5 DEF IInv, ValidatePass, bridgeVars, Goto, OrderInv
  <2>5. FillInv'
    BY <1>5 DEF IInv, ValidatePass, bridgeVars, Goto, FillInv
  <2>. QED
    BY <2>1, <2>2, <2>3, <2>4, <2>5 DEF IInv
<1>6. CASE ValidateFail(w)
  <2>1. RowInv' /\ UniqueInv' /\ CancelInv' /\ OneOwner' /\ ReplyInv'
    BY <1>6 DEF IInv, ValidateFail, apiVars, cancelVars, bridgeVars, Goto, RowInv,
       UniqueInv, CancelInv, OneOwner, ReplyInv, Present
  <2>2. TypeOK'
    BY <1>6 DEF IInv, ValidateFail, apiVars, cancelVars, bridgeVars, Goto, TypeOK,
       WorkerStates
  <2>3. HoldInv'
    BY <1>6 DEF IInv, ValidateFail, bridgeVars, Goto, HoldInv
  <2>4. OrderInv'
    BY <1>6 DEF IInv, ValidateFail, bridgeVars, Goto, OrderInv
  <2>5. FillInv'
    BY <1>6 DEF IInv, ValidateFail, bridgeVars, Goto, FillInv
  <2>. QED
    BY <2>1, <2>2, <2>3, <2>4, <2>5 DEF IInv
<1>7. CASE SendOrder(w)
  <2>1. RowInv' /\ UniqueInv' /\ CancelInv' /\ OneOwner' /\ ReplyInv'
    BY <1>7 DEF IInv, SendOrder, apiVars, cancelVars, Goto, RowInv, UniqueInv, CancelInv,
       OneOwner, ReplyInv, Present
  <2>2. TypeOK'
    BY <1>7 DEF IInv, SendOrder, apiVars, cancelVars, Goto, TypeOK, HoldInv, WorkerStates
  <2>3. HoldInv'
    BY <1>7 DEF IInv, SendOrder, Goto, HoldInv
  <2>4. OrderInv'
    BY <1>7 DEF IInv, SendOrder, Goto, OrderInv, TypeOK, HoldInv, OneOwner, FillInv, Taken
  <2>5. FillInv'
    BY <1>7 DEF IInv, SendOrder, Goto, FillInv
  <2>. QED
    BY <2>1, <2>2, <2>3, <2>4, <2>5 DEF IInv
<1>8. CASE SendError(w)
  <2>1. RowInv' /\ UniqueInv' /\ CancelInv' /\ OneOwner' /\ ReplyInv'
    BY <1>8 DEF IInv, SendError, apiVars, cancelVars, bridgeVars, Goto, RowInv, UniqueInv,
       CancelInv, OneOwner, ReplyInv, Present
  <2>2. TypeOK'
    BY <1>8 DEF IInv, SendError, apiVars, cancelVars, bridgeVars, Goto, TypeOK,
       WorkerStates
  <2>3. HoldInv'
    BY <1>8 DEF IInv, SendError, bridgeVars, Goto, HoldInv
  <2>4. OrderInv'
    BY <1>8 DEF IInv, SendError, bridgeVars, Goto, OrderInv
  <2>5. FillInv'
    BY <1>8 DEF IInv, SendError, bridgeVars, Goto, FillInv
  <2>. QED
    BY <2>1, <2>2, <2>3, <2>4, <2>5 DEF IInv
<1>9. ASSUME NEW answer \in Answers, ReceiveReply(w, answer)
     PROVE  IInv'
  <2>1. RowInv' /\ UniqueInv' /\ CancelInv' /\ OneOwner'
    BY <1>9 DEF IInv, ReceiveReply, apiVars, cancelVars, Goto, RowInv, UniqueInv,
       CancelInv, OneOwner, Present
  <2>2. TypeOK'
    BY <1>9 DEF IInv, ReceiveReply, apiVars, cancelVars, Goto, TypeOK, WorkerStates
  <2>3. HoldInv'
    BY <1>9 DEF IInv, ReceiveReply, Goto, HoldInv, TypeOK, ReplyInv
  <2>4. OrderInv'
    BY <1>9 DEF IInv, ReceiveReply, Goto, OrderInv, ReplyInv
  <2>5. FillInv'
    BY <1>9 DEF IInv, ReceiveReply, Goto, FillInv
  <2>6. ReplyInv'
    BY <1>9 DEF IInv, ReceiveReply, ReplyInv
  <2>. QED
    BY <2>1, <2>2, <2>3, <2>4, <2>5, <2>6 DEF IInv
<1>10. CASE Timeout(w)
  <2>1. RowInv' /\ UniqueInv' /\ CancelInv' /\ OneOwner'
    BY <1>10 DEF IInv, Timeout, apiVars, cancelVars, Goto, RowInv, UniqueInv, CancelInv,
       OneOwner, Present
  <2>2. TypeOK'
    BY <1>10 DEF IInv, Timeout, apiVars, cancelVars, Goto, TypeOK, WorkerStates
  <2>3. HoldInv'
    BY <1>10 DEF IInv, Timeout, Goto, HoldInv
  <2>4. OrderInv'
    BY <1>10 DEF IInv, Timeout, Goto, OrderInv
  <2>5. FillInv'
    BY <1>10 DEF IInv, Timeout, Goto, FillInv
  <2>6. ReplyInv'
    BY <1>10 DEF IInv, Timeout, ReplyInv
  <2>. QED
    BY <2>1, <2>2, <2>3, <2>4, <2>5, <2>6 DEF IInv
<1>11. CASE UpdateSuccess(w)
  <2>1. ReplyInv'
    BY <1>11 DEF IInv, UpdateSuccess, apiVars, cancelVars, bridgeVars, Release, Goto,
       ReplyInv
  <2>2. TypeOK'
    BY <1>11 DEF IInv, UpdateSuccess, apiVars, cancelVars, bridgeVars, Release, Goto,
       TypeOK, JobStatuses, WorkerStates
  <2>3. RowInv'
    BY <1>11 DEF IInv, UpdateSuccess, apiVars, RowInv, HoldInv, Present
  <2>4. UniqueInv'
    BY <1>11 DEF IInv, UpdateSuccess, apiVars, UniqueInv, HoldInv, Present
  <2>5. CancelInv'
    BY ConstantsAssumption, <1>11 DEF IInv, UpdateSuccess, cancelVars, Release, CancelInv,
       HoldInv
  <2>6. HoldInv'
    BY <1>11 DEF IInv, UpdateSuccess, bridgeVars, Release, Goto, HoldInv, TypeOK, OneOwner
  <2>7. OneOwner'
    BY <1>11 DEF IInv, UpdateSuccess, Release, OneOwner
  <2>8. OrderInv'
    BY ConstantsAssumption, <1>11 DEF IInv, UpdateSuccess, bridgeVars, Release, Goto,
       OrderInv
  <2>9. FillInv'
    BY ConstantsAssumption, <1>11 DEF IInv, UpdateSuccess, bridgeVars, Release, Goto,
       FillInv, TypeOK, HoldInv, Taken
  <2>. QED
    BY <2>1, <2>2, <2>3, <2>4, <2>5, <2>6, <2>7, <2>8, <2>9 DEF IInv
<1>12. ASSUME NEW applied \in BOOLEAN, UpdateSuccessError(w, applied)
     PROVE  IInv'
  <2>1. OneOwner' /\ ReplyInv'
    BY <1>12 DEF IInv, UpdateSuccessError, apiVars, cancelVars, bridgeVars, Goto,
       OneOwner, ReplyInv
  <2>2. TypeOK'
    BY <1>12 DEF IInv, UpdateSuccessError, apiVars, cancelVars, bridgeVars, Goto, TypeOK,
       JobStatuses, WorkerStates
  <2>3. RowInv'
    BY <1>12 DEF IInv, UpdateSuccessError, apiVars, RowInv, HoldInv, Present
  <2>4. UniqueInv'
    BY <1>12 DEF IInv, UpdateSuccessError, apiVars, UniqueInv, HoldInv, Present
  <2>5. CancelInv'
    BY <1>12 DEF IInv, UpdateSuccessError, cancelVars, CancelInv, HoldInv
  <2>6. HoldInv'
    BY <1>12 DEF IInv, UpdateSuccessError, bridgeVars, Goto, HoldInv, TypeOK, OneOwner
  <2>7. OrderInv'
    BY <1>12 DEF IInv, UpdateSuccessError, bridgeVars, Goto, OrderInv
  <2>8. FillInv'
    BY <1>12 DEF IInv, UpdateSuccessError, bridgeVars, Goto, FillInv, HoldInv, Taken
  <2>. QED
    BY <2>1, <2>2, <2>3, <2>4, <2>5, <2>6, <2>7, <2>8 DEF IInv
<1>13. CASE UpdateFailed(w)
  <2>1. ReplyInv'
    BY <1>13 DEF IInv, UpdateFailed, apiVars, cancelVars, bridgeVars, Release, Goto,
       ReplyInv
  <2>2. TypeOK'
    BY <1>13 DEF IInv, UpdateFailed, apiVars, cancelVars, bridgeVars, Release, Goto,
       TypeOK, JobStatuses, WorkerStates
  <2>3. RowInv'
    BY <1>13 DEF IInv, UpdateFailed, apiVars, RowInv, HoldInv, Present
  <2>4. UniqueInv'
    BY <1>13 DEF IInv, UpdateFailed, apiVars, UniqueInv, HoldInv, Present
  <2>5. CancelInv'
    BY ConstantsAssumption, <1>13 DEF IInv, UpdateFailed, cancelVars, Release, CancelInv,
       HoldInv
  <2>6. HoldInv'
    BY <1>13 DEF IInv, UpdateFailed, bridgeVars, Release, Goto, HoldInv, TypeOK, OneOwner
  <2>7. OneOwner'
    BY <1>13 DEF IInv, UpdateFailed, Release, OneOwner
  <2>8. OrderInv'
    BY ConstantsAssumption, <1>13 DEF IInv, UpdateFailed, bridgeVars, Release, Goto,
       OrderInv, TypeOK, Taken
  <2>9. FillInv'
    BY ConstantsAssumption, <1>13 DEF IInv, UpdateFailed, bridgeVars, Release, Goto,
       FillInv, TypeOK, Taken
  <2>. QED
    BY <2>1, <2>2, <2>3, <2>4, <2>5, <2>6, <2>7, <2>8, <2>9 DEF IInv
<1>14. CASE UpdateFailedError(w)
  <2>1. RowInv' /\ UniqueInv' /\ ReplyInv'
    BY <1>14 DEF IInv, UpdateFailedError, apiVars, cancelVars, bridgeVars, Release, Goto,
       RowInv, UniqueInv, ReplyInv, Present
  <2>2. TypeOK'
    BY <1>14 DEF IInv, UpdateFailedError, apiVars, cancelVars, bridgeVars, Release, Goto,
       TypeOK, WorkerStates
  <2>3. CancelInv'
    BY ConstantsAssumption, <1>14 DEF IInv, UpdateFailedError, cancelVars, Release,
       CancelInv
  <2>4. HoldInv'
    BY <1>14 DEF IInv, UpdateFailedError, bridgeVars, Release, Goto, HoldInv, TypeOK
  <2>5. OneOwner'
    BY <1>14 DEF IInv, UpdateFailedError, Release, OneOwner
  <2>6. OrderInv'
    BY ConstantsAssumption, <1>14 DEF IInv, UpdateFailedError, bridgeVars, Release, Goto,
       OrderInv, TypeOK
  <2>7. FillInv'
    BY ConstantsAssumption, <1>14 DEF IInv, UpdateFailedError, bridgeVars, Release, Goto,
       FillInv, TypeOK
  <2>. QED
    BY <2>1, <2>2, <2>3, <2>4, <2>5, <2>6, <2>7 DEF IInv
<1>15. CASE WorkerCrash(w)
  <2>1. RowInv' /\ UniqueInv'
    BY <1>15 DEF IInv, WorkerCrash, apiVars, cancelVars, Release, Goto, RowInv, UniqueInv,
       Present
  <2>2. TypeOK'
    BY <1>15 DEF IInv, WorkerCrash, apiVars, cancelVars, Release, Goto, TypeOK,
       WorkerStates
  <2>3. CancelInv'
    BY ConstantsAssumption, <1>15 DEF IInv, WorkerCrash, cancelVars, Release, CancelInv
  <2>4. HoldInv'
    BY <1>15 DEF IInv, WorkerCrash, Release, Goto, HoldInv, TypeOK
  <2>5. OneOwner'
    BY <1>15 DEF IInv, WorkerCrash, Release, OneOwner
  <2>6. OrderInv'
    BY ConstantsAssumption, <1>15 DEF IInv, WorkerCrash, Release, Goto, OrderInv, TypeOK
  <2>7. FillInv'
    BY ConstantsAssumption, <1>15 DEF IInv, WorkerCrash, Release, Goto, FillInv, TypeOK
  <2>8. ReplyInv'
    BY <1>15 DEF IInv, WorkerCrash, ReplyInv
  <2>. QED
    BY <2>1, <2>2, <2>3, <2>4, <2>5, <2>6, <2>7, <2>8 DEF IInv
<1>. QED
  BY <1>1, <1>2, <1>3, <1>4, <1>5, <1>6, <1>7, <1>8, <1>9, <1>10, <1>11, <1>12, <1>13,
     <1>14, <1>15 DEF WorkerStep

\* A step of the bridge preserves the invariant.
LEMMA BridgeStepInv ==
    ASSUME IInv, BridgeStep
    PROVE  IInv'
<1>1. ASSUME NEW w \in Workers, NEW j \in Jobs, NEW outcome \in Outcomes, BridgeExecute(w, j, outcome)
     PROVE  IInv'
  <2>1. RowInv' /\ UniqueInv' /\ CancelInv' /\ OneOwner'
    BY <1>1 DEF IInv, BridgeExecute, apiVars, cancelVars, workerVars, RowInv, UniqueInv,
       CancelInv, OneOwner, Present
  <2>2. TypeOK'
    BY <1>1 DEF IInv, BridgeExecute, apiVars, cancelVars, workerVars, TypeOK, Answers
  <2>3. HoldInv'
    BY <1>1 DEF IInv, BridgeExecute, workerVars, HoldInv, OrderInv
  <2>4. OrderInv'
    BY <1>1 DEF IInv, BridgeExecute, workerVars, OrderInv
  <2>5. FillInv'
    BY <1>1 DEF IInv, BridgeExecute, workerVars, FillInv, OrderInv
  <2>6. ReplyInv'
    BY <1>1 DEF IInv, BridgeExecute, ReplyInv, TypeOK, OrderInv
  <2>. QED
    BY <2>1, <2>2, <2>3, <2>4, <2>5, <2>6 DEF IInv
<1>2. CASE BridgeCrash
  <2>1. RowInv' /\ UniqueInv' /\ CancelInv' /\ HoldInv' /\ OneOwner' /\ FillInv' /\ ReplyInv'
    BY <1>2 DEF IInv, BridgeCrash, apiVars, cancelVars, workerVars, RowInv, UniqueInv,
       CancelInv, HoldInv, OneOwner, FillInv, ReplyInv, Present
  <2>2. TypeOK'
    BY <1>2 DEF IInv, BridgeCrash, apiVars, cancelVars, workerVars, TypeOK
  <2>3. OrderInv'
    BY <1>2 DEF IInv, BridgeCrash, OrderInv
  <2>. QED
    BY <2>1, <2>2, <2>3 DEF IInv
<1>. QED
  BY <1>1, <1>2 DEF BridgeStep

-----------------------------------------------------------------------------
\* The initial state satisfies the invariant.
LEMMA InitInv == Init => IInv
  BY ConstantsAssumption
  DEF Init, IInv, TypeOK, RowInv, Present, UniqueInv, CancelInv, HoldInv, OneOwner, OrderInv,
      FillInv, ReplyInv, RouteStates, CancelStates, JobStatuses, WorkerStates

\* So does every step.
LEMMA NextInv == IInv /\ [Next]_vars => IInv'
<1>. SUFFICES ASSUME IInv, [Next]_vars
              PROVE  IInv'
  OBVIOUS
<1>1. CASE Next
  BY <1>1, RouteStepInv, CancelStepInv, WorkerStepInv, BridgeStepInv DEF Next
<1>2. CASE UNCHANGED vars
  BY <1>2 DEF vars, apiVars, cancelVars, workerVars, bridgeVars, IInv, TypeOK, RowInv, Present,
              UniqueInv, CancelInv, HoldInv, OneOwner, OrderInv, FillInv, ReplyInv
<1>. QED
  BY <1>1, <1>2

\* The inductive invariant of the pipeline.
THEOREM Invariance == Spec => []IInv
  BY InitInv, NextInv, PTL DEF Spec

\* Type correctness.
THEOREM TypeCorrect == Spec => []TypeOK
<1>1. IInv => TypeOK
  BY DEF IInv
<1>. QED
  BY <1>1, Invariance, PTL

\* No two workers ever have the same job.
THEOREM OwnerIsUnique == Spec => []OneOwner
<1>1. IInv => OneOwner
  BY DEF IInv
<1>. QED
  BY <1>1, Invariance, PTL

\* A (signal, account) pair is traded at most once: a job by FillInv, two jobs
\* of a pair because traded jobs have rows and rows have different pairs.
THEOREM TradedAtMostOnce == Spec => []TradedOnce
<1>1. IInv => TradedOnce
  <2>. SUFFICES ASSUME IInv, NEW i \in Jobs, NEW j \in Jobs
                PROVE  /\ fills[j] <= 1
                       /\ (fills[i] > 0 /\ fills[j] > 0 /\ pair[i] = pair[j]) => i = j
    BY DEF TradedOnce
  <2>1. fills[j] <= 1
    BY DEF IInv, FillInv
  <2>2. ASSUME fills[i] > 0, fills[j] > 0, pair[i] = pair[j]
        PROVE  i = j
    <3>1. Present(i) /\ Present(j)
      BY <2>2 DEF IInv, FillInv, Present, Taken
    <3>. QED
      BY <2>2, <3>1 DEF IInv, UniqueInv
  <2>. QED
    BY <2>1, <2>2
<1>. QED
  BY <1>1, Invariance, PTL

\* SUCCESS is recorded for traded jobs only.
THEOREM SuccessTraded == Spec => []SuccessIsTraded
<1>1. IInv => SuccessIsTraded
  BY DEF IInv, FillInv, SuccessIsTraded
<1>. QED
  BY <1>1, Invariance, PTL

\* The answers to cancel requests stay true: a CANCELLED row excludes an
\* owner (HoldInv), an order (OrderInv) and a trade (FillInv).
THEOREM CancelTrue == Spec => []CancelAnswersTrue
<1>1. IInv => CancelAnswersTrue
  <2>. SUFFICES ASSUME IInv, NEW c \in Cancels
                PROVE  /\ cancel[c] = "done" =>
                             /\ status[target[c]] = "CANCELLED"
                             /\ fills[target[c]] = 0
                             /\ \A w \in Workers :
                                   holds[w] # target[c] /\ <<w, target[c]>> \notin orders
                       /\ cancel[c] = "refused" => status[target[c]] \notin {"ABSENT", "PENDING"}
    BY DEF CancelAnswersTrue
  <2>1. ASSUME cancel[c] = "done"
        PROVE  target[c] \in Jobs /\ status[target[c]] = "CANCELLED"
    BY <2>1 DEF IInv, CancelInv
  <2>2. ASSUME cancel[c] = "done"
        PROVE  fills[target[c]] = 0
    BY <2>1, <2>2 DEF IInv, TypeOK, FillInv, Taken
  <2>3. ASSUME cancel[c] = "done", NEW w \in Workers
        PROVE  holds[w] # target[c]
    BY <2>1, <2>3, ConstantsAssumption DEF IInv, TypeOK, HoldInv, WorkerStates
  <2>4. ASSUME cancel[c] = "done", NEW w \in Workers
        PROVE  <<w, target[c]>> \notin orders
    BY <2>1, <2>4 DEF IInv, OrderInv, Taken
  <2>5. cancel[c] = "refused" => status[target[c]] \notin {"ABSENT", "PENDING"}
    BY DEF IInv, CancelInv
  <2>. QED
    BY <2>1, <2>2, <2>3, <2>4, <2>5
<1>. QED
  BY <1>1, Invariance, PTL

-----------------------------------------------------------------------------
\* What one step does to the status of one job, from the invariant: only a
\* commit or a worker's update touches it.
LEMMA StatusStep ==
    ASSUME IInv, [Next]_vars, NEW k \in Jobs
    PROVE  StatusMove(k) /\ (Stranded(k) => Stranded(k)')
<1>. USE DEF StatusMove, Stranded
<1>1. CASE \E j \in Jobs : RouteStep(j)
  <2>1. PICK j \in Jobs : RouteStep(j)
    BY <1>1
  <2>2. UNCHANGED holds
    BY <2>1 DEF RouteStep, RouteNotFound, RouteCheck, RouteInsert, RouteCommit, RouteRollback,
                RouteCommitLost, workerVars
  <2>3. CASE RouteCommit(j) \/ RouteCommitLost(j)
    <3>1. status[j] = "ABSENT" /\ status' = [status EXCEPT ![j] = "PENDING"]
      BY <2>3 DEF RouteCommit, RouteCommitLost, IInv, RowInv
    <3>. QED
      BY <2>2, <3>1 DEF IInv, TypeOK
  <2>4. CASE \/ RouteNotFound(j) \/ RouteInsert(j) \/ RouteRollback(j)
             \/ \E p \in Pairs : RouteCheck(j, p)
    <3>1. UNCHANGED status
      BY <2>4 DEF RouteNotFound, RouteCheck, RouteInsert, RouteRollback
    <3>. QED
      BY <2>2, <3>1
  <2>. QED
    BY <2>1, <2>3, <2>4 DEF RouteStep
<1>2. CASE \E c \in Cancels : CancelStep(c)
  <2>1. PICK c \in Cancels : CancelStep(c)
    BY <1>2
  <2>2. UNCHANGED holds
    BY <2>1 DEF CancelStep, CancelNotFound, CancelUpdate, CancelCommit, CancelRollback,
                CancelCommitLost, workerVars
  <2>3. \/ UNCHANGED status
        \/ cancel[c] = "flushed" /\ status' = [status EXCEPT ![target[c]] = "CANCELLED"]
    BY <2>1 DEF CancelStep, CancelNotFound, CancelUpdate, CancelCommit, CancelRollback,
                CancelCommitLost
  <2>. QED
    BY <2>2, <2>3 DEF IInv, TypeOK, CancelInv
<1>3. CASE \E w \in Workers : WorkerStep(w)
  <2>1. PICK w \in Workers : WorkerStep(w)
    BY <1>3
  <2>2. CASE \E j \in Jobs : ClaimSelect(w, j)
    BY <2>2 DEF ClaimSelect, Claimable, IInv, TypeOK
  <2>3. CASE ClaimCommit(w) \/ ClaimCommitLost(w)
    <3>1. /\ status[holds[w]] = "PENDING"
          /\ status' = [status EXCEPT ![holds[w]] = "CLAIMED"]
          /\ \A v \in Workers : holds'[v] \in {holds[v], NoJob}
      BY <2>3 DEF ClaimCommit, ClaimCommitLost, Release, IInv, TypeOK, HoldInv
    <3>. QED
      BY <3>1, ConstantsAssumption DEF IInv, TypeOK
  <2>4. CASE \/ ClaimRollback(w) \/ UpdateFailedError(w) \/ WorkerCrash(w)
             \/ ValidatePass(w) \/ ValidateFail(w) \/ SendOrder(w) \/ SendError(w) \/ Timeout(w)
             \/ \E answer \in Answers : ReceiveReply(w, answer)
    <3>1. UNCHANGED status /\ \A v \in Workers : holds'[v] \in {holds[v], NoJob}
      BY <2>4 DEF ClaimRollback, UpdateFailedError, WorkerCrash, ValidatePass, ValidateFail,
                  SendOrder, SendError, Timeout, ReceiveReply, Release, IInv, TypeOK
    <3>. QED
      BY <3>1, ConstantsAssumption DEF IInv, TypeOK
  <2>5. CASE UpdateSuccess(w) \/ \E applied \in BOOLEAN : UpdateSuccessError(w, applied)
    <3>1. /\ worker[w] = "finish"
          /\ \/ UNCHANGED status
             \/ status' = [status EXCEPT ![holds[w]] = "SUCCESS"]
          /\ \A v \in Workers : holds'[v] \in {holds[v], NoJob}
      BY <2>5 DEF UpdateSuccess, UpdateSuccessError, Release, IInv, TypeOK
    <3>. QED
      BY <3>1, ConstantsAssumption DEF IInv, TypeOK, HoldInv
  <2>6. CASE UpdateFailed(w)
    <3>1. /\ worker[w] = "failing"
          /\ status' = [status EXCEPT ![holds[w]] = "FAILED"]
          /\ \A v \in Workers : holds'[v] \in {holds[v], NoJob}
      BY <2>6 DEF UpdateFailed, Release, IInv, TypeOK
    <3>. QED
      BY <3>1, ConstantsAssumption DEF IInv, TypeOK, HoldInv
  <2>. QED
    BY <2>1, <2>2, <2>3, <2>4, <2>5, <2>6 DEF WorkerStep
<1>4. CASE BridgeStep \/ UNCHANGED vars
  <2>1. UNCHANGED <<status, holds>>
    BY <1>4 DEF BridgeStep, BridgeExecute, BridgeCrash, vars, workerVars
  <2>. QED
    BY <2>1
<1>. QED
  BY <1>1, <1>2, <1>3, <1>4 DEF Next

\* The status of a job only moves forward (see StatusMove).
THEOREM StatusMovesForward == Spec => StatusMoves
<1>1. IInv /\ [Next]_vars => [\A j \in Jobs : StatusMove(j)]_vars
  BY StatusStep
<1>. QED
  BY <1>1, Invariance, PTL DEF Spec, StatusMoves

\* A stranded job is never taken up again.
THEOREM StrandedForEver == Spec => StrandedStays
<1>1. IInv /\ [Next]_vars => [\A j \in Jobs : Stranded(j) => Stranded(j)']_vars
  BY StatusStep
<1>. QED
  BY <1>1, Invariance, PTL DEF Spec, StrandedStays

-----------------------------------------------------------------------------
(* Refinement.  By UniqueInv a pair has at most one row, so that its phase *)
(* is that row's status and its trades are that row's fills.               *)

\* The phase that a committed row stands for.
PhaseOf(s) ==
    IF s = "PENDING" THEN "queued" ELSE IF s = "CANCELLED" THEN "cancelled" ELSE "taken"

\* The phase of a pair is read off its only committed row.
PhaseInv ==
    \A p \in Pairs :
        /\ \A k \in Jobs :
              (pair[k] = p /\ status[k] # "ABSENT") => PairPhase(p) = PhaseOf(status[k])
        /\ (\A k \in Jobs : pair[k] = p => status[k] = "ABSENT") => PairPhase(p) = "none"

\* The trades of a pair are those of its only traded job.
TradesInv ==
    \A p \in Pairs :
        /\ \A k \in Jobs : (pair[k] = p /\ fills[k] = 1) => PairTrades(p) = {<<k, 1>>}
        /\ (\A k \in Jobs : pair[k] = p => fills[k] = 0) => PairTrades(p) = {}

\* UniqueInv makes the phase of a pair the status of one row.
LEMMA PhaseOfPair == IInv => PhaseInv
<1>. SUFFICES ASSUME IInv, NEW p \in Pairs
              PROVE  /\ \A k \in Jobs : (pair[k] = p /\ status[k] # "ABSENT")
                                            => PairPhase(p) = PhaseOf(status[k])
                     /\ (\A k \in Jobs : pair[k] = p => status[k] = "ABSENT")
                            => PairPhase(p) = "none"
  BY DEF PhaseInv
<1>1. ASSUME NEW k \in Jobs, pair[k] = p, status[k] # "ABSENT"
      PROVE  PairPhase(p) = PhaseOf(status[k])
  <2>1. \A S \in SUBSET (JobStatuses \ {"ABSENT"}) : RowsFor(p, S) # {} <=> status[k] \in S
    BY <1>1 DEF IInv, UniqueInv, Present, RowsFor
  <2>2. /\ RowsFor(p, {"PENDING"}) # {} <=> status[k] \in {"PENDING"}
        /\ RowsFor(p, {"CANCELLED"}) # {} <=> status[k] \in {"CANCELLED"}
        /\ RowsFor(p, {"CLAIMED", "SUCCESS", "FAILED"}) # {} <=> status[k] \in {"CLAIMED", "SUCCESS", "FAILED"}
    BY <2>1 DEF JobStatuses
  <2>3. status[k] \in JobStatuses
    BY DEF IInv, TypeOK
  <2>. QED
    BY <2>2, <2>3, <1>1 DEF PairPhase, PhaseOf, Taken, JobStatuses
<1>2. ASSUME \A k \in Jobs : pair[k] = p => status[k] = "ABSENT"
      PROVE  PairPhase(p) = "none"
  BY <1>2 DEF PairPhase, RowsFor
<1>. QED
  BY <1>1, <1>2

\* UniqueInv and FillInv make the trades of a pair those of one row.
LEMMA TradesOfPair == IInv => TradesInv
<1>. SUFFICES ASSUME IInv, NEW p \in Pairs
              PROVE  /\ \A k \in Jobs : (pair[k] = p /\ fills[k] = 1)
                                            => PairTrades(p) = {<<k, 1>>}
                     /\ (\A k \in Jobs : pair[k] = p => fills[k] = 0) => PairTrades(p) = {}
  BY DEF TradesInv
<1>1. \A t : t \in PairTrades(p) <=> \E i \in Jobs : pair[i] = p /\ t \in {i} \X (1 .. fills[i])
  BY DEF PairTrades
<1>2. \A i \in Jobs : fills[i] \in {0, 1}
  BY DEF IInv, TypeOK, FillInv
<1>3. ASSUME NEW k \in Jobs, pair[k] = p, fills[k] = 1
      PROVE  PairTrades(p) = {<<k, 1>>}
  <2>1. \A i \in Jobs : (pair[i] = p /\ i # k) => fills[i] = 0
    BY <1>2, <1>3 DEF IInv, FillInv, UniqueInv, Present, Taken
  <2>2. {k} \X (1 .. 1) = {<<k, 1>>} /\ \A i \in Jobs : {i} \X (1 .. 0) = {}
    OBVIOUS
  <2>3. \A t : t \in PairTrades(p) <=> t \in {<<k, 1>>}
    BY <1>1, <1>3, <2>1, <2>2
  <2>. QED
    BY <2>3
<1>4. ASSUME \A k \in Jobs : pair[k] = p => fills[k] = 0
      PROVE  PairTrades(p) = {}
  <2>1. \A i \in Jobs : {i} \X (1 .. 0) = {}
    OBVIOUS
  <2>. QED
    BY <1>1, <1>4, <2>1
<1>. QED
  BY <1>3, <1>4

\* A step of the pipeline, as the rows see it: nothing, a status written, or
\* a trade.
Unseen ==
    /\ UNCHANGED <<status, fills>>
    /\ \A k \in Jobs : status[k] # "ABSENT" => pair'[k] = pair[k]

Written(j) ==
    /\ status' = [status EXCEPT ![j] = status'[j]]
    /\ UNCHANGED <<pair, fills>>

Executed(j) ==
    /\ status[j] \in Taken
    /\ fills[j] = 0
    /\ fills' = [fills EXCEPT ![j] = 1]
    /\ UNCHANGED <<pair, status>>

\* Every step is one of the three.
LEMMA StepSeen ==
    ASSUME IInv, [Next]_vars
    PROVE  Unseen \/ \E j \in Jobs : Written(j) \/ Executed(j)
<1>1. ASSUME NEW j \in Jobs, RouteStep(j)
      PROVE  Unseen \/ Written(j)
  <2>1. CASE RouteCommit(j) \/ RouteCommitLost(j)
    BY <2>1 DEF RouteCommit, RouteCommitLost, bridgeVars, Written, IInv, TypeOK
  <2>2. CASE \E p \in Pairs : RouteCheck(j, p)
    BY <2>2 DEF RouteCheck, bridgeVars, Unseen, IInv, TypeOK, RowInv
  <2>3. CASE RouteNotFound(j) \/ RouteInsert(j) \/ RouteRollback(j)
    BY <2>3 DEF RouteNotFound, RouteInsert, RouteRollback, bridgeVars, Unseen
  <2>. QED
    BY <1>1, <2>1, <2>2, <2>3 DEF RouteStep
<1>2. ASSUME NEW c \in Cancels, CancelStep(c)
      PROVE  Unseen \/ \E j \in Jobs : Written(j)
  <2>1. CASE CancelCommit(c) \/ CancelCommitLost(c)
    BY <2>1 DEF CancelCommit, CancelCommitLost, apiVars, bridgeVars, Written, IInv, TypeOK, CancelInv
  <2>2. CASE CancelNotFound(c) \/ (\E j \in Jobs : CancelUpdate(c, j)) \/ CancelRollback(c)
    BY <2>2 DEF CancelNotFound, CancelUpdate, CancelRollback, apiVars, bridgeVars, Unseen
  <2>. QED
    BY <1>2, <2>1, <2>2 DEF CancelStep
<1>3. ASSUME NEW w \in Workers, WorkerStep(w)
      PROVE  Unseen \/ \E j \in Jobs : Written(j)
  <2>1. worker[w] # "idle" => holds[w] \in Jobs
    BY DEF IInv, TypeOK, HoldInv
  <2>2. CASE \/ ClaimCommit(w) \/ ClaimCommitLost(w) \/ UpdateSuccess(w) \/ UpdateFailed(w)
             \/ \E applied \in BOOLEAN : UpdateSuccessError(w, applied)
    BY <2>1, <2>2 DEF ClaimCommit, ClaimCommitLost, UpdateSuccess, UpdateFailed,
       UpdateSuccessError, apiVars, bridgeVars, Written, Unseen, IInv, TypeOK
  <2>3. CASE \/ \E j \in Jobs : ClaimSelect(w, j)
             \/ ClaimRollback(w) \/ UpdateFailedError(w) \/ WorkerCrash(w)
             \/ ValidatePass(w) \/ ValidateFail(w) \/ SendOrder(w) \/ SendError(w) \/ Timeout(w)
             \/ \E answer \in Answers : ReceiveReply(w, answer)
    BY <2>3 DEF ClaimSelect, ClaimRollback, UpdateFailedError, WorkerCrash, ValidatePass,
       ValidateFail, SendOrder, SendError, Timeout, ReceiveReply, apiVars, bridgeVars, Unseen
  <2>. QED
    BY <1>3, <2>2, <2>3 DEF WorkerStep
<1>4. ASSUME BridgeStep
      PROVE  Unseen \/ \E j \in Jobs : Executed(j)
  <2>1. ASSUME NEW w \in Workers, NEW j \in Jobs, NEW outcome \in Outcomes, BridgeExecute(w, j, outcome)
        PROVE  Unseen \/ Executed(j)
    <3>1. UNCHANGED <<pair, status>> /\ status[j] \in Taken /\ fills[j] = 0
      BY <2>1 DEF BridgeExecute, apiVars, IInv, OrderInv
    <3>2. fills' = fills \/ fills' = [fills EXCEPT ![j] = 1]
      BY <2>1, <3>1 DEF BridgeExecute
    <3>. QED
      BY <3>1, <3>2 DEF Unseen, Executed
  <2>2. CASE BridgeCrash
    BY <2>2 DEF BridgeCrash, apiVars, Unseen
  <2>. QED
    BY <1>4, <2>1, <2>2 DEF BridgeStep
<1>5. CASE UNCHANGED vars
  BY <1>5 DEF vars, apiVars, bridgeVars, Unseen
<1>. QED
  BY <1>1, <1>2, <1>3, <1>4, <1>5 DEF Next

\* An unseen step stutters.
LEMMA UnseenStutters ==
    ASSUME IInv, IInv', Unseen
    PROVE  \A p \in Pairs : UNCHANGED <<PairPhase(p), PairTrades(p)>>
<1>. SUFFICES ASSUME NEW p \in Pairs
              PROVE  UNCHANGED <<PairPhase(p), PairTrades(p)>>
  OBVIOUS
<1>1. PhaseInv /\ PhaseInv' /\ TradesInv /\ TradesInv'
  BY PhaseOfPair, TradesOfPair, PTL
<1>2. \A k \in Jobs : status[k] # "ABSENT" => (pair'[k] = p <=> pair[k] = p)
  BY DEF Unseen
<1>3. UNCHANGED PairPhase(p)
  BY <1>1, <1>2 DEF PhaseInv, Unseen
<1>4. \A k \in Jobs : fills[k] = 1 => status[k] # "ABSENT"
  BY DEF IInv, FillInv, Taken
<1>5. \A k \in Jobs : fills[k] \in {0, 1}
  BY DEF IInv, TypeOK, FillInv
<1>6. UNCHANGED PairTrades(p)
  <2>1. CASE \E k \in Jobs : pair[k] = p /\ fills[k] = 1
    BY <1>1, <1>2, <1>4, <2>1 DEF TradesInv, Unseen
  <2>2. CASE \A k \in Jobs : pair[k] = p => fills[k] = 0
    <3>1. \A k \in Jobs : pair'[k] = p => fills'[k] = 0
      BY <1>2, <1>4, <1>5, <2>2 DEF Unseen
    <3>. QED
      BY <1>1, <2>2, <3>1 DEF TradesInv
  <2>. QED
    BY <1>5, <2>1, <2>2
<1>. QED
  BY <1>3, <1>6

\* Writing a status is a step of the job's pair, or a stutter.
LEMMA WrittenImplements ==
    ASSUME IInv, IInv', NEW j \in Jobs, Written(j), StatusMove(j)
    PROVE  [Abstract!Next]_(Abstract!vars)
<1>1. PhaseInv /\ PhaseInv' /\ TradesInv /\ TradesInv'
  BY PhaseOfPair, TradesOfPair, PTL
<1>2. status \in [Jobs -> JobStatuses] /\ status' \in [Jobs -> JobStatuses]
  BY DEF IInv, TypeOK
<1>3. \A k \in Jobs : k # j => status'[k] = status[k]
  BY <1>2 DEF Written
<1>4. UNCHANGED pair
  BY DEF Written
<1>5. \A p \in Pairs : UNCHANGED PairTrades(p)
  BY DEF PairTrades, Written
<1>6. \A p \in Pairs : p # pair[j] => UNCHANGED PairPhase(p)
  BY <1>1, <1>3, <1>4 DEF PhaseInv
<1>7. CASE status'[j] = status[j]
  <2>1. \A p \in Pairs : UNCHANGED PairPhase(p)
    BY <1>1, <1>3, <1>4, <1>7 DEF PhaseInv
  <2>. QED
    BY <1>5, <2>1 DEF Abstract!vars
<1>8. CASE status'[j] # status[j]
  <2>1. PICK p \in Pairs : p = pair[j]
    BY <1>2, <1>4, <1>8 DEF StatusMove, IInv, RowInv, Present
  <2>2. p = pair'[j] /\ status'[j] # "ABSENT"
    BY <1>4, <1>8, <2>1 DEF StatusMove
  <2>3. PairPhase(p)' = PhaseOf(status'[j])
    BY <1>1, <2>2 DEF PhaseInv
  <2>4. \A q \in Pairs : q # p => UNCHANGED PairPhase(q)
    BY <1>6, <2>1
  <2>5. CASE status[j] = "ABSENT"
    <3>1. \A k \in Jobs : pair[k] = p => status[k] = "ABSENT"
      BY <1>3, <1>4, <2>1, <2>2, <2>5 DEF IInv, UniqueInv, Present
    <3>2. PairPhase(p) = "none"
      BY <1>1, <3>1 DEF PhaseInv
    <3>3. PairPhase(p)' = "queued"
      BY <1>8, <2>3, <2>5 DEF StatusMove, PhaseOf
    <3>4. Abstract!Queue(p)
      BY <1>5, <2>4, <3>2, <3>3 DEF Abstract!Queue
    <3>. QED
      BY <3>4 DEF Abstract!Next
  <2>6. CASE status[j] # "ABSENT"
    <3>1. PairPhase(p) = PhaseOf(status[j])
      BY <1>1, <2>1, <2>6 DEF PhaseInv
    <3>2. CASE status[j] = "PENDING" /\ status'[j] = "CANCELLED"
      <4>1. PairPhase(p) = "queued" /\ PairPhase(p)' = "cancelled"
        BY <2>3, <3>1, <3>2 DEF PhaseOf
      <4>2. Abstract!Cancel(p)
        BY <1>5, <2>4, <4>1 DEF Abstract!Cancel
      <4>. QED
        BY <4>2 DEF Abstract!Next
    <3>3. CASE status[j] = "PENDING" /\ status'[j] = "CLAIMED"
      <4>1. PairPhase(p) = "queued" /\ PairPhase(p)' = "taken"
        BY <2>3, <3>1, <3>3 DEF PhaseOf
      <4>2. Abstract!Take(p)
        BY <1>5, <2>4, <4>1 DEF Abstract!Take
      <4>. QED
        BY <4>2 DEF Abstract!Next
    <3>4. CASE status[j] \in Taken /\ status'[j] \in Taken
      <4>1. PairPhase(p) = "taken" /\ PairPhase(p)' = "taken"
        BY <2>3, <3>1, <3>4 DEF PhaseOf, Taken
      <4>2. \A q \in Pairs : UNCHANGED PairPhase(q)
        BY <2>4, <4>1
      <4>. QED
        BY <1>5, <4>2 DEF Abstract!vars
    <3>. QED
      BY <1>8, <2>6, <3>2, <3>3, <3>4 DEF StatusMove, Taken
  <2>. QED
    BY <2>5, <2>6
<1>. QED
  BY <1>7, <1>8

\* A trade at the broker is the trade of the job's pair.
LEMMA ExecutedImplements ==
    ASSUME IInv, IInv', NEW j \in Jobs, Executed(j)
    PROVE  Abstract!Next
<1>1. PhaseInv /\ TradesInv /\ TradesInv'
  BY PhaseOfPair, TradesOfPair, PTL
<1>2. PICK p \in Pairs : p = pair[j]
  BY DEF Executed, IInv, RowInv, Present, Taken
<1>3. \A q \in Pairs : UNCHANGED PairPhase(q)
  BY DEF PairPhase, RowsFor, Executed
<1>4. PairPhase(p) = "taken"
  BY <1>1, <1>2 DEF PhaseInv, PhaseOf, Taken, Executed
<1>5. \A k \in Jobs : fills[k] \in {0, 1}
  BY DEF IInv, TypeOK, FillInv
<1>6. \A k \in Jobs : pair[k] = p => fills[k] = 0
  BY <1>2, <1>5 DEF IInv, UniqueInv, FillInv, Present, Taken, Executed
<1>7. PairTrades(p) = {}
  BY <1>1, <1>6 DEF TradesInv
<1>8. \A k \in Jobs : fills'[k] = (IF k = j THEN 1 ELSE fills[k]) /\ pair'[k] = pair[k]
  BY DEF Executed, IInv, TypeOK
<1>9. PairTrades(p)' = {<<j, 1>>}
  BY <1>1, <1>2, <1>8 DEF TradesInv
<1>10. \A q \in Pairs : q # p => UNCHANGED PairTrades(q)
  <2>1. SUFFICES ASSUME NEW q \in Pairs, q # p
                 PROVE  UNCHANGED PairTrades(q)
    OBVIOUS
  <2>2. CASE \E k \in Jobs : pair[k] = q /\ fills[k] = 1
    BY <1>1, <1>2, <1>8, <2>1, <2>2 DEF TradesInv
  <2>3. CASE \A k \in Jobs : pair[k] = q => fills[k] = 0
    BY <1>1, <1>2, <1>8, <2>1, <2>3 DEF TradesInv
  <2>. QED
    BY <1>5, <2>2, <2>3
<1>11. Abstract!Trade(p, <<j, 1>>)
  BY <1>3, <1>4, <1>7, <1>9, <1>10 DEF Abstract!Trade
<1>12. <<j, 1>> \in Jobs \X {1}
  OBVIOUS
<1>. QED
  BY <1>11, <1>12 DEF Abstract!Next

\* The pipeline implements TradeOnce.
THEOREM Refinement == Spec => ImplementsTradeOnce
<1>1. Init => Abstract!Init
  BY DEF Init, Abstract!Init, PairPhase, RowsFor, PairTrades
<1>2. IInv /\ IInv' /\ [Next]_vars => [Abstract!Next]_(Abstract!vars)
  <2>. SUFFICES ASSUME IInv, IInv', [Next]_vars
                PROVE  [Abstract!Next]_(Abstract!vars)
    OBVIOUS
  <2>1. CASE Unseen
    BY <2>1, UnseenStutters DEF Abstract!vars
  <2>2. ASSUME NEW j \in Jobs, Written(j)
        PROVE  [Abstract!Next]_(Abstract!vars)
    BY <2>2, WrittenImplements, StatusStep
  <2>3. ASSUME NEW j \in Jobs, Executed(j)
        PROVE  [Abstract!Next]_(Abstract!vars)
    BY <2>3, ExecutedImplements
  <2>. QED
    BY <2>1, <2>2, <2>3, StepSeen
<1>. QED
  BY <1>1, <1>2, Invariance, PTL DEF Spec, ImplementsTradeOnce, Abstract!Spec

=============================================================================
