--------------------------- MODULE Licenses_proofs ---------------------------
(***************************************************************************)
(* Proofs about Licenses, for any requests, users, keys and bounds: who    *)
(* owns the key of a row, what the guard lets pass, and that a user with   *)
(* two active rows keeps them.                                             *)
(***************************************************************************)
EXTENDS Licenses, FiniteSetTheorems, TLAPS

Storing == {"activating", "creating"}

\* A row's request is past its commit, and the row's key is the user's or
\* nobody's.
RowInv ==
    \A r \in rows :
        /\ pc[r] \notin Storing \union {"idle", "deactivating"}
        /\ KeyUser[key[r]] \in {NoUser, user[r]}

\* What a request has found out by the time it is about to store a row.
StoreInv ==
    \A q \in Requests :
        /\ pc[q] \in Storing => KeyUser[key[q]] \in {NoUser, user[q]}
        /\ pc[q] = "creating" => key[q] = EnvKey /\ user[q] = KeyUser[EnvKey]

\* A deactivation has loaded a row of its own user.
LoadInv ==
    \A q \in Requests :
        pc[q] = "deactivating" => loaded[q] \in rows /\ user[loaded[q]] = user[q]

\* license_key_hash is unique among the rows of one run of the API.
UniqueInv ==
    \A q, r \in rows : (key[q] = key[r] /\ salt[q] = salt[r]) => q = r

IInv ==
    /\ TypeOK
    /\ RowInv
    /\ StoreInv
    /\ LoadInv
    /\ UniqueInv
    /\ IsFiniteSet(active)

-----------------------------------------------------------------------------
\* The invariant holds while the table is empty.
LEMMA InitInv == Init => IInv
<1>. SUFFICES ASSUME Init PROVE IInv
  OBVIOUS
<1>1. IsFiniteSet(active)
  BY FS_EmptySet DEF Init
<1>. QED
  BY <1>1 DEF Init, IInv, TypeOK, States, RowInv, Storing, StoreInv, LoadInv, UniqueInv

\* What the first part of a request does, up to its first write: the request
\* leaves "idle" for the state s, with the key k or the row r it has found.
Started(q, u, s, k, r) ==
    /\ pc[q] = "idle"
    /\ pc'     = [pc EXCEPT ![q] = s]
    /\ user'   = [user EXCEPT ![q] = u]
    /\ key'    = [key EXCEPT ![q] = k]
    /\ loaded' = [loaded EXCEPT ![q] = r]
    /\ UNCHANGED <<now, boots, rows, salt, active>>

\* Activation leaves with a key that is the user's or nobody's.
LEMMA ActivateStarts ==
    ASSUME IInv, NEW q \in Requests, NEW u \in Users, NEW k \in Keys, Activate(q, u, k)
    PROVE  \/ \E s \in {"refused", "failed"} : Started(q, u, s, key[q], loaded[q])
           \/ Started(q, u, "activating", k, loaded[q]) /\ KeyUser[k] \in {NoUser, u}
<1>. USE DEF IInv, TypeOK, Activate, Begin, Goto, Started
<1>1. key = [key EXCEPT ![q] = key[q]] /\ loaded = [loaded EXCEPT ![q] = loaded[q]]
  OBVIOUS
<1>2. CASE ~KeyValid(k) \/ KeyUser[k] \notin {NoUser, u} \/ Cardinality(ActiveRows(u)) = 1
  BY <1>1, <1>2
<1>3. CASE ~(~KeyValid(k) \/ KeyUser[k] \notin {NoUser, u} \/ Cardinality(ActiveRows(u)) = 1)
  <2>1. CASE ActiveRows(u) = {}
    BY <1>1, <1>3, <2>1
  <2>2. CASE ActiveRows(u) # {}
    BY <1>1, <1>3, <2>2
  <2>. QED
    BY <2>1, <2>2
<1>. QED
  BY <1>2, <1>3

\* The guard grants with a valid row, and goes on to create one with the
\* environment's key for that key's user only.
LEMMA GuardStarts ==
    ASSUME IInv, NEW q \in Requests, NEW u \in Users, Guard(q, u)
    PROVE  \/ \E s \in {"refused", "failed"} : Started(q, u, s, key[q], loaded[q])
           \/ Started(q, u, "granted", key[q], loaded[q]) /\ ValidRows(u) # {}
           \/ Started(q, u, "creating", EnvKey, loaded[q]) /\ KeyUser[EnvKey] = u
<1>. USE DEF IInv, TypeOK, Started
<1>1. key = [key EXCEPT ![q] = key[q]] /\ loaded = [loaded EXCEPT ![q] = loaded[q]]
  OBVIOUS
<1>2. CASE ValidRows(u) = {} /\ KeyValid(EnvKey) /\ KeyUser[EnvKey] = u
  BY <1>1, <1>2 DEF Guard, Begin, Goto
<1>3. CASE ~(ValidRows(u) = {} /\ KeyValid(EnvKey) /\ KeyUser[EnvKey] = u)
  <2>1. Cardinality({}) # 1
    BY FS_EmptySet
  <2>. DEFINE s == CASE ValidRows(u) = {}              -> "refused"
                     [] Cardinality(ValidRows(u)) = 1 -> "granted"
                     [] OTHER                         -> "failed"
  <2>2. Started(q, u, s, key[q], loaded[q])
    <3>1. Begin(q, u) /\ Goto(q, s) /\ UNCHANGED <<key, now, boots, loaded, rows, salt, active>>
      BY <1>3, Zenon DEF Guard
    <3>. HIDE DEF s
    <3>. QED
      BY <1>1, <3>1 DEF Begin, Goto
  <2>3. s \in {"refused", "failed"} \/ (s = "granted" /\ ValidRows(u) # {})
    BY <2>1, Zenon
  <2>. HIDE DEF s
  <2>. QED
    BY <2>2, <2>3
<1>. QED
  BY <1>2, <1>3

\* A deactivation leaves with the only active row of its user.
LEMMA DeactivateStarts ==
    ASSUME IInv, NEW q \in Requests, NEW u \in Users, Deactivate(q, u)
    PROVE  \/ \E s \in {"refused", "failed"} : Started(q, u, s, key[q], loaded[q])
           \/ \E r \in Requests : Started(q, u, "deactivating", key[q], r) /\ ActiveRows(u) = {r}
<1>. USE DEF IInv, TypeOK, Deactivate, Begin, Goto, Started
<1>1. key = [key EXCEPT ![q] = key[q]] /\ loaded = [loaded EXCEPT ![q] = loaded[q]]
  OBVIOUS
<1>2. CASE Goto(q, "refused") \/ Goto(q, "failed")
  BY <1>1, <1>2
<1>3. CASE \E r \in ActiveRows(u) :
             ActiveRows(u) = {r} /\ Goto(q, "deactivating") /\ loaded' = [loaded EXCEPT ![q] = r]
  BY <1>1, <1>3 DEF ActiveRows
<1>. QED
  BY <1>2, <1>3

\* A request that starts preserves the invariant when what it has found
\* satisfies StoreInv and LoadInv: it has no row yet.
LEMMA StartedInv ==
    ASSUME IInv, NEW q \in Requests, NEW u \in Users, NEW s \in States,
           NEW k \in Keys \union {NoKey}, NEW r \in Requests \union {NoRow},
           Started(q, u, s, k, r),
           s \in Storing => KeyUser[k] \in {NoUser, u},
           s = "creating" => k = EnvKey /\ u = KeyUser[EnvKey],
           s = "deactivating" => r \in rows /\ user[r] = u
    PROVE  IInv'
<1>. USE DEF IInv, Started
<1>1. TypeOK'
  BY DEF TypeOK
<1>2. q \notin rows
  BY DEF RowInv
<1>3. /\ \A p \in Requests : p # q => /\ pc'[p] = pc[p]
                                      /\ user'[p] = user[p]
                                      /\ key'[p] = key[p]
                                      /\ loaded'[p] = loaded[p]
      /\ pc'[q] = s /\ user'[q] = u /\ key'[q] = k /\ loaded'[q] = r
  BY DEF TypeOK
<1>4. RowInv'
  BY <1>2, <1>3 DEF RowInv, TypeOK
<1>5. StoreInv'
  BY <1>3 DEF StoreInv, TypeOK
<1>6. LoadInv'
  BY <1>2, <1>3 DEF LoadInv, TypeOK
<1>7. UniqueInv'
  BY <1>2, <1>3 DEF UniqueInv, TypeOK
<1>. QED
  BY <1>1, <1>4, <1>5, <1>6, <1>7

\* The commit of a new row preserves the invariant: its key is the user's or
\* nobody's, and no row of this run of the API has it.
LEMMA InsertInv ==
    ASSUME IInv, NEW q \in Requests, NEW s \in States \ (Storing \union {"idle", "deactivating"}),
           pc[q] \in Storing, InsertRow(q), Goto(q, s),
           UNCHANGED <<now, boots, user, key, loaded>>
    PROVE  IInv'
<1>. USE DEF IInv, InsertRow, Goto
<1>1. TypeOK'
  BY DEF TypeOK
<1>2. q \notin rows
  BY DEF RowInv
<1>3. /\ \A p \in Requests : pc'[p] = IF p = q THEN s ELSE pc[p]
      /\ \A p \in Requests : salt'[p] = IF p = q THEN boots ELSE salt[p]
  BY DEF TypeOK
<1>4. RowInv'
  BY <1>3 DEF RowInv, StoreInv, TypeOK
<1>5. StoreInv'
  BY <1>3 DEF StoreInv, Storing
<1>6. LoadInv'
  BY <1>3 DEF LoadInv
<1>7. UniqueInv'
  BY <1>2, <1>3 DEF UniqueInv, TypeOK
<1>8. IsFiniteSet(active')
  BY FS_AddElement
<1>. QED
  BY <1>1, <1>4, <1>5, <1>6, <1>7, <1>8

\* The other steps end a request, with or without clearing is_active on a row.
LEMMA EndInv ==
    ASSUME IInv, NEW q \in Requests, Fail(q) \/ Drop(q) \/ DropLost(q)
    PROVE  IInv'
<1>. USE DEF IInv, Fail, Drop, DropLost, Goto
<1>1. /\ pc[q] # "idle"
      /\ \E s \in {"done", "failed"} : pc' = [pc EXCEPT ![q] = s]
      /\ active' \subseteq active
      /\ UNCHANGED <<now, boots, user, key, loaded, rows, salt>>
  OBVIOUS
<1>2. TypeOK'
  BY <1>1 DEF TypeOK, States
<1>3. \A p \in Requests : pc'[p] \in IF p = q THEN {"done", "failed"} ELSE {pc[p]}
  BY <1>1 DEF TypeOK
<1>4. RowInv' /\ StoreInv' /\ LoadInv' /\ UniqueInv'
  BY <1>1, <1>3 DEF RowInv, StoreInv, LoadInv, UniqueInv, Storing, TypeOK
<1>5. IsFiniteSet(active')
  BY <1>1, FS_Subset
<1>. QED
  BY <1>2, <1>4, <1>5

\* Every step preserves the invariant.
LEMMA NextInv == IInv /\ [Next]_vars => IInv'
<1>. SUFFICES ASSUME IInv, [Next]_vars
              PROVE  IInv'
  OBVIOUS
<1>. USE DEF IInv
<1>1. ASSUME NEW q \in Requests, NEW u \in Users, NEW k \in Keys, Activate(q, u, k)
      PROVE  IInv'
  BY <1>1, ActivateStarts, StartedInv DEF TypeOK, States, Storing
<1>2. ASSUME NEW q \in Requests, NEW u \in Users, Guard(q, u)
      PROVE  IInv'
  <2>1. CASE \E s \in {"refused", "failed"} : Started(q, u, s, key[q], loaded[q])
    BY <2>1, StartedInv DEF TypeOK, States, Storing
  <2>2. CASE Started(q, u, "granted", key[q], loaded[q])
    BY <2>2, StartedInv DEF TypeOK, States, Storing
  <2>3. CASE Started(q, u, "creating", EnvKey, loaded[q]) /\ KeyUser[EnvKey] = u
    BY <2>3, StartedInv, KeysAssumption DEF TypeOK, States
  <2>. QED
    BY <1>2, <2>1, <2>2, <2>3, GuardStarts
<1>3. ASSUME NEW q \in Requests, NEW u \in Users, Deactivate(q, u)
      PROVE  IInv'
  <2>1. CASE \E s \in {"refused", "failed"} : Started(q, u, s, key[q], loaded[q])
    BY <2>1, StartedInv DEF TypeOK, States, Storing
  <2>2. ASSUME NEW r \in Requests, Started(q, u, "deactivating", key[q], r), ActiveRows(u) = {r}
        PROVE  IInv'
    <3>1. r \in rows /\ user[r] = u
      BY <2>2 DEF ActiveRows, TypeOK
    <3>. QED
      BY <2>2, <3>1, StartedInv DEF TypeOK, States, Storing
  <2>. QED
    BY <1>3, <2>1, <2>2, DeactivateStarts
<1>4. ASSUME NEW q \in Requests, Store(q) \/ StoreLost(q)
      PROVE  IInv'
  <2>1. PICK s \in {"granted", "done", "failed"} : Goto(q, s)
    BY <1>4 DEF Store, StoreLost
  <2>2. pc[q] \in Storing /\ InsertRow(q) /\ UNCHANGED <<now, boots, user, key, loaded>>
    BY <1>4 DEF Store, StoreLost, Storing
  <2>3. s \in States \ (Storing \union {"idle", "deactivating"})
    BY DEF States, Storing
  <2>. QED
    BY <2>1, <2>2, <2>3, InsertInv
<1>5. ASSUME NEW q \in Requests, Fail(q) \/ Drop(q) \/ DropLost(q)
      PROVE  IInv'
  BY <1>5, EndInv
<1>6. CASE Tick
  BY <1>6 DEF Tick, TypeOK, RowInv, StoreInv, LoadInv, UniqueInv
<1>7. CASE Restart
  <2>1. /\ \A q \in Requests : pc'[q] # pc[q] => pc'[q] = "failed"
        /\ UNCHANGED <<now, user, key, loaded, rows, salt, active>>
    BY <1>7 DEF Restart
  <2>2. TypeOK'
    BY <1>7 DEF Restart, TypeOK, States
  <2>. QED
    BY <2>1, <2>2 DEF RowInv, StoreInv, LoadInv, UniqueInv, Storing, TypeOK
<1>8. CASE UNCHANGED vars
  BY <1>8 DEF vars, TypeOK, RowInv, StoreInv, LoadInv, UniqueInv
<1>. QED
  BY <1>1, <1>2, <1>3, <1>4, <1>5, <1>6, <1>7, <1>8 DEF Next

\* The inductive invariant of the table of licenses.
THEOREM Invariance == Spec => []IInv
  BY InitInv, NextInv, PTL DEF Spec

\* Type correctness; active rows are rows of the table.
THEOREM TypeCorrect == Spec => []TypeOK
<1>1. IInv => TypeOK
  BY DEF IInv
<1>. QED
  BY <1>1, Invariance, PTL

\* A license never changes hands, by activation or through the environment's
\* key, across restarts and requests that overlap.
THEOREM KeysStayOwned == Spec => []KeysOwned
<1>1. IInv => KeysOwned
  BY DEF IInv, RowInv, UniqueInv, KeysOwned
<1>. QED
  BY <1>1, Invariance, PTL

-----------------------------------------------------------------------------
\* Only the guard grants: on a valid row, or on the row it stores.
Granted(q) ==
    (pc'[q] = "granted" /\ pc[q] # "granted") =>
        \/ ValidRows(user'[q]) # {}
        \/ q \in active' /\ key[q] = EnvKey /\ user[q] = KeyUser[EnvKey]

\* A request passes the guard with an active, unexpired license of its user,
\* found in the table or stored now under the environment's key.
THEOREM GrantedLicensed == Spec => GrantedIsLicensed
<1>1. IInv /\ [Next]_vars => [\A q \in Requests : Granted(q)]_vars
  <2>. SUFFICES ASSUME IInv, Next, NEW p \in Requests
                PROVE  Granted(p)
    OBVIOUS
  <2>. USE DEF Granted, IInv
  <2>1. ASSUME NEW q \in Requests, NEW u \in Users, NEW k \in Keys, Activate(q, u, k)
        PROVE  Granted(p)
    BY <2>1, ActivateStarts DEF Started, TypeOK
  <2>2. ASSUME NEW q \in Requests, NEW u \in Users, Guard(q, u)
        PROVE  Granted(p)
    BY <2>2, GuardStarts DEF Started, TypeOK
  <2>3. ASSUME NEW q \in Requests, NEW u \in Users, Deactivate(q, u)
        PROVE  Granted(p)
    BY <2>3, DeactivateStarts DEF Started, TypeOK
  <2>4. ASSUME NEW q \in Requests, Store(q) \/ StoreLost(q)
        PROVE  Granted(p)
    BY <2>4 DEF Store, StoreLost, InsertRow, Goto, StoreInv, TypeOK
  <2>5. ASSUME NEW q \in Requests, Fail(q) \/ Drop(q) \/ DropLost(q)
        PROVE  Granted(p)
    BY <2>5 DEF Fail, Drop, DropLost, Goto, TypeOK
  <2>6. CASE Tick \/ Restart
    BY <2>6 DEF Tick, Restart, TypeOK
  <2>. QED
    BY <2>1, <2>2, <2>3, <2>4, <2>5, <2>6 DEF Next
<1>2. [\A q \in Requests : Granted(q)]_vars => [\A q \in Requests :
          (pc'[q] = "granted" /\ pc[q] # "granted") =>
              \/ ValidRows(user'[q]) # {}
              \/ q \in active' /\ key[q] = EnvKey /\ user[q] = KeyUser[EnvKey]]_vars
  BY DEF Granted
<1>. QED
  BY <1>1, <1>2, Invariance, PTL DEF Spec, GrantedIsLicensed

-----------------------------------------------------------------------------
\* More active rows do not make fewer.
LEMMA MoreRows ==
    ASSUME IInv, IInv', NEW u \in Users,
           Cardinality(ActiveRows(u)) > 1, ActiveRows(u) \subseteq ActiveRows(u)'
    PROVE  Cardinality(ActiveRows(u)') > 1
<1>1. IsFiniteSet(ActiveRows(u)) /\ IsFiniteSet(ActiveRows(u)')
  BY FS_Subset DEF IInv, ActiveRows
<1>2. /\ Cardinality(ActiveRows(u)) <= Cardinality(ActiveRows(u)')
      /\ Cardinality(ActiveRows(u)) \in Nat
      /\ Cardinality(ActiveRows(u)') \in Nat
  BY <1>1, FS_Subset, FS_CardinalityType
<1>. QED
  BY <1>2

\* A step takes no row from a user who is locked out, and no deactivation of
\* that user gets as far as its write.
LEMMA LockedOutStep ==
    ASSUME IInv, [Next]_vars, NEW u \in Users, LockedOut(u)
    PROVE  /\ ActiveRows(u) \subseteq ActiveRows(u)'
           /\ \A p \in Requests : ~(pc'[p] = "deactivating" /\ user'[p] = u)
<1>. USE DEF LockedOut, ActiveRows, IInv
<1>. DEFINE Kept == /\ ActiveRows(u) \subseteq ActiveRows(u)'
                    /\ \A p \in Requests : ~(pc'[p] = "deactivating" /\ user'[p] = u)
<1>1. ASSUME NEW q \in Requests, NEW v \in Users, NEW s \in {"refused", "failed", "granted"} \union Storing,
             NEW k, NEW r, Started(q, v, s, k, r)
      PROVE  Kept
  <2>1. q \notin active
    BY <1>1 DEF Started, RowInv, TypeOK
  <2>. QED
    BY <1>1, <2>1 DEF Started, TypeOK, Storing
<1>2. ASSUME NEW q \in Requests, NEW v \in Users, NEW k \in Keys, Activate(q, v, k)
      PROVE  Kept
  BY <1>1, <1>2, ActivateStarts DEF Storing
<1>3. ASSUME NEW q \in Requests, NEW v \in Users, Guard(q, v)
      PROVE  Kept
  BY <1>1, <1>3, GuardStarts DEF Storing
<1>4. ASSUME NEW q \in Requests, NEW v \in Users, Deactivate(q, v)
      PROVE  Kept
  <2>1. CASE \E s \in {"refused", "failed"} : Started(q, v, s, key[q], loaded[q])
    BY <1>1, <2>1
  <2>2. ASSUME NEW r \in Requests, Started(q, v, "deactivating", key[q], r), ActiveRows(v) = {r}
        PROVE  Kept
    <3>1. u # v
      BY <2>2, FS_Singleton
    <3>2. q \notin active
      BY <2>2 DEF Started, RowInv, TypeOK
    <3>. QED
      BY <2>2, <3>1, <3>2 DEF Started, TypeOK
  <2>. QED
    BY <1>4, <2>1, <2>2, DeactivateStarts
<1>5. ASSUME NEW q \in Requests, Store(q) \/ StoreLost(q)
      PROVE  Kept
  BY <1>5 DEF Store, StoreLost, InsertRow, Goto, TypeOK
<1>6. ASSUME NEW q \in Requests, Fail(q) \/ Drop(q) \/ DropLost(q)
      PROVE  Kept
  <2>1. /\ UNCHANGED user
        /\ \A p \in Requests : pc'[p] = "deactivating" => pc[p] = "deactivating"
    BY <1>6 DEF Fail, Drop, DropLost, Goto, TypeOK
  <2>2. CASE Fail(q)
    BY <2>1, <2>2 DEF Fail
  <2>3. CASE Drop(q) \/ DropLost(q)
    <3>1. pc[q] = "deactivating" /\ active' = active \ {loaded[q]}
      BY <2>3 DEF Drop, DropLost
    <3>2. user[loaded[q]] # u
      BY <3>1 DEF LoadInv
    <3>. QED
      BY <2>1, <3>1, <3>2
  <2>. QED
    BY <1>6, <2>2, <2>3
<1>7. CASE Tick \/ Restart \/ UNCHANGED vars
  BY <1>7 DEF Tick, Restart, vars
<1>. QED
  BY <1>2, <1>3, <1>4, <1>5, <1>6, <1>7 DEF Next

\* A user with two active rows stays locked out of activation and deactivation,
\* across restarts.
THEOREM LockedOutForEver == Spec => LockedOutStays
<1>1. IInv /\ IInv' /\ [Next]_vars => [\A u \in Users : LockedOut(u) => LockedOut(u)']_vars
  <2>. SUFFICES ASSUME IInv, IInv', [Next]_vars, NEW u \in Users, LockedOut(u)
                PROVE  LockedOut(u)'
    OBVIOUS
  <2>1. /\ ActiveRows(u) \subseteq ActiveRows(u)'
        /\ \A p \in Requests : ~(pc'[p] = "deactivating" /\ user'[p] = u)
    BY LockedOutStep
  <2>2. Cardinality(ActiveRows(u)') > 1
    BY <2>1, MoreRows DEF LockedOut
  <2>. QED
    BY <2>1, <2>2 DEF LockedOut
<1>. QED
  BY <1>1, Invariance, PTL DEF Spec, LockedOutStays

=============================================================================
