------------------------- MODULE RateLimiter_proofs --------------------------
(***************************************************************************)
(* Proof that the rate limiter exceeds its limit by less than the size of  *)
(* the connection pool, for every number of requests and clients.          *)
(*                                                                         *)
(* A client is charged with its rows in the window, written or about to be *)
(* written.  The charge grows only in Count, where the committed rows are  *)
(* fewer than Limit and all the others belong to connected requests.       *)
(***************************************************************************)
EXTENDS RateLimiter, FiniteSetTheorems, TLAPS

\* The requests of client c that are, or are about to be, on record in the window.
Charged(c) ==
    {r \in Requests :
        /\ client[r] = c
        /\ \/ state[r] = "counted"
           \/ (state[r] = "inserted" \/ r \in logged) /\ at[r] > now - Window}

\* A row is committed last, and a cutoff is never later than the window's.
OrderInv ==
    /\ \A r \in logged : state[r] \in {"forwarded", "error"}
    /\ \A r \in Requests : state[r] = "waiting" => since[r] <= now - Window

PoolInv == Cardinality(Connected) <= PoolSize

ChargeInv == \A c \in Clients : Cardinality(Charged(c)) <= Limit + PoolSize - 1

IInv == TypeOK /\ OrderInv /\ PoolInv /\ ChargeInv

-----------------------------------------------------------------------------
\* Every set of requests is finite and no larger than a set of requests that
\* contains it (Charged, Connected, Rows).
LEMMA Smaller ==
    ASSUME NEW S \in SUBSET Requests, NEW T \in SUBSET S
    PROVE  /\ IsFiniteSet(S) /\ IsFiniteSet(T)
           /\ Cardinality(S) \in Nat /\ Cardinality(T) \in Nat
           /\ Cardinality(T) <= Cardinality(S)
<1>1. IsFiniteSet(S)
  BY FS_Subset, ConstantsAssumption
<1>2. QED
  BY <1>1, FS_Subset, FS_CardinalityType

\* The union of two sets of requests is no larger than the two together.
LEMMA Together ==
    ASSUME NEW S \in SUBSET Requests, NEW T \in SUBSET Requests
    PROVE  Cardinality(S \union T) <= Cardinality(S) + Cardinality(T)
<1>1. IsFiniteSet(S) /\ IsFiniteSet(T) /\ IsFiniteSet(S \cap T)
  BY Smaller
<1>2. Cardinality(S \union T) = Cardinality(S) + Cardinality(T) - Cardinality(S \cap T)
  BY <1>1, FS_Union
<1>3. Cardinality(S) \in Nat /\ Cardinality(T) \in Nat /\ Cardinality(S \cap T) \in Nat
  BY <1>1, FS_CardinalityType
<1>4. QED
  BY <1>2, <1>3

\* The invariant holds when no request has come in.
LEMMA InitInv == Init => IInv
<1> SUFFICES ASSUME Init PROVE IInv
  OBVIOUS
<1>1. TypeOK /\ OrderInv
  BY DEF Init, TypeOK, States, OrderInv
<1>2. Connected = {} /\ \A c \in Clients : Charged(c) = {}
  BY DEF Init, Connected, Charged
<1>3. Cardinality({}) = 0
  BY FS_EmptySet
<1>4. PoolInv /\ ChargeInv
  BY <1>2, <1>3, ConstantsAssumption DEF PoolInv, ChargeInv
<1>5. QED
  BY <1>1, <1>4 DEF IInv

\* The types and the order of a request's steps are kept by every step.
LEMMA ShapeStep == IInv /\ [Next]_vars => TypeOK' /\ OrderInv'
<1> SUFFICES ASSUME IInv, [Next]_vars PROVE TypeOK' /\ OrderInv'
  OBVIOUS
<1> USE ConstantsAssumption DEF IInv, TypeOK, OrderInv, States, Goto
<1>1. CASE Tick
  BY <1>1 DEF Tick
<1>2. ASSUME NEW r \in Requests, Arrive(r) PROVE TypeOK' /\ OrderInv'
  BY <1>2 DEF Arrive
<1>3. ASSUME NEW r \in Requests, Count(r) PROVE TypeOK' /\ OrderInv'
  BY <1>3 DEF Count
<1>4. ASSUME NEW r \in Requests, PoolTimeout(r) PROVE TypeOK' /\ OrderInv'
  BY <1>4 DEF PoolTimeout
<1>4a. ASSUME NEW r \in Requests, CountError(r) PROVE TypeOK' /\ OrderInv'
  BY <1>4a DEF CountError
<1>5. ASSUME NEW r \in Requests, Insert(r) PROVE TypeOK' /\ OrderInv'
  BY <1>5 DEF Insert
<1>6. ASSUME NEW r \in Requests, Commit(r) PROVE TypeOK' /\ OrderInv'
  BY <1>6 DEF Commit
<1>7. ASSUME NEW r \in Requests, Rollback(r) PROVE TypeOK' /\ OrderInv'
  BY <1>7 DEF Rollback
<1>8. ASSUME NEW r \in Requests, CommitLost(r) PROVE TypeOK' /\ OrderInv'
  BY <1>8 DEF CommitLost
<1>9. CASE UNCHANGED vars
  BY <1>9 DEF vars
<1>10. QED
  BY <1>1, <1>2, <1>3, <1>4, <1>4a, <1>5, <1>6, <1>7, <1>8, <1>9 DEF Next, RequestStep

\* A step that connects nobody and charges nobody keeps both bounds.
LEMMA Shrinks ==
    ASSUME IInv,
           Connected' \subseteq Connected,
           \A c \in Clients : Charged(c)' \subseteq Charged(c)
    PROVE  PoolInv' /\ ChargeInv'
<1>1. PoolInv'
  <2>1. Connected \in SUBSET Requests /\ Connected' \in SUBSET Connected
    BY DEF Connected
  <2>2. Cardinality(Connected') <= Cardinality(Connected)
    BY <2>1, Smaller
  <2>3. Cardinality(Connected') \in Nat /\ Cardinality(Connected) \in Nat
    BY <2>1, Smaller
  <2>4. QED
    BY <2>2, <2>3, ConstantsAssumption DEF IInv, PoolInv
<1>2. ASSUME NEW c \in Clients PROVE Cardinality(Charged(c)') <= Limit + PoolSize - 1
  <2>1. Charged(c) \in SUBSET Requests /\ Charged(c)' \in SUBSET Charged(c)
    BY DEF Charged
  <2>2. /\ Cardinality(Charged(c)') <= Cardinality(Charged(c))
        /\ Cardinality(Charged(c)') \in Nat
        /\ Cardinality(Charged(c)) \in Nat
    BY <2>1, Smaller
  <2>3. QED
    BY <2>2, ConstantsAssumption DEF IInv, ChargeInv
<1>3. QED
  BY <1>1, <1>2 DEF ChargeInv

\* A request that passes the count takes a free connection, and its client's
\* charge is made of the rows it has counted and of connected requests.
LEMMA CountBounds ==
    ASSUME IInv, TypeOK', NEW r \in Requests, Count(r)
    PROVE  PoolInv' /\ ChargeInv'
<1> USE DEF Goto, IInv, TypeOK
<1> DEFINE seen == Rows(client[r], since[r])
<1>1. Connected \in SUBSET Requests /\ Connected' \in SUBSET Requests /\ seen \in SUBSET Requests
  BY DEF Connected, Rows
<1>2. CASE Cardinality(seen) >= Limit
  <2>1. Connected' \subseteq Connected
    BY <1>2 DEF Count, Connected
  <2>2. \A c \in Clients : Charged(c)' \subseteq Charged(c)
    BY <1>2 DEF Count, Charged
  <2>3. QED
    BY <2>1, <2>2, Shrinks
<1>3. CASE ~(Cardinality(seen) >= Limit)
  <2>1. state' = [state EXCEPT ![r] = "counted"] /\ UNCHANGED <<now, client, since, at, logged>>
    BY <1>3 DEF Count
  <2>2. Connected' \subseteq Connected \union {r}
    BY <2>1 DEF Connected
  <2>3. Cardinality(Connected \union {r}) <= Cardinality(Connected) + 1
    <3>1. Cardinality({r}) = 1
      BY FS_Singleton
    <3>2. QED
      BY <1>1, <3>1, Together
  <2>4. PoolInv'
    <3>1. Cardinality(Connected') <= Cardinality(Connected \union {r})
      BY <1>1, <2>2, Smaller
    <3>2. /\ Cardinality(Connected') \in Nat
          /\ Cardinality(Connected) \in Nat
          /\ Cardinality(Connected \union {r}) \in Nat
      BY <1>1, Smaller
    <3>3. Cardinality(Connected) < PoolSize
      BY DEF Count
    <3>4. QED
      BY <2>3, <3>1, <3>2, <3>3, ConstantsAssumption DEF PoolInv
  <2>5. ASSUME NEW c \in Clients, c # client[r]
        PROVE  Cardinality(Charged(c)') <= Limit + PoolSize - 1
    <3>1. Charged(c)' \in SUBSET Charged(c) /\ Charged(c) \in SUBSET Requests
      BY <2>1, <2>5 DEF Charged
    <3>2. /\ Cardinality(Charged(c)') <= Cardinality(Charged(c))
          /\ Cardinality(Charged(c)') \in Nat
          /\ Cardinality(Charged(c)) \in Nat
      BY <3>1, Smaller
    <3>3. QED
      BY <3>2, ConstantsAssumption DEF ChargeInv
  <2>6. Cardinality(Charged(client[r])') <= Limit + PoolSize - 1
    <3>1. since[r] <= now - Window
      BY DEF Count, OrderInv
    <3>2. Charged(client[r])' \subseteq seen \union Connected'
      BY <2>1, <3>1, ConstantsAssumption DEF Charged, Rows, Connected
    <3>3. Cardinality(Charged(client[r])') <= Cardinality(seen \union Connected')
      BY <1>1, <3>2, Smaller
    <3>4. Cardinality(seen \union Connected') <= Cardinality(seen) + Cardinality(Connected')
      BY <1>1, Together
    <3>5. /\ Charged(client[r])' \in SUBSET Requests
          /\ seen \union Connected' \in SUBSET Requests
      BY <1>1, <3>2
    <3>6. /\ Cardinality(Charged(client[r])') \in Nat
          /\ Cardinality(seen \union Connected') \in Nat
          /\ Cardinality(seen) \in Nat
          /\ Cardinality(Connected') \in Nat
      BY <1>1, <3>5, Smaller
    <3>7. Cardinality(Connected') <= PoolSize
      BY <2>4 DEF PoolInv
    <3>8. QED
      BY <1>3, <3>3, <3>4, <3>6, <3>7, ConstantsAssumption
  <2>7. QED
    BY <2>1, <2>4, <2>5, <2>6 DEF ChargeInv
<1>4. QED
  BY <1>2, <1>3

\* The other steps connect nobody and charge nobody: time only takes rows out
\* of the window, and a row is inserted for a request already charged.
LEMMA OtherBounds ==
    ASSUME IInv, [Next]_vars, \A r \in Requests : ~Count(r)
    PROVE  /\ Connected' \subseteq Connected
           /\ \A c \in Clients : Charged(c)' \subseteq Charged(c)
<1> USE ConstantsAssumption DEF IInv, TypeOK, OrderInv, States, Goto, Connected, Charged
<1> DEFINE Shrunk == /\ Connected' \subseteq Connected
                     /\ \A c \in Clients : Charged(c)' \subseteq Charged(c)
<1>1. CASE Tick
  BY <1>1 DEF Tick
<1>2. ASSUME NEW r \in Requests, Arrive(r) PROVE Shrunk
  BY <1>2 DEF Arrive
<1>3. ASSUME NEW r \in Requests, PoolTimeout(r) PROVE Shrunk
  BY <1>3 DEF PoolTimeout
<1>3a. ASSUME NEW r \in Requests, CountError(r) PROVE Shrunk
  BY <1>3a DEF CountError
<1>4. ASSUME NEW r \in Requests, Insert(r) PROVE Shrunk
  BY <1>4 DEF Insert
<1>5. ASSUME NEW r \in Requests, Commit(r) PROVE Shrunk
  BY <1>5 DEF Commit
<1>6. ASSUME NEW r \in Requests, Rollback(r) PROVE Shrunk
  BY <1>6 DEF Rollback
<1>7. ASSUME NEW r \in Requests, CommitLost(r) PROVE Shrunk
  BY <1>7 DEF CommitLost
<1>8. CASE UNCHANGED vars
  BY <1>8 DEF vars
<1>9. QED
  BY <1>1, <1>2, <1>3, <1>3a, <1>4, <1>5, <1>6, <1>7, <1>8 DEF Next, RequestStep

\* Every step keeps the invariant.
LEMMA NextInv == IInv /\ [Next]_vars => IInv'
<1> SUFFICES ASSUME IInv, [Next]_vars PROVE IInv'
  OBVIOUS
<1>1. TypeOK' /\ OrderInv'
  BY ShapeStep
<1>2. PoolInv' /\ ChargeInv'
  <2>1. CASE \E r \in Requests : Count(r)
    BY <1>1, <2>1, CountBounds
  <2>2. CASE \A r \in Requests : ~Count(r)
    BY <2>2, OtherBounds, Shrinks
  <2>3. QED
    BY <2>1, <2>2
<1>3. QED
  BY <1>1, <1>2 DEF IInv

\* The inductive invariant holds in every reachable state.
THEOREM Invariance == Spec => []IInv
<1>1. QED
  BY InitInv, NextInv, PTL DEF Spec

\* A client has at most Limit + PoolSize - 1 requests on record in a window,
\* whatever the number of concurrent requests (app/middleware/rate_limit.py).
THEOREM WindowBounded == Spec => []WindowBound
<1>1. IInv => WindowBound
  <2> SUFFICES ASSUME IInv, NEW c \in Clients
               PROVE  Cardinality(InWindow(c)) <= Limit + PoolSize - 1
    BY DEF WindowBound
  <2>1. InWindow(c) \in SUBSET Charged(c) /\ Charged(c) \in SUBSET Requests
    BY DEF InWindow, Rows, Charged, IInv, TypeOK
  <2>2. /\ Cardinality(InWindow(c)) <= Cardinality(Charged(c))
        /\ Cardinality(InWindow(c)) \in Nat
        /\ Cardinality(Charged(c)) \in Nat
    BY <2>1, Smaller
  <2>3. QED
    BY <2>2, ConstantsAssumption DEF IInv, ChargeInv
<1>2. QED
  BY <1>1, Invariance, PTL

\* Type correctness.
THEOREM TypeCorrect == Spec => []TypeOK
<1>1. IInv => TypeOK
  BY DEF IInv
<1>2. QED
  BY <1>1, Invariance, PTL

-----------------------------------------------------------------------------
\* A committed row keeps its client and its time: only a request that has not
\* committed yet is given one.  Hence a count of rows after a cutoff only grows.
LEMMA RowsGrow ==
    ASSUME IInv, [Next]_vars, NEW c \in Clients, NEW t \in Int
    PROVE  Rows(c, t) \subseteq Rows(c, t)'
<1> USE DEF IInv, TypeOK, OrderInv, Goto, Rows
<1>1. CASE Tick
  BY <1>1 DEF Tick
<1>2. ASSUME NEW r \in Requests, Arrive(r) \/ Count(r) \/ PoolTimeout(r) \/ CountError(r) \/ Rollback(r)
      PROVE  Rows(c, t) \subseteq Rows(c, t)'
  BY <1>2 DEF Arrive, Count, PoolTimeout, CountError, Rollback
<1>3. ASSUME NEW r \in Requests, Insert(r)
      PROVE  Rows(c, t) \subseteq Rows(c, t)'
  <2>1. r \notin logged
    BY <1>3 DEF Insert
  <2>2. QED
    BY <1>3, <2>1 DEF Insert
<1>4. ASSUME NEW r \in Requests, Commit(r) \/ CommitLost(r)
      PROVE  Rows(c, t) \subseteq Rows(c, t)'
  BY <1>4 DEF Commit, CommitLost
<1>5. CASE UNCHANGED vars
  BY <1>5 DEF vars
<1>6. QED
  BY <1>1, <1>2, <1>3, <1>4, <1>5 DEF Next, RequestStep

\* Only the count refuses a request; afterwards its cutoff stays.
LEMMA RefusedStep ==
    ASSUME IInv, [Next]_vars, NEW r \in Requests, state'[r] = "limited"
    PROVE  /\ client'[r] = client[r] /\ since'[r] = since[r]
           /\ state[r] = "limited" \/ (Count(r) /\ Cardinality(Rows(client[r], since[r])) >= Limit)
<1> USE DEF IInv, TypeOK, Goto
<1>1. CASE Tick
  BY <1>1 DEF Tick
<1>2. ASSUME NEW q \in Requests, Count(q), q # r
      PROVE  state[r] = "limited" /\ client'[r] = client[r] /\ since'[r] = since[r]
  BY <1>2 DEF Count
<1>3. CASE Count(r)
  <2>1. Cardinality(Rows(client[r], since[r])) >= Limit
    BY <1>3 DEF Count
  <2>2. QED
    BY <1>3, <2>1 DEF Count
<1>4. ASSUME NEW q \in Requests,
             \/ Arrive(q) \/ PoolTimeout(q) \/ CountError(q) \/ Insert(q)
             \/ Commit(q) \/ Rollback(q) \/ CommitLost(q)
      PROVE  state[r] = "limited" /\ client'[r] = client[r] /\ since'[r] = since[r]
  BY <1>4 DEF Arrive, PoolTimeout, CountError, Insert, Commit, Rollback, CommitLost
<1>5. CASE UNCHANGED vars
  BY <1>5 DEF vars
<1>6. QED
  BY <1>1, <1>2, <1>3, <1>4, <1>5 DEF Next, RequestStep

\* A refused client had used its limit, whatever other clients and concurrent
\* requests did: the rows it was refused for are still on record.
THEOREM RefusedRightly == Spec => []RefusedAtLimit
<1>1. Init => RefusedAtLimit
  BY DEF Init, RefusedAtLimit
<1>2. IInv /\ IInv' /\ [Next]_vars /\ RefusedAtLimit => RefusedAtLimit'
  <2> SUFFICES ASSUME IInv, IInv', [Next]_vars, RefusedAtLimit,
                      NEW r \in Requests, state'[r] = "limited"
               PROVE  Cardinality(Rows(client[r], since[r])') >= Limit
    BY DEF RefusedAtLimit
  <2>1. PICK c \in Clients, t \in Int : c = client[r] /\ t = since[r]
    BY DEF IInv, TypeOK
  <2>2. c = client'[r] /\ t = since'[r] /\ Cardinality(Rows(c, t)) >= Limit
    BY <2>1, RefusedStep DEF RefusedAtLimit
  <2>3. Rows(c, t) \in SUBSET Rows(c, t)' /\ Rows(c, t)' \in SUBSET Requests
    <3>1. Rows(c, t) \subseteq Rows(c, t)'
      BY RowsGrow
    <3>2. Rows(c, t)' \in SUBSET Requests
      BY DEF Rows, IInv, TypeOK
    <3>3. QED
      BY <3>1, <3>2
  <2>4. /\ Cardinality(Rows(c, t)) <= Cardinality(Rows(c, t)')
        /\ Cardinality(Rows(c, t)) \in Nat
        /\ Cardinality(Rows(c, t)') \in Nat
    BY <2>3, Smaller
  <2>5. Cardinality(Rows(c, t)') >= Limit
    BY <2>2, <2>4, ConstantsAssumption
  <2>6. Rows(c, t)' = Rows(client[r], since[r])'
    BY <2>2 DEF Rows
  <2>7. QED
    BY <2>5, <2>6
<1>3. QED
  BY <1>1, <1>2, Invariance, PTL DEF Spec

=============================================================================
