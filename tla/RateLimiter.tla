----------------------------- MODULE RateLimiter -----------------------------
(***************************************************************************)
(* The sliding-window rate limiter (app/middleware/rate_limit.py).  Every  *)
(* HTTP request opens a session on the connection pool of                  *)
(* app/services/database.py, counts its client's rows of rate_limit_log,   *)
(* adds a row and commits, with an await at each of these statements; only *)
(* then is it forwarded to its handler.                                    *)
(***************************************************************************)
EXTENDS Integers, FiniteSets

CONSTANTS
    Requests,
    Clients,    \* client_id: the address, as request.state.user_id is set later than this middleware runs
    Limit,      \* limit
    Window,     \* window_seconds
    PoolSize,   \* DB_POOL_SIZE + DB_MAX_OVERFLOW
    MaxTime     \* bound on the clock

ASSUME ConstantsAssumption ==
    /\ IsFiniteSet(Requests)
    /\ Limit \in Nat \ {0}
    /\ Window \in Nat \ {0}
    /\ PoolSize \in Nat \ {0}
    /\ MaxTime \in Nat

VARIABLES
    now,      \* the clock of the API and of the database
    state,    \* state[r]: where request r is
    client,   \* client[r]: its client_id
    since,    \* since[r]: its cutoff
    at,       \* at[r]: created_at of its row
    logged    \* the requests whose row is committed

vars == <<now, state, client, since, at, logged>>

States == {"idle", "waiting", "counted", "inserted", "forwarded", "limited", "error"}

\* The requests whose session holds a connection between two steps.
Connected == {r \in Requests : state[r] \in {"counted", "inserted"}}

\* The committed rows of client c after the cutoff t.
Rows(c, t) == {r \in logged : client[r] = c /\ at[r] > t}

Init ==
    /\ now    = 0
    /\ state  = [r \in Requests |-> "idle"]
    /\ client \in [Requests -> Clients]
    /\ since  = [r \in Requests |-> 0]
    /\ at     = [r \in Requests |-> 0]
    /\ logged = {}

Goto(r, s) == state' = [state EXCEPT ![r] = s]

Tick ==
    /\ now < MaxTime
    /\ now' = now + 1
    /\ UNCHANGED <<state, client, since, at, logged>>

\* The cutoff is computed before the session has a connection.
Arrive(r) ==
    /\ state[r] = "idle"
    /\ Goto(r, "waiting")
    /\ since' = [since EXCEPT ![r] = now - Window]
    /\ UNCHANGED <<now, client, at, logged>>

\* Faulty variant: the count is not restricted to the client.
CountAllClients(r) ==
    /\ state[r] = "waiting"
    /\ Cardinality(Connected) < PoolSize
    /\ Goto(r, IF Cardinality({q \in logged : at[q] > since[r]}) >= Limit THEN "limited" ELSE "counted")
    /\ UNCHANGED <<now, client, since, at, logged>>

\* Faulty variant: > for >=.
CountOffByOne(r) ==
    /\ state[r] = "waiting"
    /\ Cardinality(Connected) < PoolSize
    /\ Goto(r, IF Cardinality(Rows(client[r], since[r])) > Limit THEN "limited" ELSE "counted")
    /\ UNCHANGED <<now, client, since, at, logged>>

\* Faulty variant: a request over the limit waits for room in its window.
CountWaits(r) ==
    /\ state[r] = "waiting"
    /\ Cardinality(Connected) < PoolSize
    /\ Cardinality(Rows(client[r], since[r])) < Limit
    /\ Goto(r, "counted")
    /\ UNCHANGED <<now, client, since, at, logged>>

\* A connection is free; the client's rows are counted.  The refused request
\* gives its connection back.
Count(r) ==
    /\ state[r] = "waiting"
    /\ Cardinality(Connected) < PoolSize
    /\ Goto(r, IF Cardinality(Rows(client[r], since[r])) >= Limit THEN "limited" ELSE "counted")
    /\ UNCHANGED <<now, client, since, at, logged>>

\* No connection within pool_timeout.
PoolTimeout(r) ==
    /\ state[r] = "waiting"
    /\ Cardinality(Connected) >= PoolSize
    /\ Goto(r, "error")
    /\ UNCHANGED <<now, client, since, at, logged>>

\* The connection or the query fails.
CountError(r) ==
    /\ state[r] = "waiting"
    /\ Goto(r, "error")
    /\ UNCHANGED <<now, client, since, at, logged>>

\* Faulty variant: created_at from a clock that runs behind.
InsertLocalTime(r) ==
    /\ state[r] = "counted"
    /\ Goto(r, "inserted")
    /\ at' = [at EXCEPT ![r] = now - 1]
    /\ UNCHANGED <<now, client, since, logged>>

\* The row gets the database's time, in a transaction that is still open.
Insert(r) ==
    /\ state[r] = "counted"
    /\ Goto(r, "inserted")
    /\ at' = [at EXCEPT ![r] = now]
    /\ UNCHANGED <<now, client, since, logged>>

\* The connection is given back; the handler runs.
Commit(r) ==
    /\ state[r] = "inserted"
    /\ Goto(r, "forwarded")
    /\ logged' = logged \union {r}
    /\ UNCHANGED <<now, client, since, at>>

\* A database error, or a lost client: rollback.
Rollback(r) ==
    /\ state[r] \in {"counted", "inserted"}
    /\ Goto(r, "error")
    /\ UNCHANGED <<now, client, since, at, logged>>

\* The commit is applied but its answer is lost.
CommitLost(r) ==
    /\ state[r] = "inserted"
    /\ Goto(r, "error")
    /\ logged' = logged \union {r}
    /\ UNCHANGED <<now, client, since, at>>

RequestStep(r) ==
    \/ Arrive(r)
    \/ Count(r)
    \/ PoolTimeout(r)
    \/ CountError(r)
    \/ Insert(r)
    \/ Commit(r)
    \/ Rollback(r)
    \/ CommitLost(r)

Next == Tick \/ \E r \in Requests : RequestStep(r)

Spec == Init /\ [][Next]_vars

\* A request that waits gets a connection when one is free and times out when
\* none is; the event loop resumes a request whose statement has returned.
Fairness ==
    \A r \in Requests :
        /\ WF_vars(Count(r) \/ PoolTimeout(r))
        /\ WF_vars(Insert(r) \/ Rollback(r))
        /\ WF_vars(Commit(r) \/ Rollback(r) \/ CommitLost(r))

FairSpec == Spec /\ Fairness

-----------------------------------------------------------------------------
(* Properties.                                                             *)

TypeOK ==
    /\ now    \in Nat
    /\ state  \in [Requests -> States]
    /\ client \in [Requests -> Clients]
    /\ since  \in [Requests -> Int]
    /\ at     \in [Requests -> Nat]
    /\ logged \subseteq Requests

\* The requests of client c on record in the window that ends now.
InWindow(c) == Rows(c, now - Window)

\* What the limiter does promise: requests that count before others insert may
\* exceed the limit, but never by more than the other connections of the pool.
WindowBound ==
    \A c \in Clients : Cardinality(InWindow(c)) <= Limit + PoolSize - 1

\* A client is refused only for its own requests: when it was, Limit of them
\* were on record after its cutoff, and rows are never removed.
RefusedAtLimit ==
    \A r \in Requests :
        state[r] = "limited" => Cardinality(Rows(client[r], since[r])) >= Limit

\* A request that came in is forwarded or refused, even when the pool is
\* exhausted.
RequestsAnswered ==
    \A r \in Requests :
        state[r] = "waiting" ~> state[r] \in {"forwarded", "limited", "error"}

=============================================================================
