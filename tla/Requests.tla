------------------------------ MODULE Requests ------------------------------
(***************************************************************************)
(* How a request of the API goes: it reads, awaiting, in one session, and  *)
(* is refused, or has something to commit.  Until the commit nothing is    *)
(* visible to others, and the commit may fail.  Authentication and the     *)
(* license guard have let the request through.                             *)
(***************************************************************************)
EXTENDS Naturals

CONSTANTS
    Requests,  \* a request that inserts a row names it
    Users,
    Null

VARIABLES
    pc,      \* pc[q]: where request q is
    op,      \* op[q]: its endpoint, and its arguments unless it ended without effect
    loaded,  \* loaded[q]: the row its session has read, or is about to insert
    before   \* before[q]: the requests that had ended when q read, if it went on

States == {"idle", "ready", "masking", "answered", "refused", "failed"}
Ended  == {"answered", "refused", "failed"}

RequestsInit ==
    /\ pc     = [q \in Requests |-> "idle"]
    /\ op     = [q \in Requests |-> [name |-> "none"]]
    /\ loaded = [q \in Requests |-> Null]
    /\ before = [q \in Requests |-> {}]

\* q, with arguments o, has read row and goes to s.
Begin(q, o, s, row) ==
    /\ pc[q] = "idle"
    /\ pc'     = [pc EXCEPT ![q] = s]
    /\ op'     = [op EXCEPT ![q] = IF s = "ready" THEN o ELSE [name |-> o.name]]
    /\ loaded' = [loaded EXCEPT ![q] = IF s = "ready" THEN row ELSE Null]
    /\ before' = [before EXCEPT ![q] = IF s = "ready" THEN {r \in Requests : pc[r] \in Ended} ELSE {}]

Ready(q, names) == pc[q] = "ready" /\ op[q].name \in names

End(q, s, o) ==
    /\ pc'     = [pc EXCEPT ![q] = s]
    /\ op'     = [op EXCEPT ![q] = o]
    /\ loaded' = [loaded EXCEPT ![q] = Null]
    /\ UNCHANGED before

\* The commit is applied.  Whether the refresh after it and the answer succeed
\* makes no difference to anybody: no client of the repository repeats a request.
Committed(q) == End(q, "answered", op[q])

\* get_async_db rolls back: an error, or the client or the API is gone.
Rollback(q) ==
    /\ pc[q] \in {"ready", "masking"}
    /\ End(q, "failed", [name |-> op[q].name])

\* Attributes set to what they were are not written.
Written(row, patch, read) ==
    [f \in DOMAIN row |-> IF f \in DOMAIN patch /\ patch[f] # read[f] THEN patch[f] ELSE row[f]]

Without(table, id) == [i \in DOMAIN table \ {id} |-> table[i]]
Plus(table, id, row) == [i \in DOMAIN table \union {id} |-> IF i = id THEN row ELSE table[i]]

=============================================================================
