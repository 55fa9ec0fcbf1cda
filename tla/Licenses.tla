------------------------------ MODULE Licenses ------------------------------
(***************************************************************************)
(* The table licenses and the requests that read and write it: activation  *)
(* and deactivation (app/routes/v1/license.py) and the dependency          *)
(* require_valid_license (app/dependencies.py), which every protected      *)
(* route runs first and which creates a row for the key of the             *)
(* environment.  Each of them selects, awaits, and then writes.            *)
(*                                                                         *)
(* license_key_hash is Python's hash() of the key, which is salted anew in *)
(* every process: the unique constraint on it holds within one run of the  *)
(* API.  scalar_one_or_none raises when there are several rows.            *)
(***************************************************************************)
EXTENDS Integers, FiniteSets

CONSTANTS
    Requests,   \* a request that inserts names the row it inserts
    Users,
    Keys,       \* license keys with a valid signature
    EnvKey,     \* settings.LICENSE_KEY
    KeyUser,    \* KeyUser[k]: the user_id in the key's payload, or NoUser
    Expires,    \* Expires[k]: the expires_at in it
    NoUser,
    NoKey,
    NoRow,
    MaxTime,    \* bound on the clock
    MaxBoots    \* bound on the restarts of the API

ASSUME KeysAssumption ==
    /\ EnvKey \in Keys
    /\ KeyUser \in [Keys -> Users \union {NoUser}]
    /\ Expires \in [Keys -> Nat]
    /\ NoUser \notin Users
    /\ NoRow \notin Requests

VARIABLES
    now,      \* datetime.utcnow()
    boots,    \* restarts of the API process: the salt of hash()
    pc,       \* pc[q]: where request q is
    user,     \* user[q]: its user
    key,      \* key[q]: the key it is about to store, or has stored
    loaded,   \* loaded[q]: the row a deactivation has loaded
    rows,     \* the requests whose row is in the table
    salt,     \* salt[q]: the salt with which the key of row q was hashed
    active    \* the rows with is_active

vars == <<now, boots, pc, user, key, loaded, rows, salt, active>>

States == {"idle", "activating", "creating", "deactivating", "granted", "refused", "done", "failed"}

Init ==
    /\ now    = 0
    /\ boots  = 0
    /\ pc     = [q \in Requests |-> "idle"]
    /\ user   = [q \in Requests |-> NoUser]
    /\ key    = [q \in Requests |-> NoKey]
    /\ loaded = [q \in Requests |-> NoRow]
    /\ rows   = {}
    /\ salt   = [q \in Requests |-> 0]
    /\ active = {}

-----------------------------------------------------------------------------
\* The active rows of user u, expired ones included.
ActiveRows(u) == {q \in active : user[q] = u}

\* Those the guard accepts.
ValidRows(u) == {q \in ActiveRows(u) : Expires[key[q]] > now}

\* validate_license_key: only a key that is past its expiry is refused.
KeyValid(k) == Expires[k] >= now

Goto(q, s) == pc' = [pc EXCEPT ![q] = s]
Begin(q, u) == pc[q] = "idle" /\ user' = [user EXCEPT ![q] = u]

Tick ==
    /\ now < MaxTime
    /\ now' = now + 1
    /\ UNCHANGED <<boots, pc, user, key, loaded, rows, salt, active>>

\* Faulty variant: a key without a user_id is not told from another user's.
ActivateAnyKey(q, u, k) ==
    /\ Begin(q, u)
    /\ IF ~KeyValid(k) \/ Cardinality(ActiveRows(u)) = 1
       THEN Goto(q, "refused") /\ UNCHANGED key
       ELSE Goto(q, "activating") /\ key' = [key EXCEPT ![q] = k]
    /\ UNCHANGED <<now, boots, loaded, rows, salt, active>>

\* activate_license, up to the query for an active license of the user.
Activate(q, u, k) ==
    /\ Begin(q, u)
    /\ IF ~KeyValid(k) \/ KeyUser[k] \notin {NoUser, u} \/ Cardinality(ActiveRows(u)) = 1
       THEN Goto(q, "refused") /\ UNCHANGED key
       ELSE IF ActiveRows(u) = {}
            THEN Goto(q, "activating") /\ key' = [key EXCEPT ![q] = k]
            ELSE Goto(q, "failed") /\ UNCHANGED key
    /\ UNCHANGED <<now, boots, loaded, rows, salt, active>>

\* Faulty variant: the guard does not look at the expiry.
GuardExpired(q, u) ==
    /\ Begin(q, u)
    /\ Goto(q, IF ActiveRows(u) # {} THEN "granted" ELSE "refused")
    /\ UNCHANGED <<now, boots, key, loaded, rows, salt, active>>

\* require_valid_license, up to its query: one valid row grants, several raise,
\* and without one the key of the environment, when it is the user's, is to be
\* stored.
Guard(q, u) ==
    /\ Begin(q, u)
    /\ IF ValidRows(u) = {} /\ KeyValid(EnvKey) /\ KeyUser[EnvKey] = u
       THEN Goto(q, "creating") /\ key' = [key EXCEPT ![q] = EnvKey]
       ELSE /\ Goto(q, CASE ValidRows(u) = {}              -> "refused"
                         [] Cardinality(ValidRows(u)) = 1 -> "granted"
                         [] OTHER                         -> "failed")
            /\ UNCHANGED key
    /\ UNCHANGED <<now, boots, loaded, rows, salt, active>>

\* Faulty variant: the first of several rows is taken.
DeactivateFirst(q, u) ==
    /\ Begin(q, u)
    /\ \E r \in ActiveRows(u) :
          /\ Goto(q, "deactivating")
          /\ loaded' = [loaded EXCEPT ![q] = r]
    /\ UNCHANGED <<now, boots, key, rows, salt, active>>

\* deactivate_license, up to its query.
Deactivate(q, u) ==
    /\ Begin(q, u)
    /\ \/ /\ ActiveRows(u) = {}
          /\ Goto(q, "refused")
          /\ UNCHANGED loaded
       \/ /\ Cardinality(ActiveRows(u)) > 1
          /\ Goto(q, "failed")
          /\ UNCHANGED loaded
       \/ \E r \in ActiveRows(u) :
             /\ ActiveRows(u) = {r}
             /\ Goto(q, "deactivating")
             /\ loaded' = [loaded EXCEPT ![q] = r]
    /\ UNCHANGED <<now, boots, key, rows, salt, active>>

\* The row is in the table: license_key_hash is unique, so no other row has
\* the same key hashed with the same salt.
InsertRow(q) ==
    /\ \A r \in rows : <<key[r], salt[r]>> # <<key[q], boots>>
    /\ rows'   = rows \union {q}
    /\ active' = active \union {q}
    /\ salt'   = [salt EXCEPT ![q] = boots]

\* Faulty variant: no unique constraint on license_key_hash.
StoreNotUnique(q) ==
    /\ pc[q] \in {"activating", "creating"}
    /\ rows'   = rows \union {q}
    /\ active' = active \union {q}
    /\ salt'   = [salt EXCEPT ![q] = boots]
    /\ Goto(q, IF pc[q] = "creating" THEN "granted" ELSE "done")
    /\ UNCHANGED <<now, boots, user, key, loaded>>

\* The commit of a new row; the guard then lets its request pass.
Store(q) ==
    /\ pc[q] \in {"activating", "creating"}
    /\ InsertRow(q)
    /\ Goto(q, IF pc[q] = "creating" THEN "granted" ELSE "done")
    /\ UNCHANGED <<now, boots, user, key, loaded>>

\* The commit, or the refresh after it, returns an error: applied or not.
StoreLost(q) ==
    /\ pc[q] \in {"activating", "creating"}
    /\ InsertRow(q)
    /\ Goto(q, "failed")
    /\ UNCHANGED <<now, boots, user, key, loaded>>

\* IntegrityError, or a database error: rollback.
Fail(q) ==
    /\ pc[q] \in {"activating", "creating", "deactivating"}
    /\ Goto(q, "failed")
    /\ UNCHANGED <<now, boots, user, key, loaded, rows, salt, active>>

\* Faulty variant: the row is deleted, and its flag stays.
DropDeletes(q) ==
    /\ pc[q] = "deactivating"
    /\ rows' = rows \ {loaded[q]}
    /\ Goto(q, "done")
    /\ UNCHANGED <<now, boots, user, key, loaded, salt, active>>

\* The commit of is_active = False on the row loaded.
Drop(q) ==
    /\ pc[q] = "deactivating"
    /\ active' = active \ {loaded[q]}
    /\ Goto(q, "done")
    /\ UNCHANGED <<now, boots, user, key, loaded, rows, salt>>

DropLost(q) ==
    /\ pc[q] = "deactivating"
    /\ active' = active \ {loaded[q]}
    /\ Goto(q, "failed")
    /\ UNCHANGED <<now, boots, user, key, loaded, rows, salt>>

\* The API process ends and starts again, with a new salt.
Restart ==
    /\ boots < MaxBoots
    /\ boots' = boots + 1
    /\ pc' = [q \in Requests |->
                 IF pc[q] \in {"activating", "creating", "deactivating"} THEN "failed" ELSE pc[q]]
    /\ UNCHANGED <<now, user, key, loaded, rows, salt, active>>

Next ==
    \/ Tick
    \/ Restart
    \/ \E q \in Requests, u \in Users :
          \/ \E k \in Keys : Activate(q, u, k)
          \/ Guard(q, u)
          \/ Deactivate(q, u)
    \/ \E q \in Requests :
          \/ Store(q)
          \/ StoreLost(q)
          \/ Fail(q)
          \/ Drop(q)
          \/ DropLost(q)

Spec == Init /\ [][Next]_vars

-----------------------------------------------------------------------------
(* Properties.                                                             *)

TypeOK ==
    /\ now    \in Nat
    /\ boots  \in Nat
    /\ pc     \in [Requests -> States]
    /\ user   \in [Requests -> Users \union {NoUser}]
    /\ key    \in [Requests -> Keys \union {NoKey}]
    /\ loaded \in [Requests -> Requests \union {NoRow}]
    /\ rows   \subseteq Requests
    /\ salt   \in [Requests -> Nat]
    /\ active \subseteq rows

\* A license never changes hands: every row, whichever path stored it, belongs
\* to the user its key was issued for, or its key was issued for nobody; and
\* such a key is stored for one user only while the API runs.
KeysOwned ==
    /\ \A r \in rows : KeyUser[key[r]] \in {NoUser, user[r]}
    /\ \A q, r \in rows : (key[q] = key[r] /\ salt[q] = salt[r]) => user[q] = user[r]

\* A request that passes the guard has, at that moment, an active license that
\* has not expired, whether it was found or is stored for it now; the row just
\* stored may expire while it is stored.
GrantedIsLicensed ==
    [][\A q \in Requests :
          (pc'[q] = "granted" /\ pc[q] # "granted") =>
              \/ ValidRows(user'[q]) # {}
              \/ q \in active' /\ key[q] = EnvKey /\ user[q] = KeyUser[EnvKey]]_vars

\* Two active rows of user u, and no deactivation that had loaded one before.
LockedOut(u) ==
    /\ Cardinality(ActiveRows(u)) > 1
    /\ \A q \in Requests : ~(pc[q] = "deactivating" /\ user[q] = u)

\* A user with two active rows is stuck with them, across restarts too: from
\* then on activation and deactivation raise, and no deactivation gets as far
\* as its write.
LockedOutStays == [][\A u \in Users : LockedOut(u) => LockedOut(u)']_vars

\* What the code says and does not keep (a run that expects a violation).

\* "License already active for this user": a user has one active license.
OneActive == \A u \in Users : Cardinality(ActiveRows(u)) <= 1

=============================================================================
