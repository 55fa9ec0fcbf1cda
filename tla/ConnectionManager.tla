------------------------- MODULE ConnectionManager --------------------------
(***************************************************************************)
(* The WebSocket connection manager of the API process                     *)
(* (app/services/websocket_manager.py): its two dictionaries and the       *)
(* methods that change them.  The methods run on the event loop and have   *)
(* no await between reading and writing the dictionaries, so each is one   *)
(* conjunct of the step of its caller.                                     *)
(***************************************************************************)
CONSTANTS Users, Sockets, Topics, NoUser

VARIABLES
    active,         \* active_connections: user -> set of sockets; no key when the set is empty
    subscriptions   \* job_subscriptions: topic -> user; NoUser when there is no key

managerVars == <<active, subscriptions>>

ManagerInit ==
    /\ active = [u \in Users |-> {}]
    /\ subscriptions = [t \in Topics |-> NoUser]

connect(h, u) == active' = [active EXCEPT ![u] = @ \union {h}]

\* Faulty variant: the user's key is deleted with its first socket.
disconnectAll(h, u) == active' = [active EXCEPT ![u] = {}]

disconnect(h, u) == active' = [active EXCEPT ![u] = @ \ {h}]

subscribe_to_job(u, t)  == subscriptions' = [subscriptions EXCEPT ![t] = u]
unsubscribe_from_job(t) == subscriptions' = [subscriptions EXCEPT ![t] = NoUser]

ManagerTypeOK ==
    /\ active \in [Users -> SUBSET Sockets]
    /\ subscriptions \in [Topics -> Users \union {NoUser}]

=============================================================================
