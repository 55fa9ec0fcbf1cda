----------------------------- MODULE TradeOnce ------------------------------
(***************************************************************************)
(* What the live pipeline promises for one (signal, account) pair: the     *)
(* pair is queued at most once, a queued pair is either cancelled or taken *)
(* for execution, never both, and only a taken pair is traded, once.       *)
(***************************************************************************)
CONSTANTS Pairs, Trades

VARIABLES
    phase,   \* phase[p]: "none", "queued", "cancelled" or "taken"
    trades   \* trades[p]: the broker's trades for the pair

vars == <<phase, trades>>

Init ==
    /\ phase  = [p \in Pairs |-> "none"]
    /\ trades = [p \in Pairs |-> {}]

Queue(p) ==
    /\ phase[p] = "none"
    /\ phase' = [phase EXCEPT ![p] = "queued"]
    /\ UNCHANGED trades

Cancel(p) ==
    /\ phase[p] = "queued"
    /\ phase' = [phase EXCEPT ![p] = "cancelled"]
    /\ UNCHANGED trades

Take(p) ==
    /\ phase[p] = "queued"
    /\ phase' = [phase EXCEPT ![p] = "taken"]
    /\ UNCHANGED trades

Trade(p, t) ==
    /\ phase[p] = "taken"
    /\ trades[p] = {}
    /\ trades' = [trades EXCEPT ![p] = {t}]
    /\ UNCHANGED phase

Next ==
    \E p \in Pairs :
        \/ Queue(p)
        \/ Cancel(p)
        \/ Take(p)
        \/ \E t \in Trades : Trade(p, t)

Spec == Init /\ [][Next]_vars

=============================================================================
