----------------------------- MODULE MCBacktests -----------------------------
(* Model-checking instances of Backtests.  No symmetry, as the runs check   *)
(* liveness.                                                                *)
EXTENDS Backtests, TLC

=============================================================================
