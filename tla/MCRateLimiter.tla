---------------------------- MODULE MCRateLimiter ----------------------------
(* Model-checking instances of RateLimiter, with the invariant of the proof. *)
(* No symmetry, as the run checks liveness.                                 *)
EXTENDS RateLimiter_proofs

=============================================================================
