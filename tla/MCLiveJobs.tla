----------------------------- MODULE MCLiveJobs -----------------------------
(* Model-checking instances of LiveJobs.  Jobs, cancel requests, workers   *)
(* and signals are interchangeable: nothing but created_at orders jobs.    *)
EXTENDS LiveJobs_proofs, TLC

Symmetry ==
    Permutations(Jobs) \union Permutations(Cancels)
        \union Permutations(Workers) \union Permutations(Signals)

=============================================================================
