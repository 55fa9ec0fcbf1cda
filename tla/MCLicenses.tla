----------------------------- MODULE MCLicenses ------------------------------
(* Model-checking instances of Licenses: the key of the environment, issued *)
(* for u1, which expires first, and a key issued for nobody.                *)
EXTENDS Licenses, TLC

CONSTANTS u1, u2, env, free

MCKeyUser == env :> u1 @@ free :> NoUser
MCExpires == env :> 1 @@ free :> 2

Symmetry == Permutations(Requests)

=============================================================================
