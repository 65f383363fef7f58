------------------------ MODULE MCEmailVerification ------------------------
(* A small instance of EmailVerification. *)
EXTENDS EmailVerification, TLC

Symmetry == Permutations(Request) \union Permutations(User)
=============================================================================
