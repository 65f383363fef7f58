-------------------------- MODULE MCPasswordReset --------------------------
(* A small instance of PasswordReset. *)
EXTENDS PasswordReset, TLC

Symmetry == Permutations(Request)
=============================================================================
