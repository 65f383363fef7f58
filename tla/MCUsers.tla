------------------------------ MODULE MCUsers ------------------------------
(* A small instance of Users. *)
EXTENDS Users, TLC

Symmetry == Permutations(Request) \union Permutations(Email \ {FounderEmail})
=============================================================================
