----------------------------- MODULE MCUserList -----------------------------
(* A small instance of UserList and Users: pages of one user each. *)
EXTENDS UserList, TLC

CONSTANTS u1, u2, u3

MCPosition == u2 :> 1 @@ u1 :> 2 @@ u3 :> 3

Symmetry == Permutations(Request) \union Permutations(Email \ {FounderEmail})
=============================================================================
