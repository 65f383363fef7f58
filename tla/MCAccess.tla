------------------------------ MODULE MCAccess ------------------------------
(* A small instance of Access, Seeding and Roles: a system role and an       *)
(* ordinary one seeded, a third to be created, two users of whom one calls.  *)
EXTENDS Access, TLC

CONSTANTS n1, n2, home, other

MCSeedGrants == n1 :> Permission @@ n2 :> Permission

MCLabel == "own" :> home @@ "another" :> other @@ "www" :> NoSlug
             @@ "localhost" :> NoSlug

Symmetry == Permutations(Request) \union Permutations(Role)
              \union Permutations(Seeder)
=============================================================================
