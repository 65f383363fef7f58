---------------------------- MODULE RoleCatalogue ----------------------------
(***************************************************************************)
(* What the roles of a tenant promise to whoever administers them, with no *)
(* request, seeder, transaction or earlier check: every change is one      *)
(* step, and all that it rests on is so in that step.  Access implements   *)
(* it, though its requests and seeders decide on what they read before.    *)
(***************************************************************************)
CONSTANTS Role, Name, SystemName, Permission, User, NoRole, NoName

VARIABLES name,    \* the name of each role; NoName: there is no such role
          grants,  \* the permissions of each role
          roleOf,  \* the role of each user; NoRole: there is no such user
          deleted  \* the users who are deleted

vars == <<name, grants, roleOf, deleted>>

Init == /\ name = [x \in Role |-> NoName]
        /\ grants = [x \in Role |-> {}]
        /\ roleOf = [u \in User |-> NoRole]
        /\ deleted = {}

-----------------------------------------------------------------------------
Exists(x) == name[x] # NoName

System(x) == name[x] \in SystemName

Founded == \E x \in Role : System(x)

Ordinary(x) == Exists(x) /\ ~System(x)

(* A name that a role other than x may be given. *)
Available(n, x) == n \notin SystemName /\ \A y \in Role \ {x} : name[y] # n

-----------------------------------------------------------------------------
Create(x, n) ==
  /\ Founded
  /\ ~Exists(x)
  /\ Available(n, x)
  /\ name' = [name EXCEPT ![x] = n]
  /\ UNCHANGED <<grants, roleOf, deleted>>

Rename(x, n) ==
  /\ Ordinary(x)
  /\ Available(n, x)
  /\ name' = [name EXCEPT ![x] = n]
  /\ UNCHANGED <<grants, roleOf, deleted>>

(* Nobody has the role, not even a user who is deleted. *)
Delete(x) ==
  /\ Ordinary(x)
  /\ \A u \in User : roleOf[u] # x
  /\ name' = [name EXCEPT ![x] = NoName]
  /\ grants' = [grants EXCEPT ![x] = {}]
  /\ UNCHANGED <<roleOf, deleted>>

Regrant(x, P) ==
  /\ Ordinary(x)
  /\ grants' = [grants EXCEPT ![x] = P]
  /\ UNCHANGED <<name, roleOf, deleted>>

Appoint(u, x) ==
  /\ Founded
  /\ Exists(x)
  /\ u \notin deleted
  /\ roleOf' = [roleOf EXCEPT ![u] = x]
  /\ UNCHANGED <<name, grants, deleted>>

Dismiss(u) ==
  /\ roleOf[u] # NoRole
  /\ deleted' = deleted \union {u}
  /\ UNCHANGED <<name, grants, roleOf>>

(* A run of the seeders founds the system roles, all of them and with every  *)
(* permission, unless they are there, and then leaves them alone.  It may    *)
(* bring ordinary roles and permissions of ordinary roles, and takes nothing. *)
Seed ==
  /\ \A x \in Role : /\ Exists(x) => name'[x] = name[x]
                     /\ grants[x] \subseteq grants'[x]
                     /\ grants'[x] # grants[x] => Exists(x)'
                     /\ Founded /\ System(x)' => UNCHANGED <<name[x], grants[x]>>
                     /\ ~Founded /\ System(x)' => grants'[x] = Permission
  /\ \A n \in SystemName : \E x \in Role : name'[x] = n
  /\ \A x, y \in Role : Exists(x)' /\ name'[x] = name'[y] => x = y
  /\ UNCHANGED <<roleOf, deleted>>

Next ==
  \/ \E x \in Role :
       \/ \E n \in Name : Create(x, n) \/ Rename(x, n)
       \/ \E P \in SUBSET Permission : Regrant(x, P)
       \/ \E u \in User : Appoint(u, x)
       \/ Delete(x)
  \/ \E u \in User : Dismiss(u)
  \/ Seed

Spec == Init /\ [][Next]_vars
=============================================================================
