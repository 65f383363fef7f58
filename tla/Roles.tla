------------------------------- MODULE Roles -------------------------------
(***************************************************************************)
(* The roles of one tenant, their permissions, and the users that have     *)
(* them (RbacService, RbacRepository; the role assignment of UserService). *)
(*                                                                         *)
(* Requests interleave at every database call.  The schema's foreign keys  *)
(* and unique indexes are checked by every write: users.roleId RESTRICTs   *)
(* the deletion of a role, role_permissions.roleId CASCADEs it.            *)
(*                                                                         *)
(* Next is what requests do.  The tables are empty to begin with: Seeding  *)
(* fills them, and Access has the specification of the whole.              *)
(***************************************************************************)
EXTENDS FiniteSets

CONSTANTS Role,        \* identifiers for rows of the roles table
          Name,        \* the names of roles
          SystemName,  \* SYSTEM_ROLE_NAMES
          Permission,
          User,
          Request,
          NoRole, NoName, NoUser

ASSUME RolesAssumption ==
  /\ NoRole \notin Role /\ NoName \notin Name
  /\ SystemName \subseteq Name
  /\ NoUser \notin User

VARIABLES
  rows,     \* the rows of the roles table
  name,     \* roles.name
  grants,   \* role_permissions, by role
  roleOf,   \* users.roleId; NoRole if there is no such user yet
  deleted,  \* the users with a deletedAt
  req       \* the requests in flight

vars == <<rows, name, grants, roleOf, deleted, req>>

-----------------------------------------------------------------------------
PC == {"idle",
       "creating",     \* create: the name is free
       "found",        \* update: the role is found and not a system role
       "renaming",     \* update: the new name is free, or the old one
       "counting",     \* delete: the role is found and not a system role
       "deletable",    \* delete: it has no users
       "deletingRow",  \* delete: in the transaction, it has no users
       "assigning",    \* assign: role and permissions are found
       "removing",     \* remove: role and permission are found
       "roleFound"}    \* user: validateRole returned

RequestState == [pc : PC, role : Role \union {NoRole},
                 name : Name \union {NoName}, perms : SUBSET Permission,
                 user : User \union {NoUser}]

Idle == [pc |-> "idle", role |-> NoRole, name |-> NoName, perms |-> {},
         user |-> NoUser]

TypeOK ==
  /\ rows \in SUBSET Role
  /\ name \in [Role -> Name \union {NoName}]
  /\ grants \in [Role -> SUBSET Permission]
  /\ roleOf \in [User -> rows \union {NoRole}]
  /\ deleted \in SUBSET User
  /\ req \in [Request -> RequestState]

(* The tables as the migrations create them. *)
Init ==
  /\ rows = {}
  /\ name = [x \in Role |-> NoName]
  /\ grants = [x \in Role |-> {}]
  /\ roleOf = [u \in User |-> NoRole]
  /\ deleted = {}
  /\ req = [r \in Request |-> Idle]

-----------------------------------------------------------------------------
(* Definitions named X_<Bug> are variants of X with a plausible bug; no      *)
(* specification uses them.                                                  *)

Begin(r, pc, x, n, P, u) ==
  /\ req[r].pc = "idle"
  /\ req' = [req EXCEPT ![r] = [pc |-> pc, role |-> x, name |-> n,
                                perms |-> P, user |-> u]]

Goto(r, pc) == req' = [req EXCEPT ![r].pc = pc]

Finish(r) == req' = [req EXCEPT ![r] = Idle]

(* assertNotSystemRole is not called. *)
Editable_AnyRole(x) == x \in rows

(* validateRoleExists and assertNotSystemRole. *)
Editable(x) == x \in rows /\ name[x] \notin SystemName

(* assertRoleNameUnique, and the unique index on (tenantId, name). *)
Free(n, x) == \A y \in rows \ {x} : name[y] # n

(* countUsersByRole = 0; users that are deleted do not count. *)
Unused(x) == \A u \in User \ deleted : roleOf[u] # x

-----------------------------------------------------------------------------
(* createRole. *)
CheckNewName(r, n) ==
  /\ n \notin SystemName
  /\ Free(n, NoRole)
  /\ Begin(r, "creating", NoRole, n, {}, NoUser)
  /\ UNCHANGED <<rows, name, grants, roleOf, deleted>>

(* An identifier for a new row: cuids do not come twice, so none that a      *)
(* request still has of a row that is gone.                                  *)
Fresh(x) == x \notin rows /\ \A r \in Request : req[r].role # x

(* The INSERT; a name that has been taken meanwhile is a 409. *)
InsertRole(r) ==
  /\ req[r].pc = "creating"
  /\ \E x \in Role : Fresh(x) /\
       IF Free(req[r].name, NoRole)
         THEN rows' = rows \union {x} /\ name' = [name EXCEPT ![x] = req[r].name]
         ELSE UNCHANGED <<rows, name>>
  /\ Finish(r)
  /\ UNCHANGED <<grants, roleOf, deleted>>

-----------------------------------------------------------------------------
(* updateRole. *)
FindForUpdate(r, x, n) ==
  /\ Editable(x)
  /\ Begin(r, IF n = name[x] THEN "renaming" ELSE "found", x, n, {}, NoUser)
  /\ UNCHANGED <<rows, name, grants, roleOf, deleted>>

CheckRename(r) ==
  /\ req[r].pc = "found"
  /\ IF req[r].name \notin SystemName /\ Free(req[r].name, req[r].role)
     THEN Goto(r, "renaming") ELSE Finish(r)
  /\ UNCHANGED <<rows, name, grants, roleOf, deleted>>

(* No unique index: the look for the name is all there is. *)
UpdateRole_NoIndex(r) ==
  /\ req[r].pc = "renaming"
  /\ name' = IF req[r].role \in rows
             THEN [name EXCEPT ![req[r].role] = req[r].name] ELSE name
  /\ Finish(r)
  /\ UNCHANGED <<rows, grants, roleOf, deleted>>

(* The UPDATE by id: 404 if the role is gone, 409 if its new name is taken.  *)
UpdateRole(r) ==
  /\ req[r].pc = "renaming"
  /\ name' = IF req[r].role \in rows /\ Free(req[r].name, req[r].role)
             THEN [name EXCEPT ![req[r].role] = req[r].name] ELSE name
  /\ Finish(r)
  /\ UNCHANGED <<rows, grants, roleOf, deleted>>

-----------------------------------------------------------------------------
(* deleteRole. *)
FindForDelete(r, x) ==
  /\ Editable(x)
  /\ Begin(r, "counting", x, NoName, {}, NoUser)
  /\ UNCHANGED <<rows, name, grants, roleOf, deleted>>

(* assertRoleDeletable. *)
CheckDeletable(r) ==
  /\ req[r].pc = "counting"
  /\ IF Unused(req[r].role) THEN Goto(r, "deletable") ELSE Finish(r)
  /\ UNCHANGED <<rows, name, grants, roleOf, deleted>>

(* The transaction finds the role and counts again.  At READ COMMITTED that  *)
(* keeps nobody from assigning the role before the DELETE.                   *)
RecountUsers(r) ==
  /\ req[r].pc = "deletable"
  /\ IF req[r].role \in rows /\ Unused(req[r].role)
     THEN Goto(r, "deletingRow") ELSE Finish(r)
  /\ UNCHANGED <<rows, name, grants, roleOf, deleted>>

(* The referential action that is not there: users.roleId dangles. *)
DeleteRow_Dangling(r) ==
  /\ req[r].pc = "deletingRow"
  /\ rows' = rows \ {req[r].role}
  /\ name' = [name EXCEPT ![req[r].role] = NoName]
  /\ grants' = [grants EXCEPT ![req[r].role] = {}]
  /\ Finish(r)
  /\ UNCHANGED <<roleOf, deleted>>

(* ON DELETE SET NULL in place of RESTRICT. *)
DeleteRow_SetNull(r) ==
  /\ req[r].pc = "deletingRow"
  /\ rows' = rows \ {req[r].role}
  /\ name' = [name EXCEPT ![req[r].role] = NoName]
  /\ grants' = [grants EXCEPT ![req[r].role] = {}]
  /\ roleOf' = [u \in User |-> IF roleOf[u] = req[r].role THEN NoRole
                                                          ELSE roleOf[u]]
  /\ Finish(r)
  /\ UNCHANGED deleted

(* The DELETE and COMMIT, which fail if any user row, a deleted one too, has *)
(* the role, and if the role is gone.                                        *)
DeleteRow(r) ==
  LET x == req[r].role
  IN /\ req[r].pc = "deletingRow"
     /\ IF x \in rows /\ \A u \in User : roleOf[u] # x
        THEN /\ rows' = rows \ {x}
             /\ name' = [name EXCEPT ![x] = NoName]
             /\ grants' = [grants EXCEPT ![x] = {}]
        ELSE UNCHANGED <<rows, name, grants>>
     /\ Finish(r)
     /\ UNCHANGED <<roleOf, deleted>>

-----------------------------------------------------------------------------
(* assignPermissions and removePermission.  Permissions are never deleted.   *)
FindForAssign(r, x, P) ==
  /\ Editable(x)
  /\ P # {}
  /\ Begin(r, "assigning", x, NoName, P, NoUser)
  /\ UNCHANGED <<rows, name, grants, roleOf, deleted>>

(* The rows go in without a look at the role. *)
AssignPermissions_NoForeignKey(r) ==
  /\ req[r].pc = "assigning"
  /\ grants' = [grants EXCEPT ![req[r].role] = @ \union req[r].perms]
  /\ Finish(r)
  /\ UNCHANGED <<rows, name, roleOf, deleted>>

(* createMany with skipDuplicates; it fails on a role that is gone.          *)
AssignPermissions(r) ==
  /\ req[r].pc = "assigning"
  /\ grants' = IF req[r].role \in rows
               THEN [grants EXCEPT ![req[r].role] = @ \union req[r].perms]
               ELSE grants
  /\ Finish(r)
  /\ UNCHANGED <<rows, name, roleOf, deleted>>

FindForRemove(r, x, p) ==
  /\ Editable(x)
  /\ Begin(r, "removing", x, NoName, {p}, NoUser)
  /\ UNCHANGED <<rows, name, grants, roleOf, deleted>>

RemovePermission(r) ==
  /\ req[r].pc = "removing"
  /\ grants' = [grants EXCEPT ![req[r].role] = @ \ req[r].perms]
  /\ Finish(r)
  /\ UNCHANGED <<rows, name, roleOf, deleted>>

-----------------------------------------------------------------------------
(* createUser and updateUser, as far as the role goes: validateRole, later   *)
(* the write, which fails if the role is gone.                               *)
ValidateRole(r, u, x) ==
  /\ u \notin deleted
  /\ x \in rows
  /\ Begin(r, "roleFound", x, NoName, {}, u)
  /\ UNCHANGED <<rows, name, grants, roleOf, deleted>>

SetUserRole(r) ==
  LET u == req[r].user
  IN /\ req[r].pc = "roleFound"
     /\ roleOf' = IF u \notin deleted /\ req[r].role \in rows
                  THEN [roleOf EXCEPT ![u] = req[r].role] ELSE roleOf
     /\ Finish(r)
     /\ UNCHANGED <<rows, name, grants, deleted>>

(* softDelete, which keeps users.roleId. *)
DeleteUser(u) ==
  /\ roleOf[u] # NoRole
  /\ deleted' = deleted \union {u}
  /\ UNCHANGED <<rows, name, grants, roleOf, req>>

(* A request dies at an await, its transaction rolled back. *)
Fail(r) ==
  /\ req[r].pc # "idle"
  /\ Finish(r)
  /\ UNCHANGED <<rows, name, grants, roleOf, deleted>>

Next ==
  \/ \E r \in Request :
       \/ \E n \in Name : CheckNewName(r, n)
       \/ \E x \in Role :
            \/ \E n \in Name : FindForUpdate(r, x, n)
            \/ \E P \in SUBSET Permission : FindForAssign(r, x, P)
            \/ \E p \in Permission : FindForRemove(r, x, p)
            \/ \E u \in User : ValidateRole(r, u, x)
            \/ FindForDelete(r, x)
       \/ InsertRole(r) \/ CheckRename(r) \/ UpdateRole(r)
       \/ CheckDeletable(r) \/ RecountUsers(r) \/ DeleteRow(r)
       \/ AssignPermissions(r) \/ RemovePermission(r) \/ SetUserRole(r)
       \/ Fail(r)
  \/ \E u \in User : DeleteUser(u)

-----------------------------------------------------------------------------
SystemRole == {x \in rows : name[x] \in SystemName}

(* The system roles stay as they were seeded, whatever requests read before  *)
(* a rename or a deletion and wrote after it, and however often the seeders  *)
(* are run: none comes, goes, changes its name or its permissions.           *)
SystemRolesUntouched ==
  [][SystemRole # {} =>
       /\ SystemRole' = SystemRole
       /\ \A x \in SystemRole : name'[x] = name[x] /\ grants'[x] = grants[x]]_vars

(* A user keeps a role from the moment there is one: the deletion of a role  *)
(* never takes it from a user who was given it after the last count.         *)
UsersKeepARole ==
  [][\A u \in User : roleOf[u] # NoRole => roleOf'[u] \in rows']_vars

(* Only roles that exist have permissions: an assignment that found its role *)
(* before the role's deletion leaves nothing behind.                         *)
GrantsHaveARole == \A x \in Role : grants[x] # {} => x \in rows
=============================================================================
