---------------------------- MODULE RolesProofs ----------------------------
(***************************************************************************)
(* What requests do to the roles of a tenant, for every set of roles,      *)
(* users, permissions and requests.  The lemmas are about single steps:    *)
(* Roles has no specification of its own, and AccessProofs draws on them   *)
(* for that of Access.                                                     *)
(***************************************************************************)
EXTENDS Roles, TLAPS

(* Past its first read, a request about a role that exists has the id of a   *)
(* role that is no system role, and a name to be written is no system name.  *)
AboutARole == {"found", "renaming", "counting", "deletable", "deletingRow",
               "assigning", "removing"}

RequestsSpareSystemRoles ==
  \A r \in Request :
    /\ req[r].pc \in AboutARole =>
         req[r].role \in Role /\ name[req[r].role] \notin SystemName
    /\ req[r].pc \in {"creating", "renaming"} =>
         req[r].name \in Name \ SystemName
    /\ req[r].pc = "found" => req[r].name \in Name

RolesInv == TypeOK /\ GrantsHaveARole /\ RequestsSpareSystemRoles

-----------------------------------------------------------------------------
LEMMA InitInv == Init => RolesInv
BY RolesAssumption
   DEF Init, RolesInv, TypeOK, GrantsHaveARole, RequestsSpareSystemRoles,
       RequestState, Idle, PC, AboutARole

(* Every step keeps the types; a request only changes in the four ways that  *)
(* <1>1 to <1>4 name.                                                        *)
LEMMA TypeStep == TypeOK /\ RequestsSpareSystemRoles /\ [Next]_vars => TypeOK'
<1> SUFFICES ASSUME TypeOK, RequestsSpareSystemRoles, [Next]_vars
             PROVE  TypeOK'
    OBVIOUS
<1> USE RolesAssumption DEF TypeOK
<1> DEFINE Other == UNCHANGED <<rows, name, grants, roleOf, deleted>>
<1>1. ASSUME Other, req' \in [Request -> RequestState] PROVE TypeOK'
      BY <1>1
<1>2. ASSUME NEW r \in Request, Finish(r)
      PROVE  req' \in [Request -> RequestState]
      BY <1>2 DEF Finish, Idle, RequestState, PC
<1>3. ASSUME NEW r \in Request, NEW pc \in PC, Goto(r, pc)
      PROVE  req' \in [Request -> RequestState]
      BY <1>3 DEF Goto, RequestState
<1>4. ASSUME NEW r \in Request, NEW pc \in PC, NEW x \in Role \union {NoRole},
             NEW n \in Name \union {NoName}, NEW P \in SUBSET Permission,
             NEW u \in User \union {NoUser}, Begin(r, pc, x, n, P, u)
      PROVE  req' \in [Request -> RequestState]
      BY <1>4 DEF Begin, RequestState
<1>5. CASE \E r \in Request, n \in Name : CheckNewName(r, n)
      <2>1. "creating" \in PC BY DEF PC
      <2> QED BY <1>1, <1>4, <1>5, <2>1 DEF CheckNewName
<1>6. CASE \E r \in Request, x \in Role, n \in Name : FindForUpdate(r, x, n)
      <2>1. "renaming" \in PC /\ "found" \in PC BY DEF PC
      <2> PICK r \in Request, x \in Role, n \in Name : FindForUpdate(r, x, n)
          BY <1>6
      <2>2. Begin(r, IF n = name[x] THEN "renaming" ELSE "found",
                  x, n, {}, NoUser) /\ Other
            BY DEF FindForUpdate
      <2>3. req' \in [Request -> RequestState]
            BY <1>4, <2>1, <2>2
      <2> QED BY <1>1, <2>2, <2>3
<1>7. CASE \E r \in Request, x \in Role, P \in SUBSET Permission :
             FindForAssign(r, x, P)
      <2>1. "assigning" \in PC BY DEF PC
      <2> QED BY <1>1, <1>4, <1>7, <2>1 DEF FindForAssign
<1>8. CASE \E r \in Request, x \in Role, p \in Permission :
             FindForRemove(r, x, p)
      <2>1. "removing" \in PC BY DEF PC
      <2> QED BY <1>1, <1>4, <1>8, <2>1 DEF FindForRemove
<1>9. CASE \E r \in Request, x \in Role, u \in User : ValidateRole(r, u, x)
      <2>1. "roleFound" \in PC BY DEF PC
      <2> QED BY <1>1, <1>4, <1>9, <2>1 DEF ValidateRole
<1>10. CASE \E r \in Request, x \in Role : FindForDelete(r, x)
      <2>1. "counting" \in PC BY DEF PC
      <2> QED BY <1>1, <1>4, <1>10, <2>1 DEF FindForDelete
<1>11. CASE \E r \in Request : InsertRole(r)
      <2> PICK r \in Request : InsertRole(r)
          BY <1>11
      <2>1. req' \in [Request -> RequestState]
            BY <1>2 DEF InsertRole
      <2>2. req[r].name \in Name \union {NoName}
            BY DEF RequestState
      <2> QED BY <2>1, <2>2 DEF InsertRole
<1>12. CASE \E r \in Request : CheckRename(r)
      <2>1. "renaming" \in PC BY DEF PC
      <2> QED BY <1>1, <1>2, <1>3, <1>12, <2>1 DEF CheckRename
<1>13. CASE \E r \in Request : UpdateRole(r)
      <2> PICK r \in Request : UpdateRole(r)
          BY <1>13
      <2>1. req' \in [Request -> RequestState]
            BY <1>2 DEF UpdateRole
      <2>2. req[r].name \in Name \union {NoName}
            BY DEF RequestState
      <2> QED BY <2>1, <2>2 DEF UpdateRole
<1>14. CASE \E r \in Request : CheckDeletable(r)
      <2>1. "deletable" \in PC BY DEF PC
      <2> QED BY <1>1, <1>2, <1>3, <1>14, <2>1 DEF CheckDeletable
<1>15. CASE \E r \in Request : RecountUsers(r)
      <2>1. "deletingRow" \in PC BY DEF PC
      <2> QED BY <1>1, <1>2, <1>3, <1>15, <2>1 DEF RecountUsers
<1>16. CASE \E r \in Request : DeleteRow(r)
      <2> PICK r \in Request : DeleteRow(r)
          BY <1>16
      <2>1. req' \in [Request -> RequestState]
            BY <1>2 DEF DeleteRow
      <2> QED BY <2>1 DEF DeleteRow
<1>17. CASE \E r \in Request : AssignPermissions(r)
      <2> PICK r \in Request : AssignPermissions(r)
          BY <1>17
      <2>1. req' \in [Request -> RequestState]
            BY <1>2 DEF AssignPermissions
      <2>2. req[r].perms \in SUBSET Permission
            BY DEF RequestState
      <2> QED BY <2>1, <2>2 DEF AssignPermissions
<1>18. CASE \E r \in Request : RemovePermission(r)
      <2> PICK r \in Request : RemovePermission(r)
          BY <1>18
      <2>1. req' \in [Request -> RequestState]
            BY <1>2 DEF RemovePermission
      <2> QED BY <2>1 DEF RemovePermission
<1>19. CASE \E r \in Request : SetUserRole(r)
      <2> PICK r \in Request : SetUserRole(r)
          BY <1>19
      <2>1. req' \in [Request -> RequestState]
            BY <1>2 DEF SetUserRole
      <2> QED BY <2>1 DEF SetUserRole
<1>20. CASE \E r \in Request : Fail(r)
      BY <1>1, <1>2, <1>20 DEF Fail
<1>21. CASE \E u \in User : DeleteUser(u)
      BY <1>21 DEF DeleteUser
<1>22. CASE UNCHANGED vars
      BY <1>22 DEF vars
<1> QED BY <1>5, <1>6, <1>7, <1>8, <1>9, <1>10, <1>11, <1>12, <1>13, <1>14,
           <1>15, <1>16, <1>17, <1>18, <1>19, <1>20, <1>21, <1>22 DEF Next

(* The grants of a role outlive it in no step.                               *)
LEMMA GrantsStep ==
  TypeOK /\ GrantsHaveARole /\ [Next]_vars => GrantsHaveARole'
<1> SUFFICES ASSUME TypeOK, GrantsHaveARole, [Next]_vars
             PROVE  GrantsHaveARole'
    OBVIOUS
<1> USE DEF TypeOK, GrantsHaveARole
<1>1. CASE UNCHANGED <<rows, grants>>
      BY <1>1
<1>2. ASSUME NEW r \in Request, InsertRole(r) PROVE GrantsHaveARole'
      BY <1>2 DEF InsertRole
<1>3. ASSUME NEW r \in Request, DeleteRow(r) PROVE GrantsHaveARole'
      BY <1>3 DEF DeleteRow
<1>4. ASSUME NEW r \in Request, AssignPermissions(r) PROVE GrantsHaveARole'
      BY <1>4 DEF AssignPermissions
<1>5. ASSUME NEW r \in Request, RemovePermission(r) PROVE GrantsHaveARole'
      BY <1>5 DEF RemovePermission
<1>6. \/ UNCHANGED <<rows, grants>>
      \/ \E r \in Request : \/ InsertRole(r) \/ DeleteRow(r)
                            \/ AssignPermissions(r) \/ RemovePermission(r)
      BY DEF Next, vars, CheckNewName, FindForUpdate, FindForAssign,
             FindForRemove, ValidateRole, FindForDelete, CheckRename,
             UpdateRole, CheckDeletable, RecountUsers, SetUserRole, Fail,
             DeleteUser
<1> QED BY <1>1, <1>2, <1>3, <1>4, <1>5, <1>6

-----------------------------------------------------------------------------
(* A role's name changes to no system name, so that a request that has found *)
(* its role to be no system role goes on being right about it.               *)
NamesStaySafe ==
  \A x \in Role : name[x] \notin SystemName => name'[x] \notin SystemName

LEMMA NamesStep ==
  TypeOK /\ RequestsSpareSystemRoles /\ [Next]_vars => NamesStaySafe
<1> SUFFICES ASSUME TypeOK, RequestsSpareSystemRoles, [Next]_vars
             PROVE  NamesStaySafe
    OBVIOUS
<1> USE DEF TypeOK, RequestsSpareSystemRoles, NamesStaySafe
<1>1. CASE name' = name
      BY <1>1
<1>2. ASSUME NEW r \in Request, InsertRole(r) PROVE NamesStaySafe
      BY <1>2 DEF InsertRole, AboutARole
<1>3. ASSUME NEW r \in Request, UpdateRole(r) PROVE NamesStaySafe
      BY <1>3 DEF UpdateRole
<1>4. ASSUME NEW r \in Request, DeleteRow(r) PROVE NamesStaySafe
      BY <1>4, RolesAssumption DEF DeleteRow
<1>5. \/ name' = name
      \/ \E r \in Request : InsertRole(r) \/ UpdateRole(r) \/ DeleteRow(r)
      BY DEF Next, vars, CheckNewName, FindForUpdate, FindForAssign,
             FindForRemove, ValidateRole, FindForDelete, CheckRename,
             CheckDeletable, RecountUsers, AssignPermissions,
             RemovePermission, SetUserRole, Fail, DeleteUser
<1> QED BY <1>1, <1>2, <1>3, <1>4, <1>5

LEMMA RequestsStep ==
  TypeOK /\ RequestsSpareSystemRoles /\ [Next]_vars
    => RequestsSpareSystemRoles'
<1> SUFFICES ASSUME TypeOK, RequestsSpareSystemRoles, [Next]_vars
             PROVE  RequestsSpareSystemRoles'
    OBVIOUS
<1> USE RolesAssumption DEF TypeOK
<1>1. NamesStaySafe
      BY NamesStep
<1>2. ASSUME req' = req PROVE RequestsSpareSystemRoles'
      BY <1>1, <1>2 DEF RequestsSpareSystemRoles, NamesStaySafe
<1>3. ASSUME NEW r \in Request, Finish(r) PROVE RequestsSpareSystemRoles'
      BY <1>1, <1>3
         DEF RequestsSpareSystemRoles, NamesStaySafe, Finish, Idle, AboutARole
<1>4. ASSUME NEW r \in Request, req[r].pc \in AboutARole,
             NEW pc \in AboutARole \ {"found", "renaming"}, Goto(r, pc)
      PROVE  RequestsSpareSystemRoles'
      BY <1>1, <1>4
         DEF RequestsSpareSystemRoles, NamesStaySafe, Goto, AboutARole,
             RequestState
<1>5. ASSUME NEW r \in Request, req[r].pc = "found", Goto(r, "renaming"),
             req[r].name \notin SystemName
      PROVE  RequestsSpareSystemRoles'
      BY <1>1, <1>5
         DEF RequestsSpareSystemRoles, NamesStaySafe, Goto, AboutARole,
             RequestState
<1>6. ASSUME NEW r \in Request, NEW x \in Role, Editable(x),
             NEW pc \in AboutARole \ {"found", "renaming"},
             NEW n, NEW P, NEW u, Begin(r, pc, x, n, P, u),
             UNCHANGED name
      PROVE  RequestsSpareSystemRoles'
      BY <1>6
         DEF RequestsSpareSystemRoles, Begin, AboutARole, Editable
<1>7. ASSUME NEW r \in Request, NEW n \in Name, CheckNewName(r, n)
      PROVE  RequestsSpareSystemRoles'
      BY <1>7
         DEF RequestsSpareSystemRoles, Begin, AboutARole, CheckNewName
<1>8. ASSUME NEW r \in Request, NEW x \in Role, NEW n \in Name,
             FindForUpdate(r, x, n)
      PROVE  RequestsSpareSystemRoles'
      <2>1. CASE n = name[x]
            BY <1>8, <2>1
               DEF RequestsSpareSystemRoles, Begin, AboutARole, FindForUpdate,
                   Editable
      <2>2. CASE n # name[x]
            BY <1>8, <2>2
               DEF RequestsSpareSystemRoles, Begin, AboutARole, FindForUpdate,
                   Editable
      <2> QED BY <2>1, <2>2
<1>9. ASSUME NEW r \in Request, NEW x \in Role, NEW u \in User,
             ValidateRole(r, u, x)
      PROVE  RequestsSpareSystemRoles'
      BY <1>9
         DEF RequestsSpareSystemRoles, Begin, AboutARole, ValidateRole
<1>10. CASE \E r \in Request : CheckRename(r)
       BY <1>3, <1>5, <1>10 DEF CheckRename
<1>11. CASE \E r \in Request : CheckDeletable(r) \/ RecountUsers(r)
       <2>1. "deletable" \in AboutARole \ {"found", "renaming"}
             /\ "deletingRow" \in AboutARole \ {"found", "renaming"}
             BY DEF AboutARole
       <2>2. "counting" \in AboutARole /\ "deletable" \in AboutARole
             BY DEF AboutARole
       <2> QED BY <1>3, <1>4, <1>11, <2>1, <2>2 DEF CheckDeletable, RecountUsers
<1>12. CASE \E r \in Request, x \in Role :
              \/ \E P \in SUBSET Permission : FindForAssign(r, x, P)
              \/ \E p \in Permission : FindForRemove(r, x, p)
              \/ FindForDelete(r, x)
       <2>1. {"assigning", "removing", "counting"}
               \subseteq AboutARole \ {"found", "renaming"}
             BY DEF AboutARole
       <2> QED BY <1>6, <1>12, <2>1
               DEF FindForAssign, FindForRemove, FindForDelete
<1>13. CASE \E r \in Request :
              \/ InsertRole(r) \/ UpdateRole(r) \/ DeleteRow(r)
              \/ AssignPermissions(r) \/ RemovePermission(r)
              \/ SetUserRole(r) \/ Fail(r)
       BY <1>3, <1>13
          DEF InsertRole, UpdateRole, DeleteRow, AssignPermissions,
              RemovePermission, SetUserRole, Fail
<1>14. CASE (\E u \in User : DeleteUser(u)) \/ UNCHANGED vars
       BY <1>2, <1>14 DEF DeleteUser, vars
<1> QED BY <1>7, <1>8, <1>9, <1>10, <1>11, <1>12, <1>13, <1>14 DEF Next

-----------------------------------------------------------------------------
(* The invariant through every step of the requests. *)
LEMMA RolesStep == RolesInv /\ [Next]_vars => RolesInv'
BY TypeStep, GrantsStep, RequestsStep DEF RolesInv

(* A user who has a role has one after every step, deletions of roles whose  *)
(* last count is stale included; and whose changes is decided by SetUserRole *)
(* alone.                                                                    *)
LEMMA UsersKeepRoles ==
  ASSUME RolesInv, [Next]_vars, NEW u \in User, roleOf[u] # NoRole
  PROVE  roleOf'[u] # NoRole /\ roleOf'[u] \in rows'
<1> USE DEF RolesInv
<1>1. TypeOK'
      BY RolesStep
<1>2. roleOf'[u] # NoRole
      <2> USE RolesAssumption DEF TypeOK
      <2>1. CASE roleOf' = roleOf
            BY <2>1
      <2>2. ASSUME NEW r \in Request, SetUserRole(r) PROVE roleOf'[u] # NoRole
            BY <2>2 DEF SetUserRole
      <2>3. roleOf' = roleOf \/ \E r \in Request : SetUserRole(r)
            BY DEF Next, vars, CheckNewName, FindForUpdate, FindForAssign,
                   FindForRemove, ValidateRole, FindForDelete, InsertRole,
                   CheckRename, UpdateRole, CheckDeletable, RecountUsers,
                   DeleteRow, AssignPermissions, RemovePermission, Fail,
                   DeleteUser
      <2> QED BY <2>1, <2>2, <2>3
<1> QED BY <1>1, <1>2 DEF TypeOK

(* No interleaving of requests creates, deletes, renames or regrants a       *)
(* system role.                                                              *)
Untouched ==
  /\ SystemRole' = SystemRole
  /\ \A x \in SystemRole : name'[x] = name[x] /\ grants'[x] = grants[x]

LEMMA SystemRolesStay == RolesInv /\ [Next]_vars => Untouched
<1> SUFFICES ASSUME RolesInv, [Next]_vars
             PROVE  Untouched
    OBVIOUS
<1> USE DEF Untouched, RolesInv, TypeOK, RequestsSpareSystemRoles, SystemRole
<1>1. CASE UNCHANGED <<rows, name, grants>>
      BY <1>1
<1>2. ASSUME NEW r \in Request, InsertRole(r) PROVE Untouched
      BY <1>2 DEF InsertRole, Fresh
<1>3. ASSUME NEW r \in Request, UpdateRole(r) PROVE Untouched
      <2>1. /\ req[r].role \in Role /\ name[req[r].role] \notin SystemName
            /\ req[r].name \notin SystemName
            BY <1>3 DEF UpdateRole, AboutARole
      <2> QED BY <1>3, <2>1 DEF UpdateRole
<1>4. ASSUME NEW r \in Request, DeleteRow(r) PROVE Untouched
      <2>1. name[req[r].role] \notin SystemName
            BY <1>4 DEF DeleteRow, AboutARole
      <2> QED BY <1>4, <2>1 DEF DeleteRow
<1>5. ASSUME NEW r \in Request,
             AssignPermissions(r) \/ RemovePermission(r)
      PROVE  Untouched
      <2>1. name[req[r].role] \notin SystemName
            BY <1>5 DEF AssignPermissions, RemovePermission, AboutARole
      <2> QED BY <1>5, <2>1 DEF AssignPermissions, RemovePermission
<1>6. \/ UNCHANGED <<rows, name, grants>>
      \/ \E r \in Request :
           \/ InsertRole(r) \/ UpdateRole(r) \/ DeleteRow(r)
           \/ AssignPermissions(r) \/ RemovePermission(r)
      BY DEF Next, vars, CheckNewName, FindForUpdate, FindForAssign,
             FindForRemove, ValidateRole, FindForDelete, CheckRename,
             CheckDeletable, RecountUsers, SetUserRole, Fail, DeleteUser
<1> QED BY <1>1, <1>2, <1>3, <1>4, <1>5, <1>6
=============================================================================
