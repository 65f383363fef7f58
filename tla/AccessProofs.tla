---------------------------- MODULE AccessProofs ----------------------------
(***************************************************************************)
(* Proofs, for every set of roles, users, permissions, requests, seeders   *)
(* and hosts, of what MCAccess checks on small ones.                       *)
(***************************************************************************)
EXTENDS Access, SeedingProofs

(* The history of the request that is followed tells, at each of its checks, *)
(* what the check would now find, and whether the role it has is the user's. *)
CallInv ==
  /\ call \in CallState
  /\ seen \in SUBSET Fact
  /\ call.pc \in Checking \union {"policy"} => call.user \in User
  /\ call.pc \in Checking => roleOf[call.user] # NoRole /\ Observed \subseteq seen
  /\ call.pc \in {"session", "permission"} =>
       /\ call.role \in Role
       /\ call.role = roleOf[call.user] \/ "moved" \in seen
  /\ AdmittedWasPermitted

AccessInv == SeedingInv /\ CallInv

-----------------------------------------------------------------------------
LEMMA AccessInitInv == AccessInit => AccessInv
<1> SUFFICES ASSUME AccessInit PROVE AccessInv
    OBVIOUS
<1>1. SeedingInv
      BY SeedingInitInv DEF AccessInit
<1>2. 200 \in Status
      BY DEF Status
<1>3. CallInv
      BY <1>2
         DEF AccessInit, CallInv, NoCall, CallState, CallPC, Checking,
             AdmittedWasPermitted
<1> QED BY <1>1, <1>3 DEF AccessInv

(* Who has a role has one after any step of anybody. *)
LEMMA RolesRemain ==
  ASSUME AccessInv, [AccessNext]_accessVars,
         NEW u \in User, roleOf[u] # NoRole
  PROVE  roleOf'[u] # NoRole /\ roleOf'[u] \in rows'
<1> USE DEF AccessInv, SeedingInv, accessVars, tables
<1>1. CASE Next
      BY <1>1, UsersKeepRoles
<1>2. ASSUME NEW i \in Seeder, SeedStep(i)
      PROVE  roleOf'[u] # NoRole /\ roleOf'[u] \in rows'
      <2>1. TakesNothing
            BY <1>2, SeedStepTakesNothing
      <2> QED BY <2>1 DEF TakesNothing, RolesInv, TypeOK
<1>3. CASE UNCHANGED <<rows, roleOf>>
      BY <1>3 DEF RolesInv, TypeOK
<1>4. CallStep => UNCHANGED <<rows, roleOf>>
      BY DEF CallStep, BeginCall, ResolveTenant, ReadUser, ReadSession,
             CheckPermission, CheckPolicy, Handle, EndCall, env
<1> QED BY <1>1, <1>2, <1>3, <1>4 DEF AccessNext

LEMMA SeedingInvStep ==
  AccessInv /\ [AccessNext]_accessVars => SeedingInv'
<1> SUFFICES ASSUME AccessInv, [AccessNext]_accessVars
             PROVE  SeedingInv'
    OBVIOUS
<1> USE DEF AccessInv
<1>1. CASE Opened /\ Next /\ UNCHANGED seedVars
      BY <1>1, RequestInvStep
<1>2. ASSUME NEW i \in Seeder, SeedStep(i) PROVE SeedingInv'
      BY <1>2, SeedInvStep
<1>3. CASE UNCHANGED env
      <2>1. UNCHANGED vars /\ UNCHANGED seedVars
            BY <1>3 DEF env, vars, tables
      <2> QED BY <2>1, RequestInvStep
<1>4. CallStep => UNCHANGED env
      BY DEF CallStep, BeginCall, ResolveTenant, ReadUser, ReadSession,
             CheckPermission, CheckPolicy, Handle, EndCall
<1>5. CASE UNCHANGED accessVars
      BY <1>3, <1>5 DEF accessVars, env
<1> QED BY <1>1, <1>2, <1>3, <1>4, <1>5 DEF AccessNext

-----------------------------------------------------------------------------
(* The history grows with every step while the request is at its checks.     *)
LEMMA HistoryGrows ==
  ASSUME CallInv, Watch, call'.user \in User
  PROVE  /\ seen \subseteq seen' /\ seen' \in SUBSET Fact
         /\ Observed' \subseteq seen' /\ Moved \subseteq seen'
<1>1. call'.user # NoUser
      BY RolesAssumption
<1>2. Observed' \subseteq Fact
      BY DEF Observed, Fact
<1>3. Moved \subseteq Fact
      BY DEF Moved, Fact
<1>4. seen' = seen \union Observed' \union Moved
      BY <1>1 DEF Watch
<1> QED BY <1>2, <1>3, <1>4 DEF CallInv

LEMMA HistoryIsTyped == CallInv /\ Watch => seen' \in SUBSET Fact
<1>1. Observed' \subseteq Fact /\ Moved \subseteq Fact
      BY DEF Observed, Moved, Fact
<1> QED BY <1>1 DEF Watch, CallInv

(* A step of others: the request stays where it is, and what they change is  *)
(* seen.                                                                     *)
LEMMA OthersStep ==
  ASSUME CallInv, Watch, call' = call,
         \A u \in User : roleOf[u] # NoRole => roleOf'[u] # NoRole
  PROVE  CallInv'
<1> USE DEF CallInv
<1>1. seen' \in SUBSET Fact
      BY HistoryIsTyped
<1>2. CASE call.pc \in Checking \union {"policy"}
      <2>1. /\ seen \subseteq seen' /\ Observed' \subseteq seen'
            /\ Moved \subseteq seen'
            BY <1>2, HistoryGrows
      <2>2. ASSUME call.pc \in {"session", "permission"}
            PROVE  call.role = roleOf'[call.user] \/ "moved" \in seen'
            BY <2>1, <2>2 DEF Moved
      <2> QED BY <1>1, <1>2, <2>1, <2>2 DEF AdmittedWasPermitted, Checking
<1>3. CASE call.pc \notin Checking \union {"policy"}
      BY <1>1, <1>3 DEF Checking, AdmittedWasPermitted
<1> QED BY <1>2, <1>3

-----------------------------------------------------------------------------
LEMMA StatusesAreTyped ==
  /\ \A code \in DOMAIN StatusOf : StatusOf[code] \in Status
  /\ {200, 401, 403} \subseteq Status
BY DEF Status

(* A request that is past its checks, or has none under way, has nothing to  *)
(* remember.                                                                 *)
LEMMA AtRestInv ==
  ASSUME CallInv, Watch, call' \in CallState,
         call'.pc \notin Checking \union {"policy"}
  PROVE  CallInv'
BY HistoryIsTyped DEF CallInv, Checking, AdmittedWasPermitted

LEMMA AnswerInv ==
  ASSUME CallInv, Watch, NEW status \in Status, Answer(status)
  PROVE  CallInv'
<1>1. call' \in CallState /\ call'.pc = "answered"
      BY DEF Answer, NoCall, CallState, CallPC
<1> QED BY <1>1, AtRestInv DEF Checking

LEMMA AdmitInv ==
  ASSUME CallInv, Watch, Admit
  PROVE  CallInv'
<1>1. call' \in CallState /\ call'.pc = "handler"
      BY StatusesAreTyped DEF Admit, NoCall, CallState, CallPC
<1> QED BY <1>1, AtRestInv DEF Checking

LEMMA StepState ==
  ASSUME CallInv, NEW pc \in CallPC, Step(pc)
  PROVE  /\ call' \in CallState /\ call'.pc = pc
         /\ call'.user = call.user /\ call'.role = call.role
         /\ call'.needs = call.needs
BY DEF CallInv, CallState, Step

(* The request's own steps. *)
LEMMA CallStepInv ==
  ASSUME AccessInv, CallStep, Watch
  PROVE  CallInv'
<1> USE StatusesAreTyped DEF AccessInv
<1>1. UNCHANGED <<rows, roleOf, grants>>
      BY DEF CallStep, BeginCall, ResolveTenant, ReadUser, ReadSession,
             CheckPermission, CheckPolicy, Handle, EndCall, env, tables
<1>2. ASSUME NEW u \in Caller, NEW h \in Host, NEW P \in SUBSET Permission,
             BeginCall(u, h, P)
      PROVE  CallInv'
      <2>1. u \in User /\ SlugOf(h) \in Slug \union {NoSlug}
            BY AccessAssumption DEF SlugOf
      <2>2. /\ call' \in CallState /\ call'.pc = "tenant" /\ call'.user = u
            /\ roleOf[u] # NoRole
            <3>1. call' = [pc |-> "tenant", user |-> u, needs |-> P,
                           tenant |-> SlugOf(h), role |-> NoRole,
                           status |-> 200]
                  BY <1>2 DEF BeginCall, NoCall
            <3>2. roleOf[u] # NoRole
                  BY <1>2 DEF BeginCall
            <3>3. call' \in CallState
                  BY <2>1, <3>1 DEF CallState, CallPC
            <3> QED BY <3>1, <3>2, <3>3
      <2>3. Observed' \subseteq seen' /\ seen' \in SUBSET Fact
            BY <2>1, <2>2, HistoryGrows
      <2> QED BY <1>1, <2>1, <2>2, <2>3 DEF CallInv, AdmittedWasPermitted
<1>3. CASE ResolveTenant
      <2>1. CASE Answer(401)
            BY <1>3, <2>1, AnswerInv
      <2>2. CASE Step("user")
            <3>1. /\ call' \in CallState /\ call'.pc = "user"
                  /\ call'.user = call.user
                  BY <2>2, StepState DEF CallPC
            <3>2. call.user \in User /\ roleOf[call.user] # NoRole
                  BY <1>3 DEF ResolveTenant, CallInv, Checking
            <3>3. Observed' \subseteq seen' /\ seen' \in SUBSET Fact
                  BY <3>1, <3>2, HistoryGrows
            <3> QED BY <1>1, <3>1, <3>2, <3>3 DEF CallInv, AdmittedWasPermitted
      <2> QED BY <1>3, <2>1, <2>2 DEF ResolveTenant
<1>4. CASE ReadUser
      <2>1. CASE Answer(401)
            BY <2>1, AnswerInv
      <2>2. CASE call' = [call EXCEPT !.pc = "session",
                                      !.role = roleOf[call.user]]
            <3>1. call.user \in User /\ roleOf[call.user] # NoRole
                  BY <1>4 DEF ReadUser, CallInv, Checking
            <3>2. roleOf[call.user] \in Role
                  BY <3>1 DEF SeedingInv, RolesInv, TypeOK
            <3>3. /\ call' \in CallState /\ call'.pc = "session"
                  /\ call'.user = call.user /\ call'.role = roleOf[call.user]
                  <4>1. call \in CallState /\ "session" \in CallPC
                        BY DEF CallInv, CallPC
                  <4> QED BY ONLY <2>2, <3>2, <4>1 DEF CallState
            <3>4. Observed' \subseteq seen' /\ seen' \in SUBSET Fact
                  BY <3>1, <3>3, HistoryGrows
            <3> QED BY <1>1, <3>1, <3>2, <3>3, <3>4
                    DEF CallInv, AdmittedWasPermitted
      <2> QED BY <1>4, <2>1, <2>2 DEF ReadUser
<1>5. CASE ReadSession
      <2>1. CASE Answer(401)
            BY <2>1, AnswerInv
      <2>2. CASE Admit
            BY <2>2, AdmitInv
      <2>3. CASE Step("permission")
            <3>1. /\ call' \in CallState /\ call'.pc = "permission"
                  /\ call'.user = call.user /\ call'.role = call.role
                  BY <2>3, StepState DEF CallPC
            <3>2. /\ call.user \in User /\ roleOf[call.user] # NoRole
                  /\ call.role \in Role
                  /\ call.role = roleOf[call.user] \/ "moved" \in seen
                  BY <1>5 DEF ReadSession, CallInv, Checking
            <3>3. /\ seen \subseteq seen' /\ Observed' \subseteq seen'
                  /\ seen' \in SUBSET Fact
                  BY <3>1, <3>2, HistoryGrows
            <3> QED BY <1>1, <3>1, <3>2, <3>3 DEF CallInv, AdmittedWasPermitted
      <2> QED BY <1>5, <2>1, <2>2, <2>3 DEF ReadSession
<1>6. CASE CheckPermission
      <2>1. CASE Answer(403)
            BY <2>1, AnswerInv
      <2>2. CASE Suffices(grants[call.role]) /\ Step("policy")
            <3>1. /\ call' \in CallState /\ call'.pc = "policy"
                  /\ call'.user = call.user
                  BY <2>2, StepState DEF CallPC
            <3>2. call.user \in User
                  BY <1>6 DEF CheckPermission, CallInv, Checking
            <3>3. seen \subseteq seen' /\ seen' \in SUBSET Fact
                  BY <3>1, <3>2, HistoryGrows
            <3>4. "permitted" \in seen \/ "moved" \in seen
                  BY <1>6, <2>2
                     DEF CheckPermission, CallInv, Checking, Observed
            <3> QED BY <3>1, <3>2, <3>3, <3>4
                    DEF CallInv, AdmittedWasPermitted, Checking
      <2> QED BY <1>6, <2>1, <2>2 DEF CheckPermission
<1>7. CASE CheckPolicy
      BY <1>7, AdmitInv, AnswerInv DEF CheckPolicy
<1>8. CASE Handle
      BY <1>8, AnswerInv DEF Handle
<1>9. CASE EndCall
      <2>1. call' \in CallState /\ call'.pc = "none"
            BY <1>9 DEF EndCall, NoCall, CallState, CallPC
      <2> QED BY <2>1, AtRestInv DEF Checking
<1> QED BY <1>2, <1>3, <1>4, <1>5, <1>6, <1>7, <1>8, <1>9 DEF CallStep

LEMMA CallInvStep ==
  AccessInv /\ [AccessNext]_accessVars => CallInv'
<1> SUFFICES ASSUME AccessInv, [AccessNext]_accessVars
             PROVE  CallInv'
    OBVIOUS
<1>1. \A u \in User : roleOf[u] # NoRole => roleOf'[u] # NoRole
      BY RolesRemain
<1>2. CASE AccessNext /\ call' = call
      BY <1>1, <1>2, OthersStep DEF AccessInv, AccessNext
<1>3. CASE AccessNext /\ CallStep
      BY <1>3, CallStepInv DEF AccessNext
<1>4. CASE UNCHANGED accessVars
      BY <1>4
         DEF accessVars, tables, AccessInv, CallInv, Observed, Suffices,
             AdmittedWasPermitted
<1> QED BY <1>2, <1>3, <1>4 DEF AccessNext

-----------------------------------------------------------------------------
LEMMA Invariance == AccessSpec => []AccessInv
<1>1. AccessInv /\ [AccessNext]_accessVars => AccessInv'
      BY SeedingInvStep, CallInvStep DEF AccessInv
<1> QED BY AccessInitInv, <1>1, PTL DEF AccessSpec

(* Types, and with them that no user has a role that is not there and that   *)
(* the request that is followed is one of a user with a role.                *)
THEOREM TypeCorrect == AccessSpec => []AccessTypeOK
<1>1. AccessInv => AccessTypeOK
      BY DEF AccessInv, SeedingInv, RolesInv, CallInv, AccessTypeOK, Checking
<1> QED BY Invariance, <1>1, PTL

(* An assignment of permissions that found its role before the role's        *)
(* deletion leaves none behind.                                              *)
THEOREM GrantsHaveRoles == AccessSpec => []GrantsHaveARole
<1>1. AccessInv => GrantsHaveARole
      BY DEF AccessInv, SeedingInv, RolesInv
<1> QED BY Invariance, <1>1, PTL

(* Wherever earlier runs of the seeders died, and whatever requests do once  *)
(* there is a founder: the system roles have what they were to have.         *)
THEOREM SeededForGood == AccessSpec => []SeededIsComplete
<1>1. AccessInv => SeededIsComplete
      <2> SUFFICES ASSUME AccessInv, Opened PROVE SeededIsComplete
          BY DEF SeededIsComplete
      <2> USE SeedingAssumption DEF AccessInv, SeedingInv
      <2>1. SystemRole # {} /\ Home \in tenants
            BY DEF FounderComesLast
      <2>2. permissions = Permission
            BY <2>1 DEF SystemRolesAreComplete
      <2>3. ASSUME NEW n \in SystemName
            PROVE  \E x \in rows : name[x] = n /\ grants[x] = SeedGrants[n]
            <3> PICK x \in rows : name[x] = n
                BY <2>1 DEF SystemRolesAreComplete
            <3>1. grants[x] = Permission
                  BY <2>1 DEF SystemRolesAreComplete, SystemRole
            <3> QED BY <3>1
      <2> QED BY <2>1, <2>2, <2>3 DEF SeededIsComplete
<1> QED BY Invariance, <1>1, PTL

(* A user who has a role has one after every step of a request or a seeder.  *)
THEOREM UsersKeepTheirRoles == AccessSpec => UsersKeepARole
<1>1. AccessInv /\ [AccessNext]_accessVars =>
        [\A u \in User : roleOf[u] # NoRole => roleOf'[u] \in rows']_vars
      BY RolesRemain
<1> QED BY Invariance, <1>1, PTL DEF AccessSpec, UsersKeepARole

(* No interleaving of requests and seeders creates, deletes, renames or      *)
(* regrants a system role once there are some.                               *)
THEOREM SystemRolesStayAsSeeded == AccessSpec => SystemRolesUntouched
<1>1. AccessInv /\ [AccessNext]_accessVars =>
        [SystemRole # {} =>
           /\ SystemRole' = SystemRole
           /\ \A x \in SystemRole : name'[x] = name[x] /\ grants'[x] = grants[x]
        ]_vars
      <2> SUFFICES ASSUME AccessInv, [AccessNext]_accessVars, SystemRole # {}
                   PROVE  Untouched
          BY DEF Untouched
      <2> USE DEF AccessInv
      <2>1. CASE Next
            BY <2>1, SystemRolesStay DEF SeedingInv
      <2>2. ASSUME NEW i \in Seeder, SeedStep(i) PROVE Untouched
            BY <2>2, SeedRolesUntouched
      <2>3. CASE UNCHANGED <<rows, name, grants>>
            BY <2>3 DEF Untouched, SystemRole
      <2>4. CallStep => UNCHANGED <<rows, name, grants>>
            BY DEF CallStep, BeginCall, ResolveTenant, ReadUser, ReadSession,
                   CheckPermission, CheckPolicy, Handle, EndCall, env, tables
      <2> QED BY <2>1, <2>2, <2>3, <2>4 DEF AccessNext, accessVars, tables
<1> QED BY Invariance, <1>1, PTL DEF AccessSpec, SystemRolesUntouched

(* A run of the seeders beside a tenant at work takes nothing from it.       *)
THEOREM SeedersOnlyAdd == AccessSpec => SeedersTakeNothing
<1>1. AccessInv /\ [AccessNext]_accessVars =>
        [seed' # seed => TakesNothing]_<<tables, seedVars>>
      <2> SUFFICES ASSUME AccessInv, [AccessNext]_accessVars, seed' # seed
                   PROVE  TakesNothing
          OBVIOUS
      <2>1. CallStep => seed' = seed
            BY DEF CallStep, BeginCall, ResolveTenant, ReadUser, ReadSession,
                   CheckPermission, CheckPolicy, Handle, EndCall, env, seedVars
      <2>2. \E i \in Seeder : SeedStep(i)
            BY <2>1 DEF AccessNext, accessVars, seedVars
      <2> QED BY <2>2, SeedStepTakesNothing DEF AccessInv, SeedingInv
<1> QED BY Invariance, <1>1, PTL
        DEF AccessSpec, SeedersTakeNothing, TakesNothing

(* A request that gets past PermissionGuard had, at some moment since it     *)
(* began, a user whose role was permitted what it asks for, or that user was *)
(* moved to another role while it was checked.                               *)
THEOREM AdmittedHadPermission == AccessSpec => []AdmittedWasPermitted
<1>1. AccessInv => AdmittedWasPermitted
      BY DEF AccessInv, CallInv
<1> QED BY Invariance, <1>1, PTL

(* And one that it turns away had a user who, at some moment, was not.       *)
THEOREM RefusedLackedPermission == AccessSpec => RefusedWasUnpermitted
<1> DEFINE Founded == call.pc = "permission" /\ call'.pc = "answered"
                        => seen \intersect {"unpermitted", "moved"} # {}
<1>1. AccessInv /\ [AccessNext]_accessVars => [Founded]_call
      <2> SUFFICES ASSUME AccessInv, [AccessNext]_accessVars,
                          call.pc = "permission", call'.pc = "answered"
                   PROVE  seen \intersect {"unpermitted", "moved"} # {}
          OBVIOUS
      <2>1. call' # call
            OBVIOUS
      <2>2. CallStep
            BY <2>1 DEF AccessNext, accessVars
      <2>3. CheckPermission
            BY <2>2 DEF CallStep, BeginCall, ResolveTenant, ReadUser,
                        ReadSession, CheckPolicy, Handle, EndCall
      <2>4. ~Suffices(grants[call.role])
            <3>1. call \in CallState
                  BY DEF AccessInv, CallInv
            <3>2. Step("policy") => call'.pc = "policy"
                  BY <3>1 DEF Step, CallState
            <3> QED BY <2>3, <3>2 DEF CheckPermission
      <2> QED BY <2>4 DEF AccessInv, CallInv, Observed, Checking
<1> QED BY Invariance, <1>1, PTL DEF AccessSpec, RefusedWasUnpermitted

-----------------------------------------------------------------------------
(* What the refinement needs besides: a row is a role with a name of its own *)
(* (the unique index), and a user is deleted only after being there.         *)
CatalogueInv ==
  /\ \A x \in Role : x \in rows <=> name[x] # NoName
  /\ \A x, y \in rows : name[x] = name[y] => x = y
  /\ \A u \in deleted : roleOf[u] # NoRole

(* The requests' writes, of which each is one of the catalogue's changes;    *)
(* whatever else they do leaves the tables alone.                            *)
Writes(r) ==
  \/ InsertRole(r) \/ UpdateRole(r) \/ DeleteRow(r)
  \/ AssignPermissions(r) \/ RemovePermission(r) \/ SetUserRole(r)

LEMMA OnlyWritesWrite ==
  ASSUME [Next]_vars
  PROVE  \/ UNCHANGED tables
         \/ \E r \in Request : Writes(r)
         \/ \E u \in User : DeleteUser(u)
BY DEF Next, vars, tables, Writes, CheckNewName, FindForUpdate, FindForAssign,
       FindForRemove, ValidateRole, FindForDelete, CheckRename,
       CheckDeletable, RecountUsers, Fail

(* And so do all steps of a run of the seeders but two.                      *)
LEMMA OnlyTwoSeed ==
  ASSUME NEW i \in Seeder, SeedStep(i)
  PROVE  UNCHANGED tables \/ SeedRoles(i) \/ CreateOwner(i)
BY DEF SeedStep, StartSeeding, UpsertPermission, FindTenant, CreateTenant,
       FindOwnerRole, FindOwner, Die

(* A step of Access is one of the requests, one of a run, or leaves the      *)
(* tables alone.                                                             *)
LEMMA WhoWrites ==
  ASSUME [AccessNext]_accessVars
  PROVE  \/ UNCHANGED tables
         \/ \E r \in Request : Opened /\ Next /\ Writes(r)
         \/ \E u \in User : Opened /\ DeleteUser(u)
         \/ \E i \in Seeder : SeedStep(i) /\ (SeedRoles(i) \/ CreateOwner(i))
<1>1. CASE Opened /\ Next
      BY <1>1, OnlyWritesWrite
<1>2. CASE \E i \in Seeder : SeedStep(i)
      BY <1>2, OnlyTwoSeed
<1>3. CallStep => UNCHANGED tables
      BY DEF CallStep, BeginCall, ResolveTenant, ReadUser, ReadSession,
             CheckPermission, CheckPolicy, Handle, EndCall, env
<1>4. UNCHANGED accessVars => UNCHANGED tables
      BY DEF accessVars
<1> QED BY <1>1, <1>2, <1>3, <1>4 DEF AccessNext

(* Names stay unique: by the index where requests write them, by the names   *)
(* that are missing where a run brings roles.                                *)
LEMMA CatalogueInvStep ==
  AccessInv /\ CatalogueInv /\ [AccessNext]_accessVars => CatalogueInv'
<1> SUFFICES ASSUME AccessInv, CatalogueInv, [AccessNext]_accessVars
             PROVE  CatalogueInv'
    OBVIOUS
<1> USE RolesAssumption, SeedingAssumption
    DEF AccessInv, SeedingInv, RolesInv, TypeOK, CatalogueInv
<1>1. CASE UNCHANGED tables
      BY <1>1 DEF tables
<1>2. ASSUME NEW r \in Request, InsertRole(r) PROVE CatalogueInv'
      <2>1. req[r].name \in Name
            BY <1>2 DEF InsertRole, RequestsSpareSystemRoles
      <2> PICK x \in Role :
            /\ Fresh(x)
            /\ IF Free(req[r].name, NoRole)
               THEN /\ rows' = rows \union {x}
                    /\ name' = [name EXCEPT ![x] = req[r].name]
               ELSE UNCHANGED <<rows, name>>
          BY <1>2 DEF InsertRole
      <2>2. UNCHANGED <<roleOf, deleted>>
            BY <1>2 DEF InsertRole
      <2>3. CASE Free(req[r].name, NoRole)
            BY <2>1, <2>2, <2>3 DEF Free, Fresh
      <2>4. CASE ~Free(req[r].name, NoRole)
            BY <2>2, <2>4
      <2> QED BY <2>3, <2>4
<1>3. ASSUME NEW r \in Request, UpdateRole(r) PROVE CatalogueInv'
      <2>1. req[r].name \in Name
            BY <1>3 DEF UpdateRole, RequestsSpareSystemRoles
      <2>2. UNCHANGED <<rows, roleOf, deleted>>
            BY <1>3 DEF UpdateRole
      <2>3. CASE req[r].role \in rows /\ Free(req[r].name, req[r].role)
            <3>1. name' = [name EXCEPT ![req[r].role] = req[r].name]
                  BY <1>3, <2>3 DEF UpdateRole
            <3> QED BY <2>1, <2>2, <2>3, <3>1 DEF Free
      <2>4. CASE name' = name
            BY <2>2, <2>4
      <2> QED BY <1>3, <2>3, <2>4 DEF UpdateRole
<1>4. ASSUME NEW r \in Request, DeleteRow(r) PROVE CatalogueInv'
      BY <1>4 DEF DeleteRow
<1>5. ASSUME NEW r \in Request, AssignPermissions(r) \/ RemovePermission(r)
      PROVE  CatalogueInv'
      BY <1>5 DEF AssignPermissions, RemovePermission
<1>6. ASSUME NEW r \in Request, SetUserRole(r) PROVE CatalogueInv'
      BY <1>6 DEF SetUserRole
<1>7. ASSUME NEW u \in User, DeleteUser(u) PROVE CatalogueInv'
      BY <1>7 DEF DeleteUser
<1>8. ASSUME NEW i \in Seeder, SeedRoles(i) PROVE CatalogueInv'
      <2>1. /\ rows \subseteq rows' /\ rows' \subseteq Role
            /\ \A x \in Role : ~Fresh(x) => name'[x] = name[x]
            /\ \A x \in rows' \ rows : name'[x] \in Missing
            /\ \A x, y \in rows' \ rows : name'[x] = name'[y] => x = y
            /\ \A x \in Role \ rows' : name'[x] = name[x]
            BY <1>8, SeedRolesStep
      <2>2. \A x \in rows : name'[x] = name[x]
            BY <2>1 DEF Fresh
      <2>3. UNCHANGED <<roleOf, deleted>>
            BY <1>8 DEF SeedRoles
      <2>4. NoName \notin Missing
            BY DEF Missing
      <2>5. \A x \in rows : name[x] \notin Missing
            BY DEF Missing
      <2> QED BY <2>1, <2>2, <2>3, <2>4, <2>5
<1>9. ASSUME NEW i \in Seeder, CreateOwner(i) PROVE CatalogueInv'
      BY <1>9 DEF CreateOwner
<1> QED BY <1>1, <1>2, <1>3, <1>4, <1>5, <1>6, <1>7, <1>8, <1>9, WhoWrites
        DEF Writes

LEMMA CatalogueInvariance == AccessSpec => [](AccessInv /\ CatalogueInv)
<1>1. AccessInit => CatalogueInv
      BY RolesAssumption DEF AccessInit, SeedingInit, Init, CatalogueInv
<1>2. AccessInv /\ CatalogueInv /\ [AccessNext]_accessVars
        => AccessInv' /\ CatalogueInv'
      BY CatalogueInvStep, SeedingInvStep, CallInvStep DEF AccessInv
<1> QED BY AccessInitInv, <1>1, <1>2, PTL DEF AccessSpec

-----------------------------------------------------------------------------
(* What the catalogue calls by its names is what the rows say.               *)
LEMMA CatalogueTerms ==
  ASSUME AccessInv, CatalogueInv
  PROVE  /\ \A x \in Role : Catalogue!Exists(x) <=> x \in rows
         /\ \A x \in Role : Catalogue!System(x) <=> x \in SystemRole
         /\ Catalogue!Founded <=> SystemRole # {}
         /\ \A n \in Name \ SystemName, x \in Role :
              Free(n, x) => Catalogue!Available(n, x)
<1> USE RolesAssumption
    DEF AccessInv, SeedingInv, RolesInv, TypeOK, CatalogueInv
<1>1. \A x \in Role : Catalogue!Exists(x) <=> x \in rows
      BY DEF Catalogue!Exists
<1>2. \A x \in Role : Catalogue!System(x) <=> x \in SystemRole
      BY DEF Catalogue!System, SystemRole
<1>3. Catalogue!Founded <=> SystemRole # {}
      <2>1. SystemRole \subseteq Role
            BY DEF SystemRole
      <2> QED BY <1>2, <2>1 DEF Catalogue!Founded
<1>4. \A n \in Name \ SystemName, x \in Role :
        Free(n, x) => Catalogue!Available(n, x)
      BY DEF Catalogue!Available, Free
<1> QED BY <1>1, <1>2, <1>3, <1>4

LEMMA RequestIsCatalogue ==
  ASSUME AccessInv, CatalogueInv, Opened, NEW r \in Request, Writes(r)
  PROVE  Catalogue!Next \/ UNCHANGED Catalogue!vars
<1> USE RolesAssumption DEF Catalogue!Next, Catalogue!vars
<1>1. TypeOK /\ RequestsSpareSystemRoles /\ SystemRole # {}
      BY DEF AccessInv, SeedingInv, RolesInv, FounderComesLast
<1>2. Catalogue!Founded
      BY <1>1, CatalogueTerms
<1>3. ASSUME req[r].pc \in AboutARole, req[r].role \in rows
      PROVE  req[r].role \in Role /\ Catalogue!Ordinary(req[r].role)
      <2>1. /\ req[r].role \in Role
            /\ name[req[r].role] \notin SystemName
            BY <1>1, <1>3 DEF RequestsSpareSystemRoles
      <2>2. req[r].role \notin SystemRole
            BY <2>1 DEF SystemRole
      <2> QED BY <1>3, <2>1, <2>2, CatalogueTerms DEF Catalogue!Ordinary
<1>4. CASE InsertRole(r)
      <2>1. req[r].name \in Name \ SystemName
            BY <1>1, <1>4 DEF InsertRole, RequestsSpareSystemRoles
      <2> PICK x \in Role :
            /\ Fresh(x)
            /\ IF Free(req[r].name, NoRole)
               THEN /\ rows' = rows \union {x}
                    /\ name' = [name EXCEPT ![x] = req[r].name]
               ELSE UNCHANGED <<rows, name>>
          BY <1>4 DEF InsertRole
      <2>2. UNCHANGED <<grants, roleOf, deleted>>
            BY <1>4 DEF InsertRole
      <2>3. CASE Free(req[r].name, NoRole)
            <3>1. Catalogue!Available(req[r].name, x)
                  <4>1. Free(req[r].name, x)
                        BY <1>1, <2>3 DEF Free, TypeOK
                  <4> QED BY <2>1, <4>1, CatalogueTerms
            <3>2. ~Catalogue!Exists(x)
                  BY CatalogueTerms DEF Fresh
            <3>3. Catalogue!Create(x, req[r].name)
                  BY <1>2, <2>2, <2>3, <3>1, <3>2 DEF Catalogue!Create
            <3> QED BY <2>1, <3>3
      <2>4. CASE ~Free(req[r].name, NoRole)
            BY <2>2, <2>4
      <2> QED BY <2>3, <2>4
<1>5. CASE UpdateRole(r)
      <2> DEFINE x == req[r].role
                 n == req[r].name
      <2>1. UNCHANGED <<grants, roleOf, deleted>>
            BY <1>5 DEF UpdateRole
      <2>2. CASE x \in rows /\ Free(n, x)
            <3>1. /\ req[r].pc \in AboutARole
                  /\ n \in Name \ SystemName
                  BY <1>1, <1>5
                     DEF UpdateRole, AboutARole, RequestsSpareSystemRoles
            <3>2. x \in Role /\ Catalogue!Ordinary(x)
                  BY <1>3, <2>2, <3>1
            <3>3. Catalogue!Available(n, x)
                  BY <2>2, <3>1, <3>2, CatalogueTerms
            <3>4. name' = [name EXCEPT ![x] = n]
                  BY <1>5, <2>2 DEF UpdateRole
            <3>5. Catalogue!Rename(x, n)
                  BY <2>1, <3>2, <3>3, <3>4 DEF Catalogue!Rename
            <3> QED BY <3>1, <3>2, <3>5
      <2>3. CASE name' = name
            BY <2>1, <2>3
      <2> QED BY <1>5, <2>2, <2>3 DEF UpdateRole
<1>6. CASE DeleteRow(r)
      <2> DEFINE x == req[r].role
      <2>1. UNCHANGED <<roleOf, deleted>>
            BY <1>6 DEF DeleteRow
      <2>2. CASE x \in rows /\ \A u \in User : roleOf[u] # x
            <3>1. x \in Role /\ Catalogue!Ordinary(x)
                  BY <1>3, <1>6, <2>2 DEF DeleteRow, AboutARole
            <3>2. Catalogue!Delete(x)
                  BY <1>6, <2>1, <2>2, <3>1 DEF DeleteRow, Catalogue!Delete
            <3> QED BY <3>1, <3>2
      <2>3. CASE UNCHANGED <<name, grants>>
            BY <2>1, <2>3
      <2> QED BY <1>6, <2>2, <2>3 DEF DeleteRow
<1>7. CASE AssignPermissions(r) \/ RemovePermission(r)
      <2> DEFINE x == req[r].role
      <2>1. UNCHANGED <<name, roleOf, deleted>>
            BY <1>7 DEF AssignPermissions, RemovePermission
      <2>2. req[r].pc \in AboutARole /\ x \in Role
            BY <1>1, <1>7
               DEF AssignPermissions, RemovePermission, AboutARole,
                   RequestsSpareSystemRoles
      <2>3. /\ req[r].perms \in SUBSET Permission
            /\ grants \in [Role -> SUBSET Permission]
            BY <1>1 DEF TypeOK, RequestState
      <2>4. PICK P \in SUBSET Permission :
              grants' = [grants EXCEPT ![x] = P] \/ grants' = grants
            <3>1. CASE AssignPermissions(r)
                  <4>1. grants[x] \union req[r].perms \in SUBSET Permission
                        BY <2>2, <2>3
                  <4> QED BY <3>1, <4>1 DEF AssignPermissions
            <3>2. CASE RemovePermission(r)
                  <4>1. grants[x] \ req[r].perms \in SUBSET Permission
                        BY <2>2, <2>3
                  <4> QED BY <3>2, <4>1 DEF RemovePermission
            <3> QED BY <1>7, <3>1, <3>2
      <2>5. CASE x \in rows
            <3>1. Catalogue!Ordinary(x)
                  BY <1>3, <2>2, <2>5
            <3>2. Catalogue!Regrant(x, P) \/ UNCHANGED grants
                  BY <2>1, <2>4, <3>1 DEF Catalogue!Regrant
            <3> QED BY <2>1, <2>2, <3>2
      <2>6. CASE x \notin rows
            <3>1. grants[x] = {}
                  BY <2>2, <2>6
                     DEF AccessInv, SeedingInv, RolesInv, GrantsHaveARole
            <3>2. grants' = grants
                  <4>1. CASE AssignPermissions(r)
                        BY <2>6, <4>1 DEF AssignPermissions
                  <4>2. CASE RemovePermission(r)
                        BY <2>3, <3>1, <4>2 DEF RemovePermission
                  <4> QED BY <1>7, <4>1, <4>2
            <3> QED BY <2>1, <3>2
      <2> QED BY <2>5, <2>6
<1>8. CASE SetUserRole(r)
      <2> DEFINE u == req[r].user
                 x == req[r].role
      <2>1. UNCHANGED <<name, grants, deleted>>
            BY <1>8 DEF SetUserRole
      <2>2. CASE u \notin deleted /\ x \in rows
            <3>1. roleOf' = [roleOf EXCEPT ![u] = x]
                  BY <1>8, <2>2 DEF SetUserRole
            <3>2. x \in Role /\ Catalogue!Exists(x)
                  BY <1>1, <2>2, CatalogueTerms DEF TypeOK
            <3>3. CASE u \in User
                  <4>1. Catalogue!Appoint(u, x)
                        BY <1>2, <2>1, <2>2, <3>1, <3>2 DEF Catalogue!Appoint
                  <4> QED BY <3>2, <3>3, <4>1
            <3>4. CASE u \notin User
                  BY <1>1, <2>1, <3>1, <3>4 DEF TypeOK
            <3> QED BY <3>3, <3>4
      <2>3. CASE roleOf' = roleOf
            BY <2>1, <2>3
      <2> QED BY <1>8, <2>2, <2>3 DEF SetUserRole
<1> QED BY <1>4, <1>5, <1>6, <1>7, <1>8 DEF Writes

(* A run founds the system roles when it is the first that gets to them, and *)
(* leaves them alone when it is not.                                         *)
LEMMA SeederIsCatalogue ==
  ASSUME AccessInv, CatalogueInv, CatalogueInv', SeedingInv',
         NEW i \in Seeder, SeedStep(i), SeedRoles(i)
  PROVE  Catalogue!Seed
<1> USE RolesAssumption, SeedingAssumption DEF AccessInv
<1>1. /\ \A x \in Role : ~Fresh(x) => name'[x] = name[x]
      /\ \A x \in Role : grants[x] \subseteq grants'[x]
      /\ \A x \in Role : grants'[x] = grants[x] \/ x \in rows'
      /\ \A n \in SeedName : \E x \in rows' : name'[x] = n
      /\ rows' \subseteq Role
      BY SeedRolesStep DEF SeedingInv
<1>2. /\ \A x \in Role : Catalogue!Exists(x)' <=> x \in rows'
      /\ \A x \in Role : Catalogue!System(x)' <=> x \in SystemRole'
      <2>1. \A x \in Role : x \in rows' <=> name'[x] # NoName
            BY DEF CatalogueInv
      <2> QED BY <2>1 DEF Catalogue!Exists, Catalogue!System, SystemRole
<1>3. ASSUME NEW x \in Role, Catalogue!Exists(x) PROVE name'[x] = name[x]
      BY <1>1, <1>3, CatalogueTerms DEF Fresh
<1>4. ASSUME NEW x \in Role, grants'[x] # grants[x]
      PROVE  Catalogue!Exists(x)'
      BY <1>1, <1>2, <1>4
<1>5. ASSUME NEW x \in Role, Catalogue!Founded, Catalogue!System(x)'
      PROVE  UNCHANGED <<name[x], grants[x]>>
      <2>1. SystemRole # {} /\ x \in SystemRole'
            BY <1>2, <1>5, CatalogueTerms
      <2> QED BY <2>1, SeedRolesUntouched DEF Untouched
<1>6. ASSUME NEW x \in Role, Catalogue!System(x)'
      PROVE  grants'[x] = Permission
      BY <1>2, <1>6 DEF SeedingInv, SystemRolesAreComplete
<1>7. \A n \in SystemName : \E x \in Role : name'[x] = n
      BY <1>1
<1>8. \A x, y \in Role :
        Catalogue!Exists(x)' /\ name'[x] = name'[y] => x = y
      <2> SUFFICES ASSUME NEW x \in Role, NEW y \in Role,
                          Catalogue!Exists(x)', name'[x] = name'[y]
                   PROVE  x = y
          OBVIOUS
      <2>1. x \in rows' /\ y \in rows'
            BY <1>2 DEF CatalogueInv
      <2> QED BY <2>1 DEF CatalogueInv
<1>9. UNCHANGED <<roleOf, deleted>>
      BY DEF SeedRoles
<1> QED BY <1>1, <1>3, <1>4, <1>5, <1>6, <1>7, <1>8, <1>9 DEF Catalogue!Seed

(* The roles, as requests and seeders that decide on earlier reads change    *)
(* them, are a catalogue in which every change is checked and made at once:  *)
(* names unique, nobody's role deleted, system roles founded together with   *)
(* every permission and left alone by everybody from then on.                *)
THEOREM ImplementsCatalogue == AccessSpec => CatalogueSpec
<1>1. AccessInit => Catalogue!Init
      BY DEF AccessInit, SeedingInit, Init, Catalogue!Init
<1>2. AccessInv /\ CatalogueInv /\ AccessInv' /\ CatalogueInv'
        /\ [AccessNext]_accessVars => [Catalogue!Next]_Catalogue!vars
      <2> SUFFICES ASSUME AccessInv, CatalogueInv, AccessInv', CatalogueInv',
                          [AccessNext]_accessVars
                   PROVE  Catalogue!Next \/ UNCHANGED Catalogue!vars
          OBVIOUS
      <2>1. CASE UNCHANGED tables
            BY <2>1 DEF tables, Catalogue!vars
      <2>2. ASSUME Opened, NEW r \in Request, Writes(r)
            PROVE  Catalogue!Next \/ UNCHANGED Catalogue!vars
            BY <2>2, RequestIsCatalogue
      <2>3. ASSUME NEW u \in User, DeleteUser(u) PROVE Catalogue!Next
            BY <2>3 DEF DeleteUser, Catalogue!Dismiss, Catalogue!Next
      <2>4. ASSUME NEW i \in Seeder, SeedStep(i), SeedRoles(i)
            PROVE  Catalogue!Next
            BY <2>4, SeederIsCatalogue DEF AccessInv, Catalogue!Next
      <2>5. ASSUME NEW i \in Seeder, CreateOwner(i)
            PROVE  Catalogue!Next \/ UNCHANGED Catalogue!vars
            <3> DEFINE x == seed[i].role
            <3>1. UNCHANGED <<name, grants, deleted>>
                  BY <2>5 DEF CreateOwner
            <3>2. CASE roleOf[Founder] = NoRole /\ x \in rows
                  <4>1. Founder \in User \ deleted
                        BY <3>2, SeedingAssumption DEF CatalogueInv
                  <4>2. x \in Role /\ Catalogue!Exists(x)
                        BY <3>2, CatalogueTerms
                           DEF AccessInv, SeedingInv, RolesInv, TypeOK
                  <4>3. Catalogue!Founded
                        BY <2>5, CatalogueTerms
                           DEF AccessInv, SeedingInv, RunsAreInOrder,
                               RunIsInOrder, CreateOwner, At, AfterRoles
                  <4>4. Catalogue!Appoint(Founder, x)
                        BY <2>5, <3>1, <3>2, <4>1, <4>2, <4>3
                           DEF CreateOwner, Catalogue!Appoint
                  <4> QED BY <4>1, <4>2, <4>4 DEF Catalogue!Next
            <3>3. CASE roleOf' = roleOf
                  BY <3>1, <3>3 DEF Catalogue!vars
            <3> QED BY <2>5, <3>2, <3>3 DEF CreateOwner
      <2> QED BY <2>1, <2>2, <2>3, <2>4, <2>5, WhoWrites
<1> QED BY <1>1, <1>2, CatalogueInvariance, PTL
        DEF AccessSpec, CatalogueSpec, Catalogue!Spec
=============================================================================
