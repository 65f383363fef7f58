---------------------------- MODULE SeedingProofs ----------------------------
(***************************************************************************)
(* What runs of the seeders do to the tables, for any number of runs that  *)
(* overlap with each other and with requests.  As in RolesProofs the       *)
(* lemmas are about single steps.                                          *)
(***************************************************************************)
EXTENDS Seeding, RolesProofs

(* What a run knows by its place in the code, whatever others do meanwhile.  *)
AfterRoles == {"ownerRole", "owner", "newOwner"}
AfterTenant == AfterRoles \union {"roles"}
AfterPermissions == AfterTenant \union {"tenant", "newTenant"}

RunIsInOrder(i) ==
  /\ At(i, "permissions") => Permission \ seed[i].todo \subseteq permissions
  /\ seed[i].pc \in AfterPermissions => permissions = Permission
  /\ seed[i].pc \in AfterTenant => Home \in tenants
  /\ seed[i].pc \in AfterRoles => SystemRole # {}

RunsAreInOrder == \A i \in Seeder : RunIsInOrder(i)

(* The system roles come together, and with all they are to have.            *)
SystemRolesAreComplete ==
  SystemRole # {} =>
    /\ permissions = Permission
    /\ \A n \in SystemName : \E x \in rows : name[x] = n
    /\ \A x \in SystemRole : grants[x] = Permission

FounderComesLast == Opened => SystemRole # {} /\ Home \in tenants

SeedingInv ==
  /\ RolesInv /\ SeedingTypeOK
  /\ RunsAreInOrder /\ SystemRolesAreComplete /\ FounderComesLast

TakesNothing ==
  /\ rows \subseteq rows' /\ deleted' = deleted
  /\ permissions \subseteq permissions' /\ tenants \subseteq tenants'
  /\ \A x \in rows : name'[x] = name[x] /\ grants[x] \subseteq grants'[x]
  /\ \A u \in User : roleOf[u] # NoRole => roleOf'[u] = roleOf[u]

-----------------------------------------------------------------------------
LEMMA SeedingInitInv == SeedingInit => SeedingInv
<1> SUFFICES ASSUME SeedingInit PROVE SeedingInv
    OBVIOUS
<1>1. RolesInv
      BY InitInv DEF SeedingInit
<1>2. SeedingTypeOK
      BY DEF SeedingInit, SeedingTypeOK, Off, SeedState, SeedPC
<1>3. RunsAreInOrder
      BY DEF SeedingInit, RunsAreInOrder, RunIsInOrder, At, Off, AfterPermissions,
             AfterTenant, AfterRoles
<1>4. SystemRolesAreComplete
      BY DEF SeedingInit, Init, SystemRolesAreComplete, SystemRole
<1>5. FounderComesLast
      BY SeedingAssumption DEF SeedingInit, Init, FounderComesLast, Opened
<1> QED BY <1>1, <1>2, <1>3, <1>4, <1>5 DEF SeedingInv

-----------------------------------------------------------------------------
(* The transaction of rolesSeeder.  A row that is there keeps its name,      *)
(* since none of the new ones has its identifier; each seeded name has a row *)
(* in the end.                                                               *)
LEMMA SeedRolesStep ==
  ASSUME RolesInv, SeedingTypeOK, NEW i \in Seeder, SeedRoles(i)
  PROVE  /\ rows' \in SUBSET Role /\ rows \subseteq rows'
         /\ name' \in [Role -> Name \union {NoName}]
         /\ grants' \in [Role -> SUBSET Permission]
         /\ \A x \in Role : ~Fresh(x) => name'[x] = name[x]
         /\ \A x \in Role : grants[x] \subseteq grants'[x]
         /\ \A x \in Role : grants'[x] = grants[x] \/ x \in rows'
         /\ \A n \in SeedName : \E x \in rows' : name'[x] = n
         /\ \A x \in rows' : name'[x] \in SeedName
              => SeedGrants[name'[x]] \intersect permissions \subseteq grants'[x]
         /\ \A x \in rows' \ rows : name'[x] \in Missing
         /\ \A x, y \in rows' \ rows : name'[x] = name'[y] => x = y
         /\ \A x \in Role \ rows' : name'[x] = name[x]
<1> USE RolesAssumption, SeedingAssumption DEF RolesInv, TypeOK, SeedingTypeOK
<1> PICK id \in [Missing -> {x \in Role : Fresh(x)}] :
      /\ \A m, n \in Missing : id[m] = id[n] => m = n
      /\ rows' = rows \union {id[n] : n \in Missing}
      /\ name' = [x \in Role |->
                    IF \E n \in Missing : id[n] = x
                    THEN CHOOSE n \in Missing : id[n] = x ELSE name[x]]
    BY DEF SeedRoles
<1>1. Missing \subseteq SeedName /\ SeedName \subseteq Name
      BY DEF Missing
<1>2. \A n \in Missing : id[n] \in Role /\ Fresh(id[n])
      OBVIOUS
<1>3. rows' \in SUBSET Role /\ rows \subseteq rows'
      BY <1>2
<1>4. \A n \in Missing : name'[id[n]] = n
      <2> TAKE n \in Missing
      <2>1. (CHOOSE m \in Missing : id[m] = id[n]) = n
            OBVIOUS
      <2> QED BY <1>2, <2>1
<1>5. \A x \in Role : (\A n \in Missing : id[n] # x) => name'[x] = name[x]
      OBVIOUS
<1>6. name' \in [Role -> Name \union {NoName}]
      <2>1. ASSUME NEW x \in Role PROVE name'[x] \in Name \union {NoName}
            <3>1. CASE \E n \in Missing : id[n] = x
                  BY <1>1, <1>4, <3>1
            <3>2. CASE \A n \in Missing : id[n] # x
                  BY <1>5, <3>2
            <3> QED BY <3>1, <3>2
      <2> QED BY <2>1
<1>7. \A x \in Role : ~Fresh(x) => name'[x] = name[x]
      BY <1>2, <1>5
<1>8. \A n \in SeedName : \E x \in rows' : name'[x] = n
      <2> TAKE n \in SeedName
      <2>1. CASE n \in Missing
            <3>1. id[n] \in rows'
                  BY <2>1
            <3> QED BY <1>4, <2>1, <3>1
      <2>2. CASE n \notin Missing
            <3> PICK x \in rows : name[x] = n
                BY <2>2 DEF Missing
            <3> QED BY <1>3, <1>7 DEF Fresh
      <2> QED BY <2>1, <2>2
<1>9. \A x \in rows' \ rows : name'[x] \in Missing
      BY <1>4
<1>10. /\ grants' = [x \in Role |-> IF x \in rows' /\ name'[x] \in SeedName
                                   THEN Topped(x) ELSE grants[x]]
       /\ \A x \in Role : Topped(x) =
            grants[x] \union (SeedGrants[name'[x]] \intersect permissions)
      BY DEF SeedRoles, Topped, Granted
<1>11. grants' \in [Role -> SUBSET Permission]
      BY <1>10
<1>12. \A x \in Role : /\ grants[x] \subseteq grants'[x]
                       /\ grants'[x] = grants[x] \/ x \in rows'
       <2> TAKE x \in Role
       <2>1. CASE x \in rows' /\ name'[x] \in SeedName
             <3>1. grants'[x] =
                     grants[x] \union (SeedGrants[name'[x]] \intersect permissions)
                   BY <1>10, <2>1
             <3> QED BY <2>1, <3>1
       <2>2. CASE ~(x \in rows' /\ name'[x] \in SeedName)
             <3>1. grants'[x] = grants[x]
                   BY <1>10, <2>2
             <3> QED BY <3>1
       <2> QED BY <2>1, <2>2
<1>13. \A x \in rows' : name'[x] \in SeedName
         => SeedGrants[name'[x]] \intersect permissions \subseteq grants'[x]
       BY <1>3, <1>10
<1>14. \A x, y \in rows' \ rows : name'[x] = name'[y] => x = y
       BY <1>4
<1>15. \A x \in Role \ rows' : name'[x] = name[x]
       BY <1>5
<1> QED BY ONLY <1>3, <1>6, <1>7, <1>8, <1>9, <1>11, <1>12, <1>13, <1>14, <1>15

(* The types, and what the requests in flight know, through every step of a  *)
(* run.                                                                      *)
LEMMA SeedTypeStep ==
  ASSUME RolesInv, SeedingTypeOK, NEW i \in Seeder, SeedStep(i)
  PROVE  RolesInv' /\ SeedingTypeOK'
<1> USE RolesAssumption, SeedingAssumption
<1>1. ASSUME UNCHANGED <<tables, req>> PROVE RolesInv'
      BY <1>1
         DEF tables, RolesInv, TypeOK, GrantsHaveARole,
             RequestsSpareSystemRoles
<1>2. ASSUME NEW pc \in SeedPC, SeedGoto(i, pc)
      PROVE  seed' \in [Seeder -> SeedState]
      BY <1>2 DEF SeedGoto, SeedingTypeOK, SeedState
<1>3. ASSUME SeedEnd(i) PROVE seed' \in [Seeder -> SeedState]
      BY <1>3 DEF SeedEnd, Off, SeedingTypeOK, SeedState, SeedPC
<1> USE DEF SeedingTypeOK
<1>4. CASE StartSeeding(i)
      BY <1>1, <1>4 DEF StartSeeding, Off, SeedState, SeedPC
<1>5. CASE UpsertPermission(i)
      <2>1. UNCHANGED <<tables, req, tenants>>
            BY <1>5 DEF UpsertPermission
      <2>2. PICK p \in seed[i].todo :
              /\ permissions' = permissions \union {p}
              /\ seed' = [seed EXCEPT ![i].todo = @ \ {p},
                                      ![i].pc = IF seed[i].todo = {p} THEN "tenant"
                                                                      ELSE @]
            BY <1>5 DEF UpsertPermission
      <2>3. seed[i] \in SeedState /\ p \in Permission
            BY DEF SeedState
      <2>4. \A pc \in SeedPC, todo \in SUBSET Permission :
              [[seed[i] EXCEPT !.todo = todo] EXCEPT !.pc = pc] \in SeedState
            BY <2>3 DEF SeedState
      <2>5. (IF seed[i].todo = {p} THEN "tenant" ELSE seed[i].pc) \in SeedPC
            BY <2>3 DEF SeedState, SeedPC
      <2>6. seed[i].todo \ {p} \in SUBSET Permission
            BY <2>3 DEF SeedState
      <2>7. seed' = [seed EXCEPT ![i] = [[seed[i] EXCEPT !.todo = seed[i].todo \ {p}]
                        EXCEPT !.pc = IF seed[i].todo = {p} THEN "tenant"
                                                            ELSE seed[i].pc]]
            BY <2>2, <2>3 DEF SeedState
      <2>8. seed' \in [Seeder -> SeedState]
            BY <2>4, <2>5, <2>6, <2>7
      <2> QED BY <1>1, <2>1, <2>2, <2>3, <2>8
<1>6. CASE FindTenant(i)
      <2>1. "roles" \in SeedPC /\ "newTenant" \in SeedPC
            BY DEF SeedPC
      <2> QED BY <1>1, <1>2, <1>6, <2>1 DEF FindTenant
<1>7. CASE CreateTenant(i)
      <2>1. "roles" \in SeedPC
            BY DEF SeedPC
      <2> QED BY <1>1, <1>2, <1>3, <1>7, <2>1 DEF CreateTenant
<1>8. CASE SeedRoles(i)
      <2>1. /\ rows' \in SUBSET Role /\ rows \subseteq rows'
            /\ name' \in [Role -> Name \union {NoName}]
            /\ grants' \in [Role -> SUBSET Permission]
            /\ \A x \in Role : ~Fresh(x) => name'[x] = name[x]
            /\ \A x \in Role : grants'[x] = grants[x] \/ x \in rows'
            BY <1>8, SeedRolesStep
      <2>2. UNCHANGED <<roleOf, deleted, req, permissions, tenants>>
            BY <1>8 DEF SeedRoles
      <2>3. TypeOK'
            BY <2>1, <2>2 DEF RolesInv, TypeOK
      <2>4. GrantsHaveARole'
            BY <2>1 DEF RolesInv, GrantsHaveARole
      <2>5. RequestsSpareSystemRoles'
            BY <2>1, <2>2 DEF RolesInv, RequestsSpareSystemRoles, Fresh
      <2>6. seed' \in [Seeder -> SeedState]
            <3>1. "ownerRole" \in SeedPC
                  BY DEF SeedPC
            <3> QED BY <1>2, <1>8, <3>1 DEF SeedRoles
      <2> QED BY <2>2, <2>3, <2>4, <2>5, <2>6 DEF RolesInv
<1>9. CASE FindOwnerRole(i)
      <2>0. UNCHANGED <<tables, req, permissions, tenants>>
            BY <1>9 DEF FindOwnerRole
      <2>1. CASE SeedEnd(i)
            BY <1>1, <1>3, <2>0, <2>1
      <2>2. ASSUME NEW x \in rows,
                   seed' = [seed EXCEPT ![i] =
                              [@ EXCEPT !.pc = "owner", !.role = x]]
            PROVE  RolesInv' /\ SeedingTypeOK'
            <3>1. [seed[i] EXCEPT !.pc = "owner", !.role = x] \in SeedState
                  <4>1. seed[i] \in SeedState /\ x \in Role
                        BY DEF RolesInv, TypeOK
                  <4>2. "owner" \in SeedPC
                        BY DEF SeedPC
                  <4> QED BY ONLY <4>1, <4>2 DEF SeedState
            <3>2. seed' \in [Seeder -> SeedState]
                  BY <2>2, <3>1
            <3> QED BY <1>1, <2>0, <3>2
      <2> QED BY <1>9, <2>1, <2>2 DEF FindOwnerRole
<1>10. CASE FindOwner(i)
       <2>1. "newOwner" \in SeedPC
             BY DEF SeedPC
       <2> QED BY <1>1, <1>2, <1>3, <1>10, <2>1 DEF FindOwner
<1>11. CASE CreateOwner(i)
       <2>1. seed' \in [Seeder -> SeedState]
             BY <1>3, <1>11 DEF CreateOwner
       <2>2. UNCHANGED <<rows, name, grants, deleted, req, permissions, tenants>>
             BY <1>11 DEF CreateOwner
       <2>3. roleOf' \in [User -> rows \union {NoRole}]
             BY <1>11 DEF CreateOwner, RolesInv, TypeOK
       <2>4. RolesInv'
             BY <2>2, <2>3
                DEF RolesInv, TypeOK, GrantsHaveARole, RequestsSpareSystemRoles
       <2> QED BY <2>1, <2>2, <2>4
<1>12. CASE Die(i)
       BY <1>1, <1>3, <1>12 DEF Die
<1> QED BY <1>4, <1>5, <1>6, <1>7, <1>8, <1>9, <1>10, <1>11, <1>12
        DEF SeedStep

(* A run takes nothing from anybody. *)
LEMMA SeedStepTakesNothing ==
  ASSUME RolesInv, SeedingTypeOK, NEW i \in Seeder, SeedStep(i)
  PROVE  TakesNothing
<1> USE DEF TakesNothing, tables
<1>1. CASE SeedRoles(i)
      <2>1. /\ rows' \in SUBSET Role /\ rows \subseteq rows'
            /\ \A x \in Role : ~Fresh(x) => name'[x] = name[x]
            /\ \A x \in Role : grants[x] \subseteq grants'[x]
            BY <1>1, SeedRolesStep
      <2>2. UNCHANGED <<roleOf, deleted, permissions, tenants>>
            BY <1>1 DEF SeedRoles
      <2> QED BY <2>1, <2>2 DEF RolesInv, TypeOK, Fresh
<1>2. CASE CreateOwner(i)
      BY <1>2 DEF CreateOwner, RolesInv, TypeOK
<1>3. CASE \/ StartSeeding(i) \/ UpsertPermission(i)
           \/ FindTenant(i) \/ CreateTenant(i)
           \/ FindOwnerRole(i) \/ FindOwner(i) \/ Die(i)
      BY <1>3 DEF StartSeeding, UpsertPermission, FindTenant, CreateTenant,
                  FindOwnerRole, FindOwner, Die
<1> QED BY <1>1, <1>2, <1>3 DEF SeedStep

(* Each step of a run keeps what it and the others know by their places.     *)
LEMMA SeedOrderStep ==
  ASSUME SeedingInv, NEW i \in Seeder, SeedStep(i)
  PROVE  RunsAreInOrder'
<1> USE SeedingAssumption DEF SeedingInv
<1>1. TakesNothing /\ RolesInv' /\ SeedingTypeOK'
      BY SeedTypeStep, SeedStepTakesNothing
<1>2. /\ permissions \subseteq permissions' /\ permissions' \subseteq Permission
      /\ tenants \subseteq tenants'
      BY <1>1 DEF TakesNothing, SeedingTypeOK
<1>3. SystemRole \subseteq SystemRole'
      BY <1>1 DEF TakesNothing, SystemRole
<1>4. ASSUME NEW j \in Seeder, seed'[j] = seed[j] PROVE RunIsInOrder(j)'
      <2>1. RunIsInOrder(j)
            BY DEF RunsAreInOrder
      <2> QED BY <1>2, <1>3, <1>4, <2>1
              DEF RunIsInOrder, At, AfterPermissions, AfterTenant, AfterRoles
<1>5. \A j \in Seeder \ {i} : seed'[j] = seed[j]
      BY DEF SeedStep, StartSeeding, UpsertPermission, FindTenant, CreateTenant,
             SeedRoles, FindOwnerRole, FindOwner, CreateOwner, Die, SeedGoto,
             SeedEnd, SeedingTypeOK
<1>6. seed[i] \in SeedState /\ seed \in [Seeder -> SeedState]
      BY DEF SeedingTypeOK
<1> USE DEF RunIsInOrder, At, AfterPermissions, AfterTenant, AfterRoles
<1>7. RunIsInOrder(i)
      BY DEF RunsAreInOrder
<1>8. ASSUME SeedEnd(i) PROVE RunIsInOrder(i)'
      <2>1. seed'[i].pc = "off"
            BY <1>6, <1>8 DEF SeedEnd, Off
      <2> QED BY <2>1
<1>9. ASSUME NEW pc, SeedGoto(i, pc) PROVE seed'[i].pc = pc
      BY <1>6, <1>9 DEF SeedGoto, SeedState
<1>10. ASSUME StartSeeding(i) PROVE RunIsInOrder(i)'
       <2>1. seed'[i].pc = "permissions" /\ seed'[i].todo = Permission
             BY <1>6, <1>10 DEF StartSeeding, Off
       <2> QED BY <2>1
<1>11. ASSUME UpsertPermission(i) PROVE RunIsInOrder(i)'
       <2> PICK p \in seed[i].todo :
             /\ permissions' = permissions \union {p}
             /\ seed' = [seed EXCEPT ![i].todo = @ \ {p},
                                     ![i].pc = IF seed[i].todo = {p}
                                               THEN "tenant" ELSE @]
           BY <1>11 DEF UpsertPermission
       <2>1. Permission \ seed[i].todo \subseteq permissions
             BY <1>7, <1>11 DEF UpsertPermission
       <2>2. CASE seed[i].todo = {p}
             <3>1. seed'[i].pc = "tenant"
                   BY <1>6, <2>2 DEF SeedState
             <3>2. permissions' = Permission
                   BY <1>2, <2>1, <2>2
             <3> QED BY <3>1, <3>2
       <2>3. CASE seed[i].todo # {p}
             <3>1. seed'[i].pc = "permissions"
                   BY <1>6, <1>11, <2>3 DEF SeedState, UpsertPermission
             <3>2. seed'[i].todo = seed[i].todo \ {p}
                   BY <1>6 DEF SeedState
             <3> QED BY <2>1, <3>1, <3>2
       <2> QED BY <2>2, <2>3
<1>12. ASSUME FindTenant(i) PROVE RunIsInOrder(i)'
       <2>1. permissions' = Permission /\ tenants' = tenants
             BY <1>7, <1>12 DEF FindTenant
       <2>2. CASE Home \in tenants
             <3>1. seed'[i].pc = "roles"
                   BY <1>9, <1>12, <2>2 DEF FindTenant
             <3> QED BY <2>1, <2>2, <3>1
       <2>3. CASE Home \notin tenants
             <3>1. seed'[i].pc = "newTenant"
                   BY <1>9, <1>12, <2>3 DEF FindTenant
             <3> QED BY <2>1, <3>1
       <2> QED BY <2>2, <2>3
<1>13. ASSUME CreateTenant(i) PROVE RunIsInOrder(i)'
       <2>1. permissions' = Permission /\ Home \in tenants'
             BY <1>7, <1>13 DEF CreateTenant
       <2>2. CASE SeedEnd(i)
             BY <1>8, <2>2
       <2>3. CASE SeedGoto(i, "roles")
             <3>1. seed'[i].pc = "roles"
                   BY <1>9, <2>3
             <3> QED BY <2>1, <3>1
       <2> QED BY <1>13, <2>2, <2>3 DEF CreateTenant
<1>14. ASSUME SeedRoles(i) PROVE RunIsInOrder(i)'
       <2>1. permissions' = Permission /\ Home \in tenants'
             BY <1>7, <1>14 DEF SeedRoles
       <2>2. \A n \in SeedName : \E x \in rows' : name'[x] = n
             BY <1>14, SeedRolesStep
       <2>3. SystemRole' # {}
             BY <2>2 DEF SystemRole
       <2>4. seed'[i].pc = "ownerRole"
             BY <1>9, <1>14 DEF SeedRoles
       <2> QED BY <2>1, <2>3, <2>4
<1>15. ASSUME FindOwnerRole(i) PROVE RunIsInOrder(i)'
       <2>1. /\ permissions' = Permission /\ Home \in tenants'
             /\ SystemRole' # {}
             BY <1>2, <1>3, <1>7, <1>15 DEF FindOwnerRole
       <2>2. CASE SeedEnd(i)
             BY <1>8, <2>2
       <2>3. ASSUME NEW x \in rows,
                    seed' = [seed EXCEPT ![i] =
                               [@ EXCEPT !.pc = "owner", !.role = x]]
             PROVE  RunIsInOrder(i)'
             <3>1. seed'[i].pc = "owner"
                   BY <1>6, <2>3 DEF SeedState
             <3> QED BY <2>1, <3>1
       <2> QED BY <1>15, <2>2, <2>3 DEF FindOwnerRole
<1>16. ASSUME FindOwner(i) PROVE RunIsInOrder(i)'
       <2>1. /\ permissions' = Permission /\ Home \in tenants'
             /\ SystemRole' # {}
             BY <1>2, <1>3, <1>7, <1>16 DEF FindOwner
       <2>2. CASE SeedEnd(i)
             BY <1>8, <2>2
       <2>3. CASE SeedGoto(i, "newOwner")
             <3>1. seed'[i].pc = "newOwner"
                   BY <1>9, <2>3
             <3> QED BY <2>1, <3>1
       <2> QED BY <1>16, <2>2, <2>3 DEF FindOwner
<1>17. ASSUME CreateOwner(i) \/ Die(i) PROVE RunIsInOrder(i)'
       BY <1>8, <1>17 DEF CreateOwner, Die
<1>18. RunIsInOrder(i)'
       BY <1>10, <1>11, <1>12, <1>13, <1>14, <1>15, <1>16, <1>17 DEF SeedStep
<1> QED
    <2>1. ASSUME NEW j \in Seeder PROVE RunIsInOrder(j)'
          <3>1. CASE j = i
                BY <1>18, <3>1
          <3>2. CASE j # i
                BY <1>4, <1>5, <3>2
          <3> QED BY <3>1, <3>2
    <2> QED BY <2>1 DEF RunsAreInOrder

(* Once there are system roles, a run adds none and changes none: they all   *)
(* have a row and every permission.                                          *)
LEMMA SeedRolesUntouched ==
  ASSUME SeedingInv, NEW i \in Seeder, SeedStep(i), SystemRole # {}
  PROVE  Untouched
<1> USE SeedingAssumption DEF Untouched, SystemRole
<1>1. TakesNothing /\ RolesInv'
      BY SeedTypeStep, SeedStepTakesNothing DEF SeedingInv
<1>2. grants' \in [Role -> SUBSET Permission] /\ rows \in SUBSET Role
      BY <1>1 DEF SeedingInv, RolesInv, TypeOK
<1>3. /\ \A n \in SystemName : \E x \in rows : name[x] = n
      /\ \A x \in SystemRole : grants[x] = Permission
      BY DEF SeedingInv, SystemRolesAreComplete
<1>4. \A x \in SystemRole : name'[x] = name[x] /\ grants'[x] = grants[x]
      BY <1>1, <1>2, <1>3 DEF TakesNothing
<1>5. SystemRole \subseteq SystemRole'
      BY <1>1 DEF TakesNothing
<1>6. \A x \in rows' \ rows : name'[x] \notin SystemName
      <2>1. CASE SeedRoles(i)
            <3>1. \A x \in rows' \ rows : name'[x] \in Missing
                  BY <2>1, SeedRolesStep DEF SeedingInv
            <3> QED BY <1>3, <3>1 DEF Missing
      <2>2. CASE rows' = rows
            BY <2>2
      <2> QED BY <2>1, <2>2
              DEF SeedStep, StartSeeding, UpsertPermission, FindTenant,
                  CreateTenant, FindOwnerRole, FindOwner, CreateOwner, Die,
                  tables
<1>7. SystemRole' \subseteq SystemRole
      BY <1>1, <1>6 DEF TakesNothing
<1> QED BY <1>4, <1>5, <1>7

(* The transaction of rolesSeeder brings all system roles at once, when      *)
(* every permission is there.                                                *)
LEMMA SeedCompleteStep ==
  ASSUME SeedingInv, NEW i \in Seeder, SeedStep(i)
  PROVE  SystemRolesAreComplete'
<1> USE SeedingAssumption
<1>1. TakesNothing /\ RolesInv' /\ SeedingTypeOK'
      BY SeedTypeStep, SeedStepTakesNothing DEF SeedingInv
<1>2. CASE SystemRole # {}
      <2>1. Untouched
            BY <1>2, SeedRolesUntouched
      <2>2. permissions' = Permission
            BY <1>1, <1>2
               DEF SeedingInv, SystemRolesAreComplete, TakesNothing,
                   SeedingTypeOK
      <2>3. \A n \in SystemName : \E x \in rows' : name'[x] = n
            BY <1>1, <1>2
               DEF SeedingInv, SystemRolesAreComplete, TakesNothing
      <2>4. \A x \in SystemRole' : grants'[x] = Permission
            BY <1>2, <2>1 DEF SeedingInv, SystemRolesAreComplete, Untouched
      <2> QED BY <2>2, <2>3, <2>4 DEF SystemRolesAreComplete
<1>3. CASE SystemRole = {} /\ SeedRoles(i)
      <2>1. permissions = Permission /\ permissions' = permissions
            BY <1>3 DEF SeedingInv, RunsAreInOrder, RunIsInOrder, SeedRoles, At,
                        AfterPermissions, AfterTenant
      <2>2. /\ \A n \in SeedName : \E x \in rows' : name'[x] = n
            /\ \A x \in rows' : name'[x] \in SeedName
                 => SeedGrants[name'[x]] \intersect permissions \subseteq grants'[x]
            BY <1>3, SeedRolesStep DEF SeedingInv
      <2>3. grants' \in [Role -> SUBSET Permission] /\ rows' \in SUBSET Role
            BY <1>1 DEF RolesInv, TypeOK
      <2>4. \A n \in SystemName : n \in SeedName /\ SeedGrants[n] = Permission
            OBVIOUS
      <2>5. \A x \in SystemRole' : grants'[x] = Permission
            <3> TAKE x \in SystemRole'
            <3>1. x \in rows' /\ name'[x] \in SystemName
                  BY DEF SystemRole
            <3>2. SeedGrants[name'[x]] = Permission /\ name'[x] \in SeedName
                  BY <2>4, <3>1
            <3>3. Permission \subseteq grants'[x]
                  BY <2>1, <2>2, <3>1, <3>2
            <3>4. grants'[x] \subseteq Permission
                  BY <2>3, <3>1
            <3> QED BY <3>3, <3>4
      <2> QED BY <2>1, <2>2, <2>4, <2>5 DEF SystemRolesAreComplete
<1>4. CASE SystemRole = {} /\ UNCHANGED <<rows, name>>
      BY <1>4 DEF SystemRolesAreComplete, SystemRole
<1> QED BY <1>2, <1>3, <1>4
        DEF SeedStep, StartSeeding, UpsertPermission, FindTenant, CreateTenant,
            FindOwnerRole, FindOwner, CreateOwner, Die, tables

(* The account comes from a run that has seen to all the rest.               *)
LEMMA SeedFounderStep ==
  ASSUME SeedingInv, NEW i \in Seeder, SeedStep(i)
  PROVE  FounderComesLast'
<1>1. TakesNothing
      BY SeedStepTakesNothing DEF SeedingInv
<1>2. SystemRole \subseteq SystemRole' /\ tenants \subseteq tenants'
      BY <1>1 DEF TakesNothing, SystemRole
<1>3. CASE CreateOwner(i)
      <2>1. SystemRole # {} /\ Home \in tenants
            BY <1>3 DEF SeedingInv, RunsAreInOrder, RunIsInOrder, CreateOwner,
                        At, AfterTenant, AfterRoles
      <2> QED BY <1>2, <2>1 DEF FounderComesLast
<1>4. CASE roleOf' = roleOf
      BY <1>2, <1>4 DEF SeedingInv, FounderComesLast, Opened
<1> QED BY <1>3, <1>4
        DEF SeedStep, StartSeeding, UpsertPermission, FindTenant, CreateTenant,
            SeedRoles, FindOwnerRole, FindOwner, Die, tables

LEMMA SeedInvStep ==
  ASSUME SeedingInv, NEW i \in Seeder, SeedStep(i)
  PROVE  SeedingInv'
BY SeedTypeStep, SeedOrderStep, SeedCompleteStep, SeedFounderStep
   DEF SeedingInv

(* And requests leave what the runs rely on: they never touch system roles.  *)
LEMMA RequestInvStep ==
  ASSUME SeedingInv, [Next]_vars, Opened \/ UNCHANGED vars,
         UNCHANGED seedVars
  PROVE  SeedingInv'
<1> USE DEF seedVars
<1>1. RolesInv' /\ Untouched
      BY RolesStep, SystemRolesStay DEF SeedingInv
<1>2. SeedingTypeOK'
      BY DEF SeedingInv, SeedingTypeOK
<1>3. RunsAreInOrder'
      BY <1>1
         DEF SeedingInv, RunsAreInOrder, RunIsInOrder, At, Untouched,
             AfterPermissions, AfterTenant, AfterRoles
<1>4. SystemRolesAreComplete'
      <2> SUFFICES ASSUME SystemRole # {}
                   PROVE  SystemRolesAreComplete'
          BY <1>1 DEF SystemRolesAreComplete, Untouched
      <2>1. \A n \in SystemName : \E x \in SystemRole : name[x] = n
            BY DEF SeedingInv, SystemRolesAreComplete, SystemRole
      <2>2. SystemRole \subseteq rows'
            BY <1>1 DEF Untouched, SystemRole
      <2>3. \A n \in SystemName : \E x \in rows' : name'[x] = n
            BY <1>1, <2>1, <2>2 DEF Untouched
      <2>4. permissions' = Permission
            BY DEF SeedingInv, SystemRolesAreComplete
      <2>5. \A x \in SystemRole' : grants'[x] = Permission
            BY <1>1 DEF SeedingInv, SystemRolesAreComplete, Untouched
      <2> QED BY <2>3, <2>4, <2>5 DEF SystemRolesAreComplete
<1>5. FounderComesLast'
      <2>1. CASE Opened
            BY <1>1, <2>1 DEF SeedingInv, FounderComesLast, Untouched
      <2>2. CASE UNCHANGED vars
            BY <2>2 DEF SeedingInv, FounderComesLast, Opened, vars, SystemRole
      <2> QED BY <2>1, <2>2
<1> QED BY <1>1, <1>2, <1>3, <1>4, <1>5 DEF SeedingInv
=============================================================================
