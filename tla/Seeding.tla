------------------------------ MODULE Seeding ------------------------------
(***************************************************************************)
(* The seeders (npm run prisma:seed) fill the tables that Roles is about:  *)
(* permissions, tenant, system roles, the owner's account.                 *)
(*                                                                         *)
(* A run is a process of its own, one statement or transaction after the   *)
(* other.  It may die at any of them and be started again, beside another  *)
(* run and beside the requests of a tenant that is at work: the seeders    *)
(* claim to be safe to run multiple times.                                 *)
(***************************************************************************)
EXTENDS Roles

CONSTANTS Seeder,      \* runs of the seeders that may overlap
          SeedName,    \* the names in SYSTEM_ROLE_DEFINITIONS
          SeedGrants,  \* ROLE_PERMISSION_MAP
          OwnerName,   \* 'OWNER'
          Founder,     \* the user with the address SEED_OWNER_EMAIL
          Slug,        \* tenants.slug
          Home         \* SEED_TENANT_SLUG, the tenant whose roles Roles models

(* System roles are seeded, and with every permission. *)
ASSUME SeedingAssumption ==
  /\ SystemName \subseteq SeedName /\ SeedName \subseteq Name
  /\ OwnerName \in SystemName
  /\ SeedGrants \in [SeedName -> SUBSET Permission]
  /\ \A n \in SystemName : SeedGrants[n] = Permission
  /\ Founder \in User
  /\ Home \in Slug

VARIABLES
  permissions, \* the rows of the permissions table
  tenants,     \* the slugs in the tenants table
  seed         \* the runs of the seeders

tables == <<rows, name, grants, roleOf, deleted>>
seedVars == <<permissions, tenants, seed>>

-----------------------------------------------------------------------------
SeedPC == {"off",
           "permissions",  \* permissionsSeeder: about to upsert the next one
           "tenant",       \* tenantSeeder: about to look for the tenant
           "newTenant",    \* tenantSeeder: there was none
           "roles",        \* rolesSeeder: about to run its transaction
           "ownerRole",    \* ownerSeeder: about to look for the OWNER role
           "owner",        \* ownerSeeder: about to look for the account
           "newOwner"}     \* ownerSeeder: there was none

SeedState == [pc : SeedPC,
              todo : SUBSET Permission,       \* permissions still to upsert
              role : Role \union {NoRole}]    \* the OWNER role that was found

Off == [pc |-> "off", todo |-> {}, role |-> NoRole]

SeedingTypeOK ==
  /\ permissions \in SUBSET Permission
  /\ tenants \in SUBSET Slug
  /\ seed \in [Seeder -> SeedState]

(* An empty database but for the tenants that earlier installations left.   *)
SeedingInit ==
  /\ Init
  /\ permissions = {}
  /\ tenants = Slug \ {Home}
  /\ seed = [i \in Seeder |-> Off]

-----------------------------------------------------------------------------
At(i, pc) == seed[i].pc = pc

SeedGoto(i, pc) == seed' = [seed EXCEPT ![i].pc = pc]

SeedEnd(i) == seed' = [seed EXCEPT ![i] = Off]

StartSeeding(i) ==
  /\ At(i, "off")
  /\ seed' = [seed EXCEPT ![i] = [Off EXCEPT !.pc = "permissions",
                                             !.todo = Permission]]
  /\ UNCHANGED <<tables, req, permissions, tenants>>

-----------------------------------------------------------------------------
(* permissionsSeeder. *)

(* The upserts are not awaited. *)
UpsertPermission_NotAwaited(i) ==
  /\ At(i, "permissions")
  /\ \/ /\ \E p \in seed[i].todo :
             /\ permissions' = permissions \union {p}
             /\ seed' = [seed EXCEPT ![i].todo = @ \ {p}]
     \/ SeedGoto(i, "tenant") /\ UNCHANGED permissions
  /\ UNCHANGED <<tables, req, tenants>>

(* One upsert at a time, in the order of PERMISSION_DEFINITIONS, which does  *)
(* not matter here.                                                          *)
UpsertPermission(i) ==
  /\ At(i, "permissions")
  /\ \E p \in seed[i].todo :
       /\ permissions' = permissions \union {p}
       /\ seed' = [seed EXCEPT ![i].todo = @ \ {p},
                               ![i].pc = IF seed[i].todo = {p} THEN "tenant"
                                                               ELSE @]
  /\ UNCHANGED <<tables, req, tenants>>

-----------------------------------------------------------------------------
(* tenantSeeder; tenants.slug is unique, so the second of two creations      *)
(* fails and with it the run.                                                *)
FindTenant(i) ==
  /\ At(i, "tenant")
  /\ SeedGoto(i, IF Home \in tenants THEN "roles" ELSE "newTenant")
  /\ UNCHANGED <<tables, req, permissions, tenants>>

CreateTenant(i) ==
  /\ At(i, "newTenant")
  /\ tenants' = tenants \union {Home}
  /\ IF Home \in tenants THEN SeedEnd(i) ELSE SeedGoto(i, "roles")
  /\ UNCHANGED <<tables, req, permissions>>

-----------------------------------------------------------------------------
(* rolesSeeder. *)
Missing == SeedName \ {name[x] : x \in rows}

(* The permissions of the map that are in the table; others are warned of.   *)
Granted(n) == SeedGrants[n] \intersect permissions

(* createMany with skipDuplicates. *)
Topped(x) == grants[x] \union Granted(name'[x])

(* The one transaction of the seeder: a row for each name that has none, and *)
(* to each row of these names the permissions of the map.                    *)
SeedRoles(i) ==
  /\ At(i, "roles")
  /\ \E id \in [Missing -> {x \in Role : Fresh(x)}] :
       /\ \A m, n \in Missing : id[m] = id[n] => m = n
       /\ rows' = rows \union {id[n] : n \in Missing}
       /\ name' = [x \in Role |->
                     IF \E n \in Missing : id[n] = x
                     THEN CHOOSE n \in Missing : id[n] = x ELSE name[x]]
  /\ grants' = [x \in Role |-> IF x \in rows' /\ name'[x] \in SeedName
                               THEN Topped(x) ELSE grants[x]]
  /\ SeedGoto(i, "ownerRole")
  /\ UNCHANGED <<roleOf, deleted, req, permissions, tenants>>

-----------------------------------------------------------------------------
(* ownerSeeder. *)
FindOwnerRole(i) ==
  /\ At(i, "ownerRole")
  /\ IF \E x \in rows : name[x] = OwnerName
     THEN \E x \in rows :
            /\ name[x] = OwnerName
            /\ seed' = [seed EXCEPT ![i] = [@ EXCEPT !.pc = "owner", !.role = x]]
     ELSE SeedEnd(i)
  /\ UNCHANGED <<tables, req, permissions, tenants>>

(* The look for the account, which is content with a deleted one, skips. *)
FindOwner(i) ==
  /\ At(i, "owner")
  /\ IF roleOf[Founder] = NoRole THEN SeedGoto(i, "newOwner") ELSE SeedEnd(i)
  /\ UNCHANGED <<tables, req, permissions, tenants>>

(* An upsert, which makes an existing account an owner's again. *)
CreateOwner_Upsert(i) ==
  /\ At(i, "newOwner")
  /\ roleOf' = [roleOf EXCEPT ![Founder] = seed[i].role]
  /\ SeedEnd(i)
  /\ UNCHANGED <<rows, name, grants, deleted, req, permissions, tenants>>

(* After the password is hashed; it fails if the address is taken by now.    *)
CreateOwner(i) ==
  /\ At(i, "newOwner")
  /\ roleOf' = IF roleOf[Founder] = NoRole /\ seed[i].role \in rows
               THEN [roleOf EXCEPT ![Founder] = seed[i].role] ELSE roleOf
  /\ SeedEnd(i)
  /\ UNCHANGED <<rows, name, grants, deleted, req, permissions, tenants>>

(* A run dies: a query throws, and it exits, or it is killed.  Transactions  *)
(* that have not committed leave nothing.                                    *)
Die(i) ==
  /\ ~At(i, "off")
  /\ SeedEnd(i)
  /\ UNCHANGED <<tables, req, permissions, tenants>>

SeedStep(i) ==
  \/ StartSeeding(i) \/ UpsertPermission(i)
  \/ FindTenant(i) \/ CreateTenant(i)
  \/ SeedRoles(i)
  \/ FindOwnerRole(i) \/ FindOwner(i) \/ CreateOwner(i)
  \/ Die(i)

(* Nobody can log in, and no request change anything, before the account of  *)
(* the founder is there.                                                     *)
Opened == roleOf[Founder] # NoRole

-----------------------------------------------------------------------------
(* Whatever the runs before did and wherever they died, once there is an     *)
(* account to log in with there is all that the seeders are to leave for it: *)
(* every permission, the tenant, and the system roles with every permission  *)
(* of the map.                                                               *)
SeededIsComplete ==
  Opened => /\ permissions = Permission
            /\ Home \in tenants
            /\ \A n \in SystemName :
                 \E x \in rows : name[x] = n /\ grants[x] = SeedGrants[n]

(* A run of the seeders beside a tenant at work takes nothing from it: no    *)
(* row goes, no role loses its name or a permission and nobody's role        *)
(* changes, although a run decides on rows it read before the requests       *)
(* changed them.                                                             *)
SeedersTakeNothing ==
  [][seed' # seed =>
       /\ rows \subseteq rows' /\ deleted' = deleted
       /\ permissions \subseteq permissions' /\ tenants \subseteq tenants'
       /\ \A x \in rows : name'[x] = name[x] /\ grants[x] \subseteq grants'[x]
       /\ \A u \in User : roleOf[u] # NoRole => roleOf'[u] = roleOf[u]
    ]_<<tables, seedVars>>
=============================================================================
