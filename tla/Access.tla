------------------------------- MODULE Access -------------------------------
(***************************************************************************)
(* The way of one guarded request from its host name to its answer, while  *)
(* other requests and the seeders change what it is checked against:       *)
(* TenantResolverMiddleware, JwtStrategy, PermissionGuard and              *)
(* SecurityPolicyGuard, in the order of the controllers' UseGuards, then   *)
(* the handler and GlobalExceptionFilter.                                  *)
(*                                                                         *)
(* Each check reads the database at a moment of its own and nothing holds  *)
(* between them.  What they promise together is therefore a matter of the  *)
(* history of the request: seen is what was true since it began.  The      *)
(* statuses of tenant and user, the session and the password policy are    *)
(* read once each, and a check of them passes or fails.                    *)
(***************************************************************************)
EXTENDS Seeding, Naturals

CONSTANTS Caller,      \* the users whose requests are followed
          Host,        \* the host names of requests
          Label,       \* the first label of a host name
          LocalHost,   \* localhost, 127.0.0.1, ::1
          DefaultSlug, \* DEFAULT_TENANT_SLUG, else SEED_TENANT_SLUG
          NoSlug,
          MaxBusy      \* a bound on the processes at work at the same time

ASSUME AccessAssumption ==
  /\ Caller \subseteq User
  /\ Label \in [Host -> Slug \union {NoSlug}]
  /\ LocalHost \subseteq Host
  /\ DefaultSlug \in Slug \union {NoSlug} /\ NoSlug \notin Slug
  /\ MaxBusy \in Nat

VARIABLES
  call, \* the request that is followed
  seen  \* history: what was true at some moment since it began

accessVars == <<tables, req, seedVars, call, seen>>

-----------------------------------------------------------------------------
CallPC == {"none",
           "tenant",      \* TenantResolverMiddleware
           "user",        \* JwtStrategy: about to read the user
           "session",     \* JwtStrategy: about to read the session
           "permission",  \* PermissionGuard
           "policy",      \* SecurityPolicyGuard
           "handler",     \* admitted
           "answered"}

Checking == {"tenant", "user", "session", "permission"}

(* GlobalExceptionFilter: the status of an error by its Prisma code, 500 for *)
(* any other.  HttpExceptions bring their own.                               *)
StatusOf == [P2002 |-> 409, P2025 |-> 404, P2003 |-> 422, P2012 |-> 422,
             other |-> 500]

Status == {StatusOf[code] : code \in DOMAIN StatusOf} \union {200, 401, 403}

CallState == [pc : CallPC,
              user : User \union {NoUser},
              needs : SUBSET Permission,     \* @Permission; {}: no such guard
              tenant : Slug \union {NoSlug}, \* the host's, then request.tenant
              role : Role \union {NoRole},   \* request.user.roleId
              status : Status]

NoCall == [pc |-> "none", user |-> NoUser, needs |-> {}, tenant |-> NoSlug,
           role |-> NoRole, status |-> 200]

Fact == {"permitted", "unpermitted", "moved"}

AccessTypeOK ==
  /\ TypeOK /\ SeedingTypeOK
  /\ call \in CallState
  /\ call.pc \in Checking => call.user \in User /\ roleOf[call.user] # NoRole
  /\ call.pc \in {"session", "permission"} => call.role \in Role
  /\ seen \in SUBSET Fact

AccessInit ==
  /\ SeedingInit
  /\ call = NoCall
  /\ seen = {}

-----------------------------------------------------------------------------
Step(pc) == call' = [call EXCEPT !.pc = pc]

Admit == call' = [NoCall EXCEPT !.pc = "handler"]

Answer(status) == call' = [NoCall EXCEPT !.pc = "answered", !.status = status]

env == <<tables, req, seedVars>>

(* extractTenantSlug; www and an empty name have no slug. *)
SlugOf(h) == IF h \in LocalHost THEN DefaultSlug ELSE Label[h]

(* A request with an access token, which is for a user of the tenant Home.   *)
BeginCall(u, h, P) ==
  /\ call.pc = "none"
  /\ roleOf[u] # NoRole
  /\ call' = [NoCall EXCEPT !.pc = "tenant", !.user = u, !.needs = P,
                            !.tenant = SlugOf(h)]
  /\ UNCHANGED env

(* resolveTenantId: the tenant is there and ACTIVE. *)
ResolveTenant ==
  /\ call.pc = "tenant"
  /\ \/ call.tenant \in tenants /\ Step("user")
     \/ Answer(401)
  /\ UNCHANGED env

(* The role is that of the token, which was issued any time before. *)
ReadUser_FromToken ==
  /\ call.pc = "user"
  /\ \/ /\ call.tenant = Home /\ call.user \notin deleted
        /\ \E x \in rows : call' = [call EXCEPT !.pc = "session", !.role = x]
     \/ Answer(401)
  /\ UNCHANGED env

(* JwtStrategy: the token's tenant is the request's, and the user is there,  *)
(* not deleted and ACTIVE.  The role is read here, it is not in the token.   *)
ReadUser ==
  /\ call.pc = "user"
  /\ \/ /\ call.tenant = Home /\ call.user \notin deleted
        /\ call' = [call EXCEPT !.pc = "session", !.role = roleOf[call.user]]
     \/ Answer(401)
  /\ UNCHANGED env

(* The session, whose life Sessions is about, is alive or is not.  Routes    *)
(* of AuthController have no guard but this.                                 *)
ReadSession ==
  /\ call.pc = "session"
  /\ \/ IF call.needs = {} THEN Admit ELSE Step("permission")
     \/ Answer(401)
  /\ UNCHANGED env

(* The permissions P are enough: any one of those required is. *)
Suffices(P) == call.needs \intersect P # {}

CheckPermission ==
  /\ call.pc = "permission"
  /\ IF Suffices(grants[call.role]) THEN Step("policy") ELSE Answer(403)
  /\ UNCHANGED env

(* SecurityPolicyGuard, on the user as read: the password need not be        *)
(* changed and the address is verified.  Its exemption of /auth/me is for a  *)
(* route that it does not guard.                                             *)
CheckPolicy ==
  /\ call.pc = "policy"
  /\ Admit \/ Answer(403)
  /\ UNCHANGED env

(* The handler returns, or throws. *)
Handle ==
  /\ call.pc = "handler"
  /\ \/ Answer(200)
     \/ \E code \in DOMAIN StatusOf : Answer(StatusOf[code])
  /\ UNCHANGED env

EndCall ==
  /\ call.pc = "answered"
  /\ call' = NoCall
  /\ UNCHANGED env

CallStep ==
  \/ \E u \in Caller, h \in Host, P \in SUBSET Permission : BeginCall(u, h, P)
  \/ ResolveTenant \/ ReadUser \/ ReadSession
  \/ CheckPermission \/ CheckPolicy
  \/ Handle \/ EndCall

-----------------------------------------------------------------------------
(* The role of the caller has a permission that suffices, or has none.       *)
Observed ==
  IF call.pc \notin Checking THEN {}
  ELSE IF Suffices(grants[roleOf[call.user]]) THEN {"permitted"}
                                              ELSE {"unpermitted"}

(* The role changes between the two reads that are to go together. *)
Moved ==
  IF /\ call.pc \in {"session", "permission"}
     /\ roleOf'[call.user] # roleOf[call.user]
  THEN {"moved"} ELSE {}

Watch ==
  seen' = IF call'.user = NoUser THEN {}
                                 ELSE seen \union Observed' \union Moved

Busy == {r \in Request : req[r].pc # "idle"}
          \union {i \in Seeder : seed[i].pc # "off"}
          \union {pc \in CallPC \ {"none"} : call.pc = pc}

AccessNext ==
  /\ \/ Opened /\ Next /\ UNCHANGED <<seedVars, call>>
     \/ \E i \in Seeder : SeedStep(i) /\ UNCHANGED call
     \/ CallStep
  /\ Watch
  /\ Cardinality(Busy') <= MaxBusy

AccessSpec == AccessInit /\ [][AccessNext]_accessVars

-----------------------------------------------------------------------------
(* The guard counts, in a query of its own, the grants of a role that was    *)
(* read before.  A request that gets past it had, at some moment since it    *)
(* began, a user whose role had a permission that suffices, or else the user *)
(* was given another role between the two reads: then the old role, which    *)
(* may have been granted the permission only after, decides.                 *)
AdmittedWasPermitted ==
  call.pc = "policy" => seen \intersect {"permitted", "moved"} # {}

(* Nor is a request refused for want of a permission that its user had all   *)
(* the time, grants and roles being edited meanwhile.                        *)
RefusedWasUnpermitted ==
  [][call.pc = "permission" /\ call'.pc = "answered"
       => seen \intersect {"unpermitted", "moved"} # {}]_call

-----------------------------------------------------------------------------
Catalogue == INSTANCE RoleCatalogue

(* However requests and runs of the seeders interleave, and wherever they    *)
(* fail, the tables change as if each change were checked and made in one    *)
(* step: what was read before (that a role is none of the system's, that     *)
(* nobody has it, that a name is free, that there is no such row yet) is     *)
(* still so when it is acted on, or the write comes to nothing.              *)
CatalogueSpec == Catalogue!Spec
=============================================================================
