------------------------------- MODULE Users -------------------------------
(***************************************************************************)
(* The users of one tenant: creation with its employee number (NIP), role  *)
(* and status changes, soft deletion (UserService, UserRepository,         *)
(* NipHelper).                                                             *)
(*                                                                         *)
(* Requests interleave at every database call: what a request has read may *)
(* have changed when it writes.  There are two roles here, OWNER and       *)
(* another; what may happen to roles is in Roles.  The profile fields that *)
(* nothing depends on are left out.                                        *)
(***************************************************************************)
EXTENDS Naturals, FiniteSets, FiniteSetsExt

CONSTANTS User,      \* identifiers for rows of the users table
          Founder,   \* the owner that the seeder created
          Email, FounderEmail,
          Status,    \* ACTIVE, INACTIVE, SUSPENDED
          Request,
          MaxNip,    \* a bound on employee numbers, at most 999999: beyond,
                     \* the order of strings is not that of numbers
          NoUser, NoEmail

ASSUME UsersAssumption ==
  /\ Founder \in User /\ FounderEmail \in Email
  /\ NoUser \notin User /\ NoEmail \notin Email
  /\ {"ACTIVE", "SUSPENDED"} \subseteq Status
  /\ MaxNip \in Nat /\ MaxNip < 10^6

VARIABLES
  rows,      \* the rows of the users table
  role,      \* users.roleId, by the name of the role
  status,
  deleted,   \* the rows with a deletedAt
  email,
  nip,       \* 0 for null
  req,       \* the requests in flight
  disturbed  \* history: the deletions that another change has overtaken

columns == <<rows, role, status, deleted, email, nip>>
vars == <<rows, role, status, deleted, email, nip, req, disturbed>>

-----------------------------------------------------------------------------
Role == {"OWNER", "STAFF"}

PC == {"idle",
       "roleFound",     \* create: validateRole returned
       "numbering",     \* create: the e-mail address is free
       "hashing",       \* create: the number is known
       "updating",      \* update: the user was found, the role valid
       "changing",      \* status: the user was found, the rules checked
       "deleting",      \* delete: the user was found
       "softDeleting"}  \* delete: assertNotLastOwner returned

RequestState == [pc : PC, user : User \union {NoUser}, role : Role,
                 status : Status, email : Email \union {NoEmail},
                 nip : 0..MaxNip]

Idle == [pc |-> "idle", user |-> NoUser, role |-> "STAFF",
         status |-> "ACTIVE", email |-> NoEmail, nip |-> 0]

TypeOK ==
  /\ rows \in SUBSET User
  /\ role \in [User -> Role]
  /\ status \in [User -> Status]
  /\ deleted \in SUBSET rows
  /\ email \in [User -> Email \union {NoEmail}]
  /\ nip \in [User -> 0..MaxNip]
  /\ req \in [Request -> RequestState]
  /\ disturbed \in SUBSET Request

Init ==
  /\ rows = {Founder}
  /\ role = [u \in User |-> IF u = Founder THEN "OWNER" ELSE "STAFF"]
  /\ status = [u \in User |-> "ACTIVE"]
  /\ deleted = {}
  /\ email = [u \in User |-> IF u = Founder THEN FounderEmail ELSE NoEmail]
  /\ nip = [u \in User |-> 0]
  /\ req = [r \in Request |-> Idle]
  /\ disturbed = {}

-----------------------------------------------------------------------------
(* Definitions named X_<Bug> are variants of X with a plausible bug; no      *)
(* specification uses them.                                                  *)

(* What findById and findByEmail see: deletedAt IS NULL. *)
Present == rows \ deleted

Begin(r, pc, u, ro, st, e) ==
  /\ req[r].pc = "idle"
  /\ req' = [req EXCEPT ![r] = [pc |-> pc, user |-> u, role |-> ro,
                                status |-> st, email |-> e, nip |-> 0]]
  /\ UNCHANGED disturbed

Goto(r, pc) == req' = [req EXCEPT ![r].pc = pc] /\ UNCHANGED disturbed

Finish(r) == /\ req' = [req EXCEPT ![r] = Idle]
             /\ disturbed' = disturbed \ {r}

(* Request r has changed a user: the deletions under way rest on what they   *)
(* read before.                                                              *)
Disturb(r) ==
  /\ req' = [req EXCEPT ![r] = Idle]
  /\ disturbed' = {q \in Request \ {r} :
                     q \in disturbed \/ req[q].pc \in {"deleting", "softDeleting"}}

-----------------------------------------------------------------------------
(* createUser.  The role exists in the tenant. *)
FindRole(r, ro, e) ==
  /\ Begin(r, "roleFound", NoUser, ro, "ACTIVE", e)
  /\ UNCHANGED columns

(* findByEmail; an OWNER gets no number. *)
CheckEmail(r) ==
  /\ req[r].pc = "roleFound"
  /\ IF \E u \in Present : email[u] = req[r].email
     THEN Finish(r)
     ELSE Goto(r, IF req[r].role = "OWNER" THEN "hashing" ELSE "numbering")
  /\ UNCHANGED columns

(* The number of users, plus one. *)
NextNip_Counted == Cardinality(rows) + 1

(* The highest number of a user who is not deleted, plus one. *)
NextNip == Max({nip[u] : u \in Present} \union {0}) + 1

GenerateNip(r) ==
  /\ req[r].pc = "numbering"
  /\ NextNip <= MaxNip
  /\ req' = [req EXCEPT ![r].pc = "hashing", ![r].nip = NextNip]
  /\ UNCHANGED <<columns, disturbed>>

(* Partial indexes, of the rows with no deletedAt. *)
Unique_Present(e, n) ==
  \A u \in Present : email[u] # e /\ (n # 0 => nip[u] # n)

(* The unique indexes count deleted rows in. *)
Unique(e, n) ==
  \A u \in rows : email[u] # e /\ (n # 0 => nip[u] # n)

NewUser == CHOOSE u \in User \ rows : TRUE

(* The INSERT, once the temporary password is hashed; a duplicate is a 409,  *)
(* and nothing is retried.                                                   *)
InsertUser(r) ==
  /\ req[r].pc = "hashing"
  /\ rows # User
  /\ IF Unique(req[r].email, req[r].nip)
     THEN /\ rows' = rows \union {NewUser}
          /\ role' = [role EXCEPT ![NewUser] = req[r].role]
          /\ status' = [status EXCEPT ![NewUser] = "ACTIVE"]
          /\ email' = [email EXCEPT ![NewUser] = req[r].email]
          /\ nip' = [nip EXCEPT ![NewUser] = req[r].nip]
     ELSE UNCHANGED <<rows, role, status, email, nip>>
  /\ Finish(r)
  /\ UNCHANGED deleted

-----------------------------------------------------------------------------
(* updateUser with a roleId, and no look at the number or at OWNERs. *)
FindForUpdate(r, u, ro) ==
  /\ u \in Present
  /\ Begin(r, "updating", u, ro, "ACTIVE", NoEmail)
  /\ UNCHANGED columns

UpdateRole(r) ==
  /\ req[r].pc = "updating"
  /\ IF req[r].user \in Present
     THEN role' = [role EXCEPT ![req[r].user] = req[r].role] /\ Disturb(r)
     ELSE Finish(r) /\ UNCHANGED role
  /\ UNCHANGED <<rows, status, deleted, email, nip>>

(* updateUserStatus by user a.  A status that is there already is answered,  *)
(* and a self-suspension refused, with nothing written.                      *)
FindForStatus(r, u, st, a) ==
  /\ u \in Present /\ a \in Present
  /\ status[u] # st
  /\ ~(a = u /\ st = "SUSPENDED")
  /\ Begin(r, "changing", u, "STAFF", st, NoEmail)
  /\ UNCHANGED columns

(* updateStatus by id alone. *)
UpdateStatus_ById(r) ==
  /\ req[r].pc = "changing"
  /\ status' = [status EXCEPT ![req[r].user] = req[r].status]
  /\ Disturb(r)
  /\ UNCHANGED <<rows, role, deleted, email, nip>>

UpdateStatus(r) ==
  /\ req[r].pc = "changing"
  /\ IF req[r].user \in Present
     THEN status' = [status EXCEPT ![req[r].user] = req[r].status] /\ Disturb(r)
     ELSE Finish(r) /\ UNCHANGED status
  /\ UNCHANGED <<rows, role, deleted, email, nip>>

-----------------------------------------------------------------------------
(* deleteUser: findById, whose role is the one looked at below. *)
FindForDelete(r, u) ==
  /\ u \in Present
  /\ Begin(r, "deleting", u, role[u], "ACTIVE", NoEmail)
  /\ UNCHANGED columns

ActiveOwners == {u \in Present : role[u] = "OWNER" /\ status[u] = "ACTIVE"}

(* The comparison off by one. *)
LastOwner_None == Cardinality(ActiveOwners) < 1

(* countActiveUsersByRoleName(OWNER) <= 1, whoever that one is. *)
LastOwner == Cardinality(ActiveOwners) <= 1

(* assertNotLastOwner. *)
CheckLastOwner(r) ==
  /\ req[r].pc = "deleting"
  /\ IF req[r].role = "OWNER" /\ LastOwner THEN Finish(r)
                                           ELSE Goto(r, "softDeleting")
  /\ UNCHANGED columns

(* The row is deleted as well. *)
SoftDelete_Hard(r) ==
  /\ req[r].pc = "softDeleting"
  /\ IF req[r].user \in Present
     THEN /\ deleted' = deleted \union {req[r].user}
          /\ rows' = rows \ {req[r].user}
          /\ Disturb(r)
     ELSE Finish(r) /\ UNCHANGED <<rows, deleted>>
  /\ UNCHANGED <<role, status, email, nip>>

(* softDelete, unless the user is deleted already. *)
SoftDelete(r) ==
  /\ req[r].pc = "softDeleting"
  /\ IF req[r].user \in Present
     THEN deleted' = deleted \union {req[r].user} /\ Disturb(r)
     ELSE Finish(r) /\ UNCHANGED deleted
  /\ UNCHANGED <<rows, role, status, email, nip>>

(* A request dies at an await. *)
Fail(r) ==
  /\ req[r].pc # "idle"
  /\ Finish(r)
  /\ UNCHANGED columns

Next ==
  \E r \in Request :
    \/ \E ro \in Role, e \in Email : FindRole(r, ro, e)
    \/ \E u \in User, ro \in Role : FindForUpdate(r, u, ro)
    \/ \E u, a \in User, st \in Status : FindForStatus(r, u, st, a)
    \/ \E u \in User : FindForDelete(r, u)
    \/ CheckEmail(r) \/ GenerateNip(r) \/ InsertUser(r)
    \/ UpdateRole(r) \/ UpdateStatus(r)
    \/ CheckLastOwner(r) \/ SoftDelete(r)
    \/ Fail(r)

Spec == Init /\ [][Next]_vars

-----------------------------------------------------------------------------
(* The numbers given out are 1, 2, 3, ... with no gap and each to one user,  *)
(* the deleted ones included, whatever creations race and whoever is deleted *)
(* in between.                                                               *)
Numbered == {u \in rows : nip[u] # 0}

NipsAreConsecutive == {nip[u] : u \in Numbered} = 1..Cardinality(Numbered)

(* Once deleted, a user is out of reach of requests that found it before.    *)
DeletedAreFrozen ==
  [][\A u \in deleted :
       /\ u \in deleted'
       /\ <<role[u], status[u], nip[u], email[u]>>' =
          <<role[u], status[u], nip[u], email[u]>>]_vars

(* A deletion that no role change, status change or other deletion overtakes *)
(* leaves the tenant with an active OWNER if it had one.                     *)
UndisturbedDeleteKeepsOwner ==
  [][\A r \in Request :
       /\ req[r].pc = "softDeleting" /\ r \notin disturbed
       /\ deleted' # deleted /\ req'[r].pc = "idle"
       /\ ActiveOwners # {}
       => ActiveOwners' # {}]_vars

Staff == INSTANCE Personnel WITH
           people <- rows, left <- deleted, number <- nip,
           given <- Cardinality(Numbered)

(* However requests interleave, and wherever they fail, the table changes as *)
(* if each change were checked and made in one step, and as if numbers came  *)
(* from a counter: a creation that read a number, or found an address free,  *)
(* long before its INSERT gets the next number and an address that nobody    *)
(* has or had, or comes to nothing.                                          *)
PersonnelSpec == Staff!Spec

-----------------------------------------------------------------------------
(* What the comments say and the code does not do.                           *)

(* user.service.ts: cannot delete the last active OWNER in a tenant. *)
DeleteKeepsOwner ==
  [][deleted' # deleted /\ ActiveOwners # {} => ActiveOwners' # {}]_vars

(* nip.helper.ts: generate the next available NIP for a given tenant. *)
NextNipIsAvailable ==
  [][\A r \in Request :
       req[r].pc = "numbering" /\ req'[r].pc = "hashing" =>
         \A u \in rows : nip[u] # req'[r].nip]_vars
=============================================================================
