------------------------------ MODULE Sessions ------------------------------
(***************************************************************************)
(* The life of the rows of the sessions table: login, refresh-token        *)
(* rotation with replay detection, logout, logout-all, and the logout-all  *)
(* a password reset asks for (AuthService, SessionService,                 *)
(* SessionRepository, JwtStrategy).                                        *)
(*                                                                         *)
(* Requests run concurrently and interleave at every database call; each   *)
(* has a record with its program counter and the values it carries across  *)
(* an await.  PostgreSQL runs the statements at READ COMMITTED: the        *)
(* rotation transaction holds the lock of the old row between its UPDATE   *)
(* and its COMMIT, its new row is invisible until then, and an UPDATE of   *)
(* many rows works on the rows it saw when it began.  Any request may      *)
(* fail at any await (a lost connection, a crash): its transaction rolls   *)
(* back and the client gets no answer.                                     *)
(***************************************************************************)
EXTENDS Naturals, FiniteSets

CONSTANTS User,      \* the accounts of one tenant
          Session,   \* identifiers for session rows (crypto.randomUUID)
          Mortal,    \* a bound: the sessions whose lifetime passes
          Request,   \* slots for requests in flight at the same time
          NoUser, NoSession

ASSUME SessionsAssumption == NoUser \notin User /\ NoSession \notin Session

VARIABLES
  status,   \* users.status and users.deletedAt, as one value
  rows,     \* the committed rows of the sessions table
  owner,    \* sessions.userId
  revoked,  \* the rows with a revokedAt
  age,      \* the clock, seen from each session (see Age)
  parent,   \* the session a row was rotated from: the audit log's
            \* previousSessionId; NoSession for a login
  root,     \* history: the login session a row descends from
  held,     \* the sessions whose token pair reached a client
  req       \* the requests in flight

tables == <<status, owner, parent, root>>
vars == <<status, rows, owner, revoked, age, parent, root, held, req>>

-----------------------------------------------------------------------------
(* INACTIVE and SUSPENDED are told apart nowhere in the code modelled here. *)
Status == {"ACTIVE", "SUSPENDED", "DELETED"}

(* 0: both live; 1: the refresh JWT's exp has passed; 2: the row's expiresAt *)
(* has passed too.  The JWT is signed first and iat is rounded down, so its  *)
(* exp is never the later of the two.                                        *)
Age == 0..2

Op == {"none", "login", "refresh", "logout", "logoutAll", "reset"}

PC == {"idle",
       "inserting",   \* login: credentials verified, tokens signed
       "verified",    \* refresh: JWT verified
       "owned",       \* refresh: verifyRefreshTokenOwnership returned
       "locked",      \* refresh: inside revokeSessionChain's transaction
       "responding",  \* tokens made, response not yet with the client
       "userRead",    \* JwtStrategy: user read and accepted
       "authorized",  \* JwtStrategy: session read and accepted
       "revokeAll",   \* about to issue revokeAll
       "revoking",    \* revokeAll's UPDATE has taken its snapshot
       "revokedAll",  \* revokeAll returned
       "closing"}     \* logout's UPDATE returned

RequestState == [op : Op, pc : PC, user : User \union {NoUser},
                 sid : Session \union {NoSession},  \* sessionId of the token
                 new : Session \union {NoSession},  \* session just created
                 seen : SUBSET Session]             \* revokeAll's snapshot

Idle == [op |-> "none", pc |-> "idle", user |-> NoUser, sid |-> NoSession,
         new |-> NoSession, seen |-> {}]

TypeOK ==
  /\ status \in [User -> Status]
  /\ rows \in SUBSET Session
  /\ owner \in [Session -> User \union {NoUser}]
  /\ revoked \in SUBSET rows
  /\ age \in [Session -> Age]
  /\ parent \in [Session -> Session \union {NoSession}]
  /\ root \in [Session -> Session \union {NoSession}]
  /\ held \in SUBSET rows
  /\ req \in [Request -> RequestState]

Init ==
  /\ status = [u \in User |-> "ACTIVE"]
  /\ rows = {}
  /\ owner = [s \in Session |-> NoUser]
  /\ revoked = {}
  /\ age = [s \in Session |-> 0]
  /\ parent = [s \in Session |-> NoSession]
  /\ root = [s \in Session |-> NoSession]
  /\ held = {}
  /\ req = [r \in Request |-> Idle]

-----------------------------------------------------------------------------
(* Definitions named X_<Bug> are variants of X with a plausible bug; no      *)
(* specification uses them.                                                  *)

(* The rotation without $transaction: nothing holds the old row. *)
Locked_NoTransaction(s) == FALSE

(* A rotation transaction has updated row s and has not committed. *)
Locked(s) == \E r \in Request : req[r].pc = "locked" /\ req[r].sid = s

(* findActiveSessionById: revokedAt IS NULL AND expiresAt > now. *)
ActiveRow(s) == s \notin revoked /\ age[s] < 2

(* A bound: a request that may create a row starts only while there is an  *)
(* unused identifier for it besides those the ones in flight will take.     *)
MayInsert(r) == req[r].pc \in {"inserting", "verified", "owned", "locked"}
Room == Cardinality({r \in Request : MayInsert(r)})
          < Cardinality(Session \ rows)

Goto(r, pc) == req' = [req EXCEPT ![r].pc = pc]

Begin(r, op, pc, u, s) ==
  /\ req[r].pc = "idle"
  /\ req' = [req EXCEPT ![r] = [Idle EXCEPT !.op = op, !.pc = pc,
                                            !.user = u, !.sid = s]]

(* crypto.randomUUID(): an identifier nobody has used, it matters not which. *)
NewId == CHOOSE s \in Session \ rows : TRUE

(* The INSERT of the row of session NewId, rotated from p, in family f. *)
Insert(r, p, f) ==
  /\ rows # Session
  /\ rows' = rows \union {NewId}
  /\ owner' = [owner EXCEPT ![NewId] = req[r].user]
  /\ parent' = [parent EXCEPT ![NewId] = p]
  /\ root' = [root EXCEPT ![NewId] = f]
  /\ req' = [req EXCEPT ![r].pc = "responding", ![r].new = NewId]

-----------------------------------------------------------------------------
(* POST /auth/login.  findByEmail's answer is all that the status and       *)
(* password checks look at; a refused login writes nothing here.            *)
LoginVerify(r, u) ==
  /\ status[u] = "ACTIVE"
  /\ Room
  /\ Begin(r, "login", "inserting", u, NoSession)
  /\ UNCHANGED <<tables, rows, revoked, age, held>>

(* createSession not awaited: the response is ready before the row is. *)
LoginInsert_NotAwaited(r) ==
  /\ req[r].pc = "inserting"
  /\ rows # Session
  /\ req' = [req EXCEPT ![r].pc = "responding", ![r].new = NewId]
  /\ UNCHANGED <<tables, rows, revoked, age, held>>

(* createSession, once the refresh token is hashed. *)
LoginInsert(r) ==
  /\ req[r].pc = "inserting"
  /\ Insert(r, NoSession, NewId)
  /\ UNCHANGED <<status, revoked, age, held>>

(* The response with the token pair reaches the client. *)
Respond(r) ==
  /\ req[r].pc = "responding"
  /\ held' = held \union {req[r].new}
  /\ req' = [req EXCEPT ![r] = Idle]
  /\ UNCHANGED <<tables, rows, revoked, age>>

-----------------------------------------------------------------------------
(* POST /auth/refresh with the refresh token of session s: the signature    *)
(* and exp are good.  A token past its exp is refused and nothing changes.  *)
RefreshVerify(r, s) ==
  /\ s \in held
  /\ age[s] = 0
  /\ Room
  /\ Begin(r, "refresh", "verified", owner[s], s)
  /\ UNCHANGED <<tables, rows, revoked, age, held>>

(* verifyRefreshTokenOwnership.  A token carries the identifier its row is  *)
(* inserted under and is signed once, so its hash is the row's.  A row that *)
(* is not active is looked up again with no filter, found (rows are never   *)
(* deleted), and taken for a replay.                                        *)
RefreshOwnership(r) ==
  /\ req[r].pc = "verified"
  /\ \/ ActiveRow(req[r].sid) /\ Goto(r, "owned")
     \/ ~ActiveRow(req[r].sid) /\ Goto(r, "revokeAll")
  /\ UNCHANGED <<tables, rows, revoked, age, held>>

(* The rotation relies on the check made before the hashing. *)
Rotatable_Unchecked(s) == TRUE

(* The updateMany of revokeSessionChain looks at revokedAt again, and not at *)
(* expiresAt.                                                                *)
Rotatable(s) == s \notin revoked

(* That updateMany, when it has the row's lock; with no row to update, the   *)
(* refresh has lost a race and is taken for a replay.                        *)
RotateRevoke(r) ==
  /\ req[r].pc = "owned"
  /\ ~Locked(req[r].sid)
  /\ \/ Rotatable(req[r].sid) /\ Goto(r, "locked")
     \/ ~Rotatable(req[r].sid) /\ Goto(r, "revokeAll")
  /\ UNCHANGED <<tables, rows, revoked, age, held>>

(* The INSERT goes through the pool's client instead of the transaction's    *)
(* and the COMMIT waits for it, while it waits for the row's lock.           *)
RotateCommit_OutsideTransaction(r) ==
  /\ req[r].pc = "locked"
  /\ ~Locked(req[r].sid)
  /\ revoked' = revoked \union {req[r].sid}
  /\ Insert(r, req[r].sid, root[req[r].sid])
  /\ UNCHANGED <<status, age, held>>

(* The replacement is created and the old row is left as it was. *)
RotateCommit_KeepsParent(r) ==
  /\ req[r].pc = "locked"
  /\ Insert(r, req[r].sid, root[req[r].sid])
  /\ UNCHANGED <<status, revoked, age, held>>

(* The INSERT and the COMMIT: both rows change for everybody else at once.  *)
RotateCommit(r) ==
  /\ req[r].pc = "locked"
  /\ revoked' = revoked \union {req[r].sid}
  /\ Insert(r, req[r].sid, root[req[r].sid])
  /\ UNCHANGED <<status, age, held>>

-----------------------------------------------------------------------------
(* POST /auth/logout and /auth/logout-all with the access token of s.       *)
(* JwtStrategy.validate reads the user, then the session.                   *)
AuthUser(r, s, op) ==
  /\ op \in {"logout", "logoutAll"}
  /\ s \in held
  /\ status[owner[s]] = "ACTIVE"
  /\ Begin(r, op, "userRead", owner[s], s)
  /\ UNCHANGED <<tables, rows, revoked, age, held>>

AuthSession(r) ==
  /\ req[r].pc = "userRead"
  /\ \/ /\ ActiveRow(req[r].sid)
        /\ Goto(r, IF req[r].op = "logout" THEN "authorized" ELSE "revokeAll")
     \/ /\ ~ActiveRow(req[r].sid)
        /\ req' = [req EXCEPT ![r] = Idle]
  /\ UNCHANGED <<tables, rows, revoked, age, held>>

(* logout: revoke's UPDATE of the one row, which waits for the row's lock.  *)
Logout(r) ==
  /\ req[r].pc = "authorized"
  /\ ~Locked(req[r].sid)
  /\ revoked' = revoked \union {req[r].sid}
  /\ Goto(r, "closing")
  /\ UNCHANGED <<tables, rows, age, held>>

(* POST /auth/reset-password has committed the new password and goes on to  *)
(* revokeAllSessions.                                                       *)
ResetPassword(r, u) ==
  /\ status[u] # "DELETED"
  /\ Begin(r, "reset", "revokeAll", u, NoSession)
  /\ UNCHANGED <<tables, rows, revoked, age, held>>

-----------------------------------------------------------------------------
(* A replay revokes the session it was made with. *)
RevokedBy_Replayed(r) == {req[r].sid} \ (revoked \union {NoSession})

(* The WHERE clause of revokeAll. *)
RevokedBy(r) == {s \in rows \ revoked : owner[s] = req[r].user}

(* revokeAll: the UPDATE sees the rows committed when it begins, waits for  *)
(* the locked ones, and sets revokedAt on all of them.                      *)
RevokeAllBegin(r) ==
  /\ req[r].pc = "revokeAll"
  /\ req' = [req EXCEPT ![r].pc = "revoking", ![r].seen = RevokedBy(r)]
  /\ UNCHANGED <<tables, rows, revoked, age, held>>

RevokeAllEnd(r) ==
  /\ req[r].pc = "revoking"
  /\ \A s \in req[r].seen : ~Locked(s)
  /\ revoked' = revoked \union req[r].seen
  /\ Goto(r, "revokedAll")
  /\ UNCHANGED <<tables, rows, age, held>>

(* The answer of a request that hands out no tokens: 200 for a logout, a    *)
(* logout-all and a reset, 401 for a replay.                                *)
Answer(r) ==
  /\ req[r].pc \in {"revokedAll", "closing"}
  /\ req' = [req EXCEPT ![r] = Idle]
  /\ UNCHANGED <<tables, rows, revoked, age, held>>

(* A request dies at an await, its transaction rolled back, or its answer   *)
(* is lost.  For a reset this is also the failure that resetPassword logs   *)
(* and swallows.                                                            *)
Fail(r) ==
  /\ req[r].pc # "idle"
  /\ req' = [req EXCEPT ![r] = Idle]
  /\ UNCHANGED <<tables, rows, revoked, age, held>>

-----------------------------------------------------------------------------
(* What happens to the account and to time, whatever the requests do.       *)

(* updateUserStatus and deleteUser (UserService): neither looks at sessions. *)
SetStatus(u, st) ==
  /\ status[u] # "DELETED"
  /\ status' = [status EXCEPT ![u] = st]
  /\ UNCHANGED <<rows, owner, parent, root, revoked, age, held, req>>

GrowOld(s) ==
  /\ s \in rows \intersect Mortal
  /\ age[s] < 2
  /\ age' = [age EXCEPT ![s] = @ + 1]
  /\ UNCHANGED <<tables, rows, revoked, held, req>>

(* The steps a request takes once it has begun. *)
Continue(r) ==
  \/ LoginInsert(r) \/ Respond(r)
  \/ RefreshOwnership(r) \/ RotateRevoke(r) \/ RotateCommit(r)
  \/ AuthSession(r) \/ Logout(r)
  \/ RevokeAllBegin(r) \/ RevokeAllEnd(r) \/ Answer(r)

Next ==
  \/ \E r \in Request :
       \/ \E u \in User : LoginVerify(r, u) \/ ResetPassword(r, u)
       \/ \E s \in Session : RefreshVerify(r, s)
       \/ \E s \in Session, op \in Op : AuthUser(r, s, op)
       \/ Continue(r)
       \/ Fail(r)
  \/ \E u \in User, st \in Status : SetStatus(u, st)
  \/ \E s \in Session : GrowOld(s)

Spec == Init /\ [][Next]_vars

(* Node resumes every handler and PostgreSQL grants row locks in the order  *)
(* they were asked for: a step that is ready again and again is taken, even *)
(* if other requests hold its row in between.  Nothing makes a client send  *)
(* a request, and nothing makes a request fail.                             *)
FairSpec == Spec /\ \A r \in Request : SF_vars(Continue(r))

-----------------------------------------------------------------------------
(* At most one session of a family is not revoked: whatever races, one      *)
(* login never turns into two usable refresh tokens (revokeSessionChain).   *)
OneLivePerFamily ==
  \A s, t \in rows \ revoked : root[s] = root[t] => s = t

(* A session is rotated only while it is not revoked, and its successor     *)
(* appears in the very step that revokes it: the check made before the      *)
(* hashing is stale, the one in the transaction is not.                     *)
RotationSpendsItsParent ==
  [][\A s \in rows' \ rows :
       parent'[s] # NoSession =>
         parent'[s] \in revoked' \ revoked]_vars

(* When a refresh has been refused as a replay of a session that was already *)
(* spent, the session that replaced it is revoked: the loser of two          *)
(* concurrent refreshes takes the winner's tokens away.                      *)
ReplayRevokesSuccessor ==
  \A r \in Request :
    req[r].op = "refresh" /\ req[r].pc = "revokedAll"
      /\ req[r].sid \notin req[r].seen =>
        \A s \in rows : parent[s] = req[r].sid => s \in revoked

(* Every request that begins ends: row locks and revokeAll never leave two   *)
(* requests waiting for each other.                                          *)
RequestsEnd == \A r \in Request : req[r].pc # "idle" ~> req[r].pc = "idle"

-----------------------------------------------------------------------------
(* Rotation as a family of sessions with one head (TokenFamily).             *)
CONSTANTS Unborn, Dead

ASSUME FamilyAssumption == Unborn # Dead /\ {Unborn, Dead} \cap Session = {}

Live(f) == {s \in rows \ revoked : root[s] = f}

FamilyHead(f) == IF f \notin rows \/ root[f] # f THEN Unborn
                 ELSE IF Live(f) = {} THEN Dead
                 ELSE CHOOSE s \in Live(f) : TRUE

Family == INSTANCE TokenFamily WITH
            head <- [f \in Session |-> FamilyHead(f)], spent <- rows

(* The session store implements one head per family, moved by a refresh and  *)
(* dead for good once killed.                                                *)
FamilySpec == Family!Spec

-----------------------------------------------------------------------------
(* What the documentation says and the code does not do.                     *)

(* AUTH_SECURITY_SURFACE 2.1, a control and an error case of /auth/refresh:  *)
(* the user exists and is active; user deleted, 401.  So once a user is      *)
(* deleted, a refresh that begins later never gets as far as new tokens.     *)
DeletedUserCannotRefresh ==
  \A u \in User :
    [](status[u] = "DELETED" /\ (\A r \in Request : req[r].pc = "idle") =>
         [](\A r \in Request :
              ~(req[r].pc = "responding" /\ req[r].user = u)))

(* AUTH_SECURITY_SURFACE 3.2, the effect of logout-all: all refresh tokens   *)
(* of the user are unusable.  So once it is done, no family that it saw has  *)
(* a usable session.                                                         *)
LogoutAllKillsFamilies ==
  \A r \in Request :
    req[r].op = "logoutAll" /\ req[r].pc = "revokedAll" =>
      \A s \in req[r].seen : Live(root[s]) = {}
=============================================================================
