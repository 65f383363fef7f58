--------------------------- MODULE PasswordReset ---------------------------
(***************************************************************************)
(* Forgotten passwords: requesting a reset token by e-mail, using it, and  *)
(* the logins that race with it (ForgotPasswordService and its repository, *)
(* AuthService.login).                                                     *)
(*                                                                         *)
(* Requests interleave at every database call, as in Sessions.  A reset    *)
(* transaction holds the lock of its token's row from its first UPDATE to  *)
(* its COMMIT.                                                             *)
(***************************************************************************)
EXTENDS Naturals, Sequences

CONSTANTS User, Token, Request,
          NoUser, NoToken,
          Cooldown,   \* requestCooldownMs
          Lifetime,   \* resetTokenExpiryMs
          MaxTime     \* a bound on the clock

ASSUME ResetAssumption ==
  /\ NoUser \notin User /\ NoToken \notin Token
  /\ Cooldown \in Nat /\ MaxTime \in Nat
  /\ Lifetime \in Nat \ {0}

VARIABLES
  now,       \* the clock
  deleted,   \* the users with a deletedAt
  rows,      \* the rows of password_reset_tokens
  owner,     \* their userId
  created,   \* their createdAt; expiresAt is Lifetime later
  used,      \* their usedAt, with what set it
  known,     \* history: the tokens of its user that the request of each found
  password,  \* users.passwordHash, as the token that wrote it
  log,       \* history: the tokens that wrote a password, in order
  inbox,     \* the tokens that reached a user by e-mail
  sessions,  \* the passwords a user's unrevoked sessions were opened with
  req        \* the requests in flight

tokens == <<rows, owner, created, used, known>>
users == <<deleted, password, log, sessions>>
vars == <<now, deleted, rows, owner, created, used, known, password, log,
          inbox, sessions, req>>

-----------------------------------------------------------------------------
Fate == {"unused", "superseded", "reset"}

PC == {"idle",
       "userFound",     \* request: findByEmail returned the user
       "cool",          \* request: no recent token found
       "invalidating",  \* request: the UPDATE has taken its snapshot
       "creating",      \* request: the old tokens are invalidated
       "mailing",       \* request: the new row is inserted
       "hashing",       \* reset: the token was read and looked good
       "marked",        \* reset: in the transaction, the token updated
       "committed",     \* reset: the transaction committed
       "answering",     \* reset: revokeAllSessions returned or failed
       "verified"}      \* login: user read, password compared

RequestState == [pc : PC, user : User \union {NoUser},
                 tok : Token \union {NoToken},  \* token used or created
                 seen : SUBSET Token,   \* rows there when the latest was read
                 snap : SUBSET Token,   \* rows the invalidation works on
                 pw : Token \union {NoToken}]   \* the hash a login compared

Idle == [pc |-> "idle", user |-> NoUser, tok |-> NoToken, seen |-> {},
         snap |-> {}, pw |-> NoToken]

TypeOK ==
  /\ now \in 0..MaxTime
  /\ deleted \in SUBSET User
  /\ rows \in SUBSET Token
  /\ owner \in [Token -> User \union {NoUser}]
  /\ created \in [Token -> 0..MaxTime]
  /\ used \in [Token -> Fate]
  /\ known \in [Token -> SUBSET Token]
  /\ password \in [User -> Token \union {NoToken}]
  /\ log \in Seq(Token)
  /\ inbox \in SUBSET rows
  /\ sessions \in [User -> SUBSET (Token \union {NoToken})]
  /\ req \in [Request -> RequestState]

Init ==
  /\ now = 0
  /\ deleted = {}
  /\ rows = {}
  /\ owner = [t \in Token |-> NoUser]
  /\ created = [t \in Token |-> 0]
  /\ used = [t \in Token |-> "unused"]
  /\ known = [t \in Token |-> {}]
  /\ password = [u \in User |-> NoToken]
  /\ log = <<>>
  /\ inbox = {}
  /\ sessions = [u \in User |-> {}]
  /\ req = [r \in Request |-> Idle]

-----------------------------------------------------------------------------
(* Definitions named X_<Bug> are variants of X with a plausible bug; no      *)
(* specification uses them.                                                  *)

Locked(t) == \E r \in Request : req[r].pc = "marked" /\ req[r].tok = t

(* expiresAt <= now. *)
Expired(t) == created[t] + Lifetime <= now

Usable(t) == used[t] = "unused" /\ ~Expired(t)

TokensOf(u) == {t \in rows : owner[t] = u}

Goto(r, pc) == req' = [req EXCEPT ![r].pc = pc]

Finish(r) == req' = [req EXCEPT ![r] = Idle]

-----------------------------------------------------------------------------
(* POST /auth/request-password-reset.  An unknown or deleted user is        *)
(* answered like a known one and nothing is written.                        *)
FindUser(r, u) ==
  /\ req[r].pc = "idle"
  /\ u \notin deleted
  /\ req' = [req EXCEPT ![r] = [Idle EXCEPT !.pc = "userFound", !.user = u]]
  /\ UNCHANGED <<now, users, tokens, inbox>>

(* The comparison on the wrong side: a token is never too recent. *)
Recent_Never(t) == now + Cooldown < created[t]

(* Date.now() - createdAt < requestCooldownMs. *)
Recent(t) == now < created[t] + Cooldown

(* findLatestTokenByUserId: if any token is recent, the latest one is.  The  *)
(* request is then ignored.                                                  *)
CheckCooldown(r) ==
  /\ req[r].pc = "userFound"
  /\ IF \E t \in TokensOf(req[r].user) : Recent(t)
     THEN Finish(r)
     ELSE req' = [req EXCEPT ![r] =
                    [@ EXCEPT !.pc = "cool", !.seen = TokensOf(req[r].user)]]
  /\ UNCHANGED <<now, users, tokens, inbox>>

(* The comparison of expiresAt the wrong way round. *)
Invalidated_Expired(u) == {t \in TokensOf(u) : used[t] = "unused" /\ Expired(t)}

(* The WHERE clause of invalidateUnusedTokensForUser. *)
Invalidated(u) == {t \in TokensOf(u) : Usable(t)}

(* invalidateUnusedTokensForUser: the UPDATE sees the rows committed when it *)
(* begins, waits for the locked ones, and leaves alone those used meanwhile. *)
InvalidateBegin(r) ==
  /\ req[r].pc = "cool"
  /\ req' = [req EXCEPT ![r] = [@ EXCEPT !.pc = "invalidating",
                                         !.snap = Invalidated(req[r].user)]]
  /\ UNCHANGED <<now, users, tokens, inbox>>

InvalidateEnd(r) ==
  /\ req[r].pc = "invalidating"
  /\ \A t \in req[r].snap : ~Locked(t)
  /\ used' = [t \in Token |-> IF t \in req[r].snap /\ used[t] = "unused"
                              THEN "superseded" ELSE used[t]]
  /\ req' = [req EXCEPT ![r] = [@ EXCEPT !.pc = "creating", !.snap = {}]]
  /\ UNCHANGED <<now, users, rows, owner, created, known, inbox>>

NewToken == CHOOSE t \in Token \ rows : TRUE

(* createToken not awaited: the mail may go out before the row is there.     *)
CreateToken_NotAwaited(r) ==
  /\ req[r].pc = "creating"
  /\ rows # Token
  /\ req' = [req EXCEPT ![r] = [@ EXCEPT !.pc = "mailing", !.tok = NewToken]]
  /\ UNCHANGED <<now, users, tokens, inbox>>

(* createToken.  The milliseconds between the clock read for expiresAt and   *)
(* the database's default for createdAt are not told apart.                  *)
CreateToken(r) ==
  /\ req[r].pc = "creating"
  /\ rows # Token
  /\ rows' = rows \union {NewToken}
  /\ owner' = [owner EXCEPT ![NewToken] = req[r].user]
  /\ created' = [created EXCEPT ![NewToken] = now]
  /\ known' = [known EXCEPT ![NewToken] = req[r].seen]
  /\ req' = [req EXCEPT ![r] = [@ EXCEPT !.pc = "mailing", !.tok = NewToken]]
  /\ UNCHANGED <<now, users, used, inbox>>

(* sendEmail succeeds.  Its failure is logged and swallowed: Fail below.     *)
SendEmail(r) ==
  /\ req[r].pc = "mailing"
  /\ inbox' = inbox \union {req[r].tok}
  /\ Finish(r)
  /\ UNCHANGED <<now, users, tokens>>

-----------------------------------------------------------------------------
(* POST /auth/reset-password with a token that reached the user: it is found *)
(* by its hash, unused and not expired.  Any other token is refused and      *)
(* nothing is written.                                                       *)
ReadToken(r, t) ==
  /\ req[r].pc = "idle"
  /\ t \in inbox
  /\ Usable(t)
  /\ req' = [req EXCEPT ![r] = [Idle EXCEPT !.pc = "hashing", !.tok = t,
                                            !.user = owner[t]]]
  /\ UNCHANGED <<now, users, tokens, inbox>>

(* The transaction relies on the check made before the hashing. *)
MarkUsed_Unchecked(r) ==
  /\ req[r].pc = "hashing"
  /\ ~Locked(req[r].tok)
  /\ Goto(r, "marked")
  /\ UNCHANGED <<now, users, tokens, inbox>>

(* The first UPDATE of markTokenUsedAndResetPassword, when it has the row's  *)
(* lock; its WHERE clause looks at usedAt and expiresAt again (at the        *)
(* instant of the lock here, of issuing the UPDATE in the code).             *)
MarkUsed(r) ==
  /\ req[r].pc = "hashing"
  /\ ~Locked(req[r].tok)
  /\ IF Usable(req[r].tok) THEN Goto(r, "marked") ELSE Finish(r)
  /\ UNCHANGED <<now, users, tokens, inbox>>

(* The two UPDATEs outside a transaction: a failure may come between them.   *)
CommitReset_NoTransaction(r) ==
  LET t == req[r].tok
  IN /\ req[r].pc = "marked"
     /\ \/ /\ used[t] = "unused"
           /\ used' = [used EXCEPT ![t] = "reset"]
           /\ \/ Goto(r, "marked") \/ Finish(r)
           /\ UNCHANGED <<password, log>>
        \/ /\ used[t] = "reset"
           /\ UNCHANGED used
           /\ IF req[r].user \in deleted
              THEN Finish(r) /\ UNCHANGED <<password, log>>
              ELSE /\ password' = [password EXCEPT ![req[r].user] = t]
                   /\ log' = Append(log, t)
                   /\ Goto(r, "committed")
     /\ UNCHANGED <<now, deleted, sessions, rows, owner, created, known, inbox>>

(* The UPDATE of the user and the COMMIT.  A user deleted meanwhile is not   *)
(* updated; returning false does not roll the token back.                    *)
CommitReset(r) ==
  LET t == req[r].tok
      u == req[r].user
  IN /\ req[r].pc = "marked"
     /\ used' = [used EXCEPT ![t] = "reset"]
     /\ IF u \in deleted
        THEN Finish(r) /\ UNCHANGED <<password, log>>
        ELSE /\ password' = [password EXCEPT ![u] = t]
             /\ log' = Append(log, t)
             /\ Goto(r, "committed")
     /\ UNCHANGED <<now, deleted, sessions, rows, owner, created, known, inbox>>

(* revokeAllSessions, outside the transaction, and its failure, which is     *)
(* logged and swallowed.  What it does to a rotation is in Sessions.         *)
RevokeAllSessions(r) ==
  /\ req[r].pc = "committed"
  /\ \/ sessions' = [sessions EXCEPT ![req[r].user] = {}]
     \/ UNCHANGED sessions
  /\ Goto(r, "answering")
  /\ UNCHANGED <<now, deleted, password, log, tokens, inbox>>

Answer(r) ==
  /\ req[r].pc = "answering"
  /\ Finish(r)
  /\ UNCHANGED <<now, users, tokens, inbox>>

-----------------------------------------------------------------------------
(* POST /auth/login by a user who knows the current password: the hash read  *)
(* is the one compared, before the session is created.                       *)
LoginVerify(r, u) ==
  /\ req[r].pc = "idle"
  /\ u \notin deleted
  /\ req' = [req EXCEPT ![r] = [Idle EXCEPT !.pc = "verified", !.user = u,
                                            !.pw = password[u]]]
  /\ UNCHANGED <<now, users, tokens, inbox>>

LoginInsert(r) ==
  /\ req[r].pc = "verified"
  /\ sessions' = [sessions EXCEPT ![req[r].user] = @ \union {req[r].pw}]
  /\ Finish(r)
  /\ UNCHANGED <<now, deleted, password, log, tokens, inbox>>

-----------------------------------------------------------------------------
(* A request dies at an await, its transaction rolled back. *)
Fail(r) ==
  /\ req[r].pc # "idle"
  /\ Finish(r)
  /\ UNCHANGED <<now, users, tokens, inbox>>

(* deleteUser (UserService), which leaves the tokens and sessions alone. *)
DeleteUser(u) ==
  /\ deleted' = deleted \union {u}
  /\ UNCHANGED <<now, password, log, sessions, tokens, inbox, req>>

Tick ==
  /\ now < MaxTime
  /\ now' = now + 1
  /\ UNCHANGED <<users, tokens, inbox, req>>

Next ==
  \/ \E r \in Request :
       \/ \E u \in User : FindUser(r, u) \/ LoginVerify(r, u)
       \/ \E t \in Token : ReadToken(r, t)
       \/ CheckCooldown(r) \/ InvalidateBegin(r) \/ InvalidateEnd(r)
       \/ CreateToken(r) \/ SendEmail(r)
       \/ MarkUsed(r) \/ CommitReset(r) \/ RevokeAllSessions(r) \/ Answer(r)
       \/ LoginInsert(r)
       \/ Fail(r)
  \/ \E u \in User : DeleteUser(u)
  \/ Tick

Spec == Init /\ [][Next]_vars

-----------------------------------------------------------------------------
(* A user has two usable tokens only from two requests that overlapped, so   *)
(* that neither found the other's token when it checked the cooldown: what a *)
(* token's request found can begin no reset any more once that token is      *)
(* there, even if it was being used just then.                               *)
SupersedesEarlier ==
  \A s, t \in rows : s \in known[t] => ~Usable(s)

(* And a user has two tokens that were created within the cooldown only      *)
(* from such requests.                                                       *)
CooldownHolds ==
  \A s, t \in rows : s \in known[t] => created[s] + Cooldown <= created[t]

(* A token used for a reset has written the password, whatever failed in     *)
(* between, unless its user is gone.                                         *)
ResetIsEffective ==
  \A t \in rows : used[t] = "reset" =>
    \/ owner[t] \in deleted
    \/ \E i \in DOMAIN log : log[i] = t

-----------------------------------------------------------------------------
(* A reset token as a one-time token.  One whose transaction has begun is    *)
(* live until that ends, even past its expiry.                               *)
TokenState(t) == CASE t \notin rows -> "unborn"
                   [] t \in rows /\ (Usable(t) \/ Locked(t)) -> "live"
                   [] OTHER -> "dead"

OneTime == INSTANCE OneTimeToken WITH
             state <- [t \in Token |-> TokenState(t)]

(* However resets, requests, expiry and failures race, a token writes a      *)
(* password at most once, and only while it is neither replaced nor expired. *)
OneTimeSpec == OneTime!Spec

-----------------------------------------------------------------------------
(* AUTH_SECURITY_SURFACE 6.3: all sessions are revoked, in one transaction   *)
(* with the new password.  So a reset that answers success leaves no session *)
(* opened with an earlier password.                                          *)
ResetEndsOldSessions ==
  \A r \in Request : req[r].pc = "answering" =>
    sessions[req[r].user] \subseteq {password[req[r].user]}
=============================================================================
