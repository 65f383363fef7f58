------------------------- MODULE EmailVerification -------------------------
(***************************************************************************)
(* E-mail verification: resending the token, verifying with it, and the    *)
(* clean-up of expired tokens that a resend runs for the whole tenant      *)
(* (EmailVerificationService and its repository).                          *)
(*                                                                         *)
(* Requests interleave at every database call, as in PasswordReset; here   *)
(* rows are deleted as well, by requests of other users.                   *)
(***************************************************************************)
EXTENDS Naturals, Sequences

CONSTANTS User, Token, Request,
          NoUser, NoToken,
          Cooldown,   \* resendCooldownMs
          Lifetime,   \* verificationTokenExpiryMs
          MaxTime     \* a bound on the clock

ASSUME VerificationAssumption ==
  /\ NoUser \notin User /\ NoToken \notin Token
  /\ Cooldown \in Nat /\ MaxTime \in Nat
  /\ Lifetime \in Nat \ {0}

VARIABLES
  now,       \* the clock
  deleted,   \* the users with a deletedAt
  verified,  \* the users with an emailVerifiedAt
  rows,      \* the rows of email_verification_tokens
  issued,    \* history: every row there ever was
  owner,     \* their userId
  created,   \* their createdAt; expiresAt is Lifetime later
  used,      \* their usedAt, with what set it
  known,     \* history: the tokens of its user that the request of each found
  log,       \* history: the tokens that verified a user, in order
  inbox,     \* the tokens that reached a user by e-mail
  req        \* the requests in flight

tokens == <<rows, issued, owner, created, used, known>>
users == <<deleted, verified, log>>
vars == <<now, deleted, verified, rows, issued, owner, created, used, known,
          log, inbox, req>>

-----------------------------------------------------------------------------
Fate == {"unused", "superseded", "verified"}

PC == {"idle",
       "userFound",     \* resend: the user was read, not verified yet
       "cool",          \* resend: no recent token found
       "issuing",       \* resend: the expired tokens are removed
       "invalidating",  \* resend: the UPDATE has taken its snapshot
       "creating",      \* resend: the old tokens are invalidated
       "mailing",       \* resend: the new row is inserted
       "found",         \* verify: the token was read and looked good
       "marked"}        \* verify: in the transaction, the token updated

RequestState == [pc : PC, user : User \union {NoUser},
                 tok : Token \union {NoToken},  \* token used or created
                 seen : SUBSET Token,   \* history: issued before the
                                        \* latest was read
                 snap : SUBSET Token]   \* rows the invalidation works on

Idle == [pc |-> "idle", user |-> NoUser, tok |-> NoToken, seen |-> {},
         snap |-> {}]

TypeOK ==
  /\ now \in 0..MaxTime
  /\ deleted \in SUBSET User
  /\ verified \in SUBSET User
  /\ issued \in SUBSET Token
  /\ rows \in SUBSET issued
  /\ owner \in [Token -> User \union {NoUser}]
  /\ created \in [Token -> 0..MaxTime]
  /\ used \in [Token -> Fate]
  /\ known \in [Token -> SUBSET Token]
  /\ log \in Seq(Token)
  /\ inbox \in SUBSET issued
  /\ req \in [Request -> RequestState]

Init ==
  /\ now = 0
  /\ deleted = {}
  /\ verified = {}
  /\ rows = {}
  /\ issued = {}
  /\ owner = [t \in Token |-> NoUser]
  /\ created = [t \in Token |-> 0]
  /\ used = [t \in Token |-> "unused"]
  /\ known = [t \in Token |-> {}]
  /\ log = <<>>
  /\ inbox = {}
  /\ req = [r \in Request |-> Idle]

-----------------------------------------------------------------------------
(* Definitions named X_<Bug> are variants of X with a plausible bug; no      *)
(* specification uses them.                                                  *)

Locked(t) == \E r \in Request : req[r].pc = "marked" /\ req[r].tok = t

(* expiresAt <= now. *)
Expired(t) == created[t] + Lifetime <= now

Usable(t) == t \in rows /\ used[t] = "unused" /\ ~Expired(t)

TokensOf(u) == {t \in rows : owner[t] = u}

Goto(r, pc) == req' = [req EXCEPT ![r].pc = pc]

Finish(r) == req' = [req EXCEPT ![r] = Idle]

-----------------------------------------------------------------------------
(* POST /auth/resend-verification.  An unknown or deleted user is a 404 and *)
(* a verified one a 400; nothing is written.                                *)
FindUser(r, u) ==
  /\ req[r].pc = "idle"
  /\ u \notin deleted
  /\ u \notin verified
  /\ req' = [req EXCEPT ![r] = [Idle EXCEPT !.pc = "userFound", !.user = u]]
  /\ UNCHANGED <<now, users, tokens, inbox>>

(* The comparison on the wrong side: a token is never too recent. *)
Recent_Never(t) == now + Cooldown < created[t]

(* Date.now() - createdAt < resendCooldownMs. *)
Recent(t) == now < created[t] + Cooldown

(* findLatestTokenByUserId: if any token is recent, the latest one is.  The  *)
(* request is then refused with a 400.                                       *)
CheckCooldown(r) ==
  /\ req[r].pc = "userFound"
  /\ IF \E t \in TokensOf(req[r].user) : Recent(t)
     THEN Finish(r)
     ELSE req' = [req EXCEPT ![r].pc = "cool",
                             ![r].seen = {t \in issued :
                                            owner[t] = req[r].user}]
  /\ UNCHANGED <<now, users, tokens, inbox>>

(* gt for lt. *)
Removable_Unexpired(t) == now < created[t] + Lifetime

(* The WHERE clause of removeExpiredTokens, for any user of the tenant. *)
Removable(t) == created[t] + Lifetime < now

(* removeExpiredTokens: the DELETE waits for the rows that are locked. *)
RemoveExpiredTokens(r) ==
  LET gone == {t \in rows : Removable(t)}
  IN /\ req[r].pc = "cool"
     /\ \A t \in gone : ~Locked(t)
     /\ rows' = rows \ gone
     /\ Goto(r, "issuing")
     /\ UNCHANGED <<now, users, issued, owner, created, used, known, inbox>>

(* The comparison of expiresAt the wrong way round. *)
Invalidated_Expired(u) == {t \in TokensOf(u) : used[t] = "unused" /\ Expired(t)}

(* The WHERE clause of invalidateUnusedTokensForUser. *)
Invalidated(u) == {t \in TokensOf(u) : Usable(t)}

(* invalidateUnusedTokensForUser: the UPDATE sees the rows committed when it *)
(* begins, waits for the locked ones, and leaves alone those used meanwhile. *)
InvalidateBegin(r) ==
  /\ req[r].pc = "issuing"
  /\ req' = [req EXCEPT ![r] = [@ EXCEPT !.pc = "invalidating",
                                         !.snap = Invalidated(req[r].user)]]
  /\ UNCHANGED <<now, users, tokens, inbox>>

InvalidateEnd(r) ==
  /\ req[r].pc = "invalidating"
  /\ \A t \in req[r].snap : ~Locked(t)
  /\ used' = [t \in Token |-> IF /\ t \in req[r].snap \intersect rows
                                 /\ used[t] = "unused"
                              THEN "superseded" ELSE used[t]]
  /\ req' = [req EXCEPT ![r] = [@ EXCEPT !.pc = "creating", !.snap = {}]]
  /\ UNCHANGED <<now, users, rows, issued, owner, created, known, inbox>>

NewToken == CHOOSE t \in Token \ issued : TRUE

(* createToken not awaited: the mail may go out before the row is there.     *)
CreateToken_NotAwaited(r) ==
  /\ req[r].pc = "creating"
  /\ issued # Token
  /\ req' = [req EXCEPT ![r] = [@ EXCEPT !.pc = "mailing", !.tok = NewToken]]
  /\ UNCHANGED <<now, users, tokens, inbox>>

(* createToken.  The milliseconds between the clock read for expiresAt and   *)
(* the database's default for createdAt are not told apart.                  *)
CreateToken(r) ==
  /\ req[r].pc = "creating"
  /\ issued # Token
  /\ rows' = rows \union {NewToken}
  /\ issued' = issued \union {NewToken}
  /\ owner' = [owner EXCEPT ![NewToken] = req[r].user]
  /\ created' = [created EXCEPT ![NewToken] = now]
  /\ known' = [known EXCEPT ![NewToken] = req[r].seen]
  /\ req' = [req EXCEPT ![r] = [@ EXCEPT !.pc = "mailing", !.tok = NewToken]]
  /\ UNCHANGED <<now, users, used, inbox>>

(* sendEmail succeeds.  Its failure is logged and swallowed: Fail below.     *)
SendEmail(r) ==
  /\ req[r].pc = "mailing"
  /\ inbox' = inbox \union {req[r].tok}
  /\ Finish(r)
  /\ UNCHANGED <<now, users, tokens>>

-----------------------------------------------------------------------------
(* POST /auth/verify-email with a token that reached the user: it is found   *)
(* by its hash, unused and not expired.  Any other token is refused and      *)
(* nothing is written.                                                       *)
ReadToken(r, t) ==
  /\ req[r].pc = "idle"
  /\ t \in inbox
  /\ Usable(t)
  /\ req' = [req EXCEPT ![r] = [Idle EXCEPT !.pc = "found", !.tok = t,
                                            !.user = owner[t]]]
  /\ UNCHANGED <<now, users, tokens, inbox>>

(* The transaction relies on the check made before it. *)
MarkUsed_Unchecked(r) ==
  /\ req[r].pc = "found"
  /\ ~Locked(req[r].tok)
  /\ IF req[r].tok \in rows THEN Goto(r, "marked") ELSE Finish(r)
  /\ UNCHANGED <<now, users, tokens, inbox>>

(* The first UPDATE of markTokenUsedAndVerifyUser, when it has the row's     *)
(* lock; its WHERE clause looks at usedAt and expiresAt again, and the row   *)
(* may be gone.  Expiry is judged at the instant of the lock here, of        *)
(* issuing the UPDATE in the code.                                           *)
MarkUsed(r) ==
  /\ req[r].pc = "found"
  /\ ~Locked(req[r].tok)
  /\ IF Usable(req[r].tok) THEN Goto(r, "marked") ELSE Finish(r)
  /\ UNCHANGED <<now, users, tokens, inbox>>

(* The two UPDATEs outside a transaction: a failure may come between them.   *)
CommitVerification_NoTransaction(r) ==
  LET t == req[r].tok
  IN /\ req[r].pc = "marked"
     /\ \/ /\ used[t] = "unused"
           /\ used' = [used EXCEPT ![t] = "verified"]
           /\ \/ Goto(r, "marked") \/ Finish(r)
           /\ UNCHANGED <<verified, log>>
        \/ /\ used[t] = "verified"
           /\ verified' = verified \union ({req[r].user} \ deleted)
           /\ log' = IF req[r].user \in deleted THEN log ELSE Append(log, t)
           /\ Finish(r)
           /\ UNCHANGED used
     /\ UNCHANGED <<now, deleted, rows, issued, owner, created, known, inbox>>

(* The UPDATE of the user, the COMMIT and the answer.  A user deleted        *)
(* meanwhile is not updated; returning false does not roll the token back.   *)
CommitVerification(r) ==
  LET t == req[r].tok
      u == req[r].user
  IN /\ req[r].pc = "marked"
     /\ used' = [used EXCEPT ![t] = "verified"]
     /\ IF u \in deleted
        THEN UNCHANGED <<verified, log>>
        ELSE verified' = verified \union {u} /\ log' = Append(log, t)
     /\ Finish(r)
     /\ UNCHANGED <<now, deleted, rows, issued, owner, created, known, inbox>>

-----------------------------------------------------------------------------
(* A request dies at an await, its transaction rolled back. *)
Fail(r) ==
  /\ req[r].pc # "idle"
  /\ Finish(r)
  /\ UNCHANGED <<now, users, tokens, inbox>>

(* deleteUser (UserService), which leaves the tokens alone. *)
DeleteUser(u) ==
  /\ deleted' = deleted \union {u}
  /\ UNCHANGED <<now, verified, log, tokens, inbox, req>>

Tick ==
  /\ now < MaxTime
  /\ now' = now + 1
  /\ UNCHANGED <<users, tokens, inbox, req>>

Next ==
  \/ \E r \in Request :
       \/ \E u \in User : FindUser(r, u)
       \/ \E t \in Token : ReadToken(r, t)
       \/ CheckCooldown(r) \/ RemoveExpiredTokens(r)
       \/ InvalidateBegin(r) \/ InvalidateEnd(r)
       \/ CreateToken(r) \/ SendEmail(r)
       \/ MarkUsed(r) \/ CommitVerification(r)
       \/ Fail(r)
  \/ \E u \in User : DeleteUser(u)
  \/ Tick

Spec == Init /\ [][Next]_vars

-----------------------------------------------------------------------------
(* A user has two usable tokens only from two resends that overlapped, so    *)
(* that neither found the other's token when it checked the cooldown: what a *)
(* token's resend found can begin no verification any more once that token   *)
(* is there, even if it was being used just then.                            *)
SupersedesEarlier ==
  \A s, t \in issued : s \in known[t] => ~Usable(s)

(* And two tokens were created for a user within the cooldown only by such   *)
(* resends: the clean-up of expired tokens, by whoever's resend, does not    *)
(* lose the cooldown's memory.                                               *)
CooldownHolds ==
  \A s, t \in issued : s \in known[t] => created[s] + Cooldown <= created[t]

(* A usable token stops being usable by its expiry or at the hands of a      *)
(* request of its own user: the clean-up that another user's resend runs for *)
(* the tenant never takes it away.                                           *)
LiveUntilReplaced ==
  [][\A t \in Token : Usable(t) /\ ~Usable(t)' =>
       \/ Expired(t)'
       \/ \E r \in Request : req[r].user = owner[t]]_vars

(* A token used for a verification has verified its user, whatever failed in *)
(* between, unless the user is gone.                                         *)
VerificationIsEffective ==
  \A t \in issued : used[t] = "verified" => owner[t] \in verified \union deleted

-----------------------------------------------------------------------------
(* A verification token as a one-time token.  One whose transaction has      *)
(* begun is live until that ends, even past its expiry.                      *)
TokenState(t) == CASE t \notin issued -> "unborn"
                   [] t \in issued /\ (Usable(t) \/ Locked(t)) -> "live"
                   [] OTHER -> "dead"

OneTime == INSTANCE OneTimeToken WITH
             state <- [t \in Token |-> TokenState(t)]

(* However verifications, resends, clean-ups, expiry and failures race, a    *)
(* token verifies its user at most once, and only while it is neither        *)
(* replaced nor expired nor removed.                                         *)
OneTimeSpec == OneTime!Spec
=============================================================================
