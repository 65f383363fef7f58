---------------------- MODULE EmailVerificationProofs ----------------------
(***************************************************************************)
(* Proofs about EmailVerification, for any number of users, tokens and     *)
(* requests, any cooldown and any lifetime but 0.                          *)
(***************************************************************************)
EXTENDS EmailVerification, TLAPS

-----------------------------------------------------------------------------
(* The parts of the inductive invariant.                                     *)

(* A request that carries a token carries one that was issued, and its owner *)
(* with it; what it sees and invalidates is its user's.                      *)
TokensEver(u) == {t \in issued : owner[t] = u}

Carried(r) ==
  /\ req[r].pc \in {"found", "marked"} =>
       req[r].tok \in issued /\ req[r].user = owner[req[r].tok]
  /\ req[r].pc = "mailing" => req[r].tok \in issued
  /\ req[r].seen \subseteq issued
  /\ req[r].snap \subseteq TokensEver(req[r].user)
  /\ req[r].pc \in {"userFound", "cool", "issuing", "invalidating", "creating"} =>
       req[r].user \in User
CarriedAreIssued == \A r \in Request : Carried(r)

(* Only tokens that were issued are used, and each belongs to a user; a      *)
(* token that is no longer a row has been expired for a while.               *)
UsedAreIssued ==
  /\ \A t \in Token : used[t] # "unused" => t \in issued
  /\ \A t \in issued : owner[t] \in User
RemovedAreOld == \A t \in issued \ rows : created[t] + Lifetime < now

(* A token whose transaction has begun stays unused until that ends, and no  *)
(* other transaction has it.                                                 *)
LockedIsUnused ==
  \A r \in Request : req[r].pc = "marked" => used[req[r].tok] = "unused"
LockIsExclusive ==
  \A q, r \in Request :
    req[q].pc = "marked" /\ req[r].pc = "marked" /\ req[q].tok = req[r].tok
      => q = r

(* What a request has yet to supersede is what its invalidation works on.    *)
Superseding ==
  \A r \in Request :
    /\ req[r].pc \in {"cool", "issuing"} =>
         req[r].seen \subseteq TokensEver(req[r].user)
    /\ req[r].pc = "invalidating" =>
         \A t \in req[r].seen : t \in req[r].snap \/ ~Usable(t)
    /\ req[r].pc = "creating" => \A t \in req[r].seen : ~Usable(t)

(* What a token's resend found was issued before it.                         *)
KnownAreIssued == \A t \in issued : known[t] \subseteq issued

VerificationInv == /\ TypeOK
                   /\ CarriedAreIssued
                   /\ UsedAreIssued
                   /\ RemovedAreOld
                   /\ LockedIsUnused
                   /\ LockIsExclusive
                   /\ Superseding
                   /\ KnownAreIssued
                   /\ SupersedesEarlier
                   /\ VerificationIsEffective

(* The cooldown found over is over, and stays so.                            *)
Cooled ==
  \A r \in Request : req[r].pc \in {"cool", "issuing", "invalidating", "creating"} =>
    \A t \in req[r].seen : created[t] + Cooldown <= now

-----------------------------------------------------------------------------
LEMMA NewTokenIsNew ==
  ASSUME issued \in SUBSET Token, issued # Token
  PROVE  NewToken \in Token \ issued
BY DEF NewToken

LEMMA InitInv == Init => VerificationInv
BY VerificationAssumption
   DEF Init, VerificationInv, TypeOK, CarriedAreIssued, Carried, UsedAreIssued,
       RemovedAreOld, LockedIsUnused, LockIsExclusive, Superseding,
       KnownAreIssued, SupersedesEarlier, VerificationIsEffective, RequestState, Idle, PC, Fate

(* What the steps do to the requests: all but r stay as they are.            *)
Others(r) == \A q \in Request \ {r} : req'[q] = req[q]

LEMMA MoveFacts ==
  ASSUME req \in [Request -> RequestState], NEW r \in Request,
         NEW rec \in RequestState, req' = [req EXCEPT ![r] = rec]
  PROVE  /\ req' \in [Request -> RequestState]
         /\ req'[r] = rec
         /\ \A q \in Request \ {r} : req'[q] = req[q]
OBVIOUS

LEMMA FinishFacts ==
  ASSUME req \in [Request -> RequestState], NEW r \in Request, Finish(r)
  PROVE  /\ req' \in [Request -> RequestState]
         /\ req'[r] = Idle
         /\ \A q \in Request \ {r} : req'[q] = req[q]
<1>1. Idle \in RequestState
      BY DEF Idle, RequestState, PC
<1> QED BY <1>1 DEF Finish

LEMMA GotoFacts ==
  ASSUME req \in [Request -> RequestState], NEW r \in Request,
         NEW pc \in PC, Goto(r, pc)
  PROVE  /\ req' \in [Request -> RequestState]
         /\ req'[r].pc = pc /\ req'[r].user = req[r].user
         /\ req'[r].tok = req[r].tok /\ req'[r].seen = req[r].seen
         /\ req'[r].snap = req[r].snap
         /\ \A q \in Request \ {r} : req'[q] = req[q]
BY DEF Goto, RequestState

-----------------------------------------------------------------------------
(* Nothing the invariants speak of changes but requests, and of those only r. *)
Moves(r) == UNCHANGED <<now, users, tokens>> /\ Others(r)

(* r keeps what it carries.                                                  *)
Keeps(r) == /\ req'[r].user = req[r].user /\ req'[r].tok = req[r].tok
            /\ req'[r].seen = req[r].seen /\ req'[r].snap = req[r].snap

(* The steps as the invariants see them.                                     *)
Ends(r) == Moves(r) /\ req'[r] = Idle
Opens(r) == /\ Moves(r)
            /\ req'[r].pc = "userFound" /\ req'[r].user \in User
            /\ req'[r].seen = {} /\ req'[r].snap = {}
Reads(r) == /\ Moves(r)
            /\ req'[r].pc = "found"
            /\ req'[r].tok \in issued /\ req'[r].user = owner[req'[r].tok]
            /\ req'[r].seen = {} /\ req'[r].snap = {}
Cools(r) == /\ Moves(r)
            /\ req[r].pc = "userFound" /\ req'[r].pc = "cool"
            /\ req'[r].user = req[r].user
            /\ \A t \in TokensOf(req[r].user) : ~Recent(t)
            /\ req'[r].seen = TokensEver(req[r].user)
            /\ req'[r].snap = req[r].snap
Removes(r) == /\ RemoveExpiredTokens(r)
              /\ Others(r)
              /\ req[r].pc = "cool" /\ req'[r].pc = "issuing"
              /\ Keeps(r)
Snapshots(r) == /\ Moves(r)
                /\ req[r].pc = "issuing" /\ req'[r].pc = "invalidating"
                /\ req'[r].user = req[r].user
                /\ req'[r].seen = req[r].seen
                /\ req'[r].snap = Invalidated(req[r].user)
Locks(r) == /\ Moves(r)
            /\ req[r].pc = "found" /\ req'[r].pc = "marked"
            /\ Keeps(r)
            /\ Usable(req[r].tok) /\ ~Locked(req[r].tok)
Supersedes(r) == /\ InvalidateEnd(r)
                 /\ Others(r)
                 /\ req[r].pc = "invalidating" /\ req'[r].pc = "creating"
                 /\ req'[r].user = req[r].user
                 /\ req'[r].seen = req[r].seen /\ req'[r].snap = {}
Creates(r) == /\ CreateToken(r)
              /\ Others(r)
              /\ req[r].pc = "creating" /\ req'[r].pc = "mailing"
              /\ NewToken \in Token \ issued
              /\ req'[r].user = req[r].user /\ req'[r].tok = NewToken
              /\ req'[r].seen = req[r].seen /\ req'[r].snap = req[r].snap
Commits(r) == /\ CommitVerification(r)
              /\ Others(r)
              /\ req[r].pc = "marked" /\ req'[r] = Idle
              /\ req[r].tok \in issued
              /\ req[r].user = owner[req[r].tok] /\ req[r].user \in User

Steps ==
  \/ UNCHANGED <<now, users, tokens, req>>
  \/ \E r \in Request : \/ Ends(r) \/ Opens(r) \/ Reads(r) \/ Cools(r)
                        \/ Removes(r) \/ Snapshots(r) \/ Locks(r)
                        \/ Supersedes(r) \/ Creates(r) \/ Commits(r)
  \/ \E u \in User : DeleteUser(u)
  \/ Tick

LEMMA NextSteps ==
  TypeOK /\ CarriedAreIssued /\ UsedAreIssued /\ [Next]_vars => Steps /\ TypeOK'
<1> SUFFICES ASSUME TypeOK, CarriedAreIssued, UsedAreIssued, [Next]_vars
             PROVE  Steps /\ TypeOK'
    OBVIOUS
<1> USE VerificationAssumption DEF TypeOK
<1> DEFINE ReqOK == req' \in [Request -> RequestState]
           Same == UNCHANGED <<now, users, tokens, inbox>>
<1>1. ASSUME Same, ReqOK PROVE TypeOK'
      BY <1>1 DEF users, tokens
<1>2. ASSUME NEW r \in Request, Same, Finish(r) PROVE Ends(r) /\ TypeOK'
      BY <1>1, <1>2, FinishFacts DEF Ends, Moves, Others, users
<1>3. {"userFound", "cool", "issuing", "invalidating", "creating", "mailing",
       "found", "marked"} \subseteq PC
      BY DEF PC
<1>4. ASSUME NEW r \in Request, NEW u \in User, FindUser(r, u)
      PROVE  Opens(r) /\ TypeOK'
      <2> DEFINE rec == [Idle EXCEPT !.pc = "userFound", !.user = u]
      <2>1. rec \in RequestState
            BY <1>3 DEF Idle, RequestState
      <2>2. Same /\ req' = [req EXCEPT ![r] = rec]
            BY <1>4 DEF FindUser
      <2>3. ReqOK /\ req'[r] = rec /\ Others(r)
            BY <2>1, <2>2, MoveFacts DEF Others
      <2> QED BY <1>1, <2>2, <2>3 DEF Opens, Moves, Idle, users
<1>5. ASSUME NEW r \in Request, RemoveExpiredTokens(r)
      PROVE  Removes(r) /\ TypeOK'
      <2>1. ReqOK /\ req'[r].pc = "issuing" /\ Keeps(r) /\ Others(r)
            BY <1>3, <1>5, GotoFacts DEF RemoveExpiredTokens, Keeps, Others
      <2>2. TypeOK'
            BY <1>5, <2>1 DEF RemoveExpiredTokens, users
      <2> QED BY <1>5, <2>1, <2>2 DEF RemoveExpiredTokens, Removes
<1>6. ASSUME NEW r \in Request, NEW t \in Token, ReadToken(r, t)
      PROVE  Reads(r) /\ TypeOK'
      <2> DEFINE rec == [Idle EXCEPT !.pc = "found", !.tok = t,
                                     !.user = owner[t]]
      <2>1. rec \in RequestState
            BY <1>3 DEF Idle, RequestState
      <2>2. Same /\ req' = [req EXCEPT ![r] = rec] /\ t \in issued
            BY <1>6 DEF ReadToken
      <2>3. ReqOK /\ req'[r] = rec /\ Others(r)
            BY <2>1, <2>2, MoveFacts DEF Others
      <2> QED BY <1>1, <2>2, <2>3 DEF Reads, Moves, Idle, users
<1>7. ASSUME NEW r \in Request, CheckCooldown(r)
      PROVE  (Ends(r) \/ Cools(r)) /\ TypeOK'
      <2> DEFINE rec == [req[r] EXCEPT !.pc = "cool",
                                       !.seen = TokensEver(req[r].user)]
      <2>1. rec \in RequestState
            BY <1>3 DEF RequestState, TokensEver
      <2>2. CASE Finish(r)
            BY <1>2, <1>7, <2>2 DEF CheckCooldown
      <2>3. CASE req' = [req EXCEPT ![r] = rec]
                 /\ ~(\E t \in TokensOf(req[r].user) : Recent(t))
            <3>1. ReqOK /\ req'[r] = rec /\ Others(r)
                  BY <2>1, <2>3, MoveFacts DEF Others
            <3>2. /\ req'[r].pc = "cool" /\ req'[r].user = req[r].user
                  /\ req'[r].seen = TokensEver(req[r].user)
                  /\ req'[r].snap = req[r].snap
                  BY <3>1 DEF RequestState
            <3>3. Same /\ req[r].pc = "userFound"
                  BY <1>7 DEF CheckCooldown
            <3> QED BY <1>1, <2>3, <3>1, <3>2, <3>3 DEF Cools, Moves, users
      <2> QED BY <1>7, <2>2, <2>3 DEF CheckCooldown, TokensEver
<1>8. ASSUME NEW r \in Request, InvalidateBegin(r) PROVE Snapshots(r) /\ TypeOK'
      <2> DEFINE rec == [req[r] EXCEPT !.pc = "invalidating",
                                       !.snap = Invalidated(req[r].user)]
      <2>1. rec \in RequestState
            BY <1>3 DEF RequestState, Invalidated, TokensOf
      <2>2. Same /\ req[r].pc = "issuing" /\ req' = [req EXCEPT ![r] = rec]
            BY <1>8 DEF InvalidateBegin
      <2>3. ReqOK /\ req'[r] = rec /\ Others(r)
            BY <2>1, <2>2, MoveFacts DEF Others
      <2>4. /\ req'[r].pc = "invalidating" /\ req'[r].user = req[r].user
            /\ req'[r].seen = req[r].seen
            /\ req'[r].snap = Invalidated(req[r].user)
            BY <2>3 DEF RequestState
      <2> QED BY <1>1, <2>2, <2>3, <2>4 DEF Snapshots, Moves, users
<1>9. ASSUME NEW r \in Request, InvalidateEnd(r) PROVE Supersedes(r) /\ TypeOK'
      <2> DEFINE rec == [req[r] EXCEPT !.pc = "creating", !.snap = {}]
      <2>1. rec \in RequestState
            BY <1>3 DEF RequestState
      <2>2. req[r].pc = "invalidating" /\ req' = [req EXCEPT ![r] = rec]
            BY <1>9 DEF InvalidateEnd
      <2>3. ReqOK /\ req'[r] = rec /\ Others(r)
            BY <2>1, <2>2, MoveFacts DEF Others
      <2>4. /\ req'[r].pc = "creating" /\ req'[r].user = req[r].user
            /\ req'[r].seen = req[r].seen /\ req'[r].snap = {}
            BY <2>3 DEF RequestState
      <2>5. used' \in [Token -> Fate]
            BY <1>9 DEF InvalidateEnd, Fate
      <2>6. TypeOK'
            BY <1>9, <2>3, <2>5 DEF InvalidateEnd, users
      <2> QED BY <1>9, <2>2, <2>3, <2>4, <2>6 DEF Supersedes
<1>10. ASSUME NEW r \in Request, CreateToken(r) PROVE Creates(r) /\ TypeOK'
      <2> DEFINE rec == [req[r] EXCEPT !.pc = "mailing", !.tok = NewToken]
      <2>1. NewToken \in Token \ issued /\ req[r].pc = "creating"
            BY <1>10, NewTokenIsNew DEF CreateToken
      <2>2. rec \in RequestState
            BY <1>3, <2>1 DEF RequestState
      <2>3. ReqOK /\ req'[r] = rec /\ Others(r)
            BY <1>10, <2>2, MoveFacts DEF Others, CreateToken
      <2>4. /\ req'[r].pc = "mailing" /\ req'[r].tok = NewToken
            /\ req'[r].user = req[r].user
            /\ req'[r].seen = req[r].seen /\ req'[r].snap = req[r].snap
            BY <2>3 DEF RequestState
      <2>5. req[r].user \in User
            BY <2>1 DEF CarriedAreIssued, Carried
      <2>6. TypeOK'
            <3>1. known' \in [Token -> SUBSET Token]
                  <4>1. req[r].seen \in SUBSET Token
                        BY DEF RequestState
                  <4> QED BY <1>10, <4>1 DEF CreateToken
            <3> QED BY <1>10, <2>1, <2>3, <2>5, <3>1 DEF CreateToken, users
      <2> QED BY <1>10, <2>1, <2>3, <2>4, <2>6 DEF Creates
<1>11. ASSUME NEW r \in Request, SendEmail(r) PROVE Ends(r) /\ TypeOK'
      <2>1. ReqOK /\ req'[r] = Idle /\ Others(r)
            BY <1>11, FinishFacts DEF SendEmail, Others
      <2>2. req[r].tok \in issued
            BY <1>11 DEF SendEmail, CarriedAreIssued, Carried
      <2>3. TypeOK'
            BY <1>11, <2>1, <2>2 DEF SendEmail, users, tokens
      <2> QED BY <1>11, <2>1, <2>3 DEF SendEmail, Ends, Moves, users
<1>12. ASSUME NEW r \in Request, MarkUsed(r)
      PROVE  (Ends(r) \/ Locks(r)) /\ TypeOK'
      <2>1. CASE Finish(r)
            BY <1>2, <1>12, <2>1 DEF MarkUsed
      <2>2. CASE Goto(r, "marked") /\ Usable(req[r].tok)
            <3>1. Same /\ req[r].pc = "found" /\ ~Locked(req[r].tok)
                  BY <1>12 DEF MarkUsed
            <3>2. ReqOK /\ req'[r].pc = "marked" /\ Keeps(r) /\ Others(r)
                  BY <1>3, <2>2, GotoFacts DEF Keeps, Others
            <3> QED BY <1>1, <2>2, <3>1, <3>2 DEF Locks, Moves, users
      <2> QED BY <1>12, <2>1, <2>2 DEF MarkUsed
<1>13. ASSUME NEW r \in Request, CommitVerification(r)
       PROVE  Commits(r) /\ TypeOK'
      <2>1. /\ req[r].pc = "marked"
            /\ req[r].tok \in issued
            /\ req[r].user = owner[req[r].tok] /\ req[r].user \in User
            BY <1>13 DEF CommitVerification, CarriedAreIssued, Carried,
                         UsedAreIssued
      <2>2. ReqOK /\ req'[r] = Idle /\ Others(r)
            BY <1>13, FinishFacts DEF CommitVerification, Others
      <2>3. log' \in Seq(Token)
            <3>1. log' = log \/ log' = Append(log, req[r].tok)
                  BY <1>13 DEF CommitVerification
            <3>2. Append(log, req[r].tok) \in Seq(Token)
                  BY <2>1
            <3> QED BY <3>1, <3>2
      <2>4. verified' \in SUBSET User /\ used' \in [Token -> Fate]
            BY <1>13, <2>1 DEF CommitVerification, Fate
      <2>5. TypeOK'
            BY <1>13, <2>2, <2>3, <2>4 DEF CommitVerification
      <2> QED BY <1>13, <2>1, <2>2, <2>5 DEF Commits
<1>14. ASSUME NEW r \in Request, Fail(r) PROVE Ends(r) /\ TypeOK'
      BY <1>2, <1>14 DEF Fail
<1>15. ASSUME NEW u \in User, DeleteUser(u) PROVE TypeOK'
      BY <1>15 DEF DeleteUser, tokens
<1>16. CASE Tick
      <2>1. TypeOK'
            BY <1>16 DEF Tick, users, tokens
      <2> QED BY <1>16, <2>1 DEF Steps
<1>17. CASE UNCHANGED vars
      <2>1. TypeOK'
            BY <1>17 DEF vars
      <2> QED BY <1>17, <2>1 DEF vars, Steps, tokens, users
<1> QED BY <1>4, <1>5, <1>6, <1>7, <1>8, <1>9, <1>10, <1>11, <1>12, <1>13,
           <1>14, <1>15, <1>16, <1>17 DEF Next, Steps

-----------------------------------------------------------------------------
(* A token keeps owner and creation, and does not become usable again.       *)
TokensAge == \A t \in issued :
               /\ t \in issued'
               /\ owner'[t] = owner[t] /\ created'[t] = created[t]
               /\ ~Usable(t) => ~Usable(t)'

(* The steps that change the tokens or the clock, by what they change.       *)
LEMMA EffectSteps ==
  Steps => \/ UNCHANGED <<tokens, now>>
           \/ \E r \in Request : \/ Removes(r) \/ Supersedes(r) \/ Creates(r)
                                 \/ Commits(r)
           \/ Tick
BY DEF Steps, Ends, Opens, Reads, Cools, Snapshots, Locks, Moves, DeleteUser

LEMMA AgeStep ==
  TypeOK /\ CarriedAreIssued /\ UsedAreIssued /\ RemovedAreOld /\ Steps
    => TokensAge /\ UsedAreIssued' /\ RemovedAreOld' /\ now <= now'
<1> SUFFICES ASSUME TypeOK, CarriedAreIssued, UsedAreIssued, RemovedAreOld, Steps
             PROVE  TokensAge /\ UsedAreIssued' /\ RemovedAreOld' /\ now <= now'
    OBVIOUS
<1> USE VerificationAssumption
    DEF TypeOK, TokensAge, Usable, Expired, UsedAreIssued, RemovedAreOld, tokens
<1> DEFINE Goal == TokensAge /\ UsedAreIssued' /\ RemovedAreOld' /\ now <= now'
<1>1. CASE UNCHANGED <<tokens, now>>
      BY <1>1
<1>2. ASSUME NEW r \in Request, Supersedes(r) PROVE Goal
      <2>1. UNCHANGED <<now, rows, issued, owner, created>>
            BY <1>2 DEF Supersedes, InvalidateEnd
      <2>2. \A t \in Token :
              \/ used'[t] = used[t]
              \/ used'[t] = "superseded" /\ t \in req[r].snap
            BY <1>2 DEF Supersedes, InvalidateEnd
      <2>3. req[r].snap \subseteq issued
            BY DEF CarriedAreIssued, Carried, TokensEver
      <2> QED BY <2>1, <2>2, <2>3
<1>3. ASSUME NEW r \in Request, Creates(r) PROVE Goal
      <2>1. req[r].user \in User
            BY <1>3 DEF Creates, CarriedAreIssued, Carried
      <2> QED BY <1>3, <2>1 DEF Creates, CreateToken
<1>4. ASSUME NEW r \in Request, Commits(r) PROVE Goal
      <2>1. /\ UNCHANGED <<now, rows, issued, owner, created>>
            /\ used' = [used EXCEPT ![req[r].tok] = "verified"]
            /\ req[r].tok \in issued
            BY <1>4 DEF Commits, CommitVerification
      <2> QED BY <2>1
<1>5. ASSUME NEW r \in Request, Removes(r) PROVE Goal
      <2>1. /\ UNCHANGED <<now, issued, owner, created, used>>
            /\ rows' = rows \ {t \in rows : Removable(t)}
            BY <1>5 DEF Removes, RemoveExpiredTokens
      <2> QED BY <2>1 DEF Removable
<1>6. CASE Tick
      BY <1>6 DEF Tick
<1> QED BY <1>1, <1>2, <1>3, <1>4, <1>5, <1>6, EffectSteps

LEMMA CarriedStep ==
  TypeOK /\ CarriedAreIssued /\ TokensAge /\ Steps => CarriedAreIssued'
<1> SUFFICES ASSUME TypeOK, CarriedAreIssued, TokensAge, Steps
             PROVE  CarriedAreIssued'
    OBVIOUS
<1>1. ASSUME NEW q \in Request, req'[q] = req[q] PROVE Carried(q)'
      BY <1>1 DEF CarriedAreIssued, Carried, TokensAge, TokensEver
<1>2. ASSUME NEW r \in Request, Others(r), Carried(r)' PROVE CarriedAreIssued'
      BY <1>1, <1>2 DEF CarriedAreIssued, Others
<1>3. ASSUME NEW r \in Request,
             \/ Ends(r) \/ Opens(r) \/ Reads(r) \/ Cools(r) \/ Snapshots(r)
             \/ Locks(r)
      PROVE  CarriedAreIssued'
      <2>1. UNCHANGED <<rows, issued, owner>> /\ Others(r)
            BY <1>3 DEF Ends, Opens, Reads, Cools, Snapshots, Locks, Moves, tokens
      <2>2. Carried(r)'
            BY <1>3, <2>1
               DEF Ends, Opens, Reads, Cools, Snapshots, Locks, Keeps, Idle,
                   CarriedAreIssued, Carried, TokensEver, TokensOf, Invalidated,
                   TypeOK
      <2> QED BY <1>2, <2>1, <2>2
<1>4. ASSUME NEW r \in Request, Removes(r) \/ Supersedes(r)
      PROVE  CarriedAreIssued'
      <2>1. Carried(r)'
            BY <1>4 DEF Removes, RemoveExpiredTokens, Supersedes, InvalidateEnd,
                        Keeps, CarriedAreIssued, Carried, TokensEver
      <2> QED BY <1>2, <1>4, <2>1 DEF Removes, Supersedes
<1>5. ASSUME NEW r \in Request, Creates(r) PROVE CarriedAreIssued'
      <2>1. NewToken \in issued'
            BY <1>5 DEF Creates, CreateToken
      <2>2. Carried(r)'
            BY <1>5, <2>1 DEF Creates, CarriedAreIssued, Carried, TokensAge,
                              TokensEver
      <2> QED BY <1>2, <1>5, <2>2 DEF Creates
<1>6. ASSUME NEW r \in Request, Commits(r) PROVE CarriedAreIssued'
      <2>1. Carried(r)'
            BY <1>6 DEF Commits, Idle, Carried
      <2> QED BY <1>2, <1>6, <2>1 DEF Commits
<1>7. CASE \/ UNCHANGED <<now, users, tokens, req>>
           \/ \E u \in User : DeleteUser(u)
           \/ Tick
      BY <1>1, <1>7 DEF DeleteUser, Tick, CarriedAreIssued
<1> QED BY <1>3, <1>4, <1>5, <1>6, <1>7 DEF Steps

(* A transaction begins only when its token is usable and nobody has it; the *)
(* only other write to an unused token is the invalidation, which waits.     *)
LEMMA LockStep ==
  TypeOK /\ CarriedAreIssued /\ LockedIsUnused /\ LockIsExclusive /\ Steps
    => LockedIsUnused' /\ LockIsExclusive'
<1> SUFFICES ASSUME TypeOK, CarriedAreIssued, LockedIsUnused, LockIsExclusive,
                    Steps
             PROVE  LockedIsUnused' /\ LockIsExclusive'
    OBVIOUS
<1>1. ASSUME NEW r \in Request, Others(r), req'[r].pc # "marked",
             \A q \in Request \ {r} : req[q].pc = "marked" =>
               used'[req[q].tok] = used[req[q].tok]
      PROVE  LockedIsUnused' /\ LockIsExclusive'
      BY <1>1 DEF Others, LockedIsUnused, LockIsExclusive
<1>2. ASSUME NEW r \in Request,
             \/ Ends(r) \/ Opens(r) \/ Reads(r) \/ Cools(r) \/ Removes(r)
             \/ Snapshots(r) \/ Creates(r)
      PROVE  LockedIsUnused' /\ LockIsExclusive'
      <2>1. Others(r) /\ req'[r].pc # "marked" /\ used' = used
            BY <1>2
               DEF Ends, Opens, Reads, Cools, Removes, RemoveExpiredTokens,
                   Snapshots, Creates, CreateToken, Moves, Idle, tokens
      <2> QED BY <1>1, <2>1
<1>3. ASSUME NEW r \in Request, Supersedes(r)
      PROVE  LockedIsUnused' /\ LockIsExclusive'
      <2>1. ASSUME NEW q \in Request, req[q].pc = "marked"
            PROVE  used'[req[q].tok] = used[req[q].tok]
            <3>1. req[q].tok \in Token /\ Locked(req[q].tok)
                  BY <2>1 DEF Locked, CarriedAreIssued, Carried, TypeOK
            <3>2. req[q].tok \notin req[r].snap
                  BY <1>3, <3>1 DEF Supersedes, InvalidateEnd
            <3> QED BY <1>3, <3>1, <3>2 DEF Supersedes, InvalidateEnd
      <2> QED BY <1>1, <1>3, <2>1 DEF Supersedes
<1>4. ASSUME NEW r \in Request, Commits(r)
      PROVE  LockedIsUnused' /\ LockIsExclusive'
      <2>1. \A t \in Token \ {req[r].tok} : used'[t] = used[t]
            BY <1>4 DEF Commits, CommitVerification, TypeOK
      <2>2. ASSUME NEW q \in Request \ {r}, req[q].pc = "marked"
            PROVE  used'[req[q].tok] = used[req[q].tok]
            <3>1. req[q].tok \in Token \ {req[r].tok}
                  BY <1>4, <2>2
                     DEF Commits, CarriedAreIssued, Carried, LockIsExclusive, TypeOK
            <3> QED BY <2>1, <3>1
      <2>3. req'[r].pc # "marked" /\ Others(r)
            BY <1>4 DEF Commits, Idle
      <2> QED BY <1>1, <2>2, <2>3
<1>5. ASSUME NEW r \in Request, Locks(r)
      PROVE  LockedIsUnused' /\ LockIsExclusive'
      BY <1>5
         DEF Locks, Moves, Keeps, Others, Usable, Locked, LockedIsUnused,
             LockIsExclusive, tokens
<1>6. CASE \/ UNCHANGED <<now, users, tokens, req>>
           \/ \E u \in User : DeleteUser(u)
           \/ Tick
      BY <1>6 DEF DeleteUser, Tick, tokens, LockedIsUnused, LockIsExclusive
<1> QED BY <1>2, <1>3, <1>4, <1>5, <1>6 DEF Steps

-----------------------------------------------------------------------------
(* What a request has seen and not yet superseded is in its snapshot; a      *)
(* token no longer usable, or no longer there, never becomes so again.       *)
LEMMA SupersedingStep ==
  TypeOK /\ CarriedAreIssued /\ TokensAge /\ Superseding /\ Steps
    => Superseding'
<1> SUFFICES ASSUME TypeOK, CarriedAreIssued, TokensAge, Superseding,
                    Steps
             PROVE  Superseding'
    OBVIOUS
<1> DEFINE Good(r) ==
      /\ req[r].pc \in {"cool", "issuing"} =>
           req[r].seen \subseteq TokensEver(req[r].user)
      /\ req[r].pc = "invalidating" =>
           \A t \in req[r].seen : t \in req[r].snap \/ ~Usable(t)
      /\ req[r].pc = "creating" =>
           \A t \in req[r].seen : ~Usable(t)
<1>1. \A r \in Request : Good(r) /\ req[r].seen \subseteq issued
      BY DEF Superseding, CarriedAreIssued, Carried
<1>2. ASSUME NEW r \in Request, req'[r].pc \in {req[r].pc, "issuing", "mailing"},
             req'[r].pc = "issuing" => req[r].pc \in {"cool", "issuing"},
             req'[r].pc = "mailing" => req[r].pc \in {"creating", "mailing"},
             req'[r].user = req[r].user, req'[r].seen = req[r].seen,
             req'[r].snap = req[r].snap
      PROVE  Good(r)'
      BY <1>1, <1>2 DEF TokensAge, TokensEver
<1>3. ASSUME \A r \in Request : Good(r)'
      PROVE  Superseding'
      BY <1>3 DEF Superseding
<1>4. ASSUME NEW r \in Request, Others(r), Good(r)'
      PROVE  Superseding'
      <2>1. ASSUME NEW q \in Request \ {r} PROVE Good(q)'
            BY <1>2, <1>4, <2>1 DEF Others
      <2> QED BY <1>3, <1>4, <2>1
<1>5. ASSUME NEW r \in Request,
             Ends(r) \/ Opens(r) \/ Reads(r) \/ Locks(r) \/ Commits(r)
      PROVE  Superseding'
      <2>1. Good(r)' /\ Others(r)
            BY <1>5 DEF Ends, Opens, Reads, Locks, Commits, Moves, Idle
      <2> QED BY <1>4, <2>1
<1>6. ASSUME NEW r \in Request, Cools(r)
      PROVE  Superseding'
      <2>1. Good(r)' /\ Others(r)
            BY <1>6 DEF Cools, Moves, TokensEver, tokens
      <2> QED BY <1>4, <2>1
<1>7. ASSUME NEW r \in Request, Removes(r) \/ Creates(r)
      PROVE  Superseding'
      <2>1. Good(r)' /\ Others(r)
            BY <1>1, <1>2, <1>7 DEF Removes, Creates, Keeps, TokensAge
      <2> QED BY <1>4, <2>1
<1>8. ASSUME NEW r \in Request, Snapshots(r)
      PROVE  Superseding'
      <2>1. \A t \in req[r].seen : t \in Invalidated(req[r].user) \/ ~Usable(t)
            BY <1>1, <1>8 DEF Snapshots, Invalidated, TokensOf, TokensEver, Usable
      <2>2. Good(r)'
            BY <1>1, <1>8, <2>1 DEF Snapshots, TokensAge
      <2> QED BY <1>4, <1>8, <2>2 DEF Snapshots, Moves
<1>9. ASSUME NEW r \in Request, Supersedes(r)
      PROVE  Superseding'
      <2>1. ASSUME NEW t \in req[r].seen PROVE ~Usable(t)'
            <3>1. t \in issued /\ t \in Token
                  BY <1>1 DEF TypeOK
            <3>2. CASE ~Usable(t)
                  BY <3>1, <3>2 DEF TokensAge
            <3>3. CASE t \in req[r].snap
                  <4>1. t \notin rows' \/ used'[t] # "unused"
                        BY <1>9, <3>1, <3>3 DEF Supersedes, InvalidateEnd
                  <4> QED BY <4>1 DEF Usable
            <3> QED BY <1>1, <1>9, <3>2, <3>3 DEF Supersedes
      <2>2. Good(r)'
            BY <1>9, <2>1 DEF Supersedes
      <2> QED BY <1>4, <1>9, <2>2 DEF Supersedes
<1>10. CASE \/ UNCHANGED <<now, users, tokens, req>>
            \/ \E u \in User : DeleteUser(u)
            \/ Tick
      <2>1. ASSUME NEW q \in Request PROVE Good(q)'
            BY <1>2, <1>10, <2>1 DEF DeleteUser, Tick
      <2> QED BY <1>3, <2>1
<1> QED BY <1>5, <1>6, <1>7, <1>8, <1>9, <1>10 DEF Steps

(* The steps that issue tokens, and with them write their history.           *)
LEMMA IssueSteps ==
  Steps => UNCHANGED <<issued, known>> \/ \E r \in Request : Creates(r)
BY EffectSteps DEF Removes, RemoveExpiredTokens, Supersedes, InvalidateEnd,
                   Commits, CommitVerification, Tick, tokens

LEMMA CreatesFacts ==
  ASSUME TypeOK, CarriedAreIssued, NEW r \in Request, Creates(r)
  PROVE  \E n \in Token \ issued :
           /\ issued' = issued \union {n} /\ created'[n] = now
           /\ known'[n] = req[r].seen /\ req[r].seen \subseteq issued
           /\ \A t \in issued : known'[t] = known[t]
<1> NewToken \in Token \ issued
    BY DEF Creates
<1> WITNESS NewToken \in Token \ issued
<1> QED BY DEF Creates, CreateToken, TypeOK, CarriedAreIssued, Carried

(* What the resend of a token found is superseded when the token comes, and  *)
(* stays so.                                                                 *)
LEMMA KnownStep ==
  TypeOK /\ CarriedAreIssued /\ TokensAge /\ Superseding /\ KnownAreIssued
    /\ SupersedesEarlier /\ Steps => KnownAreIssued' /\ SupersedesEarlier'
<1> SUFFICES ASSUME TypeOK, CarriedAreIssued, TokensAge, Superseding,
                    KnownAreIssued, SupersedesEarlier, Steps
             PROVE  KnownAreIssued' /\ SupersedesEarlier'
    OBVIOUS
<1> USE DEF KnownAreIssued, SupersedesEarlier
<1>1. CASE UNCHANGED <<issued, known>>
      BY <1>1 DEF TokensAge
<1>2. ASSUME NEW r \in Request, Creates(r)
      PROVE  KnownAreIssued' /\ SupersedesEarlier'
      <2> PICK n \in Token \ issued :
            /\ issued' = issued \union {n}
            /\ known'[n] = req[r].seen /\ req[r].seen \subseteq issued
            /\ \A t \in issued : known'[t] = known[t]
          BY <1>2, CreatesFacts
      <2>1. \A s \in req[r].seen : ~Usable(s)
            BY <1>2 DEF Creates, Superseding
      <2> QED BY <2>1 DEF TokensAge
<1> QED BY <1>1, <1>2, IssueSteps

(* What was found older than the cooldown only gets older, and what was not  *)
(* found, because it was removed, was older than its lifetime.               *)
LEMMA CooldownStep ==
  ASSUME Cooldown <= Lifetime + 1
  PROVE  VerificationInv /\ Cooled /\ Steps => Cooled'
<1> SUFFICES ASSUME VerificationInv, Cooled, Steps
             PROVE  Cooled'
    OBVIOUS
<1> DEFINE Early == {"cool", "issuing", "invalidating", "creating"}
           Good(r) ==
             req[r].pc \in Early =>
               \A t \in req[r].seen : created[t] + Cooldown <= now
<1> USE VerificationAssumption
<1>1. TypeOK /\ CarriedAreIssued /\ RemovedAreOld /\ TokensAge /\ now <= now'
      BY AgeStep DEF VerificationInv
<1>2. \A r \in Request : Good(r) /\ req[r].seen \subseteq issued
      BY <1>1 DEF Cooled, CarriedAreIssued, Carried
<1>3. now \in Nat /\ now' \in Nat /\ \A t \in issued : created[t] \in Nat
      <2>1. now' = now \/ Tick
            BY EffectSteps DEF Removes, RemoveExpiredTokens, Supersedes,
                   InvalidateEnd, Creates, CreateToken, Commits,
                   CommitVerification
      <2> QED BY <1>1, <2>1 DEF Tick, TypeOK
<1>4. ASSUME NEW r \in Request, req'[r].pc \in Early, req[r].pc \in Early,
             req'[r].seen = req[r].seen
      PROVE  Good(r)'
      BY <1>1, <1>2, <1>3, <1>4 DEF TokensAge
<1>5. ASSUME NEW q \in Request, req'[q] = req[q] PROVE Good(q)'
      BY <1>1, <1>2, <1>3, <1>4, <1>5 DEF TokensAge
<1>6. ASSUME \A r \in Request : Good(r)' PROVE Cooled'
      BY <1>6 DEF Cooled
<1>7. ASSUME NEW r \in Request, Others(r), Good(r)'
      PROVE  Cooled'
      BY <1>5, <1>6, <1>7 DEF Others
<1>8. ASSUME NEW r \in Request,
             Ends(r) \/ Opens(r) \/ Reads(r) \/ Locks(r) \/ Commits(r)
      PROVE  Cooled'
      <2>1. Good(r)' /\ Others(r)
            BY <1>8 DEF Ends, Opens, Reads, Locks, Commits, Moves, Idle
      <2> QED BY <1>7, <2>1
<1>9. ASSUME NEW r \in Request, Cools(r) PROVE Cooled'
      <2>1. ASSUME NEW t \in TokensEver(req[r].user)
            PROVE  created[t] + Cooldown <= now
            <3>1. CASE t \in rows
                  BY <1>3, <1>9, <3>1 DEF Cools, Recent, TokensOf, TokensEver
            <3>2. CASE t \notin rows
                  BY <1>1, <1>3, <3>2 DEF RemovedAreOld, TokensEver
            <3> QED BY <3>1, <3>2
      <2>2. Good(r)'
            BY <1>9, <2>1 DEF Cools, Moves, tokens
      <2> QED BY <1>7, <1>9, <2>2 DEF Cools, Moves
<1>10. ASSUME NEW r \in Request, Removes(r) \/ Snapshots(r) \/ Supersedes(r)
       PROVE  Cooled'
      <2>1. Good(r)' /\ Others(r)
            BY <1>4, <1>10 DEF Removes, Keeps, Snapshots, Supersedes, Moves
      <2> QED BY <1>7, <2>1
<1>11. ASSUME NEW r \in Request, Creates(r) PROVE Cooled'
      <2>1. Good(r)'
            BY <1>11 DEF Creates
      <2> QED BY <1>7, <1>11, <2>1 DEF Creates
<1>12. CASE \/ UNCHANGED <<now, users, tokens, req>>
            \/ \E u \in User : DeleteUser(u)
            \/ Tick
      BY <1>5, <1>6, <1>12 DEF DeleteUser, Tick
<1> QED BY <1>8, <1>9, <1>10, <1>11, <1>12 DEF Steps

LEMMA CooldownHoldsStep ==
  VerificationInv /\ Cooled /\ CooldownHolds /\ Steps /\ TokensAge
    => CooldownHolds'
<1> SUFFICES ASSUME VerificationInv, Cooled, CooldownHolds, Steps, TokensAge
             PROVE  CooldownHolds'
    OBVIOUS
<1> USE DEF VerificationInv, KnownAreIssued, CooldownHolds, TokensAge
<1>1. CASE UNCHANGED <<issued, known>>
      BY <1>1
<1>2. ASSUME NEW r \in Request, Creates(r) PROVE CooldownHolds'
      <2> PICK n \in Token \ issued :
            /\ issued' = issued \union {n} /\ created'[n] = now
            /\ known'[n] = req[r].seen /\ req[r].seen \subseteq issued
            /\ \A t \in issued : known'[t] = known[t]
          BY <1>2, CreatesFacts
      <2>1. \A s \in req[r].seen : created[s] + Cooldown <= now
            BY <1>2 DEF Creates, Cooled
      <2> QED BY <2>1
<1> QED BY <1>1, <1>2, IssueSteps

(* The step that marks a token used by a verification verifies its user.     *)
LEMMA EffectiveStep ==
  TypeOK /\ UsedAreIssued /\ TokensAge /\ VerificationIsEffective /\ Steps
    => VerificationIsEffective'
<1> SUFFICES ASSUME TypeOK, UsedAreIssued, TokensAge, VerificationIsEffective,
                    Steps
             PROVE  VerificationIsEffective'
    OBVIOUS
<1>1. ASSUME verified \subseteq verified', deleted \subseteq deleted',
             \A t \in issued' : used'[t] = "verified" =>
               \/ t \in issued /\ used[t] = "verified"
               \/ t \in issued /\ owner[t] \in verified' \union deleted'
      PROVE  VerificationIsEffective'
      BY <1>1 DEF VerificationIsEffective, TokensAge
<1>2. ASSUME NEW r \in Request,
             \/ Ends(r) \/ Opens(r) \/ Reads(r) \/ Cools(r) \/ Snapshots(r)
             \/ Locks(r) \/ Removes(r)
      PROVE  VerificationIsEffective'
      <2>1. UNCHANGED <<verified, deleted, issued, used>>
            BY <1>2 DEF Ends, Opens, Reads, Cools, Snapshots, Locks, Moves,
                        Removes, RemoveExpiredTokens, tokens, users
      <2> QED BY <1>1, <2>1
<1>3. ASSUME NEW r \in Request, Supersedes(r) PROVE VerificationIsEffective'
      BY <1>1, <1>3 DEF Supersedes, InvalidateEnd, users, TypeOK
<1>4. ASSUME NEW r \in Request, Creates(r) PROVE VerificationIsEffective'
      <2>1. /\ UNCHANGED <<verified, deleted, used>>
            /\ issued' \subseteq Token
            BY <1>4 DEF Creates, CreateToken, users, TypeOK
      <2> QED BY <1>1, <2>1 DEF UsedAreIssued
<1>5. ASSUME NEW r \in Request, Commits(r) PROVE VerificationIsEffective'
      <2> DEFINE t0 == req[r].tok
      <2>1. /\ UNCHANGED <<issued, deleted>>
            /\ t0 \in issued /\ owner[t0] = req[r].user
            /\ \A t \in Token \ {t0} : used'[t] = used[t]
            BY <1>5 DEF Commits, CommitVerification, TypeOK
      <2>2. verified \subseteq verified' /\ req[r].user \in verified' \union deleted
            BY <1>5 DEF Commits, CommitVerification
      <2> QED BY <1>1, <2>1, <2>2 DEF TypeOK
<1>6. CASE \/ UNCHANGED <<now, users, tokens, req>>
           \/ \E u \in User : DeleteUser(u)
           \/ Tick
      BY <1>1, <1>6 DEF DeleteUser, Tick, tokens, users
<1> QED BY <1>2, <1>3, <1>4, <1>5, <1>6 DEF Steps

-----------------------------------------------------------------------------
LEMMA InvStep == VerificationInv /\ [Next]_vars
                   => VerificationInv' /\ Steps /\ TokensAge
BY NextSteps, AgeStep, CarriedStep, LockStep, SupersedingStep,
   KnownStep, EffectiveStep
   DEF VerificationInv

LEMMA Invariance == Spec => []VerificationInv
BY InitInv, InvStep, PTL DEF Spec

(* Rows and requests are always of their types, whatever is deleted, expires *)
(* or is interrupted.                                                        *)
THEOREM TypeCorrect == Spec => []TypeOK
BY Invariance, PTL DEF VerificationInv

(* All the tokens that a token's resend found, one that was being used just  *)
(* then included, are at an end from the moment it is there: two usable      *)
(* tokens of one user come from resends that overlapped.                     *)
THEOREM NewTokenSupersedes == Spec => []SupersedesEarlier
BY Invariance, PTL DEF VerificationInv

(* A token spent on a verification has verified its user, or its user is     *)
(* gone.                                                                     *)
THEOREM VerificationTakesEffect == Spec => []VerificationIsEffective
BY Invariance, PTL DEF VerificationInv

(* If tokens live as long as the cooldown, as those of                       *)
(* EmailVerificationService do (an hour, two minutes), a token is younger    *)
(* than those its resend found by the cooldown or more, though the clean-up  *)
(* removes the rows by which it is known.                                    *)
THEOREM CooldownIsKept ==
  ASSUME Cooldown <= Lifetime + 1
  PROVE  Spec => []CooldownHolds
<1>1. Init => Cooled /\ CooldownHolds
      BY DEF Init, Cooled, CooldownHolds, Idle
<1>2. VerificationInv /\ Cooled /\ CooldownHolds /\ [Next]_vars
        => Cooled' /\ CooldownHolds'
      BY InvStep, CooldownStep, CooldownHoldsStep
<1> QED BY <1>1, <1>2, Invariance, PTL DEF Spec

-----------------------------------------------------------------------------
(* What may end a token: its expiry, or a request of its user.               *)
LEMMA LiveStep ==
  ASSUME VerificationInv, Steps, NEW t \in Token, Usable(t), ~Usable(t)'
  PROVE  Expired(t)' \/ \E r \in Request : req[r].user = owner[t]
<1> USE VerificationAssumption DEF VerificationInv, Usable, TypeOK
<1>1. CASE UNCHANGED <<tokens, now>>
      BY <1>1 DEF tokens, Expired
<1>2. ASSUME NEW r \in Request, Removes(r) PROVE Expired(t)'
      BY <1>2 DEF Removes, RemoveExpiredTokens, Removable, Expired
<1>3. ASSUME NEW r \in Request, Supersedes(r)
      PROVE  Expired(t)' \/ req[r].user = owner[t]
      <2>1. CASE t \in req[r].snap
            BY <2>1 DEF CarriedAreIssued, Carried, TokensEver
      <2>2. CASE t \notin req[r].snap
            BY <1>3, <2>2 DEF Supersedes, InvalidateEnd, Expired
      <2> QED BY <2>1, <2>2
<1>4. ASSUME NEW r \in Request, Creates(r) PROVE Expired(t)'
      BY <1>4 DEF Creates, CreateToken, Expired
<1>5. ASSUME NEW r \in Request, Commits(r)
      PROVE  Expired(t)' \/ req[r].user = owner[t]
      <2>1. CASE t = req[r].tok
            BY <1>5, <2>1 DEF Commits
      <2>2. CASE t # req[r].tok
            BY <1>5, <2>2 DEF Commits, CommitVerification, Expired
      <2> QED BY <2>1, <2>2
<1>6. CASE Tick
      BY <1>6 DEF Tick, tokens
<1> QED BY <1>1, <1>2, <1>3, <1>4, <1>5, <1>6, EffectSteps

(* No request takes another user's token away before it expires: not the     *)
(* clean-up for the whole tenant, nor an invalidation that has waited.       *)
THEOREM OnlyOwnRequestsEndTokens == Spec => LiveUntilReplaced
<1>1. VerificationInv /\ [Next]_vars
        => [\A t \in Token : Usable(t) /\ ~Usable(t)' =>
              \/ Expired(t)'
              \/ \E r \in Request : req[r].user = owner[t]]_vars
      BY InvStep, LiveStep
<1> QED BY <1>1, Invariance, PTL DEF Spec, LiveUntilReplaced

-----------------------------------------------------------------------------
(* The refinement.                                                           *)
Live(t) == t \in issued /\ (Usable(t) \/ Locked(t))

LEMMA Retires ==
  ASSUME UNCHANGED <<issued, log>>, \A t \in Token : Live(t)' => Live(t)
  PROVE  OneTime!Next
<1> DEFINE T == {t \in Token : Live(t) /\ ~Live(t)'}
           st == [t \in Token |-> TokenState(t)]
<1>1. \A t \in T : st[t] = "live" /\ st'[t] = "dead"
      BY DEF TokenState, Live
<1>2. \A t \in Token \ T : st'[t] = st[t]
      BY DEF TokenState, Live
<1>3. st' = [t \in Token |-> IF t \in T THEN "dead" ELSE st[t]]
      BY <1>1, <1>2
<1>4. OneTime!Retire(T)
      BY <1>1, <1>3 DEF OneTime!Retire
<1> QED BY <1>4 DEF OneTime!Next

LEMMA InitRefines == Init => OneTime!Init
BY DEF Init, OneTime!Init, TokenState

LEMMA StepRefines == VerificationInv /\ Steps /\ TokensAge => OneTime!Next
<1> SUFFICES ASSUME VerificationInv, Steps, TokensAge
             PROVE  OneTime!Next
    OBVIOUS
<1>1. \A t \in issued : Usable(t)' => Usable(t)
      BY DEF TokensAge
<1>2. ASSUME NEW r \in Request, Others(r), req'[r].pc # "marked", NEW t \in Token,
             Locked(t)'
      PROVE  Locked(t)
      BY <1>2 DEF Others, Locked
<1>3. ASSUME NEW r \in Request,
             \/ Ends(r) \/ Opens(r) \/ Reads(r) \/ Cools(r) \/ Removes(r)
             \/ Snapshots(r) \/ Supersedes(r)
      PROVE  OneTime!Next
      <2>1. UNCHANGED <<issued, log>>
            BY <1>3 DEF Ends, Opens, Reads, Cools, Removes, RemoveExpiredTokens,
                        Snapshots, Supersedes, InvalidateEnd, Moves, tokens, users
      <2>2. Others(r) /\ req'[r].pc # "marked"
            BY <1>3 DEF Ends, Opens, Reads, Cools, Removes, Snapshots,
                        Supersedes, Moves, Idle
      <2> QED BY <1>1, <1>2, <2>1, <2>2, Retires DEF Live
<1>4. ASSUME NEW r \in Request, Locks(r) PROVE OneTime!Next
      <2>1. UNCHANGED <<issued, log>>
            BY <1>4 DEF Locks, Moves, tokens, users
      <2>2. ASSUME NEW t \in Token, Locked(t)' PROVE Locked(t) \/ Usable(t)
            BY <1>4, <2>2 DEF Locks, Moves, Keeps, Others, Locked
      <2> QED BY <1>1, <2>1, <2>2, Retires DEF Live
<1>5. ASSUME NEW r \in Request, Creates(r) PROVE OneTime!Next
      <2> DEFINE st == [t \in Token |-> TokenState(t)]
      <2> PICK n \in Token \ issued : n = NewToken
          BY <1>5 DEF Creates
      <2>1. /\ rows' = rows \union {n} /\ issued' = issued \union {n}
            /\ created' = [created EXCEPT ![n] = now]
            /\ UNCHANGED <<now, used, log>>
            BY <1>5 DEF Creates, CreateToken, users
      <2>2. Usable(n)'
            <3>1. used'[n] = "unused"
                  BY <2>1 DEF VerificationInv, UsedAreIssued
            <3>2. created'[n] = now /\ now' = now /\ now \in Nat
                  BY <2>1, VerificationAssumption DEF VerificationInv, TypeOK
            <3> QED BY <2>1, <3>1, <3>2, VerificationAssumption
                    DEF Usable, Expired
      <2>3. \A t \in Token \ {n} : Usable(t)' <=> Usable(t)
            BY <2>1 DEF Usable, Expired, VerificationInv, TypeOK
      <2>4. \A t \in Token : Locked(t)' <=> Locked(t)
            BY <1>5 DEF Creates, Others, Locked
      <2>5. st[n] = "unborn" /\ st'[n] = "live"
            BY <2>1, <2>2 DEF TokenState
      <2>6. \A t \in Token \ {n} : st'[t] = st[t]
            BY <2>1, <2>3, <2>4 DEF TokenState
      <2>7. st' = [st EXCEPT ![n] = "live"]
            BY <2>5, <2>6
      <2>8. OneTime!Issue(n)
            BY <2>1, <2>5, <2>7 DEF OneTime!Issue
      <2> QED BY <2>1, <2>8 DEF OneTime!Next
<1>6. ASSUME NEW r \in Request, Commits(r) PROVE OneTime!Next
      <2> DEFINE st == [t \in Token |-> TokenState(t)]
      <2> PICK t0 \in Token : t0 = req[r].tok
          BY <1>6 DEF Commits, VerificationInv, TypeOK
      <2>1. /\ t0 \in issued /\ req[r].pc = "marked"
            /\ UNCHANGED <<rows, issued, created, now>>
            /\ used' = [used EXCEPT ![t0] = "verified"]
            /\ Others(r) /\ req'[r].pc # "marked"
            BY <1>6 DEF Commits, CommitVerification, Idle
      <2>2. Live(t0)
            BY <2>1 DEF Live, Locked
      <2>3. ~Live(t0)'
            <3>1. ~Usable(t0)'
                  BY <2>1 DEF Usable, VerificationInv, TypeOK
            <3>2. ~Locked(t0)'
                  BY <2>1 DEF Locked, Others, VerificationInv, LockIsExclusive
            <3> QED BY <3>1, <3>2 DEF Live
      <2>4. \A t \in Token \ {t0} : Live(t)' <=> Live(t)
            <3>1. \A t \in Token \ {t0} : Locked(t)' <=> Locked(t)
                  BY <2>1 DEF Locked, Others
            <3>2. \A t \in Token \ {t0} : Usable(t)' <=> Usable(t)
                  BY <2>1 DEF Usable, Expired, VerificationInv, TypeOK
            <3> QED BY <2>1, <3>1, <3>2 DEF Live
      <2>5. CASE log' = log
            BY <2>1, <2>2, <2>4, <2>5, Retires
      <2>6. CASE log' = Append(log, t0)
            <3>1. st[t0] = "live" /\ st'[t0] = "dead"
                  BY <2>1, <2>2, <2>3 DEF TokenState, Live
            <3>2. \A t \in Token \ {t0} : st'[t] = st[t]
                  BY <2>1, <2>4 DEF TokenState, Live
            <3>3. st' = [st EXCEPT ![t0] = "dead"]
                  BY <3>1, <3>2
            <3>4. OneTime!Spend(t0)
                  BY <2>6, <3>1, <3>3 DEF OneTime!Spend
            <3> QED BY <2>1, <3>4 DEF OneTime!Next
      <2> QED BY <1>6, <2>5, <2>6 DEF Commits, CommitVerification
<1>7. CASE \/ UNCHANGED <<now, users, tokens, req>>
           \/ \E u \in User : DeleteUser(u)
           \/ Tick
      <2>1. UNCHANGED <<issued, log, req>>
            BY <1>7 DEF DeleteUser, Tick, tokens, users
      <2> QED BY <1>1, <2>1, Retires DEF Live, Locked
<1> QED BY <1>3, <1>4, <1>5, <1>6, <1>7 DEF Steps

(* However verifications, resends, clean-ups and expiries race, a token      *)
(* verifies its user at most once, and only while it is neither replaced,    *)
(* expired nor removed: each step issues, retires or spends tokens as        *)
(* OneTimeToken allows.                                                      *)
THEOREM ImplementsOneTimeToken == Spec => OneTimeSpec
<1>1. VerificationInv /\ [Next]_vars => [OneTime!Next]_(OneTime!vars)
      BY InvStep, StepRefines
<1> QED BY InitRefines, Invariance, <1>1, PTL DEF Spec, OneTimeSpec, OneTime!Spec
=============================================================================
