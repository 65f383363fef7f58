------------------------ MODULE PasswordResetProofs ------------------------
(***************************************************************************)
(* Proofs about PasswordReset, for any number of users, tokens and         *)
(* requests, any cooldown and any lifetime but 0.                          *)
(***************************************************************************)
EXTENDS PasswordReset, TLAPS

-----------------------------------------------------------------------------
(* The parts of the inductive invariant.                                     *)

(* A request that carries a token carries a row, and its owner with it.      *)
Carried(r) ==
  /\ req[r].pc \in {"hashing", "marked"} =>
       req[r].tok \in rows /\ req[r].user = owner[req[r].tok]
  /\ req[r].pc = "mailing" => req[r].tok \in rows
  /\ req[r].seen \subseteq rows /\ req[r].snap \subseteq rows
  /\ req[r].pc \in {"userFound", "cool", "invalidating", "creating",
                    "committed", "answering", "verified"} =>
       req[r].user \in User
CarriedAreRows == \A r \in Request : Carried(r)

(* Only rows are used, and every row belongs to a user.                      *)
UsedAreRows ==
  /\ \A t \in Token : used[t] # "unused" => t \in rows
  /\ \A t \in rows : owner[t] \in User

(* A token whose transaction has begun stays unused until that ends, and no  *)
(* other transaction has it.                                                 *)
LockedIsUnused ==
  \A r \in Request : req[r].pc = "marked" => used[req[r].tok] = "unused"
LockIsExclusive ==
  \A q, r \in Request :
    req[q].pc = "marked" /\ req[r].pc = "marked" /\ req[q].tok = req[r].tok
      => q = r

(* What a request has yet to supersede is what its invalidation works on.    *)
Superseding ==
  \A r \in Request :
    /\ req[r].pc = "cool" => req[r].seen \subseteq TokensOf(req[r].user)
    /\ req[r].pc = "invalidating" =>
         \A t \in req[r].seen : t \in req[r].snap \/ ~Usable(t)
    /\ req[r].pc = "creating" => \A t \in req[r].seen : ~Usable(t)

(* What a token's request found are rows that were there before it.          *)
KnownAreRows == \A t \in rows : known[t] \subseteq rows

(* The cooldown found over is over, and stays so.                            *)
Cooled ==
  \A r \in Request : req[r].pc \in {"cool", "invalidating", "creating"} =>
    \A t \in req[r].seen : created[t] + Cooldown <= now

ResetInv == /\ TypeOK
            /\ CarriedAreRows
            /\ UsedAreRows
            /\ LockedIsUnused
            /\ LockIsExclusive
            /\ Superseding
            /\ KnownAreRows
            /\ SupersedesEarlier
            /\ Cooled
            /\ CooldownHolds
            /\ ResetIsEffective

-----------------------------------------------------------------------------
LEMMA NewTokenIsNew ==
  ASSUME rows \in SUBSET Token, rows # Token
  PROVE  NewToken \in Token \ rows
BY DEF NewToken

LEMMA InitInv == Init => ResetInv
BY ResetAssumption
   DEF Init, ResetInv, TypeOK, CarriedAreRows, Carried, UsedAreRows,
       LockedIsUnused, LockIsExclusive, Superseding, KnownAreRows,
       SupersedesEarlier, Cooled, CooldownHolds, ResetIsEffective, RequestState, Idle, PC, Fate

(* What the steps do to the requests: all but r stay as they are.            *)
Others(r) == \A q \in Request \ {r} : req'[q] = req[q]

LEMMA MoveFacts ==
  ASSUME req \in [Request -> RequestState], NEW r \in Request,
         NEW rec \in RequestState, req' = [req EXCEPT ![r] = rec]
  PROVE  /\ req' \in [Request -> RequestState]
         /\ req'[r] = rec
         /\ \A q \in Request \ {r} : req'[q] = req[q]
OBVIOUS

LEMMA FinishFacts ==
  ASSUME req \in [Request -> RequestState], NEW r \in Request, Finish(r)
  PROVE  /\ req' \in [Request -> RequestState]
         /\ req'[r] = Idle
         /\ \A q \in Request \ {r} : req'[q] = req[q]
<1>1. Idle \in RequestState
      BY DEF Idle, RequestState, PC
<1> QED BY <1>1 DEF Finish

LEMMA GotoFacts ==
  ASSUME req \in [Request -> RequestState], NEW r \in Request,
         NEW pc \in PC, Goto(r, pc)
  PROVE  /\ req' \in [Request -> RequestState]
         /\ req'[r].pc = pc /\ req'[r].user = req[r].user
         /\ req'[r].tok = req[r].tok /\ req'[r].seen = req[r].seen
         /\ req'[r].snap = req[r].snap
         /\ \A q \in Request \ {r} : req'[q] = req[q]
BY DEF Goto, RequestState

-----------------------------------------------------------------------------
(* Nothing the invariants speak of changes but requests, and of those only r. *)
Moves(r) == /\ UNCHANGED <<now, deleted, log, tokens>>
            /\ Others(r)

(* r keeps what it carries.                                                  *)
Keeps(r) == /\ req'[r].user = req[r].user /\ req'[r].tok = req[r].tok
            /\ req'[r].seen = req[r].seen /\ req'[r].snap = req[r].snap

(* The steps as the invariants see them.                                     *)
Ends(r) == Moves(r) /\ req'[r] = Idle
Opens(r) == /\ Moves(r)
            /\ req'[r].pc \in {"userFound", "verified"}
            /\ req'[r].user \in User
            /\ req'[r].seen = {} /\ req'[r].snap = {}
Reads(r) == /\ Moves(r)
            /\ req'[r].pc = "hashing"
            /\ req'[r].tok \in rows /\ req'[r].user = owner[req'[r].tok]
            /\ req'[r].seen = {} /\ req'[r].snap = {}
Cools(r) == /\ Moves(r)
            /\ req[r].pc = "userFound" /\ req'[r].pc = "cool"
            /\ req'[r].user = req[r].user
            /\ \A t \in TokensOf(req[r].user) : ~Recent(t)
            /\ req'[r].seen = TokensOf(req[r].user)
            /\ req'[r].snap = req[r].snap
Snapshots(r) == /\ Moves(r)
                /\ req[r].pc = "cool" /\ req'[r].pc = "invalidating"
                /\ req'[r].user = req[r].user
                /\ req'[r].seen = req[r].seen
                /\ req'[r].snap = Invalidated(req[r].user)
Locks(r) == /\ Moves(r)
            /\ req[r].pc = "hashing" /\ req'[r].pc = "marked"
            /\ Keeps(r)
            /\ Usable(req[r].tok) /\ ~Locked(req[r].tok)
Answers(r) == /\ Moves(r)
              /\ req[r].pc = "committed" /\ req'[r].pc = "answering"
              /\ Keeps(r)
Supersedes(r) == /\ InvalidateEnd(r)
                 /\ Others(r)
                 /\ req[r].pc = "invalidating" /\ req'[r].pc = "creating"
                 /\ req'[r].user = req[r].user
                 /\ req'[r].seen = req[r].seen /\ req'[r].snap = {}
Creates(r) == /\ CreateToken(r)
              /\ Others(r)
              /\ req[r].pc = "creating" /\ req'[r].pc = "mailing"
              /\ NewToken \in Token \ rows
              /\ req'[r].tok = NewToken
              /\ req'[r].seen = req[r].seen /\ req'[r].snap = req[r].snap
Commits(r) == /\ CommitReset(r)
              /\ Others(r)
              /\ req[r].pc = "marked"
              /\ req[r].tok \in rows
              /\ req[r].user = owner[req[r].tok] /\ req[r].user \in User
              /\ \/ req'[r] = Idle
                 \/ req'[r].pc = "committed" /\ Keeps(r)

Steps ==
  \/ UNCHANGED <<now, deleted, log, tokens, req>>
  \/ \E r \in Request : \/ Ends(r) \/ Opens(r) \/ Reads(r) \/ Cools(r)
                        \/ Snapshots(r) \/ Locks(r) \/ Answers(r)
                        \/ Supersedes(r) \/ Creates(r) \/ Commits(r)
  \/ \E u \in User : DeleteUser(u)
  \/ Tick

LEMMA NextSteps ==
  TypeOK /\ CarriedAreRows /\ UsedAreRows /\ [Next]_vars => Steps /\ TypeOK'
<1> SUFFICES ASSUME TypeOK, CarriedAreRows, UsedAreRows, [Next]_vars
             PROVE  Steps /\ TypeOK'
    OBVIOUS
<1> USE ResetAssumption DEF TypeOK
<1> DEFINE ReqOK == req' \in [Request -> RequestState]
           Same == UNCHANGED <<now, users, tokens, inbox>>
<1>1. ASSUME Same, ReqOK PROVE TypeOK'
      BY <1>1 DEF users, tokens
<1>2. ASSUME NEW r \in Request, Same, Finish(r) PROVE Ends(r) /\ TypeOK'
      BY <1>1, <1>2, FinishFacts DEF Ends, Moves, Others, users
<1>3. {"userFound", "cool", "invalidating", "creating", "mailing", "hashing",
       "marked", "committed", "answering", "verified"} \subseteq PC
      BY DEF PC
<1>4. ASSUME NEW r \in Request, NEW u \in User, FindUser(r, u)
      PROVE  Opens(r) /\ TypeOK'
      <2> DEFINE rec == [Idle EXCEPT !.pc = "userFound", !.user = u]
      <2>1. rec \in RequestState
            BY <1>3 DEF Idle, RequestState
      <2>2. Same /\ req' = [req EXCEPT ![r] = rec]
            BY <1>4 DEF FindUser
      <2>3. ReqOK /\ req'[r] = rec /\ Others(r)
            BY <2>1, <2>2, MoveFacts DEF Others
      <2> QED BY <1>1, <2>2, <2>3 DEF Opens, Moves, Idle, users
<1>5. ASSUME NEW r \in Request, NEW u \in User, LoginVerify(r, u)
      PROVE  Opens(r) /\ TypeOK'
      <2> DEFINE rec == [Idle EXCEPT !.pc = "verified", !.user = u,
                                     !.pw = password[u]]
      <2>1. rec \in RequestState
            BY <1>3 DEF Idle, RequestState
      <2>2. Same /\ req' = [req EXCEPT ![r] = rec]
            BY <1>5 DEF LoginVerify
      <2>3. ReqOK /\ req'[r] = rec /\ Others(r)
            BY <2>1, <2>2, MoveFacts DEF Others
      <2> QED BY <1>1, <2>2, <2>3 DEF Opens, Moves, Idle, users
<1>6. ASSUME NEW r \in Request, NEW t \in Token, ReadToken(r, t)
      PROVE  Reads(r) /\ TypeOK'
      <2> DEFINE rec == [Idle EXCEPT !.pc = "hashing", !.tok = t,
                                     !.user = owner[t]]
      <2>1. rec \in RequestState
            BY <1>3 DEF Idle, RequestState
      <2>2. Same /\ req' = [req EXCEPT ![r] = rec] /\ t \in rows
            BY <1>6 DEF ReadToken
      <2>3. ReqOK /\ req'[r] = rec /\ Others(r)
            BY <2>1, <2>2, MoveFacts DEF Others
      <2> QED BY <1>1, <2>2, <2>3 DEF Reads, Moves, Idle, users
<1>7. ASSUME NEW r \in Request, CheckCooldown(r)
      PROVE  (Ends(r) \/ Cools(r)) /\ TypeOK'
      <2> DEFINE rec == [req[r] EXCEPT !.pc = "cool",
                                       !.seen = TokensOf(req[r].user)]
      <2>1. rec \in RequestState
            BY <1>3 DEF RequestState, TokensOf
      <2>2. CASE Finish(r)
            BY <1>2, <1>7, <2>2 DEF CheckCooldown
      <2>3. CASE req' = [req EXCEPT ![r] = rec]
                 /\ ~(\E t \in TokensOf(req[r].user) : Recent(t))
            <3>1. ReqOK /\ req'[r] = rec /\ Others(r)
                  BY <2>1, <2>3, MoveFacts DEF Others
            <3>2. /\ req'[r].pc = "cool" /\ req'[r].user = req[r].user
                  /\ req'[r].seen = TokensOf(req[r].user)
                  /\ req'[r].snap = req[r].snap
                  BY <3>1 DEF RequestState
            <3>3. Same /\ req[r].pc = "userFound"
                  BY <1>7 DEF CheckCooldown
            <3> QED BY <1>1, <2>3, <3>1, <3>2, <3>3 DEF Cools, Moves, users
      <2> QED BY <1>7, <2>2, <2>3 DEF CheckCooldown
<1>8. ASSUME NEW r \in Request, InvalidateBegin(r) PROVE Snapshots(r) /\ TypeOK'
      <2> DEFINE rec == [req[r] EXCEPT !.pc = "invalidating",
                                       !.snap = Invalidated(req[r].user)]
      <2>1. rec \in RequestState
            BY <1>3 DEF RequestState, Invalidated, TokensOf
      <2>2. Same /\ req[r].pc = "cool" /\ req' = [req EXCEPT ![r] = rec]
            BY <1>8 DEF InvalidateBegin
      <2>3. ReqOK /\ req'[r] = rec /\ Others(r)
            BY <2>1, <2>2, MoveFacts DEF Others
      <2>4. /\ req'[r].pc = "invalidating" /\ req'[r].user = req[r].user
            /\ req'[r].seen = req[r].seen
            /\ req'[r].snap = Invalidated(req[r].user)
            BY <2>3 DEF RequestState
      <2> QED BY <1>1, <2>2, <2>3, <2>4 DEF Snapshots, Moves, users
<1>9. ASSUME NEW r \in Request, InvalidateEnd(r) PROVE Supersedes(r) /\ TypeOK'
      <2> DEFINE rec == [req[r] EXCEPT !.pc = "creating", !.snap = {}]
      <2>1. rec \in RequestState
            BY <1>3 DEF RequestState
      <2>2. req[r].pc = "invalidating" /\ req' = [req EXCEPT ![r] = rec]
            BY <1>9 DEF InvalidateEnd
      <2>3. ReqOK /\ req'[r] = rec /\ Others(r)
            BY <2>1, <2>2, MoveFacts DEF Others
      <2>4. /\ req'[r].pc = "creating" /\ req'[r].user = req[r].user
            /\ req'[r].seen = req[r].seen /\ req'[r].snap = {}
            BY <2>3 DEF RequestState
      <2>5. used' \in [Token -> Fate]
            BY <1>9 DEF InvalidateEnd, Fate
      <2>6. TypeOK'
            BY <1>9, <2>3, <2>5 DEF InvalidateEnd, users
      <2> QED BY <1>9, <2>2, <2>3, <2>4, <2>6 DEF Supersedes
<1>10. ASSUME NEW r \in Request, CreateToken(r) PROVE Creates(r) /\ TypeOK'
      <2> DEFINE rec == [req[r] EXCEPT !.pc = "mailing", !.tok = NewToken]
      <2>1. NewToken \in Token \ rows /\ req[r].pc = "creating"
            BY <1>10, NewTokenIsNew DEF CreateToken
      <2>2. rec \in RequestState
            <3>1. req[r] \in RequestState /\ "mailing" \in PC
                  BY <1>3
            <3> QED BY ONLY <2>1, <3>1 DEF RequestState
      <2>3. ReqOK /\ req'[r] = rec /\ Others(r)
            BY <1>10, <2>2, MoveFacts DEF Others, CreateToken
      <2>4. /\ req'[r].pc = "mailing" /\ req'[r].tok = NewToken
            /\ req'[r].seen = req[r].seen /\ req'[r].snap = req[r].snap
            BY <2>3 DEF RequestState
      <2>5. req[r].user \in User
            BY <2>1 DEF CarriedAreRows, Carried
      <2>6. TypeOK'
            <3>1. known' \in [Token -> SUBSET Token]
                  <4>1. req[r].seen \in SUBSET Token
                        BY DEF RequestState
                  <4> QED BY <1>10, <4>1 DEF CreateToken
            <3> QED BY <1>10, <2>1, <2>3, <2>5, <3>1 DEF CreateToken, users
      <2> QED BY <1>10, <2>1, <2>3, <2>4, <2>6 DEF Creates
<1>11. ASSUME NEW r \in Request, SendEmail(r) PROVE Ends(r) /\ TypeOK'
      <2>1. ReqOK /\ req'[r] = Idle /\ Others(r)
            BY <1>11, FinishFacts DEF SendEmail, Others
      <2>2. req[r].tok \in rows
            BY <1>11 DEF SendEmail, CarriedAreRows, Carried
      <2>3. TypeOK'
            BY <1>11, <2>1, <2>2 DEF SendEmail, users, tokens
      <2> QED BY <1>11, <2>1, <2>3 DEF SendEmail, Ends, Moves, users
<1>12. ASSUME NEW r \in Request, MarkUsed(r)
      PROVE  (Ends(r) \/ Locks(r)) /\ TypeOK'
      <2>1. CASE Finish(r)
            BY <1>2, <1>12, <2>1 DEF MarkUsed
      <2>2. CASE Goto(r, "marked") /\ Usable(req[r].tok)
            <3>1. Same /\ req[r].pc = "hashing" /\ ~Locked(req[r].tok)
                  BY <1>12 DEF MarkUsed
            <3>2. ReqOK /\ req'[r].pc = "marked" /\ Keeps(r) /\ Others(r)
                  BY <1>3, <2>2, GotoFacts DEF Keeps, Others
            <3> QED BY <1>1, <2>2, <3>1, <3>2 DEF Locks, Moves, users
      <2> QED BY <1>12, <2>1, <2>2 DEF MarkUsed
<1>13. ASSUME NEW r \in Request, CommitReset(r) PROVE Commits(r) /\ TypeOK'
      <2>1. /\ req[r].pc = "marked"
            /\ req[r].tok \in rows
            /\ req[r].user = owner[req[r].tok] /\ req[r].user \in User
            BY <1>13 DEF CommitReset, CarriedAreRows, Carried, UsedAreRows
      <2>2. /\ ReqOK /\ Others(r)
            /\ \/ req'[r] = Idle
               \/ req'[r].pc = "committed" /\ Keeps(r)
            <3>1. CASE Finish(r)
                  <4>1. ReqOK /\ req'[r] = Idle /\ Others(r)
                        BY <3>1, FinishFacts DEF Others
                  <4> QED BY <4>1
            <3>2. CASE Goto(r, "committed")
                  BY <1>3, <3>2, GotoFacts DEF Others, Keeps
            <3> QED BY <1>13, <3>1, <3>2 DEF CommitReset
      <2>3. log' \in Seq(Token)
            <3>1. log' = log \/ log' = Append(log, req[r].tok)
                  BY <1>13 DEF CommitReset
            <3>2. Append(log, req[r].tok) \in Seq(Token)
                  BY <2>1
            <3> QED BY <3>1, <3>2
      <2>4. password' \in [User -> Token \union {NoToken}]
            <3>1. \/ password' = password
                  \/ password' = [password EXCEPT ![req[r].user] = req[r].tok]
                  BY <1>13 DEF CommitReset
            <3> QED BY <2>1, <3>1
      <2>5. used' \in [Token -> Fate]
            BY <1>13 DEF CommitReset, Fate
      <2>6. TypeOK'
            BY <1>13, <2>2, <2>3, <2>4, <2>5 DEF CommitReset
      <2> QED BY <1>13, <2>1, <2>2, <2>6 DEF Commits
<1>14. ASSUME NEW r \in Request, RevokeAllSessions(r)
       PROVE  Answers(r) /\ TypeOK'
      <2>1. ReqOK /\ req'[r].pc = "answering" /\ Keeps(r) /\ Others(r)
            BY <1>3, <1>14, GotoFacts DEF RevokeAllSessions, Keeps, Others
      <2>2. TypeOK'
            BY <1>14, <2>1 DEF RevokeAllSessions, tokens
      <2> QED BY <1>14, <2>1, <2>2 DEF RevokeAllSessions, Answers, Moves
<1>15. ASSUME NEW r \in Request, Answer(r) \/ Fail(r) PROVE Ends(r) /\ TypeOK'
      BY <1>2, <1>15 DEF Answer, Fail
<1>16. ASSUME NEW r \in Request, LoginInsert(r) PROVE Ends(r) /\ TypeOK'
      <2>1. ReqOK /\ req'[r] = Idle /\ Others(r)
            BY <1>16, FinishFacts DEF LoginInsert, Others
      <2>2. req[r].pw \in Token \union {NoToken}
            BY DEF RequestState
      <2>3. TypeOK'
            BY <1>16, <2>1, <2>2 DEF LoginInsert, tokens
      <2> QED BY <1>16, <2>1, <2>3 DEF LoginInsert, Ends, Moves
<1>17. ASSUME NEW u \in User, DeleteUser(u) PROVE TypeOK'
      BY <1>17 DEF DeleteUser, tokens
<1>18. CASE Tick
      <2>1. TypeOK'
            BY <1>18 DEF Tick, users, tokens
      <2> QED BY <1>18, <2>1 DEF Steps
<1>19. CASE UNCHANGED vars
      <2>1. TypeOK'
            BY <1>19 DEF vars
      <2> QED BY <1>19, <2>1 DEF vars, Steps, tokens
<1> QED BY <1>4, <1>5, <1>6, <1>7, <1>8, <1>9, <1>10, <1>11, <1>12, <1>13,
           <1>14, <1>15, <1>16, <1>17, <1>18, <1>19 DEF Next, Steps

-----------------------------------------------------------------------------
(* A row that is used or expired stays so, and keeps owner and creation.     *)
RowsAge == \A t \in rows : /\ t \in rows'
                           /\ owner'[t] = owner[t] /\ created'[t] = created[t]
                           /\ ~Usable(t) => ~Usable(t)'

LEMMA AgeStep ==
  TypeOK /\ CarriedAreRows /\ UsedAreRows /\ Steps
    => RowsAge /\ UsedAreRows' /\ now <= now'
<1> SUFFICES ASSUME TypeOK, CarriedAreRows, UsedAreRows, Steps
             PROVE  RowsAge /\ UsedAreRows' /\ now <= now'
    OBVIOUS
<1> USE ResetAssumption
    DEF TypeOK, RowsAge, Usable, Expired, UsedAreRows, tokens
<1>1. CASE UNCHANGED <<tokens, now>>
      BY <1>1
<1>2. ASSUME NEW r \in Request, Supersedes(r)
      PROVE  RowsAge /\ UsedAreRows' /\ now <= now'
      <2>1. UNCHANGED <<now, rows, owner, created>>
            BY <1>2 DEF Supersedes, InvalidateEnd
      <2>2. \A t \in Token :
              \/ used'[t] = used[t]
              \/ used'[t] = "superseded" /\ t \in req[r].snap
            BY <1>2 DEF Supersedes, InvalidateEnd
      <2>3. req[r].snap \subseteq rows
            BY DEF CarriedAreRows, Carried
      <2> QED BY <2>1, <2>2, <2>3
<1>3. ASSUME NEW r \in Request, Creates(r)
      PROVE  RowsAge /\ UsedAreRows' /\ now <= now'
      <2>1. req[r].user \in User
            BY <1>3 DEF Creates, CarriedAreRows, Carried
      <2> QED BY <1>3, <2>1 DEF Creates, CreateToken
<1>4. ASSUME NEW r \in Request, Commits(r)
      PROVE  RowsAge /\ UsedAreRows' /\ now <= now'
      BY <1>4 DEF Commits, CommitReset
<1>5. CASE Tick
      BY <1>5 DEF Tick
<1>6. \/ UNCHANGED <<tokens, now>>
      \/ \E r \in Request : Supersedes(r) \/ Creates(r) \/ Commits(r)
      \/ Tick
      BY DEF Steps, Ends, Opens, Reads, Cools, Snapshots, Locks, Answers, Moves,
             DeleteUser
<1> QED BY <1>1, <1>2, <1>3, <1>4, <1>5, <1>6

LEMMA CarriedStep ==
  TypeOK /\ CarriedAreRows /\ UsedAreRows /\ Steps => CarriedAreRows'
<1> SUFFICES ASSUME TypeOK, CarriedAreRows, UsedAreRows, Steps
             PROVE  CarriedAreRows'
    OBVIOUS
<1>1. RowsAge
      BY AgeStep
<1>2. ASSUME NEW q \in Request, req'[q] = req[q] PROVE Carried(q)'
      BY <1>1, <1>2 DEF CarriedAreRows, Carried, RowsAge
<1>3. ASSUME NEW r \in Request, Others(r), Carried(r)' PROVE CarriedAreRows'
      BY <1>2, <1>3 DEF CarriedAreRows, Others
<1>4. ASSUME NEW r \in Request,
             \/ Ends(r) \/ Opens(r) \/ Reads(r) \/ Cools(r) \/ Snapshots(r)
             \/ Locks(r) \/ Answers(r)
      PROVE  CarriedAreRows'
      <2>1. Carried(r)'
            BY <1>4
               DEF Ends, Opens, Reads, Cools, Snapshots, Locks, Answers, Moves,
                   Keeps, CarriedAreRows, Carried, Idle, TokensOf, Invalidated,
                   tokens
      <2>2. Others(r)
            BY <1>4 DEF Ends, Opens, Reads, Cools, Snapshots, Locks, Answers,
                        Moves
      <2> QED BY <1>3, <2>1, <2>2
<1>5. ASSUME NEW r \in Request, Supersedes(r) \/ Creates(r) PROVE CarriedAreRows'
      <2>1. Carried(r)'
            BY <1>5 DEF Supersedes, InvalidateEnd, Creates, CreateToken,
                        CarriedAreRows, Carried
      <2> QED BY <1>3, <1>5, <2>1 DEF Supersedes, Creates
<1>6. ASSUME NEW r \in Request, Commits(r) PROVE CarriedAreRows'
      <2>1. Carried(r)'
            BY <1>6 DEF Commits, CommitReset, Keeps, Idle, CarriedAreRows, Carried
      <2> QED BY <1>3, <1>6, <2>1 DEF Commits
<1>7. CASE \/ UNCHANGED <<now, deleted, log, tokens, req>>
           \/ \E u \in User : DeleteUser(u)
           \/ Tick
      BY <1>2, <1>7 DEF DeleteUser, Tick, CarriedAreRows
<1> QED BY <1>4, <1>5, <1>6, <1>7 DEF Steps

(* A transaction begins only when its token is usable and nobody has it; the *)
(* only other write to an unused token is the invalidation, which waits.     *)
LEMMA LockStep ==
  TypeOK /\ CarriedAreRows /\ LockedIsUnused /\ LockIsExclusive /\ Steps
    => LockedIsUnused' /\ LockIsExclusive'
<1> SUFFICES ASSUME TypeOK, CarriedAreRows, LockedIsUnused, LockIsExclusive,
                    Steps
             PROVE  LockedIsUnused' /\ LockIsExclusive'
    OBVIOUS
<1>1. ASSUME NEW r \in Request, Others(r), req'[r].pc # "marked",
             \A q \in Request \ {r} : req[q].pc = "marked" =>
               used'[req[q].tok] = used[req[q].tok]
      PROVE  LockedIsUnused' /\ LockIsExclusive'
      BY <1>1 DEF Others, LockedIsUnused, LockIsExclusive
<1>2. ASSUME NEW r \in Request,
             \/ Ends(r) \/ Opens(r) \/ Reads(r) \/ Cools(r) \/ Snapshots(r)
             \/ Answers(r)
      PROVE  LockedIsUnused' /\ LockIsExclusive'
      BY <1>1, <1>2
         DEF Ends, Opens, Reads, Cools, Snapshots, Answers, Moves, Idle, tokens
<1>3. ASSUME NEW r \in Request, Creates(r)
      PROVE  LockedIsUnused' /\ LockIsExclusive'
      BY <1>1, <1>3 DEF Creates, CreateToken
<1>4. ASSUME NEW r \in Request, Supersedes(r)
      PROVE  LockedIsUnused' /\ LockIsExclusive'
      <2>1. ASSUME NEW q \in Request, req[q].pc = "marked"
            PROVE  used'[req[q].tok] = used[req[q].tok]
            <3>1. req[q].tok \in Token /\ Locked(req[q].tok)
                  BY <2>1 DEF Locked, CarriedAreRows, Carried, TypeOK
            <3>2. req[q].tok \notin req[r].snap
                  BY <1>4, <3>1 DEF Supersedes, InvalidateEnd
            <3> QED BY <1>4, <3>1, <3>2 DEF Supersedes, InvalidateEnd
      <2> QED BY <1>1, <1>4, <2>1 DEF Supersedes
<1>5. ASSUME NEW r \in Request, Commits(r)
      PROVE  LockedIsUnused' /\ LockIsExclusive'
      <2>1. \A t \in Token \ {req[r].tok} : used'[t] = used[t]
            BY <1>5 DEF Commits, CommitReset, TypeOK
      <2>2. ASSUME NEW q \in Request \ {r}, req[q].pc = "marked"
            PROVE  used'[req[q].tok] = used[req[q].tok]
            <3>1. req[q].tok \in Token \ {req[r].tok}
                  BY <1>5, <2>2
                     DEF Commits, CarriedAreRows, Carried, LockIsExclusive, TypeOK
            <3> QED BY <2>1, <3>1
      <2>3. req'[r].pc # "marked" /\ Others(r)
            BY <1>5 DEF Commits, Idle
      <2> QED BY <1>1, <2>2, <2>3
<1>6. ASSUME NEW r \in Request, Locks(r)
      PROVE  LockedIsUnused' /\ LockIsExclusive'
      BY <1>6
         DEF Locks, Moves, Keeps, Others, Usable, Locked, LockedIsUnused,
             LockIsExclusive, tokens
<1>7. CASE \/ UNCHANGED <<now, deleted, log, tokens, req>>
           \/ \E u \in User : DeleteUser(u)
           \/ Tick
      BY <1>7 DEF DeleteUser, Tick, tokens, LockedIsUnused, LockIsExclusive
<1> QED BY <1>2, <1>3, <1>4, <1>5, <1>6, <1>7 DEF Steps

-----------------------------------------------------------------------------
(* What a request has seen and not yet superseded is in its snapshot; a      *)
(* token no longer usable never becomes so again.                            *)
LEMMA SupersedingStep ==
  TypeOK /\ CarriedAreRows /\ UsedAreRows /\ Superseding /\ Steps
    => Superseding'
<1> SUFFICES ASSUME TypeOK, CarriedAreRows, UsedAreRows, Superseding,
                    Steps
             PROVE  Superseding'
    OBVIOUS
<1> DEFINE Good(r) ==
      /\ req[r].pc = "cool" => req[r].seen \subseteq TokensOf(req[r].user)
      /\ req[r].pc = "invalidating" =>
           \A t \in req[r].seen : t \in req[r].snap \/ ~Usable(t)
      /\ req[r].pc = "creating" =>
           \A t \in req[r].seen : ~Usable(t)
<1>1. RowsAge
      BY AgeStep
<1>2. \A r \in Request : Good(r) /\ req[r].seen \subseteq rows
      BY DEF Superseding, CarriedAreRows, Carried
<1>3. ASSUME NEW q \in Request, req'[q] = req[q] PROVE Good(q)'
      BY <1>1, <1>2, <1>3 DEF RowsAge, TokensOf
<1>4. ASSUME \A r \in Request : Good(r)'
      PROVE  Superseding'
      BY <1>4 DEF Superseding
<1>5. ASSUME NEW r \in Request, Others(r), Good(r)'
      PROVE  Superseding'
      BY <1>3, <1>4, <1>5 DEF Others
<1>6. ASSUME NEW r \in Request,
             Ends(r) \/ Opens(r) \/ Reads(r) \/ Locks(r) \/ Answers(r)
      PROVE  Superseding'
      <2>1. Good(r)'
            BY <1>6 DEF Ends, Opens, Reads, Locks, Answers, Idle
      <2> QED BY <1>5, <1>6, <2>1 DEF Ends, Opens, Reads, Locks, Answers, Moves
<1>7. ASSUME NEW r \in Request, Cools(r)
      PROVE  Superseding'
      <2>1. Good(r)'
            BY <1>7 DEF Cools, Moves, TokensOf, tokens
      <2> QED BY <1>5, <1>7, <2>1 DEF Cools, Moves
<1>8. ASSUME NEW r \in Request, Snapshots(r)
      PROVE  Superseding'
      <2>1. \A t \in req[r].seen : t \in Invalidated(req[r].user) \/ ~Usable(t)
            BY <1>2, <1>8 DEF Snapshots, Invalidated
      <2>2. Good(r)'
            BY <1>1, <1>2, <1>8, <2>1 DEF Snapshots, RowsAge
      <2> QED BY <1>5, <1>8, <2>2 DEF Snapshots, Moves
<1>9. ASSUME NEW r \in Request, Supersedes(r)
      PROVE  Superseding'
      <2>1. ASSUME NEW t \in req[r].seen PROVE ~Usable(t)'
            <3>1. t \in rows /\ t \in Token
                  BY <1>2 DEF TypeOK
            <3>2. CASE ~Usable(t)
                  BY <1>1, <3>1, <3>2 DEF RowsAge
            <3>3. CASE t \in req[r].snap
                  <4>1. used'[t] # "unused"
                        BY <1>9, <3>1, <3>3 DEF Supersedes, InvalidateEnd
                  <4> QED BY <4>1 DEF Usable
            <3> QED BY <1>2, <1>9, <3>2, <3>3 DEF Supersedes
      <2>2. Good(r)'
            BY <1>9, <2>1 DEF Supersedes
      <2> QED BY <1>5, <1>9, <2>2 DEF Supersedes
<1>10. ASSUME NEW r \in Request, Creates(r)
       PROVE  Superseding'
      <2>1. Good(r)'
            BY <1>1, <1>2, <1>10 DEF Creates, RowsAge
      <2> QED BY <1>5, <1>10, <2>1 DEF Creates
<1>11. ASSUME NEW r \in Request, Commits(r)
       PROVE  Superseding'
      <2>1. Good(r)'
            BY <1>11 DEF Commits, Idle
      <2> QED BY <1>5, <1>11, <2>1 DEF Commits
<1>12. CASE \/ UNCHANGED <<now, deleted, log, tokens, req>>
            \/ \E u \in User : DeleteUser(u)
            \/ Tick
      BY <1>3, <1>4, <1>12 DEF DeleteUser, Tick
<1> QED BY <1>6, <1>7, <1>8, <1>9, <1>10, <1>11, <1>12 DEF Steps

(* What was found older than the cooldown only gets older.                   *)
LEMMA CooldownStep ==
  TypeOK /\ CarriedAreRows /\ UsedAreRows /\ Cooled /\ Steps => Cooled'
<1> SUFFICES ASSUME TypeOK, CarriedAreRows, UsedAreRows, Cooled, Steps
             PROVE  Cooled'
    OBVIOUS
<1> DEFINE Good(r) ==
         req[r].pc \in {"cool", "invalidating", "creating"} =>
           \A t \in req[r].seen : created[t] + Cooldown <= now
<1> USE ResetAssumption
<1>1. RowsAge /\ now <= now'
      BY AgeStep
<1>2. \A r \in Request : /\ Good(r)
                         /\ req[r].seen \subseteq rows
      BY DEF Cooled, CarriedAreRows, Carried
<1>3. now \in Nat /\ now' \in Nat /\ \A t \in rows : created[t] \in Nat
      <2>1. now' \in Nat
            <3>1. now' = now \/ Tick
                  BY DEF Steps, Ends, Opens, Reads, Cools, Snapshots, Locks,
                         Answers, Moves, Supersedes, InvalidateEnd, Creates,
                         CreateToken, Commits, CommitReset, DeleteUser
            <3> QED BY <3>1 DEF Tick, TypeOK
      <2> QED BY <2>1 DEF TypeOK
<1>4. ASSUME NEW r \in Request,
             req'[r].pc \in {"cool", "invalidating", "creating"},
             req[r].pc \in {"cool", "invalidating", "creating"},
             req'[r].seen = req[r].seen
      PROVE  Good(r)'
      BY <1>1, <1>2, <1>3, <1>4 DEF RowsAge
<1>5. ASSUME NEW q \in Request, req'[q] = req[q] PROVE Good(q)'
      BY <1>1, <1>2, <1>3, <1>4, <1>5 DEF RowsAge
<1>6. ASSUME \A r \in Request : Good(r)' PROVE Cooled'
      BY <1>6 DEF Cooled
<1>7. ASSUME NEW r \in Request, Others(r), Good(r)'
      PROVE  Cooled'
      BY <1>5, <1>6, <1>7 DEF Others
<1>8. ASSUME NEW r \in Request,
             \/ Ends(r) \/ Opens(r) \/ Reads(r) \/ Locks(r) \/ Answers(r)
             \/ Commits(r)
      PROVE  Cooled'
      <2>1. Good(r)'
            BY <1>8 DEF Ends, Opens, Reads, Locks, Answers, Commits, Idle
      <2>2. Others(r)
            BY <1>8 DEF Ends, Opens, Reads, Locks, Answers, Commits, Moves
      <2> QED BY <1>7, <2>1, <2>2
<1>9. ASSUME NEW r \in Request, Cools(r) PROVE Cooled'
      <2>1. \A t \in TokensOf(req[r].user) :
              t \in rows /\ created[t] + Cooldown <= now
            BY <1>3, <1>9 DEF Cools, Recent, TokensOf
      <2>2. Good(r)'
            BY <1>9, <2>1 DEF Cools, Moves, tokens
      <2> QED BY <1>7, <1>9, <2>2 DEF Cools, Moves
<1>10. ASSUME NEW r \in Request, Snapshots(r) \/ Supersedes(r)
       PROVE  Cooled'
      <2>1. Good(r)'
            BY <1>4, <1>10 DEF Snapshots, Supersedes
      <2> QED BY <1>7, <1>10, <2>1 DEF Snapshots, Supersedes, Moves
<1>11. ASSUME NEW r \in Request, Creates(r) PROVE Cooled'
      <2>1. Good(r)'
            BY <1>11 DEF Creates
      <2> QED BY <1>7, <1>11, <2>1 DEF Creates
<1>12. CASE \/ UNCHANGED <<now, deleted, log, tokens, req>>
            \/ \E u \in User : DeleteUser(u)
            \/ Tick
      BY <1>5, <1>6, <1>12 DEF DeleteUser, Tick
<1> QED BY <1>8, <1>9, <1>10, <1>11, <1>12 DEF Steps

(* The history of the tokens: it is written with the token, when the request *)
(* has superseded what it found and the cooldown is over, and what it says   *)
(* of two tokens stays true as they grow older.                              *)
LEMMA KnownStep ==
  TypeOK /\ CarriedAreRows /\ UsedAreRows /\ Superseding /\ Cooled
    /\ KnownAreRows /\ SupersedesEarlier /\ CooldownHolds /\ Steps
      => KnownAreRows' /\ SupersedesEarlier' /\ CooldownHolds'
<1> SUFFICES ASSUME TypeOK, CarriedAreRows, UsedAreRows, Superseding, Cooled,
                    KnownAreRows, SupersedesEarlier, CooldownHolds, Steps
             PROVE  KnownAreRows' /\ SupersedesEarlier' /\ CooldownHolds'
    OBVIOUS
<1> USE DEF KnownAreRows, SupersedesEarlier, CooldownHolds
<1>1. RowsAge
      BY AgeStep
<1>2. CASE UNCHANGED <<rows, known>>
      BY <1>1, <1>2 DEF RowsAge
<1>3. ASSUME NEW r \in Request, Creates(r)
      PROVE  KnownAreRows' /\ SupersedesEarlier' /\ CooldownHolds'
      <2> PICK n \in Token \ rows : n = NewToken
          BY <1>3 DEF Creates
      <2>1. /\ rows' = rows \union {n} /\ created'[n] = now
            /\ known'[n] = req[r].seen
            /\ \A t \in rows : known'[t] = known[t]
            BY <1>3 DEF Creates, CreateToken, TypeOK
      <2>2. \A s \in req[r].seen :
              s \in rows /\ ~Usable(s) /\ created[s] + Cooldown <= now
            BY <1>3 DEF Creates, CarriedAreRows, Carried, Superseding, Cooled
      <2> QED BY <1>1, <2>1, <2>2 DEF RowsAge
<1>4. UNCHANGED <<rows, known>> \/ \E r \in Request : Creates(r)
      BY DEF Steps, Ends, Opens, Reads, Cools, Snapshots, Locks, Answers, Moves,
             Supersedes, InvalidateEnd, Commits, CommitReset, DeleteUser, Tick,
             tokens
<1> QED BY <1>2, <1>3, <1>4

(* The step that marks a token used by a reset is the one that logs it.      *)
LEMMA EffectiveStep ==
  TypeOK /\ CarriedAreRows /\ UsedAreRows /\ ResetIsEffective /\ Steps
    => ResetIsEffective'
<1> SUFFICES ASSUME TypeOK, CarriedAreRows, UsedAreRows, ResetIsEffective, Steps
             PROVE  ResetIsEffective'
    OBVIOUS
<1> DEFINE Logged(t) == \E i \in DOMAIN log : log[i] = t
<1>1. RowsAge
      BY AgeStep
<1>2. ASSUME log' = log, deleted \subseteq deleted',
             \A t \in rows' : used'[t] = "reset" => t \in rows /\ used[t] = "reset"
      PROVE  ResetIsEffective'
      BY <1>1, <1>2 DEF ResetIsEffective, RowsAge
<1>3. ASSUME NEW r \in Request,
             \/ Ends(r) \/ Opens(r) \/ Reads(r) \/ Cools(r) \/ Snapshots(r)
             \/ Locks(r) \/ Answers(r)
      PROVE  ResetIsEffective'
      BY <1>2, <1>3
         DEF Ends, Opens, Reads, Cools, Snapshots, Locks, Answers, Moves, tokens
<1>4. ASSUME NEW r \in Request, Supersedes(r) PROVE ResetIsEffective'
      BY <1>2, <1>4 DEF Supersedes, InvalidateEnd, users, TypeOK
<1>5. ASSUME NEW r \in Request, Creates(r) PROVE ResetIsEffective'
      BY <1>2, <1>5 DEF Creates, CreateToken, users, UsedAreRows
<1>6. ASSUME NEW r \in Request, Commits(r) PROVE ResetIsEffective'
      <2> DEFINE t0 == req[r].tok
      <2>1. /\ rows' = rows /\ owner' = owner /\ deleted' = deleted
            /\ t0 \in Token /\ owner[t0] = req[r].user
            /\ \A t \in Token \ {t0} : used'[t] = used[t]
            BY <1>6 DEF Commits, CommitReset, TypeOK
      <2>2. CASE req[r].user \in deleted
            <3>1. log' = log
                  BY <1>6, <2>2 DEF Commits, CommitReset
            <3> QED BY <2>1, <2>2, <3>1 DEF ResetIsEffective, TypeOK
      <2>3. CASE req[r].user \notin deleted
            <3>1. log' = Append(log, t0) /\ log \in Seq(Token)
                  BY <1>6, <2>3 DEF Commits, CommitReset, TypeOK
            <3>2. /\ DOMAIN log' = 1..(Len(log) + 1) /\ Len(log) \in Nat
                  /\ DOMAIN log = 1..Len(log)
                  /\ log'[Len(log) + 1] = t0
                  /\ \A i \in 1..Len(log) : log'[i] = log[i]
                  BY <2>1, <3>1
            <3>3. \A t : Logged(t) \/ t = t0 => Logged(t)'
                  BY <3>2
            <3> QED BY <2>1, <3>3 DEF ResetIsEffective, TypeOK
      <2> QED BY <2>2, <2>3
<1>7. CASE \/ UNCHANGED <<now, deleted, log, tokens, req>>
           \/ \E u \in User : DeleteUser(u)
           \/ Tick
      BY <1>2, <1>7 DEF DeleteUser, Tick, tokens, users
<1> QED BY <1>3, <1>4, <1>5, <1>6, <1>7 DEF Steps

-----------------------------------------------------------------------------
LEMMA Invariance == Spec => []ResetInv
<1>1. ResetInv /\ [Next]_vars => ResetInv'
      BY NextSteps, AgeStep, CarriedStep, LockStep, SupersedingStep,
         CooldownStep, KnownStep, EffectiveStep
         DEF ResetInv
<1> QED BY InitInv, <1>1, PTL DEF Spec

(* Rows and requests are always of their types, whatever is deleted, expires *)
(* or is interrupted.                                                        *)
THEOREM TypeCorrect == Spec => []TypeOK
BY Invariance, PTL DEF ResetInv

(* What the request of a token found, one that was being used just then      *)
(* included, is at an end from the moment the token is there: two usable     *)
(* tokens of one user come from requests that overlapped.                    *)
THEOREM NewTokenSupersedes == Spec => []SupersedesEarlier
BY Invariance, PTL DEF ResetInv

(* A token is younger than those its request found by the cooldown or more,  *)
(* however long ago the request looked.                                      *)
THEOREM CooldownIsKept == Spec => []CooldownHolds
BY Invariance, PTL DEF ResetInv

(* A token spent on a reset has written a password, or its user is gone.     *)
THEOREM ResetTakesEffect == Spec => []ResetIsEffective
BY Invariance, PTL DEF ResetInv

-----------------------------------------------------------------------------
(* The refinement.                                                           *)
Live(t) == t \in rows /\ (Usable(t) \/ Locked(t))

LEMMA Retires ==
  ASSUME UNCHANGED <<rows, log>>, \A t \in Token : Live(t)' => Live(t)
  PROVE  OneTime!Next
<1> DEFINE T == {t \in Token : Live(t) /\ ~Live(t)'}
           st == [t \in Token |-> TokenState(t)]
<1>1. \A t \in T : st[t] = "live" /\ st'[t] = "dead"
      BY DEF TokenState, Live
<1>2. \A t \in Token \ T : st'[t] = st[t]
      BY DEF TokenState, Live
<1>3. st' = [t \in Token |-> IF t \in T THEN "dead" ELSE st[t]]
      BY <1>1, <1>2
<1>4. OneTime!Retire(T)
      BY <1>1, <1>3 DEF OneTime!Retire
<1> QED BY <1>4 DEF OneTime!Next

LEMMA InitRefines == Init => OneTime!Init
BY DEF Init, OneTime!Init, TokenState

LEMMA StepRefines == ResetInv /\ Steps => OneTime!Next
<1> SUFFICES ASSUME ResetInv, Steps
             PROVE  OneTime!Next
    OBVIOUS
<1>1. RowsAge
      BY AgeStep DEF ResetInv
<1>2. ASSUME NEW r \in Request, Others(r), req'[r].pc # "marked", NEW t \in Token,
             Locked(t)'
      PROVE  Locked(t)
      BY <1>2 DEF Others, Locked
<1>3. ASSUME NEW r \in Request,
             \/ Ends(r) \/ Opens(r) \/ Reads(r) \/ Cools(r) \/ Snapshots(r)
             \/ Answers(r)
      PROVE  OneTime!Next
      <2>1. /\ UNCHANGED <<rows, used, created, now, log>>
            /\ Others(r) /\ req'[r].pc # "marked"
            BY <1>3 DEF Ends, Opens, Reads, Cools, Snapshots, Answers, Moves,
                        Idle, tokens
      <2> QED BY <1>2, <2>1, Retires DEF Live, Usable, Expired
<1>4. ASSUME NEW r \in Request, Locks(r) PROVE OneTime!Next
      <2>1. UNCHANGED <<rows, used, created, now, log>>
            BY <1>4 DEF Locks, Moves, tokens
      <2>2. ASSUME NEW t \in Token, Locked(t)' PROVE Locked(t) \/ Usable(t)
            BY <1>4, <2>2 DEF Locks, Moves, Keeps, Others, Locked
      <2> QED BY <2>1, <2>2, Retires DEF Live, Usable, Expired
<1>5. ASSUME NEW r \in Request, Supersedes(r) PROVE OneTime!Next
      <2>1. /\ UNCHANGED <<rows, log>>
            /\ Others(r) /\ req'[r].pc # "marked"
            BY <1>5 DEF Supersedes, InvalidateEnd, users
      <2>2. \A t \in rows : Usable(t)' => Usable(t)
            BY <1>1 DEF RowsAge
      <2> QED BY <1>2, <2>1, <2>2, Retires DEF Live
<1>6. ASSUME NEW r \in Request, Creates(r) PROVE OneTime!Next
      <2> DEFINE st == [t \in Token |-> TokenState(t)]
      <2> PICK n \in Token \ rows : n = NewToken
          BY <1>6 DEF Creates
      <2>1. /\ rows' = rows \union {n}
            /\ created' = [created EXCEPT ![n] = now]
            /\ UNCHANGED <<now, used, log>>
            BY <1>6 DEF Creates, CreateToken, users
      <2>2. Usable(n)'
            <3>1. used'[n] = "unused"
                  BY <2>1 DEF ResetInv, UsedAreRows
            <3>2. created'[n] = now /\ now' = now /\ now \in Nat
                  BY <2>1 DEF ResetInv, TypeOK
            <3> QED BY <3>1, <3>2, ResetAssumption DEF Usable, Expired
      <2>3. \A t \in Token \ {n} : Usable(t)' <=> Usable(t)
            BY <2>1 DEF Usable, Expired, ResetInv, TypeOK
      <2>4. \A t \in Token : Locked(t)' <=> Locked(t)
            BY <1>6 DEF Creates, Others, Locked
      <2>5. st[n] = "unborn" /\ st'[n] = "live"
            BY <2>1, <2>2 DEF TokenState
      <2>6. \A t \in Token \ {n} : st'[t] = st[t]
            BY <2>1, <2>3, <2>4 DEF TokenState
      <2>7. st' = [st EXCEPT ![n] = "live"]
            BY <2>5, <2>6
      <2>8. OneTime!Issue(n)
            BY <2>1, <2>5, <2>7 DEF OneTime!Issue
      <2> QED BY <2>1, <2>8 DEF OneTime!Next
<1>7. ASSUME NEW r \in Request, Commits(r) PROVE OneTime!Next
      <2> DEFINE st == [t \in Token |-> TokenState(t)]
      <2> PICK t0 \in Token : t0 = req[r].tok
          BY <1>7 DEF Commits, ResetInv, TypeOK
      <2>1. /\ t0 \in rows /\ req[r].pc = "marked"
            /\ UNCHANGED <<rows, created, now>>
            /\ used' = [used EXCEPT ![t0] = "reset"]
            /\ Others(r) /\ req'[r].pc # "marked"
            BY <1>7 DEF Commits, CommitReset, Idle, ResetInv, TypeOK
      <2>2. Live(t0)
            BY <2>1 DEF Live, Locked
      <2>3. ~Live(t0)'
            <3>1. ~Usable(t0)'
                  BY <2>1 DEF Usable, ResetInv, TypeOK
            <3>2. ~Locked(t0)'
                  BY <2>1 DEF Locked, Others, ResetInv, LockIsExclusive
            <3> QED BY <3>1, <3>2 DEF Live
      <2>4. \A t \in Token \ {t0} : Live(t)' <=> Live(t)
            <3>1. \A t \in Token \ {t0} : Locked(t)' <=> Locked(t)
                  BY <2>1 DEF Locked, Others
            <3>2. \A t \in Token \ {t0} : Usable(t)' <=> Usable(t)
                  BY <2>1 DEF Usable, Expired, ResetInv, TypeOK
            <3> QED BY <2>1, <3>1, <3>2 DEF Live
      <2>5. CASE log' = log
            BY <2>1, <2>2, <2>4, <2>5, Retires
      <2>6. CASE log' = Append(log, t0)
            <3>1. st[t0] = "live" /\ st'[t0] = "dead"
                  BY <2>1, <2>2, <2>3 DEF TokenState, Live
            <3>2. \A t \in Token \ {t0} : st'[t] = st[t]
                  BY <2>1, <2>4 DEF TokenState, Live
            <3>3. st' = [st EXCEPT ![t0] = "dead"]
                  BY <3>1, <3>2
            <3>4. OneTime!Spend(t0)
                  BY <2>6, <3>1, <3>3 DEF OneTime!Spend
            <3> QED BY <2>1, <3>4 DEF OneTime!Next
      <2> QED BY <1>7, <2>5, <2>6 DEF Commits, CommitReset
<1>8. CASE \/ UNCHANGED <<now, deleted, log, tokens, req>>
           \/ \E u \in User : DeleteUser(u)
           \/ Tick
      <2>1. UNCHANGED <<rows, log, req>>
            BY <1>8 DEF DeleteUser, Tick, tokens, users
      <2>2. \A t \in rows : Usable(t)' => Usable(t)
            BY <1>1 DEF RowsAge
      <2> QED BY <2>1, <2>2, Retires DEF Live, Locked
<1> QED BY <1>3, <1>4, <1>5, <1>6, <1>7, <1>8 DEF Steps

(* However many resets, requests and expiries race, a token writes a         *)
(* password at most once, and only while it is neither replaced nor expired: *)
(* each step of PasswordReset issues, retires or spends tokens as            *)
(* OneTimeToken allows.                                                      *)
THEOREM ImplementsOneTimeToken == Spec => OneTimeSpec
<1>1. ResetInv /\ [Next]_vars => [OneTime!Next]_(OneTime!vars)
      BY NextSteps, StepRefines DEF ResetInv
<1> QED BY InitRefines, Invariance, <1>1, PTL DEF Spec, OneTimeSpec, OneTime!Spec
=============================================================================
