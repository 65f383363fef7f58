--------------------------- MODULE SessionsProofs ---------------------------
(***************************************************************************)
(* Proofs about Sessions, for any number of users, sessions and requests:  *)
(* the type invariant, one live session per family, rotation spends its    *)
(* parent, the refinement of TokenFamily, and a replay revokes what        *)
(* replaced the replayed session.                                          *)
(***************************************************************************)
EXTENDS Sessions, TLAPS

-----------------------------------------------------------------------------
(* The parts of the inductive invariant.                                     *)

(* A request that carries a session carries a committed row.                 *)
Carries == {"verified", "owned", "locked", "userRead", "authorized"}
TokensHaveRows ==
  \A r \in Request :
    /\ req[r].pc \in Carries => req[r].sid \in rows
    /\ req[r].pc = "responding" => req[r].new \in rows
    /\ req[r].pc = "revoking" => req[r].seen \subseteq rows

(* The row a rotation has locked stays unrevoked until the commit, and only  *)
(* one rotation has it.                                                      *)
LockedIsLive ==
  \A r \in Request : req[r].pc = "locked" => req[r].sid \notin revoked
LockIsExclusive ==
  \A q, r \in Request :
    req[q].pc = "locked" /\ req[r].pc = "locked" /\ req[q].sid = req[r].sid
      => q = r

(* A family is named by a row of its own.                                    *)
RootsAreRows ==
  \A s \in rows : root[s] \in rows /\ root[root[s]] = root[s]

FamilyInv == /\ TypeOK
             /\ TokensHaveRows
             /\ LockedIsLive
             /\ LockIsExclusive
             /\ RootsAreRows
             /\ OneLivePerFamily

-----------------------------------------------------------------------------
LEMMA NewIdIsUnused ==
  ASSUME rows # Session, rows \in SUBSET Session
  PROVE  NewId \in Session /\ NewId \notin rows
BY DEF NewId

(* Goto moves one request and keeps everything it carries.                   *)
LEMMA GotoFacts ==
  ASSUME req \in [Request -> RequestState],
         NEW r \in Request, NEW pc \in PC, Goto(r, pc)
  PROVE  /\ req' \in [Request -> RequestState]
         /\ req'[r].pc = pc /\ req'[r].sid = req[r].sid
         /\ req'[r].new = req[r].new /\ req'[r].seen = req[r].seen
         /\ \A q \in Request \ {r} : req'[q] = req[q]
BY DEF Goto, RequestState

(* Begin fills a slot, and an answered or failed request empties it.         *)
LEMMA BeginFacts ==
  ASSUME req \in [Request -> RequestState],
         NEW r \in Request, NEW op \in Op, NEW pc \in PC,
         NEW u \in User \union {NoUser}, NEW s \in Session \union {NoSession},
         Begin(r, op, pc, u, s)
  PROVE  /\ req' \in [Request -> RequestState]
         /\ req'[r].pc = pc /\ req'[r].sid = s
         /\ \A q \in Request \ {r} : req'[q] = req[q]
BY DEF Begin, RequestState, Idle

LEMMA IdleFacts ==
  ASSUME req \in [Request -> RequestState], NEW r \in Request,
         req' = [req EXCEPT ![r] = Idle]
  PROVE  /\ req' \in [Request -> RequestState]
         /\ req'[r].pc = "idle"
         /\ \A q \in Request \ {r} : req'[q] = req[q]
BY DEF RequestState, Idle, Op, PC

(* A step that leaves the tables alone and gives a request no more than it   *)
(* may carry keeps the invariant.                                            *)
LEMMA QuietStep ==
  ASSUME FamilyInv, NEW r \in Request,
         UNCHANGED <<tables, rows, revoked, age, held>>,
         req' \in [Request -> RequestState],
         \A q \in Request \ {r} : req'[q] = req[q],
         req'[r].pc \in Carries => req'[r].sid \in rows,
         req'[r].pc # "locked", req'[r].pc # "responding",
         req'[r].pc = "revoking" => req'[r].seen \subseteq rows
  PROVE  FamilyInv'
<1> USE DEF FamilyInv, tables
<1>1. TypeOK'
  BY DEF TypeOK
<1>2. TokensHaveRows'
  BY DEF TokensHaveRows
<1>3. LockedIsLive' /\ LockIsExclusive'
  BY DEF LockedIsLive, LockIsExclusive
<1>4. RootsAreRows' /\ OneLivePerFamily'
  BY DEF RootsAreRows, OneLivePerFamily
<1> QED
  BY <1>1, <1>2, <1>3, <1>4

(* A step that revokes unlocked rows, and moves a request to a point where   *)
(* it carries nothing.                                                       *)
LEMMA RevokingStep ==
  ASSUME FamilyInv, NEW r \in Request, NEW R \in SUBSET rows,
         \A s \in R : ~Locked(s),
         revoked' = revoked \union R,
         UNCHANGED <<tables, rows, age, held>>,
         req' \in [Request -> RequestState],
         \A q \in Request \ {r} : req'[q] = req[q],
         req'[r].pc \in {"closing", "revokedAll"}
  PROVE  FamilyInv'
<1> USE DEF FamilyInv, tables
<1>1. TypeOK'
  BY DEF TypeOK
<1>2. TokensHaveRows'
  BY DEF TokensHaveRows, Carries
<1>3. LockedIsLive' /\ LockIsExclusive'
  BY DEF LockedIsLive, LockIsExclusive, Locked
<1>4. RootsAreRows' /\ OneLivePerFamily'
  BY DEF RootsAreRows, OneLivePerFamily
<1> QED
  BY <1>1, <1>2, <1>3, <1>4

(* The new row's request, when it is answering, carries the new row.         *)
LEMMA InsertFacts ==
  ASSUME TypeOK, NEW r \in Request,
         NEW p \in Session \union {NoSession}, NEW f \in Session,
         Insert(r, p, f)
  PROVE  /\ NewId \in Session \ rows
         /\ rows' = rows \union {NewId}
         /\ owner' \in [Session -> User \union {NoUser}]
         /\ parent' \in [Session -> Session \union {NoSession}]
         /\ parent'[NewId] = p
         /\ root' \in [Session -> Session \union {NoSession}]
         /\ root'[NewId] = f
         /\ \A s \in rows : root'[s] = root[s] /\ parent'[s] = parent[s]
         /\ req' \in [Request -> RequestState]
         /\ req'[r].pc = "responding" /\ req'[r].new = NewId
         /\ \A q \in Request \ {r} : req'[q] = req[q]
<1>1. NewId \in Session \ rows
  BY NewIdIsUnused DEF Insert, TypeOK
<1>2. req[r] \in RequestState
  BY DEF TypeOK
<1>3. /\ req' \in [Request -> RequestState]
      /\ req'[r].pc = "responding" /\ req'[r].new = NewId
      /\ \A q \in Request \ {r} : req'[q] = req[q]
  BY <1>1, <1>2 DEF Insert, TypeOK, RequestState, PC
<1>4. req[r].user \in User \union {NoUser}
  BY <1>2 DEF RequestState
<1> QED
  BY <1>1, <1>3, <1>4 DEF Insert, TypeOK

LEMMA LoginInsertStep ==
  ASSUME FamilyInv, NEW r \in Request, LoginInsert(r)
  PROVE  FamilyInv'
<1> USE DEF FamilyInv
<1>1. Insert(r, NoSession, NewId) /\ UNCHANGED <<status, revoked, age, held>>
  BY DEF LoginInsert
<1>2. NewId \in Session
  BY <1>1, NewIdIsUnused DEF Insert, TypeOK
<1> HIDE DEF FamilyInv
<1>3. /\ NewId \in Session \ rows
      /\ rows' = rows \union {NewId}
      /\ owner' \in [Session -> User \union {NoUser}]
      /\ parent' \in [Session -> Session \union {NoSession}]
      /\ root' \in [Session -> Session \union {NoSession}]
      /\ root'[NewId] = NewId
      /\ \A s \in rows : root'[s] = root[s]
      /\ req' \in [Request -> RequestState]
      /\ req'[r].pc = "responding" /\ req'[r].new = NewId
      /\ \A q \in Request \ {r} : req'[q] = req[q]
  BY <1>1, <1>2, InsertFacts DEF FamilyInv
<1> USE DEF FamilyInv
<1>4. TypeOK'
  BY <1>1, <1>3 DEF TypeOK
<1>5. TokensHaveRows'
  BY <1>3 DEF TokensHaveRows, Carries
<1>6. LockedIsLive' /\ LockIsExclusive'
  BY <1>1, <1>3 DEF LockedIsLive, LockIsExclusive
<1>7. RootsAreRows'
  BY <1>3 DEF RootsAreRows
<1>8. OneLivePerFamily'
  <2>1. \A s \in rows : root'[s] # NewId
    BY <1>3 DEF RootsAreRows
  <2> QED
    BY <1>1, <1>3, <2>1 DEF OneLivePerFamily
<1> QED
  BY <1>4, <1>5, <1>6, <1>7, <1>8

LEMMA RotateCommitStep ==
  ASSUME FamilyInv, NEW r \in Request, RotateCommit(r)
  PROVE  FamilyInv'
<1> DEFINE s0 == req[r].sid
<1>0. s0 \in rows \ revoked /\ s0 \in Session /\ root[s0] \in rows
      /\ root[s0] \in Session /\ root[root[s0]] = root[s0]
  BY DEF RotateCommit, FamilyInv, TypeOK, TokensHaveRows, LockedIsLive,
         RootsAreRows, Carries
<1>1. /\ Insert(r, s0, root[s0])
      /\ revoked' = revoked \union {s0}
      /\ req[r].pc = "locked"
      /\ UNCHANGED <<status, age, held>>
  BY DEF RotateCommit
<1> HIDE DEF s0
<1>3. /\ NewId \in Session \ rows
      /\ rows' = rows \union {NewId}
      /\ owner' \in [Session -> User \union {NoUser}]
      /\ parent' \in [Session -> Session \union {NoSession}]
      /\ root' \in [Session -> Session \union {NoSession}]
      /\ root'[NewId] = root[s0]
      /\ \A s \in rows : root'[s] = root[s]
      /\ req' \in [Request -> RequestState]
      /\ req'[r].pc = "responding" /\ req'[r].new = NewId
      /\ \A q \in Request \ {r} : req'[q] = req[q]
  BY <1>0, <1>1, InsertFacts DEF FamilyInv
<1> USE DEF FamilyInv
<1>4. TypeOK'
  BY <1>0, <1>1, <1>3 DEF TypeOK
<1>5. TokensHaveRows'
  BY <1>3 DEF TokensHaveRows, Carries
<1>6. LockedIsLive' /\ LockIsExclusive'
  <2>1. \A q \in Request \ {r} : req[q].pc = "locked" => req[q].sid # s0
    BY <1>1 DEF LockIsExclusive, s0
  <2> QED
    BY <1>1, <1>3, <2>1 DEF LockedIsLive, LockIsExclusive
<1>7. RootsAreRows'
  BY <1>0, <1>3 DEF RootsAreRows
<1>8. OneLivePerFamily'
  <2>1. \A s \in rows \ revoked' : root[s] # root[s0]
    BY <1>0, <1>1 DEF OneLivePerFamily
  <2> QED
    BY <1>1, <1>3, <2>1 DEF OneLivePerFamily
<1> QED
  BY <1>4, <1>5, <1>6, <1>7, <1>8

(* The other steps of a request in flight.                                   *)
LEMMA ContinueStep ==
  ASSUME FamilyInv, NEW r \in Request, Continue(r)
  PROVE  FamilyInv'
<1>0. /\ req \in [Request -> RequestState]
      /\ rows \in SUBSET Session
      /\ req[r].pc \in Carries => req[r].sid \in rows
      /\ req[r].pc = "responding" => req[r].new \in rows
      /\ req[r].pc = "revoking" => req[r].seen \subseteq rows
  BY DEF FamilyInv, TypeOK, TokensHaveRows
<1>1. CASE LoginInsert(r)
  BY <1>1, LoginInsertStep
<1>2. CASE RotateCommit(r)
  BY <1>2, RotateCommitStep
<1>3. CASE Respond(r)
  <2>1. /\ req' \in [Request -> RequestState]
        /\ req'[r].pc = "idle"
        /\ \A q \in Request \ {r} : req'[q] = req[q]
    BY <1>0, <1>3, IdleFacts DEF Respond
  <2>2. TypeOK'
    BY <1>0, <1>3, <2>1 DEF Respond, FamilyInv, TypeOK, tables
  <2>3. TokensHaveRows'
    BY <1>3, <2>1 DEF Respond, FamilyInv, TokensHaveRows, Carries
  <2>4. LockedIsLive' /\ LockIsExclusive'
    BY <1>3, <2>1 DEF Respond, FamilyInv, LockedIsLive, LockIsExclusive
  <2>5. RootsAreRows' /\ OneLivePerFamily'
    BY <1>3 DEF Respond, FamilyInv, RootsAreRows, OneLivePerFamily, tables
  <2> QED
    BY <2>2, <2>3, <2>4, <2>5 DEF FamilyInv
<1>4. CASE RefreshOwnership(r)
  <2>1. PICK pc \in {"owned", "revokeAll"} : Goto(r, pc)
    BY <1>4 DEF RefreshOwnership
  <2>2. pc \in PC
    BY DEF PC
  <2> QED
    BY <1>0, <1>4, <2>1, <2>2, GotoFacts, QuietStep
    DEF RefreshOwnership, Carries
<1>5. CASE RotateRevoke(r)
  <2>1. CASE ~Rotatable(req[r].sid) /\ Goto(r, "revokeAll")
    BY <1>0, <1>5, <2>1, GotoFacts, QuietStep
    DEF RotateRevoke, Carries, PC
  <2>2. CASE Rotatable(req[r].sid) /\ Goto(r, "locked")
    <3>1. /\ req' \in [Request -> RequestState]
          /\ req'[r].pc = "locked" /\ req'[r].sid = req[r].sid
          /\ \A q \in Request \ {r} : req'[q] = req[q]
      BY <1>0, <2>2, GotoFacts DEF PC
    <3>2. TypeOK'
      BY <1>5, <3>1 DEF RotateRevoke, FamilyInv, TypeOK, tables
    <3>3. TokensHaveRows'
      BY <1>0, <1>5, <3>1
      DEF RotateRevoke, FamilyInv, TokensHaveRows, Carries
    <3>4. LockedIsLive'
      BY <1>5, <2>2, <3>1 DEF RotateRevoke, FamilyInv, LockedIsLive, Rotatable
    <3>5. LockIsExclusive'
      BY <1>5, <3>1 DEF RotateRevoke, FamilyInv, LockIsExclusive, Locked
    <3>6. RootsAreRows' /\ OneLivePerFamily'
      BY <1>5 DEF RotateRevoke, FamilyInv, RootsAreRows, OneLivePerFamily,
                  tables
    <3> QED
      BY <3>2, <3>3, <3>4, <3>5, <3>6 DEF FamilyInv
  <2> QED
    BY <1>5, <2>1, <2>2 DEF RotateRevoke
<1>6. CASE AuthSession(r)
  <2>1. CASE req' = [req EXCEPT ![r] = Idle]
    BY <1>0, <1>6, <2>1, IdleFacts, QuietStep DEF AuthSession, Carries
  <2>2. CASE Goto(r, IF req[r].op = "logout" THEN "authorized"
                                             ELSE "revokeAll")
    <3>1. PICK pc \in {"authorized", "revokeAll"} : Goto(r, pc)
      BY <2>2
    <3>2. pc \in PC
      BY DEF PC
    <3> QED
      BY <1>0, <1>6, <3>1, <3>2, GotoFacts, QuietStep
      DEF AuthSession, Carries
  <2> QED
    BY <1>6, <2>1, <2>2 DEF AuthSession
<1>7. CASE Logout(r)
  <2>1. {req[r].sid} \subseteq rows
    BY <1>0, <1>7 DEF Logout, Carries
  <2>2. \A s \in {req[r].sid} : ~Locked(s)
    BY <1>7 DEF Logout
  <2>3. /\ req' \in [Request -> RequestState]
        /\ req'[r].pc = "closing"
        /\ \A q \in Request \ {r} : req'[q] = req[q]
    BY <1>0, <1>7, GotoFacts DEF Logout, PC
  <2>4. /\ revoked' = revoked \union {req[r].sid}
        /\ UNCHANGED <<tables, rows, age, held>>
    BY <1>7 DEF Logout
  <2> DEFINE R == {req[r].sid}
  <2>5. R \in SUBSET rows /\ revoked' = revoked \union R
    BY <2>1, <2>4
  <2>6. \A s \in R : ~Locked(s)
    BY <2>2
  <2>7. req'[r].pc \in {"closing", "revokedAll"}
    BY <2>3
  <2> HIDE DEF R
  <2> QED
    BY <2>3, <2>4, <2>5, <2>6, <2>7, RevokingStep
<1>8. CASE RevokeAllBegin(r)
  <2> DEFINE S == RevokedBy(r)
  <2>1. req' = [req EXCEPT ![r].pc = "revoking", ![r].seen = S]
    BY <1>8 DEF RevokeAllBegin
  <2>2. S \subseteq rows /\ S \subseteq Session
    BY <1>0 DEF RevokedBy
  <2> HIDE DEF S
  <2>3. /\ req' \in [Request -> RequestState]
        /\ req'[r].pc = "revoking" /\ req'[r].seen = S
        /\ \A q \in Request \ {r} : req'[q] = req[q]
    BY <1>0, <2>1, <2>2 DEF RequestState, PC
  <2> QED
    BY <1>8, <2>2, <2>3, QuietStep DEF RevokeAllBegin, Carries
<1>9. CASE RevokeAllEnd(r)
  <2>1. "revokedAll" \in PC
    BY DEF PC
  <2> QED
    BY <1>0, <1>9, <2>1, GotoFacts, RevokingStep DEF RevokeAllEnd
<1>10. CASE Answer(r)
  BY <1>0, <1>10, IdleFacts, QuietStep DEF Answer, Carries
<1> QED
  BY <1>1, <1>2, <1>3, <1>4, <1>5, <1>6, <1>7, <1>8, <1>9, <1>10
  DEF Continue

LEMMA FamilyInit == Init => FamilyInv
BY DEF Init, FamilyInv, TypeOK, TokensHaveRows, LockedIsLive,
       LockIsExclusive, RootsAreRows, OneLivePerFamily, Status, Age,
       Idle, RequestState, Op, PC, Carries

LEMMA FamilyNext == FamilyInv /\ [Next]_vars => FamilyInv'
<1> SUFFICES ASSUME FamilyInv, [Next]_vars PROVE FamilyInv'
  OBVIOUS
<1>0. /\ req \in [Request -> RequestState]
      /\ owner \in [Session -> User \union {NoUser}]
      /\ held \subseteq rows
  BY DEF FamilyInv, TypeOK
<1>1. ASSUME NEW r \in Request, NEW u \in User, LoginVerify(r, u)
      PROVE  FamilyInv'
  BY <1>0, <1>1, BeginFacts, QuietStep DEF LoginVerify, Carries, Op, PC
<1>2. ASSUME NEW r \in Request, NEW u \in User, ResetPassword(r, u)
      PROVE  FamilyInv'
  BY <1>0, <1>2, BeginFacts, QuietStep DEF ResetPassword, Carries, Op, PC
<1>3. ASSUME NEW r \in Request, NEW s \in Session, RefreshVerify(r, s)
      PROVE  FamilyInv'
  <2>1. owner[s] \in User \union {NoUser} /\ s \in rows
    BY <1>0, <1>3 DEF RefreshVerify
  <2> QED
    BY <1>0, <1>3, <2>1, BeginFacts, QuietStep
    DEF RefreshVerify, Carries, Op, PC
<1>4. ASSUME NEW r \in Request, NEW s \in Session, NEW op \in Op,
             AuthUser(r, s, op)
      PROVE  FamilyInv'
  <2>1. owner[s] \in User \union {NoUser} /\ s \in rows
    BY <1>0, <1>4 DEF AuthUser
  <2>2. /\ req' \in [Request -> RequestState]
        /\ req'[r].pc = "userRead" /\ req'[r].sid = s
        /\ \A q \in Request \ {r} : req'[q] = req[q]
    BY <1>0, <1>4, <2>1, BeginFacts DEF AuthUser, PC
  <2> QED
    BY <1>4, <2>1, <2>2, QuietStep DEF AuthUser, Carries
<1>5. ASSUME NEW r \in Request, Fail(r)
      PROVE  FamilyInv'
  BY <1>0, <1>5, IdleFacts, QuietStep DEF Fail, Carries
<1>6. ASSUME NEW u \in User, NEW st \in Status, SetStatus(u, st)
      PROVE  FamilyInv'
  BY <1>6 DEF SetStatus, FamilyInv, TypeOK, TokensHaveRows, LockedIsLive,
              LockIsExclusive, RootsAreRows, OneLivePerFamily
<1>7. ASSUME NEW s \in Session, GrowOld(s)
      PROVE  FamilyInv'
  <2>1. age' \in [Session -> Age]
    BY <1>7 DEF GrowOld, FamilyInv, TypeOK, Age
  <2> QED
    BY <1>7, <2>1
    DEF GrowOld, tables, FamilyInv, TypeOK, TokensHaveRows, LockedIsLive,
        LockIsExclusive, RootsAreRows, OneLivePerFamily
<1>8. CASE UNCHANGED vars
  BY <1>8 DEF vars, FamilyInv, TypeOK, TokensHaveRows, LockedIsLive,
              LockIsExclusive, RootsAreRows, OneLivePerFamily
<1> QED
  BY <1>1, <1>2, <1>3, <1>4, <1>5, <1>6, <1>7, <1>8, ContinueStep DEF Next

LEMMA FamilyInvariant == Spec => []FamilyInv
BY FamilyInit, FamilyNext, PTL DEF Spec

(* Every variable keeps its type in every behaviour of the session store.    *)
THEOREM TypeCorrect == Spec => []TypeOK
<1>1. FamilyInv => TypeOK
  BY DEF FamilyInv
<1> QED
  BY <1>1, FamilyInvariant, PTL

(* However requests interleave and fail, one login never has two usable      *)
(* sessions (SessionRepository.revokeSessionChain).                          *)
THEOREM OneLive == Spec => []OneLivePerFamily
<1>1. FamilyInv => OneLivePerFamily
  BY DEF FamilyInv
<1> QED
  BY <1>1, FamilyInvariant, PTL

-----------------------------------------------------------------------------
(* A row is only ever inserted by a login or by the commit of a rotation.    *)
LEMMA RowsGrow ==
  ASSUME [Next]_vars, rows' # rows
  PROVE  \E r \in Request : LoginInsert(r) \/ RotateCommit(r)
BY DEF Next, Continue, vars, LoginVerify, ResetPassword, RefreshVerify,
       AuthUser, Respond, RefreshOwnership, RotateRevoke, AuthSession,
       Logout, RevokeAllBegin, RevokeAllEnd, Answer, Fail, SetStatus, GrowOld

(* A session is rotated at most once, and only in the step that revokes it   *)
(* (the revokedAt condition of revokeSessionChain's updateMany).             *)
THEOREM RotationSpends == Spec => RotationSpendsItsParent
<1> DEFINE Spends == \A s \in rows' \ rows :
                       parent'[s] # NoSession =>
                         parent'[s] \in revoked' \ revoked
<1>1. FamilyInv /\ [Next]_vars => [Spends]_vars
  <2> SUFFICES ASSUME FamilyInv, [Next]_vars, rows' # rows PROVE Spends
    OBVIOUS
  <2>1. PICK r \in Request : LoginInsert(r) \/ RotateCommit(r)
    BY RowsGrow
  <2>2. CASE LoginInsert(r)
    <3>1. NewId \in Session
      BY <2>2, NewIdIsUnused DEF LoginInsert, Insert, FamilyInv, TypeOK
    <3>2. rows' = rows \union {NewId} /\ parent'[NewId] = NoSession
      BY <2>2, <3>1, InsertFacts DEF LoginInsert, FamilyInv
    <3> QED
      BY <3>2
  <2>3. CASE RotateCommit(r)
    <3>1. /\ req[r].sid \in rows \ revoked
          /\ req[r].sid \in Session
          /\ root[req[r].sid] \in Session
      BY <2>3 DEF RotateCommit, FamilyInv, TypeOK, TokensHaveRows,
                  LockedIsLive, RootsAreRows, Carries
    <3>2. rows' = rows \union {NewId} /\ parent'[NewId] = req[r].sid
      BY <2>3, <3>1, InsertFacts DEF RotateCommit, FamilyInv
    <3> QED
      BY <2>3, <3>1, <3>2 DEF RotateCommit
  <2> QED
    BY <2>1, <2>2, <2>3
<1> QED
  BY <1>1, FamilyInvariant, PTL DEF Spec, RotationSpendsItsParent

-----------------------------------------------------------------------------
(* The refinement mapping, read under the invariant.                         *)
LEMMA HeadFacts ==
  ASSUME FamilyInv
  PROVE  /\ \A f \in Session :
              f \notin rows \/ root[f] # f => FamilyHead(f) = Unborn
         /\ \A s \in rows \ revoked : FamilyHead(root[s]) = s
         /\ \A f \in rows : root[f] = f /\ Live(f) = {}
                              => FamilyHead(f) = Dead
<1>1. ASSUME NEW s \in rows \ revoked PROVE FamilyHead(root[s]) = s
  <2>1. root[s] \in rows /\ root[root[s]] = root[s]
    BY DEF FamilyInv, RootsAreRows
  <2>2. Live(root[s]) = {s}
    BY DEF FamilyInv, OneLivePerFamily, Live
  <2> QED
    BY <2>1, <2>2 DEF FamilyHead
<1> QED
  BY <1>1 DEF FamilyHead

(* Revoking any rows kills the families they were heads of.                  *)
LEMMA RevokingKills ==
  ASSUME FamilyInv, FamilyInv', NEW R \in SUBSET rows,
         revoked' = revoked \union R, rows' = rows, root' = root
  PROVE  Family!Next
<1> DEFINE F == {root[s] : s \in R \ revoked}
           h == [f \in Session |-> FamilyHead(f)]
<1>1. /\ rows \in SUBSET Session
      /\ \A s \in rows : root[s] \in rows /\ root[root[s]] = root[s]
  BY DEF FamilyInv, TypeOK, RootsAreRows
<1>2. F \in SUBSET Session
  BY <1>1
<1>3. F \subseteq {f \in Session : h[f] \notin {Unborn, Dead}}
  BY <1>1, <1>2, HeadFacts, FamilyAssumption
<1>4. ASSUME NEW f \in Session
      PROVE  FamilyHead(f)' = IF f \in F THEN Dead ELSE FamilyHead(f)
  <2>1. CASE f \in F
    <3>1. PICK s \in R \ revoked : f = root[s]
      BY <2>1
    <3>2. Live(f) = {s}
      BY <3>1 DEF FamilyInv, OneLivePerFamily, Live
    <3>3. Live(f)' = {}
      BY <3>1, <3>2 DEF Live
    <3>4. f \in rows /\ root[f] = f
      BY <1>1, <3>1
    <3> QED
      BY <2>1, <3>3, <3>4 DEF FamilyHead
  <2>2. CASE f \notin F
    <3>1. Live(f)' = Live(f)
      BY <2>2 DEF Live
    <3> QED
      BY <2>2, <3>1 DEF FamilyHead
  <2> QED
    BY <2>1, <2>2
<1>5. Family!Kill(F)
  BY <1>3, <1>4 DEF Family!Kill, Family!LiveFamily
<1> QED
  BY <1>2, <1>5 DEF Family!Next

LEMMA LoginOpens ==
  ASSUME FamilyInv, FamilyInv', NEW r \in Request, LoginInsert(r)
  PROVE  Family!Next
<1>1. NewId \in Session
  BY NewIdIsUnused DEF LoginInsert, Insert, FamilyInv, TypeOK
<1>2. /\ NewId \in Session \ rows
      /\ rows' = rows \union {NewId}
      /\ root'[NewId] = NewId
      /\ \A s \in rows : root'[s] = root[s]
  BY <1>1, InsertFacts DEF LoginInsert, FamilyInv
<1>3. revoked' = revoked /\ revoked \subseteq rows
  BY DEF LoginInsert, FamilyInv, TypeOK
<1>4. ASSUME NEW f \in Session
      PROVE  FamilyHead(f)' = IF f = NewId THEN NewId ELSE FamilyHead(f)
  <2>1. CASE f = NewId
    <3>1. NewId \in rows' \ revoked'
      BY <1>2, <1>3
    <3>2. Live(f)' = {NewId}
      BY <1>2, <1>3, <3>1, <2>1
      DEF Live, FamilyInv, OneLivePerFamily
    <3> QED
      BY <1>2, <2>1, <3>2 DEF FamilyHead
  <2>2. CASE f # NewId
    <3>1. Live(f)' = Live(f)
      BY <1>2, <1>3, <2>2 DEF Live
    <3>2. f \in rows' <=> f \in rows
      BY <1>2, <2>2
    <3> QED
      BY <1>2, <2>2, <3>1, <3>2 DEF FamilyHead
  <2> QED
    BY <2>1, <2>2
<1>5. Family!Open(NewId)
  BY <1>2, <1>4 DEF Family!Open
<1> QED
  BY <1>1, <1>5 DEF Family!Next

LEMMA CommitRotates ==
  ASSUME FamilyInv, FamilyInv', NEW r \in Request, RotateCommit(r)
  PROVE  Family!Next
<1>0. PICK s0 \in Session, f0 \in Session :
        /\ s0 = req[r].sid /\ f0 = root[s0]
        /\ s0 \in rows \ revoked /\ f0 \in rows /\ root[f0] = f0
  BY DEF RotateCommit, FamilyInv, TypeOK, TokensHaveRows, LockedIsLive,
         RootsAreRows, Carries
<1>1. /\ s0 \in rows \ revoked /\ s0 \in Session
      /\ f0 \in rows /\ f0 \in Session /\ root[f0] = f0 /\ f0 = root[s0]
  BY <1>0
<1>2. /\ Insert(r, s0, f0)
      /\ revoked' = revoked \union {s0}
  BY <1>0 DEF RotateCommit
<1>3. revoked \subseteq rows
  BY DEF FamilyInv, TypeOK
<1>4. /\ NewId \in Session \ rows
      /\ rows' = rows \union {NewId}
      /\ root'[NewId] = f0
      /\ \A s \in rows : root'[s] = root[s]
  BY <1>1, <1>2, InsertFacts DEF FamilyInv
<1>5. FamilyHead(f0) = s0
  BY <1>1, HeadFacts
<1>6. FamilyHead(f0)' = NewId
  <2>1. NewId \in rows' \ revoked'
    BY <1>1, <1>2, <1>3, <1>4
  <2>2. Live(f0)' = {NewId}
    BY <1>4, <2>1 DEF Live, FamilyInv, OneLivePerFamily, TypeOK
  <2> QED
    BY <1>1, <1>4, <2>2 DEF FamilyHead
<1>7. ASSUME NEW f \in Session, f # f0
      PROVE  FamilyHead(f)' = FamilyHead(f)
  <2>1. CASE f = NewId
    BY <1>1, <1>4, <1>7, <2>1 DEF FamilyHead
  <2>2. CASE f # NewId
    <3>1. Live(f)' = Live(f)
      BY <1>1, <1>2, <1>4, <1>7, <2>2 DEF Live
    <3>2. f \in rows' <=> f \in rows
      BY <1>4, <2>2
    <3> QED
      BY <1>4, <3>1, <3>2 DEF FamilyHead
  <2> QED
    BY <2>1, <2>2
<1>8. FamilyHead(f0) \notin {Unborn, Dead}
  BY <1>1, <1>5, FamilyAssumption
<1>9. Family!Rotate(f0, NewId)
  BY <1>1, <1>4, <1>6, <1>7, <1>8 DEF Family!Rotate, Family!LiveFamily
<1> QED
  BY <1>1, <1>4, <1>9 DEF Family!Next

(* The other steps create and revoke no session.                             *)
LEMMA QuietOrRevoking ==
  ASSUME FamilyInv, [Next]_vars,
         ~ \E r \in Request : LoginInsert(r) \/ RotateCommit(r)
  PROVE  /\ rows' = rows /\ root' = root
         /\ \E R \in SUBSET rows : revoked' = revoked \union R
<1>1. rows' = rows /\ root' = root
  BY DEF Next, Continue, vars, tables, LoginVerify, ResetPassword,
         RefreshVerify, AuthUser, Respond, RefreshOwnership, RotateRevoke,
         AuthSession, Logout, RevokeAllBegin, RevokeAllEnd, Answer, Fail,
         SetStatus, GrowOld
<1>2. \/ revoked' = revoked
      \/ \E r \in Request : Logout(r) \/ RevokeAllEnd(r)
  BY DEF Next, Continue, vars, LoginVerify, ResetPassword,
         RefreshVerify, AuthUser, Respond, RefreshOwnership, RotateRevoke,
         AuthSession, RevokeAllBegin, Answer, Fail, SetStatus, GrowOld
<1>3. CASE revoked' = revoked
  <2>1. revoked' = revoked \union {} /\ {} \in SUBSET rows
    BY <1>3
  <2> QED
    BY <1>1, <2>1
<1>4. ASSUME NEW r \in Request, Logout(r)
      PROVE  \E R \in SUBSET rows : revoked' = revoked \union R
  <2>1. {req[r].sid} \in SUBSET rows
    BY <1>4 DEF Logout, FamilyInv, TokensHaveRows, Carries
  <2>2. revoked' = revoked \union {req[r].sid}
    BY <1>4 DEF Logout
  <2> QED
    BY <2>1, <2>2
<1>5. ASSUME NEW r \in Request, RevokeAllEnd(r)
      PROVE  \E R \in SUBSET rows : revoked' = revoked \union R
  BY <1>5 DEF RevokeAllEnd, FamilyInv, TokensHaveRows
<1> QED
  BY <1>1, <1>2, <1>3, <1>4, <1>5

(* The session store implements TokenFamily: a login opens a family, the     *)
(* commit of a rotation moves its head to a session never used before, and   *)
(* every other write kills families or changes nothing a family shows.       *)
THEOREM ImplementsTokenFamily == Spec => FamilySpec
<1>1. Init => Family!Init
  <2> SUFFICES ASSUME Init PROVE Family!Init
    OBVIOUS
  <2>1. \A f \in Session : FamilyHead(f) = Unborn
    BY DEF Init, FamilyHead
  <2> QED
    BY <2>1 DEF Init, Family!Init
<1>2. FamilyInv /\ FamilyInv' /\ [Next]_vars => [Family!Next]_Family!vars
  <2> SUFFICES ASSUME FamilyInv, FamilyInv', [Next]_vars
               PROVE  Family!Next
    OBVIOUS
  <2>1. CASE \E r \in Request : LoginInsert(r) \/ RotateCommit(r)
    BY <2>1, LoginOpens, CommitRotates
  <2>2. CASE ~ \E r \in Request : LoginInsert(r) \/ RotateCommit(r)
    <3>1. PICK R \in SUBSET rows : revoked' = revoked \union R
      BY <2>2, QuietOrRevoking
    <3>2. rows' = rows /\ root' = root
      BY <2>2, QuietOrRevoking
    <3> QED
      BY <3>1, <3>2, RevokingKills
  <2> QED
    BY <2>1, <2>2
<1> QED
  BY <1>1, <1>2, FamilyInvariant, PTL DEF Spec, FamilySpec, Family!Spec

-----------------------------------------------------------------------------
(* What a replay's revokeAll relies on besides FamilyInv: a session belongs  *)
(* to the user of the one it was rotated from, and a refresh to the user of  *)
(* its session.                                                              *)
ParentsOwn ==
  \A s \in rows : parent[s] # NoSession =>
    parent[s] \in rows /\ owner[s] = owner[parent[s]]

RefreshOwns ==
  \A r \in Request :
    /\ req[r].op = "refresh" =>
         req[r].sid \in rows /\ owner[req[r].sid] = req[r].user
    /\ req[r].pc \in {"verified", "owned", "locked"} => req[r].op = "refresh"

(* A refresh is on its way to say "replay", and its session was spent when   *)
(* revokeAll looked.                                                         *)
Replays(r, pc) ==
  req[r].op = "refresh" /\ req[r].pc = pc /\ req[r].sid \notin req[r].seen

(* Session s is spent, and those rotated from it are revoked or in S.        *)
Spent(s, S) ==
  /\ s \in revoked
  /\ \A t \in rows : parent[t] = s => t \in revoked \union S

ReplayInv ==
  /\ ParentsOwn
  /\ RefreshOwns
  /\ \A r \in Request :
       /\ Replays(r, "revoking") => Spent(req[r].sid, req[r].seen)
       /\ Replays(r, "revokedAll") => Spent(req[r].sid, {})

-----------------------------------------------------------------------------
(* A step that inserts no row, revokes some or none, and moves one request.  *)
LEMMA ReplayFrame ==
  ASSUME ReplayInv, NEW r \in Request,
         rows' = rows, owner' = owner, parent' = parent,
         revoked \subseteq revoked',
         \A q \in Request \ {r} : req'[q] = req[q],
         req'[r].op = "refresh" =>
           req'[r].sid \in rows /\ owner[req'[r].sid] = req'[r].user,
         req'[r].pc \in {"verified", "owned", "locked"} =>
           req'[r].op = "refresh",
         Replays(r, "revoking")' => Spent(req[r].sid, req[r].seen)',
         Replays(r, "revokedAll")' => Spent(req[r].sid, {})'
  PROVE  ReplayInv'
<1>1. ParentsOwn' /\ RefreshOwns'
  BY DEF ReplayInv, ParentsOwn, RefreshOwns
<1>2. ASSUME NEW q \in Request \ {r}
      PROVE  /\ Replays(q, "revoking")' => Spent(req[q].sid, req[q].seen)'
             /\ Replays(q, "revokedAll")' => Spent(req[q].sid, {})'
  <2>1. req'[q] = req[q]
    BY <1>2
  <2> QED
    BY <1>2, <2>1 DEF ReplayInv, Replays, Spent
<1> QED
  BY <1>1, <1>2 DEF ReplayInv

(* A row that appears is a login's, or rotated from a session that was not   *)
(* revoked: never from one whose replay is being answered.                   *)
LEMMA ReplayInsert ==
  ASSUME FamilyInv, ReplayInv, NEW r \in Request,
         LoginInsert(r) \/ RotateCommit(r)
  PROVE  ReplayInv'
<1> DEFINE s0 == IF req[r].pc = "locked" THEN req[r].sid ELSE NoSession
<1>1. /\ s0 # NoSession => /\ s0 \in rows \ revoked
                           /\ owner[s0] = req[r].user
      /\ revoked' = revoked \union ({s0} \ {NoSession})
  BY SessionsAssumption
  DEF LoginInsert, RotateCommit, FamilyInv, TypeOK, TokensHaveRows,
      LockedIsLive, ReplayInv, RefreshOwns, Carries
<1>2. /\ NewId \in Session \ rows
      /\ rows' = rows \union {NewId}
      /\ owner'[NewId] = req[r].user
      /\ parent'[NewId] = s0
      /\ \A s \in rows : parent'[s] = parent[s] /\ owner'[s] = owner[s]
      /\ req'[r].pc = "responding" /\ req'[r].op = req[r].op
      /\ req'[r].sid = req[r].sid /\ req'[r].user = req[r].user
      /\ \A q \in Request \ {r} : req'[q] = req[q]
  <2>1. NewId \in Session \ rows
    BY NewIdIsUnused DEF LoginInsert, RotateCommit, Insert, FamilyInv, TypeOK
  <2>2. PICK f : Insert(r, s0, f)
    BY DEF LoginInsert, RotateCommit
  <2>3. /\ owner \in [Session -> User \union {NoUser}]
        /\ parent \in [Session -> Session \union {NoSession}]
        /\ req \in [Request -> RequestState]
        /\ rows \subseteq Session
    BY DEF FamilyInv, TypeOK
  <2> HIDE DEF s0
  <2> QED
    BY <2>1, <2>2, <2>3 DEF Insert, RequestState
<1> HIDE DEF s0
<1>3. ParentsOwn'
  BY <1>1, <1>2 DEF ReplayInv, ParentsOwn
<1>4. RefreshOwns'
  BY <1>2 DEF ReplayInv, RefreshOwns
<1>5. ASSUME NEW q \in Request \ {r}
      PROVE  /\ Replays(q, "revoking")' => Spent(req[q].sid, req[q].seen)'
             /\ Replays(q, "revokedAll")' => Spent(req[q].sid, {})'
  <2>1. req'[q] = req[q]
    BY <1>2, <1>5
  <2>2. ASSUME req[q].op = "refresh", NEW S, Spent(req[q].sid, S)
        PROVE  /\ req[q].sid \in revoked'
               /\ \A t \in rows' : parent'[t] = req[q].sid =>
                                    t \in revoked' \union S
    <3>1. req[q].sid # NoSession /\ req[q].sid \in revoked
      BY <2>2, SessionsAssumption
      DEF ReplayInv, RefreshOwns, FamilyInv, TypeOK, Spent
    <3>2. req[q].sid # s0
      BY <1>1, <3>1
    <3> QED
      BY <1>1, <1>2, <2>2, <3>1, <3>2 DEF Spent
  <2>3. Replays(q, "revoking") => Spent(req[q].sid, req[q].seen)
    BY <1>5 DEF ReplayInv
  <2>4. Replays(q, "revokedAll") => Spent(req[q].sid, {})
    BY <1>5 DEF ReplayInv
  <2> QED
    BY <2>1, <2>2, <2>3, <2>4 DEF Replays, Spent
<1>6. ~Replays(r, "revoking")' /\ ~Replays(r, "revokedAll")'
  BY <1>2 DEF Replays
<1> QED
  BY <1>3, <1>4, <1>5, <1>6 DEF ReplayInv

(* revokeAll's snapshot: the rows of the user that are not revoked.  If the  *)
(* session presented is not among them it is spent, and its successor is     *)
(* among them or revoked.                                                    *)
LEMMA ReplayBegin ==
  ASSUME FamilyInv, ReplayInv, NEW r \in Request, RevokeAllBegin(r)
  PROVE  ReplayInv'
<1>0. req \in [Request -> RequestState]
  BY DEF FamilyInv, TypeOK
<1>1. /\ req'[r].pc = "revoking" /\ req'[r].op = req[r].op
      /\ req'[r].sid = req[r].sid /\ req'[r].user = req[r].user
      /\ req'[r].seen = RevokedBy(r)
      /\ \A q \in Request \ {r} : req'[q] = req[q]
      /\ UNCHANGED <<rows, owner, parent, revoked>>
  BY <1>0 DEF RevokeAllBegin, RequestState, tables
<1>2. Replays(r, "revoking")' => Spent(req[r].sid, req[r].seen)'
  <2> SUFFICES ASSUME Replays(r, "revoking")'
               PROVE  Spent(req[r].sid, req[r].seen)'
    OBVIOUS
  <2>1. /\ req[r].sid \in rows /\ owner[req[r].sid] = req[r].user
        /\ req[r].sid \notin RevokedBy(r)
    BY <1>1 DEF Replays, ReplayInv, RefreshOwns
  <2>2. req[r].sid \in revoked
    BY <2>1 DEF RevokedBy
  <2>3. \A t \in rows : parent[t] = req[r].sid =>
          t \in revoked \union RevokedBy(r)
    BY <2>1, SessionsAssumption
    DEF RevokedBy, ReplayInv, ParentsOwn, FamilyInv, TypeOK
  <2> QED
    BY <1>1, <2>2, <2>3 DEF Spent
<1>3. ~Replays(r, "revokedAll")'
  BY <1>1 DEF Replays
<1> QED
  BY <1>1, <1>2, <1>3, ReplayFrame DEF ReplayInv, RefreshOwns

(* revokeAll's UPDATE returns: what it saw is revoked.                       *)
LEMMA ReplayEnd ==
  ASSUME FamilyInv, ReplayInv, NEW r \in Request, RevokeAllEnd(r)
  PROVE  ReplayInv'
<1>0. req \in [Request -> RequestState]
  BY DEF FamilyInv, TypeOK
<1>1. /\ req'[r].pc = "revokedAll" /\ req'[r].op = req[r].op
      /\ req'[r].sid = req[r].sid /\ req'[r].user = req[r].user
      /\ req'[r].seen = req[r].seen
      /\ \A q \in Request \ {r} : req'[q] = req[q]
      /\ UNCHANGED <<rows, owner, parent>>
      /\ revoked' = revoked \union req[r].seen
      /\ req[r].pc = "revoking"
  BY <1>0 DEF RevokeAllEnd, Goto, RequestState, tables
<1>2. Replays(r, "revokedAll")' => Spent(req[r].sid, {})'
  BY <1>1 DEF Replays, Spent, ReplayInv
<1>3. ~Replays(r, "revoking")'
  BY <1>1 DEF Replays
<1> QED
  BY <1>1, <1>2, <1>3, ReplayFrame DEF ReplayInv, RefreshOwns

(* The steps that only move a request on, or give its slot back.             *)
LEMMA ReplayMove ==
  ASSUME FamilyInv, ReplayInv, NEW r \in Request, NEW pc \in PC,
         Goto(r, pc) \/ req' = [req EXCEPT ![r] = Idle],
         pc \notin {"revoking", "revokedAll"},
         pc \in {"verified", "owned", "locked"} => req[r].op = "refresh",
         rows' = rows, owner' = owner, parent' = parent,
         revoked \subseteq revoked'
  PROVE  ReplayInv'
<1>0. req \in [Request -> RequestState]
  BY DEF FamilyInv, TypeOK
<1>1. \A q \in Request \ {r} : req'[q] = req[q]
  BY <1>0 DEF Goto
<1>2. CASE Goto(r, pc)
  <2>1. /\ req'[r].pc = pc /\ req'[r].op = req[r].op
        /\ req'[r].sid = req[r].sid /\ req'[r].user = req[r].user
    BY <1>0, <1>2 DEF Goto, RequestState
  <2>2. ~Replays(r, "revoking")' /\ ~Replays(r, "revokedAll")'
    BY <2>1 DEF Replays
  <2> QED
    BY <1>1, <2>1, <2>2, ReplayFrame DEF ReplayInv, RefreshOwns
<1>3. CASE req' = [req EXCEPT ![r] = Idle]
  <2>1. req'[r].pc = "idle" /\ req'[r].op = "none"
    BY <1>0, <1>3 DEF Idle
  <2>2. ~Replays(r, "revoking")' /\ ~Replays(r, "revokedAll")'
    BY <2>1 DEF Replays
  <2> QED
    BY <1>1, <2>1, <2>2, ReplayFrame
<1> QED
  BY <1>2, <1>3

(* A request comes in.                                                       *)
LEMMA ReplayStart ==
  ASSUME FamilyInv, ReplayInv, NEW r \in Request, NEW op, NEW pc, NEW u, NEW s,
         Begin(r, op, pc, u, s),
         pc \in {"verified", "owned", "locked"} <=> op = "refresh",
         op = "refresh" => s \in rows /\ owner[s] = u,
         pc \notin {"revoking", "revokedAll"},
         UNCHANGED <<tables, rows, revoked, age, held>>
  PROVE  ReplayInv'
<1>0. req \in [Request -> RequestState]
  BY DEF FamilyInv, TypeOK
<1>1. /\ req'[r].pc = pc /\ req'[r].op = op
      /\ req'[r].sid = s /\ req'[r].user = u
      /\ \A q \in Request \ {r} : req'[q] = req[q]
  BY <1>0 DEF Begin, Idle
<1>2. ~Replays(r, "revoking")' /\ ~Replays(r, "revokedAll")'
  BY <1>1 DEF Replays
<1> QED
  BY <1>1, <1>2, ReplayFrame DEF tables

LEMMA ReplayContinue ==
  ASSUME FamilyInv, ReplayInv, NEW r \in Request, Continue(r)
  PROVE  ReplayInv'
<1>0. req[r].pc \in {"verified", "owned", "locked"} => req[r].op = "refresh"
  BY DEF ReplayInv, RefreshOwns
<1>1. CASE LoginInsert(r) \/ RotateCommit(r)
  BY <1>1, ReplayInsert
<1>2. CASE RevokeAllBegin(r)
  BY <1>2, ReplayBegin
<1>3. CASE RevokeAllEnd(r)
  BY <1>3, ReplayEnd
<1>4. CASE Respond(r) \/ Answer(r)
  BY <1>4, ReplayMove DEF Respond, Answer, tables, PC
<1>5. CASE RefreshOwnership(r)
  BY <1>0, <1>5, ReplayMove DEF RefreshOwnership, tables, PC
<1>6. CASE RotateRevoke(r)
  BY <1>0, <1>6, ReplayMove DEF RotateRevoke, tables, PC
<1>7. CASE AuthSession(r)
  BY <1>7, ReplayMove DEF AuthSession, tables, PC
<1>8. CASE Logout(r)
  BY <1>8, ReplayMove DEF Logout, tables, PC
<1> QED
  BY <1>1, <1>2, <1>3, <1>4, <1>5, <1>6, <1>7, <1>8 DEF Continue

LEMMA ReplayNext ==
  FamilyInv /\ ReplayInv /\ [Next]_vars => ReplayInv'
<1> SUFFICES ASSUME FamilyInv, ReplayInv, [Next]_vars PROVE ReplayInv'
  OBVIOUS
<1>1. ASSUME NEW r \in Request, NEW u \in User, LoginVerify(r, u)
      PROVE  ReplayInv'
  BY <1>1, ReplayStart DEF LoginVerify
<1>2. ASSUME NEW r \in Request, NEW u \in User, ResetPassword(r, u)
      PROVE  ReplayInv'
  BY <1>2, ReplayStart DEF ResetPassword
<1>3. ASSUME NEW r \in Request, NEW s \in Session, RefreshVerify(r, s)
      PROVE  ReplayInv'
  <2>1. s \in rows
    BY <1>3 DEF RefreshVerify, FamilyInv, TypeOK
  <2> QED
    BY <1>3, <2>1, ReplayStart DEF RefreshVerify
<1>4. ASSUME NEW r \in Request, NEW s \in Session, NEW op \in Op,
             AuthUser(r, s, op)
      PROVE  ReplayInv'
  BY <1>4, ReplayStart DEF AuthUser
<1>5. ASSUME NEW r \in Request, Fail(r)
      PROVE  ReplayInv'
  BY <1>5, ReplayMove DEF Fail, tables, PC
<1>6. CASE \/ UNCHANGED vars
           \/ \E u \in User, st \in Status : SetStatus(u, st)
           \/ \E s \in Session : GrowOld(s)
  <2>1. UNCHANGED <<rows, owner, parent, revoked, req>>
    BY <1>6 DEF vars, tables, SetStatus, GrowOld
  <2> QED
    BY <2>1 DEF ReplayInv, ParentsOwn, RefreshOwns, Replays, Spent
<1> QED
  BY <1>1, <1>2, <1>3, <1>4, <1>5, <1>6, ReplayContinue DEF Next

(* However many refreshes race, when one of them is answered as the replay   *)
(* of a spent session, what that session was rotated into is revoked         *)
(* (SessionService.verifyRefreshTokenOwnership and rotateSession).           *)
THEOREM ReplayTakesSuccessor == Spec => []ReplayRevokesSuccessor
<1>1. Init => ReplayInv
  BY DEF Init, ReplayInv, ParentsOwn, RefreshOwns, Replays, Idle
<1>2. ReplayInv => ReplayRevokesSuccessor
  BY DEF ReplayInv, Replays, Spent, ReplayRevokesSuccessor
<1> QED
  BY <1>1, <1>2, ReplayNext, FamilyInvariant, PTL DEF Spec
=============================================================================
