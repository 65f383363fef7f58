---------------------------- MODULE UsersProofs ----------------------------
(***************************************************************************)
(* Proofs about Users and UserList, for any number of users, addresses and *)
(* requests, any order and page size.                                      *)
(***************************************************************************)
EXTENDS UserList, FiniteSetTheorems, WellFoundedInduction, TLAPS

-----------------------------------------------------------------------------
(* A set of numbers with a bound has a greatest, which Max finds.            *)
LEMMA MaxIsGreatest ==
  ASSUME NEW n \in Nat, NEW S \in SUBSET (0..n), S # {}
  PROVE  Max(S) \in S /\ \A y \in S : Max(S) >= y
<1> DEFINE Above(x) == {y \in S : y > x}
           A == {Above(x) : x \in S}
           R == StrictSubsetOrdering(S)
<1>1. IsFiniteSet(S)
      <2>1. IsFiniteSet(0..n)
            BY FS_Interval
      <2> QED BY <2>1, FS_Subset
<1>2. A \subseteq FiniteSubsetsOf(S) /\ A # {}
      <2>1. \A x \in S : Above(x) \in SUBSET S /\ IsFiniteSet(Above(x))
            <3>1. ASSUME NEW x \in S PROVE Above(x) \in SUBSET S
                  OBVIOUS
            <3> HIDE DEF Above
            <3> QED BY <1>1, <3>1, FS_Subset
      <2> QED BY <2>1 DEF FiniteSubsetsOf
<1>3. PICK a \in A : \A b \in A : <<b, a>> \notin R
      <2> HIDE DEF A, R
      <2>1. IsWellFoundedOn(R, FiniteSubsetsOf(S))
            BY FS_StrictSubsetOrderingWellFounded DEF R
      <2> QED BY <1>2, <2>1, WFMin
<1>4. PICK x \in S : a = Above(x)
      OBVIOUS
<1>5. ASSUME NEW y \in S, y > x PROVE FALSE
      <2>1. Above(y) \subseteq Above(x) /\ y \in Above(x) /\ y \notin Above(y)
            <3>1. ASSUME NEW z \in Above(y) PROVE z \in Above(x)
                  BY <1>5, <3>1
            <3>2. y \in Above(x) /\ y \notin Above(y)
                  BY <1>5
            <3> QED BY <3>1, <3>2
      <2>2. <<Above(y), Above(x)>> \in R
            BY <2>1 DEF StrictSubsetOrdering
      <2> QED BY <1>3, <1>4, <2>2
<1>6. \A y \in S : x >= y
      BY <1>5
<1> QED BY <1>6 DEF Max

-----------------------------------------------------------------------------
(* The parts of the inductive invariant.                                     *)
(* The number a creation has found is at most one past those given out.      *)
NumbersInReach ==
  \A r \in Request : IF req[r].pc = "hashing"
                     THEN req[r].nip <= Cardinality(Numbered) + 1
                     ELSE req[r].nip = 0

(* A deletion that nothing has overtaken knows its user's role; past the     *)
(* check, an OWNER is not the last one.                                      *)
KnowsRole(r) ==
  req[r].pc \in {"deleting", "softDeleting"} /\ r \notin disturbed =>
    req[r].user \in Present /\ role[req[r].user] = req[r].role
OthersLeft(r) ==
  /\ req[r].pc = "softDeleting" /\ r \notin disturbed /\ req[r].role = "OWNER"
  => \E v \in ActiveOwners : v # req[r].user
DeletionsKnow == \A r \in Request : KnowsRole(r) /\ OthersLeft(r)

(* A creation that has a number is not that of an OWNER, and one that has    *)
(* none is, once the number is settled.                                      *)
CreationKnows(r) ==
  /\ req[r].pc \in {"roleFound", "numbering", "hashing"} => req[r].email \in Email
  /\ req[r].pc = "numbering" => req[r].role # "OWNER"
  /\ req[r].pc = "hashing" => (req[r].nip = 0 <=> req[r].role = "OWNER")
CreationsKnow == \A r \in Request : CreationKnows(r)

UsersInv == /\ TypeOK
            /\ IsFiniteSet(rows)
            /\ NipsAreConsecutive
            /\ NumbersInReach
            /\ DeletionsKnow
            /\ CreationsKnow

-----------------------------------------------------------------------------
LEMMA NewUserIsNew ==
  ASSUME rows \in SUBSET User, rows # User
  PROVE  NewUser \in User \ rows
BY DEF NewUser

LEMMA NextNipType == TypeOK => NextNip \in Nat \ {0}
<1> DEFINE S == {nip[u] : u \in Present} \union {0}
<1>1. SUFFICES ASSUME TypeOK PROVE NextNip \in Nat \ {0}
      OBVIOUS
<1>2. MaxNip \in Nat /\ S \in SUBSET (0..MaxNip) /\ S # {}
      BY <1>1, UsersAssumption DEF TypeOK, Present
<1>3. Max(S) \in Nat
      <2> HIDE DEF S
      <2>1. Max(S) \in S
            BY <1>2, MaxIsGreatest
      <2>2. Max(S) \in 0..MaxNip
            BY <1>2, <2>1
      <2> QED BY <1>2, <2>2
<1> QED BY <1>3 DEF NextNip

LEMMA InitInv == Init => UsersInv
<1> SUFFICES ASSUME Init PROVE UsersInv
    OBVIOUS
<1>1. Idle \in RequestState
      BY UsersAssumption DEF Idle, RequestState, PC, Role
<1>2. TypeOK
      BY <1>1, UsersAssumption DEF Init, TypeOK, Role
<1>3. IsFiniteSet(rows)
      BY FS_Singleton DEF Init
<1>4. Numbered = {} /\ Cardinality(Numbered) = 0
      BY FS_EmptySet, UsersAssumption DEF Init, Numbered
<1>5. NipsAreConsecutive
      BY <1>4 DEF NipsAreConsecutive, Numbered
<1>6. NumbersInReach /\ DeletionsKnow /\ CreationsKnow
      BY DEF Init, NumbersInReach, DeletionsKnow, KnowsRole, OthersLeft,
             CreationsKnow, CreationKnows, Idle
<1> QED BY <1>2, <1>3, <1>5, <1>6 DEF UsersInv

-----------------------------------------------------------------------------
(* What the steps do to the requests: all but r stay as they are.            *)
Others(r) == \A q \in Request \ {r} : req'[q] = req[q]

(* The steps as the invariants see them.                                     *)
Starts(r) == /\ UNCHANGED <<columns, disturbed>> /\ Others(r)
             /\ req'[r].pc \in {"roleFound", "updating", "changing", "deleting"}
             /\ req'[r].nip = 0
             /\ req'[r].pc = "deleting" =>
                  /\ req'[r].user \in Present
                  /\ role[req'[r].user] = req'[r].role
Ends(r) == /\ UNCHANGED columns /\ Others(r)
           /\ req'[r] = Idle /\ disturbed' = disturbed \ {r}
Numbers(r) == /\ UNCHANGED <<columns, disturbed>> /\ Others(r)
              /\ \/ /\ req[r].pc = "roleFound" /\ req'[r].nip = req[r].nip
                    /\ req'[r].pc \in {"hashing", "numbering"}
                 \/ req'[r].pc = "hashing" /\ req'[r].nip = NextNip
Inserts(r) == /\ InsertUser(r) /\ Others(r)
              /\ Unique(req[r].email, req[r].nip)
              /\ NewUser \in User \ rows
              /\ req[r].pc = "hashing" /\ req'[r] = Idle
              /\ disturbed' = disturbed \ {r}
Changes(r) == /\ req[r].user \in Present
              /\ \/ UpdateRole(r)
                 \/ UpdateStatus(r)
                 \/ SoftDelete(r) /\ deleted' = deleted \union {req[r].user}
              /\ Others(r)
              /\ req'[r] = Idle
              /\ disturbed' = {q \in Request \ {r} :
                     q \in disturbed \/ req[q].pc \in {"deleting", "softDeleting"}}
Checks(r) == /\ UNCHANGED <<columns, disturbed>> /\ Others(r)
             /\ req[r].pc = "deleting" /\ req'[r].pc = "softDeleting"
             /\ ~(req[r].role = "OWNER" /\ LastOwner)
             /\ req'[r].user = req[r].user /\ req'[r].role = req[r].role
             /\ req'[r].nip = req[r].nip

Steps == \/ UNCHANGED vars
         \/ \E r \in Request : \/ Starts(r) \/ Ends(r) \/ Numbers(r)
                               \/ Inserts(r) \/ Changes(r) \/ Checks(r)

LEMMA BeginFacts ==
  ASSUME req \in [Request -> RequestState], NEW r \in Request,
         NEW pc \in PC, NEW u \in User \union {NoUser}, NEW ro \in Role,
         NEW st \in Status, NEW e \in Email \union {NoEmail},
         Begin(r, pc, u, ro, st, e)
  PROVE  /\ req' \in [Request -> RequestState]
         /\ req'[r].pc = pc /\ req'[r].user = u /\ req'[r].role = ro
         /\ req'[r].nip = 0
         /\ Others(r) /\ disturbed' = disturbed
<1> DEFINE rec == [pc |-> pc, user |-> u, role |-> ro, status |-> st,
                   email |-> e, nip |-> 0]
<1>1. rec \in RequestState
      BY UsersAssumption DEF RequestState
<1> QED BY <1>1 DEF Begin, Others

LEMMA FinishFacts ==
  ASSUME req \in [Request -> RequestState], NEW r \in Request,
         req' = [req EXCEPT ![r] = Idle]
  PROVE  req' \in [Request -> RequestState] /\ req'[r] = Idle /\ Others(r)
<1>1. Idle \in RequestState
      BY UsersAssumption DEF Idle, RequestState, PC, Role
<1> QED BY <1>1 DEF Others

LEMMA GotoFacts ==
  ASSUME req \in [Request -> RequestState], NEW r \in Request,
         NEW pc \in PC, Goto(r, pc)
  PROVE  /\ req' \in [Request -> RequestState]
         /\ req'[r].pc = pc /\ req'[r].user = req[r].user
         /\ req'[r].role = req[r].role /\ req'[r].nip = req[r].nip
         /\ Others(r) /\ disturbed' = disturbed
BY DEF Goto, RequestState, Others

LEMMA NextSteps == TypeOK /\ [Next]_vars => Steps /\ TypeOK'
<1> SUFFICES ASSUME TypeOK, [Next]_vars PROVE Steps /\ TypeOK'
    OBVIOUS
<1> USE UsersAssumption DEF TypeOK
<1> DEFINE ReqOK == req' \in [Request -> RequestState]
<1>1. ASSUME UNCHANGED columns, ReqOK, disturbed' \subseteq disturbed
      PROVE  TypeOK'
      BY <1>1 DEF columns
<1>2. ASSUME NEW r \in Request, UNCHANGED columns, Finish(r)
      PROVE  Ends(r) /\ TypeOK'
      BY <1>1, <1>2, FinishFacts DEF Finish, Ends
<1>3. /\ {"roleFound", "numbering", "hashing", "updating", "changing",
          "deleting", "softDeleting"} \subseteq PC
      /\ {"OWNER", "STAFF"} \subseteq Role
      BY DEF PC, Role
<1>4. ASSUME NEW r \in Request, NEW ro \in Role, NEW e \in Email,
             FindRole(r, ro, e)
      PROVE  Starts(r) /\ TypeOK'
      BY <1>1, <1>3, <1>4, BeginFacts DEF FindRole, Starts
<1>5. ASSUME NEW r \in Request, NEW u \in User, NEW ro \in Role,
             FindForUpdate(r, u, ro)
      PROVE  Starts(r) /\ TypeOK'
      BY <1>1, <1>3, <1>5, BeginFacts DEF FindForUpdate, Starts
<1>6. ASSUME NEW r \in Request, NEW u \in User, NEW a \in User, NEW st \in Status,
             FindForStatus(r, u, st, a)
      PROVE  Starts(r) /\ TypeOK'
      BY <1>1, <1>3, <1>6, BeginFacts DEF FindForStatus, Starts
<1>7. ASSUME NEW r \in Request, NEW u \in User, FindForDelete(r, u)
      PROVE  Starts(r) /\ TypeOK'
      <2>1. u \in Present /\ UNCHANGED columns
            BY <1>7 DEF FindForDelete
      <2>2. /\ ReqOK /\ Others(r) /\ disturbed' = disturbed
            /\ req'[r].pc = "deleting" /\ req'[r].user = u
            /\ req'[r].role = role[u] /\ req'[r].nip = 0
            BY <1>3, <1>7, BeginFacts DEF FindForDelete
      <2> QED BY <1>1, <2>1, <2>2 DEF Starts
<1>8. ASSUME NEW r \in Request, CheckEmail(r)
      PROVE  (Ends(r) \/ Numbers(r)) /\ TypeOK'
      <2>1. CASE Finish(r)
            BY <1>2, <1>8, <2>1 DEF CheckEmail
      <2>2. ASSUME NEW pc \in {"hashing", "numbering"}, Goto(r, pc)
            PROVE  Numbers(r) /\ TypeOK'
            <3>1. /\ ReqOK /\ Others(r) /\ disturbed' = disturbed
                  /\ req'[r].pc = pc /\ req'[r].nip = req[r].nip
                  BY <1>3, <2>2, GotoFacts
            <3> QED BY <1>1, <1>8, <2>2, <3>1 DEF CheckEmail, Numbers
      <2> QED BY <1>8, <2>1, <2>2 DEF CheckEmail
<1>9. ASSUME NEW r \in Request, GenerateNip(r) PROVE Numbers(r) /\ TypeOK'
      <2> DEFINE rec == [req[r] EXCEPT !.pc = "hashing", !.nip = NextNip]
      <2>1. NextNip \in 0..MaxNip
            BY <1>9, NextNipType DEF GenerateNip
      <2>2. rec \in RequestState /\ req' = [req EXCEPT ![r] = rec]
            BY <1>3, <1>9, <2>1 DEF RequestState, GenerateNip
      <2>3. /\ ReqOK /\ Others(r)
            /\ req'[r].pc = "hashing" /\ req'[r].nip = NextNip
            BY <2>2 DEF Others, RequestState
      <2> QED BY <1>1, <1>9, <2>3 DEF GenerateNip, Numbers
<1>10. ASSUME NEW r \in Request, InsertUser(r)
       PROVE  (Ends(r) \/ Inserts(r)) /\ TypeOK'
      <2>1. CASE ~Unique(req[r].email, req[r].nip)
            <3>1. UNCHANGED columns /\ Finish(r)
                  BY <1>10, <2>1 DEF InsertUser, columns
            <3> QED BY <1>2, <3>1
      <2>2. CASE Unique(req[r].email, req[r].nip)
            <3>1. ReqOK /\ Others(r) /\ req'[r] = Idle
                  BY <1>10, FinishFacts DEF InsertUser, Finish
            <3>2. NewUser \in User \ rows
                  BY <1>10, NewUserIsNew DEF InsertUser
            <3>3. /\ req[r].role \in Role
                  /\ req[r].email \in Email \union {NoEmail}
                  /\ req[r].nip \in 0..MaxNip
                  BY DEF RequestState
            <3>4. TypeOK'
                  BY <1>10, <2>2, <3>1, <3>2, <3>3 DEF InsertUser, Finish
            <3> QED BY <1>10, <2>2, <3>1, <3>2, <3>4
                    DEF Inserts, InsertUser, Finish
      <2> QED BY <2>1, <2>2
<1>11. ASSUME NEW r \in Request, UpdateRole(r) \/ UpdateStatus(r) \/ SoftDelete(r)
       PROVE  (Ends(r) \/ Changes(r)) /\ TypeOK'
      <2>1. CASE req[r].user \notin Present
            <3>1. UNCHANGED columns /\ Finish(r)
                  BY <1>11, <2>1 DEF UpdateRole, UpdateStatus, SoftDelete, columns
            <3> QED BY <1>2, <3>1
      <2>2. CASE req[r].user \in Present
            <3>1. Disturb(r)
                  BY <1>11, <2>2 DEF UpdateRole, UpdateStatus, SoftDelete
            <3>2. ReqOK /\ Others(r) /\ req'[r] = Idle
                  BY <3>1, FinishFacts DEF Disturb
            <3>3. req[r].role \in Role /\ req[r].status \in Status
                  BY DEF RequestState
            <3>4. /\ rows' = rows /\ UNCHANGED <<email, nip>>
                  /\ role' \in [User -> Role]
                  /\ status' \in [User -> Status]
                  /\ deleted' \in SUBSET rows
                  BY <1>11, <2>2, <3>3
                     DEF UpdateRole, UpdateStatus, SoftDelete, Present
            <3>5. TypeOK'
                  BY <3>1, <3>2, <3>4 DEF Disturb
            <3> QED BY <1>11, <2>2, <3>1, <3>2, <3>5
                    DEF Changes, Disturb, SoftDelete
      <2> QED BY <2>1, <2>2
<1>12. ASSUME NEW r \in Request, CheckLastOwner(r)
       PROVE  (Ends(r) \/ Checks(r)) /\ TypeOK'
      <2>1. CASE Finish(r)
            BY <1>2, <1>12, <2>1 DEF CheckLastOwner
      <2>2. CASE Goto(r, "softDeleting") /\ ~(req[r].role = "OWNER" /\ LastOwner)
            <3>1. /\ ReqOK /\ Others(r) /\ disturbed' = disturbed
                  /\ req'[r].pc = "softDeleting" /\ req'[r].user = req[r].user
                  /\ req'[r].role = req[r].role /\ req'[r].nip = req[r].nip
                  BY <1>3, <2>2, GotoFacts
            <3> QED BY <1>1, <1>12, <2>2, <3>1 DEF CheckLastOwner, Checks
      <2> QED BY <1>12, <2>1, <2>2 DEF CheckLastOwner
<1>13. ASSUME NEW r \in Request, Fail(r) PROVE Ends(r) /\ TypeOK'
      BY <1>2, <1>13 DEF Fail
<1>14. CASE UNCHANGED vars
      BY <1>14 DEF vars, Steps
<1> QED BY <1>4, <1>5, <1>6, <1>7, <1>8, <1>9, <1>10, <1>11, <1>12, <1>13, <1>14
        DEF Next, Steps

-----------------------------------------------------------------------------
(* An insert takes the next number or none, for the index refuses a number   *)
(* given out before.                                                         *)
LEMMA InsertNumber ==
  ASSUME UsersInv, NEW r \in Request, Inserts(r)
  PROVE  /\ req[r].nip = 0 => Numbered' = Numbered
         /\ req[r].nip # 0 =>
              /\ req[r].nip = Cardinality(Numbered) + 1
              /\ Numbered' = Numbered \union {NewUser} /\ NewUser \notin Numbered
              /\ Cardinality(Numbered') = Cardinality(Numbered) + 1
<1> DEFINE K == Cardinality(Numbered)
           Given == {nip[u] : u \in Numbered}
           n == req[r].nip
<1>1. /\ TypeOK /\ IsFiniteSet(Numbered) /\ K \in Nat /\ Given = 1..K
      /\ n \in Nat /\ n <= K + 1
      <2>1. IsFiniteSet(Numbered)
            BY FS_Subset DEF UsersInv, Numbered
      <2>2. K \in Nat
            BY <2>1, FS_CardinalityType
      <2>3. TypeOK /\ Given = 1..K
            BY DEF UsersInv, NipsAreConsecutive
      <2>4. n \in Nat /\ n <= K + 1
            BY UsersAssumption DEF UsersInv, TypeOK, RequestState, NumbersInReach,
                                   Inserts
      <2> QED BY <2>1, <2>2, <2>3, <2>4
<1>2. /\ NewUser \in User \ rows /\ rows' = rows \union {NewUser}
      /\ nip' = [nip EXCEPT ![NewUser] = n] /\ Unique(req[r].email, n)
      BY DEF Inserts, InsertUser
<1>3. CASE n = 0
      BY <1>1, <1>2, <1>3 DEF Numbered, TypeOK
<1>4. CASE n # 0
      <2>1. Numbered' = Numbered \union {NewUser} /\ NewUser \notin Numbered
            BY <1>1, <1>2, <1>4 DEF Numbered, TypeOK
      <2>2. Cardinality(Numbered') = K + 1
            BY <1>1, <2>1, FS_AddElement
      <2>3. n \notin Given
            BY <1>2, <1>4 DEF Unique, Numbered
      <2>4. n = K + 1
            <3> HIDE DEF n, K, Given
            <3> QED BY <1>1, <1>4, <2>3
      <2> QED BY <1>4, <2>1, <2>2, <2>4
<1> QED BY <1>3, <1>4

LEMMA NumberStep ==
  UsersInv /\ Steps
    => IsFiniteSet(rows)' /\ NipsAreConsecutive' /\ NumbersInReach'
<1> SUFFICES ASSUME UsersInv, Steps
             PROVE  IsFiniteSet(rows)' /\ NipsAreConsecutive' /\ NumbersInReach'
    OBVIOUS
<1> DEFINE K == Cardinality(Numbered)
           Given == {nip[u] : u \in Numbered}
           Reach(r) == IF req[r].pc = "hashing" THEN req[r].nip <= K + 1
                                                ELSE req[r].nip = 0
           Goal == IsFiniteSet(rows)' /\ NipsAreConsecutive' /\ NumbersInReach'
<1>1. /\ TypeOK /\ IsFiniteSet(rows) /\ IsFiniteSet(Numbered)
      /\ Given = 1..K /\ K \in Nat
      /\ \A r \in Request : Reach(r)
      <2>1. IsFiniteSet(Numbered)
            BY FS_Subset DEF UsersInv, Numbered
      <2>2. K \in Nat
            BY <2>1, FS_CardinalityType
      <2>3. Given = 1..K
            BY DEF UsersInv, NipsAreConsecutive, Numbered
      <2> QED BY <2>1, <2>2, <2>3 DEF UsersInv, NumbersInReach
<1>2. ASSUME UNCHANGED <<rows, nip>>,
             \A r \in Request : IF req'[r].pc = "hashing"
                                THEN req'[r].nip <= K + 1 ELSE req'[r].nip = 0
      PROVE  Goal
      <2>1. Numbered' = Numbered
            BY <1>2 DEF Numbered
      <2>2. NumbersInReach'
            BY <1>2, <2>1 DEF NumbersInReach
      <2>3. NipsAreConsecutive'
            <3>1. {nip'[u] : u \in Numbered'} = Given
                  BY <1>2, <2>1
            <3> QED BY <1>1, <2>1, <3>1 DEF NipsAreConsecutive
      <2> QED BY <1>1, <1>2, <2>2, <2>3
<1>3. NextNip <= K + 1
      <2> DEFINE S == {nip[u] : u \in Present} \union {0}
      <2>1. MaxNip \in Nat /\ S \in SUBSET (0..MaxNip) /\ S # {}
            BY <1>1, UsersAssumption DEF TypeOK, Present
      <2>2. Max(S) \in S
            <3> HIDE DEF S
            <3> QED BY <2>1, MaxIsGreatest
      <2>3. S \subseteq Given \union {0}
            BY DEF Present, Numbered
      <2>4. Max(S) \in 0..K
            <3> HIDE DEF S, Given, K
            <3>1. Max(S) \in Given \union {0}
                  BY <2>2, <2>3
            <3>2. Given \union {0} \subseteq 0..K
                  BY <1>1
            <3> QED BY <3>1, <3>2
      <2> HIDE DEF S, K
      <2>5. Max(S) + 1 <= K + 1
            BY <1>1, <2>4
      <2> QED BY <2>5 DEF NextNip, S
<1>4. ASSUME NEW r \in Request, Starts(r) \/ Ends(r) \/ Checks(r) PROVE Goal
      <2> HIDE DEF K
      <2>1. UNCHANGED <<rows, nip>> /\ Others(r) /\ req'[r].pc # "hashing"
            /\ req'[r].nip = 0
            BY <1>1, <1>4 DEF Starts, Ends, Checks, columns, Idle
      <2> QED BY <1>1, <1>2, <2>1 DEF Others
<1>5. ASSUME NEW r \in Request, Changes(r) PROVE Goal
      <2> HIDE DEF K
      <2>1. /\ UNCHANGED <<rows, nip>> /\ Others(r)
            /\ req'[r].pc # "hashing" /\ req'[r].nip = 0
            BY <1>5 DEF Changes, UpdateRole, UpdateStatus, SoftDelete, Idle
      <2> QED BY <1>1, <1>2, <2>1 DEF Others
<1>6. ASSUME NEW r \in Request, Numbers(r) PROVE Goal
      <2> HIDE DEF K
      <2>1. UNCHANGED <<rows, nip>> /\ Others(r)
            BY <1>6 DEF Numbers, columns
      <2>2. IF req'[r].pc = "hashing" THEN req'[r].nip <= K + 1
                                      ELSE req'[r].nip = 0
            BY <1>1, <1>3, <1>6 DEF Numbers
      <2> QED BY <1>1, <1>2, <2>1, <2>2 DEF Others
<1>7. ASSUME NEW r \in Request, Inserts(r) PROVE Goal
      <2> DEFINE n == req[r].nip
      <2> PICK w \in User \ rows : w = NewUser
          BY <1>7 DEF Inserts
      <2>1. /\ rows' = rows \union {w} /\ nip' = [nip EXCEPT ![w] = n]
            /\ nip'[w] = n /\ \A u \in rows : nip'[u] = nip[u]
            BY <1>1, <1>7 DEF Inserts, InsertUser, TypeOK
      <2>2. IsFiniteSet(rows')
            BY <1>1, <2>1, FS_AddElement
      <2>3. \A q \in Request : q # r => Reach(q) /\ req'[q] = req[q]
            BY <1>1, <1>7 DEF Inserts, Others
      <2>4. req'[r].pc # "hashing" /\ req'[r].nip = 0
            BY <1>7 DEF Inserts, Idle
      <2>5. CASE n = 0
            <3>1. Numbered' = Numbered
                  BY <1>7, <2>5, InsertNumber
            <3>2. {nip'[u] : u \in Numbered'} = Given
                  BY <2>1, <3>1 DEF Numbered
            <3>3. NipsAreConsecutive'
                  BY <1>1, <3>1, <3>2 DEF NipsAreConsecutive, Numbered
            <3>4. NumbersInReach'
                  BY <2>3, <2>4, <3>1 DEF NumbersInReach
            <3> QED BY <2>2, <3>3, <3>4
      <2>6. CASE n # 0
            <3>1. /\ Numbered' = Numbered \union {w} /\ w \notin Numbered
                  /\ Cardinality(Numbered') = K + 1 /\ n = K + 1
                  BY <1>7, <2>6, InsertNumber
            <3>4. {nip'[u] : u \in Numbered'} = Given \union {n}
                  BY <2>1, <3>1 DEF Numbered
            <3>5. NipsAreConsecutive'
                  <4>1. (1..K) \union {K + 1} = 1..(K + 1)
                        <5> HIDE DEF K
                        <5> QED BY <1>1
                  <4>2. {nip'[u] : u \in Numbered'} = 1..Cardinality(Numbered')
                        BY <1>1, <3>1, <3>4, <4>1
                  <4> QED BY <4>2 DEF NipsAreConsecutive, Numbered
            <3>6. NumbersInReach'
                  <4>1. \A q \in Request : req[q].nip \in Nat
                        BY <1>1, UsersAssumption DEF TypeOK, RequestState
                  <4> HIDE DEF K
                  <4>2. ASSUME NEW q \in Request, q # r
                        PROVE  IF req'[q].pc = "hashing"
                               THEN req'[q].nip <= Cardinality(Numbered') + 1
                               ELSE req'[q].nip = 0
                        BY <1>1, <2>3, <3>1, <4>1, <4>2
                  <4> QED BY <2>4, <4>2 DEF NumbersInReach
            <3> QED BY <2>2, <3>5, <3>6
      <2> QED BY <2>5, <2>6
<1>8. CASE UNCHANGED vars
      <2> HIDE DEF K
      <2> QED BY <1>1, <1>2, <1>8 DEF vars
<1> QED BY <1>4, <1>5, <1>6, <1>7, <1>8 DEF Steps

-----------------------------------------------------------------------------
(* Any change to a user marks the deletions under way as overtaken; one that *)
(* is not marked finds its user and the other OWNERs as it left them.        *)
LEMMA DeletionStep == UsersInv /\ Steps => DeletionsKnow'
<1> SUFFICES ASSUME UsersInv, Steps PROVE DeletionsKnow'
    OBVIOUS
<1>1. TypeOK /\ \A r \in Request : KnowsRole(r) /\ OthersLeft(r)
      BY DEF UsersInv, DeletionsKnow
<1>2. ASSUME Present \subseteq Present', ActiveOwners \subseteq ActiveOwners',
             \A u \in Present : role'[u] = role[u],
             NEW q \in Request, req'[q] = req[q],
             q \in disturbed => q \in disturbed'
      PROVE  KnowsRole(q)' /\ OthersLeft(q)'
      BY <1>1, <1>2 DEF KnowsRole, OthersLeft
<1>3. ASSUME UNCHANGED columns
      PROVE  /\ Present' = Present /\ ActiveOwners' = ActiveOwners
             /\ role' = role
      BY <1>3 DEF columns, Present, ActiveOwners
<1>4. ASSUME NEW r \in Request, Starts(r) \/ Ends(r) \/ Numbers(r)
      PROVE  DeletionsKnow'
      <2>1. KnowsRole(r)' /\ OthersLeft(r)'
            BY <1>3, <1>4 DEF Starts, Ends, Numbers, Idle, KnowsRole, OthersLeft
      <2>2. ASSUME NEW q \in Request \ {r} PROVE KnowsRole(q)' /\ OthersLeft(q)'
            BY <1>2, <1>3, <1>4, <2>2 DEF Starts, Ends, Numbers, Others
      <2> QED BY <2>1, <2>2 DEF DeletionsKnow
<1>5. ASSUME NEW r \in Request, Checks(r) PROVE DeletionsKnow'
      <2>1. KnowsRole(r)'
            BY <1>1, <1>3, <1>5 DEF Checks, KnowsRole
      <2>2. ASSUME req[r].role = "OWNER"
            PROVE  \E v \in ActiveOwners : v # req[r].user
            <3>1. ~(Cardinality(ActiveOwners) <= 1)
                  BY <1>5, <2>2 DEF Checks, LastOwner
            <3>2. ASSUME ActiveOwners \in SUBSET {req[r].user}
                  PROVE  Cardinality(ActiveOwners) <= 1
                  <4> DEFINE A == ActiveOwners  s == {req[r].user}
                  <4>1. IsFiniteSet(s) /\ Cardinality(s) = 1
                        BY FS_Singleton
                  <4>2. A \in SUBSET s
                        BY <3>2
                  <4> HIDE DEF A, s
                  <4>3. Cardinality(A) <= Cardinality(s)
                        BY <4>1, <4>2, FS_Subset
                  <4>4. Cardinality(A) <= 1
                        BY <4>1, <4>3
                  <4> QED BY <4>4 DEF A
            <3> QED BY <3>1, <3>2
      <2>3. OthersLeft(r)'
            BY <1>3, <1>5, <2>2 DEF Checks, OthersLeft
      <2>4. ASSUME NEW q \in Request \ {r} PROVE KnowsRole(q)' /\ OthersLeft(q)'
            BY <1>2, <1>3, <1>5, <2>4 DEF Checks, Others
      <2> QED BY <2>1, <2>3, <2>4 DEF DeletionsKnow
<1>6. ASSUME NEW r \in Request, Inserts(r) PROVE DeletionsKnow'
      <2>1. /\ Present \subseteq Present'
            /\ \A u \in rows : role'[u] = role[u] /\ status'[u] = status[u]
            BY <1>1, <1>6 DEF Inserts, InsertUser, Present, TypeOK
      <2>2. ActiveOwners \subseteq ActiveOwners'
            BY <2>1 DEF ActiveOwners, Present
      <2>3. KnowsRole(r)' /\ OthersLeft(r)'
            BY <1>6 DEF Inserts, Idle, KnowsRole, OthersLeft
      <2>4. ASSUME NEW q \in Request \ {r} PROVE KnowsRole(q)' /\ OthersLeft(q)'
            BY <1>2, <1>6, <2>1, <2>2, <2>4 DEF Inserts, Others, Present
      <2> QED BY <2>3, <2>4 DEF DeletionsKnow
<1>7. ASSUME NEW r \in Request, Changes(r) PROVE DeletionsKnow'
      <2>1. \A q \in Request :
              req'[q].pc \in {"deleting", "softDeleting"} => q \in disturbed'
            BY <1>7 DEF Changes, Others, Idle
      <2> QED BY <2>1 DEF DeletionsKnow, KnowsRole, OthersLeft
<1>8. CASE UNCHANGED vars
      <2>1. UNCHANGED columns
            BY <1>8 DEF vars, columns
      <2> QED BY <1>2, <1>3, <1>8, <2>1 DEF vars, DeletionsKnow
<1> QED BY <1>4, <1>5, <1>6, <1>7, <1>8 DEF Steps

-----------------------------------------------------------------------------
(* What a creation knows.                                                    *)
LEMMA CreationStep == UsersInv /\ [Next]_vars => CreationsKnow'
<1> SUFFICES ASSUME UsersInv, [Next]_vars PROVE CreationsKnow'
    OBVIOUS
<1>1. /\ req \in [Request -> RequestState] /\ CreationsKnow
      BY DEF UsersInv, TypeOK
<1>2. ASSUME NEW r \in Request, Others(r), CreationKnows(r)' PROVE CreationsKnow'
      BY <1>1, <1>2 DEF CreationsKnow, CreationKnows, Others
<1>3. ASSUME NEW r \in Request, req' = [req EXCEPT ![r] = Idle]
      PROVE  CreationsKnow'
      <2>1. Others(r) /\ req'[r] = Idle
            BY <1>1, <1>3, FinishFacts
      <2> QED BY <1>2, <2>1 DEF CreationKnows, Idle
<1>4. ASSUME NEW r \in Request, NEW pc, NEW u, NEW ro, NEW st, NEW e,
             Begin(r, pc, u, ro, st, e),
             pc # "numbering", pc # "hashing", pc = "roleFound" => e \in Email
      PROVE  CreationsKnow'
      <2>1. /\ Others(r) /\ req'[r].pc = pc /\ req'[r].email = e
            BY <1>1, <1>4 DEF Begin, Others
      <2> QED BY <1>2, <1>4, <2>1 DEF CreationKnows
<1>5. ASSUME NEW r \in Request, CheckEmail(r) PROVE CreationsKnow'
      <2>1. CASE Finish(r)
            BY <1>3, <2>1 DEF Finish
      <2>2. CASE Goto(r, IF req[r].role = "OWNER" THEN "hashing" ELSE "numbering")
            <3>1. /\ Others(r) /\ req'[r].email = req[r].email
                  /\ req'[r].role = req[r].role /\ req'[r].nip = req[r].nip
                  /\ req'[r].pc = IF req[r].role = "OWNER" THEN "hashing"
                                                            ELSE "numbering"
                  BY <1>1, <2>2 DEF Goto, Others, RequestState
            <3>2. req[r].pc = "roleFound" /\ req[r].nip = 0 /\ CreationKnows(r)
                  BY <1>1, <1>5 DEF CheckEmail, CreationsKnow, UsersInv, NumbersInReach
            <3> QED BY <1>2, <3>1, <3>2 DEF CreationKnows
      <2> QED BY <1>5, <2>1, <2>2 DEF CheckEmail
<1>6. ASSUME NEW r \in Request, GenerateNip(r) PROVE CreationsKnow'
      <2>1. /\ Others(r) /\ req'[r].email = req[r].email
            /\ req'[r].role = req[r].role /\ req'[r].nip = NextNip
            /\ req'[r].pc = "hashing" /\ req[r].pc = "numbering"
            BY <1>1, <1>6 DEF GenerateNip, Others, RequestState
      <2>2. CreationKnows(r) /\ NextNip # 0
            BY <1>1, NextNipType DEF CreationsKnow, UsersInv
      <2> QED BY <1>2, <2>1, <2>2 DEF CreationKnows
<1>7. ASSUME NEW r \in Request, CheckLastOwner(r) PROVE CreationsKnow'
      <2>1. CASE Finish(r)
            BY <1>3, <2>1 DEF Finish
      <2>2. CASE Goto(r, "softDeleting")
            <3>1. Others(r) /\ req'[r].pc = "softDeleting"
                  BY <1>1, <2>2 DEF Goto, Others, RequestState
            <3> QED BY <1>2, <3>1 DEF CreationKnows
      <2> QED BY <1>7, <2>1, <2>2 DEF CheckLastOwner
<1>8. CASE UNCHANGED vars
      BY <1>1, <1>8 DEF vars, CreationsKnow, CreationKnows
<1>9. ASSUME NEW r \in Request,
             \/ \E ro \in Role, e \in Email : FindRole(r, ro, e)
             \/ \E u \in User, ro \in Role : FindForUpdate(r, u, ro)
             \/ \E u, a \in User, st \in Status : FindForStatus(r, u, st, a)
             \/ \E u \in User : FindForDelete(r, u)
      PROVE  CreationsKnow'
      <2>1. ASSUME NEW ro \in Role, NEW e \in Email, FindRole(r, ro, e)
            PROVE  CreationsKnow'
            BY <1>4, <2>1 DEF FindRole
      <2>2. ASSUME NEW u \in User, NEW ro \in Role, FindForUpdate(r, u, ro)
            PROVE  CreationsKnow'
            BY <1>4, <2>2 DEF FindForUpdate
      <2>3. ASSUME NEW u \in User, NEW a \in User, NEW st \in Status,
                   FindForStatus(r, u, st, a)
            PROVE  CreationsKnow'
            BY <1>4, <2>3 DEF FindForStatus
      <2>4. ASSUME NEW u \in User, FindForDelete(r, u) PROVE CreationsKnow'
            BY <1>4, <2>4 DEF FindForDelete
      <2> QED BY <1>9, <2>1, <2>2, <2>3, <2>4
<1>10. ASSUME NEW r \in Request,
              \/ InsertUser(r) \/ UpdateRole(r) \/ UpdateStatus(r)
              \/ SoftDelete(r) \/ Fail(r)
       PROVE  CreationsKnow'
      BY <1>3, <1>10 DEF InsertUser, UpdateRole, UpdateStatus, SoftDelete, Fail,
                         Finish, Disturb
<1> QED BY <1>5, <1>6, <1>7, <1>8, <1>9, <1>10 DEF Next

LEMMA InvStep == UsersInv /\ [Next]_vars => UsersInv' /\ Steps
BY NextSteps, NumberStep, DeletionStep, CreationStep DEF UsersInv

LEMMA Invariance == Spec => []UsersInv
BY InitInv, InvStep, PTL DEF Spec

(* Rows and requests are always of their types: only rows are deleted, and   *)
(* no number exceeds the bound.                                              *)
THEOREM TypeCorrect == Spec => []TypeOK
BY Invariance, PTL DEF UsersInv

(* However creations race and whoever is deleted, the numbers given out are  *)
(* 1, 2, 3, ... without a gap and each to one user.                          *)
THEOREM NumbersHaveNoGap == Spec => []NipsAreConsecutive
BY Invariance, PTL DEF UsersInv

(* No request writes to a user who was deleted after it had found them.      *)
THEOREM DeletionIsFinal == Spec => DeletedAreFrozen
<1> DEFINE Frozen == \A u \in deleted :
              /\ u \in deleted'
              /\ <<role[u], status[u], nip[u], email[u]>>' =
                 <<role[u], status[u], nip[u], email[u]>>
<1>1. UsersInv /\ [Next]_vars => Frozen
      <2> SUFFICES ASSUME UsersInv, [Next]_vars PROVE Frozen
          OBVIOUS
      <2>1. Steps /\ TypeOK
            BY InvStep DEF UsersInv
      <2>2. CASE UNCHANGED columns
            BY <2>2 DEF columns
      <2>3. ASSUME NEW r \in Request, Inserts(r) PROVE Frozen
            BY <2>1, <2>3 DEF Inserts, InsertUser, TypeOK
      <2>4. ASSUME NEW r \in Request, Changes(r) PROVE Frozen
            BY <2>1, <2>4 DEF Changes, UpdateRole, UpdateStatus, SoftDelete,
                              Present, TypeOK
      <2>5. \/ UNCHANGED columns
            \/ \E r \in Request : Inserts(r) \/ Changes(r)
            BY <2>1 DEF Steps, Starts, Ends, Numbers, Checks, vars, columns
      <2> QED BY <2>2, <2>3, <2>4, <2>5
<1>2. UsersInv /\ [Next]_vars
        => [\A u \in deleted :
              /\ u \in deleted'
              /\ <<role[u], status[u], nip[u], email[u]>>' =
                 <<role[u], status[u], nip[u], email[u]>>]_vars
      BY <1>1
<1> QED BY <1>2, Invariance, PTL DEF Spec, DeletedAreFrozen

(* The table changes as Personnel says, one person at a time and with the    *)
(* numbers of a counter, though each request reads and writes it in steps.   *)
THEOREM ImplementsPersonnel == Spec => PersonnelSpec
<1>1. Init => Staff!Init
      <2> SUFFICES ASSUME Init PROVE Staff!Init
          OBVIOUS
      <2>1. Numbered = {}
            BY UsersAssumption DEF Init, Numbered
      <2> QED BY <2>1, FS_EmptySet DEF Init, Staff!Init
<1>2. UsersInv /\ [Next]_vars => [Staff!Next]_(Staff!vars)
      <2> SUFFICES ASSUME UsersInv, [Next]_vars PROVE [Staff!Next]_(Staff!vars)
          OBVIOUS
      <2>1. Steps /\ TypeOK /\ CreationsKnow
            BY InvStep DEF UsersInv
      <2>2. CASE UNCHANGED columns
            BY <2>2 DEF columns, Staff!vars, Numbered
      <2>3. ASSUME NEW r \in Request, Inserts(r) PROVE Staff!Next
            <3> DEFINE n == req[r].nip  w == NewUser
            <3>1. /\ w \in User \ rows /\ req[r].email \in Email
                  /\ req[r].role \in Role /\ (n = 0 <=> req[r].role = "OWNER")
                  /\ \A v \in rows : email[v] # req[r].email
                  BY <2>1, <2>3 DEF Inserts, CreationsKnow, CreationKnows, Unique,
                                    TypeOK, RequestState
            <3>2. /\ rows' = rows \union {w} /\ role' = [role EXCEPT ![w] = req[r].role]
                  /\ status' = [status EXCEPT ![w] = "ACTIVE"]
                  /\ email' = [email EXCEPT ![w] = req[r].email]
                  /\ nip' = [nip EXCEPT ![w] = n] /\ deleted' = deleted
                  BY <2>3 DEF Inserts, InsertUser
            <3>3. /\ n = 0 => Cardinality(Numbered') = Cardinality(Numbered)
                  /\ n # 0 => /\ n = Cardinality(Numbered) + 1
                              /\ Cardinality(Numbered') = Cardinality(Numbered) + 1
                  BY <2>3, InsertNumber
            <3> HIDE DEF n, w
            <3>4. Staff!Hire(w, req[r].role, req[r].email)
                  <4>1. CASE n = 0
                        BY <3>1, <3>2, <3>3, <4>1 DEF Staff!Hire
                  <4>2. CASE n # 0
                        BY <3>1, <3>2, <3>3, <4>2 DEF Staff!Hire
                  <4> QED BY <4>1, <4>2
            <3> QED BY <3>1, <3>4 DEF Staff!Next
      <2>4. ASSUME NEW r \in Request, Changes(r) PROVE Staff!Next
            <3> DEFINE u == req[r].user
            <3>1. /\ u \in User /\ u \in rows \ deleted
                  /\ req[r].role \in Role /\ req[r].status \in Status
                  BY <2>1, <2>4 DEF Changes, Present, TypeOK, RequestState
            <3>2. UNCHANGED <<rows, email, nip>> /\ Numbered' = Numbered
                  BY <2>4 DEF Changes, UpdateRole, UpdateStatus, SoftDelete, Numbered
            <3>3. CASE UpdateRole(r)
                  BY <2>4, <3>1, <3>2, <3>3
                     DEF Changes, UpdateRole, Staff!Next, Staff!Move, Staff!Present
            <3>4. CASE UpdateStatus(r)
                  BY <2>4, <3>1, <3>2, <3>4 DEF Changes, UpdateStatus, Staff!Next,
                     Staff!SetStatus, Staff!Present
            <3>5. CASE SoftDelete(r)
                  BY <2>4, <3>1, <3>2, <3>5 DEF Changes, SoftDelete, Present,
                     Staff!Next, Staff!Leave, Staff!Present
            <3> QED BY <2>4, <3>3, <3>4, <3>5 DEF Changes
      <2>5. \/ UNCHANGED columns
            \/ \E r \in Request : Inserts(r) \/ Changes(r)
            BY <2>1 DEF Steps, Starts, Ends, Numbers, Checks, vars, columns
      <2> QED BY <2>2, <2>3, <2>4, <2>5
<1> QED BY <1>1, <1>2, Invariance, PTL DEF Spec, PersonnelSpec, Staff!Spec

(* A deletion that nothing overtakes does not take the last active OWNER.    *)
THEOREM OwnerIsLeft == Spec => UndisturbedDeleteKeepsOwner
<1>1. ASSUME UsersInv, [Next]_vars, NEW r \in Request,
             req[r].pc = "softDeleting", r \notin disturbed,
             deleted' # deleted, req'[r].pc = "idle", ActiveOwners # {}
      PROVE  ActiveOwners' # {}
      <2>1. Steps /\ KnowsRole(r) /\ OthersLeft(r)
            BY <1>1, InvStep DEF UsersInv, DeletionsKnow
      <2>2. PICK q \in Request : Changes(q) /\ SoftDelete(q)
            BY <1>1, <2>1
               DEF Steps, Starts, Ends, Numbers, Checks, Inserts, InsertUser,
                   Changes, UpdateRole, UpdateStatus, vars, columns
      <2>3. q = r
            BY <1>1, <2>2 DEF Changes, Others
      <2>4. /\ Present' = Present \ {req[r].user}
            /\ UNCHANGED <<role, status>>
            BY <2>2, <2>3 DEF Changes, SoftDelete, Present
      <2>5. \E v \in ActiveOwners : v # req[r].user
            BY <1>1, <2>1 DEF KnowsRole, OthersLeft, ActiveOwners
      <2> QED BY <2>4, <2>5 DEF ActiveOwners
<1>2. UsersInv /\ [Next]_vars
        => [\A r \in Request :
              /\ req[r].pc = "softDeleting" /\ r \notin disturbed
              /\ deleted' # deleted /\ req'[r].pc = "idle"
              /\ ActiveOwners # {}
              => ActiveOwners' # {}]_vars
      BY <1>1
<1> QED BY <1>2, Invariance, PTL DEF Spec, UndisturbedDeleteKeepsOwner

-----------------------------------------------------------------------------
(* The list.  A walk is a client of Users: its steps change no row.          *)
LEMMA ListStep == [UserListNext]_<<vars, walk, lists>> => [Next]_vars
BY DEF UserListNext, BeginWalk, FindRows, CountRows, NextPage, EndWalk

(* With a client that reads the list, the users are as without it, and what  *)
(* is proved above holds.                                                    *)
THEOREM ListLeavesUsers == UserListSpec => Spec
<1>1. UserListInit => Init
      BY DEF UserListInit
<1> QED BY <1>1, ListStep, PTL DEF UserListSpec, Spec

(* The place up to which the walk has read.                                  *)
Read == IF walk.rowsQuery = "answered" THEN Skip(walk.page) + Limit
                                       ELSE Skip(walk.page)

(* Who has not been listed comes after what was read, unless a deletion has  *)
(* moved them up; who has been listed does not, unless a creation has moved  *)
(* them down.                                                                *)
UnlistedAhead ==
  ~walk.deleted => \A u \in walk.since \ walk.listed : Rank(u) > Read

ListedBehind ==
  ~walk.created => /\ ~walk.twice
                   /\ \A u \in walk.listed \intersect Present : Rank(u) <= Read

(* The number of users that was counted is not less than that of the rows.   *)
CountCovers ==
  ~walk.deleted /\ ~walk.split /\ walk.countQuery = "answered" =>
    IF walk.rowsQuery = "asked"
    THEN walk.total = Cardinality(Present)
    ELSE walk.since \subseteq walk.listed \/ walk.total > Read

Walking == /\ walk.page > 0
           /\ {walk.rowsQuery, walk.countQuery} \subseteq {"asked", "answered"}
           /\ walk.since \subseteq Present
           /\ UnlistedAhead /\ ListedBehind /\ CountCovers

WalkInv == UserListTypeOK /\ (walk = NoWalk \/ Walking)

LEMMA SkipFacts ==
  ASSUME NEW p \in Nat \ {0}
  PROVE  /\ Skip(p) \in Nat /\ Limit \in Nat /\ Skip(1) = 0
         /\ Skip(p + 1) = Skip(p) + Limit
         /\ \A n \in Nat : p >= TotalPages(n) => n <= Skip(p) + Limit
<1>1. Limit \in Nat \ {0}
      BY UserListAssumption
<1>2. /\ (p - 1) * Limit \in Nat /\ (1 - 1) * Limit = 0
      /\ (p + 1 - 1) * Limit = (p - 1) * Limit + Limit
      /\ (p - 1) * Limit + Limit = p * Limit
      BY <1>1
<1>3. ASSUME NEW n \in Nat, p >= (n + Limit - 1) \div Limit PROVE p * Limit >= n
      BY <1>1, <1>3
<1> QED BY <1>1, <1>2, <1>3 DEF Skip, TotalPages

LEMMA RankFacts ==
  ASSUME IsFiniteSet(Present)
  PROVE  /\ Cardinality(Present) \in Nat
         /\ \A u : Rank(u) \in Nat /\ Rank(u) <= Cardinality(Present)
         /\ TypeOK => \A u \in Present : Rank(u) > 0
<1>1. ASSUME NEW u
      PROVE  /\ Rank(u) \in Nat /\ Rank(u) <= Cardinality(Present)
      <2> DEFINE B == {v \in Present : Position[v] <= Position[u]}
      <2>1. B \subseteq Present
            OBVIOUS
      <2> HIDE DEF B
      <2>2. IsFiniteSet(B) /\ Cardinality(B) <= Cardinality(Present)
            BY <2>1, FS_Subset
      <2>3. Cardinality(B) \in Nat
            BY <2>2, FS_CardinalityType
      <2> QED BY <2>2, <2>3 DEF Rank, B
<1>2. ASSUME TypeOK, NEW u \in Present PROVE Rank(u) > 0
      <2> DEFINE B == {v \in Present : Position[v] <= Position[u]}
      <2>1. u \in B
            <3>1. u \in User
                  BY <1>2 DEF TypeOK, Present
            <3>2. Position[u] \in Nat
                  BY <3>1, UserListAssumption
            <3> QED BY <3>2
      <2>2. B \subseteq Present
            OBVIOUS
      <2>3. Rank(u) = Cardinality(B) /\ Rank(u) \in Nat
            BY <1>1 DEF Rank
      <2> HIDE DEF B
      <2>4. IsFiniteSet(B)
            BY <2>2, FS_Subset
      <2>5. Cardinality(B) # 0
            BY <2>1, <2>4, FS_EmptySet
      <2> QED BY <2>3, <2>5
<1> QED BY <1>1, <1>2, FS_CardinalityType

LEMMA RankGrows ==
  ASSUME IsFiniteSet(Present'), Present \subseteq Present'
  PROVE  \A u : Rank(u) <= Rank(u)'
<1> SUFFICES ASSUME NEW u PROVE Rank(u) <= Rank(u)'
    OBVIOUS
<1> DEFINE B == {v \in Present : Position[v] <= Position[u]}
           C == {v \in Present' : Position[v] <= Position[u]}
<1>1. B \subseteq C /\ C \subseteq Present'
      OBVIOUS
<1> HIDE DEF B, C
<1>2. IsFiniteSet(C)
      BY <1>1, FS_Subset
<1>3. Cardinality(B) <= Cardinality(C)
      BY <1>1, <1>2, FS_Subset
<1>4. Rank(u) = Cardinality(B) /\ Rank(u)' = Cardinality(C)
      BY DEF Rank, B, C
<1> QED BY <1>3, <1>4

LEMMA RankShrinks ==
  ASSUME IsFiniteSet(Present), Present' \subseteq Present
  PROVE  \A u : Rank(u)' <= Rank(u)
<1> SUFFICES ASSUME NEW u PROVE Rank(u)' <= Rank(u)
    OBVIOUS
<1> DEFINE B == {v \in Present : Position[v] <= Position[u]}
           C == {v \in Present' : Position[v] <= Position[u]}
<1>1. C \subseteq B /\ B \subseteq Present
      OBVIOUS
<1> HIDE DEF B, C
<1>2. IsFiniteSet(B)
      BY <1>1, FS_Subset
<1>3. Cardinality(C) <= Cardinality(B)
      BY <1>1, <1>2, FS_Subset
<1>4. Rank(u) = Cardinality(B) /\ Rank(u)' = Cardinality(C)
      BY DEF Rank, B, C
<1> QED BY <1>3, <1>4

(* What happens to the users while a client reads them.                      *)
LEMMA WatchStep ==
  ASSUME UsersInv, UsersInv', WalkInv, Next, Watch, UNCHANGED lists
  PROVE  WalkInv'
<1>1. TypeOK /\ TypeOK' /\ walk \in WalkState /\ lists \in BOOLEAN
      BY DEF UsersInv, WalkInv, UserListTypeOK
<1>2. CASE walk.page = 0
      <2>1. walk' = walk
            BY <1>2 DEF Watch
      <2>2. walk = NoWalk
            BY <1>2 DEF WalkInv, Walking
      <2> QED BY <1>1, <2>1, <2>2 DEF WalkInv, UserListTypeOK
<1>3. CASE walk.page # 0
      <2>1. /\ walk' = [walk EXCEPT !.since = @ \intersect Present',
                          !.created = @ \/ rows' # rows,
                          !.deleted = @ \/ deleted' # deleted,
                          !.split = @ \/ /\ rows' # rows
                                         /\ walk.countQuery = "answered"
                                         /\ walk.rowsQuery = "asked"]
            BY <1>3 DEF Watch
      <2>2. /\ Walking
            /\ walk.page \in Nat \ {0} /\ walk.since \subseteq Present
            BY <1>1, <1>3 DEF WalkInv, Walking, NoWalk, WalkState
      <2>3. /\ walk' \in WalkState
            /\ walk'.page = walk.page /\ walk'.total = walk.total
            /\ walk'.rowsQuery = walk.rowsQuery /\ walk'.countQuery = walk.countQuery
            /\ walk'.listed = walk.listed
            /\ walk'.twice = walk.twice
            /\ walk'.since = walk.since \intersect Present'
            /\ ~walk'.created => ~walk.created /\ rows' = rows
            /\ ~walk'.deleted => ~walk.deleted /\ deleted' = deleted
            /\ ~walk'.split => /\ ~walk.split
                               /\ \/ rows' = rows
                                  \/ walk.countQuery # "answered"
                                  \/ walk.rowsQuery # "asked"
            BY <1>1, <2>1 DEF WalkState
      <2>4. rows \subseteq rows' /\ deleted \subseteq deleted'
            <3>1. Steps
                  BY <1>1, NextSteps
            <3> QED BY <3>1 DEF Steps, Starts, Ends, Numbers, Checks, Inserts,
                       InsertUser, Changes, UpdateRole, UpdateStatus, SoftDelete,
                       vars, columns
      <2>5. /\ deleted' = deleted => Present \subseteq Present'
            /\ rows' = rows => Present' \subseteq Present
            BY <2>4 DEF Present
      <2>6. IsFiniteSet(Present) /\ IsFiniteSet(Present')
            BY FS_Subset DEF UsersInv, Present
      <2>7. Read' = Read /\ Read \in Nat
            <3>1. Skip(walk.page) \in Nat /\ Limit \in Nat
                  BY <2>2, SkipFacts
            <3>2. Skip(walk'.page) = Skip(walk.page)
                  BY <2>3
            <3> QED BY <2>3, <3>1, <3>2 DEF Read
      <2>8. /\ \A u : Rank(u) \in Nat /\ Rank(u)' \in Nat
            /\ Present \subseteq Present' => \A u : Rank(u) <= Rank(u)'
            /\ Present' \subseteq Present => \A u : Rank(u)' <= Rank(u)
            <3>1. \A u : Rank(u) \in Nat
                  BY <2>6, RankFacts
            <3>2. \A u : Rank(u)' \in Nat
                  <4> SUFFICES ASSUME NEW u PROVE Rank(u)' \in Nat
                      OBVIOUS
                  <4> DEFINE C == {v \in Present' : Position[v] <= Position[u]}
                  <4>1. C \subseteq Present'
                        OBVIOUS
                  <4> HIDE DEF C
                  <4>2. Cardinality(C) \in Nat
                        BY <2>6, <4>1, FS_Subset, FS_CardinalityType
                  <4> QED BY <4>2 DEF Rank, C
            <3> QED BY <2>6, <3>1, <3>2, RankGrows, RankShrinks
      <2>9. UnlistedAhead'
            BY <2>2, <2>3, <2>5, <2>7, <2>8 DEF UnlistedAhead, Walking
      <2>10. ListedBehind'
            BY <2>2, <2>3, <2>5, <2>7, <2>8 DEF ListedBehind, Walking
      <2>11. CountCovers'
            <3> SUFFICES ASSUME ~walk'.deleted, ~walk'.split,
                                walk'.countQuery = "answered"
                         PROVE  IF walk'.rowsQuery = "asked"
                                THEN walk'.total = Cardinality(Present')
                                ELSE \/ walk'.since \subseteq walk'.listed
                                     \/ walk'.total > Read'
                BY DEF CountCovers
            <3>1. IF walk.rowsQuery = "asked"
                  THEN walk.total = Cardinality(Present)
                  ELSE walk.since \subseteq walk.listed \/ walk.total > Read
                  BY <2>2, <2>3 DEF Walking, CountCovers
            <3>2. walk.rowsQuery = "asked" => Present' = Present
                  BY <2>3, <2>5
            <3> QED BY <2>3, <2>7, <3>1, <3>2
      <2>12. Walking'
            BY <2>2, <2>3, <2>9, <2>10, <2>11 DEF Walking
      <2> QED BY <1>1, <2>3, <2>12 DEF WalkInv, UserListTypeOK
<1> QED BY <1>2, <1>3

(* The steps of the client.                                                  *)
LEMMA ClientStep ==
  ASSUME UsersInv, WalkInv, UNCHANGED <<vars, lists>>,
         BeginWalk \/ FindRows \/ CountRows \/ NextPage \/ EndWalk
  PROVE  WalkInv'
<1>1. /\ TypeOK /\ walk \in WalkState /\ lists \in BOOLEAN
      BY DEF UsersInv, WalkInv, UserListTypeOK
<1>2. /\ TypeOK' /\ lists' \in BOOLEAN
      /\ Present' = Present /\ \A u : Rank(u)' = Rank(u)
      /\ Present \in SUBSET User
      BY <1>1 DEF TypeOK, vars, Present, Rank
<1>3. /\ Cardinality(Present) \in Nat
      /\ \A u : Rank(u) \in Nat /\ Rank(u) <= Cardinality(Present)
      /\ \A u \in Present : Rank(u) > 0
      <2>1. IsFiniteSet(Present)
            BY FS_Subset DEF UsersInv, Present
      <2> QED BY <1>1, <2>1, RankFacts
<1>4. ASSUME walk' \in WalkState, walk' = NoWalk \/ Walking'
      PROVE  WalkInv'
      BY <1>2, <1>4 DEF WalkInv, UserListTypeOK, NoWalk
<1>5. CASE BeginWalk
      <2>1. /\ walk' = [NoWalk EXCEPT !.page = 1, !.rowsQuery = "asked",
                                      !.countQuery = "asked", !.since = Present]
            BY <1>5 DEF BeginWalk
      <2>2. /\ walk' \in WalkState
            /\ walk'.page = 1 /\ walk'.rowsQuery = "asked"
            /\ walk'.countQuery = "asked" /\ walk'.since = Present
            /\ walk'.listed = {} /\ walk'.twice = FALSE
            BY <1>2, <2>1 DEF NoWalk, WalkState, Query
      <2>3. Read' = 0
            BY <2>2, SkipFacts DEF Read
      <2>4. Walking'
            BY <1>2, <1>3, <2>2, <2>3
               DEF Walking, UnlistedAhead, ListedBehind, CountCovers
      <2> QED BY <1>4, <2>2, <2>4
<1>6. CASE EndWalk
      BY <1>4, <1>6 DEF EndWalk, NoWalk, WalkState, Query
<1>7. ASSUME FindRows \/ CountRows \/ NextPage
      PROVE  /\ Walking /\ walk.page \in Nat \ {0} /\ walk.since \subseteq Present
             /\ Skip(walk.page) \in Nat /\ Limit \in Nat
             /\ Skip(walk.page + 1) = Skip(walk.page) + Limit
      <2>1. Walking
            BY <1>7 DEF FindRows, CountRows, NextPage, Answered, WalkInv, NoWalk
      <2>2. walk.page \in Nat \ {0}
            BY <1>1, <2>1 DEF Walking, WalkState
      <2> QED BY <2>1, <2>2, SkipFacts DEF Walking
<1>8. CASE FindRows
      <2> DEFINE P == Page(walk.page)
                 s == Skip(walk.page)
      <2>1. /\ walk.rowsQuery = "asked"
            /\ walk' = [walk EXCEPT !.rowsQuery = "answered",
                                    !.twice = @ \/ walk.listed \intersect P # {},
                                    !.listed = @ \union P]
            BY <1>8 DEF FindRows
      <2>2. /\ P \subseteq Present
            /\ \A u \in Present : u \in P <=> Rank(u) > s /\ Rank(u) <= s + Limit
            BY DEF Page
      <2>3. Walking /\ s \in Nat /\ Limit \in Nat /\ Read = s
            BY <1>7, <1>8, <2>1 DEF Read
      <2> HIDE DEF P
      <2>4. /\ walk' \in WalkState
            /\ walk'.page = walk.page /\ walk'.total = walk.total
            /\ walk'.rowsQuery = "answered" /\ walk'.countQuery = walk.countQuery
            /\ walk'.listed = walk.listed \union P /\ walk'.since = walk.since
            /\ walk'.twice <=> walk.twice \/ walk.listed \intersect P # {}
            /\ walk'.created = walk.created /\ walk'.deleted = walk.deleted
            /\ walk'.split = walk.split
            BY <1>1, <1>2, <2>1, <2>2 DEF WalkState, Query
      <2>5. Read' = s + Limit
            BY <2>4 DEF Read
      <2> HIDE DEF s
      <2>6. ASSUME ~walk.deleted, NEW u \in walk.since \ walk'.listed
            PROVE  Rank(u) > s + Limit
            <3>1. u \in Present /\ u \notin P /\ Rank(u) > s
                  BY <2>3, <2>4, <2>6 DEF Walking, UnlistedAhead
            <3> QED BY <1>3, <2>2, <2>3, <3>1
      <2>7. UnlistedAhead'
            BY <1>2, <2>4, <2>5, <2>6 DEF UnlistedAhead
      <2>8. ListedBehind'
            <3> SUFFICES ASSUME ~walk.created
                         PROVE  /\ ~walk'.twice
                                /\ \A u \in walk'.listed \intersect Present :
                                     Rank(u) <= s + Limit
                BY <1>2, <2>4, <2>5 DEF ListedBehind
            <3>1. ~walk.twice /\ \A u \in walk.listed \intersect Present : Rank(u) <= s
                  BY <2>3 DEF Walking, ListedBehind
            <3>2. walk.listed \intersect P = {}
                  BY <1>3, <2>2, <2>3, <3>1
            <3> QED BY <1>3, <2>2, <2>3, <2>4, <3>1, <3>2
      <2>9. CountCovers'
            <3> SUFFICES ASSUME ~walk.deleted, ~walk.split,
                                walk.countQuery = "answered",
                                NEW u \in walk.since, u \notin walk'.listed
                         PROVE  walk.total > s + Limit
                BY <2>4, <2>5 DEF CountCovers
            <3>1. walk.total = Cardinality(Present)
                  BY <2>1, <2>3 DEF Walking, CountCovers
            <3>2. Rank(u) > s + Limit
                  BY <2>6
            <3> QED BY <1>3, <2>3, <3>1, <3>2
      <2>10. Walking'
            BY <1>2, <2>3, <2>4, <2>7, <2>8, <2>9 DEF Walking
      <2> QED BY <1>4, <2>4, <2>10
<1>9. CASE CountRows
      <2>1. /\ walk.countQuery = "asked"
            /\ walk' = [walk EXCEPT !.countQuery = "answered",
                                    !.total = Cardinality(Present)]
            BY <1>9 DEF CountRows
      <2>2. /\ Walking /\ walk.page \in Nat \ {0}
            BY <1>7, <1>9
      <2>3. /\ walk' \in WalkState
            /\ walk'.page = walk.page /\ walk'.total = Cardinality(Present)
            /\ walk'.rowsQuery = walk.rowsQuery /\ walk'.countQuery = "answered"
            /\ walk'.listed = walk.listed /\ walk'.since = walk.since
            /\ walk'.twice = walk.twice
            /\ walk'.created = walk.created /\ walk'.deleted = walk.deleted
            BY <1>1, <1>3, <2>1 DEF WalkState, Query
      <2>4. Read' = Read /\ Read \in Nat
            BY <1>7, <1>9, <2>3 DEF Read
      <2>5. UnlistedAhead' /\ ListedBehind'
            BY <1>2, <2>2, <2>3, <2>4 DEF Walking, UnlistedAhead, ListedBehind
      <2>6. CountCovers'
            <3> SUFFICES ASSUME ~walk.deleted, NEW u \in walk.since \ walk.listed
                         PROVE  Cardinality(Present) > Read
                BY <1>2, <2>3, <2>4 DEF CountCovers
            <3>1. Rank(u) > Read
                  BY <2>2 DEF Walking, UnlistedAhead
            <3> QED BY <1>3, <2>4, <3>1
      <2>7. Walking'
            BY <1>2, <2>2, <2>3, <2>5, <2>6 DEF Walking
      <2> QED BY <1>4, <2>3, <2>7
<1>10. CASE NextPage
      <2>1. /\ walk.rowsQuery = "answered"
            /\ walk' = [walk EXCEPT !.page = @ + 1, !.rowsQuery = "asked",
                                    !.countQuery = "asked"]
            BY <1>10 DEF NextPage, Answered
      <2>2. /\ Walking /\ walk.page \in Nat \ {0}
            /\ Skip(walk.page + 1) = Skip(walk.page) + Limit
            BY <1>7, <1>10
      <2>3. /\ walk' \in WalkState
            /\ walk'.page = walk.page + 1
            /\ walk'.rowsQuery = "asked" /\ walk'.countQuery = "asked"
            /\ walk'.listed = walk.listed /\ walk'.since = walk.since
            /\ walk'.twice = walk.twice
            /\ walk'.created = walk.created /\ walk'.deleted = walk.deleted
            <3> DEFINE n == walk.page + 1
            <3>1. n \in Nat
                  BY <2>2
            <3>2. walk' = [walk EXCEPT !.page = n, !.rowsQuery = "asked",
                                       !.countQuery = "asked"]
                  BY <2>1
            <3> HIDE DEF n
            <3> QED BY <1>1, <3>1, <3>2 DEF WalkState, Query, n
      <2>4. Read' = Read
            BY <2>1, <2>2, <2>3 DEF Read
      <2>5. UnlistedAhead' /\ ListedBehind'
            BY <1>2, <2>2, <2>3, <2>4 DEF Walking, UnlistedAhead, ListedBehind
      <2>6. CountCovers'
            BY <2>3 DEF CountCovers
      <2>7. Walking'
            BY <1>2, <2>2, <2>3, <2>5, <2>6 DEF Walking
      <2> QED BY <1>4, <2>3, <2>7
<1> QED BY <1>5, <1>6, <1>8, <1>9, <1>10

-----------------------------------------------------------------------------
LEMMA ListInvStep ==
  UsersInv /\ WalkInv /\ [UserListNext]_<<vars, walk, lists>>
    => UsersInv' /\ WalkInv'
<1> SUFFICES ASSUME UsersInv, WalkInv, [UserListNext]_<<vars, walk, lists>>
             PROVE  UsersInv' /\ WalkInv'
    OBVIOUS
<1>1. UsersInv'
      BY ListStep, InvStep
<1>2. CASE Next /\ Watch /\ UNCHANGED lists
      BY <1>1, <1>2, WatchStep
<1>3. CASE /\ UNCHANGED <<vars, lists>>
           /\ BeginWalk \/ FindRows \/ CountRows \/ NextPage \/ EndWalk
      BY <1>1, <1>3, ClientStep
<1>4. CASE UNCHANGED <<vars, walk, lists>>
      <2>1. Present' = Present /\ \A u : Rank(u)' = Rank(u)
            BY <1>4 DEF vars, Present, Rank
      <2>2. Read' = Read
            BY <1>4 DEF Read
      <2>3. Walking => Walking'
            BY <1>4, <2>1, <2>2
               DEF Walking, UnlistedAhead, ListedBehind, CountCovers
      <2>4. UserListTypeOK'
            BY <1>1, <1>4 DEF WalkInv, UserListTypeOK, UsersInv, WalkState
      <2> QED BY <1>1, <1>4, <2>3, <2>4 DEF WalkInv, NoWalk
<1> QED BY <1>1, <1>2, <1>3, <1>4
       DEF UserListNext, BeginWalk, FindRows, CountRows, NextPage, EndWalk

LEMMA ListInvAlways == UserListSpec => [](UsersInv /\ WalkInv)
<1>1. UserListInit => UsersInv /\ WalkInv
      BY InitInv DEF UserListInit, UsersInv, WalkInv, UserListTypeOK, NoWalk,
                     WalkState, Query
<1> QED BY <1>1, ListInvStep, PTL DEF UserListSpec

(* Types, of the users beside a client that reads them and of the client.    *)
THEOREM ListTypeCorrect == UserListSpec => []UserListTypeOK
<1>1. WalkInv => UserListTypeOK
      BY DEF WalkInv
<1> QED BY <1>1, ListInvAlways, PTL

(* Whoever is there all along is on a page, unless somebody is deleted       *)
(* meanwhile or created between the two queries of one page.                 *)
THEOREM WalkIsComplete == UserListSpec => []WalkMissesNobody
<1>1. UsersInv /\ WalkInv => WalkMissesNobody
      <2> SUFFICES ASSUME UsersInv, WalkInv, Done, ~walk.deleted, ~walk.split,
                          ~(walk.since \subseteq walk.listed)
                   PROVE  FALSE
          BY DEF WalkMissesNobody
      <2>1. /\ walk.rowsQuery = "answered" /\ walk.countQuery = "answered"
            /\ walk.page >= TotalPages(walk.total)
            BY DEF Done, Answered
      <2>2. Walking /\ walk.page \in Nat \ {0} /\ walk.total \in Nat
            BY <2>1 DEF WalkInv, UserListTypeOK, Walking, NoWalk, WalkState
      <2>3. walk.total > Read
            BY <2>1, <2>2 DEF Walking, CountCovers
      <2>4. /\ walk.total <= Skip(walk.page) + Limit
            /\ Skip(walk.page) \in Nat /\ Limit \in Nat
            BY <2>1, <2>2, SkipFacts
      <2> QED BY <2>1, <2>2, <2>3, <2>4 DEF Read
<1> QED BY <1>1, ListInvAlways, PTL

(* Nobody is on two pages unless somebody is created meanwhile.              *)
THEOREM WalkIsDistinct == UserListSpec => []WalkRepeatsNobody
<1>1. WalkInv => WalkRepeatsNobody
      BY DEF WalkInv, Walking, ListedBehind, WalkRepeatsNobody, NoWalk
<1> QED BY <1>1, ListInvAlways, PTL
=============================================================================
