------------------------ MODULE InfrastructureProofs ------------------------
(***************************************************************************)
(* Proofs about Infrastructure and the throttle in it, for any keys,       *)
(* attempts, thresholds and requests, any limit of the list and any number *)
(* of connection attempts.                                                 *)
(***************************************************************************)
EXTENDS Infrastructure, FiniteSetTheorems, SequenceTheorems, TLAPS

-----------------------------------------------------------------------------
(* The parts of the inductive invariant.                                     *)
In(k, s) == \E i \in DOMAIN s : s[i] = k

Recording == {"counting", "expiring", "locking"}

(* What a request knows of the counters is of its own keys, and while it     *)
(* counts, of none that it is still to count.                                *)
Good(r) ==
  /\ req[r].pc \notin Recording => \A k \in Key : req[r].got[k] = 0
  /\ \A k \in Key : req[r].got[k] # 0 => In(k, req[r].keys)
  /\ req[r].pc = "counting" =>
       /\ NoDuplicates(req[r].todo)
       /\ \A k \in Key : In(k, req[r].todo) =>
            req[r].got[k] = 0 /\ In(k, req[r].keys)

Lockers(k) == {r \in Request : LockPending(r, k)}
Trimmers == {r \in Request : req[r].pc = "trimming"}

ThrottleInv == /\ TypeOK
               /\ \A r \in Request : Good(r)
               /\ IsFiniteSet(Trimmers)
               /\ \A k \in Key : IsFiniteSet(Lockers(k)) /\ tries[k] <= count[k]
               /\ CountersExpire
               /\ LockComes
               /\ EventsBounded

(* What INCR has told a request of a counter, at least so much it holds, as  *)
(* long as it is the same counter.                                           *)
CountsHeard ==
  \A r \in Request, k \in Key :
    req[r].got[k] # 0 => req[r].got[k] <= count[k] \/ <<r, k>> \in stale

InfrastructureInv == /\ InfrastructureTypeOK /\ ThrottleInv /\ CountsHeard
                     /\ conn # "end" => attempts < MaxAttempts

-----------------------------------------------------------------------------
(* Sequences of keys.                                                        *)
LEMMA TailFacts ==
  ASSUME NEW s \in Seq(Key), s # <<>>
  PROVE  /\ Head(s) \in Key /\ Tail(s) \in Seq(Key)
         /\ \A k : In(k, s) <=> k = Head(s) \/ In(k, Tail(s))
         /\ NoDuplicates(s) =>
              NoDuplicates(Tail(s)) /\ ~In(Head(s), Tail(s))
<1> DEFINE n == Len(s)
<1>1. /\ n \in Nat \ {0} /\ DOMAIN s = 1..n /\ Head(s) = s[1]
      /\ Tail(s) \in Seq(Key) /\ DOMAIN Tail(s) = 1..(n - 1)
      /\ \A i \in 1..(n - 1) : Tail(s)[i] = s[i + 1]
      /\ Head(s) \in Key
      BY HeadTailProperties, EmptySeq, LenProperties
<1> HIDE DEF n
<1>2. ASSUME NEW k, NEW i \in 1..n, s[i] = k, k # Head(s) PROVE In(k, Tail(s))
      <2>1. i - 1 \in 1..(n - 1) /\ i = (i - 1) + 1
            BY <1>1, <1>2
      <2>2. Tail(s)[i - 1] = k
            BY <1>1, <1>2, <2>1
      <2> QED BY <1>1, <2>1, <2>2 DEF In
<1>3. ASSUME NEW k, NEW i \in 1..(n - 1), Tail(s)[i] = k
      PROVE  i + 1 \in 1..n /\ s[i + 1] = k
      BY <1>1, <1>3
<1>4. 1 \in 1..n
      BY <1>1
<1>5. \A k : In(k, s) <=> k = Head(s) \/ In(k, Tail(s))
      BY <1>1, <1>2, <1>3, <1>4 DEF In
<1>6. ASSUME NoDuplicates(s) PROVE NoDuplicates(Tail(s))
      BY <1>1, <1>3, <1>6 DEF NoDuplicates
<1>7. ASSUME NoDuplicates(s), In(Head(s), Tail(s)) PROVE FALSE
      <2>1. PICK i \in 1..(n - 1) : Tail(s)[i] = s[1]
            BY <1>1, <1>7 DEF In
      <2>2. i + 1 \in 1..n /\ s[i + 1] = s[1]
            BY <1>3, <2>1
      <2>3. i + 1 = 1
            BY <1>1, <1>4, <1>7, <2>2 DEF NoDuplicates
      <2> QED BY <2>3
<1> QED BY <1>1, <1>5, <1>6, <1>7

LEMMA EmptyFacts == \A k : ~In(k, <<>>)
BY DEF In

LEMMA KeysFacts ==
  ASSUME TypeOK, NEW r \in Request
  PROVE  /\ req[r].keys \in Seq(Key) /\ NoDuplicates(req[r].keys)
         /\ req[r].todo \in Seq(Key) /\ req[r].got \in [Key -> Nat]
         /\ req[r] \in RequestState
<1>1. req[r] \in RequestState
      BY DEF TypeOK
<1>2. <<>> \in Seq(Key) /\ NoDuplicates(<<>>)
      BY DEF NoDuplicates
<1>3. req[r].keys \in Attempt \union {<<>>}
      BY <1>1 DEF RequestState
<1> QED BY <1>1, <1>2, <1>3, ThrottleAssumption DEF RequestState

-----------------------------------------------------------------------------
(* What the steps do to the requests: all but r stay as they are.            *)
Others(r) == \A q \in Request \ {r} : req'[q] = req[q]

ReqOK == req' \in [Request -> RequestState]

LEMMA IdleFacts ==
  /\ Idle \in RequestState /\ [Idle EXCEPT !.pc = "pushing"] \in RequestState
  /\ Idle.pc = "idle" /\ Idle.keys = <<>> /\ Idle.todo = <<>>
  /\ \A k \in Key : Idle.got[k] = 0
<1>1. <<>> \in Seq(Key)
      OBVIOUS
<1> QED BY <1>1 DEF Idle, RequestState, PC

LEMMA FinishFacts ==
  ASSUME TypeOK, NEW r \in Request, Finish(r)
  PROVE  ReqOK /\ Others(r) /\ req'[r] = Idle
BY IdleFacts DEF TypeOK, Finish, ReqOK, Others

LEMMA ReportFacts ==
  ASSUME TypeOK, NEW r \in Request, Report(r)
  PROVE  /\ ReqOK /\ Others(r)
         /\ req'[r] = [Idle EXCEPT !.pc = "pushing"]
         /\ req'[r].pc = "pushing" /\ req'[r].keys = <<>> /\ req'[r].todo = <<>>
         /\ \A k \in Key : req'[r].got[k] = 0
<1>1. ReqOK /\ Others(r) /\ req'[r] = [Idle EXCEPT !.pc = "pushing"]
      BY IdleFacts DEF TypeOK, Report, ReqOK, Others
<1> QED BY <1>1 DEF Idle

LEMMA PhaseFacts ==
  ASSUME TypeOK, NEW r \in Request, NEW pc \in PC, NEW ks \in Seq(Key),
         Phase(r, pc, ks)
  PROVE  /\ ReqOK /\ Others(r)
         /\ req'[r].pc = pc /\ req'[r].todo = ks
         /\ req'[r].keys = req[r].keys /\ req'[r].got = req[r].got
BY DEF TypeOK, Phase, ReqOK, Others, RequestState

(* A request that has heard of no failure is to set no expiry and no lock.   *)
LEMMA NothingPending ==
  ASSUME NEW r \in Request, NEW k \in Key
  PROVE  /\ req[r].got[k] = 0 => ~ExpirePending(r, k) /\ ~LockPending(r, k)
         /\ req'[r].got[k] = 0 => ~ExpirePending(r, k)' /\ ~LockPending(r, k)'
<1>1. Threshold[k] \in Nat \ {0}
      BY ThrottleAssumption
<1> QED BY <1>1 DEF ExpirePending, LockPending

LEMMA OthersAsBefore ==
  ASSUME NEW r, Others(r), NEW q \in Request \ {r}
  PROVE  /\ Good(q)' <=> Good(q)
         /\ (req[q].pc = "trimming")' <=> (req[q].pc = "trimming")
         /\ \A k \in Key : /\ ExpirePending(q, k)' <=> ExpirePending(q, k)
                           /\ LockPending(q, k)' <=> LockPending(q, k)
<1>1. req'[q] = req[q]
      BY DEF Others
<1> QED BY <1>1 DEF Good, ExpirePending, LockPending, Pending

-----------------------------------------------------------------------------
(* What one request more, or one less, does to a set of requests.            *)
One(b) == IF b THEN 1 ELSE 0

LEMMA OneMoreOrLess ==
  ASSUME NEW S, NEW T, NEW r, IsFiniteSet(S), S \ {r} = T \ {r}
  PROVE  /\ IsFiniteSet(T)
         /\ Cardinality(S) \in Nat /\ Cardinality(T) \in Nat
         /\ Cardinality(T) + One(r \in S) = Cardinality(S) + One(r \in T)
<1> DEFINE U == S \ {r}
<1>1. /\ IsFiniteSet(U) /\ Cardinality(U) \in Nat /\ Cardinality(S) \in Nat
      /\ Cardinality(U) = Cardinality(S) - One(r \in S)
      BY FS_RemoveElement, FS_CardinalityType DEF One
<1>2. T = IF r \in T THEN U \union {r} ELSE U
      OBVIOUS
<1>3. r \notin U
      OBVIOUS
<1> HIDE DEF U
<1>4. CASE r \in T
      <2>1. /\ IsFiniteSet(U \union {r})
            /\ Cardinality(U \union {r}) = Cardinality(U) + 1
            BY <1>1, <1>3, FS_AddElement
      <2>2. T = U \union {r}
            BY <1>2, <1>4
      <2> QED BY <1>1, <1>4, <2>1, <2>2 DEF One
<1>5. CASE r \notin T
      <2>1. T = U
            BY <1>2, <1>5
      <2> QED BY <1>1, <1>5, <2>1 DEF One
<1> QED BY <1>4, <1>5

(* The account of key k after a step of request r, and that of the events:   *)
(* a missing expiry is noted, and the failures and the events have grown by  *)
(* no more than what may still, or will never, be done about them.           *)
ExpiryAccounted(r, k) ==
  count'[k] > 0 /\ k \notin ttl' =>
    \/ k \in orphan' \/ ExpirePending(r, k)'
    \/ /\ count[k] > 0 /\ k \notin ttl
       /\ k \notin orphan /\ ~ExpirePending(r, k)

LockAccounted(r, k) ==
  /\ tries'[k] <= count'[k]
  /\ \/ tries'[k] < Threshold[k] + lost'[k]
     \/ tries'[k] + lost[k] + One(LockPending(r, k))
          <= tries[k] + lost'[k] + One(LockPending(r, k)')

EventsAccounted(r) ==
  \/ events' <= EventLimit + untrimmed'
  \/ events' + untrimmed + One(req[r].pc = "trimming")
       <= events + untrimmed' + One(req'[r].pc = "trimming")

LEMMA Reckoning ==
  ASSUME ThrottleInv, TypeOK', NEW r \in Request, Others(r), Good(r)',
         \A k \in Key : ExpiryAccounted(r, k) /\ LockAccounted(r, k),
         EventsAccounted(r)
  PROVE  ThrottleInv'
<1>1. \A q \in Request : Good(q)'
      BY OthersAsBefore DEF ThrottleInv
<1>2. IsFiniteSet(Trimmers') /\ EventsBounded'
      <2>1. Trimmers \ {r} = Trimmers' \ {r}
            BY OthersAsBefore DEF Trimmers
      <2>2. /\ r \in Trimmers <=> req[r].pc = "trimming"
            /\ r \in Trimmers' <=> req'[r].pc = "trimming"
            BY DEF Trimmers
      <2>3. IsFiniteSet(Trimmers) /\ EventsBounded
            BY DEF ThrottleInv
      <2>4. /\ IsFiniteSet(Trimmers')
            /\ Cardinality(Trimmers) \in Nat /\ Cardinality(Trimmers') \in Nat
            /\ Cardinality(Trimmers') + One(req[r].pc = "trimming")
                 = Cardinality(Trimmers) + One(req'[r].pc = "trimming")
            <3>1. /\ IsFiniteSet(Trimmers')
                  /\ Cardinality(Trimmers) \in Nat /\ Cardinality(Trimmers') \in Nat
                  /\ Cardinality(Trimmers') + One(r \in Trimmers)
                       = Cardinality(Trimmers) + One(r \in Trimmers')
                  BY <2>1, <2>3, OneMoreOrLess, Zenon
            <3>2. /\ One(r \in Trimmers) = One(req[r].pc = "trimming")
                  /\ One(r \in Trimmers') = One(req'[r].pc = "trimming")
                  BY <2>2 DEF One
            <3> QED BY <3>1, <3>2
      <2>5. events <= EventLimit + untrimmed + Cardinality(Trimmers)
            BY <2>3 DEF EventsBounded, Trimmers
      <2>6. events' <= EventLimit + untrimmed' + Cardinality(Trimmers')
            <3>1. /\ events \in Nat /\ events' \in Nat /\ EventLimit \in Nat
                  /\ untrimmed \in Nat /\ untrimmed' \in Nat
                  BY ThrottleAssumption DEF ThrottleInv, TypeOK
            <3> DEFINE a == One(req[r].pc = "trimming")
                       b == One(req'[r].pc = "trimming")
                       e == events'
                       u == untrimmed'
                       S == Cardinality(Trimmers)
                       T == Cardinality(Trimmers')
            <3>2. e <= EventLimit + u \/ e + untrimmed + a <= events + u + b
                  BY DEF EventsAccounted
            <3>3. /\ a \in Nat /\ b \in Nat /\ S \in Nat /\ T \in Nat
                  /\ T + a = S + b /\ e \in Nat /\ u \in Nat
                  BY <2>4, <3>1 DEF One
            <3>4. events <= EventLimit + untrimmed + S
                  BY <2>5
            <3> HIDE DEF a, b, e, u, S, T
            <3>5. e <= EventLimit + u + T
                  BY <3>1, <3>2, <3>3, <3>4
            <3> QED BY <3>5 DEF e, u, T
      <2> QED BY <2>4, <2>6 DEF EventsBounded, Trimmers
<1>3. ASSUME NEW k \in Key
      PROVE  /\ IsFiniteSet(Lockers(k)') /\ tries'[k] <= count'[k]
             /\ tries'[k] < Threshold[k] + lost'[k] + Cardinality(Lockers(k)')
      <2>1. Lockers(k) \ {r} = Lockers(k)' \ {r}
            BY OthersAsBefore DEF Lockers
      <2>2. /\ r \in Lockers(k) <=> LockPending(r, k)
            /\ r \in Lockers(k)' <=> LockPending(r, k)'
            BY DEF Lockers
      <2>3. IsFiniteSet(Lockers(k)) /\ LockComes
            BY DEF ThrottleInv
      <2>4. /\ IsFiniteSet(Lockers(k)')
            /\ Cardinality(Lockers(k)) \in Nat /\ Cardinality(Lockers(k)') \in Nat
            /\ Cardinality(Lockers(k)') + One(LockPending(r, k))
                 = Cardinality(Lockers(k)) + One(LockPending(r, k)')
            <3>1. /\ IsFiniteSet(Lockers(k)')
                  /\ Cardinality(Lockers(k)) \in Nat /\ Cardinality(Lockers(k)') \in Nat
                  /\ Cardinality(Lockers(k)') + One(r \in Lockers(k))
                       = Cardinality(Lockers(k)) + One(r \in Lockers(k)')
                  BY <2>1, <2>3, OneMoreOrLess, Zenon
            <3>2. /\ One(r \in Lockers(k)) = One(LockPending(r, k))
                  /\ One(r \in Lockers(k)') = One(LockPending(r, k)')
                  BY <2>2 DEF One
            <3> QED BY <3>1, <3>2
      <2>5. tries[k] < Threshold[k] + lost[k] + Cardinality(Lockers(k))
            BY <2>3 DEF LockComes, Lockers
      <2>6. /\ tries[k] \in Nat /\ tries'[k] \in Nat /\ Threshold[k] \in Nat
            /\ lost[k] \in Nat /\ lost'[k] \in Nat
            BY ThrottleAssumption DEF ThrottleInv, TypeOK
      <2>7. LockAccounted(r, k)
            OBVIOUS
      <2>8. tries'[k] < Threshold[k] + lost'[k] + Cardinality(Lockers(k)')
            <3> DEFINE a == LockPending(r, k)
                       b == LockPending(r, k)'
            <3>1. \/ tries'[k] < Threshold[k] + lost'[k]
                  \/ tries'[k] + lost[k] + One(a) <= tries[k] + lost'[k] + One(b)
                  BY <2>7 DEF LockAccounted
            <3>2. /\ One(a) \in Nat /\ One(b) \in Nat
                  /\ Cardinality(Lockers(k)') + One(a)
                       = Cardinality(Lockers(k)) + One(b)
                  BY <2>4 DEF One
            <3> HIDE DEF a, b
            <3> QED BY <2>4, <2>5, <2>6, <3>1, <3>2
      <2> QED BY <2>4, <2>7, <2>8 DEF LockAccounted
<1>4. LockComes'
      BY <1>3 DEF LockComes, Lockers
<1>5. CountersExpire'
      <2> SUFFICES ASSUME NEW k \in Key, count'[k] > 0, k \notin ttl'
                   PROVE  k \in orphan' \/ \E q \in Request : ExpirePending(q, k)'
          BY DEF CountersExpire
      <2>1. ExpiryAccounted(r, k)
            OBVIOUS
      <2>2. CASE /\ count[k] > 0 /\ k \notin ttl
                 /\ k \notin orphan /\ ~ExpirePending(r, k)
            <3>1. PICK q \in Request : ExpirePending(q, k)
                  BY <2>2 DEF ThrottleInv, CountersExpire
            <3>2. q # r
                  BY <2>2, <3>1
            <3>3. ExpirePending(q, k)'
                  BY <3>1, <3>2, OthersAsBefore
            <3> QED BY <3>3
      <2> QED BY <2>1, <2>2 DEF ExpiryAccounted
<1> QED BY <1>1, <1>2, <1>3, <1>4, <1>5 DEF ThrottleInv

-----------------------------------------------------------------------------
(* The steps that touch neither counters nor events.                         *)
LEMMA QuietStep ==
  ASSUME ThrottleInv, NEW r \in Request,
         UNCHANGED <<count, ttl, events, history>>, lock' \in SUBSET Key,
         ReqOK, Others(r), Good(r)',
         (req[r].pc = "trimming")' <=> (req[r].pc = "trimming"),
         \A k \in Key : /\ ExpirePending(r, k)' <=> ExpirePending(r, k)
                        /\ LockPending(r, k)' <=> LockPending(r, k)
  PROVE  ThrottleInv'
<1>1. TypeOK'
      BY DEF ThrottleInv, TypeOK, history, ReqOK
<1>2. ASSUME NEW k \in Key PROVE ExpiryAccounted(r, k) /\ LockAccounted(r, k)
      <2>1. ExpiryAccounted(r, k)
            <3>1. UNCHANGED <<count, ttl, orphan>>
                  BY DEF history
            <3>2. ~ExpirePending(r, k) => ~ExpirePending(r, k)'
                  OBVIOUS
            <3> QED BY <3>1, <3>2 DEF ExpiryAccounted
      <2>2. LockAccounted(r, k)
            <3>1. One(LockPending(r, k)') = One(LockPending(r, k))
                  BY DEF One
            <3>2. /\ tries'[k] = tries[k] /\ lost'[k] = lost[k]
                  /\ count'[k] = count[k] /\ tries[k] <= count[k]
                  BY DEF ThrottleInv, history
            <3>3. tries[k] \in Nat /\ lost[k] \in Nat /\ One(LockPending(r, k)) \in Nat
                  BY DEF ThrottleInv, TypeOK, One
            <3> QED BY <3>1, <3>2, <3>3 DEF LockAccounted
      <2> QED BY <2>1, <2>2
<1>3. EventsAccounted(r)
      <2>1. One(req'[r].pc = "trimming") = One(req[r].pc = "trimming")
            BY DEF One
      <2>2. events' = events /\ untrimmed' = untrimmed
            BY DEF history
      <2>3. /\ events \in Nat /\ untrimmed \in Nat
            /\ One(req[r].pc = "trimming") \in Nat
            BY ThrottleAssumption DEF ThrottleInv, TypeOK, One
      <2> QED BY <2>1, <2>2, <2>3 DEF EventsAccounted
<1> QED BY <1>1, <1>2, <1>3, Reckoning

(* A request that knows of no failure, before and after.                     *)
LEMMA UnknowingStep ==
  ASSUME ThrottleInv, NEW r \in Request,
         UNCHANGED <<count, ttl, events, history>>, lock' \in SUBSET Key,
         ReqOK, Others(r), req[r].pc # "trimming", req'[r].pc # "trimming",
         \A k \in Key : req[r].got[k] = 0 /\ req'[r].got[k] = 0,
         req'[r].pc = "counting" => req'[r].todo = req'[r].keys
  PROVE  ThrottleInv'
<1>1. Good(r)'
      <2>1. NoDuplicates(req'[r].keys)
            <3>1. req'[r].keys \in Attempt \union {<<>>}
                  BY DEF ReqOK, RequestState
            <3>2. NoDuplicates(<<>>)
                  BY DEF NoDuplicates
            <3> QED BY <3>1, <3>2, ThrottleAssumption
      <2> QED BY <2>1 DEF Good
<1>2. ASSUME NEW k \in Key
      PROVE  /\ ~ExpirePending(r, k) /\ ~ExpirePending(r, k)'
             /\ ~LockPending(r, k) /\ ~LockPending(r, k)'
      BY NothingPending
<1> QED BY <1>1, <1>2, QuietStep

LEMMA PreflightStep ==
  ASSUME ThrottleInv, NEW r \in Request,
         \/ \E ks \in Attempt : Begin(r, ks)
         \/ Refused(r) \/ NotLocked(r) \/ Unthrottled(r)
         \/ Check(r) \/ Unrecorded(r) \/ Unlock(r)
  PROVE  ThrottleInv'
<1>1. /\ UNCHANGED <<count, ttl, events, history>> /\ lock' \in SUBSET Key
      /\ req[r].pc \in {"idle", "preflight", "checking", "unlocking"}
      BY DEF Begin, Refused, NotLocked, Unthrottled, Check, Unrecorded, Unlock,
             redis, Ready, ThrottleInv, TypeOK
<1>2. TypeOK /\ \A k \in Key : req[r].got[k] = 0
      BY <1>1 DEF ThrottleInv, Good, Recording
<1>3. /\ ReqOK /\ Others(r) /\ req'[r].pc # "trimming"
      /\ \A k \in Key : req'[r].got[k] = 0
      /\ req'[r].pc = "counting" => req'[r].todo = req'[r].keys
      <2>1. ASSUME NEW ks \in Attempt, Begin(r, ks) PROVE <1>3
            <3> DEFINE new == [Idle EXCEPT !.pc = "preflight", !.keys = ks, !.todo = ks]
            <3>1. /\ new \in RequestState /\ new.pc = "preflight"
                  /\ \A k \in Key : new.got[k] = 0
                  BY ThrottleAssumption DEF Idle, RequestState, PC
            <3>2. req' = [req EXCEPT ![r] = new]
                  BY <2>1 DEF Begin
            <3> HIDE DEF new
            <3>3. req'[r] = new
                  BY <1>2, <3>2 DEF TypeOK
            <3> QED BY <1>2, <3>1, <3>2, <3>3 DEF TypeOK, ReqOK, Others
      <2>2. CASE Refused(r) \/ Unrecorded(r)
            BY <1>2, <2>2, FinishFacts, IdleFacts DEF Refused, Unrecorded
      <2>3. ASSUME NEW pc \in {"preflight", "checking", "clearing", "unlocking"},
                   NEW ks \in Seq(Key), Phase(r, pc, ks)
            PROVE  <1>3
            <3>1. pc \in PC
                  BY DEF PC
            <3>2. ReqOK /\ Others(r) /\ req'[r].pc = pc /\ req'[r].got = req[r].got
                  BY <1>2, <2>3, <3>1, PhaseFacts
            <3> QED BY <1>2, <3>2
      <2>4. /\ <<>> \in Seq(Key) /\ req[r].keys \in Seq(Key)
            /\ req[r].todo # <<>> => Pass(r) \in Seq(Key)
            BY <1>2, KeysFacts, TailFacts DEF Pass
      <2>5. CASE NotLocked(r)
            BY <2>3, <2>4, <2>5 DEF NotLocked, Advance, Ready
      <2>6. CASE Unthrottled(r)
            BY <2>3, <2>4, <2>6 DEF Unthrottled
      <2>7. CASE Check(r)
            <3>1. CASE Phase(r, "counting", req[r].keys)
                  <4>1. "counting" \in PC
                        BY DEF PC
                  <4>2. /\ ReqOK /\ Others(r) /\ req'[r].pc = "counting"
                        /\ req'[r].got = req[r].got
                        /\ req'[r].todo = req[r].keys /\ req'[r].keys = req[r].keys
                        BY <1>2, <2>4, <3>1, <4>1, PhaseFacts
                  <4> QED BY <1>2, <4>2
            <3>2. CASE Phase(r, "clearing", req[r].keys)
                  BY <2>3, <2>4, <3>2
            <3> QED BY <2>7, <3>1, <3>2 DEF Check
      <2>8. CASE Unlock(r)
            <3>1. CASE Report(r)
                  BY <1>2, <3>1, ReportFacts
            <3>2. CASE Phase(r, "unlocking", Pass(r)) /\ Ready(r, "unlocking")
                  BY <2>3, <2>4, <3>2 DEF Ready
            <3> QED BY <2>8, <3>1, <3>2 DEF Unlock
      <2> QED BY <2>1, <2>2, <2>5, <2>6, <2>7, <2>8
<1> QED BY <1>1, <1>2, <1>3, UnknowingStep

-----------------------------------------------------------------------------
(* The steps of recordLoginFailure and recordRefreshFailure.                 *)
LEMMA NextFacts ==
  ASSUME TypeOK, NEW r \in Request, req[r].todo # <<>>
  PROVE  /\ NextKey(r) \in Key /\ Pass(r) \in Seq(Key)
         /\ \A k : In(k, req[r].todo) <=> k = NextKey(r) \/ In(k, Pass(r))
         /\ NoDuplicates(req[r].todo) =>
              NoDuplicates(Pass(r)) /\ ~In(NextKey(r), Pass(r))
BY KeysFacts, TailFacts DEF NextKey, Pass

(* After the key that is looked at, its lock is all that may be missing.     *)
LEMMA ExpiringStep ==
  ASSUME ThrottleInv, NEW r \in Request, Ready(r, "expiring"),
         Advance(r, "locking", req[r].keys)
  PROVE  /\ ReqOK /\ Others(r) /\ Good(r)'
         /\ req[r].pc # "trimming" /\ req'[r].pc # "trimming"
         /\ \A k \in Key :
              /\ LockPending(r, k)' <=> LockPending(r, k)
              /\ ExpirePending(r, k)' <=> ExpirePending(r, k) /\ In(k, Pass(r))
              /\ ExpirePending(r, k) <=> /\ req[r].got[k] = 1
                                         /\ k = NextKey(r) \/ In(k, Pass(r))
<1>1. /\ TypeOK /\ Good(r) /\ req[r].pc = "expiring" /\ req[r].todo # <<>>
      /\ {"expiring", "locking"} \subseteq PC
      BY DEF ThrottleInv, Ready, PC
<1>2. \A k \in Key : /\ req[r].got[k] \in Nat /\ Threshold[k] \in Nat \ {0}
                     /\ req[r].got[k] # 0 => In(k, req[r].keys)
      BY <1>1, KeysFacts, ThrottleAssumption DEF Good
<1>3. \A k \in Key :
        /\ LockPending(r, k) <=> req[r].got[k] >= Threshold[k]
        /\ ExpirePending(r, k) <=> req[r].got[k] = 1 /\ In(k, req[r].todo)
      BY <1>1 DEF LockPending, ExpirePending, Pending, In
<1>4. \A k : In(k, req[r].todo) <=> k = NextKey(r) \/ In(k, Pass(r))
      BY <1>1, NextFacts
<1>5. CASE Pass(r) = <<>>
      <2>1. Phase(r, "locking", req[r].keys)
            BY <1>5 DEF Advance
      <2>2. /\ ReqOK /\ Others(r) /\ req'[r].pc = "locking"
            /\ req'[r].todo = req[r].keys /\ req'[r].keys = req[r].keys
            /\ req'[r].got = req[r].got
            BY <1>1, <2>1, KeysFacts, PhaseFacts
      <2>3. \A k : ~In(k, Pass(r))
            BY <1>5, EmptyFacts
      <2>4. \A k \in Key :
              /\ LockPending(r, k)' <=> /\ req[r].got[k] >= Threshold[k]
                                        /\ In(k, req[r].keys)
              /\ ~ExpirePending(r, k)'
            BY <2>2 DEF LockPending, ExpirePending, Pending, In
      <2>5. \A k \in Key : LockPending(r, k)' <=> LockPending(r, k)
            BY <1>2, <1>3, <2>4
      <2> QED BY <1>1, <1>2, <1>3, <1>4, <2>2, <2>3, <2>4, <2>5 DEF Good, Recording
<1>6. CASE Pass(r) # <<>>
      <2>1. Phase(r, "expiring", Pass(r))
            BY <1>1, <1>6 DEF Advance
      <2>2. /\ ReqOK /\ Others(r) /\ req'[r].pc = "expiring"
            /\ req'[r].todo = Pass(r) /\ req'[r].keys = req[r].keys
            /\ req'[r].got = req[r].got
            BY <1>1, <2>1, NextFacts, PhaseFacts
      <2>3. \A k \in Key :
              /\ LockPending(r, k)' <=> req[r].got[k] >= Threshold[k]
              /\ ExpirePending(r, k)' <=> req[r].got[k] = 1 /\ In(k, Pass(r))
            BY <2>2 DEF LockPending, ExpirePending, Pending, In
      <2> QED BY <1>1, <1>2, <1>3, <1>4, <2>2, <2>3 DEF Good, Recording
<1> QED BY <1>5, <1>6

LEMMA NotFirstStep ==
  ASSUME ThrottleInv, NEW r \in Request, NotFirst(r)
  PROVE  ThrottleInv'
<1>1. /\ Ready(r, "expiring") /\ Advance(r, "locking", req[r].keys)
      /\ UNCHANGED <<count, ttl, events, history>> /\ lock' \in SUBSET Key
      /\ req[r].got[NextKey(r)] # 1
      BY DEF NotFirst, First, redis, ThrottleInv, TypeOK
<1>2. \A k \in Key : ExpirePending(r, k)' <=> ExpirePending(r, k)
      BY <1>1, ExpiringStep
<1> QED BY <1>1, <1>2, ExpiringStep, QuietStep

LEMMA ExpireStep ==
  ASSUME ThrottleInv, NEW r \in Request, Expire(r)
  PROVE  ThrottleInv'
<1> DEFINE j == NextKey(r)
<1>1. /\ Ready(r, "expiring") /\ Advance(r, "locking", req[r].keys)
      /\ UNCHANGED <<count, lock, events, tries, lost, untrimmed>>
      /\ IF count[j] > 0 THEN ttl' = ttl \union {j} /\ orphan' = orphan \ {j}
                         ELSE UNCHANGED <<ttl, orphan>>
      BY DEF Expire
<1>2. TypeOK /\ j \in Key
      BY <1>1, NextFacts DEF ThrottleInv, Ready
<1> HIDE DEF j
<1>3. TypeOK'
      <2>1. ReqOK
            BY <1>1, ExpiringStep
      <2>2. ttl' \in SUBSET {k \in Key : count[k] > 0} /\ orphan' \in SUBSET Key
            BY <1>1, <1>2 DEF TypeOK
      <2> QED BY <1>1, <1>2, <2>1, <2>2 DEF TypeOK, ReqOK
<1>4. ASSUME NEW k \in Key PROVE ExpiryAccounted(r, k)
      <2>1. /\ ExpirePending(r, k)' <=> ExpirePending(r, k) /\ In(k, Pass(r))
            /\ ExpirePending(r, k) => k = j \/ In(k, Pass(r))
            BY <1>1, ExpiringStep DEF j
      <2> QED BY <1>1, <1>2, <2>1 DEF ExpiryAccounted
<1>5. ASSUME NEW k \in Key PROVE LockAccounted(r, k)
      <2>1. One(LockPending(r, k)') = One(LockPending(r, k))
            BY <1>1, ExpiringStep DEF One
      <2>2. /\ tries'[k] = tries[k] /\ lost'[k] = lost[k]
            /\ count'[k] = count[k] /\ tries[k] <= count[k]
            BY <1>1 DEF ThrottleInv
      <2>3. tries[k] \in Nat /\ lost[k] \in Nat /\ One(LockPending(r, k)) \in Nat
            BY <1>2 DEF TypeOK, One
      <2> QED BY <2>1, <2>2, <2>3 DEF LockAccounted
<1>6. EventsAccounted(r)
      <2>1. req[r].pc # "trimming" /\ req'[r].pc # "trimming"
            BY <1>1, ExpiringStep
      <2>2. events' = events /\ untrimmed' = untrimmed
            BY <1>1
      <2>3. events \in Nat /\ untrimmed \in Nat
            BY <1>2, ThrottleAssumption DEF TypeOK
      <2> QED BY <2>1, <2>2, <2>3 DEF EventsAccounted, One
<1> QED BY <1>1, <1>3, <1>4, <1>5, <1>6, ExpiringStep, Reckoning

LEMMA LockingStep ==
  ASSUME ThrottleInv, NEW r \in Request, Ready(r, "locking"),
         \/ Pass(r) # <<>> /\ Phase(r, "locking", Pass(r))
         \/ Pass(r) = <<>> /\ (Report(r) \/ Finish(r))
  PROVE  /\ ReqOK /\ Others(r) /\ Good(r)'
         /\ req[r].pc # "trimming" /\ req'[r].pc # "trimming"
         /\ \A k \in Key :
              /\ ~ExpirePending(r, k) /\ ~ExpirePending(r, k)'
              /\ LockPending(r, k)' <=> LockPending(r, k) /\ In(k, Pass(r))
              /\ LockPending(r, k) <=> /\ req[r].got[k] >= Threshold[k]
                                       /\ k = NextKey(r) \/ In(k, Pass(r))
<1>1. /\ TypeOK /\ Good(r) /\ req[r].pc = "locking" /\ req[r].todo # <<>>
      /\ "locking" \in PC
      BY DEF ThrottleInv, Ready, PC
<1>2. \A k \in Key : req[r].got[k] # 0 => In(k, req[r].keys)
      BY <1>1 DEF Good
<1>3. \A k \in Key :
        /\ LockPending(r, k) <=> /\ req[r].got[k] >= Threshold[k]
                                 /\ In(k, req[r].todo)
        /\ ~ExpirePending(r, k)
      BY <1>1 DEF LockPending, ExpirePending, Pending, In
<1>4. \A k : In(k, req[r].todo) <=> k = NextKey(r) \/ In(k, Pass(r))
      BY <1>1, NextFacts
<1>5. CASE Pass(r) # <<>> /\ Phase(r, "locking", Pass(r))
      <2>1. /\ ReqOK /\ Others(r) /\ req'[r].pc = "locking"
            /\ req'[r].todo = Pass(r) /\ req'[r].keys = req[r].keys
            /\ req'[r].got = req[r].got
            BY <1>1, <1>5, NextFacts, PhaseFacts
      <2>2. \A k \in Key :
              /\ LockPending(r, k)' <=> /\ req[r].got[k] >= Threshold[k]
                                        /\ In(k, Pass(r))
              /\ ~ExpirePending(r, k)'
            BY <2>1 DEF LockPending, ExpirePending, Pending, In
      <2> QED BY <1>1, <1>2, <1>3, <1>4, <2>1, <2>2 DEF Good, Recording
<1>6. CASE Pass(r) = <<>> /\ (Report(r) \/ Finish(r))
      <2>1. /\ ReqOK /\ Others(r) /\ req'[r].pc \in {"idle", "pushing"}
            /\ \A k \in Key : req'[r].got[k] = 0
            <3>1. CASE Report(r)
                  BY <1>1, <3>1, ReportFacts
            <3>2. CASE Finish(r)
                  BY <1>1, <3>2, FinishFacts, IdleFacts
            <3> QED BY <1>6, <3>1, <3>2
      <2>2. /\ \A k \in Key : ~LockPending(r, k)' /\ ~ExpirePending(r, k)'
            /\ \A k : ~In(k, Pass(r))
            BY <1>6, <2>1, NothingPending, EmptyFacts
      <2>3. Good(r)'
            BY <2>1 DEF Good
      <2> QED BY <1>1, <1>3, <1>4, <2>1, <2>2, <2>3
<1> QED BY <1>5, <1>6

LEMMA NotDueStep ==
  ASSUME ThrottleInv, NEW r \in Request, NotDue(r)
  PROVE  ThrottleInv'
<1>1. /\ Ready(r, "locking")
      /\ \/ Pass(r) # <<>> /\ Phase(r, "locking", Pass(r))
         \/ Pass(r) = <<>> /\ (Report(r) \/ Finish(r))
      /\ UNCHANGED <<count, ttl, events, history>> /\ lock' \in SUBSET Key
      /\ ~(req[r].got[NextKey(r)] >= Threshold[NextKey(r)])
      BY DEF NotDue, Due, redis, ThrottleInv, TypeOK
<1>2. \A k \in Key : LockPending(r, k)' <=> LockPending(r, k)
      BY <1>1, LockingStep
<1> QED BY <1>1, <1>2, LockingStep, QuietStep

LEMMA SetLockStep ==
  ASSUME ThrottleInv, NEW r \in Request, SetLock(r)
  PROVE  ThrottleInv'
<1> DEFINE j == NextKey(r)
<1>1. /\ Ready(r, "locking")
      /\ \/ Pass(r) # <<>> /\ Phase(r, "locking", Pass(r))
         \/ Pass(r) = <<>> /\ (Report(r) \/ Finish(r))
      /\ UNCHANGED <<count, ttl, events, orphan, untrimmed>>
      /\ lock' = lock \union {j}
      /\ tries' = [tries EXCEPT ![j] = 0] /\ lost' = [lost EXCEPT ![j] = 0]
      BY DEF SetLock
<1>2. TypeOK /\ j \in Key
      BY <1>1, NextFacts DEF ThrottleInv, Ready
<1> HIDE DEF j
<1>3. TypeOK'
      <2>1. ReqOK
            BY <1>1, LockingStep
      <2> QED BY <1>1, <1>2, <2>1 DEF TypeOK, ReqOK
<1>4. ASSUME NEW k \in Key PROVE ExpiryAccounted(r, k) /\ LockAccounted(r, k)
      <2>1. /\ ~ExpirePending(r, k) /\ ~ExpirePending(r, k)'
            /\ LockPending(r, k)' <=> LockPending(r, k) /\ In(k, Pass(r))
            /\ LockPending(r, k) => k = j \/ In(k, Pass(r))
            BY <1>1, LockingStep DEF j
      <2>2. ExpiryAccounted(r, k)
            BY <1>1, <2>1 DEF ExpiryAccounted
      <2>3. /\ tries[k] \in Nat /\ lost[k] \in Nat /\ count[k] \in Nat
            /\ Threshold[k] \in Nat \ {0} /\ tries[k] <= count[k]
            /\ count'[k] = count[k]
            BY <1>1, <1>2, ThrottleAssumption DEF TypeOK, ThrottleInv
      <2>4. CASE k = j
            <3>1. tries'[k] = 0 /\ lost'[k] = 0
                  BY <1>1, <1>2, <2>4 DEF TypeOK
            <3> QED BY <2>2, <2>3, <3>1 DEF LockAccounted
      <2>5. CASE k # j
            <3>1. tries'[k] = tries[k] /\ lost'[k] = lost[k]
                  BY <1>1, <1>2, <2>5 DEF TypeOK
            <3>2. One(LockPending(r, k)') = One(LockPending(r, k))
                  BY <2>1, <2>5 DEF One
            <3>3. One(LockPending(r, k)) \in Nat
                  BY DEF One
            <3> QED BY <2>2, <2>3, <3>1, <3>2, <3>3 DEF LockAccounted
      <2> QED BY <2>2, <2>4, <2>5
<1>5. EventsAccounted(r)
      <2>1. req[r].pc # "trimming" /\ req'[r].pc # "trimming"
            BY <1>1, LockingStep
      <2>2. events' = events /\ untrimmed' = untrimmed
            BY <1>1
      <2>3. events \in Nat /\ untrimmed \in Nat
            BY <1>2, ThrottleAssumption DEF TypeOK
      <2> QED BY <2>1, <2>2, <2>3 DEF EventsAccounted, One
<1> QED BY <1>1, <1>3, <1>4, <1>5, LockingStep, Reckoning

LEMMA CountingStep ==
  ASSUME ThrottleInv, NEW r \in Request, Incr(r)
  PROVE  /\ ReqOK /\ Others(r) /\ Good(r)' /\ NextKey(r) \in Key
         /\ req[r].pc # "trimming" /\ req'[r].pc # "trimming"
         /\ req[r].got[NextKey(r)] = 0
         /\ req'[r].got = [req[r].got EXCEPT ![NextKey(r)] = count[NextKey(r)] + 1]
         /\ \A k \in Key :
              /\ ExpirePending(r, k) <=> req[r].got[k] = 1
              /\ ExpirePending(r, k)' <=> req'[r].got[k] = 1
              /\ LockPending(r, k) <=> req[r].got[k] >= Threshold[k]
              /\ LockPending(r, k)' <=> req'[r].got[k] >= Threshold[k]
<1> DEFINE j == NextKey(r)
           last == Pass(r) = <<>>
           todo == IF last THEN req[r].keys ELSE Pass(r)
           pc == IF last THEN "expiring" ELSE "counting"
           got == [req[r].got EXCEPT ![j] = count[j] + 1]
<1>1. /\ TypeOK /\ Good(r) /\ req[r].pc = "counting" /\ req[r].todo # <<>>
      /\ req' = [req EXCEPT ![r].got[j] = count[j] + 1, ![r].todo = todo,
                            ![r].pc = IF last THEN "expiring" ELSE @]
      BY DEF ThrottleInv, Incr, Ready
<1>2. /\ j \in Key /\ Pass(r) \in Seq(Key)
      /\ \A k : In(k, req[r].todo) <=> k = j \/ In(k, Pass(r))
      /\ NoDuplicates(Pass(r)) /\ ~In(j, Pass(r))
      BY <1>1, NextFacts DEF Good
<1>3. /\ req[r] \in RequestState /\ req[r].got \in [Key -> Nat]
      /\ req[r].keys \in Seq(Key)
      BY <1>1, KeysFacts
<1>4. /\ todo \in Seq(Key) /\ pc \in PC /\ got \in [Key -> Nat]
      /\ got[j] = count[j] + 1 /\ \A k \in Key \ {j} : got[k] = req[r].got[k]
      <2>1. count[j] \in Nat
            BY <1>1, <1>2 DEF TypeOK
      <2> QED BY <1>2, <1>3, <2>1 DEF PC
<1>5. req' = [req EXCEPT ![r] = [req[r] EXCEPT !.got = got, !.todo = todo, !.pc = pc]]
      BY <1>1, <1>3 DEF TypeOK, RequestState
<1> HIDE DEF todo, pc, got, j
<1>6. /\ ReqOK /\ Others(r) /\ req'[r].pc = pc /\ req'[r].todo = todo
      /\ req'[r].got = got /\ req'[r].keys = req[r].keys
      <2> DEFINE new == [req[r] EXCEPT !.got = got, !.todo = todo, !.pc = pc]
      <2>1. /\ new \in RequestState /\ new.pc = pc /\ new.todo = todo
            /\ new.got = got /\ new.keys = req[r].keys
            BY <1>3, <1>4 DEF RequestState
      <2>2. req' = [req EXCEPT ![r] = new]
            BY <1>5
      <2> HIDE DEF new
      <2>3. ReqOK /\ Others(r) /\ req'[r] = new
            <3>1. req \in [Request -> RequestState] /\ new \in RequestState
                  BY <1>1, <2>1 DEF TypeOK
            <3> QED BY <2>2, <3>1 DEF ReqOK, Others
      <2> QED BY <2>1, <2>3
<1>7. /\ req[r].got[j] = 0
      /\ \A k \in Key : got[k] # 0 => In(k, req[r].keys)
      BY <1>1, <1>2, <1>4 DEF Good
<1>8. Good(r)'
      <2>1. CASE last
            BY <1>6, <1>7, <2>1 DEF Good, Recording, pc
      <2>2. CASE ~last
            <3>1. \A k \in Key : In(k, Pass(r)) => got[k] = 0 /\ In(k, req[r].keys)
                  BY <1>1, <1>2, <1>4 DEF Good
            <3>2. /\ req'[r].pc = "counting" /\ req'[r].todo = Pass(r)
                  BY <1>6, <2>2 DEF pc, todo
            <3> QED BY <1>2, <1>6, <1>7, <3>1, <3>2 DEF Good, Recording
      <2> QED BY <2>1, <2>2
<1>9. ASSUME NEW k \in Key
      PROVE  /\ ExpirePending(r, k) <=> req[r].got[k] = 1
             /\ ExpirePending(r, k)' <=> req'[r].got[k] = 1
             /\ LockPending(r, k) <=> req[r].got[k] >= Threshold[k]
             /\ LockPending(r, k)' <=> req'[r].got[k] >= Threshold[k]
      <2>1. CASE last
            <3>1. /\ req'[r].pc = "expiring" /\ req'[r].todo = req[r].keys
                  BY <1>6, <2>1 DEF pc, todo
            <3>2. /\ ExpirePending(r, k) <=> req[r].got[k] = 1
                  /\ LockPending(r, k) <=> req[r].got[k] >= Threshold[k]
                  BY <1>1 DEF ExpirePending, LockPending
            <3>3. /\ ExpirePending(r, k)' <=>
                       req'[r].got[k] = 1 /\ In(k, req[r].keys)
                  /\ LockPending(r, k)' <=> req'[r].got[k] >= Threshold[k]
                  BY <3>1 DEF ExpirePending, LockPending, Pending, In
            <3> QED BY <1>6, <1>7, <3>2, <3>3
      <2>2. CASE ~last
            <3>1. req'[r].pc = "counting"
                  BY <1>6, <2>2 DEF pc
            <3> QED BY <1>1, <3>1 DEF ExpirePending, LockPending
      <2> QED BY <2>1, <2>2
<1>10. req[r].pc # "trimming" /\ req'[r].pc # "trimming"
      BY <1>1, <1>6 DEF pc
<1> QED BY <1>2, <1>6, <1>7, <1>8, <1>9, <1>10 DEF j, got

LEMMA IncrStep ==
  ASSUME ThrottleInv, NEW r \in Request, Incr(r)
  PROVE  ThrottleInv'
<1> DEFINE j == NextKey(r)
<1>1. /\ count[j] < MaxCount
      /\ count' = [count EXCEPT ![j] = @ + 1]
      /\ tries' = [tries EXCEPT ![j] = @ + 1]
      /\ UNCHANGED <<ttl, lock, events, orphan, lost, untrimmed>>
      BY DEF Incr
<1>2. TypeOK /\ j \in Key /\ MaxCount \in Nat
      BY CountingStep, ThrottleAssumption DEF ThrottleInv
<1>3. /\ req[r].got[j] = 0 /\ req[r].got \in [Key -> Nat]
      /\ req'[r].got = [req[r].got EXCEPT ![j] = count[j] + 1]
      BY <1>2, CountingStep, KeysFacts
<1> HIDE DEF j
<1>4. /\ count' \in [Key -> 0..MaxCount] /\ count'[j] = count[j] + 1
      /\ tries' \in [Key -> Nat] /\ tries'[j] = tries[j] + 1
      /\ \A k \in Key \ {j} : count'[k] = count[k] /\ tries'[k] = tries[k]
      /\ req'[r].got[j] = count[j] + 1
      /\ \A k \in Key \ {j} : req'[r].got[k] = req[r].got[k]
      BY <1>1, <1>2, <1>3 DEF TypeOK
<1>5. TypeOK'
      <2>1. ReqOK
            BY CountingStep
      <2>2. ttl' \in SUBSET {k \in Key : count'[k] > 0}
            BY <1>1, <1>2, <1>4 DEF TypeOK
      <2> QED BY <1>1, <1>2, <1>4, <2>1, <2>2 DEF TypeOK, ReqOK
<1>6. ASSUME NEW k \in Key PROVE ExpiryAccounted(r, k) /\ LockAccounted(r, k)
      <2>1. /\ ExpirePending(r, k) <=> req[r].got[k] = 1
            /\ ExpirePending(r, k)' <=> req'[r].got[k] = 1
            /\ LockPending(r, k) <=> req[r].got[k] >= Threshold[k]
            /\ LockPending(r, k)' <=> req'[r].got[k] >= Threshold[k]
            BY CountingStep
      <2>2. /\ tries[k] \in Nat /\ lost[k] \in Nat /\ count[k] \in Nat
            /\ Threshold[k] \in Nat \ {0} /\ tries[k] <= count[k]
            BY <1>2, ThrottleAssumption DEF TypeOK, ThrottleInv
      <2>3. CASE k = j
            <3>1. ExpiryAccounted(r, k)
                  BY <1>1, <1>3, <1>4, <2>1, <2>2, <2>3 DEF ExpiryAccounted
            <3>2. /\ One(LockPending(r, k)) = 0
                  /\ tries'[k] = tries[k] + 1 /\ count'[k] = count[k] + 1
                  /\ lost'[k] = lost[k]
                  BY <1>1, <1>3, <1>4, <2>1, <2>2, <2>3 DEF One
            <3>3. CASE count[k] + 1 >= Threshold[k]
                  <4>1. One(LockPending(r, k)') = 1
                        BY <1>4, <2>1, <2>3, <3>3 DEF One
                  <4> QED BY <2>2, <3>1, <3>2, <4>1 DEF LockAccounted
            <3>4. CASE count[k] + 1 < Threshold[k]
                  BY <2>2, <3>1, <3>2, <3>4 DEF LockAccounted
            <3> QED BY <2>2, <3>3, <3>4
      <2>4. CASE k # j
            <3>1. /\ ExpirePending(r, k)' <=> ExpirePending(r, k)
                  /\ LockPending(r, k)' <=> LockPending(r, k)
                  BY <1>4, <2>1, <2>4
            <3>2. ExpiryAccounted(r, k)
                  BY <1>1, <1>4, <2>4, <3>1 DEF ExpiryAccounted
            <3>3. /\ tries'[k] = tries[k] /\ lost'[k] = lost[k]
                  /\ count'[k] = count[k]
                  BY <1>1, <1>4, <2>4
            <3>4. /\ One(LockPending(r, k)') = One(LockPending(r, k))
                  /\ One(LockPending(r, k)) \in Nat
                  BY <3>1 DEF One
            <3> QED BY <2>2, <3>2, <3>3, <3>4 DEF LockAccounted
      <2> QED BY <2>3, <2>4
<1>7. EventsAccounted(r)
      <2>1. req[r].pc # "trimming" /\ req'[r].pc # "trimming"
            BY CountingStep
      <2>2. events' = events /\ untrimmed' = untrimmed
            BY <1>1
      <2>3. events \in Nat /\ untrimmed \in Nat
            BY <1>2, ThrottleAssumption DEF TypeOK
      <2> QED BY <2>1, <2>2, <2>3 DEF EventsAccounted, One
<1> QED BY <1>5, <1>6, <1>7, CountingStep, Reckoning

-----------------------------------------------------------------------------
(* Counters that go, and locks that end by themselves: for the requests      *)
(* nothing changes.                                                          *)
Gone(k) == count'[k] = 0 /\ tries'[k] = 0 /\ lost'[k] = 0

Kept(k) == /\ count'[k] = count[k] /\ tries'[k] = tries[k] /\ lost'[k] = lost[k]
           /\ k \in ttl' <=> k \in ttl
           /\ k \in orphan' <=> k \in orphan

LEMMA SamePending ==
  ASSUME ThrottleInv, TypeOK', UNCHANGED <<events, untrimmed>>,
         \A q \in Request :
           /\ Good(q)'
           /\ (req[q].pc = "trimming")' <=> (req[q].pc = "trimming")
           /\ \A k \in Key : /\ ExpirePending(q, k)' <=> ExpirePending(q, k)
                             /\ LockPending(q, k)' <=> LockPending(q, k),
         \A k \in Key : Gone(k) \/ Kept(k)
  PROVE  ThrottleInv'
<1>1. /\ Trimmers' = Trimmers /\ \A k \in Key : Lockers(k)' = Lockers(k)
      BY DEF Trimmers, Lockers
<1>2. IsFiniteSet(Trimmers') /\ EventsBounded'
      BY <1>1 DEF ThrottleInv, EventsBounded, Trimmers
<1>3. ASSUME NEW k \in Key
      PROVE  /\ IsFiniteSet(Lockers(k)') /\ tries'[k] <= count'[k]
             /\ tries'[k] < Threshold[k] + lost'[k] + Cardinality(Lockers(k)')
      <2>1. /\ IsFiniteSet(Lockers(k)) /\ tries[k] <= count[k]
            /\ tries[k] < Threshold[k] + lost[k] + Cardinality(Lockers(k))
            BY DEF ThrottleInv, LockComes, Lockers
      <2>2. Cardinality(Lockers(k)) \in Nat /\ Threshold[k] \in Nat \ {0}
            BY <2>1, FS_CardinalityType, ThrottleAssumption
      <2>3. CASE Gone(k)
            BY <1>1, <2>1, <2>2, <2>3 DEF Gone
      <2>4. CASE Kept(k)
            BY <1>1, <2>1, <2>4 DEF Kept
      <2> QED BY <2>3, <2>4
<1>4. LockComes'
      BY <1>3 DEF LockComes, Lockers
<1>5. CountersExpire'
      <2> SUFFICES ASSUME NEW k \in Key, count'[k] > 0, k \notin ttl'
                   PROVE  k \in orphan' \/ \E q \in Request : ExpirePending(q, k)'
          BY DEF CountersExpire
      <2>1. Kept(k)
            BY DEF Gone
      <2>2. k \in orphan \/ \E q \in Request : ExpirePending(q, k)
            BY <2>1 DEF ThrottleInv, CountersExpire, Kept
      <2> QED BY <2>1, <2>2 DEF Kept
<1> QED BY <1>2, <1>3, <1>4, <1>5 DEF ThrottleInv

LEMMA DropFacts ==
  ASSUME TypeOK, NEW j \in Key, Drop(j)
  PROVE  /\ count' \in [Key -> 0..MaxCount] /\ ttl' \in SUBSET {k \in Key : count'[k] > 0}
         /\ orphan' \in SUBSET Key /\ tries' \in [Key -> Nat] /\ lost' \in [Key -> Nat]
         /\ \A k \in Key : Gone(k) \/ Kept(k)
<1>1. 0 \in 0..MaxCount
      BY ThrottleAssumption
<1>2. /\ count' \in [Key -> 0..MaxCount] /\ tries' \in [Key -> Nat]
      /\ lost' \in [Key -> Nat]
      /\ \A k \in Key \ {j} : /\ count'[k] = count[k] /\ tries'[k] = tries[k]
                              /\ lost'[k] = lost[k]
      /\ count'[j] = 0 /\ tries'[j] = 0 /\ lost'[j] = 0
      /\ ttl' = ttl \ {j} /\ orphan' = orphan \ {j}
      BY <1>1 DEF TypeOK, Drop
<1>3. ttl' \in SUBSET {k \in Key : count'[k] > 0} /\ orphan' \in SUBSET Key
      BY <1>2 DEF TypeOK
<1> QED BY <1>2, <1>3 DEF Gone, Kept

LEMMA ClearStep ==
  ASSUME ThrottleInv, NEW r \in Request, Clear(r)
  PROVE  ThrottleInv'
<1>1. /\ TypeOK /\ req[r].pc = "clearing" /\ req[r].todo # <<>>
      /\ \A k \in Key : req[r].got[k] = 0
      BY DEF Clear, Ready, ThrottleInv, Good, Recording
<1>2. /\ Drop(NextKey(r)) /\ NextKey(r) \in Key
      /\ UNCHANGED <<lock, events, untrimmed>>
      BY <1>1, NextFacts DEF Clear
<1>3. PICK pc \in {"clearing", "unlocking"}, ks \in Seq(Key) : Phase(r, pc, ks)
      BY <1>1, NextFacts, KeysFacts DEF Clear, Advance
<1>4. pc \in PC
      BY DEF PC
<1>5. /\ ReqOK /\ Others(r) /\ req'[r].pc = pc /\ req'[r].got = req[r].got
      BY <1>1, <1>3, <1>4, PhaseFacts
<1>6. TypeOK'
      BY <1>1, <1>2, <1>5, DropFacts DEF TypeOK, ReqOK
<1>7. ASSUME NEW q \in Request
      PROVE  /\ Good(q)'
             /\ (req[q].pc = "trimming")' <=> (req[q].pc = "trimming")
             /\ \A k \in Key : /\ ExpirePending(q, k)' <=> ExpirePending(q, k)
                               /\ LockPending(q, k)' <=> LockPending(q, k)
      <2>1. CASE q = r
            <3>1. Good(r)'
                  BY <1>1, <1>5 DEF Good
            <3> QED BY <1>1, <1>5, <2>1, <3>1, NothingPending
      <2>2. CASE q # r
            BY <1>5, <2>2, OthersAsBefore DEF ThrottleInv
      <2> QED BY <2>1, <2>2
<1>8. \A k \in Key : Gone(k) \/ Kept(k)
      BY <1>1, <1>2, DropFacts
<1> QED BY <1>2, <1>6, <1>7, <1>8, SamePending

LEMMA ExpiryStep ==
  ASSUME ThrottleInv, NEW j \in Key, CounterExpires(j) \/ LockExpires(j)
  PROVE  ThrottleInv'
<1>1. TypeOK /\ UNCHANGED <<events, req, untrimmed>> /\ lock' \in SUBSET Key
      BY DEF CounterExpires, LockExpires, ThrottleInv, TypeOK, history
<1>2. ASSUME NEW q \in Request
      PROVE  /\ Good(q)'
             /\ (req[q].pc = "trimming")' <=> (req[q].pc = "trimming")
             /\ \A k \in Key : /\ ExpirePending(q, k)' <=> ExpirePending(q, k)
                               /\ LockPending(q, k)' <=> LockPending(q, k)
      <2>1. Good(q)
            BY DEF ThrottleInv
      <2> QED BY <1>1, <2>1 DEF Good, ExpirePending, LockPending, Pending
<1>3. CASE CounterExpires(j)
      <2>1. Drop(j)
            BY <1>3 DEF CounterExpires
      <2>2. TypeOK'
            BY <1>1, <2>1, DropFacts DEF TypeOK
      <2> QED BY <1>1, <1>2, <2>1, <2>2, DropFacts, SamePending
<1>4. CASE LockExpires(j)
      <2>1. UNCHANGED <<count, ttl, events, req, orphan, tries, lost, untrimmed>>
            BY <1>4 DEF LockExpires, history
      <2>2. TypeOK'
            BY <1>1, <2>1 DEF TypeOK
      <2>3. \A k \in Key : Kept(k)
            BY <2>1 DEF Kept
      <2> QED BY <1>1, <1>2, <2>2, <2>3, SamePending
<1> QED BY <1>3, <1>4

-----------------------------------------------------------------------------
(* The events, the end of a request, and a command that is executed twice.   *)
LEMMA EventStep ==
  ASSUME ThrottleInv, NEW r \in Request, TypeOK', Others(r),
         UNCHANGED <<count, ttl, orphan, tries, lost>>,
         req[r].pc \in {"pushing", "trimming"},
         req'[r].pc \in {"trimming", "idle"},
         \A k \in Key : req'[r].got[k] = 0,
         EventsAccounted(r)
  PROVE  ThrottleInv'
<1>1. \A k \in Key : req[r].got[k] = 0
      BY DEF ThrottleInv, Good, Recording
<1>2. Good(r)'
      BY DEF Good
<1>3. ASSUME NEW k \in Key PROVE ExpiryAccounted(r, k) /\ LockAccounted(r, k)
      <2>1. /\ ~ExpirePending(r, k) /\ ~ExpirePending(r, k)'
            /\ ~LockPending(r, k) /\ ~LockPending(r, k)'
            BY <1>1, NothingPending
      <2>2. ExpiryAccounted(r, k)
            BY <2>1 DEF ExpiryAccounted
      <2>3. /\ One(LockPending(r, k)') = 0 /\ One(LockPending(r, k)) = 0
            BY <2>1 DEF One
      <2>4. /\ tries'[k] = tries[k] /\ lost'[k] = lost[k]
            /\ count'[k] = count[k] /\ tries[k] <= count[k]
            /\ tries[k] \in Nat /\ lost[k] \in Nat
            BY DEF ThrottleInv, TypeOK
      <2> QED BY <2>2, <2>3, <2>4 DEF LockAccounted
<1> QED BY <1>2, <1>3, Reckoning

LEMMA PushStep ==
  ASSUME ThrottleInv, NEW r \in Request, Push(r)
  PROVE  ThrottleInv'
<1>1. /\ TypeOK /\ req[r].pc = "pushing" /\ events < MaxEvents
      /\ events' = events + 1 /\ Phase(r, "trimming", <<>>)
      /\ UNCHANGED <<count, ttl, lock, orphan, tries, lost, untrimmed>>
      /\ \A k \in Key : req[r].got[k] = 0
      BY DEF Push, history, ThrottleInv, Good, Recording
<1>2. /\ ReqOK /\ Others(r) /\ req'[r].pc = "trimming"
      /\ req'[r].got = req[r].got
      <2>1. "trimming" \in PC /\ <<>> \in Seq(Key)
            BY DEF PC
      <2> QED BY <1>1, <2>1, PhaseFacts
<1>3. events \in Nat /\ untrimmed \in Nat /\ MaxEvents \in Nat
      BY <1>1, ThrottleAssumption DEF TypeOK
<1>4. TypeOK'
      <2>1. events + 1 \in 0..MaxEvents
            BY <1>1, <1>3
      <2> QED BY <1>1, <1>2, <2>1 DEF TypeOK, ReqOK
<1>5. EventsAccounted(r)
      <2>1. One(req[r].pc = "trimming") = 0 /\ One(req'[r].pc = "trimming") = 1
            BY <1>1, <1>2 DEF One
      <2> QED BY <1>1, <1>3, <2>1 DEF EventsAccounted
<1> QED BY <1>1, <1>2, <1>4, <1>5, EventStep

LEMMA TrimStep ==
  ASSUME ThrottleInv, NEW r \in Request, Trim(r)
  PROVE  ThrottleInv'
<1>1. /\ TypeOK /\ req[r].pc = "trimming" /\ Finish(r)
      /\ events' = Trimmed(events) /\ untrimmed' = 0
      /\ UNCHANGED <<count, ttl, lock, orphan, tries, lost>>
      BY DEF Trim, ThrottleInv
<1>2. /\ ReqOK /\ Others(r) /\ req'[r].pc = "idle"
      /\ \A k \in Key : req'[r].got[k] = 0
      BY <1>1, FinishFacts, IdleFacts
<1>3. /\ events \in 0..MaxEvents /\ {EventLimit, MaxEvents} \subseteq Nat
      BY <1>1, ThrottleAssumption DEF TypeOK
<1>4. events' \in 0..MaxEvents /\ events' <= EventLimit
      BY <1>1, <1>3 DEF Trimmed
<1>5. TypeOK'
      BY <1>1, <1>2, <1>4 DEF TypeOK, ReqOK
<1>6. EventsAccounted(r)
      BY <1>1, <1>3, <1>4 DEF EventsAccounted
<1> QED BY <1>1, <1>2, <1>5, <1>6, EventStep

LEMMA FailStep ==
  ASSUME ThrottleInv, NEW r \in Request, Fail(r)
  PROVE  ThrottleInv'
<1>1. /\ TypeOK /\ Finish(r) /\ UNCHANGED <<count, ttl, lock, events, tries>>
      /\ orphan' = orphan \union {k \in Key : /\ ExpirePending(r, k)
                                              /\ count[k] > 0 /\ k \notin ttl}
      /\ lost' = [k \in Key |-> IF LockPending(r, k) THEN lost[k] + 1 ELSE lost[k]]
      /\ untrimmed' = IF req[r].pc = "trimming" THEN untrimmed + 1 ELSE untrimmed
      BY DEF Fail, redis, ThrottleInv
<1>2. /\ ReqOK /\ Others(r) /\ req'[r].pc = "idle"
      /\ \A k \in Key : req'[r].got[k] = 0
      BY <1>1, FinishFacts, IdleFacts
<1>3. TypeOK'
      <2>1. orphan' \in SUBSET Key /\ lost' \in [Key -> Nat] /\ untrimmed' \in Nat
            BY <1>1 DEF TypeOK
      <2> QED BY <1>1, <1>2, <2>1 DEF TypeOK, ReqOK
<1>4. Good(r)'
      BY <1>2 DEF Good
<1>5. ASSUME NEW k \in Key PROVE ExpiryAccounted(r, k) /\ LockAccounted(r, k)
      <2>1. ~ExpirePending(r, k)' /\ ~LockPending(r, k)'
            BY <1>2, NothingPending
      <2>2. ExpiryAccounted(r, k)
            BY <1>1, <2>1 DEF ExpiryAccounted
      <2>3. /\ tries'[k] = tries[k] /\ count'[k] = count[k] /\ tries[k] <= count[k]
            /\ tries[k] \in Nat /\ lost[k] \in Nat
            BY <1>1 DEF ThrottleInv, TypeOK
      <2>4. lost'[k] = lost[k] + One(LockPending(r, k))
            BY <1>1, <2>3 DEF One
      <2>5. One(LockPending(r, k)') = 0 /\ One(LockPending(r, k)) \in Nat
            BY <2>1 DEF One
      <2> QED BY <2>2, <2>3, <2>4, <2>5 DEF LockAccounted
<1>6. EventsAccounted(r)
      <2>1. events' = events /\ events \in Nat /\ untrimmed \in Nat
            BY <1>1, ThrottleAssumption DEF TypeOK
      <2>2. untrimmed' = untrimmed + One(req[r].pc = "trimming")
            BY <1>1, <2>1 DEF One
      <2>3. One(req'[r].pc = "trimming") = 0 /\ One(req[r].pc = "trimming") \in Nat
            BY <1>2 DEF One
      <2> QED BY <2>1, <2>2, <2>3 DEF EventsAccounted
<1> QED BY <1>2, <1>3, <1>4, <1>5, <1>6, Reckoning

LEMMA ExecutedUnheardStep ==
  ASSUME ThrottleInv, NEW r \in Request, NEW j \in Key \union {EventList},
         ExecutedUnheard(r, j)
  PROVE  ThrottleInv'
<1>1. TypeOK /\ UNCHANGED <<ttl, lock, req>>
      BY DEF ExecutedUnheard, ThrottleInv
<1>2. /\ ReqOK /\ Others(r) /\ Good(r)'
      /\ \A k \in Key : /\ ExpirePending(r, k)' <=> ExpirePending(r, k)
                        /\ LockPending(r, k)' <=> LockPending(r, k)
      <2>1. Good(r)
            BY DEF ThrottleInv
      <2> QED BY <1>1, <2>1 DEF TypeOK, ReqOK, Others, Good, ExpirePending,
                                LockPending, Pending
<1>3. ASSUME NEW k \in Key
      PROVE  /\ One(LockPending(r, k)') = One(LockPending(r, k))
             /\ One(LockPending(r, k)) \in Nat
             /\ tries[k] \in Nat /\ lost[k] \in Nat /\ count[k] \in Nat
             /\ Threshold[k] \in Nat \ {0} /\ tries[k] <= count[k]
      BY <1>1, <1>2, ThrottleAssumption DEF One, TypeOK, ThrottleInv
<1>4. /\ One(req'[r].pc = "trimming") = One(req[r].pc = "trimming")
      /\ One(req[r].pc = "trimming") \in Nat
      BY <1>1 DEF One
<1>5. events \in 0..MaxEvents /\ untrimmed \in Nat
      /\ {MaxCount, MaxEvents} \subseteq Nat
      BY <1>1, ThrottleAssumption DEF TypeOK
<1>6. CASE j \in Key
      <2>1. /\ count[j] < MaxCount
            /\ count' = [count EXCEPT ![j] = @ + 1]
            /\ tries' = [tries EXCEPT ![j] = @ + 1]
            /\ orphan' = IF count[j] + 1 = 1 THEN orphan \union {j} ELSE orphan
            /\ lost' = [lost EXCEPT ![j] = IF count[j] + 1 >= Threshold[j]
                                           THEN @ + 1 ELSE @]
            /\ UNCHANGED <<events, untrimmed>>
            BY <1>6, InfrastructureAssumption DEF ExecutedUnheard, First, Due
      <2>2. /\ count' \in [Key -> 0..MaxCount] /\ count'[j] = count[j] + 1
            /\ tries' \in [Key -> Nat] /\ tries'[j] = tries[j] + 1
            /\ lost' \in [Key -> Nat]
            /\ lost'[j] = IF count[j] + 1 >= Threshold[j] THEN lost[j] + 1 ELSE lost[j]
            /\ \A k \in Key \ {j} : /\ count'[k] = count[k] /\ tries'[k] = tries[k]
                                    /\ lost'[k] = lost[k]
            BY <1>1, <1>5, <1>6, <2>1 DEF TypeOK
      <2>3. TypeOK'
            <3>1. ttl' \in SUBSET {k \in Key : count'[k] > 0}
                  BY <1>1, <1>3, <1>6, <2>2 DEF TypeOK
            <3>2. orphan' \in SUBSET Key
                  BY <1>1, <1>6, <2>1 DEF TypeOK
            <3> QED BY <1>1, <1>2, <2>1, <2>2, <3>1, <3>2 DEF TypeOK, ReqOK
      <2>4. ASSUME NEW k \in Key PROVE ExpiryAccounted(r, k)
            <3>1. CASE k = j
                  BY <1>1, <1>2, <1>3, <2>1, <2>2, <3>1 DEF ExpiryAccounted
            <3>2. CASE k # j
                  BY <1>1, <1>2, <2>1, <2>2, <3>2 DEF ExpiryAccounted
            <3> QED BY <3>1, <3>2
      <2>5. ASSUME NEW k \in Key PROVE LockAccounted(r, k)
            <3>1. CASE k = j
                  <4>1. /\ count'[k] = count[k] + 1 /\ tries'[k] = tries[k] + 1
                        /\ lost'[k] = IF count[k] + 1 >= Threshold[k]
                                      THEN lost[k] + 1 ELSE lost[k]
                        BY <2>2, <3>1
                  <4> QED BY <1>3, <4>1 DEF LockAccounted
            <3>2. CASE k # j
                  BY <1>3, <2>2, <3>2 DEF LockAccounted
            <3> QED BY <3>1, <3>2
      <2>6. EventsAccounted(r)
            BY <1>4, <1>5, <2>1 DEF EventsAccounted
      <2> QED BY <1>2, <2>3, <2>4, <2>5, <2>6, Reckoning
<1>7. CASE j = EventList
      <2>1. /\ events < MaxEvents /\ events' = events + 1
            /\ untrimmed' = untrimmed + 1
            /\ UNCHANGED <<count, tries, orphan, lost>>
            BY <1>7, InfrastructureAssumption DEF ExecutedUnheard
      <2>2. TypeOK'
            <3>1. events + 1 \in 0..MaxEvents /\ untrimmed + 1 \in Nat
                  BY <1>5, <2>1
            <3> QED BY <1>1, <2>1, <3>1 DEF TypeOK
      <2>3. ASSUME NEW k \in Key PROVE ExpiryAccounted(r, k) /\ LockAccounted(r, k)
            <3>1. ExpiryAccounted(r, k)
                  BY <1>1, <1>2, <2>1 DEF ExpiryAccounted
            <3>2. /\ tries'[k] = tries[k] /\ lost'[k] = lost[k]
                  /\ count'[k] = count[k]
                  BY <2>1
            <3> QED BY <1>3, <3>1, <3>2 DEF LockAccounted
      <2>4. EventsAccounted(r)
            BY <1>4, <1>5, <2>1 DEF EventsAccounted
      <2> QED BY <1>2, <2>2, <2>3, <2>4, Reckoning
<1> QED BY <1>6, <1>7

LEMMA ThrottleStep ==
  ASSUME ThrottleInv, NEW r \in Request, Throttle(r)
  PROVE  ThrottleInv'
BY PreflightStep, NotFirstStep, NotDueStep, IncrStep, ExpireStep, SetLockStep,
   ClearStep, PushStep, TrimStep, FailStep DEF Throttle, Local, Command

-----------------------------------------------------------------------------
(* What the requests have heard of the counters, and who sets a lock.        *)
Hears(r) ==
  /\ Others(r)
  /\ \A k \in Key : req'[r].got[k] \in {0, req[r].got[k], count'[k]}
  /\ lock' \subseteq lock \/ SetLock(r)

LEMMA ThrottleHears ==
  ASSUME ThrottleInv, NEW r \in Request, Throttle(r)
  PROVE  Hears(r)
<1>1. TypeOK /\ req[r] \in RequestState
      BY KeysFacts DEF ThrottleInv
<1>2. (Finish(r) \/ Report(r)) => Others(r) /\ \A k \in Key : req'[r].got[k] = 0
      BY <1>1, FinishFacts, ReportFacts, IdleFacts
<1>3. ASSUME NEW pc, NEW ks, Phase(r, pc, ks)
      PROVE  Others(r) /\ req'[r].got = req[r].got
      BY <1>1, <1>3 DEF Phase, Others, TypeOK, RequestState
<1>4. ASSUME NEW pc, NEW ks, Advance(r, pc, ks)
      PROVE  Others(r) /\ req'[r].got = req[r].got
      BY <1>3, <1>4 DEF Advance
<1>5. ASSUME NEW ks \in Attempt, Begin(r, ks) PROVE Hears(r)
      <2>1. Others(r) /\ \A k \in Key : req'[r].got[k] = 0
            BY <1>1, <1>5 DEF Begin, Others, TypeOK, Idle
      <2> QED BY <1>5, <2>1 DEF Begin, redis, Hears
<1>6. CASE Refused(r) \/ Unrecorded(r) \/ Fail(r)
      BY <1>2, <1>6 DEF Refused, Unrecorded, Fail, redis, Hears
<1>7. CASE NotLocked(r) \/ Unthrottled(r) \/ Check(r)
      BY <1>3, <1>4, <1>7 DEF NotLocked, Unthrottled, Check, redis, Hears
<1>8. CASE Incr(r)
      <2>1. /\ Others(r) /\ lock' = lock /\ NextKey(r) \in Key
            /\ req'[r].got = [req[r].got EXCEPT ![NextKey(r)] = count[NextKey(r)] + 1]
            /\ count' = [count EXCEPT ![NextKey(r)] = @ + 1]
            BY <1>1, <1>8, CountingStep DEF Incr
      <2> QED BY <1>1, <2>1, KeysFacts DEF Hears, TypeOK
<1>9. CASE Expire(r) \/ NotFirst(r)
      BY <1>4, <1>9 DEF Expire, NotFirst, redis, Hears
<1>10. CASE SetLock(r) \/ NotDue(r)
      <2>1. lock' \subseteq lock \/ SetLock(r)
            BY <1>10 DEF NotDue, redis
      <2> QED BY <1>2, <1>3, <1>10, <2>1 DEF SetLock, NotDue, Hears
<1>11. CASE Clear(r)
      BY <1>4, <1>11 DEF Clear, Hears
<1>12. CASE Unlock(r)
      <2>1. lock' \subseteq lock /\ (Report(r) \/ Phase(r, "unlocking", Pass(r)))
            BY <1>12 DEF Unlock
      <2> QED BY <1>2, <1>3, <2>1 DEF Hears
<1>13. CASE Push(r) \/ Trim(r)
      BY <1>2, <1>3, <1>13 DEF Push, Trim, Hears
<1> QED BY <1>5, <1>6, <1>7, <1>8, <1>9, <1>10, <1>11, <1>12, <1>13
        DEF Throttle, Local, Command

LEMMA CountsStep ==
  ASSUME TypeOK, TypeOK', CountsHeard, MarkStale,
         \A r \in Request, k \in Key :
           req'[r].got[k] \in {0, req[r].got[k], count'[k]}
  PROVE  CountsHeard'
<1> SUFFICES ASSUME NEW r \in Request, NEW k \in Key, req'[r].got[k] # 0,
                    <<r, k>> \notin stale'
             PROVE  req'[r].got[k] <= count'[k]
    BY DEF CountsHeard
<1>1. <<r, k>> \notin stale /\ ~(count'[k] < count[k])
      BY DEF MarkStale
<1>2. count[k] \in Nat /\ count'[k] \in Nat
      BY ThrottleAssumption DEF TypeOK
<1>3. CASE req'[r].got[k] = count'[k]
      BY <1>2, <1>3
<1>4. CASE req'[r].got[k] = req[r].got[k]
      <2>1. req[r].got[k] <= count[k] /\ req[r].got[k] \in Nat
            BY <1>1, <1>4, KeysFacts DEF CountsHeard
      <2> QED BY <1>1, <1>2, <1>4, <2>1
<1> QED BY <1>3, <1>4

-----------------------------------------------------------------------------
(* The health probe.                                                         *)
LEMMA ProbeStep ==
  ASSUME probe \in ProbeState,
         \/ Probe \/ DatabaseAnswers \/ RedisAnswers \/ TimerFires
         \/ Conclude \/ EndProbe
  PROVE  probe' \in ProbeState
<1>1. CASE Probe \/ EndProbe
      <2>1. \/ probe' = [database |-> "asked", redis |-> "asked", overall |-> "none",
                         pending |-> {"database", "redis"}]
            \/ probe' = [database |-> "none", redis |-> "none", overall |-> "none",
                         pending |-> {}]
            BY <1>1 DEF Probe, EndProbe, NoProbe
      <2> QED BY <2>1 DEF ProbeState, Health
<1>2. CASE DatabaseAnswers
      <2> DEFINE d == Settled(probe.database, IF database THEN "healthy" ELSE "unhealthy")
                 p == probe.pending \ {"database"}
      <2>1. probe' = [probe EXCEPT !.pending = p, !.database = d]
            BY <1>2 DEF DatabaseAnswers
      <2>2. d \in Health /\ p \in SUBSET {"database", "redis"}
            BY DEF Settled, ProbeState, Health
      <2> HIDE DEF d, p
      <2> QED BY <2>1, <2>2 DEF ProbeState
<1>3. CASE RedisAnswers
      <2> DEFINE d == Settled(probe.redis, IF conn = "ready" THEN "healthy" ELSE "degraded")
                 p == probe.pending \ {"redis"}
      <2>1. probe' = [probe EXCEPT !.pending = p, !.redis = d]
            BY <1>3 DEF RedisAnswers
      <2>2. d \in Health /\ p \in SUBSET {"database", "redis"}
            BY DEF Settled, ProbeState, Health
      <2> HIDE DEF d, p
      <2> QED BY <2>1, <2>2 DEF ProbeState
<1>4. CASE TimerFires
      BY <1>4 DEF TimerFires, ProbeState, Health
<1>5. CASE Conclude
      <2> DEFINE o == Overall(probe.database, probe.redis)
      <2>1. probe' = [probe EXCEPT !.overall = o]
            BY <1>5 DEF Conclude
      <2>2. o \in Health
            BY DEF Overall, Health
      <2> HIDE DEF o
      <2> QED BY <2>1, <2>2 DEF ProbeState
<1> QED BY <1>1, <1>2, <1>3, <1>4, <1>5

-----------------------------------------------------------------------------
(* The invariant is inductive.                                               *)
LEMMA InvInit == InfrastructureInit => InfrastructureInv
<1> SUFFICES ASSUME InfrastructureInit PROVE InfrastructureInv
    OBVIOUS
<1>1. /\ {EventLimit, MaxCount, MaxEvents} \subseteq Nat
      /\ Threshold \in [Key -> Nat \ {0}] /\ MaxAttempts \in Nat \ {0}
      BY ThrottleAssumption, InfrastructureAssumption
<1>2. TypeOK
      BY <1>1, IdleFacts DEF InfrastructureInit, Init, TypeOK
<1>3. \A r \in Request : req[r] = Idle
      BY DEF InfrastructureInit, Init
<1>4. \A r \in Request : Good(r)
      BY <1>3, IdleFacts DEF Good
<1>5. /\ Trimmers = {} /\ \A k \in Key : Lockers(k) = {}
      BY <1>3, IdleFacts, NothingPending DEF Trimmers, Lockers
<1>6. IsFiniteSet({}) /\ Cardinality({}) = 0
      BY FS_EmptySet
<1>7. \A k \in Key : count[k] = 0 /\ tries[k] = 0 /\ lost[k] = 0
      BY DEF InfrastructureInit, Init
<1>8. CountersExpire
      BY <1>7 DEF CountersExpire
<1>9. LockComes
      <2> SUFFICES ASSUME NEW k \in Key
                   PROVE  tries[k] < Threshold[k] + lost[k] + Cardinality(Lockers(k))
          BY DEF LockComes, Lockers
      <2>1. /\ tries[k] = 0 /\ lost[k] = 0 /\ Cardinality(Lockers(k)) = 0
            /\ Threshold[k] \in Nat \ {0}
            BY <1>1, <1>5, <1>6, <1>7
      <2> QED BY <2>1
<1>10. EventsBounded
      <2>1. events = 0 /\ untrimmed = 0
            BY DEF InfrastructureInit, Init
      <2>2. EventLimit \in Nat /\ Cardinality(Trimmers) = 0
            BY <1>1, <1>5, <1>6
      <2>3. events <= EventLimit + untrimmed + Cardinality(Trimmers)
            BY <2>1, <2>2
      <2> QED BY <2>3 DEF EventsBounded, Trimmers
<1>11. ThrottleInv
      BY <1>2, <1>4, <1>5, <1>6, <1>7, <1>8, <1>9, <1>10 DEF ThrottleInv
<1>12. probe \in ProbeState
      BY DEF InfrastructureInit, NoProbe, ProbeState, Health
<1>13. InfrastructureTypeOK
      BY <1>1, <1>2, <1>12 DEF InfrastructureInit, InfrastructureTypeOK, Conn
<1>14. CountsHeard
      BY <1>3, IdleFacts DEF CountsHeard
<1> QED BY <1>1, <1>11, <1>12, <1>13, <1>14 DEF InfrastructureInv, InfrastructureInit

LEMMA ThrottleKept == ThrottleInv /\ UNCHANGED vars => ThrottleInv'
<1> SUFFICES ASSUME ThrottleInv, UNCHANGED vars PROVE ThrottleInv'
    OBVIOUS
<1>1. /\ TypeOK' /\ UNCHANGED <<events, req, untrimmed>>
      /\ \A k \in Key : Kept(k)
      BY DEF vars, ThrottleInv, TypeOK, Kept
<1>2. ASSUME NEW q \in Request
      PROVE  /\ Good(q)'
             /\ (req[q].pc = "trimming")' <=> (req[q].pc = "trimming")
             /\ \A k \in Key : /\ ExpirePending(q, k)' <=> ExpirePending(q, k)
                               /\ LockPending(q, k)' <=> LockPending(q, k)
      BY <1>1 DEF ThrottleInv, Good, ExpirePending, LockPending, Pending
<1> QED BY <1>1, <1>2, SamePending

LEMMA KnowledgeNext ==
  ASSUME InfrastructureInv, [InfrastructureNext]_<<vars, infraVars, stale>>,
         ThrottleInv'
  PROVE  CountsHeard' /\ stale' \in SUBSET (Request \X Key)
<1>1. /\ ThrottleInv /\ TypeOK /\ TypeOK' /\ CountsHeard
      /\ stale \in SUBSET (Request \X Key)
      BY DEF InfrastructureInv, InfrastructureTypeOK, ThrottleInv
<1>2. CASE UNCHANGED <<vars, infraVars, stale>>
      BY <1>1, <1>2 DEF CountsHeard, vars
<1>3. CASE InfrastructureNext
      <2>1. MarkStale
            BY <1>3 DEF InfrastructureNext
      <2>2. ASSUME NEW r \in Request, NEW k \in Key
            PROVE  req'[r].got[k] \in {0, req[r].got[k], count'[k]}
            <3>1. (\E q \in Request : Throttle(q)) \/ req' = req
                  BY <1>3 DEF InfrastructureNext, Start, Stop, Connected,
                     ConnectionCloses, ExecutedUnheard, Expiry, CounterExpires,
                     LockExpires, Probe, DatabaseAnswers, RedisAnswers,
                     TimerFires, Conclude, EndProbe, DatabaseChanges, vars
            <3> QED BY <1>1, <3>1, ThrottleHears DEF Hears, Others
      <2>3. stale' \in SUBSET (Request \X Key)
            BY <2>1 DEF MarkStale
      <2> QED BY <1>1, <2>1, <2>2, <2>3, CountsStep
<1> QED BY <1>2, <1>3

LEMMA InvNext ==
  InfrastructureInv /\ [InfrastructureNext]_<<vars, infraVars, stale>>
    => InfrastructureInv'
<1> SUFFICES ASSUME InfrastructureInv, [InfrastructureNext]_<<vars, infraVars, stale>>
             PROVE  InfrastructureInv'
    OBVIOUS
<1>1. /\ TypeOK /\ ThrottleInv /\ probe \in ProbeState
      /\ conn \in Conn /\ attempts \in 0..MaxAttempts /\ database \in BOOLEAN
      /\ onTheWay \in SUBSET (Request \X (Key \union {EventList}))
      /\ conn # "end" => attempts < MaxAttempts
      /\ MaxAttempts \in Nat \ {0}
      BY InfrastructureAssumption DEF InfrastructureInv, InfrastructureTypeOK
<1> DEFINE Rest == /\ conn' \in Conn /\ attempts' \in 0..MaxAttempts
                   /\ database' \in BOOLEAN
                   /\ onTheWay' \in SUBSET (Request \X (Key \union {EventList}))
                   /\ conn' # "end" => attempts' < MaxAttempts
<1>2. ASSUME ThrottleInv', probe' \in ProbeState, Rest
      PROVE  InfrastructureInv'
      BY <1>2, KnowledgeNext DEF InfrastructureInv, InfrastructureTypeOK, ThrottleInv
<1>3. CASE Start \/ Stop
      <2>1. UNCHANGED <<vars, onTheWay, database>> /\ probe' \in ProbeState
            BY <1>1, <1>3 DEF Start, Stop, NoProbe, ProbeState, Health
      <2>2. ThrottleInv'
            BY <1>1, <2>1, ThrottleKept
      <2>3. Rest
            BY <1>1, <1>3, <2>1 DEF Start, Stop, Conn
      <2> QED BY <1>2, <2>1, <2>2, <2>3
<1>4. CASE Connected \/ ConnectionCloses
      <2>1. UNCHANGED <<vars, database, probe>>
            BY <1>4 DEF Connected, ConnectionCloses
      <2>2. ThrottleInv' /\ probe' \in ProbeState
            BY <1>1, <2>1, ThrottleKept
      <2>3. CASE Connected
            BY <1>1, <1>2, <2>1, <2>2, <2>3 DEF Connected, Conn
      <2>4. CASE ConnectionCloses
            <3>1. Sent \in SUBSET (Request \X (Key \union {EventList}))
                  BY DEF Sent
            <3>2. onTheWay' \in SUBSET (Request \X (Key \union {EventList}))
                  BY <1>1, <2>4, <3>1 DEF ConnectionCloses
            <3>3. /\ conn # "end" /\ attempts' = attempts + 1
                  /\ conn' = IF attempts + 1 >= MaxAttempts THEN "end" ELSE "retrying"
                  BY <2>4 DEF ConnectionCloses, GivesUp
            <3>4. Rest
                  BY <1>1, <2>1, <3>2, <3>3 DEF Conn
            <3> QED BY <1>2, <2>2, <3>4
      <2> QED BY <1>4, <2>3, <2>4
<1>5. CASE \/ \E r \in Request : Throttle(r)
           \/ \E r \in Request, k \in Key \union {EventList} : ExecutedUnheard(r, k)
           \/ Expiry
      <2>1. /\ UNCHANGED <<conn, attempts, database, probe>>
            /\ onTheWay' \in SUBSET onTheWay
            BY <1>5 DEF Throttle, ExecutedUnheard, Expiry, infraVars
      <2>2. ThrottleInv'
            BY <1>1, <1>5, ThrottleStep, ExecutedUnheardStep, ExpiryStep DEF Expiry
      <2>3. Rest
            BY <1>1, <2>1
      <2> QED BY <1>1, <1>2, <2>1, <2>2, <2>3
<1>6. CASE \/ Probe \/ DatabaseAnswers \/ RedisAnswers \/ TimerFires
           \/ Conclude \/ EndProbe
      <2>1. UNCHANGED <<vars, conn, attempts, onTheWay, database>>
            BY <1>6 DEF Probe, DatabaseAnswers, RedisAnswers, TimerFires,
               Conclude, EndProbe
      <2> QED BY <1>1, <1>2, <1>6, <2>1, ThrottleKept, ProbeStep
<1>7. CASE DatabaseChanges
      <2>1. /\ UNCHANGED <<vars, conn, attempts, onTheWay, probe>>
            /\ database' \in BOOLEAN
            BY <1>7 DEF DatabaseChanges
      <2> QED BY <1>1, <1>2, <2>1, ThrottleKept
<1>8. CASE UNCHANGED <<vars, infraVars, stale>>
      <2>1. UNCHANGED <<vars, conn, attempts, onTheWay, database, probe>>
            BY <1>8 DEF infraVars
      <2> QED BY <1>1, <1>2, <2>1, ThrottleKept
<1> QED BY <1>3, <1>4, <1>5, <1>6, <1>7, <1>8 DEF InfrastructureNext

-----------------------------------------------------------------------------
LEMMA InvAlways == InfrastructureSpec => []InfrastructureInv
BY InvInit, InvNext, PTL DEF InfrastructureSpec

(* What Redis holds, what the requests know of it, the connection and the    *)
(* probe are always of their types, the attempts to connect among them: no   *)
(* more than MaxAttempts.                                                    *)
THEOREM TypeCorrect == InfrastructureSpec => []InfrastructureTypeOK
<1>1. InfrastructureInv => InfrastructureTypeOK
      BY DEF InfrastructureInv
<1> QED BY <1>1, InvAlways, PTL

(* No counter is left without an expiry but by a request that died before    *)
(* its EXPIRE or an INCR executed twice.                                     *)
THEOREM EveryCounterExpires == InfrastructureSpec => []CountersExpire
<1>1. InfrastructureInv => CountersExpire
      BY DEF InfrastructureInv, ThrottleInv
<1> QED BY <1>1, InvAlways, PTL

(* Concurrent failures do not slip past the threshold.                       *)
THEOREM ThresholdHolds == InfrastructureSpec => []LockComes
<1>1. InfrastructureInv => LockComes
      BY DEF InfrastructureInv, ThrottleInv
<1> QED BY <1>1, InvAlways, PTL

(* The list of security events stays within its limit and what is in flight. *)
THEOREM EventListIsBounded == InfrastructureSpec => []EventsBounded
<1>1. InfrastructureInv => EventsBounded
      BY DEF InfrastructureInv, ThrottleInv
<1> QED BY <1>1, InvAlways, PTL

(* Requests come and go, answers arrive late, counters are deleted and       *)
(* expire: a key gets locked on a counter below its threshold only by a      *)
(* request that heard of a counter gone since.                               *)
THEOREM LocksFounded == InfrastructureSpec => LocksAreFounded
<1> DEFINE Founded == \A r \in Request, k \in Key :
                        k \in lock' \ lock /\ req'[r] # req[r] =>
                          count[k] >= Threshold[k] \/ <<r, k>> \in stale
<1>1. InfrastructureInv /\ [InfrastructureNext]_<<vars, infraVars, stale>>
        => [Founded]_<<vars, infraVars, stale>>
      <2> SUFFICES ASSUME InfrastructureInv, InfrastructureNext,
                          NEW r \in Request, NEW k \in Key,
                          k \in lock' \ lock, req'[r] # req[r]
                   PROVE  count[k] >= Threshold[k] \/ <<r, k>> \in stale
          OBVIOUS
      <2>1. ThrottleInv /\ TypeOK /\ CountsHeard
            BY DEF InfrastructureInv, InfrastructureTypeOK
      <2>2. PICK q \in Request : Throttle(q)
            BY DEF InfrastructureNext, Start, Stop, Connected, ConnectionCloses,
               ExecutedUnheard, Expiry, CounterExpires, LockExpires, Probe,
               DatabaseAnswers, RedisAnswers, TimerFires, Conclude, EndProbe,
               DatabaseChanges, vars
      <2>3. q = r /\ SetLock(r)
            BY <2>1, <2>2, ThrottleHears DEF Hears, Others
      <2>4. k = NextKey(r) /\ req[r].got[k] >= Threshold[k]
            BY <2>3 DEF SetLock, Due
      <2>5. /\ req[r].got[k] \in Nat /\ count[k] \in Nat
            /\ Threshold[k] \in Nat \ {0}
            BY <2>1, KeysFacts, ThrottleAssumption DEF TypeOK
      <2>6. req[r].got[k] <= count[k] \/ <<r, k>> \in stale
            BY <2>1, <2>4, <2>5 DEF CountsHeard
      <2> QED BY <2>4, <2>5, <2>6
<1>2. LocksAreFounded <=> [][Founded]_<<vars, infraVars, stale>>
      BY DEF LocksAreFounded
<1> QED BY <1>1, <1>2, InvAlways, PTL DEF InfrastructureSpec
=============================================================================
