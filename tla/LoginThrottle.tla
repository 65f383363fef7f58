--------------------------- MODULE LoginThrottle ---------------------------
(***************************************************************************)
(* The failure counters, locks and event list that AuthSecurityService     *)
(* keeps in Redis for logins and refreshes.                                *)
(*                                                                         *)
(* An attempt has a sequence of keys: a login that of its identifier and   *)
(* that of its address, a refresh that of its address.  A key stands for a *)
(* counter and a lock, both named after it.  Redis runs one command at a   *)
(* time; the commands of one request arrive in the order they were issued, *)
(* those of a Promise.all included, with other requests' in between.  How  *)
(* long a TTL is does not matter here: a key that has one may expire.      *)
(* When the connection allows which of these steps, and which commands it  *)
(* repeats, is for Infrastructure to say, which has the specification.     *)
(***************************************************************************)
EXTENDS Naturals, Sequences, FiniteSets

CONSTANTS Key,
          Attempt,     \* the sequences of keys that a request may have
          Threshold,   \* failures that lock, by key
          Request,
          EventLimit,  \* the events that LTRIM keeps
          MaxCount,    \* a bound on the failures counted under one key
          MaxEvents    \* a bound on the events

NoDuplicates(ks) ==
  \A i, j \in DOMAIN ks : ks[i] = ks[j] => i = j

ASSUME ThrottleAssumption ==
  /\ Attempt \subseteq Seq(Key)
  /\ \A ks \in Attempt : NoDuplicates(ks)
  /\ Threshold \in [Key -> Nat \ {0}]
  /\ {EventLimit, MaxCount, MaxEvents} \subseteq Nat

VARIABLES
  count,    \* the counters; 0 stands for no such key
  ttl,      \* the counters that have an expiry
  lock,     \* the keys that are locked; a lock has an expiry from the start
  events,   \* the length of the list auth:security:events
  req,      \* the requests in flight
  orphan,   \* history: counters whose EXPIRE was never sent
  tries,    \* history: failures counted since a lock or a fresh counter
  lost,     \* history: locks due since then that were never set
  untrimmed \* history: LTRIMs never sent since the last one

redis == <<count, ttl, lock, events>>
history == <<orphan, tries, lost, untrimmed>>
vars == <<count, ttl, lock, events, req, orphan, tries, lost, untrimmed>>

-----------------------------------------------------------------------------
PC == {"idle",
       "preflight",  \* about to GET the locks
       "checking",   \* past the preflight: credentials or token
       "counting",   \* failure: INCR each counter
       "expiring",   \* failure: EXPIRE each counter that began at 1
       "locking",    \* failure: SETEX each lock that is due
       "clearing",   \* success: DEL each counter
       "unlocking",  \* success: DEL each lock
       "pushing",    \* RPUSH an event
       "trimming"}   \* LTRIM the events

RequestState == [pc : PC,
                 keys : Attempt \union {<<>>},
                 todo : Seq(Key),          \* what is left of this phase
                 got : [Key -> Nat]]       \* what INCR returned

Idle == [pc |-> "idle", keys |-> <<>>, todo |-> <<>>,
         got |-> [k \in Key |-> 0]]

TypeOK ==
  /\ count \in [Key -> 0..MaxCount]
  /\ ttl \in SUBSET {k \in Key : count[k] > 0}
  /\ lock \in SUBSET Key
  /\ events \in 0..MaxEvents
  /\ req \in [Request -> RequestState]
  /\ orphan \in SUBSET Key
  /\ tries \in [Key -> Nat]
  /\ lost \in [Key -> Nat]
  /\ untrimmed \in Nat

Init ==
  /\ count = [k \in Key |-> 0]
  /\ ttl = {}
  /\ lock = {}
  /\ events = 0
  /\ req = [r \in Request |-> Idle]
  /\ orphan = {}
  /\ tries = [k \in Key |-> 0]
  /\ lost = [k \in Key |-> 0]
  /\ untrimmed = 0

-----------------------------------------------------------------------------
(* Definitions named X_<Bug> are variants of X with a plausible bug; no      *)
(* specification uses them.                                                  *)

NextKey(r) == Head(req[r].todo)  \* the key the next command of r is about

Pass(r) == Tail(req[r].todo)

Finish(r) == req' = [req EXCEPT ![r] = Idle]

(* Request r goes on with phase pc, about the keys in ks. *)
Phase(r, pc, ks) == req' = [req EXCEPT ![r].pc = pc, ![r].todo = ks]

Ready(r, pc) == req[r].pc = pc /\ req[r].todo # <<>>

(* Request r is done with its next key; after the last one comes phase pc,   *)
(* about the keys in ks.                                                     *)
Advance(r, pc, ks) == IF Pass(r) = <<>> THEN Phase(r, pc, ks)
                                        ELSE Phase(r, req[r].pc, Pass(r))

(* All that r still has to do is to log an event. *)
Report(r) == req' = [req EXCEPT ![r] = [Idle EXCEPT !.pc = "pushing"]]

-----------------------------------------------------------------------------
(* preflightLogin and preflightRefresh. *)
Begin(r, ks) ==
  /\ req[r].pc = "idle"
  /\ req' = [req EXCEPT ![r] = [Idle EXCEPT !.pc = "preflight",
                                            !.keys = ks, !.todo = ks]]
  /\ UNCHANGED <<redis, history>>

(* A GET finds a lock: 429. *)
Refused(r) ==
  /\ Ready(r, "preflight")
  /\ NextKey(r) \in lock
  /\ Finish(r)
  /\ UNCHANGED <<redis, history>>

NotLocked(r) ==
  /\ Ready(r, "preflight")
  /\ NextKey(r) \notin lock
  /\ Advance(r, "checking", <<>>)
  /\ UNCHANGED <<redis, history>>

(* Redis is not ready, or a GET fails: the attempt goes on unthrottled. *)
Unthrottled(r) ==
  /\ req[r].pc = "preflight"
  /\ Phase(r, "checking", <<>>)
  /\ UNCHANGED <<redis, history>>

(* The credentials, or the refresh token, are no good, or they are.          *)
Check(r) ==
  /\ req[r].pc = "checking"
  /\ \/ Phase(r, "counting", req[r].keys)
     \/ Phase(r, "clearing", req[r].keys)
  /\ UNCHANGED <<redis, history>>

(* With Redis not ready neither is recorded. *)
Unrecorded(r) ==
  /\ req[r].pc = "checking"
  /\ Finish(r)
  /\ UNCHANGED <<redis, history>>

-----------------------------------------------------------------------------
(* recordLoginFailure and recordRefreshFailure.                              *)

(* A lock is due only after one failure too many. *)
Due_Late(k, n) == n > Threshold[k]

(* One failure too early. *)
Due_Early(k, n) == n + 1 >= Threshold[k]

Due(k, n) == n >= Threshold[k]

(* The expiry is set on every failure but the first. *)
First_NotFirst(n) == n # 1

First(n) == n = 1

Incr(r) ==
  LET k == NextKey(r)
      last == Pass(r) = <<>>
  IN /\ Ready(r, "counting")
     /\ count[k] < MaxCount
     /\ count' = [count EXCEPT ![k] = @ + 1]
     /\ tries' = [tries EXCEPT ![k] = @ + 1]
     /\ req' = [req EXCEPT ![r].got[k] = count[k] + 1,
                           ![r].todo = IF last THEN req[r].keys ELSE Pass(r),
                           ![r].pc = IF last THEN "expiring" ELSE @]
     /\ UNCHANGED <<ttl, lock, events, orphan, lost, untrimmed>>

(* A SETEX of an empty counter where the EXPIRE should be. *)
Expire_Setex(r) ==
  /\ Ready(r, "expiring")
  /\ First(req[r].got[NextKey(r)])
  /\ ttl' = ttl \union {NextKey(r)} /\ orphan' = orphan \ {NextKey(r)}
  /\ Advance(r, "locking", req[r].keys)
  /\ UNCHANGED <<count, lock, events, tries, lost, untrimmed>>

(* setExpireOnFirst; an EXPIRE of a counter that is gone does nothing. *)
Expire(r) ==
  LET k == NextKey(r)
  IN /\ Ready(r, "expiring")
     /\ First(req[r].got[k])
     /\ IF count[k] > 0
        THEN ttl' = ttl \union {k} /\ orphan' = orphan \ {k}
        ELSE UNCHANGED <<ttl, orphan>>
     /\ Advance(r, "locking", req[r].keys)
     /\ UNCHANGED <<count, lock, events, tries, lost, untrimmed>>

NotFirst(r) ==
  /\ Ready(r, "expiring")
  /\ ~First(req[r].got[NextKey(r)])
  /\ Advance(r, "locking", req[r].keys)
  /\ UNCHANGED <<redis, history>>

(* SETEX; after the last one comes the event. *)
SetLock(r) ==
  LET k == NextKey(r)
  IN /\ Ready(r, "locking")
     /\ Due(k, req[r].got[k])
     /\ lock' = lock \union {k}
     /\ tries' = [tries EXCEPT ![k] = 0]
     /\ lost' = [lost EXCEPT ![k] = 0]
     /\ IF Pass(r) = <<>> THEN Report(r) ELSE Phase(r, "locking", Pass(r))
     /\ UNCHANGED <<count, ttl, events, orphan, untrimmed>>

(* The event is logged if any lock was due. *)
NotDue(r) ==
  /\ Ready(r, "locking")
  /\ ~Due(NextKey(r), req[r].got[NextKey(r)])
  /\ IF Pass(r) # <<>>
     THEN Phase(r, "locking", Pass(r))
     ELSE IF \E k \in Key : Due(k, req[r].got[k]) THEN Report(r) ELSE Finish(r)
  /\ UNCHANGED <<redis, history>>

-----------------------------------------------------------------------------
(* A counter goes: a new one counts from 1. *)
Drop(k) ==
  /\ count' = [count EXCEPT ![k] = 0]
  /\ ttl' = ttl \ {k}
  /\ orphan' = orphan \ {k}
  /\ tries' = [tries EXCEPT ![k] = 0]
  /\ lost' = [lost EXCEPT ![k] = 0]

(* recordLoginSuccess and recordRefreshSuccess: DEL the counters, then the   *)
(* locks, then the event.                                                    *)
Clear(r) ==
  /\ Ready(r, "clearing")
  /\ Drop(NextKey(r))
  /\ Advance(r, "unlocking", req[r].keys)
  /\ UNCHANGED <<lock, events, untrimmed>>

Unlock(r) ==
  /\ Ready(r, "unlocking")
  /\ lock' = lock \ {NextKey(r)}
  /\ IF Pass(r) = <<>> THEN Report(r) ELSE Phase(r, "unlocking", Pass(r))
  /\ UNCHANGED <<count, ttl, events, history>>

-----------------------------------------------------------------------------
(* logSecurityEvent. *)
Push(r) ==
  /\ req[r].pc = "pushing"
  /\ events < MaxEvents
  /\ events' = events + 1
  /\ Phase(r, "trimming", <<>>)
  /\ UNCHANGED <<count, ttl, lock, history>>

(* LTRIM -limit-1 -1. *)
Trimmed_OffByOne(n) == IF n > EventLimit + 1 THEN EventLimit + 1 ELSE n

(* What LTRIM -limit -1 leaves of n events. *)
Trimmed(n) == IF n > EventLimit THEN EventLimit ELSE n

Trim(r) ==
  /\ req[r].pc = "trimming"
  /\ events' = Trimmed(events)
  /\ untrimmed' = 0
  /\ Finish(r)
  /\ UNCHANGED <<count, ttl, lock, orphan, tries, lost>>

(* The process dies, or Redis fails and the error is swallowed: the commands *)
(* that request r had still to issue are never issued.  The history          *)
(* variables note what is missing.                                           *)
Pending(r, pc, k) ==
  /\ req[r].pc = pc
  /\ \E i \in DOMAIN req[r].todo : req[r].todo[i] = k

ExpirePending(r, k) ==
  req[r].got[k] = 1 /\ (req[r].pc = "counting" \/ Pending(r, "expiring", k))

LockPending(r, k) ==
  /\ req[r].got[k] >= Threshold[k]
  /\ req[r].pc \in {"counting", "expiring"} \/ Pending(r, "locking", k)

Fail(r) ==
  /\ req[r].pc # "idle"
  /\ Finish(r)
  /\ orphan' = orphan \union {k \in Key : /\ ExpirePending(r, k)
                                          /\ count[k] > 0 /\ k \notin ttl}
  /\ lost' = [k \in Key |-> IF LockPending(r, k) THEN lost[k] + 1 ELSE lost[k]]
  /\ untrimmed' = IF req[r].pc = "trimming" THEN untrimmed + 1 ELSE untrimmed
  /\ UNCHANGED <<redis, tries>>

-----------------------------------------------------------------------------
(* A TTL passes. *)
CounterExpires(k) ==
  /\ k \in ttl
  /\ Drop(k)
  /\ UNCHANGED <<lock, events, req, untrimmed>>

LockExpires(k) ==
  /\ k \in lock
  /\ lock' = lock \ {k}
  /\ UNCHANGED <<count, ttl, events, req, history>>

(* The steps that take an answer of Redis, and those that take none.         *)
Command(r) ==
  \/ Refused(r) \/ NotLocked(r)
  \/ Incr(r) \/ Expire(r) \/ SetLock(r)
  \/ Clear(r) \/ Unlock(r) \/ Push(r) \/ Trim(r)

Local(r) ==
  \/ \E ks \in Attempt : Begin(r, ks)
  \/ NotFirst(r) \/ NotDue(r)
  \/ Fail(r)

-----------------------------------------------------------------------------
(* A counter without an expiry would count for ever.  Some request is still  *)
(* to give it one, or the request that should have has died between INCR     *)
(* and EXPIRE, or its INCR was executed twice and it was told of the second  *)
(* time: however failures, successes and expiries of the same counter        *)
(* interleave, nothing else leaves one behind.                               *)
CountersExpire ==
  \A k \in Key : count[k] > 0 /\ k \notin ttl =>
    k \in orphan \/ \E r \in Request : ExpirePending(r, k)

(* Between one lock (or a fresh counter) and the next there are fewer        *)
(* failures than the threshold, and one more for each request that is on its *)
(* way to set the lock or died on it, and for each INCR nobody was told of:  *)
(* concurrent failures cannot slip past the count.                           *)
LockComes ==
  \A k \in Key :
    tries[k] < Threshold[k] + lost[k]
                 + Cardinality({r \in Request : LockPending(r, k)})

(* The list of events exceeds its limit by no more than the requests between *)
(* RPUSH and LTRIM, those that died there since the last LTRIM, and the      *)
(* RPUSHes executed twice.                                                   *)
EventsBounded ==
  events <= EventLimit + untrimmed
              + Cardinality({r \in Request : req[r].pc = "trimming"})
=============================================================================
