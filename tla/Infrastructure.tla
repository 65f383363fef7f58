--------------------------- MODULE Infrastructure ---------------------------
(***************************************************************************)
(* One process of the API between its start and its end, with its          *)
(* connections to PostgreSQL and Redis (PrismaService, RedisService), the  *)
(* health probe, and the login throttle as a user of the connection.       *)
(*                                                                         *)
(* The Redis client (ioredis) reconnects by itself until retryStrategy     *)
(* returns null.  Commands issued meanwhile wait in its queue.  One that   *)
(* was on its way when the connection went is sent again, whether or not   *)
(* Redis has executed it, up to maxRetriesPerRequest times, then rejected. *)
(***************************************************************************)
EXTENDS LoginThrottle

CONSTANTS MaxAttempts, \* MAX_ATTEMPTS of retryStrategy
          MaxBusy,     \* a bound on the requests at the same time
          ProbeWeight  \* as how many requests a probe, or a database outage,
                       \* or both, count for it

EventList == "events"  \* the Redis key of the list, beside those in Key

ASSUME InfrastructureAssumption ==
  /\ MaxAttempts \in Nat \ {0}
  /\ {MaxBusy, ProbeWeight} \subseteq Nat
  /\ EventList \notin Key

VARIABLES
  conn,     \* the status of the Redis client
  attempts, \* the failed attempts since it was last ready
  onTheWay, \* the INCRs and RPUSHes on their way when the connection went
  database, \* whether PostgreSQL answers
  probe,    \* the health probe
  stale     \* history: requests that an INCR has told of a counter gone since

infraVars == <<conn, attempts, onTheWay, database, probe>>

-----------------------------------------------------------------------------
Conn == {"down",          \* the process is not running
         "starting",      \* RedisService.onModuleInit waits for connect()
         "ready",
         "retrying",      \* retryStrategy has returned a delay
         "end"}           \* retryStrategy has returned null

Health == {"none", "asked", "healthy", "degraded", "unhealthy"}

(* What the probe makes of each dependency, the questions that have got no   *)
(* answer yet, and what it answers itself.                                   *)
ProbeState == [database : Health, redis : Health, overall : Health,
               pending : SUBSET {"database", "redis"}]

NoProbe == [database |-> "none", redis |-> "none", overall |-> "none",
            pending |-> {}]

InfrastructureTypeOK ==
  /\ TypeOK
  /\ conn \in Conn
  /\ attempts \in 0..MaxAttempts
  /\ onTheWay \in SUBSET (Request \X (Key \union {EventList}))
  /\ database \in BOOLEAN
  /\ probe \in ProbeState
  /\ stale \in SUBSET (Request \X Key)

InfrastructureInit ==
  /\ Init
  /\ conn = "down"
  /\ attempts = 0
  /\ onTheWay = {}
  /\ database = TRUE
  /\ probe = NoProbe
  /\ stale = {}

-----------------------------------------------------------------------------
(* Start and end of the process.                                             *)

Running == conn \notin {"down", "starting"}

(* bootstrap: without the database it fails at once, and is not up. *)
Start ==
  /\ conn = "down"
  /\ database
  /\ conn' = "starting"
  /\ UNCHANGED <<vars, attempts, onTheWay, database, probe>>

(* SIGTERM, or the end of a crash: requests in flight have failed by         *)
(* themselves, a probe in flight is not answered.                            *)
Stop ==
  /\ Running
  /\ \A r \in Request : req[r].pc = "idle"
  /\ conn' = "down"
  /\ attempts' = 0
  /\ probe' = NoProbe
  /\ UNCHANGED <<vars, onTheWay, database>>

-----------------------------------------------------------------------------
(* The Redis connection.                                                     *)

(* connect() resolves, or the client comes back by itself. *)
Connected ==
  /\ conn \in {"starting", "retrying"}
  /\ conn' = "ready"
  /\ attempts' = 0
  /\ onTheWay' = {}
  /\ UNCHANGED <<vars, database, probe>>

(* retryStrategy returns null. *)
GivesUp(n) == n >= MaxAttempts

(* A request issues the INCRs of its keys at once, and the RPUSH by itself.  *)
Sent == {c \in Request \X Key : Pending(c[1], "counting", c[2])}
          \union {<<r, EventList>> : r \in {q \in Request : req[q].pc = "pushing"}}

(* The connection, or the attempt at it, is closed.  At the start that is    *)
(* not fatal: the process goes on without Redis.                             *)
ConnectionCloses ==
  /\ conn \in {"starting", "ready", "retrying"}
  /\ attempts' = attempts + 1
  /\ conn' = IF GivesUp(attempts + 1) THEN "end" ELSE "retrying"
  /\ onTheWay' = IF conn = "ready" THEN Sent ELSE onTheWay
  /\ UNCHANGED <<vars, database, probe>>

-----------------------------------------------------------------------------
(* The throttle.  A command takes its answer when the connection is ready;   *)
(* before that a request that asks isReady() goes on without Redis, and one  *)
(* whose command is in the queue waits, or has it rejected.                  *)
Throttle(r) ==
  /\ Running
  /\ \/ Local(r)
     \/ conn = "ready" /\ (Command(r) \/ Check(r))
     \/ conn # "ready" /\ (Unthrottled(r) \/ Unrecorded(r))
  /\ onTheWay' = {c \in onTheWay : c[1] # r}
  /\ UNCHANGED <<conn, attempts, database, probe>>

(* The two commands that do something else the second time, INCR and RPUSH,  *)
(* had arrived before the connection went; they are going to be sent again.  *)
(* The history variables note what that does: nobody may be told of the      *)
(* counter's 1, or of its threshold.                                         *)
ExecutedUnheard(r, k) ==
  /\ <<r, k>> \in onTheWay
  /\ onTheWay' = onTheWay \ {<<r, k>>}
  /\ \/ /\ k \in Key /\ count[k] < MaxCount
        /\ count' = [count EXCEPT ![k] = @ + 1]
        /\ tries' = [tries EXCEPT ![k] = @ + 1]
        /\ orphan' = IF First(count[k] + 1) THEN orphan \union {k} ELSE orphan
        /\ lost' = [lost EXCEPT ![k] = IF Due(k, count[k] + 1) THEN @ + 1 ELSE @]
        /\ UNCHANGED <<events, untrimmed>>
     \/ /\ k = EventList /\ events < MaxEvents
        /\ events' = events + 1
        /\ untrimmed' = untrimmed + 1
        /\ UNCHANGED <<count, tries, orphan, lost>>
  /\ UNCHANGED <<ttl, lock, req, conn, attempts, database, probe>>

Expiry ==
  /\ \E k \in Key : CounterExpires(k) \/ LockExpires(k)
  /\ UNCHANGED infraVars

-----------------------------------------------------------------------------
(* HealthService.check: both dependencies are asked at once, and each answer *)
(* runs against a timer of its own (Promise.race): the first of the two      *)
(* settles the question, an answer after the timer changes nothing.          *)

Probe ==
  /\ Running
  /\ probe = NoProbe
  /\ probe' = [NoProbe EXCEPT !.database = "asked", !.redis = "asked",
                              !.pending = {"database", "redis"}]
  /\ UNCHANGED <<vars, conn, attempts, onTheWay, database>>

Settled(status, answer) == IF status = "asked" THEN answer ELSE status

(* SELECT 1 returns, or fails. *)
DatabaseAnswers ==
  /\ "database" \in probe.pending
  /\ probe' = [probe EXCEPT
                 !.pending = @ \ {"database"},
                 !.database = Settled(@, IF database THEN "healthy"
                                                     ELSE "unhealthy")]
  /\ UNCHANGED <<vars, conn, attempts, onTheWay, database>>

(* PONG; or the PING, in the queue or on its way, is rejected, and ping()    *)
(* returns false.                                                            *)
RedisAnswers ==
  /\ "redis" \in probe.pending
  /\ probe' = [probe EXCEPT
                 !.pending = @ \ {"redis"},
                 !.redis = Settled(@, IF conn = "ready" THEN "healthy"
                                                        ELSE "degraded")]
  /\ UNCHANGED <<vars, conn, attempts, onTheWay, database>>

(* PING is left without a timer. *)
TimerFires_DatabaseOnly ==
  /\ probe.database = "asked"
  /\ probe' = [probe EXCEPT !.database = "unhealthy"]
  /\ UNCHANGED <<vars, conn, attempts, onTheWay, database>>

(* withTimeout: a question without an answer counts as one that failed, be   *)
(* the dependency gone, slow, or hung on a connection that is still open.    *)
TimerFires ==
  /\ \/ /\ probe.database = "asked"
        /\ probe' = [probe EXCEPT !.database = "unhealthy"]
     \/ /\ probe.redis = "asked"
        /\ probe' = [probe EXCEPT !.redis = "degraded"]
  /\ UNCHANGED <<vars, conn, attempts, onTheWay, database>>

(* deriveOverallStatus. *)
Overall(d, r) == CASE d = "unhealthy" -> "unhealthy"
                   [] d # "unhealthy" /\ r # "healthy" -> "degraded"
                   [] OTHER -> "healthy"

Conclude ==
  /\ {probe.database, probe.redis} \intersect {"none", "asked"} = {}
  /\ probe.overall = "none"
  /\ probe' = [probe EXCEPT !.overall = Overall(probe.database, probe.redis)]
  /\ UNCHANGED <<vars, conn, attempts, onTheWay, database>>

EndProbe ==
  /\ probe.overall # "none"
  /\ probe' = NoProbe
  /\ UNCHANGED <<vars, conn, attempts, onTheWay, database>>

(* PostgreSQL goes, or comes back. *)
DatabaseChanges ==
  /\ database' = ~database
  /\ UNCHANGED <<vars, conn, attempts, onTheWay, probe>>

-----------------------------------------------------------------------------
(* The history of what requests know.  A request counts a key at most once.  *)
MarkStale ==
  stale' = {c \in Request \X Key :
              /\ req'[c[1]].got[c[2]] # 0
              /\ c \in stale \/ count'[c[2]] < count[c[2]]}

Busy == Cardinality({r \in Request : req[r].pc # "idle"})
          + (IF probe = NoProbe /\ database THEN 0 ELSE ProbeWeight)

InfrastructureNext ==
  /\ \/ Start \/ Stop
     \/ Connected \/ ConnectionCloses
     \/ \E r \in Request : Throttle(r)
     \/ \E r \in Request, k \in Key \union {EventList} : ExecutedUnheard(r, k)
     \/ Expiry
     \/ Probe \/ DatabaseAnswers \/ RedisAnswers \/ TimerFires
     \/ Conclude \/ EndProbe
     \/ DatabaseChanges
  /\ MarkStale
  /\ Busy' <= MaxBusy

InfrastructureSpec ==
  InfrastructureInit /\ [][InfrastructureNext]_<<vars, infraVars, stale>>

(* Node fires a timer that is due and resumes check() when both questions    *)
(* are settled.  Nothing makes PostgreSQL or Redis answer.                   *)
FairInfrastructureSpec ==
  /\ InfrastructureSpec
  /\ WF_<<vars, infraVars, stale>>((TimerFires \/ Conclude) /\ MarkStale)

-----------------------------------------------------------------------------
(* Every health probe is answered, unless the process ends: though PostgreSQL *)
(* or Redis never says a word, the PING waits in the queue of a client that  *)
(* reconnects or has given up, or one question is settled by its answer and  *)
(* the other by its timer, in either order (HealthService.check).            *)
ProbeIsAnswered ==
  probe # NoProbe ~> probe.overall # "none" \/ conn = "down"

(* The decision to lock is made on what INCR returned, several commands      *)
(* before the SETEX.  A key that gets locked has at that moment as many      *)
(* failures as its threshold, whatever other requests did in between; but    *)
(* for one reason: its counter has been deleted by a success, or has         *)
(* expired, since the INCR of the very request that locks it.                *)
LocksAreFounded ==
  [][\A r \in Request, k \in Key :
       k \in lock' \ lock /\ req'[r] # req[r] =>
         count[k] >= Threshold[k] \/ <<r, k>> \in stale]_<<vars, infraVars, stale>>
=============================================================================
