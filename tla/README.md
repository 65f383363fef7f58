# Formal model of the Adhitama ERP API

TLA+ modules, TLC configurations and TLAPS proofs about the backend under
`src/adhitama/apps/api`: a NestJS application on PostgreSQL (through Prisma) and
Redis. The scripts that audit the code base and the documents are not modelled;
the documents are quoted where they say what the program is to do.

What makes the backend worth modelling is that every request handler is a chain
of database calls with an `await` between any two of them, that almost every
rule is a read followed by a write in a different statement, and that only a few
of these pairs are in a transaction. PostgreSQL runs at READ COMMITTED, which is
what Prisma uses unless told otherwise. The question each module asks is which
rules survive every interleaving, failure and expiry, and by which of the code's
lines.

`PROJECT.json` has the map from definitions to source lines, the runs, the
mutants, the hazards, the findings and the theorems. Paths below are relative to
`src/adhitama/apps/api`.

## 1. The system's parts

| part | state | operations | talks to |
|---|---|---|---|
| Sessions, refresh-token rotation (`session.service.ts`, `session.repository.ts`, `jwt.strategy.ts`) | `sessions` | create, verify ownership, rotate, revoke, revoke all, authorize | called by login, refresh, logout, logout-all, password reset; reads `users` |
| Authentication facade (`auth.service.ts`, `auth.controller.ts`) | none but `users.lastLoginAt` | login, refresh, logout, logout-all | sessions, throttle, audit |
| Password reset (`forgot-password.*`) | `password_reset_tokens`, `users.passwordHash` | request, reset | mail, then sessions (revoke all) |
| E-mail verification (`email-verification.*`) | `email_verification_tokens`, `users.emailVerifiedAt` | resend, verify, clean up | mail |
| Throttle (`auth-security.service.ts`) | Redis: counters, locks, an event list | preflight, record failure, record success | login, refresh |
| Users (`modules/users`) | `users` | create, update (role), change status, soft-delete, list by pages | roles (validation), NIP helper |
| NIP helper (`nip.helper.ts`) | none (reads `users.nip`) | generate the next employee number | users |
| Roles and permissions (`modules/rbac`) | `roles`, `role_permissions` | create, rename, delete, assign and remove permissions | users (count, foreign key) |
| Checks of a request (`tenant-resolver.*`, `jwt.strategy.ts`, `permission.guard.ts`, `security-policy.guard.ts`, `global-exception.filter.ts`) | none but what the request carries from one to the next | resolve the tenant, read user and session, decide, answer | tenants, users, sessions, roles |
| Seeders (`database/`) | first rows of `permissions`, `tenants`, `roles`, `users` | permissions, tenant, roles, owner | run beside the API |
| Redis client (`redis.service.ts`) | the connection, its queue of commands | connect, retry, give up, close | throttle, health checks |
| Health checks (`core/health`) | none but a probe in flight | probe | PostgreSQL, Redis |
| Audit log, mail, configuration, profile | small or none | | |

What each must get right, and what makes that hard:

* **Sessions.** One login never has two usable refresh tokens; a replayed token
  takes the session that replaced it down with it; every request ends. Hard:
  the session is read, the new tokens are signed and hashed, and only then the
  old row is updated; logout-all races with a rotation's uncommitted row.
* **One-time tokens.** A token takes effect at most once; a newer one supersedes
  it; the cooldown between two holds; a used token had its effect. Hard: the
  check, the slow password hash and the update are separate; the clean-up of
  expired tokens runs for the whole tenant; a process may die anywhere.
* **Throttle and Redis client.** Enough failures lock; counters expire; the event
  list is bounded. Hard: every command is a round trip, Redis may vanish between
  two, and a command that was on its way is sent again whether or not Redis
  executed it.
* **Health checks.** Whoever asks gets an answer, whatever the dependencies do.
  Hard: two questions, each an answer that races a timer, to a PostgreSQL or Redis
  that may hang with the connection open, and a client that may wait, retry or have
  given up.
* **Users.** Employee numbers are unique and without gaps; deleted users stay
  as they were; a tenant keeps an OWNER; who reads the list page by page sees
  everybody once. Hard: all of it is check-then-act, and a page is two queries.
* **Roles.** Users keep a role; system roles stay as seeded; no permission
  belongs to a role that is gone. Hard: the checks are outside the transactions,
  and foreign keys do what the comments ascribe to the transactions.
* **Seeders.** Safe to run again, after a run that died, beside another and
  beside a tenant at work. Hard: each is look-then-create, and only the roles are
  seeded in one transaction.
* **Checks of a request.** Who is admitted had the permission, who is refused
  lacked it. Hard: the role is read in one query, its permissions in another.

`PROJECT.json` lists the hazards one by one, each at its line.

## 2. Modules

| module | models | runs |
|---|---|---|
| `TokenFamily` | abstract: a family of sessions has one head, moved by a refresh, killed for good | through `Sessions` |
| `Sessions`, `MCSessions` | login, refresh, logout, logout-all, the revocation a reset asks for, expiry, suspension and deletion | `sessions`, `sessions_live`, `sessions_deleted`, `sessions_logout_all` |
| `SessionsProofs` | theorems about `Sessions` | |
| `OneTimeToken` | abstract: issued once, retired at will, takes effect at most once | through the next two |
| `PasswordReset`, `MCPasswordReset` | request and use of a reset token, logins that race with it | `password_reset`, `reset_sessions` |
| `PasswordResetProofs` | theorems about `PasswordReset` | |
| `EmailVerification`, `MCEmailVerification` | resend and use of a verification token, the clean-up | `email_verification` |
| `LoginThrottle` | counters, locks and events in Redis | through the next |
| `Infrastructure`, `MCInfrastructure` | the throttle over a connection that comes and goes, start and end of the process, the health probe | `login_throttle` |
| `InfrastructureProofs` | theorems about `Infrastructure` | |
| `Personnel` | abstract: hiring, moves, status changes and departures in one step each, employee numbers from a counter | through the next two |
| `Users`, `MCUsers` | creation with its employee number, role and status changes, soft deletion | `last_owner`, `nip` |
| `UserList`, `MCUserList` | extends `Users`: a client that goes through the list page by page | `users` |
| `UsersProofs` | theorems about `UserList`, and with it `Users` | |
| `RoleCatalogue` | abstract: every change of the roles checked and made in one step | through `Access` |
| `Roles` | create, rename, delete, assign, remove, with the user writes they race with | through the next two |
| `Seeding` | extends `Roles`: the seeders, which fill its tables | through the next |
| `Access`, `MCAccess` | extends `Seeding`: a request on its way through the checks, and the specification of the whole | `roles` |
| `RolesProofs`, `SeedingProofs`, `AccessProofs` | lemmas about the steps of the first two, theorems about the third | |

`LoginThrottle`, `Roles` and `Seeding` have no specification of their own: their
actions are steps of `Infrastructure` and `Access`, which say when each may be
taken, so that what is checked is always the composition. The others meet where
one calls the other: `ResetPassword` in `Sessions` is where `PasswordReset` has
`RevokeAllSessions`; what the throttle wraps is the login and the refresh of
`Sessions`; the session that `Access` reads is one of `Sessions`. There the
other component is an action that succeeds or fails.

### Conventions

* A handler in flight is a slot of `Request` with a record: `pc`, and the values
  the code keeps in local variables across an `await`. Slots are used again.
* One action is what the code does from one `await` to the next. The comment above
  it names the method; the guard is its WHERE clause or its `if`.
* Statements are at READ COMMITTED. A transaction that holds a row is `Locked`
  until its commit, its writes are invisible till then and are made by the action
  that commits. An UPDATE or DELETE of many rows takes its snapshot, waits for the
  locks and looks again at the rows it waited for.
* `Fail(r)`: the handler dies or an exception leaves it, at any `await`; its
  transaction rolls back and no more of its statements are issued.
* Identifiers come from a constant set, and the guard is that one is left; the
  proofs assume nothing of its size. Clocks stop at `MaxTime`, counters at `MaxCount`
  and `MaxEvents`. Every such bound is called one where it stands.
* History variables are called so where they are declared. No guard of the program
  reads them (`issued` is also where `EmailVerification` looks for a fresh
  identifier).
* `TokenFamily`, `OneTimeToken`, `Personnel` and `RoleCatalogue` translate no code:
  each states on a page what a component promises, and the component is shown to
  implement it.
* An operator named `X_<Bug>` stands before `X` and is `X` with a plausible bug. No
  specification uses it; `PROJECT.json` pairs it with the property that catches it.

### Sessions

`revoked` is `revokedAt IS NOT NULL`. `age` is the clock as a session sees it: both
expiries ahead, the refresh token's passed, the row's passed too; the token is
signed before the row is written, so the second state exists. `held` are the
sessions whose tokens reached a client: nobody else presents them. `parent` is what
the audit log notes as `previousSessionId`; `root` is a history variable and names
the login a session descends from, which the program does not record. Rotation is
`RefreshVerify` (signature), `RefreshOwnership` (row, replay detection),
`RotateRevoke` (the UPDATE that takes the lock) and `RotateCommit` (INSERT and
COMMIT). `revokeAll` is `RevokeAllBegin` and `RevokeAllEnd`. A family has
`TokenFamily`'s head when one session of it is not revoked.

### One-time tokens

`used` is `usedAt` with what set it, which the properties need and the program does
not record. Both expiry comparisons of the code are in the model: `expiresAt <= now`
is expired, `expiresAt < now` is removable. `log` is the order in which tokens took
effect. `PasswordReset` has logins beside resets, for `ResetEndsOldSessions`: a
password is named by the token that wrote it. In `EmailVerification` rows go away,
so `issued` remembers those there were, and what a request `seen` is taken from it.
`known` is a history variable: for each token, those its request found before the
cooldown check. `SupersedesEarlier` and `CooldownHolds` say of all tokens at all
times that two of one user are usable together, or closer in time than the cooldown,
only if neither request found the other's token: only if the two overlapped. Both
map to `OneTimeToken` by `TokenState`.

### Throttle, Redis client and health probe

A key stands for the counter and the lock named after it; a login has two keys, a
refresh one, processed in the order the commands are issued. TTLs are abstracted to
"a key that has an expiry may go". `orphan`, `tries`, `lost` and `untrimmed` are
history variables: they count what died on the way, or happened without anybody
being told, so that the properties can say "but for that". `stale`, in
`Infrastructure`, is one more: the requests that INCR told of a counter which has
been deleted or has expired since.

`conn` is the status of the ioredis client and `attempts` its failed attempts.
`Start` is `bootstrap`: fatal without PostgreSQL (`PrismaService` rethrows), not
without Redis. `ConnectionCloses` asks `retryStrategy` (`GivesUp`), and in "end"
there is no way back but `Stop` and `Start`. `Throttle(r)` is a step of
`LoginThrottle`: the commands need the connection ready; a request that asks
`isReady()` otherwise goes on without Redis, one whose command is in the offline
queue waits or has it rejected (`Fail`). `onTheWay` are the INCRs and RPUSHes
that were sent when the connection closed: Redis may have executed them, and
then does so twice (`ExecutedUnheard`); the other commands do the same thing
again.

A probe asks both dependencies. Its record has what it makes of each, and in
`pending` the questions that have got no answer. `DatabaseAnswers` and
`RedisAnswers` are the answers, or the rejection of a query to a dependency that is
away; `TimerFires` is `withTimeout`: a question still open counts as failed, with
the dependency up and the client ready as well, for it may be slow or hang. The
first of the two settles the question (`Settled`, which is `Promise.race`); an
answer after the timer still comes, and changes nothing. Answers that come after
the probe has been sent off are not followed: nothing listens to them.

### Users, roles, seeders, requests

`Users` has two role names, OWNER and another, because the code tells no more
apart; `Roles` has the role rows. `disturbed` in `Users` is a history variable:
the deletions that another change overtook between their reads and their write.
For `Personnel` the rows are the people, the deleted ones those who have left, and
the counter is how many rows have a number.
Foreign keys and unique indexes are part of the actions that write (`Unique`,
`DeleteRow`, `AssignPermissions`), for they refuse writes the code would let
through.

In `UserList` a walk asks for page 1, 2, ... up to the `totalPages` of the last
answer; each page is `FindRows` and `CountRows`, in either order. `Position` is
where the sort field puts a user and `Rank` its place among those present. The
history notes who is there all along and what happened meanwhile.

In `Seeding` a run is a program counter with what `seed.ts` hands from one seeder
to the next. `SeedRoles` is one action because the code has it in one
transaction; the upserts of permissions are one each. The founder's `roleOf` is
`NoRole` until there is an account with the address `SEED_OWNER_EMAIL`; requests
begin when there is one (`Opened`), for before nobody can log in.

In `Access` the request that is followed carries what the code's request object
does: the tenant of its host, then the role that `JwtStrategy` read. `seen` has
"permitted" when its user's role, as it was at some moment since the request
began, had a permission that suffices, "unpermitted" when it had not, and
"moved" when the user was given another role between the two reads. `RoleCatalogue`
has the tables of `Access` under their own names, and nothing else of it.

## 3. What the runs check

| run | what it shows | bounds |
|---|---|---|
| `sessions` | one usable token per login, replay takes the successor, a rotation spends its parent, `Sessions` implements `TokenFamily` | 1 user, 3 sessions of which 1 ages, 2 requests |
| `sessions_live` | every request ends (`FairSpec`) | 1 user, 3 sessions, none ages, 2 requests |
| `sessions_deleted`, `sessions_logout_all` | violations, see below | 1 user, 2 sessions, 2 requests |
| `password_reset` | a new token supersedes and the cooldown holds but between overlapping requests, a used token wrote the password, `PasswordReset` implements `OneTimeToken` | 1 user, 3 tokens, 2 requests, cooldown 1, lifetime 2, time 2 |
| `reset_sessions` | violation, see below | the same with 2 tokens |
| `email_verification` | the same for verification tokens, and that the clean-up takes no usable token | 2 users, 2 tokens, 2 requests, cooldown 1, lifetime 2, time 3 |
| `login_throttle` | counters expire, locks come, a key is locked below its threshold only if its counter has gone since, the list is bounded; every probe is answered (`FairInfrastructureSpec`) | refreshes of 1 address, threshold 2, 2 connection attempts; 2 requests, or 1 probe with PostgreSQL coming and going, at a time (`MaxBusy`, `ProbeWeight`) |
| `users` | numbers consecutive, the deleted frozen, an undisturbed deletion leaves an OWNER, what a walk through the list misses and repeats, `Users` implements `Personnel` | 3 users, 3 e-mail addresses, pages of 1, 2 requests, or 1 and a walk (`MaxBusy`) |
| `roles` | users keep a role, system roles untouched, no dangling grants, seeding complete and additive, admission and refusal founded, `Access` implements `RoleCatalogue` | 3 roles, 3 names (a system role, an ordinary one that is seeded, one more), 1 permission, 2 users, 2 requests, 2 runs of the seeders, 1 guarded request; any `MaxBusy` = 2 of them at a time |
| `last_owner`, `nip` | violations, see below | 3 users, 2 requests |

Why these bounds are enough to be of use: each property is about two requests
and one row (or a row and its successor); two slots give every pair of handlers
in every interleaving, and, because slots are used again, any number of requests
one after the other. Three sessions give login, rotation and a second rotation;
with two the replay of a spent token could not meet its successor's successor.
Three reset tokens give a token, the one that supersedes it, and one for an
overlapping request. Instants are chosen so that a token can be within the
cooldown, past it, and expired (cooldown 1, lifetime 2). The theorems below hold
for any number of all of these.

In the throttle the threshold is small so that the lock is reached within the
bound on the counters (`MaxCount`), and one key is enough for the properties,
each of which is about one counter; with the two keys of a login the instance
has more than eight million states. Two attempts give a connection that comes
back and one that is given up. A probe and a database outage weigh as much as both
requests (`ProbeWeight`), so they are not followed beside requests: neither reads
anything the other writes, and they have only the connection in common, which
neither changes. With weight 1 the instance has 1.4 million states and its
invariants hold too, but the liveness check takes four minutes. In `users`, role and status changes are followed
only where there is no walk (`Followed`): the list does not depend on them.
Pages of one user make three of them. In `roles`, two at a time are every pair of
a request, a run of the seeders and a guarded request, with the third waiting
its turn; each property is about two of them. One permission is enough for
"has one that suffices"; `Suffices` over several is `CheckPermission` for each set
`needs`.

### Fairness

Three runs use it. In `sessions_live` and `sessions_deleted`, `FairSpec` is strong
fairness of `Continue(r)`, the steps of a handler that has begun. Node resumes a handler
whose promise is settled, and PostgreSQL queues those that wait for a row lock,
so a step that is possible again and again is taken at last. Weak fairness would
not do, as a step that waits for a lock is disabled whenever somebody else
takes it. Nothing obliges clients to send requests, requests to fail, or users to
be suspended: those actions have no fairness.

In `login_throttle`, `FairInfrastructureSpec` is weak fairness of the timers of a
probe and of its conclusion together: Node fires a timer that is due, and resumes
`check()` when both questions are settled. That is one condition on `TimerFires \/
Conclude`, one of which stays possible until the probe is answered. PostgreSQL and
Redis are obliged to nothing: not to answer, not to come back, not to fail. A PING
without its timer (`TimerFires_DatabaseOnly`) leaves the probe waiting for a Redis
that hangs. The run has no symmetry, with which TLC's check of liveness is not sound.

### Where the code does something else than it says

Each of these is a run that must fail, with the property taken from the sentence
quoted in `PROJECT.json`.

1. `sessions_deleted`: refresh does not look at the user. One who is deleted or
   suspended exchanges refresh tokens without end (the access tokens so
   obtained are refused).
2. `sessions_logout_all`: logout-all at the same time as a refresh may leave the
   refreshed session alive.
3. `reset_sessions`: a reset's sessions are revoked outside its transaction, a
   failure to do so is swallowed, and a login that compared the old password
   may insert its session later still.
4. `last_owner`: two deletions, or a deletion and a role or status change, may
   leave a tenant with no active OWNER.
5. `nip`: after the employee with the highest number is deleted, creations of
   employees are refused with 409, as the number generated is the deleted one's.

Met while modelling, without a run: two overlapping reset requests, or resends, both
leave a usable token; suspension and deletion revoke no session (the document on the
auth surface expects them unusable); `updateUser` lets an OWNER become something
else, the last one included, and an employee become one without a number; a counter
whose EXPIRE was lost counts for ever and, past the threshold, locks at each
failure; a failure counted before a success may lock after it, the one way to be
locked with fewer failures than the threshold (`LocksAreFounded`); a role held only
by soft-deleted users cannot be deleted, as the count leaves them out and the
foreign key does not; `assignPermissions` may answer nothing for a role deleted
meanwhile.

Of the seeders: a second run overwrites the descriptions of permissions and roles,
creates a seeded role again that was renamed or deleted, and restores the grants of
the map that an administrator removed from an ordinary seeded role; it does not
restore an OWNER who was soft-deleted, for the look for the account is content with
a deleted row and the address is taken by it. That is why `SeedersTakeNothing` says
what a run does not take, and not that it changes nothing.

Of Redis and the probe: an INCR that is executed twice leaves the request with
the count 2 and the counter without an expiry; the line "connection restored" is never
logged, since `isConnected` is reset on close and set nowhere but in `connect`; once the
retry limit is reached Redis stays away until the process is started again
(the log line says "until reconnected").

Of requests: a user who is moved to another role between the read of the user and
the count of the grants is judged by the old role, even by a permission it was
granted only after: without the case "moved" `AdmittedWasPermitted` does not hold.
`SecurityPolicyGuard` exempts `/auth/me`, a route it does not guard. `updateUser`
and `updateStatus` write, read again, and answer 404 for a user deleted in between.

Of the list: a client that goes through it misses users when somebody is deleted
meanwhile, or when somebody is created between the count and the rows of one page,
and meets users twice when somebody is created. Sorted by a field that changes or
has ties (status, name, `updatedAt`), with no further key to order by, pages need
not fit together even when nobody comes or goes; that is outside the model.

And what is *not* the case: the document
allows that two refreshes at the same time "may allow multiple valid tokens",
which `OneLivePerFamily` refutes for one login's tokens; and the comment in
`deleteRole` credits its transaction with what the foreign key does: the mutant
`DeleteRow_SetNull` keeps the transaction and changes the key.

## 4. What is proved

With TLAPS, for every value of the constants that satisfies the modules' named
assumptions. Every safety and action property that a passing run checks is the
subject of a theorem, one of them under a condition (`CooldownIsKept`), and so are
the five refinements: two of `OneTimeToken`, one each of `TokenFamily`, `Personnel` and
`RoleCatalogue`.

* **`SessionsProofs`.** `FamilyInv` is inductive. `OneLivePerFamily` alone is not: a
  rotation that has its row's lock will create a second session, so one has to know
  that the locked row is not revoked (`LockedIsLive`, true because logout,
  revoke-all and other rotations wait for the lock), that only one rotation has it
  (`LockIsExclusive`), that tokens in flight belong to rows (`TokensHaveRows`), and
  that a family's name is a row (`RootsAreRows`), so that a new login does not join
  an old family. From it follow `TypeCorrect`, `OneLive`, `RotationSpends` and the
  refinement `ImplementsTokenFamily`, one case per action: a login opens, a commit
  rotates, a logout or revoke-all kills, and all else stutters.
  `ReplayTakesSuccessor` adds `ReplayInv`: a session belongs to the user of the one
  it was rotated from, so the snapshot of a replay's revoke-all either has the
  successor or finds it revoked, and no later rotation adds one, for the session
  presented is spent. Assumed: `SessionsAssumption`, `FamilyAssumption` (the null
  values are no identifiers). The bound on identifiers is a guard, so no finiteness
  is needed.
* **`PasswordResetProofs`.** `ResetInv` is inductive: types; the tokens a request
  carries are rows; a token that is locked is unused and locked once; `Superseding`,
  which follows a request from the cooldown check through the invalidation to the
  creation and says at each point which of the tokens it saw are still usable and by
  whom they may be locked; `Cooled`, the same for their age; that what is known of a
  token are rows (`KnownAreRows`), of which the superseded never become usable
  again; and the effect. Steps are first reduced to the few effects they may have on
  the tables (`NextSteps`), and each conjunct is shown for those. From it
  `TypeCorrect`, `NewTokenSupersedes`, `CooldownIsKept`, `ResetTakesEffect` and
  `ImplementsOneTimeToken`. Assumed: natural cooldown and time, a positive lifetime
  (without which a token would be dead when issued).
* **`EmailVerificationProofs`.** `VerificationInv` is the same idea where rows are
  deleted: superseding and cooldown are about every token ever issued
  (`KnownAreIssued`), and `RemovedAreOld` says that one that is no row any more
  expired some time ago, so its deletion neither takes a usable token
  (`LiveUntilReplaced`) nor lets the cooldown forget it. The last holds only because
  the cooldown is not longer than the lifetime: `CooldownIsKept` has `Cooldown <=
  Lifetime + 1` as its condition, and with a cooldown of 3 and a lifetime of 1 TLC
  finds `CooldownHolds` violated. The code has two minutes and one hour.
* **`InfrastructureProofs`.** `InfrastructureInv` is inductive: types, what a
  request knows of the counters it has incremented, that the sets of requests which
  are to lock or to trim are finite, that failures since a lock are not more than
  the counter, and the properties. Each of the three bounds is an account: a failure
  is either followed by its EXPIRE or SETEX, or some request has it still to issue,
  or a history variable has noted that none will (`ExpiryAccounted`,
  `LockAccounted`, `EventsAccounted` say that every step keeps the account). A step
  changes at most one request, and `Reckoning` is what that does to a cardinality.
  `CountsHeard` says that what INCR told a request is no more than the counter
  holds, unless the request is `stale`; the lock is set several commands later, and
  only by `SetLock` (`ThrottleHears`). From it `TypeCorrect`, `EveryCounterExpires`,
  `ThresholdHolds`, `EventListIsBounded`, `LocksFounded`. Assumed: a key is not
  twice in an attempt, thresholds are positive.
* **`UsersProofs`.** `UsersInv` is inductive: the numbers given out are 1 to their
  count, a creation in flight has found at most the next, and a deletion that
  nothing has overtaken knows its user's role and, past the check, another OWNER.
  That `Max` finds a greatest number is by well-foundedness of the finite subsets.
  It gives `NumbersHaveNoGap`, `DeletionIsFinal` and `OwnerIsLeft`.
  `ImplementsPersonnel` maps an insert to a hiring and each other write to its
  namesake: an insert that the indexes let through takes exactly the counter's next
  number (`InsertNumber`), since what was read was at most that and every lower
  number is taken; `CreationsKnow` adds that it has one unless it is for an OWNER.
  That the list changes no user (`ListLeavesUsers`) carries all of these over to
  `UserListSpec`. For the walk, `WalkInv` says of a user who is there all along and
  not yet listed that its rank is past the pages so far, unless somebody was
  deleted; of one who is listed that it is not, unless somebody was created; and
  that the count covers those who are there, unless somebody came in between.
  Deletions only lower ranks and creations only raise them. From it `WalkIsComplete`
  and `WalkIsDistinct`. Assumed: no two users in the same position.
* **`RolesProofs`, `SeedingProofs`, `AccessProofs`.** `AccessInv` is inductive.
  `RolesInv` is types (with them the foreign key of `users`), the grants' key, and
  that a request which has found a role to be none of the system's is about one that
  still is none: this is what the reads before the writes rely on, and it holds
  because identifiers do not come twice and system names are taken by rows that no
  request may touch. `SeedingInv` adds what a run knows by its place in the code
  (`RunsAreInOrder`): past the permissions all of them are there, past the tenant
  the tenant, past the roles a system role; that the system roles come together and
  complete (`SystemRolesAreComplete`); and that the founder comes last. None of it
  is ever undone, by requests or by other runs, which is why a run that goes on long
  after may rely on it, and why another's death does not matter. `RolesProofs` shows
  what a request's step preserves, `SeedingProofs` what a seeder's step does and,
  with the first, what a request's step does to `SeedingInv`. `AccessProofs` adds
  the request that is followed: while its role is the user's present one, what is
  seen at the moment of the count is what the count finds. From it `TypeCorrect`,
  `GrantsHaveRoles`, `SeededForGood`, `UsersKeepTheirRoles`,
  `SystemRolesStayAsSeeded`, `SeedersOnlyAdd`, `AdmittedHadPermission` and
  `RefusedLackedPermission`. `ImplementsCatalogue` says the most: every step of a
  request or a seeder either leaves the tables alone or is a change that
  `RoleCatalogue` allows, on conditions that are so in that very step. Beside
  `AccessInv` it needs `CatalogueInv`: the roles that exist are those with a name,
  names are unique, and whoever is deleted had a role. `OnlyWritesWrite` and
  `OnlyTwoSeed` say which steps change the tables, `RequestIsCatalogue` and
  `SeederIsCatalogue` which change of the catalogue each is. Assumed:
  `RolesAssumption`, `SeedingAssumption` (the system's roles are seeded, each with
  every permission, which is what `ROLE_PERMISSION_MAP` has for OWNER and
  SUPER_ADMIN), `AccessAssumption`.

Only model-checked: `RequestsEnd` and `ProbeIsAnswered`, for liveness under fairness
and ENABLED are out of the prover's reach, and the five violations, each of which is a behaviour of an
instance. Also out of its reach are induction over data and RECURSIVE operators;
no module has any.

## 5. What is not modelled

* The audit log is append-only, written without being awaited, and read by no
  operation modelled.
* Mail and templates: sending is an action that succeeds or the failure path.
* Token signing, hashing, and validation of input and of the configuration are what
  they promise: a token presented is one that was issued. Argon2 and SHA-256 are
  not looked into.
* Descriptions, profile fields and avatars, and the list's search term, which
  filters both queries of a page alike; the bodies of answers.
* The instant at which the UPDATE that marks a token used judges its expiry. The
  code fixes it (`new Date()`) when it issues the UPDATE, `MarkUsed` when the row's
  lock is granted: a token that expires in between is still accepted by the code.
  The difference is the wait for one row, at most a transaction's timeout.
* The flag `isConnected` of the Redis client, which decides on log lines alone.
* Statuses of tenants, and the password policy, as a request finds them: a check of
  either passes or fails, as each is read once.
* PostgreSQL's deadlock detection: an UPDATE of many rows waits here for all of
  them at once. A deadlock would be an abort, which `Fail` allows.
* NIPs beyond `EMP-999999`, where the string order used to find the highest is not
  the numbers' order; stated as an assumption on `MaxNip`.
* The scripts under `scripts/`, which print reports about the code and its tests.
* The business modules (customer, finance, inventory, ...), directories that are
  still empty.

## 6. Plan

Done: sessions and rotation, one-time tokens, throttle with its Redis connection
and the health probe, users with their list, roles with the seeders and the
checks of a request, and the proofs of all of these.

What could still be added:

1. Profile updates, and the list sorted by a field that they change or that
   has ties: a walk may then miss and repeat users with nobody coming or going.
2. `Sessions` and `PasswordReset` with the tables in common, in place of the action
   that stands for the other in each.
3. Login and refresh of `Sessions` as the work that the throttle wraps, to relate
   locks to sessions opened.
