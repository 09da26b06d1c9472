# TLA+ models of the SSO platform's access revocation

A verification development kept beside the `seleksi2-labpro` repository, an SSO identity and
authorization provider. The platform's central promise is that access which has been taken away is
gone everywhere: a logout, a password change, a deactivation or a policy change in the Auth Provider
reaches every relying application, over a transactional outbox, a broker and a worker that retries.
The models follow that path first. Paths below are relative to `src/`.

## 1. The system

| Part | Code | State | Operations |
|---|---|---|---|
| Auth Provider server | `auth-provider/server/src` (NestJS) | primary PostgreSQL: users, groups, policies, central sessions, authorization codes, access tokens, MFA factors and challenges, `events` | login and MFA, authorize, token exchange, userinfo, logout, administration |
| Transactional outbox (in the server) | `…/event-processing` | `events` rows: status, `publishAttemptCount`, `nextPublishAttemptAt` | enqueue in the revoking transaction; claim, publish with confirm, mark, reschedule |
| Sync Worker | `auth-provider/sync-worker/src` | `event_deliveries` rows: status, `attemptCount`, `nextRetryAt`, `lastAttemptAt` | consume, create deliveries, call the application, record, retry cycle, dead letter, shutdown |
| App A, App B | `applications/app-{a,b}/src` (Next.js) | own PostgreSQL each: `local_sessions`, `processed_events` | OAuth callback, pages, local logout, `POST /internal/logout` |
| Control Panel | `auth-provider/control-panel` (Next.js) | none but what a page shows | forms that call the admin and MFA APIs |
| Shared contract | `packages/shared/src` | none | event types, validation, canonical form, fingerprint |
| RabbitMQ, PostgreSQL | `docker-compose.yml` | queues, tables | external |

How they interact. A revoking transaction of the server changes the central state **and** inserts
event rows, atomically (`README.md:139`). The publisher polls those rows and publishes them with a
confirm (`README.md:140`). The worker receives each message at least once (`README.md:167`), creates
one delivery row per target application and posts the event to it; the application revokes its local
sessions idempotently, with `processed_events` as its memory (`README.md:143`). What keeps failing
goes to the dead-letter queue (`README.md:144`). There is no shared memory between the processes:
only tables, a queue and HTTP calls. Inside each process everything that is awaited is interleaved.

What is hard, and what makes each part correct:

* **Outbox.** Crash, lost confirm or failed update between the broker and the row; a lease that runs
  out under a slow publisher. Correct: no row is PUBLISHED without a copy in the broker, every
  committed row gets there, and an attempt that lost its claim does nothing.
* **Sync Worker.** Redelivered messages, the retry cycle and orphan recovery work on the same rows;
  attempts answer late; a crash can hit any await. Correct: one claim per attempt number, terminal
  outcomes are final, no message is given up before its rows can be retried, every delivery concludes.
* **Applications.** Logins, pages, local logouts and duplicate events meet in READ COMMITTED
  transactions. Correct: an answered event has revoked what it matched, a duplicate revokes nothing,
  no page is granted on a session a processed event has ended, an ended session keeps its reason.
* **Central sessions, codes, tokens.** Checks made before the transaction that relies on them.
  Correct: nothing issued outlives the session, the policy and the account it was issued under.
* **Administration.** Losing the last path to an application is decided from rows that other
  transactions change, and requests are checked on what was read before their transaction. Correct: who
  lost access is revoked; an administrator remains; redirect URIs stay within their limits.
* **MFA.** Concurrent completions of a challenge; enrolment, management and logins from several tabs.
  Correct: a time step and a recovery code count once, attempts are limited, the secret that is enabled
  is one the user has, recovery codes are one generation.
* **Consumer and shutdown.** A connection closes while it is being set up, is replaced while old work
  runs, or the process must stop with work left. Correct: a message is settled once, work ends before the
  database closes unless the deadline passes, and the worker consumes again or exits.

`PROJECT.json` lists every component with what is modelled of it, and 40 hazards, each at its line.

## 2. Modules

| Module | Role |
|---|---|
| `RevocationPromise` | abstract: each delivery is owed until it is notified or abandoned, once |
| `RevocationDelivery` | the Sync Worker; implements `RevocationPromise` |
| `RevocationOutbox` | the outbox and its publisher |
| `LocalSessions` | the sessions and the logout endpoint of one application |
| `CentralAccess` | central sessions, codes and tokens of the provider, and what revokes them |
| `AdminAccess` | paths from users to applications, and the administrative requests that change them |
| `MultiFactor` | enrolment, recovery codes and login challenges of a user |
| `ConsumerConnection` | the worker's connection to RabbitMQ and its graceful shutdown |
| `MC…` | constants, orders and symmetry sets for TLC |
| `…Proofs` | theorems, for every value of the constants |

Three conventions hold in all of them. A statement, an HTTP call or a broker call that the code awaits
is a step of its own (statements that only meet rows their transaction has locked already may share one). A clock is abstracted to the tests the code makes of it (*due*, *stale*,
*past*), which time sets and updates clear. A conditional `updateMany` is one atomic step whose guard
is its WHERE clause and whose *count* decides where the caller goes. The definitions that a
comment introduces with "Mutant" are not part of any specification: each is the form a plausible bug
would give to the definition below it, and shows that the properties notice it.

### RevocationDelivery (`sync-worker/src/event-processing`)

* `row` is `event_deliveries`; `ready` and the `held` flags of the tasks are the queue and the
  unacknowledged copies; `task` is each running `processMessage`, `poll` the retry cycle, and `att` the
  `deliver` or `moveToDeadLetter` call that a task or the cycle has in progress on a row, with the
  status and the attempt number it read. `sent`, `handled`, `deadLettered` are the outside world.
* `Receive`, `Reject`, `CreateDeliveries`, `ReadDeliveries`, `Settle` are `process()` and the
  consumer's acknowledgement; `Claim`, `Send`, `Succeed`, `Fail` are `deliver()`; `RecoverOrphans`,
  `ReadCandidates`, `EndCycle` are the retry cycle; `DeadClaim`, `DeadPublish`, `DeadRecord` are
  `moveToDeadLetter()`.
* `BackoffElapses` and `LeaseElapses` are time. `TaskError`, `AttemptError`, `ConnectionLost`, `Crash`
  are faults. A statement that took effect and then reported an error is covered as well: its caller
  throws, which leaves the same state as a crash just after it, followed by another copy.
* The application is only `Handle`: a request that was sent may be processed, even long after the
  worker gave up on it.

### RevocationOutbox (`server/src/event-processing`)

* `row` is `events`, `pub` the cycle of each publisher with its remaining batch, `copies` the attempt
  numbers that left a message in the broker.
* `Commit` is the transaction that called `enqueueMany`; `ReadBatch`, `ClaimNext`, `Confirmed`,
  `Mark`, `Reschedule`, `EndCycle` are `publishPendingBatch()`; `Refused` and `MarkError` are the two
  ways into its `catch` block, and only the first of them leaves the loop.
* Compose runs one server, but the claim is written for more (`publishAttemptCount` in the WHERE
  clause), and a restart overlaps with the process it replaces: the module takes a set of publishers.

### LocalSessions (`applications/app-a/src/lib`, `…/app/auth`; App B has the same code)

* `session` is `local_sessions`, `processed` is `processed_events`; `request` is the progress of each
  HTTP request: where its handler stands, the rows its next update considers or has locked, the
  status it will write, and the sessions that were expired at its `now`.
* `Receive` … `Scan` are `processInternalLogoutEvent()`; `Visit` and `Read` are pages and local
  logouts; `Guard` and `Commit` are shared by the three: READ COMMITTED tests a row again after waiting
  for it, and a transaction's writes appear when it commits. `Insert` waits for a transaction that
  holds the same key. `Fail` is a failure at any point; a deadlock victim among two updates is one.
* `SignIn`, `Emit`, `FetchProfile` are the Auth Provider as the application sees it: userinfo answers
  only for an active central session, and a revoking transaction ends the sessions it targets. `covered`
  is a history variable: the sessions an event matched when it was emitted.
* Not represented: `lastActivityAt`, the profile copy and the activity log; the 409 for another
  payload under a known id, which no emitted event produces.

### CentralAccess (`server/src/auth`, `…/authorization`, `…/admin`)

* `session`, `code`, `token` are `sso_sessions`, `authorization_codes`, `access_tokens`; `active`,
  `password`, `policy` are what the administration changes; `events` and `notices` are the outbox rows.
  `request` is the progress of each HTTP request: `pc` names the statement it is about to run.
* `CheckPassword`, `IssueSession` are `login()`; `PresentSession` … `TouchSession` are
  `getCurrentSession()`, which `authorize()` calls before `ReadPolicy` and `IssueCode`; `PresentCode` …
  `CommitExchange` are `exchange()`; `PresentToken` … `Answer` are `getProfile()`. `Logout`, `Change` and
  `RemovePolicy` start the four revocations, which share `Scan` … `CommitRevocation` as they share
  `revokeSecurityState()`; `kind` decides what differs.
* `HeldSessions`, `HeldTokens`, `HoldsCode`, `HoldsUser`, `HoldsApp` are the row locks a request has by its
  `pc`. A conditional update waits for them and then tests its WHERE clause on the row as it is. An insert
  takes `FOR KEY SHARE` on the application it refers to, so it waits for the `SELECT … FOR UPDATE` of
  `removePolicy()`. That lock is what `AnswersAreLive` rests on: `exchange()` never looks at the
  policy, and without the lock a session issued during a removal could get a code and a token past it.
* `Reactivate`, `AddPolicy` and `RemoveRedirectUri` are changes that need one step here: the last marks the
  codes of a URI used, which stops an exchange that has read its code and not claimed it yet.
* `Fail` is a rollback at any point: a failed statement, a dead process, or the victim PostgreSQL picks
  in a deadlock. There is one such cycle: an exchange has its session and waits for the application,
  a policy removal has the application and waits for the session.
* `secret` of a session is a history variable: the version of the password its login verified.
* Taken for granted: users without a second factor (`MultiFactor` has the others), one group that all
  users belong to and active applications (`AdminAccess`), registered redirect URIs. Another administrator
  always remains, so a deactivation is never refused.

### AdminAccess (`server/src/admin`, the forms of the Control Panel)

* `user`, `group`, `member`, `policy`, `application`, `uris` are the tables, after `seed.ts` with any of
  the applications in it; `token` is the access that a user has to an application, its token with its
  session. `request` is each administrative request under way: its form, what it read before its
  transaction, and what the transaction has deleted and revoked but not committed.
* `BeginUpdateStatus` and `UpdateStatus`, `BeginUpdateApplication` and `UpdateApplication`,
  `BeginRemoveMembership` and `RemoveMembership`, `BeginDeleteGroup` and `DeleteGroup` are the two halves
  of each service method, before and in its transaction. `RemovePolicy`, `AddRedirectUri` and
  `RemoveRedirectUri` read under `SELECT … FOR UPDATE`, so they have one half. `Commit` and `Abort` end
  the transactions that others can overlap. `LostAccess` is `revokeUsersWhoLostAccess()`: it sees its own
  deletions, and those of others only when they are committed.
* What only adds rows is decided by constraints of the database, and is one step (`CreateUser`,
  `CreateGroup`, `CreateApplication`, `AddGroupMembership`, `AddPolicy`). `Authorize` is a sign-in, an
  authorization and an exchange: `CentralAccess` is about what happens between them.
* `raced` is a history variable: overlaps of three kinds, each an exception in the property it breaks,
  and none of them to spare. *administrators*: two requests that each remove one, both checked before
  either took effect (`control-panel-access.service.ts:24`). *paths*: two uncommitted removals of paths; a
  membership or policy added to a group after a removal has read it; a sign-in after the revocation of a
  removal and before its commit, which gives a token that nothing revokes. *status*: the status of
  an application changed between the read and the update of `updateApplication()`.
* The Control Panel refuses to deactivate the administrator who is using it; the server does not, and the
  model is of the server. Row ids are left out (a row that was deleted and created again is the same
  row), and redirect URIs are only counted; the codes that `removeRedirectUri()` marks used are in
  `CentralAccess`.

### MultiFactor (`server/src/mfa`, `…/auth`, the MFA page)

* `totp`, `code`, `challenge` are `user_mfa_totp`, `mfa_recovery_codes`, `mfa_login_challenges` of one user;
  `user` is its status and whether it is an administrator. `request` is each request under way, with the
  factor it was given and what its statement under way has seen. A time step code is a pair of a secret
  and a step, which is all that `validateToken()` tests.
* `BeginStart` and `Start`, `BeginConfirm` and `Confirm` or `NotPending` are `MfaEnrollmentService`;
  `BeginManage`, `Claim`, then `Regenerate` or `Disable` are `MfaManagementService`, whose claim locks the
  row of its factor and whose `deleteMany` takes the codes it saw. `BeginLogin` and `StartChallenge` are
  the end of `login()` and `start()`; `BeginComplete`, `Complete` or `LoseRace`, and `RecordFailure` are
  `complete()`.
* `Revoke`, `ChangeUser` and `Expire` are the administration and time; `Abort` is a rollback at any point.
* History: `opened` (the factors that opened sessions through a challenge), `wrong` (wrong guesses at an
  open challenge), `phone` (the secrets that some page has shown; an answer may be lost), and `raced`, as
  above: *enrolment* is a start beside a confirmation, *codes* two management requests that have both
  claimed a factor.
* The transaction of `complete()` is one step, since it ends where its first claim fails. Passwords are
  right, `recordFailure()` does not fail, and a used challenge is only known to be used.

### ConsumerConnection (`sync-worker/src/event-processing/rabbitmq-consumer.service.ts`, `…/shutdown`)

* `connection`, `channel`, `connecting`, `timer` are the fields of the service; `life` is the worker's end
  of each connection it ever opened and `link` the broker's: a loss is noticed later (`Notice`). `task`
  is `activeDeliveries`; `queue`, `holder` and `tag` are the broker; `settled` counts the settlements it got.
* `Dial` or `Refuse`, `Consume`, `Assign`, `GiveUp` are `connect()`, one step per await that matters.
  `AssignClosed` is its end after the connection closed between the registration of the consumer and the
  assignment: the close handler has compared it with `this.connection`, found nothing to do, and the
  worker keeps a dead connection (`rabbitmq-consumer.service.ts:251`).
* `Receive`, `Finish` are the consumer and `processMessage()`, with `settle()` and its flag. `Stop` … `Exit` are
  the coordinator and `performShutdown()`; `Deadline` is the timeout, common to all the waits.
* `blind` is a history variable: the worker lost its consumer and does not know, by `AssignClosed` or by a
  null message (`:280`). `ConsumesOrExits` makes an exception of it, and fails without.

## 3. Runs

| Run | Instance | What it shows |
|---|---|---|
| `delivery_interleaving` | 1 event, 1 app, 2 tasks and the retry cycle, 2 attempts, 2 copies, 1 fault | types; attempt numbers are claimed once; terminal rows and late attempts |
| `delivery_fanout` | a good and a malformed event, 2 apps, 1 task, 1 attempt, 1 copy, 1 fault | no message is lost while a target is PENDING; dead letters are justified; `RevocationPromise` is implemented |
| `delivery_liveness` | a good and a malformed event, 1 app, 1 task, 2 attempts, 2 copies, 1 fault | every delivery concludes; no message is requeued for ever |
| `delivery_attempt_limit` | 1 of each, 1 attempt, 2 copies, no fault | violated: see findings |
| `outbox_safety` | 2 events, 2 publishers, batch of 2, 3 faults | published means enqueued; attempts are exclusive; late attempts and PUBLISHED rows; every committed event is published |
| `sessions_revocation` | 2 logins, 2 central sessions, a user-wide event, 3 requests, 1 fault | the five safety properties of the application |
| `sessions_login_race` | 1 login, 2 events, 1 request, no fault | violated: see findings |
| `access_revocation` | 1 user, application, session and code, 2 tokens, 2 requests at a time, expiry, 1 password change | the five properties of sessions, codes and tokens against revocation |
| `access_password_race` | the same with 1 token and no expiry | violated: see findings |
| `admin_access` | 2 users, 2 groups, 1 application with at most 2 redirect URIs, 2 requests at a time | limits and references; an administrator remains; access needs a path, an active user and an active application |
| `mfa_factors` | 2 secrets, 2 generations of 1 recovery code, 2 challenges of 1 intent, 1 attempt, 2 time steps, 2 requests at a time | a factor opens one session; bounded guesses; the enabled secret is on the phone; one generation of codes; sessions need the enrolled secret |
| `consumer_connection` | 1 message, 3 connections, prefetch of 1 | settled once, nothing cut off before the deadline, and the worker consumes again or exits |

Why the bounds are enough. The smallest hard cases need two parties on one row and one fault. Two
tasks and the cycle give three callers on a row; two copies give a redelivery during processing, and
the fault a crash, or a lease that runs out under an attempt which then answers late (several faults in one
behaviour are what the theorems cover, whose bounds are arbitrary). Two attempts
separate the first, the last and the orphaned one. Fan-out needs two applications so that one target
may throw while the other is durable. The outbox needs two rows for the order and the break of the
loop, two publishers for the claim, and three faults for a refused publish, a lost lease and an error
after the update in one behaviour. In `LocalSessions` three requests are a page or logout between an
event and its duplicate; two logins are the old session and the new one. In `CentralAccess`
the slots are used again and again, so two of them are *any* two requests at a time, after any history; a
second token is what a code exchanged twice would make. One session suffices for the locks: rows of different
sessions meet only in a revocation, which updates them in one statement. In `AdminAccess` a second user is the
other administrator, the groups are the one that guards the panel and one more (each may give a path, so a
user may have two), and two requests are any two; `MaxRaced` 1 lets one kind of overlap happen in a behaviour,
since a property with an exception says nothing of behaviours that have it. Two redirect URIs are a limit that both an addition and
a removal reach. In `MultiFactor` two secrets are an enrolment, and another after a disable or a second start;
two generations of codes are a regeneration; two challenges are two logins. Two time steps separate the code that confirmed the
enrolment from a later one. One attempt is the smallest maximum, and the last permitted guess. In
`ConsumerConnection` three connections are one that is lost while it is assigned or connecting, one more, and
the last, which is not lost so that the question of liveness arises.
Bounds that are not of the code are `MaxCopies`, `MaxFaults`, `MaxChanges`, `Expiring`, `MaxRaced`, `MaxStep`,
`Secret`, `Batch`, `Connection`, and the number of requests, rows and logins; `MaxUris` is 20 in the code.

Deadlock checking is off in the runs whose copies, commits, requests and faults are finite, in
`admin_access`, where the overlaps are, and in `consumer_connection`, where the process exits: the
bounded system may really stop. That it does not stop too early is what the liveness properties are for. It is on
in `access_revocation` and `mfa_factors`, where requests never run out.

**Fairness.** `WorkerFairness` is weak fairness of each task, of each `deliver` call, of the retry
cycle, of the dead-letter calls and of time: the event loop runs what is ready, the cycle is started
by an interval timer, and every HTTP request ends by its timeout. It does not oblige an application to
handle anything. Strong fairness stands on one step, the dead-letter publish that is confirmed: a
broker that never confirms leaves rows in RETRYING for ever, and no code could help that.
`PublisherFairness` is weak fairness of the cycle and of time; refusals are faults and finite, since a
broker that is never back keeps every row PENDING. Commits, arrivals and faults are never fair.
`Fairness` of `ConsumerConnection` is weak fairness of `connect()`, of the shutdown's own steps with its
timer, and of noticing that a connection is closed (heartbeats). Strong fairness stands on `Dial`: a broker
that can be reached again and again is reached at some point, since `Refuse` would otherwise be taken for ever. It
does not oblige a message's work to end; the deadline must do without.
`LocalSessions`, `CentralAccess`, `AdminAccess` and `MultiFactor` claim no liveness and assume no fairness.

## 4. Proofs

TLAPS checks all of these for every value of the constants, under the modules' named assumptions
only (`DeliveryAssumption`, `OutboxAssumption`, `LocalAssumption`, `AccessAssumption`, `AdminAssumption`,
`MultiFactorAssumption`, `NoRowAssumption`, `ConnectionAssumption`; TLC evaluates them in each run). They say
that identifiers differ from `None`, that maps and limits have their types, and that the requests
under way of `MultiFactor`, which its bound on guesses counts, and the tasks of the worker are finitely many. The bounds on faults, copies,
changes and overlaps are ordinary constants there, so the theorems hold for any number. Every safety
invariant and every action property of a passing run is stated by one of them.

* `RevocationDeliveryProofs`: `TypeCorrect`, `NumbersStayFresh`, `DeadLettersStayJustified`,
  `TerminalStaysFinal`, `LateAttemptsAreHarmless`, `MessagesAreNeverLost`, and the refinement
  `PromiseIsKept`.
  The properties are not inductive alone. `RowInv` adds what a claim remembers: the number of a call in
  progress is at most the row's `attempts`, and a call that has not claimed yet names the next one or a
  stale one. `NumberInv` then gives uniqueness, because two live calls with one number would both have
  advanced the row to it. `DeadLetterInv` adds that a dead-letter call works on an exhausted row.
  `CoverInv`, for lost messages, adds what a task past its `createMany` knows: each row of its event
  exists, and one still PENDING has a call that will either start it or throw.
* `RevocationOutboxProofs`: `OutboxTypes`, `NothingPublishedUnsent`, `AttemptsStayExclusive`,
  `PublishedStaysFinal`, `LateAttemptsAreHarmless`. The invariant ties `number` of an attempt in
  progress to `publishAttemptCount`, and a publisher at its update to a copy under that number.
* `LocalSessionsProofs`: `SessionTypes`, `ProcessedEventsHaveRevoked`, `AnswersStayTruthful`,
  `DuplicatesAreInert`, `GrantsStaySafe`, `EndedSessionsAreFinal`. The invariant `SafeInv` says where a
  request may stand with which kind, event and rows (`TypeInv`); that the rows of two open transactions
  are disjoint and are still what the guard tested (`LocksOK`); that a key is held once and is not in
  `processed_events` while it is (`KeysOK`); and that an open event transaction considers every usable
  session its event covers (`CoverOK`), which is what makes `processed` mean *revoked* at the commit.
* `CentralAccessProofs`: `AccessTypes`, `TokensEndWithSessions`, `OneAnnouncement`, `OneTokenPerCode`,
  `ProfilesNeedLiveAccess`, `EndsAreFinal`. That no token outlives a revocation is not inductive: it rests on what
  the transactions under way have locked and looked for. `SafeInv` says of each request, from where it
  stands, which kind it is and which rows it names (`Serves`, `Names`); that the rows it has locked are still as
  its statement found them, and nobody else's (`HoldsOK`, `Apart`); that a revocation at its update of
  tokens has every ACTIVE token of its sessions, and a policy removal every usable session with a code of the
  application (`CoversTokens`, `CoversSessions`); and that userinfo keeps its policy as long as its session is
  ACTIVE (`StaysAllowed`). `GoodStep` covers the steps that change one request only, and `Respects` what the
  others leave to the requests beside them.
* `AdminAccessProofs`: `AdminTypes`, `AdministratorRemains`, `PathsGiveAccess`, `ActivityGivesAccess`.
  `AdminInv` adds what an undecided transaction still relies on: redirect URIs are as many as it counted, the
  rows of a dissolved group are all deleted with it (`RowsKept`); the other administrator that its check saw
  is there (`SparesAdmin`); what it read of a group covers the paths through it (`KnowsPaths`); and each token it
  has left alone keeps a path without the rows it deletes (`LeavesPaths`). The last three are claimed only
  while nothing is in `raced` that excuses them, which is exactly the exception of the properties: the
  proof shows that no *other* overlap breaks them, for any number of requests.
* `MultiFactorProofs`: `FactorTypes`, `FactorsAreSpentOnce`, `GuessesStayBounded`, `EnabledSecretWasShown`,
  `OneGenerationOfCodes`, `EnrolledSecretOpensSessions`. `FactorInv` says that a claimed factor is still
  claimable and that a `deleteMany` has seen every code (`HoldsFactor`), two claims have different rows (`Apart`), a
  confirmation is of the pending secret (`ConfirmsPending`), a verified code is of the enrolled secret as long as
  its challenge is open (`KnowsSecret`), whatever has opened a session is spent (`Spent`), and the wrong guesses
  at an open challenge are the attempts counted and those on their way to be (`ChallengeOK`).
* `ConsumerConnectionProofs`: `ConnectionTypes`, `GracefulShutdown`. `ConnectionInv` says that an open connection is
  the one assigned or the one being opened (`OpenOK`), that a task that has not settled has no settlement at the
  broker (`SettledOK`), and that, before the deadline, the shutdown cancels the consumer with no
  connection being opened, so that the tasks it waits for are all there will be (`StopOK`).

The proof of `FactorsAreSpentOnce` found what two requests at a time do not show. `start()` reads that no
authenticator is enabled before its upsert forgets the last time step (`mfa-enrollment.service.ts:83`); if
`confirm()` enables the authenticator in between, while two logins have verified the code of one time step, that
code opens two sessions. It takes three requests, and TLC found it with three. `SecondFactorIsSpentOnce`
now makes an exception of a time step code after such an overlap, and of nothing else: recovery codes have none.
No document of the repository promises that a time step code is accepted once, so this is a hazard, not a finding.

Model-checked only: the liveness properties (`EveryDeliveryConcludes`, `ConsumerQuiesces`,
`CommittedIsPublished`, `ConsumesOrExits`), since liveness under fairness and ENABLED are outside the prover's
reach. The findings are counterexamples, found by TLC.

## 5. Findings

* `delivery_attempt_limit`. `README.md:144` says a failed delivery is retried up to the configured
  limit and then dead-lettered. `deliver()` (`revocation-delivery.service.ts:205`) never compares
  `attemptCount` with that limit; only the retry cycle does. A message redelivered while its row is
  RETRYING and due, with its attempts used up, is sent once more.
* `sessions_login_race`. `README.md:428` and `README.md:156` say that a revoked central session revokes
  the local ones. A callback that fetched its profile before the revocation inserts its local session
  afterwards (`callback/route.ts:90`) without asking again. If the event was processed in between,
  the session stays usable until it expires. What does hold, and is proved, is `ProcessedMeansRevoked`:
  sessions that existed when the event was emitted are gone.
* `access_password_race`. `README.md:138` says that a password change revokes access. `login()` verifies
  the password before the transaction that issues the session (`auth.service.ts:101`), and that transaction
  does not read the user again: a session can be issued for the old password after the change has revoked
  what there was, and stays ACTIVE. A deactivation in the same window is less harmful, since every use of a
  session reads the user's status.

## 6. Plan

Modelled and checked: all of the modules above. Proved: every safety invariant and action property of the
passing runs, and that `RevocationDelivery` implements `RevocationPromise`. What is left, in order of importance:

1. Abstract specifications of the other components, in the manner of `RevocationPromise`, and that the modules
   implement them: first the life of a central session with its tokens (`CentralAccess`) and that of an
   outbox row (`RevocationOutbox`).
2. Outbox, worker and several applications composed, with which application is told of what
   (`AccessPolicyChanged` informs only the application that was lost). Each link is modelled, and what one
   promises is what the next assumes: a row that is committed is published (`CommittedIsPublished`), a
   published event reaches an end at each application (`EveryDeliveryConcludes`, `PromiseKept`), and one
   that an application has answered for is applied (`AnswersAreTruthful`, `ProcessedMeansRevoked`).
   Their product with several applications is beyond the instances of TLC that would show anything more.

## 7. Not modelled

* Read-only parts: the pages and dashboards of the applications and of the Control Panel, metrics, logging,
  configuration and OpenAPI. Nothing reads what they change.
* The start of an OAuth login, with its encrypted cookie, and the cookie in which the provider carries an
  authorization request through a login form: no stored state, only what the browser sends back.
* The server's shutdown and readiness. The coordinator waits for HTTP requests and the publication cycle
  until its deadline and closes the publisher and the database, in sequence. What it may cut off is a failure
  at any point of a request (`Fail`, `Abort`) or a `Crash` of the publisher, which the modules have.
* The reconnection of the publisher: a failed publish discards the connection and the next one opens another,
  so that a publish is confirmed or refused, as in `RevocationOutbox`.
* Renaming users, groups and applications, and the rotation of a client secret, which only the check of an
  exchange's credentials reads.
* Pure functions, which unit tests cover: TOTP arithmetic, encryption, hashing, canonical JSON,
  fingerprints, the exponential delays.
* RabbitMQ and PostgreSQL are modelled by what the code relies on: persistence, redelivery of what was not
  acknowledged, confirms, prefetch, atomic statements, row locks and unique keys.
