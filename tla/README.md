# SignSafe API in TLA+

Specifications of the concurrent core of `signsafe-api` (Go, `cmd/server`, `internal/`): how its HTTP handlers,
its daily job and its RabbitMQ client act on PostgreSQL, Redis, the object store and the queue, what interleavings,
failures and crashes they meet, and what holds in spite of them. TLC checks every module on small instances; TLAPS
proves the central ones for every value of their constants.

Everything is written from the code. `PROJECT.json` maps each definition to the lines it models.

## The system

The server is stateless but for one AMQP connection; several replicas may run. A request is a goroutine that makes one
store call after the other, without a transaction around them (the repository uses three, `CreateWithOrg`,
`CreateOrganizationWithAdmin` and `CreateRiskOverride`) and under a context that is cancelled when the client leaves. So the unit of atomicity is
the single SQL statement, Redis command, S3 call or publish, and requests interleave at that grain.

| Component | State | Operations | Interacts with | Hard behaviour | Module |
|---|---|---|---|---|---|
| Sessions, `service/auth_service.go` | `refresh_tokens`, `users.password_hash`, Redis `refresh:<hash>` | Login, Refresh (rotation, reuse detection), Logout, ChangePassword, ResetPassword | PostgreSQL, Redis | rotation races, cache and table disagreeing, password change racing with login, crash in a rotation | `Sessions`, `SessionLedger` |
| Account links, `service/auth_service.go` | token columns of `users`, mails on their way | Signup, ResendVerification, ForgotPassword, VerifyEmail, ResetPassword | PostgreSQL, SMTP | lookup and use of a token are two statements; overtaking mails | `AccountTokens` |
| Organizations, `service/org_service.go` | `organizations`, `user_organizations`, `pending_invitations`, `users` | CreateOrganization, UpdateOrganization, InviteMember, RemoveMember, UpdateMemberRole, AcceptPendingInvitations (called by Signup) | PostgreSQL, SMTP | role check and effect are two statements; invitation racing with signup | `Organizations` |
| Contracts, `service/contract_service.go` | object store, `contracts`, `ingestion_jobs`, queue `ingestion.jobs` | Upload, UpdateContract, DeleteContract, GetFile | PostgreSQL, S3, RabbitMQ, ingestion worker | four stores written without a rollback; deletion racing with everything | `ContractPipeline`, `ContractLifecycle` |
| Risk analyses, `service/analysis_service.go` | `risk_analyses`, Redis `analysis:lock:<contract>`, queue `analysis.jobs` | CreateAnalysis | PostgreSQL, Redis, RabbitMQ, AI worker | lock with a TTL and without an owner, unlock under a cancelled context | `AnalysisRequests` |
| Queue client, `queue/rabbitmq.go` | connection, channel, mutex | Publish, reconnect, Close | RabbitMQ | shared by all goroutines; lost connections, retry; dead letters that are sent again | `QueueClient`, `AtMostOnceQueue`, `Server` |
| Rate limiter, `middleware/ratelimit.go`, `cache/redis.go` | Redis counter with a TTL | one call per request | Redis | pipeline that is not a transaction and may be sent again, fail-open | `RateLimiter` |
| Expiry notifier, `cron/expiry_notifier.go` | Redis `expiry-notified:<org>:<date>`, a timer per replica | daily run | PostgreSQL, Redis, SMTP | all replicas run at once; crash between key and mail; key set before the admins are read | `ExpiryNotifier` |
| Overrides and evidence, `service/analysis_service.go`, `service/evidence_service.go` | `clause_results.overridden_risk_level`, `risk_overrides`, queue `analysis.jobs` | CreateOverride, RetrieveEvidence | PostgreSQL, RabbitMQ, AI worker, deletion of the contract | transactions side by side, dated by their begin and effective at their commit; one message stands for the answer | `AnalysisReview` |
| Server process, `cmd/server/main.go` | listener, running requests, deferred Close calls | serve, drain, close, exit | signals, queue client, database pool | a deadline on draining; Close waiting for a reconnect; exit with goroutines running | `Server` |
| Audit trail, `handler/helpers.go`, `service/audit_service.go` | `audit_events`, detached goroutines | logAuditEvent, CreateAuditEvent, ListAuditEvents | every handler that changes contracts or analyses, PostgreSQL | written after the answer, by goroutines nobody waits for | `Server` (writing) |
| Statistics, listings | none | GetOrgStats, List... | PostgreSQL | | not modelled |
| Profile, JWT middleware, CORS, logging, router, health, pool, email templates, utilities | none of their own | | | | not modelled |

What makes each correct, in a sentence: a dead session never lives again and a rotated one is never accepted; a link
works once; an organization keeps its members and admins as long as those who act are still admins when they act; a
contract that is listed has its file, and none of its files is left behind; an accepted analysis or upload has its message; a message
is queued at most once and survives an orderly shutdown; a clause shows its newest override; a window admits at most the limit; an alert is sent once, and suppressed by no key
but that of a list of admins that was read and mailed, or of a fault.

## Conventions

* One action per store call. A read that decides nothing, and every validation that refuses a request before it changes
  anything, is folded into the step that follows it.
* `Faults` (or `MaxFaults`) switches on failing calls (with and without effect where the code can tell no difference
  later but the store can), clients that leave, crashes, lost keys and lost messages. A crash of a request and an error
  return are the same action where the code undoes nothing.
* History variables are separated in each declaration. No guard reads them.
* An operator marked `Faulty` is a plausible bug in the action that follows it. No specification uses one; each property
  is shown to fail when the faulty operator takes the place of the real one.
* `MC...` modules add the symmetry sets and are used where symmetry is sound (no liveness property in the run); the
  other runs use the modules directly.

## Modules

**SessionLedger**: what the session store promises: a token is issued once and to one user, a dead one stays dead, a rotation
replaces a dead token of the same user. **Sessions** implements it (`holder <- owner`, `dead <- revoked`).
`owner`, `revoked`, `expired` are the columns of `refresh_tokens`, `marker` the Redis key, `password` the
hash as a version number, `delivered` the tokens that clients hold, `req[r]` the program counter and locals of a request.
`RefreshGet`, `RefreshFind`, `RevokeRefreshToken`, `MarkRevoked`, `CreateRefreshToken`, `CacheRefreshToken`, `Reply` are
Refresh in the order of the code; Login enters at `CreateRefreshToken`, Logout leaves after `MarkRevoked`; `FindOwner` and
`InvalidateFamily` are `invalidateFamilyFromHash`. `Fail` stops a request anywhere.

**AccountTokens**: both token columns with the same actions. `SetToken` is the UPDATE, `SendMail` the mail; `StartUse` the
SELECT by token, `Use` the UPDATE by user id. The two kinds of link interact only in `ChangePassword`, which clears the reset
token.

**Organizations**: the four tables; `Ask` is the role check that InviteMember, RemoveMember, UpdateMemberRole and
UpdateOrganization begin with, and their second statement is a step of its own. The accept loop of Signup is `FindInvitations`, `Accept`, `DropInvitation`.
A transaction is one step.

**QueueClient**: `conn`, `channel` and `mu` are the fields; the steps of `connect` are separate, as the broker may fail in
between; a publish is one step together with its unlock. Faults close the channel alone, or the connection and its channel in one
step: a simplification, since the library marks the connection closed and then shuts its channels down from a goroutine of its own. A publish on a channel
whose connection is already marked fails too, and its retry reconnects, as in the model.
**AtMostOnceQueue** is what Publish promises; QueueClient refines it through `Status`. Its `DeadLetter` and `Redrive` are what `declareQueue` sets up
for the consumers: the broker puts a message they reject into `<queue>.dlq`, and an operator may move it back (`DECISIONS.md:95`). **AnalysisRequests** and
**ContractPipeline** INSTANCE AtMostOnceQueue instead of the client: that is the composition, and `PublishIsAtMostOnce`
is the theorem that licenses it.

**Server** EXTENDS QueueClient by the process around it: a message of the client is the request that publishes it, `phase` is
where `main` stands, `audit[m]` the goroutine that `logAuditEvent` starts when the handler of `m` has succeeded, `pool`
whether the database pool is open. `Signal`, `Drained` or `DrainTimesOut`, `CloseQueue`, `ClosePool` and `Exit` are the end of `main`
with its deferred calls in reverse order (closing Redis falls between the last two and concerns neither requests' messages nor
events); `Crash` is a kill or `log.Fatalf`. `End` cuts every goroutine off: what is on the wire or
being committed arrives or does not.

**AnalysisRequests**: one contract (locks and rows of others are disjoint); `lock` holds the request whose SetNX made the key,
although the code stores the user id and never looks at it. `Delete` is the cache call used by `Undo` and `Release`. `ExpireLock` may take the key at any
time, also from a request that still needs it, and `DeleteTwice` is a DEL that go-redis sends again after its connection broke; `early` remembers who
lost the key that way for as long as anybody is in the critical section. `AcquireFails` includes a SETNX that is sent again and finds its own key. `Work` is the
AI worker, which dead-letters the message of an analysis that failed; after `Redrive` it runs again.

**AnalysisReview** EXTENDS AnalysisRequests by what follows: the completed analyses have a clause result each, with one evidence
set. `InsertOverride` and `CommitOverride` are `CreateRiskOverride`: the INSERT holds the share lock of its foreign key
on the clause result, so that a deletion waits (`DeleteAll` needs `~Locked`), and two overrides may both be between INSERT and UPDATE. The
UPDATE does not conflict with that lock, waits for a concurrent UPDATE and is visible at the commit, so that it is one step with it. `begun` is the order of `created_at`, the
begin of the transaction. Retrievals have a queue of their own status (`EvidenceQueue`), although the broker
keeps both kinds of message in `analysis.jobs`: neither module relies on an order between messages. A retrieval that fails in the worker
is dead-lettered and may be sent again (`Gather`, `RedriveEvidence`).

**ContractPipeline**: `upload[c]` is the program counter of the upload that creates `c`; other requests are in `req`.
`DropRow` cascades to jobs. The worker (`Work`) is external: it serves only jobs that exist, rejects the message of a job that failed, and takes
the job up again when somebody has sent the message again (`Redrive`). The workers are programs of their own: that they do so is
assumed from the dead-letter queues and `DECISIONS.md:95`.
**ContractLifecycle** is what a list of contracts shows over time: a contract appears once, is processed again only after it failed, stays ready once
it is, and never comes back after its deletion. ContractPipeline implements it through `Stage`, the status of the row, or which side of the row's life its upload is on.

**RateLimiter**: one key; INCR and EXPIRE NX are two steps; `Tick` is time. When the connection breaks, go-redis sends the pipeline again
(`Resend`, `MaxRetries` times at most; it is executed from its first command), or the caller gets an error and lets the request through (`FailOpen`).
A request may thus be counted once per try.

**ExpiryNotifier**: dates are days; `last[r]` stands for the timer of a replica: its next run is on a later date. `due` and `admins` are tables
that requests change at any time (`Reorganize`), so that two replicas of one date may read different lists; `asked` remembers which were read.
`DedupFails` is SetNX with an error, `DedupResent` a SetNX that wrote the key, was sent again and found it. `Hang` is a call that never
returns: `smtp.SendMail` has no deadline (`email.go:210`), and such a run is never over. An expired key is one of an earlier date, as the TTL of 25
hours exceeds a day; `LoseKey` also stands for a run that outlasts its key. A mail that fails or hangs counts as not delivered.

## Runs and bounds

| Run | Checks | Bounds | Shows |
|---|---|---|---|
| `Sessions` | `MarkerSound`, `StaleOnlyIfRaced`, `MarkerPersists`, `RotatedIsNeverAccepted` | 1 user, 2 tokens, 2 requests, 1 password change each may start from version 0, faults | cache and table agree; rotated tokens are not accepted; old sessions survive a password change only by a race of their issuing |
| `SessionsReuse` | `ReuseEndsSessions`, `ImplementsLedger` | 2 users, 2 tokens, 2 requests, no faults, no password change | reuse ends the owner's sessions (a liveness property); the service implements the ledger |
| `SessionsStale` (violation) | `SessionsEndWithPassword` | 3 tokens, no faults | a login that compared the old password before the UPDATE and inserts after the revocation keeps a live session |
| `AccountTokens` | `LastMailWorks`, `UsedIsNeverFound` | 1 user, 4 tokens, 2 requests, faults | a used link is not found again; the last mail works unless requests raced |
| `Organizations` | `StrandedOnlyIfRaced`, `OrphanOnlyIfStale`, `AdminLossIsExplained` | 2 users, 2 organizations, 2 requests, faults | members and admins are lost only to requests that act on a stale check (or a self-demotion) |
| `OrgsOrphan` (violation) | `OrgsHaveMembers` | same, no faults | two admins remove each other: nobody is left |
| `Server` | `FailureIsExplained`, `LostOnlyByFault`, `AuditLossIsExplained`, `ImplementsQueue`, `RequestsEnd`, `SignalEnds` | 2 requests, 2 faults of the link, refused inserts, a signal or a crash at any time | at most one copy; no unexplained failure; an orderly shutdown loses no message; no request and no shutdown hangs |
| `QueueClosedChannel` (violation) | `RetrySurvivesOneLoss` | 2 calls, 1 fault | one closed channel makes Publish fail |
| `Analysis` | `OneInFlight`, `LockLeaksOnlyByFault`, `PendingIsExplained`, `RunsOnlyEnqueued`, `ShownIsRecorded`, `NewestIsShown`, `LockEventuallyFree`, `AcceptedIsAnalysed`, `RetrievalIsServed` | 2 requests, 2 calls of which one may be an override or a retrieval, faults | mutual exclusion but for keys that went too early, no unexplained leak, no lost acceptance; overrides are whole and the newest one shows; a retrieval is served |
| `Contracts` | `ListedHasFile`, `FileHasContract`, `JobIsExplained`, `FailedIsNeverProcessed`, `ImplementsLifecycle`, `ServerErrorIsExplained`, `AcceptedIsProcessed` | 1 contract, 3 requests, faults, retries of failed jobs | file, row, job and message stay related whatever races or fails; the pipeline implements the lifecycle |
| `RateLimiter` | `LimitHolds`, `RejectedIsDeserved`, `WindowNeverExtended`, `WindowsEnd` | 3 requests, limit 2, window of 2 ticks, a pipeline is sent again once, faults | the limit holds per window; nobody is rejected too early but for resent pipelines; windows end |
| `ExpiryNotifier` | `OncePerDate`, `KeyMeansAlert`, `AlertsAreSent` | 2 replicas, 1 organization, 2 users, days 0 to 2, no run begins on day 2, faults | one alert per date; what a key stands for; who is told and who may be left out |

Why these suffice. The hazards are races of two requests on one object, and each instance has two requests (or replicas) and
what a third party needs: a second user where "another user's sessions" matters, a third request where a deletion must come
between two others, three requests where a limit of two must be passed. Two faults let a call lose
its connection twice, which ends its retry, and let a reconnect be hit while the other call waits for the mutex. The broker's
queue is taken for one contract and one completed analysis per request, so that the overrides of one clause meet, and those of two
do not. Tokens and organizations bound how long a chain may get; the request that
finds none left ends in `Fail` (so this never blocks the others). Contracts, organizations of the notifier, and keys of the
limiter do not interact, so one of each is taken. Two organizations leave an invitee at most one invitation (a signup makes the
other), so the loop over several is not exercised; its rounds share nothing but the user. `MaxPassword`, `MaxFaults`, `MaxRetries`, `MaxDay` are the only other bounds.
The runs of the notifier are those of one date, which may go on into the next day, with the expiry of their keys and restarts there: the alerts of two dates
share no key and no mail. A second try is enough to count a request twice and to find its own key.
Most of the unbounded questions are settled by proof, see below; the type invariants of the modules proved
about are theorems and are not checked by the runs again.

All runs set `CHECK_DEADLOCK FALSE`: when every request has returned and every token, message or day is used up the system
stops by design of the bounds. That nothing waits for ever is checked by the liveness properties.

### Fairness

Weak fairness of the steps of a request that has started: a goroutine runs until it returns, and the calls it makes return
(database, Redis and S3 calls have timeouts or a broken connection; the AMQP dial and handshake time out). Nothing forces a client to call, a
store to fail, or a replica to restart. Besides, `AnalysisRequests` assumes that a Redis key with a TTL expires, and the two
service models that the broker stores what reached it and the workers serve their queues; `RateLimiter` that time passes.
`FairServerSpec` assumes that each request's handler goes on until it has answered (`Serve`: the mutex is never contended without
being released, so weak fairness is enough), and that `main`, once it has a signal, goes on to its end (`Stop`): Shutdown returns at the
latest after thirty seconds. The goroutines of audit events get no fairness, and nothing is ever forced to signal, fail or crash.
`FairReviewSpec` is that of the requests plus the broker and the worker for retrievals; overrides need none.
An `ExpiryNotifier` run that has started goes on until it ends or hangs; no fairness is put on the timer, and a call that never returns is `Hang`, a fault
after which nothing is expected of the run. Nobody has to send a dead-lettered message again, and `Reorganize` is never forced.

## What is proved

For every value of the constants (any number of users, tokens, requests, messages and faults):

* `SessionsProofs`: `TypeCorrect`; `MarkersAreSound` and `MarkersPersist` (Redis never says more than the table; revocation
  markers survive); `RotatedStaysDead` (`RotatedIsNeverAccepted`, from the fact that a token with a successor is revoked); `Refinement`
  (`Spec => Ledger!Spec`), and from it `SessionsNeverChangeHands` (a row keeps its user and parent, is never revived, and is rotated only when
  revoked and for the same user); `PasswordChangesEndSessions` (`StaleOnlyIfRaced`). The last needs the
  longest invariant: it relates the login a request carries, the passwords and revocations since, and the tokens that are
  inserted or about to be.
* `AccountTokensProofs`: `LinksStayTheirOwn`, `LastMailsWork`, `UsedLinksAreDead`. The first states the part of the invariant that speaks of the code alone:
  a request carries a token of its own user (`ReqSound`), a column holds a token of its own user that was never used (`ColumnSound`), and a token is of one kind
  (`OneKind`). The rest says where the token of the last mail is unless a
  mail was lost or raced: in the row, used, or with the only request about the link (`LinkSound`). The lookup by token and
  the UPDATE by user id are two steps; `OneKind` and the fact that a used token is in no column keep the second from reviving it.
* `ServerProofs`, about `QueueClient`: `ClientTypeCorrect`, with the mutex discipline; `FailuresAreExplained`; `PublishIsAtMostOnce`. The
  invariant says that what is on the wire was written by a call that returned, that a channel does not outlive its connection,
  and how many losses a call must have seen at each point (`LossesNoted`): a call past its first attempt that finds the
  connection gone has lost two.
* `ServerProofs`, about `Server`: `ServerTypeCorrect`, `ServerFailuresAreExplained`, `DrainLosesNothing`, `AuditLossesAreExplained`, `ServerIsAtMostOnce`.
  The invariant of the client is carried over step by step (`QueueStep`), strengthened by what an orderly
  run (no fault, no crash, no overrun) has lost (`NothingLost`): nobody is active past the drain, nothing is on the wire past the close, and the
  message of a successful request is on the wire or in the queue.
* `AnalysisProofs`, about `AnalysisRequests`: `RequestsTypeCorrect`; `LockExcludes` and `LockIsReleased`, for keys that may expire under their owner and DELs
  that are sent twice: nothing in the code keeps a request shorter than the ten minutes of its key. A request that lost its key lets a second one in and then deletes
  the key of that one, which lets in a third, and so on; the invariant (`KeysSound`) counts those past SetNX without the key (`Keyless`): the key has one owner, and all
  others are accounted for by a key that went too early (`early`), so that the chain never adds up. `WaitingRowsAreExplained`, `ErrorsAreNotRun` and
  `AcceptedAnalysesAreStored` have an invariant of their own (`RowSound`, `RowStands`), which
  relates the row, the message and the answer of each request to how far it is. The last one says what "accepted" is worth: the message was
  written, and the row is there exactly as long as the contract is.
* `AnalysisProofs`, about `AnalysisReview`: `ReviewKeepsRequests`, i.e. the composition behaves as `AnalysisRequests` does, which carries `LockExcludes`
  over (`ReviewIsExclusive`); `ReviewTypeCorrect`; `OverridesAreAtomic` and `LastOverrideWins`. Besides the two properties, their
  invariant (`ReviewInv`) says that no override begins twice (`BegunOnce`) and that one which began while another of the same clause was open
  has met it (`MetWhileOpen`): the one step that changes what is shown, a commit, then leaves no newer row unexplained.
* `RateLimiterProofs`: `LimiterTypeCorrect`, `LimitIsKept`, `WindowsOnlyShorten`, `RejectionsAreDeserved`, `EndlessWindowsAreMishaps`. Those
  admitted in a window have seen pairwise different counter values from 1 to the limit (`NumbersSound`, `AdmittedSound`), and an injection
  into `1..Limit` bounds how many there are. The counter is the number of tries of the window (`CounterSound`), so that whoever saw more than the limit
  shares it with more requests than that, or some were counted once per try; and a key without a TTL is about to get one or has lost it to a broken connection.
* `ContractPipelineProofs`: `PipelineTypeCorrect`, `ListedContractsHaveFiles`, `FilesAreOwned`, `JobsAreExplained`,
  `FailedUploadsAreIdle`, `ServerErrorsAreExplained`, `CreatedContractsAreStored`. The invariant (`ContractSound`, `JobStands`) speaks of one
  contract at a time: how far its upload is decides what may exist of it. `LifecycleRefinement` (`Spec => Lifecycle!Spec`) follows from the same
  invariant, since the row keeps step with its job, only a failed job is run again, and requests only reach contracts whose upload has created them; `GoneIsGone` is what it
  means for a deletion.
* `OrganizationsProofs`: `OrganizationsTypeCorrect`, `OrphansAreStale`, `AdminLossesAreExplained`, `StrandedAreRaced`. The invariant says what an
  admitted request carries (`StateSound`, e.g. that nobody removes themselves). `RoleStep` then shows that a step keeps all members, or
  changes one that a removal or a change of role was admitted for; whoever asked for it is a member that remains, unless the request is stale.
* `ExpiryNotifierProofs`: `NotifierTypeCorrect`, `AlertedOnce`, `KeysMeanAlerts`, `RunsLeaveNobodyOut`, `FaultFreeExactlyOnce`, all of them with members
  and contracts that change at any time. The invariant says, for a key that never failed, that one replica at most is alerting, to one list and to admins it has
  not told (`Once`); that whoever is on a list has been or will be mailed, unless a fault hit the alert, and nobody else (`ListSound`); and what stands behind
  each key (`KeySound`). `RunsLeaveNobodyOut` adds that a run leaves an organization only when its alert is under way or done, by whichever replica, and that this is
  never undone. Without faults these give `FaultFreeExactlyOnce`: one list is read at most, and exactly those on it are mailed, once. It is the list of the first
  run that came by; an admin appointed after that is not told, and no theorem claims that.

### The claims that do not hold, and when they do

Three runs find a claim of a comment or a document violated. For each, a theorem says that the behaviour the run shows is the only way for it to
fail:

| Claim | Holds under | Theorems |
|---|---|---|
| `SessionsEndWithPassword` | `RevocationsUnraced`: nobody is issuing a token for the user while `RevokeAllRefreshTokens` runs | `UnracedRevocationsEndSessions`, `SequentialSessionsEnd` |
| `OrgsHaveMembers` | `RemovalsAreFresh`: who removes a member is still an admin at the DELETE | `FreshRemovalsKeepMembers`, `SequentialOrgsHaveMembers`, `SequentialAdminLoss` |
| `RetrySurvivesOneLoss` | `ChannelsLast`: a channel is lost only with its connection | `RetrySurvivesConnectionLoss` |

The conditions are action formulas that restrict the environment or the schedule. The code enforces none of them; they are not
assumptions of any other theorem. The "sequential" theorems have an ASSUME that there is one request slot, which is used again and
again: nothing overlaps, faults included, and both claims hold.

Each proof is an induction: `Init => IInv`, `IInv /\ [Next]_vars => IInv'`, `IInv => Inv`, one step per action. The assumptions are
the named ASSUMEs of the modules (the "no..." values lie outside their sets; bounds are naturals), and what a theorem's own ASSUME or hypothesis states.

Only model-checked: the liveness properties (`ReuseEndsSessions`, `RequestsEnd`, `SignalEnds`, `LockEventuallyFree`,
`Accepted...`, `RetrievalIsServed`, `WindowsEnd`, `AlertsAreSent`), since liveness under fairness and ENABLED are beyond the prover. The
safety they rest on is proved for four of them: what an accepted analysis and a created contract have stored, which windows cannot end by themselves, and
that no replica leaves an organization whose alert is neither under way nor done. Every invariant and action property of a passing run is a theorem.

## Where code and words differ

Shown by the three violation runs: sessions begun with the old password (`auth_service.go:461`), the retry after a closed channel
(`rabbitmq.go:94`), organizations without members (`DECISIONS.md:82`). Seen while modelling, without a run of their own:

* A token that has merely expired is treated as reuse and ends all sessions (`auth_service.go:161` speaks of a revoked token).
* Two refreshes that find the token live before either revokes it both succeed: rotation is not single (`auth_service.go:179`, `:191`).
* After a leaked lock, "analysis already running" is answered for up to ten minutes although none is (`analysis_service.go:102`).
* `Ping` looks at the connection and a nil channel only, although its comment speaks of an open channel (`rabbitmq.go:135`).
* An invitation stored after its invitee has signed up is never accepted (`org_service.go:166`, `:195`).
* A contract that disappears during an update, deletion or download, and an update with no field or a bad date, are answered
  with 500 (`contract_repo.go:208`, `:258`, `contract_handler.go:307`).
* Upload has no membership check; one for an unknown organization stores its file before the insert is refused (`contract_service.go:55`).
* Audit events of deletions, analyses and overrides carry no organization and are not listed for one (`contract_handler.go:342`).
* The audit listing has no membership check besides the organization in the token, against the comment on it (`audit_handler.go:49`).
* The snippets of a range are said to overlap it (`contract_repo.go:281`); the query takes the clauses that contain it whole.
* The dedup key is set before the admins are looked up and stays when there are none (`expiry_notifier.go:99`, `:126`), and then stands for "already sent
  today" (`:104`): an admin appointed before another replica's run of that date is not told. `KeyMeansAlert` and `AlertsAreSent` name this as the one way without a fault.
* A SETNX that go-redis sends again reports the key as somebody else's (`cache/redis.go:59`): the alert counts as sent (`expiry_notifier.go:104`) and nobody sends
  it, or the client is told that an analysis is running (`analysis_service.go:102`) and none is.
* Runs of the notifier are 24 hours apart counted from the end of the last one, so they drift (`expiry_notifier.go:62`).

## Not modelled

Statistics and all listings (read-only SQL), the listing of the audit trail and its POST endpoint (one INSERT within its request),
the profile (one UPDATE of the caller's own name), JWT parsing, HTTP decoding, CORS and logging (stateless), e-mail templates and SMTP,
ULIDs (taken as fresh), database pool, routing and health checks. Access checks of the contract and analysis handlers
refuse before any effect and are left out. Replicas of the server share no memory: what several of them do to the stores is more
requests in the service models, and `Server` has one.

## Plan

Order of work, the most important behaviour first; 1 to 11 are done.

1. `SessionLedger`, `Sessions`, `SessionsProofs`.
2. `AtMostOnceQueue`, `QueueClient`, proved about in `ServerProofs`; then 3. `AnalysisRequests` over it, with its proofs in `AnalysisProofs`.
4. `Organizations`. 5. `ContractPipeline` over AtMostOnceQueue. 6. `AccountTokens`. 7. `RateLimiter`. 8. `ExpiryNotifier`.
9. `Server`, the queue client in its process with the audit trail; `AnalysisReview`, overrides and evidence over the analyses.
10. `ServerProofs`, `AnalysisProofs`, `ContractPipelineProofs` with `ContractLifecycle`, `OrganizationsProofs`, `RateLimiterProofs`,
    `ExpiryNotifierProofs`.
11. `AccountTokensProofs`; the conditions under which the three violated claims hold; the safety behind the liveness properties.
12. Left: a proof that an evidence retrieval answered "retrieving" has its message; `Spec => Broker!Spec` for the service models,
    which use the queue's actions as they are.
