# Pulse Uptime: TLA+ specifications

Pulse Uptime checks HTTP monitors once a minute, keeps their incidents, follows
the status pages of third parties, mails about both, and is configured through
Vercel Edge Config, an API, a dashboard and a command line (`pulsectl`). It has
no process of its own: every piece of work is a serverless function started by a
cron or a request, killed after its `maxDuration`, with all state in one
PostgreSQL database and one Edge Config document. What keeps it correct is
therefore a set of protocols between functions that overlap, stop halfway and
run twice: a lease and a run record per cron, optimistic versions on the state
rows, claims on the outbox, an owner record per idempotency key, advisory locks on
the configuration, on team roles and on credentials. These
specifications model those protocols, check them with TLC on small instances and
prove the main safety properties with TLAPS for instances of any size.

- [Parts of the system](#parts-of-the-system): inventory, state, interactions, hard behaviours
- [Modules](#modules): what each models and how it corresponds to the code
- [Runs](#runs): what TLC checks, with which bounds and fairness
- [Proofs](#proofs): theorems, inductive invariants, assumptions
- [Where code and text disagree](#where-code-and-text-disagree)
- [What is not modelled](#what-is-not-modelled)
- [Plan](#plan)

To check a run: `tlc -config MCOutbox.cfg MCOutbox`. To check proofs:
`tlapm OutboxProofs.tla`. `PROJECT.json` names, for every definition, the lines of
the code it stands for; for every property, a change of the code's model that
breaks it; and the hazards the properties are aimed at.

## Parts of the system

Paths are relative to the repository's root.

| Part | State | Operations | Modelled in |
|---|---|---|---|
| Cron coordination `lib/scheduler/cron-coordinator.ts`, `lease.ts`, `sql.ts`, `run-record.ts` | `job_leases`, `cron_runs` | take the lease, record the run under its minute, work, complete or fail, release; reconcile stale runs | `CronLease`, `ExclusiveJob` |
| Monitor state machine `lib/monitoring/state-machine.ts`, `lib/scheduler/lifecycle.ts` | one `monitor_state` row | a check result; pause, resume, archive, restore | `MonitorStateMachine`, `MonitorHistory` |
| Monitoring minute `lib/scheduler/runtime.ts`, `lib/storage/atomic-minute.ts`, `lib/scheduler/registry-sync.ts` | `monitor_state`, `incidents`, `notification_outbox` | load, check, persist; synchronize the registry | `Monitoring` |
| Notification outbox `lib/notifications/` | `notification_outbox`, the provider's memory of keys | enqueue, claim, send, mark, release, reconcile | `Outbox` |
| Configuration acceptance `lib/scheduler/configuration-acceptance.ts`, `lib/config/`, `lib/api/config-*.ts`, `configuration-lock.ts` | Edge Config, `monitoring_config_snapshots`, `config_change_approvals`, `config_operations`, the registry | read, accept or reject; mutate, apply, activate | `Tripwire`, `ConfigAcceptance` |
| Onboarding `lib/onboarding/` | `onboarding_progress`, the draft, probe leases | wizard steps, admission of probes, first activation | activation in `ConfigAcceptance` |
| Maintenance `lib/maintenance/` | everything it retains or reconciles | stale runs, stale claims, expiry, retention, rollups | its reconcilers, beside what they reconcile |
| Dispatch `lib/scheduler/dispatch.ts`, `lib/async/` | in one process | bounded workers with a deadline | skipped checks in `Monitoring` |
| Dependencies `lib/dependencies/` | sources with their validators, provider incidents, matches, dependencies and their states, catalog | claim, fetch, apply an outcome; install, remove, refresh; drift check | `Dependencies` |
| API idempotency `lib/api/idempotency.ts` | `api_idempotency` | acquire a key, reclaim, claim a stale one, work, complete, replay, expire | `Idempotency` |
| Machine credentials `lib/api/device-authorization.ts`, `credential-revocation.ts`, `principal.ts`, `token-service.ts` | authorizations, installations, sessions, tokens | start, approve, deny, poll, issue, revoke | `Access` (not tokens) |
| People and sessions `lib/auth/`, `lib/api/account.ts` | users, invites, sessions | first administrator, join, change role, remove, change email or password | `Access` (not invites and human sessions) |
| Domain health, registrar webhooks `lib/domain-health/`, `lib/porkbun-webhooks/` | domain facts, alerts, receipts | record, claim, defer, release, dead-letter; refresh, reconcile, alert | `DomainHealth` |
| Status reports `lib/api/status-reports.ts`, `status-report-http.ts` | reports and their updates | create, patch, publish, delete, promote an incident; add, edit, delete an update | `StatusReports` |
| Loop health `lib/scheduler/loop-health.ts` | reads `cron_runs` | verdict from the last runs | planned |
| Telemetry `lib/storage/` | batches, histograms, rollups | encode, aggregate, refresh | planned |
| Status page, images, rate limits, database health, checker, routes, rendering, reporting, `pulsectl` | | | no, see below |

How they interact. Five crons fire: `check-monitors` and `check-dependencies` every
minute, `sweep` and `check-domains` every ten, `maintenance` once a day. Each works
under a row lease of its own, all but maintenance's two through the coordinator. A `check-monitors` run reads Edge Config, takes the
configuration lock to accept it and synchronize the registry, loads the state
rows, checks, writes the minute in one statement and then drains the outbox. API
requests, apply requests and onboarding take the same configuration lock and
write Edge Config before they commit. Every changing API request runs inside its
idempotency key's protocol, in the transaction of its work when the route is atomic.
A `check-dependencies` run claims the sources that are due, fetches their pages and applies
each in a transaction of its own; installs and the catalog change the same rows beside it.
Requests are authenticated by joins over sessions, installations and people, which
team changes, revocations and polls of device codes change under two advisory locks.
Incidents reach the outbox inside the statement
that opens or resolves them. `check-monitors` and `check-dependencies` drain the same
kinds of rows, the sweep the system's own alerts. Maintenance closes what others left open: run records of
killed functions, claims of killed drains, expired approvals.

What is hard in it:

- A function can stop between any two of its database calls, and the statement it
  had sent may still land later. Nothing is ever "the last thing a run does".
- A lease in a row is only as exclusive as its clock: exclusion rests on one
  duration (60 s) being shorter than another (90 s).
- The minute is computed from rows read tens of seconds earlier, while people
  pause, archive and restore the same monitors.
- Mail is sent to a provider that may accept it without anyone hearing of it, and
  that forgets idempotency keys after a day.
- Edge Config takes part in no transaction. It is written before the
  commit, may be written without a commit, and is read before the lock.
- A request that outlives its answer is sent again, up to the moment its record is
  declared stale or expires, while the first may still be at work.
- Whether a provider's incident opened, ended or reopened is decided from what the
  poll before stored, which may have been killed, answered 304, or read an incomplete page.
- A poll of a device code reads an approval, then waits for a lock under which the approval's
  installation, person and email may all change.
- Updates of one report are backdated, edited and deleted at once, and its resolution is that of
  whichever is latest when all is done.
- Facts of a domain are read, stored and told in three steps of one run, while deliveries about the
  domain arrive, are claimed beside a run that has the lease, and must not count as done unless their domain was read.
- Two clocks: most stamps come from the database under a lock, some from a host.

What makes each part correct, in one line each:

- coordination: a minute's work is begun at most once and never by two functions at once; every record is closed;
- state machine: counters amount to what the history of results says; dates are those of the first failure and the first success;
- minute: state rows, incidents and notices always tell the same story; an old minute never overwrites a newer decision;
- outbox: sent only if accepted, one drain per notice, attempts bounded, final outcomes final, everything settled in the end, retries within the provider's memory;
- configuration: what runs is the newest accepted snapshot, a destructive change costs an approval of exactly it, operations report the truth, and what is desired comes into force.

- idempotency: a key's change is made once in its retention, and every answer is of a change that was made;
- dependencies: nothing is resolved that the provider has open, each cycle of an incident is told once and is told, and an install's first state comes from a full page;
- access: an administrator remains, nothing authenticates without a current administrator behind it, a device code yields one session;
- status reports: a report is resolved as its latest update says, windows end after they start, an incident has one report, errors change nothing, and the public page cuts off windows that ended before anything else.
- domain health: every delivery is worked off or given up after real attempts, no alert tells a date that a processed delivery replaced, and an expiry that comes near is told.

## Modules

`<Name>` models a part, `MC<Name>` gives it small instances for TLC, `<Name>Proofs`
extends it with theorems. Every definition that a run breaks on purpose has its broken
variants next to it, under the comment *Mutant*; nothing else uses them.

### CronLease, ExclusiveJob

`CronLease` is one job's coordinator with any number of overlapping invocations. An
invocation's `pc` is its place in `runCronCoordinator`; `lease` is the job's row of
`job_leases`; `runs` are the rows of `cron_runs`, each named by the invocation that
inserted it.

| Action | Code |
|---|---|
| `Invoke` | the platform calls the route; the scheduled minute is fixed |
| `Acquire`, `LeaseHeld` | `ACQUIRE_LEASE_SQL` inserts or takes over an expired row, or returns none |
| `StartRun`, `SkipRun` | the insert into `cron_runs`; a duplicate minute or an error skips the work |
| `Work`, `Complete`, `Fail` | the try block; a `complete()` that throws leads to `fail()`, whether or not it took effect |
| `Release` | `withLease`'s finally; a failed release is swallowed |
| `Kill` | the function is stopped anywhere |
| `ReconcileRuns` | `RECONCILE_CRON_SQL` |
| `Tick` | time, as far as no live invocation outlives `maxDuration` |

Every call may fail with or without having taken effect. `ExclusiveJob` is what the
coordinator promises the work it runs: one worker at a time, each minute begun at most
once. `CronLease` implements it under the mapping *worker = the invocation inside the
work's try block, begun = the minutes that have a record*; the run checks it as a
property (`ImplementsExclusiveJob`), the proof establishes it for all constants.

### MonitorStateMachine, MonitorHistory

`MonitorStateMachine` has no variables: `CheckedState` is `transitionMonitor`,
`LifecycleState` is `transitionLifecycle`, over the columns that decide anything. An
incident's id is a function of its monitor and `firstFailureAt`, so that time stands
for it. `MonitorHistory` feeds one row any sequence of results and lifecycle changes,
thresholds changing at every check, and compares the counters with a definition that
only looks at the list of results: in an outage means that some check ended a run of
failures as long as the threshold it had, and no later one ended a run of successes
as long as its own.

### Monitoring, OutageLedger

The minute against everything that changes the same rows. `monitors`, `incidents` and
`outbox` are the tables; `run[r]` is what a function has in memory (`step`, the rows it
read, its results); `config` is the transaction that holds the configuration lock.

| Action | Code |
|---|---|
| `BeginConfig`, `CommitConfig`, `AbortConfig` | a registry synchronization: its clock is read when the lock is held, its rows locked and written at the end, in the mode of a cron (asserts the incident it resolves) or of the API (does not) |
| `Load` | the rows are read after the run's own synchronization committed |
| `Check` | results of any subset of the monitors; the others had no time |
| `Persist` | `PERSIST_ATOMIC_MINUTE_SQL`: versions, states, incidents, notices in one statement |
| `Lose` | the run throws, aborts or is killed |

Runs overlap without restriction although the lease keeps live ones apart: the
statement of a killed run may land during the next. The targets of a configuration
change are any function from monitors to targets, as if every change of the desired
document were possible at any time; which ones are is `ConfigAcceptance`'s subject.

`OutageLedger` is what monitoring promises to whoever reads the incidents and gets the mail: a monitor's outage is one
incident, begun after all earlier ones ended and told in the step that records it; it ends once, by a
recovery told in that step too, or silently when the monitor leaves the watch. It knows no checks, versions,
runs or transactions. `Monitoring` implements it under the mapping *watched = the monitors whose row
is neither paused nor archived* (`ImplementsOutageLedger`, checked and proved).

### Outbox

Several drains of one scope of `notification_outbox`. A row has the status, attempts,
wait until `next_attempt_at`, claim and claim's age; `work[d]` is what a drain
knows of each row it claimed; `network` holds requests on their way; `provider` is the
mail provider (external): mails sent for a row's permanent key, and how long ago.

| Action | Code |
|---|---|
| `Claim` | `CLAIM_NOTIFICATIONS_SQL`; skip-locked and a limit make it any set of due rows |
| `Send`, `Unsendable`, `Timeout` | `deliverClaimedRow`: the call, a payload or a budget that rules it out, its abort |
| `Accept`, `Refuse` | the provider, which may accept what was given up |
| `MarkSent`, `MarkFailed` | updates that require the row's claim token; a failed row waits or is dead |
| `LoseMark` | the update fails; the drain goes on |
| `Release` | out of time: rows not started go back, their attempt undone |
| `Stop`, `Vanish` | the function is stopped; a last write of it may still land before nothing is left |
| `Reconcile` | `RECONCILE_STALE_CLAIMS_SQL` |
| `Tick` | ages and waits; no function outlives its limit (`InTime`) |

### Tripwire, ConfigAcceptance

`Tripwire` is `evaluateDestructiveChange` on what it looks at: which monitors are active
and in which group. `ConfigAcceptance` has the Edge Config key, the accepted snapshot that
sorts newest with the age of its `acceptedAt`, what the last synchronization put in the
registry, valid approvals, operations, and the one transaction that can hold the lock.

| Action | Code |
|---|---|
| `ReadEdge`, `MissEdge` | `readDesiredFromEdgeConfig`, before the lock |
| `AcceptDesired` | `acceptDesiredConfiguration`, under the lock to its commit: accept (consume an approval if needed, insert, synchronize, conclude operations) or fall back |
| `StopCron` | the run ends before its commit |
| `BeginMutation`, `BeginApply`, `BeginActivation` | `applyConfigChange`, the apply endpoint, `activateFirstMonitor` up to their Edge write |
| `WriteEdge`, `FailWrite`, `Land` | the write to Edge Config; one that timed out may land at any later time |
| `Commit`, `FailCommit` | the rest of the three transactions, and a commit that fails after the write |
| `EditEdge`, `Approve`, `Expire`, `Tick` | an operator, expiry, time |

An API change that is destructive inserts its approval already consumed, so no
approval of it is left for a later cron.

### Idempotency

One key of one principal. `record` is its row, `locked` the transaction that holds the row,
`phase[r]` a request's place in `executeIdempotent`, `seen[r]` the row it found, `applied` the
changes that were made, whatever table they are in. A request asks for one of `Routes`; two
requests of different routes share the key only to be refused.

| Action | Code |
|---|---|
| `Start` | the request's `now`, read once |
| `Insert`, `Find`, `Reclaim`, `Settle` | `acquireIdempotencyOwner`: insert or conflict, the row found, an expired one replaced under a new id, the last look |
| `Judge` | replay, mismatch, in progress or stale |
| `ClaimStale` | `claimStale`, which dates the record anew and keeps its id |
| `LockOwner`, `Commit` | the atomic protocol: lock, work and completion in one transaction |
| `Work`, `Complete` | replay-safe and conservative: work, then completion by id |
| `Stop` | an error or the platform ends the request; its commit or completion may still land |
| `Expire` | `EXPIRE_IDEMPOTENCY_SQL` |
| `Tick` | time, as far as no live request outlives `Lifetime` |

Replay-safe work done twice is one change: that is what the mode declares. The hosts' clocks and
the database's are one clock here; a skew adds to the margin that `LifetimeAssumption` needs.

### Dependencies

One source. `page` and the clock that moves with it are the provider (external); `validators`
says whether the stored etag is that of the page as it is; `row`, `match`,
`dependency` and `outbox` are the tables; `poll` is what the one poll under way has in memory.

| Action | Code |
|---|---|
| `Opens`, `Ends` | the provider, which may open an id again |
| `Install`, `RemoveDependency`, `Refresh` | `service.ts`, with the backfill of resolved incidents and the recent state of the catalog |
| `Disable`, `ReEnable` | the catalog's drift check |
| `Claim`, `Fetch`, `NotModified`, `FetchFails`, `ApplyStale`, `PollDies` | `claimDueSources`, `pollOneSource` and the outcomes without a page |
| `LoadInstalled`, `ApplySnapshot` | the transaction of `applyPollOutcome`: the dependencies it loads first, then incidents, closures of what disappeared, matches, states and notices |

A page may list any of the incidents seen, active or over, with any scope, and says whether it is
complete; a complete one lists every open incident. Notices that share a key with one in the
outbox are dropped, as its unique index does. Polls exclude each other because the dependency
runs do (`CronLease`); one that is killed may die between any two steps.

### Access

`person` are the users, `installation`, `session` and `authorization` the rows of the device flow,
`poll` a poll's place, `request` what a role change, a removal or a change of email has read,
`lock` the request that holds the advisory locks.

| Action | Code |
|---|---|
| `CreateOnlyAdmin`, `AcceptInvite` | the first administrator under its own lock; anyone who joins later under none |
| `DecideChange`, `ChangeUserRole`, `RemoveUser` | `invites.ts`: the reads under the locks with `assertAnotherAdminExists`, then the writes with `revokeIssuedCredentials` |
| `AskEmail`, `ApplyEmailChange` | `changeAccountEmail`: the old email read under no lock, then the compare-and-set that renames rows |
| `ChangePassword`, `RevokeInstallations` | `applyPasswordChange` and the revocations of one or of all installations |
| `RequestDies`, `PollDies` | the transaction rolls back |
| `Start`, `Approve`, `Deny`, `Expire` | the device authorization |
| `PollRefused`, `PollApproved`, `PollIssues` | `pollDeviceAuthorization` up to its wait for the credential lock, and from there |

The two advisory locks are taken one after the other with no read in between, so one
variable stands for both. `LiveSessionsAreBacked` is about who stands behind a session: the session, its
installation and its person are found by three different columns (email, installation, owner),
and the revocations go by email while authentication goes by owner.

### StatusReports

`report` and `update` are the tables, `request[r]` the transaction a request has open with what it
has read or written so far. A report's row is locked by `SELECT ... FOR UPDATE` up to the commit; a
request that is answered with an error commits it in its idempotency record (`Refused`).

| Action | Code |
|---|---|
| `CreateStatusReport`, `PublishStatusReport`, `DeleteStatusReport` | one statement, or rows that nobody else can know before the commit |
| `PromoteIncident`, `CommitPromotion` | the insert with `ON CONFLICT` on the incident's index, which waits for another promotion of it; a report that was there is returned |
| `UpdateStatusReport`, `CommitPatch` | the row locked, the window it will have checked, then the bounds that were given |
| `AddReportUpdate`, `EditReportUpdate`, `DeleteReportUpdate` | the row locked, the update written |
| `Recompute`, `CommitUpdate` | `recomputeResolution`: the resolution of the latest of all updates |
| `Die` | the transaction rolls back |

`Phase` and `RanksBefore` are two readings of the same row, one in TypeScript and one in the query that
cuts off the public page; they agree only because no incident has an end.

### DomainHealth

`asset`, `receipt` and `alerts` are the tables (of the outbox, the keys of its domain rows), `registrar` is the
account at Porkbun (external), `run[r]` what an invocation of `check-domains` has in memory, `lease` who took the
job's lease. A claim stands for the attempt count and the start of processing that every mark compares.

| Action | Code |
|---|---|
| `Renew`, `Transfer`, `Deliver` | the registrar; a delivery is recorded once by its event id |
| `Configure`, `SwitchAlerts` | the configuration with its registry; `updateDomainMonitoringSettings` |
| `Claim`, `Sort`, `SortFails` | `processPorkbunWebhookReceipts` up to the run: stale claims are taken over, deliveries of domains nobody monitors are ignored |
| `Enter`, `Defer`, `Begin` | `runDomainHealthCron` reads configuration and settings, then the lease and the minute decide, then the stored facts are loaded |
| `Fetch`, `Reconcile`, `Tell`, `Finish` | `runDomainHealthCoordinator`: the account and RDAP, the transaction on the assets, the alerts, the release |
| `Conclude` | the deliveries are marked processed, released (dead after the last attempt) or deferred |
| `Fail`, `Die`, `LeaseExpires` | errors, the platform's limit, a lease nobody released |

Days are as fine as time gets: a domain is due once a day, and a claim is stale when no
invocation has it in hand (60 s against ten minutes).

How the modules compose in the system: `CronLease` justifies that *live* runs of
`Monitoring` do not overlap (which that module deliberately does not use) and that two
drains of `Outbox` can only be of two jobs or of a dead run and a live one.
`ConfigAcceptance` produces the configurations whose lifecycle targets `Monitoring` takes
from any set. `Monitoring`'s notices are the rows `Outbox` delivers. A module
that shares another's state leaves that state unconstrained rather than assuming the
other's result, so each stands by itself.

## Runs

Times are in ticks whose length differs by module; what matters of a duration is its
order with the others, and every order the code's assumptions admit occurs.

| Run | Shows | Bounds and why they suffice |
|---|---|---|
| `cron_lease` | one run per minute, live runs stay open, bounded refusal, closed runs final and all closed in the end, refinement of `ExclusiveJob` | 3 invocations: a holder that dies, one that is refused, one that takes over. Ticks of 30 s: minute 2, limit 2, lease 3, 5 ticks in all, enough for a death, the expiry and a takeover. The reconciler's 5 minutes are cut to `maxDuration`, the least the assumptions allow, so that it acts as early as it may. Under fairness; records that would go stale only after the clock's end are exempt |
| `monitoring` | state, incidents, notices; nothing asserts; refinement of `OutageLedger` | 1 monitor, 2 runs at once, verdicts of one check or two, 4 checks, versions up to 4: open, verify, close, reopen with an old minute pending. Monitors do not influence each other but through an abort of the whole statement, which `Lose` already has |
| `monitor_history` | counters against history, dates of outages | 7 events, thresholds (1,2), (2,1), (3,2) at each: confirm, relapse, recover and be reconfigured in between |
| `outbox` | sent was accepted, attempts, one drain per notice, final outcomes, first retry safe, every notice settles | 1 notice, 2 drains, 3 attempts, 3 troubles (a stop, a lost mark or a release each): a claim goes stale, is retried and goes stale again, on both sides of the window. Batches of several notices are covered by the theorems, not by the run |
| `no_duplicate_delivery` | **violated**, see below | 1 drain, 1 notice, no trouble |
| `config` | snapshot and registry agree, consent is spent, operations tell the truth, desired comes into force | 5 monitors, a group of 2; from five monitors one may be removed freely, and dissolving the group needs consent. 2 crons with old reads, 1 apply request, 2 approvals, 3 changes: one change can be overtaken by another while a run holds what it read before both |
| `idempotency` | a change once, answers of changes that were made | 3 requests of one key, one route of each mode: one that leaves a record behind, one that takes it over, one that overlaps either. Lifetime 1 = stale age 1, the limit of the assumption; retention 3 and 5 ticks: a record expires after it was left running and after it was claimed anew |
| `dependencies` | nothing open is resolved, each cycle told once, none lost, first page full | 1 incident, 1 preset of 2 rows (added, removed, added again), interchangeable. The clock counts changes of the page: 4 of them let an incident open, end, open again and end again, with a poll between any two. Incidents and presets meet only in the validators and in one transaction |
| `dependencies_reenabled` | **violated**, see below | 1 install, one opening |
| `access` | an administrator remains, live sessions are backed, one session per code | 3 people and 3 emails: two who demote each other and one who takes a freed email. 1 installation and 2 codes of it, so that a second approval revives what a waiting poll holds; 2 polls of one code; 2 team requests in flight. People, emails, polls and requests are interchangeable |
| `status_reports` | resolutions of the latest updates, windows in order, one report per incident, errors change nothing | 2 reports, 2 updates with ids in order, 1 incident, 2 requests in flight, 2 instants: an update is deleted or backdated beside one that is added, bounds are patched one each, an incident is promoted while its report is deleted. Two instants order any two dates, and a tie is decided by the id. Reports and requests are interchangeable |
| `domain_health` | deliveries are given up only after real attempts, none waits forever, no alert of a replaced date, every near expiry is told | 1 domain, 1 delivery, 2 invocations, 2 attempts, 3 days in which its registration comes within both thresholds, 1 change by people or the registrar, 2 troubles: a refresh that fails and a run that overlaps or dies. Domains meet only in the lease and in which of them a run refreshes; a second delivery of a domain is claimed with the first. The last day is long and nothing fails to be read on it, so that what is owed can be seen to be done. Under fairness |

The bound of more than five removed monitors (`MaxRemoved`) cannot be the deciding one with five
monitors; the percentage, the emptied configuration and the dissolved group are.
`CHECK_DEADLOCK` is off where the clock bound, or a settled outbox that has grown old, ends
the behaviour.

### Fairness

- `CronLease`: code that runs reaches its next step or is killed, time passes, and
  maintenance comes round. Nothing obliges the platform to invoke anything.
- `Outbox`: crons keep firing (`vercel.json` has them every minute, so `Claim` and
  `Reconcile` are weakly fair), a live drain works through its rows, a request is answered
  or lost, time passes. What goes wrong is bounded by `MaxTrouble`: if every drain were
  stopped forever nothing could be delivered.
- `DomainHealth`: the cron fires, an invocation works on or dies, leases run out and days pass (weak fairness).
  What goes wrong and what changes is bounded by `MaxTrouble` and `MaxChanges`.
- `Dependencies` (`dependencies_reenabled`): the cron fires; of the polls that fetch and that load not
  every one dies or fails. Under these the counterexample is a cycle of polls that all succeed.
- `ConfigAcceptance`: runs and transactions end one way or the other (weak fairness).
  That some reads succeed and some of the runs that read what Edge Config holds reach their
  commit is strong fairness: of infinitely many minutes not all fail in the same way.
  Approvals, mutations and repairs are nobody's duty.

## Proofs

Each proof module extends its component; `MonitoringProofs` has the proofs of `MonitorHistory` too, and
`AccessProofs` those of `DomainHealth`, whose definitions are named apart for that (`HistorySpec`, `HealthSpec`). The
argument is the same throughout: an inductive invariant `IInv`, `Init => IInv`, `IInv /\ [Next]_vars => IInv'` with a
lemma per action, and the theorems from it. Some modules have a second invariant that is inductive only
given the first; it is proved in the same way on top of it.

**CronLeaseProofs.** `TypeCorrect`, `Exclusion`, `MinuteOnce`, `LiveRunsStayOpen`, `BoundedRefusal`,
`ClosedIsFinal`, `Refinement`. Assumed: `MaxDuration < LeaseDuration` and `MaxDuration <= StaleAfter`,
which the routes' 60 s, the lease's 90 s and the reconciler's 5 minutes satisfy. Exclusion is not
inductive: that the lease is still valid while its holder works has to be known first.
`IInv` adds that an active invocation is within its limit (`WithinLimit`), that a holder owns a
lease that outlasts that limit (`HolderOwnsLease`), that an owner did acquire it
(`OwnerAcquired`), that no run is recorded before its start (`NoEarlyRun`), and the three
invariants themselves. The refinement maps `Acquire` and the like to stutters, `StartRun` to
`Begin` or, when its reply is lost, to `Miss`.

**MonitoringProofs.** `TypeCorrect`, `IncidentsAgree`, `CauseIsKnown`, `AssertionsHold`, `PausedAlone`,
`AlwaysVersioned`, `ResolvedForever`, `OutagesInOrder`, `NoticesComplete`, `LedgerRefined`, for any monitors, runs and thresholds.
Assumed: SQL null is no reason of a resolution (`ReasonsAssumption`). `IncidentMatchesState` needs
to know that a run whose versions match computed from the current rows
(`SnapshotCurrent`), that rows and snapshots are well formed (`RowsSound`), and that the incident a
minute is about to open has an id nobody has used: an outage still being counted, and a check
not yet written, are later than every incident of their monitor (`CountedOutageIsNew`, `CheckIsNew`,
`NothingAhead`). `Chronicle`, on top of it, follows incidents to their ends: that notices match and incidents are in
order is inductive only together with where the *ends* lie, before the present (`ResolutionsBehind`), before an outage being
counted (`CountedOutageFollows`) and before a check not yet written of a row unchanged since (`CheckFollows`), and with the
first success of a recovery being no earlier than its outage (`RecoveryDated`), from which the end is dated.
`LedgerRefined` rests on both. It looks at one monitor at a time: a configuration transaction closes its open
incident or leaves it alone (`CommitRecords`), a minute begins one, ends one or leaves it alone (`PersistRecords`), and every
other step is a stutter. That the row a minute opens is really inserted, that the one it resolves is found and is the
only open one, and that nothing else of the monitor is touched is what the invariants are for.

*MonitorHistory*: `VerdictsMatch`, `OutagesAreDated`, `RecoveriesAreDated`, for any thresholds, changed between any two
checks, and histories of any length. The reference definition looks at the whole sequence; what makes it
inductive is that a streak is an interval that ends at the last check. `History` says that both streaks are such intervals
and that the state machine's counters and dates are their lengths and first checks (`Counted`), that the first check to confirm
an open outage and the start of its streak do not change as checks are appended (`OutageDated`), and that a
monitor is down exactly in an outage (`DownInOutage`).

**OutboxProofs.** `TypeCorrect`, `SentOnlyIfAccepted`, `ClaimsAreExclusive`, `AttemptsAreBounded`,
`OutcomesAreFinal`, `FirstRetries`. Assumed: `StaleAfter < Window - Margin`. `IInv` adds that what a running drain
holds is claimed by it and not older than `StaleAfter` (`Owned`), that it knows of an
acceptance only if there was one (`AnswersAreTrue`), and an accounting of attempts (`Charged`): a row
in nobody's hands has an attempt left, or something went wrong with its last claim. `FirstRetries` compares the age of the
provider's key with that of the claim, which is all the code has: `FirstAttempt` says that a notice nobody attempted is not
with the provider, nor on its way (`Unused`, `ClaimUnsent`), that the key of a first attempt is no older than its claim
(`KeyIsYounger`), and that a drain which may still write is young enough (`WritesAreYoung`).

**ConfigAcceptanceProofs.** `TypeCorrect`, `RegistryFollowsSnapshot`, `ConsentIsSpent`, each under
`InStepClocks`, the hypothesis that no host's clock differs from the database's: that is
exactly what the code's comment claims and onboarding does not ensure; and `OperationsAreTrue`, which needs no clocks. `IInv` is `TypeOK` with
`RegistryRunsAccepted`: consent is measured against the snapshot, and protects what runs only
because the two agree. `Unstarted` says that no row of an apply request's operation is there while it is under way, so that
what concludes an operation is an acceptance and never the request itself. Assumed for it: an operation's name is none of the
two the code gives to writers without one (`OperationsAssumption`).

**IdempotencyProofs.** `TypeCorrect`, `ChangedOnce`, `AnswersAreTrue`. Assumed: `LifetimeAssumption`, a request
ends no later than its record may be called stale and before it expires (300 s, five minutes, a day).
Neither property is inductive: what has to be known is where a record is while its owner works. `IInv` adds
that live requests are within their lifetime and records dated by their owners (`Timely`, `RecordDated`), that ids of
records and operations are those of requests that began (`IdsAreKnown`), that a request's copy of the row is of
a record that was there (`SeenInHand`, `SeenIsTrue`), that a live owner still has its record and a lock its holder
(`OwnerHolds`, `LockHolds`), and that changes and completions match (`ChangesAreMade`, `Remembered`).

**DependenciesProofs.** `TypeCorrect`, `ResolvedEnded`, `FirstPage`, `ToldAtMostOnce`, `CyclesAreTold`, for any incidents, presets,
rows and fidelities. `ResolvedHasEnded` needs cycles to go forward only, from the page to the poll to the
stored row (`StoredIsBehind`, `SeenIsBetween`). `ToldOnce` does not rest on the keys of the outbox: what was told is in
the stored rows, an opening as a match and a recovery as an end that only a later cycle takes back
(`ToldIsStored`), so the next poll cannot find the same transition again. `FirstPageIsFull` needs that an install which
waits is in every poll that has loaded (`FirstIsAwaited`). `CyclesAreTold` is the converse and does rest on the keys: a notice
may only be dropped for one of the same cycle. `Timeline` says that every end that was stored or told of is past
(`TimesArePast`, `MarksArePast`), and that an opening told of in a cycle has a key before its end (`OpeningsArePast`), so that a key
computed later is one that no earlier cycle had.

**AccessProofs.** `TypeCorrect`, `AdministratorRemains`, `SessionsBacked`, `CodeYieldsOnce`, for any people,
installations, codes, polls and requests. What a decided change found is still so when it writes
(`DecisionsHold`); installations are their owner's by id and by email (`InstallationsAreBacked`), unrevoked sessions
carry the email of their installation's owner (`SessionsAreBacked`), which rests on emails being unique
(`EmailsDiffer`); and only a consumed or expired code has a session (`IssuedIsConsumed`).

*DomainHealth*: `GivenUpAreTried` and `NobodyWarnedOfRenewed`, for any domains, deliveries and runs and any number of failures. Assumed:
null is no row (`RowsAssumption`), a warning comes before a critical one, and at least one attempt is allowed. `Custody` is
the accounting of attempts: what a run has in hand is pending, bears its claim and was charged (`Holding`), so no two
runs hold one delivery, and a pending delivery was charged for no more than the runs that worked on it, but for the one that
has it in hand (`Accounted`). For the alerts, `Fresh` says that only the holder of the lease works (`Exclusive`), that what it
refreshed is not behind the deliveries it held when it asked (`RefreshesBehind`), and that every date an alert may
be about, stored or loaded, is at least that of every delivery processed, and of every refresh that a run has stored
and may yet process deliveries for (`Covers` in `AssetsCover` and `KnownCovers`). The last part is the heart of it: a run that
completed decides about its deliveries after it gave up the lease, when another may already be at work.

**StatusReportsProofs.** `TypeCorrect`, `ReportsStayDerived`, `WindowsStayInOrder`, `PromotedOnce`,
`OngoingIsKept`, `ErrorsLeaveAll`, for any reports, updates, incidents and requests. Assumed: ids of updates and instants are
naturals, so that a latest update exists. `IInv` says what an open transaction may rely on while it holds its row: that
the row is still there, that the update it deletes is not the last, that the window it checked and the resolution it derived
are those of its commit (`PromotionSound`, `PatchSound`, `WriteSound`, `ResolutionSound`), and that no two transactions
hold one report, write one update or promote one incident (`Exclusive`). A step of one request leaves what the others
hold alone (`TouchesOnly`), so one lemma carries all of them over.

`Exclusion`, `MinuteOnce`, `CauseIsKnown`, `PausedAlone`, `AlwaysVersioned`, `ResolvedForever` (which the refinement implies) and `OngoingIsKept` are theorems without a
run of their own, and so are the types: `TypeCorrect` of every module with proofs is proved. That two drains with batches never hold the same notice is
checked for one notice and proved for any number.

Only model-checked: the liveness properties, which need fairness and `ENABLED` and which the prover does not handle
(`RunsAreClosed`, `EveryNoticeSettles`, `DesiredComesIntoForce`, `EveryReceiptSettles`, `EveryExpiryIsTold`), and the two
statements of documents that are violated. Every invariant and every action property the other runs check is a theorem.

## Where code and text disagree

Each of these is a run that TLC finds violated.

1. **Duplicate delivery** (`no_duplicate_delivery`). `Docs/OPERATIONS.md:61`: "Ambiguous sends older
   than that window become `dead` to prevent duplicate delivery". Only a row still in
   `sending` is compared with the window (`lib/notifications/sql.ts:81` claims `failed` rows of any
   age). A send that timed out is marked `failed` although the provider may have accepted
   it; if its retry comes after the provider forgot the key, the mail goes out twice. In
   practice that takes an outage of the drains of about a day.
2. **Re-enabled preset** (`dependencies_reenabled`). `lib/dependencies/catalog-sync.ts:544`: a preset whose components
   are back is re-enabled "so its installs recompute on the next poll". `reEnablePreset` leaves the source's
   validators alone. If a poll stored those of the present page while the preset was disabled, the next polls
   are answered 304 and its installs stay `UNKNOWN` until the page changes.

These have no run; the models include the behaviour, so the properties hold with it.

- `Docs/OPERATIONS.md:109-114` has an operator approve a rejected candidate and then confirm that
  `config_operations` converged. Acceptance only concludes operations in state `written`
  (`lib/scheduler/configuration-acceptance.ts:95`), so a rejected one stays `rejected` while its target runs.
- The test `lib/scheduler/configuration-acceptance.test.ts:200` is named
  "uses the locked previous snapshot so a stale pre-lock read cannot win". The previous snapshot is
  read under the lock, the desired document is not: a run that read it before a change
  committed puts the old document back. `DesiredComesIntoForce` shows that this heals by itself
  unless the change was destructive; then its approval is spent and Edge Config's copy is
  rejected until someone approves it again.
- `lib/config/accepted-config.ts:21`: "Every writer stamps acceptedAt from the lock-serialized database
  clock". `activateFirstMonitor` uses `new Date()` (`lib/onboarding/service.ts:499`). With a host out of step
  (`Skews` other than `InStep`) readers find a snapshot that the registry does not run until a later acceptance.
- `Docs/OPERATIONS.md:134` says that changes of password and email deliberately leave machine credentials
  alone. `applyPasswordChange` (`lib/api/account.ts:620`) revokes those of the person.
- `lib/dependencies/persist.ts:1327` takes the loaded dependencies for those that are enabled when they are written. A
  preset that is disabled between the load and the end of a poll has its installs' `UNKNOWN` overwritten.
- An install that commits between the load and the commit of a poll has the validators it cleared
  overwritten by that poll's, and waits for the next change of the page for its first state (`awaits` is
  `"nothing"` for it, so `FirstPageIsFull` does not speak of it).
- A recovery withheld because the dependency is still degraded (`persist.ts:438`) is not sent later: the row is resolved
  from then on and no poll finds the transition again.
- A preset that is removed and added again while an incident goes on, and sees it opened again in a later
  cycle for the first time, may lose that notice to its predecessor's key, which names the preset and not the row
  (`ToldPredecessor` in `EveryCycleIsTold`).
- `lib/monitoring/state-machine.ts:139-141` says that
  an activated monitor has left `PENDING` for good, but resuming or restoring puts it there.

## What is not modelled

- *Inside a modelled part*: telemetry bitmaps, exceptions and rollup refreshes the minute's
  statement also writes; the rows of the registry; display columns of a state row; contents of
  mails; validation, plan hashes and `If-Match` of configuration requests, which are compared
  with the configuration a request is planned from; the worker pool that runs the checks. A
  statement or transaction of PostgreSQL is one atomic step, its failures included: a deadlock
  the database breaks is a failed step.
- *Idempotency*: the hash of a request is the route it asks for, stored bodies are the request whose work they
  are of, and encryption or stripping of what is stored is left out. The delete of expired records looks at the id again
  only, after it has waited for a lock; no such wait can end with a record that lives on under the same id within
  the lifetimes assumed.
- *Dependencies*: intervals of a dependency's history, what is left of removed ones (a remove during a
  poll leaves the interval it opens behind), the retry of a backfill, times and backoff of polls,
  how adapters read a provider's document, the manifest. Polls of different sources share nothing but the outbox.
- *Access*: API tokens and their trees, the claim of an invite, human sessions, logins, credential
  epochs (nothing in the code raises one), the pace of polls, sizes and limits of codes.
- *Status reports*: affected monitors and what a deleted monitor takes with it, titles, texts and the vocabulary of
  statuses, pages of lists and their cursors, groups' pages, the cache of rendered pages, answers built from what was read
  before the lock, and the cap of a thousand updates that a resolution looks at.
- *Domain health*: certificates, which are refreshed with the domains and answer to nobody; test deliveries; signatures,
  admission and the health stamps of the webhook, its registration and the check that Porkbun is connected before alerts
  are enabled; dates that RDAP gives, which no alert is about; recipients (an alert stands for its rows); the order and the limit of a claim of 50; how long
  a domain's facts are kept after it is no longer monitored (two days; in the model any time, so that one that comes back may
  have its old facts until its next refresh); the retention of decided deliveries.
- *Pure input and output*: the HTTP checker and its DNS rules, readiness probes,
  routes and authentication of crons, rendering, dashboard and reports, `pulsectl`. A check is a
  nondeterministic result.
- *Single short transactions*: the status page document, images, rate limits, database
  health. There is no step between which anything could happen.
- *Planned*: the parts marked so in the inventory. `PROJECT.json` lists the hazards that
  wait for them, each at its line, with the reason why no property covers it.

## Plan

Done, in this order: the cron lease, under which everything runs; the monitor state machine
and the minute, which is the product; the outbox, which tells people; the configuration, which
decides what is monitored. Each with its abstract view where there is one worth stating
(`ExclusiveJob` for the lease, `OutageLedger` for the minute, the plain history for the counters), its invariants first and their
proofs after TLC agreed.

Then what requests go through: the idempotency key, the
dependencies and their catalog, people with the clients they link, the status reports, and the registrar's deliveries.

Next, most important first:

1. API tokens in `Access`: a token made by a session or a token, and the closure of a revocation over
   everything made from what it revokes.
2. `Maintenance`: the window's budget with its reserved slice, and the lost commit of a
   budgeted transaction. Liveness: no task starves.
3. Intervals in `Dependencies`: one open interval per installed dependency, that of its state.
4. Operators against reference definitions: `lib/storage/codec.ts` and its rollups, bounded work,
   loop health.
5. `Pulse`: a composition of the minute and the outbox under the lease, so that "an outage of a
   monitored site is announced" is one property from check to mail.
