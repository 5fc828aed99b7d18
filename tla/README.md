# Formal models of Everr

Everr stores CI telemetry in ClickHouse and lets people watch it with alert rules. A rule is evaluated on a grid; what fires or resolves is written to a journal, grouped, and announced over notification channels. Around that pipeline the hosted product takes in GitHub's workflow events, sets up each organization's access to ClickHouse, sells it a plan, and decides on the ingest keys its collector is shown. Most of this runs as jobs of a PostgreSQL queue (graphile-worker) on several nodes, next to requests, webhooks and people who edit, delete and pay meanwhile. This directory holds TLA+ modules of these parts, TLC runs that check them on small instances, and TLAPS proofs of the properties that matter most for every instance.

Paths below are relative to `src/`; `app/` stands for `packages/app/src/`, `cloud/` for `packages/cloud/src/`, `apikeyauth/` for `collector/extension/everrapikeyauth/`.

## 1. Inventory

The repository has a web application (`packages/app`), the hosted edition on top of it (`packages/cloud`), a command line (`packages/cli`), a local edition (`packages/local-app`), browser SDKs (`packages/otel-web`, `packages/otel-errors`), user-interface packages (`packages/ui`, `packages/telemetry-explorer`, `packages/datemath`), documentation (`packages/docs`) and an OpenTelemetry collector distribution in Go (`collector`). Most of the concurrent logic is in alerting (`app/server/alerting`, `app/data/alerting`), in the intake of GitHub's events, in provisioning and billing, and in the collector's key authentication; what is left is the queue's supervision and event publication.

### Alerting, modelled

| Component | State | Operations | What makes it hard | Correct when |
|---|---|---|---|---|
| Rule evaluation: `evaluation/rule.ts`, `state-machine.ts`, `instances.ts` | `alert_instances`, `alert_evaluations`, `alert_events` | take a job, query, commit, record a failure, discard | instances are read before a query that may take minutes and stored after it, while the rule is edited | episodes are told whole; `for` means held |
| Scheduling: `scheduling/scanner.ts`, `evaluation-jobs.server.ts` | `next_evaluation_at`, `last_enqueued_at`, the evaluate jobs | book, back off, scan, re-enqueue | a job lost, stale, or keyed by an instant already used | an active rule is always evaluated again |
| Rule mutations: `rules/repository.ts`, `lifecycle.server.ts`, `history/project-lifecycle.ts` | `alert_definitions`, the lifecycle projections | update, relabel, adopt, pause, resume, delete | they cancel events that workers and flushes hold | one outcome for each chain |
| Process-event worker: `delivery/process-event.ts`, `suppression.ts`, `targeting.ts` | `processed_at`, `silence_id`, group membership | claim, drop as stale or muted, hold, dispatch, end | every await is a point where a cancel, a release or a second run gets in | every event has an owner or an outcome |
| Flush-group worker: `delivery/flush-group.ts`, `journal-reader.ts`, `grouping.ts` | `next_flush_at`, `last_flushed_at`, `flushed_at`, the delivery rows | claim a batch, weigh, defer, commit, record terminals | members arrive during a flush; batches are capped | nobody is stranded; pages are paced |
| Silences: `silences/repository.ts`, `matching.ts` | `alert_silences` | create, expire with release | a hold is written with the end that was read earlier | held events come back |
| Delivery send: `delivery/send-delivery.ts`, `history.ts`, `config.ts` | `alert_deliveries`, the send job, the history trail | send, withhold, fail, mark, record | locks expire under a running send; the write after the send may fail | no second send the row could have prevented |

### The hosted product, modelled

| Component | State | Operations | What makes it hard | Correct when |
|---|---|---|---|---|
| GitHub events: `app/server/github-events`, `integrations/github/install-callback.ts` | `github_installation_organizations`, two jobs for each event, the tenant cache of a process, `workflow_runs` | accept a webhook, resolve the organization, replay, upsert | GitHub delivers late, twice and out of order; the installation changes hands | nothing acknowledged is lost, nothing shown goes back in time, nobody gets another's events |
| Organization provisioning: `cloud/organization-provisioning`, `cloud/clickhouse/provisioning.ts` | the readiness flag in the organization's metadata, two jobs, the ClickHouse user and its row policies | create, edit, delete, provision, deprovision, scan, cap retries, restart | a run may outlive its lock; rows and ClickHouse share no transaction | ready means served; deleted means cleaned up |
| Billing: `cloud/billing` | `organization_billing`, `org_subscription`, `pro_organization_checkout`, Polar's checkouts and subscriptions | start, complete, synchronise, downgrade, refuse a delete | redirects and webhooks race and repeat; locks are tried, not awaited | what is paid is granted, once, and no longer than it is paid |
| API-key authentication: `apikeyauth/` | two LRU caches, shared verifications | look up, verify, fall back, cancel | verdicts age; callers share one call and leave it | an acceptance ends in time; outages stay invisible |

### How they interact

```
scanner --enqueues--> evaluate job --commit--> alert_events + process-event jobs
   ^                       |                           |
   |                books the next one                 v
   +---- backstop ---------+           process-event worker --> group membership + flush job
                                              ^  |                        |
 rule mutations --cancel, project terminals---+  | hold            flush-group worker
 silences --release held events------------------+                        |
                                                          alert_deliveries + send jobs
                                                                          |
                                                                 sendAlertDelivery --> channel
```

```
GitHub --webhook--> enqueueWebhookEvent --two jobs--> tenant cache --> workflow_runs, collector
                                                          ^
   install callback, suspend, delete --> installation row-+

adapter (create, delete) --one transaction--> organization row + lifecycle job --> worker --> ClickHouse user
                                                        ^                                  |
                                     scanner, retry policy, restart          readiness flag (metadata)

checkout --> Polar --redirect / webhook--> subscription.ts --> organization (adapter) + plan + org_subscription
collector --bearer token--> cache / shared call --> verify-key.ts
```

Components never call one another, save billing, which creates its organization through the adapter: they meet in PostgreSQL rows, guarded by conditional writes (`processed_at` equal to what was read, a version, a group's row lock), and in jobs whose key makes a duplicate collapse. Outcomes are projected to ClickHouse on a best-effort basis.

### Not modelled, or only in part

| Component | Why |
|---|---|
| Journal and job-queue tables, history store, worker pools | in part: the rows, jobs and terminal records the handlers use; not ClickHouse's columns and deduplication, nor the supervisor that restarts a pool (`worker/managed-worker.ts`) |
| Alert retention (`maintenance/cleanup.ts`) | planned: the sweep locks what it deletes, skips what is locked, and takes only groups without members that were idle for days |
| Alert previews | the muted flag is modelled; applying and tearing down are planned |
| GitHub events | in part: not `backfill.ts`, the notifications after an upsert, and payloads that cannot be parsed |
| Billing | in part: not the members and owners mirrored to Polar (`members.ts`, `reconcile`), nor subscriptions that are past due |
| Event publisher and notification hub, as-code apply | planned, in section 2; publication catches every error of its own (`events/publisher.ts:36`), so that none of the modelled steps fails on it |
| CRM synchronisation, collector usage accounting | low priority: outbound projection and interval counters |
| Triage views | reads only |
| Command line, GitHub Actions receiver | sequential clients and translation of data |
| chDB exporter, local gateway, web SDKs, user interface | vendored or native I/O, presentation |

`PROJECT.json` lists all 27 components, each with its sources, and every hazard at the line where it bites.

## 2. Plan

Modules, in the order of importance; the first ten are done.

1. `NotificationGroup`: the pure decisions of grouping.
2. `AlertDelivery`, which extends it: process-event, flush-group, silences and mutations.
3. `NotificationChain`: the abstract life of an event, implemented by `AlertDelivery`.
4. `AlertInstance`: the state machine of an instance.
5. `AlertEvaluation`, which extends it: evaluation, scheduling, scanner, edits.
6. `DeliverySend`: the runs of one delivery.
7. `OrganizationProvisioning`: an organization between its row, its jobs and ClickHouse.
8. `Billing`: an organization between its rows and Polar.
9. `WorkflowEvents`: a workflow run from the webhook to its row.
10. `ApiKeyAuth`: the decisions of the collector on a key.
11. Retention: the sweep of `cleanup.ts` 29-195 against dispatch, flush and send.
12. `AlertFiring`: what an instance promises (alternating fire and resolve), to be implemented by `AlertEvaluation` and assumed by `AlertDelivery` in place of its free `Fire` and `Resolve`.
13. Preview apply and teardown, and as-code apply with ownership.
14. The worker supervisor, then the event publisher with the notification hub.
15. Billing members and ownership.

Theorems still worth proving:

- `ChainOwned` and `OneTerminal` with silences, for the behaviours without the steps of `chain_lost` and of the observation on `no_channels`.

## 3. The modules and the code

One action is one database statement or transaction; a read and the guarded write right after it are one action. Between two actions of a handler everything else may run. A handler's local variables are a record (`worker[w]`, `flush[g]`, `eval`, `scan`, `edit[x]`, `run[r]`) whose `pc` says which await it has reached. Variables are named after the columns they stand for; the comment at each declaration gives the column. `PROJECT.json` "map" gives the lines of each definition.

**NotificationGroup** (`delivery/grouping.ts`, the query of `journal-reader.ts`). When a group flushes next (`NextGroupFlushAt`, `NextGroupFlushState`, with the sentinel instant `IdleAt` of an idle group), which members a capped claim takes (`ClaimOf`), which verdict a member gets (`Deliverable`, `DropReason`), and what is announced (`Notify`, `DroppedUnannounced`). Operators only.

**AlertDelivery** (`process-event.ts`, `suppression.ts`, `flush-group.ts`, `silences/repository.ts`, `lifecycle.server.ts`, `rules/repository.ts`). One rule's journal, groups, silences, jobs and handlers. `Process*` are the awaits of `processAlertEvent`, `Flush*` those of `flushAlertGroup`; `PauseRule`, `ResumeRule`, `ChangeLabels`, `DeleteRule`, `ProjectLifecycle`, `CreateSilence` and `ExpireSilence` are the other transactions; `Fire` and `Resolve` are evaluations as delivery sees them. `ProcessThrow` and `FlushThrow` are a handler that dies: its job runs again.

What it abstracts:

- Groups are by rule and severity, so a group never mixes rules and one rule suffices. The tiers of the default destination are one group.
- `processed_at` is identified by who wrote it (`open`, `dispatched`, `cancelled`, `ended`) and not by its instant. That is what the guarded writes tell apart, except that two stamps of the same writer look alike.
- Two jobs of one event due at the same instant are one job. Attempts are not counted; `MaxThrows` stays below the five attempts of a job.
- Which channels a target resolves to, at the moment it is used, is left open (`Target`, `ChannelsFound`).
- `FlushWeigh` stands for three reads (firing instances, silences, cleared holds) as one step; the worker's firing read is joined to its silence read. The start of a silence and the rows that only display a hold are left out.
- History lines are best effort, as in the code: `lost` holds the events whose terminal died with its handler.
- The worker reads the clock where it decides; the code takes `now` once, when a handler begins (`process-event.ts:32`). A handler that spans an end of a silence may in the code still hold its event for that silence.
- Deletion and the other mutations are atomic here; the two steps of a deletion are in `AlertEvaluation`.

**NotificationChain** is the specification of one event's life: unborn, waiting, joined, ended or cancelled, a cancel that takes every waiting event at once and stands, and announcements of joined events only. `AlertDelivery` maps `claim` and `tail` to its `stage` and the delivered events to its `announced`.

**AlertInstance** (`evaluation/state-machine.ts`, `instances.ts`). `Advance` is `advanceAlertInstance` on one row: pending, firing after `ForSecs`, inactive after `ResolveAfter` absences, a run of sightings broken by a gap longer than two intervals. `EpisodeOf` and `EpisodeAfter` number the episodes.

**AlertEvaluation** (`evaluation/rule.ts`, `scheduling/*`, `rules/repository.ts`). `EvalTake`, `EvalQuery`, `EvalCommit`, `EvalFail`, `EvalDiscard`, `EvalSkip` and `EvalThrow` are the paths of `evaluateAlert`; `ScanRead`, `ScanEnqueue` and `ScanStamp` the three statements of `scanDueAlerts`. An edit computes its next instant at `StartEdit` and writes it later (`UpdateRule`, `AdoptRule`, `ResumeRule` then `ResumeEnqueue`), because `repository.ts` computes it before the transaction. Nodes and database read one clock, which the comment at `rule.ts:257-260` assumes; the rule's queue is serial; the scanner runs once per unit of the clock (a cron job each minute). The preview kill switch and the scanner's batch limit are left out.

**DeliverySend** (`send-delivery.ts`, `history.ts`, `delivery/repository.ts`). The row, the job and any number of runs. The queue is external and modelled as its client sees it: a run takes the job and an attempt with it, a finished job is deleted whoever holds it, a failed one goes back only if the failing run still holds it, and a lock may expire or be forced away while the run goes on. A stamp is identified by the run that wrote it. `strays` counts the sends whose success the row could not know (an answer lost, a process that died, a write that failed). The write of the row, its line of history and the end of the job are one action: a process that dies between them (`send-delivery.ts:43-63`), and a `markSent` that landed although its caller saw an error (`send-delivery.ts:190-201`), are not modelled.

**ApiKeyAuth** (`extension.go`, `cache.go`). `until` and `recent` are the map and the list of each LRU cache; `flight` is the shared call of a key in `singleflight` and `caller` the place of a request in `lookup`. One action is one critical section of the cache's mutex, one call of `singleflight`, or the endpoint's answer. The endpoint may say yes or no at any time, as keys come and go on its side, or not be heard. The clock stops only for a call that has reached its deadline. `extension.go:248-250` makes an answer whose body breaks off a definitive no, so `Verify` includes it; that is at odds with the comment of `cache.go:153-156` (brief outages should not become 401s), which `OutageHidden` therefore states of what the code calls an outage.

**OrganizationProvisioning** (`adapter.server.ts`, `runtime.ts`, `retries.ts`, `jobs.ts`, `metadata.server.ts`, `clickhouse/provisioning.ts`). `run[r]` is a run of either job between two statements to PostgreSQL or ClickHouse; `lock` is the queue's lock, which expires whether its run died (`ExpireDead`) or is still at work (`ExpireAlive`). `slow` says that a job waits out the queue's default back-off instead of the short one `retries.ts` gives it. `draft` is the metadata an editor read. The organization's other rows are deleted in the transaction of its own row, and are its existence. A statement is carried out when its step is taken, or not at all: one that times out at the client and lands later (`clickhouse/provisioning.ts:38-60`) is not modelled. Events after readiness are left out.

**Billing** (`checkout.ts`, `subscription.ts`, `store.ts`, `identity.ts`, `module.ts`, `request-locks.ts`). One organization, which exists or is created by its first checkout. `org` joins its existence and its plan; `intent`, `row` and `linked` are its rows; `checkout`, `clock` and `events` are Polar's side. A request that finds a lock taken fails at once, so it is a step that does not happen. Only the settings take no lock: they may ask for the customer, and link it, beside a request at work (`AskForCustomer`). `work[p]` is a request under its locks, between its writes. Assumed of Polar: a checkout that succeeds starts its subscription at the same time, a subscription ends for good, every change raises its revision and is reported until the report is acknowledged.

**WorkflowEvents** (`webhook.ts`, `enqueue.ts`, `tenant-resolver.ts`, `tasks.ts`, `status-writer.ts`, `collector.ts`, `install-callback.ts`). `link` is the installation's row, `cache` the resolver's entry with the time it has left, `job[e]` the queue's job of an event and `run[w]` what a worker does. A cache miss is three steps: the time is taken with the look at the cache (`Take`), the row is read (`Resolve`), and the answer fills the cache (`Fill`); between them the link may end or change hands, the clock may move and another worker may fill the cache. `age` is the time since the time was taken, and the entry is good for a TTL less that. `Refuse` is an event the status task finds unusable and is done with. A redelivery replaces the job of its key; a run that held it goes on without a key (`keyed`). The two jobs of an event meet in the cache only, so a behaviour follows the jobs of one task. `at` are GitHub's timestamps, which have seconds: events may share one. Suspended and uninstalled are one status. The row of a job (`upsertWorkflowJob`) obeys the same guard as that of a run.

The `MC` modules give TLC values a configuration cannot write, and symmetry: of requests in `MCBilling`, of workers and organizations in `MCWorkflowEvents`. No property of a run with symmetry is a liveness property. The `_types` and `_proofs` modules hold the theorems.

## 4. Runs

All runs take two workers and end within five minutes. `CHECK_DEADLOCK FALSE` is given where the clock, the events, the deliveries or the checkouts are bounded: a model that has used them up stops, which the system does not. `organizations` checks deadlock.

| Run | Checks | Instance | Shows |
|---|---|---|---|
| `relabelled` | `TypeOK` `ChainOwned` `OneTerminal` `MutedStaysQuiet` `PacedFlush` | two instances, two events, pause and relabel, one member a claim | whatever pauses and label changes cancel under the hands of a worker and a flush, each event has exactly one outcome, and a capped group pages no faster than its interval |
| `silenced` | `OpenHasJob` `FlushBooked` `ImplementsChain` | one silence, two workers, relabel, delete, unsilence | no event and no member is left without a job through holds, releases and races, and the pipeline implements `NotificationChain` |
| `settles` | `Settles` | fair, one silence, pause, one crash, one member a claim | every event ends in an outcome |
| `evaluated` | `TypeOK` `EpisodesWellFormed` `ForHonest` | one instance, one editor: update, relabel, pause | evaluations that read before an edit and commit after it leave episodes whole, and nothing fires that was not held for `for` |
| `watched` | `NextIsNew` `Watched` | fair, two editors, all six mutations, one crash | a rule is not booked for a used instant, also by edits that write a booking they computed before the clock moved, and is evaluated again after everything people did |
| `keys` | `TypeOK` `FreshExclusive` `CachesWhole` `AcceptanceIsRecent` `OutageHidden` `WaiterHasFlight` | two keys, two callers, caches of one entry, a clock of 4 | no acceptance outlives two lifetimes and a timeout, none hides a newer rejection, outages within the grace stay invisible, and nobody waits for a call that is gone |
| `organizations` | `TypeOK` `ReadyServes` `NothingForgotten` `ReadyStays` `SetUp` `CleanedUp` | fair, two runs, two attempts, one restart | late runs take nothing from a ready organization, a deleted one is cleaned up, and setup ends in an outcome without the default back-off |
| `billing` | `TypeOK` `SoldOnce` `EntitlementPaid` `PaidEntitled` `PaidNotDeleted` | two requests, three checkouts | payments are neither doubled nor lost, and the plan follows them, in every order of redirects, reports and locks |
| `workflows` | `Owed` `NewestShown` `TenantRecent` | two events, three deliveries, two workers, two organizations, one crash | no acknowledged event is lost, no row goes back in time, and a job starts on a cached link only within the lifetime of an entry, whatever happened between the read of the link and the fill of the cache |
| `sends` | `TypeOK` `OneSuccessRow` `AttemptsCounted` `ResentOnlyBlind` `SentIsFinal` `Concludes` | three racing runs, five attempts, three faults | a delivery is sent again only when the row could not know, stays sent, and concludes |

Why the bounds are enough:

- *AlertDelivery.* A fire and its resolve, or two fires of different instances, are what every decision of `grouping.ts` compares. `ClaimCap = 1` makes every batch overflow. A group interval of 2 against a wait of 1 tells paced from unpaced flushes. `MaxTime` covers a first flush and its follow-up; in `settles` it covers the last event's whole way (hold, wait, two intervals) and the retry.
- *AlertEvaluation.* `Horizon` 3 and `MaxTime` 4 cover pending, firing and resolving with `ForSecs` 1 and `ResolveAfter` 2; a gap longer than two intervals fits. `watched` has no instances, because booking does not depend on what a query returns, and in exchange a grid of 2 with an offset, and a clock that reaches 12, so that the stale clause can act after the last edit.
- *ApiKeyAuth.* Two callers are one that shares and one that cancels or comes late; with caches of one entry two keys evict each other. Lifetimes of 1 and a timeout of 1 fit a grace and what follows it into a clock of 4.
- *OrganizationProvisioning.* Of two runs one has lost its lock; `MaxAttempts = 2` has a first, a retried and an exhausted job, of the code's 1000.
- *Billing.* The two locks leave room for two requests at most beside each other; three checkouts are one that is paid, one that expired, and the one that should not be sold.
- *WorkflowEvents.* Two events are what the guard of the upsert compares; three deliveries are one redelivery; of two workers one reads the link while the other fills or uses the cache; `TTL = 1` is the shortest in which a read can outlast an entry; `MaxAttempts = 2` of the code's 10.
- *DeliverySend.* Three runs are one that holds the job and two that lost it; `MaxAttempts` is the code's own 5; three faults are one for each run.

What each property is not checked for:

- `ImplementsChain` is checked without crashes. A flush that deferred an event, threw and runs again may match the stamp a cancel wrote meanwhile (`suppression.ts:110`) and reopen the event. The theorem `ChainImplemented` excludes that crash only.
- `ChainOwned` is checked without silences; with them it fails, which is the finding `chain_lost`.
- `OneTerminal` is checked without `delete`: a flush writes its terminals (`flush-group.ts:364-379`) even when its group was deleted under it, next to those of the deletion.
- `EpisodesWellFormed` is checked without `resume` (see the observations below) and without `delete`: `repository.ts:345-353` reads the open episodes without a lock on the rule, so one opened before the cascade gets no terminal. The theorem `EpisodesTold` covers both mutations and excludes these two steps.
- `NextIsNew` fails when the evaluation of an instant commits between an edit's computing it and the edit's write (see the observations). The run therefore lets the clock move past an edit under way, but not to the instant it has computed. The theorem `BookedAnew` assumes nothing of the clock and excludes that one write.
- `Concludes` allows a delivery whose job has spent its attempts on runs that could not write their failure: such a row stays in flight and keeps its channel from being deleted (`delivery/repository.ts:214`).
- `NothingForgotten` and `CleanedUp` except a run that ended badly after it had lost its lock (`abandoned`): its job may have been finished by another, and nothing is left to return to what it created.
- `SoldOnce` and `PaidEntitled` except a finalization that broke off between its writes (`midway`), which is the finding `sold_twice`; after it, only Polar's next report restores the plan.
- `EntitlementPaid` excepts an organization whose intent is still open: a report that its subscription ended is acknowledged and dropped meanwhile (`subscription.ts:212`).
- `NewestShown` compares timestamps: of two events of one second the one handled last is shown, so a completed run may be shown as running again.
- `TenantRecent` is about the start of a job; an upsert that was resolved in time may still be written after the organization was deleted.

### Findings

Two runs are expected to end in a violation: the code does what the trace shows, and a comment beside it says otherwise. `PROJECT.json` "findings" quotes the lines.

| Run | What happens |
|---|---|
| `chain_lost` | a flush defers a member; the silence ends and the event is dispatched again before the flush deletes the membership, which then takes the new one: no delivery and no terminal remain |
| `sold_twice` | the finalization of a paid checkout creates the organization and fails before it stores the subscription; an upgrade of that organization sees neither an active row nor the checkout, whose purpose it filters out, and sells a second subscription |

### Observations

What reading and modelling showed beside the runs:

- A fire is dropped as no longer firing, and its resolve, alone in its batch, is announced (`process-event.ts:48`, `grouping.ts:67-93`).
- A silence is cancelled between the read of its end and the hold: the event waits for the original end (`suppression.ts:117`).
- An update computes its next instant, the evaluation of that instant commits, and the update books it again: every later job for it is refused (`rules/repository.ts:249`, `rule.ts:517`). `NextIsNew` under `Spec` instead of `FairSpec` shows it.
- A pause and a resume leave the version unchanged, so an evaluation from before the pause stores what it read: firing, without a fired event. `EpisodesWellFormed` with `resume` among the mutations shows it.
- Adopting a rule raises its version and queues nothing: the queued job is skipped and the scanner waits for the stale clause (`rules/repository.ts:331`).
- Events that arrive before the installation is linked are dropped for good (`tasks.ts:72-81`), and a suspend that arrives before the link is lost.
- The install callback may write a link for an organization deleted since its membership check (`install-callback.ts:51-99`): the installation then counts as linked to nobody's organization.
- An organization deleted within the lifetime of a cache entry may get new rows of `workflow_runs` that nothing removes (`tenant-resolver.ts:12`).
- A failed enqueue of one job is swallowed by the backfill, which then enqueues the run; later backfills skip it (`backfill.ts:446`, `471`).
- A fire that finds no channel gets its terminal and stays a member; silenced later, it is deferred and gets a second one (`flush-group.ts:258`). `OneTerminal` with silences shows it.
- When a newcomer flaps inside a batch, the flush announces again the members that still fire (`grouping.ts:84-92`).

## 5. Fairness

- `AlertDelivery` and `AlertEvaluation`: weak fairness of each worker, each group's flush, the evaluation, the scanner, each request in progress and the projections. The pool polls and listens without end, its cron starts the scanner every minute, and a failed job is retried, so enabled work is eventually done. `PromptTick` lets the clock move only when due work is done; an edit that has computed a booking may take longer, as long as its instant has not come. A unit of the clock stands for a group wait or a scanner period, tens of seconds, and without it a bounded clock could run out before anything was sent. The safety runs use the plain `Tick`, where handlers may be as slow as they like.
- `OrganizationProvisioning`: weak fairness of the scanner, of the cap on retries, of taking each job, of each run's next step or failure, and of the expiry of a dead run's lock. The worker polls every second, the scan is a cron job each minute that begins with the cap, and a statement either returns or fails. The default back-off (`Elapse`) and the expiry of a live run's lock have none: `SetUp` and `CleanedUp` must not rely on them.
- `ApiKeyAuth`, `Billing` and `WorkflowEvents` state safety and no fairness.
- `DeliverySend`: weak fairness of reclaiming an expired lock and of some run's next step. Faults, people and the channel's answers are never fair.
- Nothing is assumed of people, queries, evaluations' results or crashes.

## 6. Proofs

TLAPS proves these for every value of the constants that satisfies the named assumptions: `GroupAssumption`, `DeliveryAssumption`, `NoneAssumption`, `InstanceAssumption`, `EvaluationAssumption`, `SendAssumption`, `AuthAssumption`, `ProvisioningAssumption`, `BillingAssumption` and `EventsAssumption`. They say that the constants have their types, the interval is positive, the idle sentinel lies beyond the clock, and a marker like `"nobody"` is not a member of the set it stands beside. TLC evaluates them in the passing runs.

| Theorem | Statement | Argument |
|---|---|---|
| `AlertDelivery_types!TypeCorrect` | `Spec => []TypeOK` | one lemma for each action; a handler at work always has an event, or a claim, in hand |
| `AlertDelivery_proofs!NoMemberStranded` | `Spec => []FlushBooked` | inductive with `TypeOK`. A dispatch books no later than the job it queues. A commit books anew while an unflushed member remains. An early job turns back only when the booking is later, and leaves a job for it |
| `AlertDelivery_proofs!NoEventForgotten` | `Spec => []OpenHasJob` | inductive with `TypeOK`. Whoever reopens an event queues its job in the same transaction, and a handler that dies puts its job back. Holds for any number of crashes the attempts allow, beyond what the runs cover |
| `AlertDelivery_proofs!PagesArePaced` | `Spec => [][...]`, `PacedFlush` | from the invariant `Pacing`. A booking of a group that flushed before is at least an interval later (`Spaced`), and a flush in progress has reached its booking (`Reached`), so the next commit's clock is too |
| `AlertDelivery_proofs!ChainImplemented` | `Spec /\ [][~DiesDeferring]_vars => ImplementsChain` | each action maps to a step of `NotificationChain` or a stutter, from the invariants `Sole` and `OfJournal`: an event in hand of a flush or a worker has been journaled, at most one group or handler holds a dispatched event (`SoleHolder`), and an event that a flush has deferred and not yet forgotten is held by nobody else (`Apart`). `DiesDeferring` is a flush that dies between its two writes; every other crash is covered, which the run leaves out |
| `AlertDelivery_proofs!MutedNeverNotifies` | `Spec => []MutedStaysQuiet` | `Quiet`: neither the kept members nor the announcements of a flush include a muted copy, from the claim to the delivery |
| `AlertDelivery_proofs!NoChainDropped` | `Silences = {} => (Spec => []ChainOwned)` | `Tally`: without silences nothing is held or deferred (`Unsilenced`), so a claim has one holder (`Sole`); what a flush has dropped, told or not yet told is kept apart (`DropsOf`, `Told`), and `Ledger` accounts for each terminal. Crashes and deletes are covered, which the run leaves out. With silences the statement is false (`chain_lost`) |
| `AlertDelivery_proofs!OneOutcomeEach` | `Silences = {} /\ "delete" \notin Mutations => (Spec => []OneTerminal)` | `Tally` with `Once`: an event with a terminal is claimed by no one who could write another. Both hypotheses are needed: see the observations |
| `AlertDelivery_proofs!AnnouncedOnce` | `Active(...) \subseteq Notify(...)`, one event of each instance | the definitions; the comment of `flush-group.ts:324` relies on the first half |
| `AlertEvaluation_proofs!EvaluationTypeCorrect` | `Spec => []TypeOK` | one lemma for each action |
| `AlertEvaluation_proofs!BookedAnew` | `Spec /\ [][~StaleBooking]_vars => []NextIsNew` | from the invariant `Ahead`: what was evaluated is not later than now, and the evaluation in progress was due by now, so whatever a commit or a failure books (`GridIsLater`: the next point of the grid is later than the clock it is computed from) is new. No fairness and no promptness: the clock may move at any time, also while an edit holds a booking. `StaleBooking` is the write of a booking whose instant was evaluated since it was computed. `NextIsNew` alone is not inductive: it says nothing of what is being evaluated |
| `AlertEvaluation_proofs!EpisodesTold` | `Spec /\ [][~StaleResume /\ ~StaleDelete]_vars => []EpisodesWellFormed` | from `ReadKept` (an evaluation whose version is still current, of an active rule, has read what is stored) and `Named` (an episode carries the place of its first event, so the next one is new). Each event of `Advance` follows what was told of its episode (`Transitions`, `WholeAppended`). `EpisodesWellFormed` alone is not inductive: it says nothing of what a running evaluation holds, nor that a new name is unused |
| `AlertEvaluation_proofs!FiresHeld` | `Spec /\ [][~StaleResume]_vars => ForHonest` | `Sightings`: a row that is not inactive and was not missed last stands for an unbroken run that began at `since` and ended at `seen`; with `ReadKept` |
| `AlertEvaluation_proofs!EditedSafely` | without `resume` and `delete`: `Spec => []EpisodesWellFormed /\ ForHonest` | the two steps excluded above exist only for those mutations (`Allowed`); this is the instance the run checks |
| `DeliverySend_proofs!SendTypeCorrect` | `Spec => []TypeOK` | one step for each action |
| `DeliverySend_proofs!OneSuccess` | `Spec => []OneSuccessRow` | strengthened with: a run about to record holds the stamp of the sent row |
| `DeliverySend_proofs!SentStays` | `Spec => SentIsFinal` | the guard of each write of the row, with `TypeOK` |
| `DeliverySend_proofs!EveryFailureCounts` | `Spec => []AttemptsCounted` | `Counted`: failure lines and runs at work never exceed the job's tries, so the maximum a terminal verdict writes covers them |
| `DeliverySend_proofs!ResentBlindly` | `Spec => []ResentOnlyBlind` | `Answered`: what was received plus the runs that may still send is within the strays, and one more once the row is sent or about to be |
| `ApiKeyAuth_proofs!AuthTypeCorrect` | `Spec => []TypeOK` | one step for each action |
| `ApiKeyAuth_proofs!VerdictsExclusive` | `Spec => []FreshExclusive` | strengthened with `FlightMissed`: while a key is being verified it has no fresh entry, which the second look establishes and only its own `Store` ends |
| `ApiKeyAuth_proofs!AcceptancesAreRecent` | `Spec => []AcceptanceIsRecent` | strengthened with what an entry (`EntryIsBacked`), a call in progress (`FlightMissed`, `AnswerIsLate`) and a verdict about to be handed out (`LandingIsRecent`) owe to an answer: an entry expires at most a timeout and a lifetime after the yes it goes back to |
| `ApiKeyAuth_proofs!OutagesHidden` | `Spec => []OutageHidden` | the entry of a key changes only by its own call, or by an eviction, which removes it |
| `ApiKeyAuth_proofs!WaitersServed` | `Spec => []WaiterHasFlight` | a call ends only by handing its answer to all who wait |
| `ApiKeyAuth_proofs!CachesStayWhole` | `Spec => []CachesWhole` | `Lists`, with what `RemoveAt`, `Front` and a move to the front do to a list without repetitions (`RemovedAt`, `Fronts`, `Fronted`): a move permutes, a put adds one after the full list has lost its last |
| `OrganizationProvisioning_proofs!ProvisioningTypeCorrect` | `Spec => []TypeOK` | one step for each action |
| `OrganizationProvisioning_proofs!ReadyAlwaysServes` | `Spec => []ReadyServes` | one inductive invariant for this and the next two: a run past a statement finds what the statement made (`Built`), drops are under way only when the organization is gone (`Grounded`), and nothing is built before it exists |
| `OrganizationProvisioning_proofs!NothingIsForgotten` | `Spec => []NothingForgotten` | from `BuilderFirst`, `PoliciesOwed` and `AccountOwed`: whatever exists in ClickHouse of a deleted organization has a job, a run, or an abandoned run to answer for it |
| `OrganizationProvisioning_proofs!ReadinessStays` | `Spec => ReadyStays` | the guard of each write of the flag |
| `Billing_proofs!BillingTypeCorrect` | `Spec => []TypeOK` | one step for each action |
| `Billing_proofs!OnceSold` | `Spec => []SoldOnce` | one inductive invariant for this and the next three. `Locked` says which lock each stage holds, so that two requests never finalize or sell at once. `Truthful`: whatever row, copy or report the organization has was so at Polar, and is so unless the subscription has ended since. `Once`: one checkout at most can still be paid for, or is paid; one that is paid has the newest revision and is stored, or its report is to come; while the intent is open only creations are for sale, and what completes it has stored its subscription. `SoldOnce` alone is not inductive: it says nothing of the checkouts that are still open |
| `Billing_proofs!PaidForEntitlement` | `Spec => []EntitlementPaid` | from `Entitled`: the row, and every copy on its way to it, is of an active subscription or has the report of its end before it. A report is acknowledged only when it was stored, or when an older one cannot follow it |
| `Billing_proofs!EntitledOncePaid` | `Spec => []PaidEntitled` | from `Once`, and from `PlanFollows`: a downgrade takes the plan only from a row that is not active, under the lock that every save holds |
| `Billing_proofs!NeverDeletedPaid` | `Spec => []PaidNotDeleted` | from `Origin` and `Unsold`: an organization on the free plan that was never linked to a customer has no checkout and no intent, and only such a one is deleted |
| `WorkflowEvents_proofs!EventsTypeCorrect` | `Spec => []TypeOK` | one lemma for each action |
| `WorkflowEvents_proofs!WebhooksOwed` | `Spec => []Owed` | inductive with `TypeOK` and `RunsWell`: what a run works on is an event, and whom it acts for an organization, so that a run that ends has its job answered or put back |
| `WorkflowEvents_proofs!NewestWins` | `Spec => []NewestShown` | the timestamps never change, and the upsert compares with the row it writes |
| `WorkflowEvents_proofs!TenantsRecent` | `Spec => TenantRecent` | from `EntryRecent`: the time since a link was last active, plus the time its entry has left, is at most the lifetime; and the link a worker has read and not yet cached ended no longer ago than the worker took the time. The read of an active link establishes the second, the fill turns it into the first, and the clock keeps both. It is the second that an expiry counted from the answer would break |

Four theorems exclude steps instead of constants. `DiesDeferring`, `StaleBooking`, `StaleResume` and `StaleDelete` are the steps that break the statement, no more: each has a trace in the runs' model once its mutation, a crash or a late request is allowed, and everything else the system does is covered. `EpisodesTold` thereby says what a lock on the rule's row in `resumeRule` and `deleteRule`, or a version they raised, would buy.

Only model-checked: the liveness properties (`Settles`, `Watched`, `Concludes`, `SetUp`, `CleanedUp`), since fairness and ENABLED are out of the prover's reach. No module uses a RECURSIVE operator, and no definition a proof needs filters a list with `SelectSeq`: what a filter keeps is a fact by induction on the list, and the library's induction theorems take operators, which the installed provers cannot instantiate. `EpisodesWellFormed`, `ForHonest` and the cache's list are therefore stated over positions.

## 7. Running it

```
tlc -workers 2 -config AlertDelivery_relabelled.cfg MCAlertDelivery.tla
tlc -workers 2 -config AlertEvaluation_watched.cfg AlertEvaluation.tla
tlc -workers 2 -config WorkflowEvents_workflows.cfg MCWorkflowEvents.tla
tlapm AlertDelivery_proofs.tla
```

A definition whose name continues that of another (`OwnsBlindly` beside `Owns`, `NextGridInclusive` beside `NextGrid`) is that definition with a plausible bug. `PROJECT.json` "mutants" pairs each with the property that catches it.
