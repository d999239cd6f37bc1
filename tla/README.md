# BuildLens in TLA+

BuildLens collects GitHub Actions runs through a GitHub App, keeps them as facts
in Postgres, announces completed runs and deployments on RabbitMQ, and lets two
consumers turn them into metrics (Java) and paid AI reports (Python). Nearly all
of its correctness lies between components: a webhook that comes late, a replica
that dies between two statements, an event that is delivered twice, a paid call
whose cost is not written down. The modules here model that part of the system;
TLC checks them on small instances, and TLAPS proves their invariants and action
properties for every value of the constants.

## The system

| component | state | operations | talks to |
| --- | --- | --- | --- |
| webhook inbox (`gateway/src/webhooks.rs`) | `webhook_deliveries`: status, attempts, signature | receive, claim, apply, mark, fail, recover at start | GitHub; ingestion |
| workflow ingestion (`workflow_ingest.rs`) | `workflow_runs`, `workflow_jobs`, `deployments` | ingest run, ingest job, infer deployment | called by inbox and backfill; writes the outbox |
| repository backfill (`repository_sync.rs`) | `repository_sync_state`: cursor, etag, status | sync five resources page by page | GitHub; ingestion |
| log and test capture (`webhooks.rs`, `junit.rs`, `logs.rs`) | `build_logs`, `test_results` | task spawned after the commit | GitHub, MinIO |
| event outbox and relay (`events.rs`, `relay.rs`) | `event_outbox`: status, attempts, available_at | enqueue, claim batch, publish, mark, park | RabbitMQ |
| AI worker (`ai-worker/src/buildlens_ai`) | `ai_event_receipts`, `ai_reports`, advisory locks | claim event, retrigger, schedule, recover, admit, generate, settle | RabbitMQ, the model provider |
| analytics (`analytics/`) | metric tables | listen, recompute, scheduled recompute | RabbitMQ |
| source-control ingestion (`webhooks.rs`) | `branches`, `commits`, `pull_requests` | apply push, pull request, review | called by the inbox; writes the backfill's rows |
| installations and token cache (`installations.rs`, `github_app.rs`) | `github_installations`, Redis | upsert, link, suspend, remove, mint, invalidate | GitHub |
| discovery and tracking (`routes/repositories.rs`, `routes/auth.rs`) | `organizations.github_installation_id`, `repositories` | setup, discover, enable, disable | GitHub; starts the backfill |
| organizations and membership (`routes/organizations.rs`, `auth.rs`) | `organizations`, `organization_members` | create, add, remove, require role | every other handler |
| sign-in, sessions, tokens (`routes/auth.rs`, `sessions.rs`, `routes/api_tokens.rs`) | Redis sessions and OAuth state, `users`, `api_tokens` | login, callback, logout, create, revoke | GitHub |
| dashboard, profile, health, frontend | none | reads | all tables |

What is hard, by component:

- **Inbox.** Replicas share a queue in a table; a starting replica takes over
  whatever is in processing, although a live replica may be at work on it; failures
  are counted in the same column as interruptions; installation events are not
  applied in one transaction. Correct means: a delivery is applied by a valid claim
  only, a bounded number of times, never marked without its effect, and never
  forgotten.
- **Ingestion.** Deliveries are unordered and repeated, the backfill writes the same
  rows, and the previous status is read without a lock. Correct means: a completed
  run is announced, nothing else is, and its deployment is recorded once.
- **Outbox.** Broker and database have no common transaction. Correct means
  at-least-once: an event is settled as published only if the queues that were
  promised it hold it, and only failures cause duplicates.
- **AI worker.** Work starts from four places and can be paid for; a receipt makes
  a redelivered message a no-op, so a crash must leave something recovery can find.
  Correct means: serial spending under the cap, a report behind every receipt, and
  no report left in limbo.
- **Backfill.** The pages of a list move while they are walked, a walk is resumed from
  a stored cursor or cut short by a 304, webhooks write the same rows, and nothing keeps
  two syncs of a repository apart. Correct means: what a success vouches for is stored,
  `sync_status` tells what is going on, and a first review is never lost.
- **Installations.** A token's reach is settled when it is minted; reading, minting,
  storing and dropping it are separate commands, a removal stops repositories and
  unlinks workspaces in two statements, and a request of several calls runs
  across uninstalls, changes of the selection and other workspaces' requests. Correct
  means: dropped tokens do not come back, what the App cannot reach is not tracked, and
  a repository stays with its workspace.
- **People.** Two callbacks sign in the same new person, addresses change owner, two
  owners demote each other, tokens are made and used while memberships end. Correct
  means: one user, account and workspace per person, an owner in every team, and no
  access on a right that has ended.
- **Analytics.** Recomputation against new facts, and the metric algorithms; planned.

`PROJECT.json` lists the hazards line by line with the properties that cover them.

## Modules

| module | models | proofs |
| --- | --- | --- |
| `EventDelivery` | what the outbox promises, without mechanism | |
| `OutboxRelay` | `events.rs`, `relay.rs`, the topic exchange | `OutboxRelayProofs` |
| `RunIngest` | `workflow_ingest.rs` as called by `webhooks.rs` and `repository_sync.rs`, and the spawned captures | `RunIngestProofs` |
| `WebhookQueue` | the inbox of `webhooks.rs` | `WebhookQueueProofs` |
| `RepositorySync`, `MCRepositorySync` | `repository_sync.rs`, the pages of `github_api.rs`, and the push, pull request and review webhooks | `RepositorySyncProofs` |
| `Installations`, `MCInstallations` | `installations.rs`, `github_app.rs`, the tokens of `github_api.rs`, setup, discovery and tracking, the installation webhooks | `InstallationsProofs` |
| `Directory` | the tables and sessions the next two share | |
| `SignIn` | `routes/auth.rs`, `sessions.rs`, `github.rs` | `SignInProofs` |
| `Membership` | `routes/organizations.rs`, `routes/api_tokens.rs`, `auth.rs` | `AccountsProofs` |
| `Accounts`, `MCAccounts` | the composition of `SignIn` and `Membership` over `Directory` | `AccountsProofs`, `SignInProofs` |
| `AiReports`, `MCAiReports` | the AI worker; the latter fixes which event asks for which report | `AiReportsProofs` |

The map in `PROJECT.json` gives the lines of every definition. In all modules a
step is what one database transaction or one await-free stretch of code makes
visible. An open transaction is state of its owner until it commits.

**OutboxRelay.** A row is `absent`, `uncommitted` (its id exists, its transaction is
open), `rolledback`, or has one of the three statuses of the table. `Claim` is the
`SELECT ... FOR UPDATE SKIP LOCKED`: the rows go to `claimed[r]` and stay locked until
`CommitBatch` or a failure. `PublishAck` and `PublishNack` are a publish with its
confirm and the mark made in the open transaction; the marks become visible in
`CommitBatch`. `LoseConnection`, `DbError` and `Crash` are the three ways out of
`drain_batch` without a commit. `copies[e][q]` counts what a queue accepted, which no
failure undoes. `subscribed[e]` and `faults` are history variables.

**RunIngest.** A run is one `(github_run_id, run_attempt)` key. A writer (processor or
backfill) loads a snapshot, reads the previous status without a lock, and upserts and
commits in a third step; between the last two anything may happen, except that a
webhook with a workflow object holds the workflow's row (`WorkflowRowFree`).
`CommitRun` is the upsert with all that follows in the transaction, `emit_run_completed`,
`infer_deployment`, the delivery's mark, and the spawning of a capture. `Restart` is
`run_processor`'s recovery. Runs of one page share a transaction in the code and are
ingested one by one here.

**WebhookQueue.** The life of a delivery. Ordinary deliveries go through a context read
(`FetchContext`, which may be stale when the transaction commits) and one transaction
(`Commit`, which ends as processed or ignored); installation deliveries apply first and
are marked in a second statement. `ticket[p]` is the attempt a claim was, `effects[d]`
the set of attempts that had an effect: both are history. `stranded` records the
deliveries whose failure, or whose recovery, could not be written.

**AiReports.** A task is an asyncio task: a consumer, the scheduler loop, or one spawned
by `/reports/retrigger`. `ClaimEvent`, `Retrigger`, `ClaimScheduled` and `Recover` are the
four ways to a claim; `MarkProcessing` to `Settle` is `ReportProcessor.process`. One
generation costs one unit and is what `projected_cost` reserves, so the model is exact
about which generations are admitted and recorded and silent about prices. `billed` is
the provider's account, `recorded` is what the database knows.

**RepositorySync.** GitHub's lists are sequences of items with versions; `Push`,
`DeleteBranch`, `UpdatePull` and `Appear` change them and send webhooks, which may be
applied late, again or never. A task holds a resource (`at`), a page to fetch and the
page it holds. `BeginResource` to `FinishResource` are the functions of the same names;
a page is fetched, for pull requests prepared by further calls (`PreparePulls`), and
stored with its `Checkpoint` in one transaction. An etag is the content of the first
page. `chain` and `walk` remember which items a walk, and the walk its cursor resumes,
set out to store; `promised` is what a finished resource vouches for.

What the properties leave out is what the code does not keep, and each exception is a
history variable of its own: `movedUp` (an item that a removal or an update moves to an
earlier place slips past a walk), `overlapped` (two tasks at one resource share cursor
and status, and the first to finish wipes both), `stranded` (after a crash, or an error
that could not be written, the status stays at syncing until tracking is enabled again).
A 304 vouches only for lists that put what is new first. A page prepared earlier
overwrites the newer row of a webhook, and revives a branch deleted meanwhile; only
`first_review_at` is protected, by `LEAST`. Disabling tracking does not stop a sync.

**Installations.** A request is a record with a program counter whose steps are the
awaits of `github_setup`, `discover`, `enable_tracking` and `store_run_logs`; webhooks
come between, in any order and repeatedly. `epoch` counts changes of an installation's
selection and `granted` is the selection, so a token carries what it can reach and since
when. An installation selects among the repositories of the account it is on
(`Installer`), so two installations never grant the same one. Late tokens are the exception to
`FreshTokenIsFresh` and `CacheIsCurrent`: one minted before the cache was emptied and
stored after it is served until it expires.
`installations::remove` is two statements at READ COMMITTED, so two actions, with the open
transaction in `removal`. `ApplyDeleted` is the UPDATE: its subquery reads the links
without a lock, and the rows it found stay locked (`Locked`) while nobody sees their new
value. `CommitRemoval` is the DELETE, whose `ON DELETE SET NULL` unlinks whoever is
linked by then, with the commit; the two can be one step because the DELETE waits for
a transaction that has just linked and still holds the row, and a later link fails by the
foreign key (`Fail`). `HookFails` may roll the transaction back.
`link_to_personal_organization` is one action: a link committed between its two statements
makes it fail by the unique column. `moved` are workspaces whose installation another one
took (`link_to_personal_organization` stops nothing there) or that were linked between the
two statements of a removal; `excused` are repositories that were tracked by a request
which ran across a removal, also between its two statements, or used a late token. These
exceptions to `TrackedIsServed` and `RemovedIsUntracked` are races the code has: the
properties say that there are no others. TLC reaches all of them on the instance of the
run, so the exceptions are needed.
`suspended_at` is written and never read. Only personal
workspaces are linked, so a request is named by its workspace; the role check is
`Membership`'s, and a caller who discovers for a team, which heals the caller's own
workspace, is left out.

**SignIn, Membership, Accounts.** `Decide` and `PersistIdentity` are the two halves of
`persist_identity`, which holds the advisory lock of the identity and the row lock of a
user in between. Nothing creates a user without an account, so the branch that adopts a
user by address is never taken; it is modelled all the same. In `Membership` a change of
roles checks and writes under the organization's lock; everything else reads what is
committed. `add_member` checks the role it gives and not the one it replaces, so an admin
can make a viewer of an owner or another admin as long as an owner remains;
`RolesAreGiven` states the rule the code has. A token may be inserted after its user was
removed, but every use looks at the membership again.

## Runs

| run | instance | shows |
| --- | --- | --- |
| `outbox_relay` | 2 relays, 2 events, 2 queues, batch 2, 2 attempts, 1 fault | `RelayInv`, no duplicates without a cause, refinement of `EventDelivery`, every committed event settled |
| `run_ingest` | 1 run, 2 processors, 1 backfill with 2 fetches, 2 aborts or restarts | completed rows are announced, announcements are true, one deployment, a completion reaches the outbox |
| `webhook_queue` | an ordinary and an installation delivery, 2 replicas, 2 attempts, 3 faults | stolen deliveries have different attempt numbers, one effect per claim, processed means applied, every delivery settled |
| `ai_reports` | 1 event, a run report and a daily report, consumer or retrigger and scheduler, cap 1, 2 months, 1 fault | serial spending, the accounted cap, a report behind every receipt, every claim settled |
| `repository_sync` | two populated resources of 2 items, pages of 1; 2 syncs at once with a change or a fault, 3 in a row with both, 2 in a row with two changes or two faults | success is complete, status is honest, first reviews are real and only become earlier, no status is left behind |
| `installations` | 1 installation, 2 workspaces, 1 repository, 2 requests at once; 1 change and 3 requests, or 2 and 2 | tokens are fresh unless late, tracked repositories are served, removed ones untracked, a repository stays |
| `accounts` | 2 people, 3 users, 3 addresses, 1 team, 2 callbacks, 2 requests, 1 token; from nothing or from people who have signed up | a session is its user's, a user is whole, a team has an owner, roles are given by the entitled, access is current |
| `outbox_order` | 1 relay, no faults | **violated**: publish order is not preserved |
| `ingest_once` | 2 processors, 1 restart, no backfill | **violated**: a replayed completion is announced again |
| `ingest_jobs` | 1 processor, 1 backfill fetch, no faults, fair | **violated**: a job that came before its run is never stored |
| `ai_hard_cap` | 1 fault | **violated**: more is paid in a month than the cap |
| `ai_paid_once` | no faults, no retries | **violated**: one report is paid for twice |

The five violated properties state what the repository's documents or comments say;
the findings in `PROJECT.json` quote them and tell the story of the trace. Next to
each stands the property that does hold: at-least-once delivery and the refinement
for the order, `CompletedIsAnnounced` and `DeployedOnce` for the replay,
`BudgetAccounted` for the cap.

### Bounds

Two replicas are enough for every race here, since all of them are between the
holder of something and one rival; with two events or deliveries one can overtake
the other. Two attempts make both "try again" and "give up" happen (the code has 8
for the relay and 5 for the inbox). Faults are counted so that liveness is not lost
to endless failure: one for the relay, which with nacks makes duplicates of duplicates
(two queues let a nack leave a copy in one of them; more faults are left to the
proof), three for the inbox (an error, the failure to record it, and a restart), one for the AI worker,
where `BudgetAccounted` and `SpendingIsSerial` count the faults themselves. In
`run_ingest` a single run suffices because no action reads two runs; `MaxFetches = 2`
lets one backfill bring an old and a new snapshot. Two months let a row be requested
in one and paid for in the next. The three larger modules bound a behaviour by a scope, chosen in `Init` from the
constant `Scopes`: one run then covers, say, two syncs with one fault and three syncs in
a row with a change and a fault, without their product. With two items on pages of one,
every walk has a first page, a next one, and a cursor to resume from; three items let
one appear. Two requests of two workspaces suffice for the races over one cache key, one
link and one repository, since each is between two holders; `accounts` needs three users
for an account that a wrong decision would make twice, and two changes of address for one
to change hands. Browsers, requests, workspaces and slots are symmetric: no action tells
them apart, and no liveness is checked with symmetry. `CHECK_DEADLOCK FALSE` is set because every
instance stops when its bounded inputs are used up.

### Fairness

Weak fairness only, on the steps a running service takes by itself: the relay and
the webhook processor poll every second, `run` reconnects for ever, an open
transaction or a call to the provider ends, the scheduler's recovery pass repeats,
backoff and the recovery threshold elapse, and a replica that is down is started
again (the compose and Railway deployments restart it). No fairness is assumed of
GitHub, users, consumers that bind, captures, or any fault. In `RunIngest` none is assumed
of a backfill's fetches; once it has a run at hand, its read and its commit are fair like a
processor's, since an open transaction ends. In `RepositorySync` a spawned task goes on
until it returns (`SyncStep`): every
call it makes is answered or fails, the HTTP client having a timeout (`state.rs`);
`SyncsSettle` asks for nothing after a crash. In
`AiReports` no fairness is assumed of consuming a message either: `ReportsSettle` is
about claimed reports.

## Proofs

Each proof module EXTENDS its component and TLAPS, and proves an inductive invariant
action by action; the theorems `Spec => []P` follow by PTL.

- **OutboxRelayProofs** (from `RelayConstants`): `RelayInv` together with `TypeOK` is
  inductive. Delivery alone is not: that a marked row is in every subscribed queue
  needs that subscribers stay bound; that a batch's commit does not undo another's
  needs that claims are exclusive and hold pending rows only; the bound on copies needs
  the copies of batches still open. `RelayImplementsDelivery` shows that every step is
  an `Owe`, a `Send`, a `Settle` or a stutter of `EventDelivery`.
- **RunIngestProofs** (from `IngestConstants`): `TypeOK` and `IngestInv` are inductive
  together. `CompletedIsAnnounced` also speaks of what a writer has read, which is the
  point: a stale "completed" suppresses an announcement only if there was one.
  `AnnouncedIsTrue` includes the deliveries and snapshots on their way.
- **WebhookQueueProofs** (from `QueueConstants`): `QueueInv` with `TypeOK`. The argument
  is the ticket: attempts only grow, so a new claim's number is above every number given
  before, two holders of a stolen delivery differ, and no number is spent twice.
- **AccountsProofs** (no assumption on the constants): `TeamInv`. That a team keeps an
  owner is not inductive alone: between the count and the write other requests run. The
  invariant adds that at most one request is between the lock of a team and its write,
  and that what it was cleared for (the actor's role, the owner besides the one who
  loses the role) holds until it writes. `TeamsKeepAnOwner` is the invariant's last
  conjunct; `RolesGivenByTheEntitled` is the action property, from the clearance.
  `AccessStaysCurrent` adds to each request what its checks so far have found: a member
  at some time since it came, and a token that was valid and of this team.
- **SignInProofs** (from `DirectoryConstants` and `AccountConstants`): `SignInInv`. A
  user is either vacant or settled (one account, one workspace), and what a callback
  decided under the lock of the identity is still so when it writes, because at most one
  callback is between the two for one identity and accounts never move. `AccountTypes`
  needs `TeamInv` as well. The only assumption beyond types is that the people who may
  have signed up before have distinct users and addresses, as the unique columns demand.
- **AiReportsProofs** (from `AiConstants`): `ClaimInv`, then `BudgetInv`. A receipt has
  its report because whatever points to a row (a message held, a claim, a recovered
  batch, a source) keeps it in existence. The budget needs an account of every
  generation: paid is at most recorded, still to be recorded, or slipped, and a lost
  lock is a slip that its task has not used up; so at admission under the lock
  everything that can still be charged is already counted.
- **InstallationsProofs** (from `InstallationConstants`): four invariants, each resting on
  the one before. `Shape` says what a request has at hand where it stands; `TokenInv`
  compares the epochs of tokens with the epoch at which the cache was last emptied;
  `ServedInv` follows a request from reading its link to its commit, and for an open removal
  says that what is tracked in a workspace its first statement found is either stopped by
  it or `excused`, which is what its commit relies on; `RemovedInv` says
  what tokens minted since a removal can reach. `RemovedAreUntracked` uses that one
  installation owns a repository: otherwise a second one could serve it.
- **RepositorySyncProofs** (from `SyncConstants`): `BaseInv`, `StatusInv` and `WalkInv`.
  `BaseInv` has the shape of GitHub's lists (an item once, only items that exist) and that
  etags and held rows are of versions and reviews that were there. Each step moves an
  item to a later place unless it is in `movedUp`, and never makes the first page of a
  list with the newest first what it was before (`Moves`). `WalkInv` is the heart of
  `SuccessesAreComplete`: every item a walk set out for is stored, on the held page, or at
  a place the next page has not passed; the same of the cursor that a later walk resumes
  from; and if the stored etag would be answered by a 304, of every item now listed. That
  one task writes the row of a resource alone comes from `StatusInv`.

The three invariants of `RepositorySync` hold on the instance of its run as well (TLC),
so the proof is about states that occur. The assumptions are those named in the modules:
the constants are naturals of the right range, a subset is a subset, the set of
deliveries is finite, and the two mentioned above. They are evaluated by TLC in the
runs.

Only model-checked: the five liveness properties `EventuallySettled`,
`CompletionReachesOutbox`, `DeliveriesSettle`, `ReportsSettle` and `SyncsSettle` (fairness
and ENABLED are out of the prover's reach). Every other property of a passing run is a
theorem.

## Not modelled

Of the GitHub client only pages, conditional requests, tokens and what they reach are
modelled; headers and JSON, context building, redaction, JUnit parsing, crypto and
configuration are data and I/O without protocol state, and their outcomes are choices in
the modules. The analytics service is planned. Dashboard, profile, health, audit and frontend only read, or append in
the caller's transaction. The schema appears through the keys and checks the code
relies on. A panic in the processor task, which ends it until the process restarts, is
a `Crash` here, and the fairness of `Start` then stands for an operator.

## Plan

1. `Pipeline`: RunIngest, the outbox and the consumer composed, for what a late
   in_progress delivery does to an event already on its way.
2. `Analytics`: listener, coordinator and scheduled recompute; percentile, granularity,
   flakiness and score algorithms against reference definitions over bounded inputs.
