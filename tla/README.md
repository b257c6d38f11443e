# Monstera Cloud in TLA+

Monstera Cloud pulls advertising and shop data of agencies into a Postgres
warehouse and reports on it. It is a Next.js application on serverless
functions: no process owns anything for long. Cron routes, request handlers and
browsers all run the same code on the same rows, each invocation may be killed
or stopped for minutes between any two statements, and every rule about who may
do what is a `WHERE` clause, a lease column, a unique key, a row lock or a Postgres
advisory lock. That is what these modules are about: the protocols on rows that
several invocations share. Paths below are relative to the root of the
repository; `lib/` stands for `src/lib/`.

## 1. The system

### 1.1 Components

| Component | State it keeps | Operations | Status |
|---|---|---|---|
| **Warehouse import queue**: `lib/warehouse-import-job.ts`, `lib/warehouse-import-worker.ts`, `app/api/cron/warehouse-jobs` | `WarehouseImportJob`: status, lease id and expiry, retry count, JSON receipts | create, claim, claim next, heartbeat, progress, complete, fail/retry, recover expired, retry partial | in part (`ImportJob`, `ImportWorker`) |
| **Checkpointed slices**: `lib/warehouse-backfill-chunks.ts` | `WarehouseBackfillChunk`: status, lease, fencing token, attempts, last error | materialize, claim, claim next, heartbeat, complete, fail, two clean-ups, mirror to the parent, aggregate | modelled (`BackfillChunks`, `SliceLedger`) |
| **Extended backfill pilot**: `lib/extended-backfill-pilot-lifecycle.ts` | the same rows, with the statuses of pause and cancel | execute, pause, resume, cancel; admission | in part (`PilotBackfill`) |
| **Sync leases and fenced ingestion**: `lib/meta-sync-lock.ts`, `connection-sync-lease.ts`, `meta-ingest.ts`, `warehouse-bulk-upsert.ts`, `sync-connection.ts`, `sync-outcome.ts` | `SyncLock` rows with a growing fence, `CampaignMetric` rows stamped with it, status and outcome of `Connection` | acquire, heartbeat, assert, release, force unlock; fetch, row and bulk upsert; record outcome; disconnect, reconnect, revoke | in part (`SyncLocks`, `MetaSync`): the Meta Ads path |
| **Scheduled report dispatch**: `lib/report-dispatch.ts`, `app/api/cron/report-schedules` | `ReportSchedule`: lease token, expiry, `lastSentAt`; `ReportScheduleDispatchAttempt`: status and token per occurrence | scan, claim, begin (create, reclaim, close an orphan), mark started, deliver, resolve, complete, release | in part (`ReportDispatch`) |
| **Payments and entitlements**: `lib/vietqr-gateway.ts`, webhooks of payOS and SePay, `app/api/cron/billing-expiry` | orders CREATING, PENDING, PAID, EXPIRED, FAILED; plan, source and end of the term of a workspace | checkout, webhook, fulfilment, expiry | in part (`PaymentOrder`, `PaidTime`) |
| **Operations alert outbox**: `lib/alerts.ts`, `app/api/cron/health-tick` | alert rows with delivery lease, attempts, next attempt, dead letter | enqueue, claim, send, mark sent, back off, purge | modelled (`AlertOutbox`) |
| **Approved report e-mail**: `app/api/reports/email`, `lib/report-approval.ts` | `ReportEmailDeliveryAttempt`: claim and outcome of a snapshot's e-mail | approve; look up, claim, send, settle | in part (`ReportEmail`) |
| **Agent console**: `lib/agent-console/` | responsibilities, policies, cases, operations with a lease, approvals, evidence | confirm, pause, check, act on a case, recover, heartbeat, verify | in part (`CaseRecovery`) |
| **Sessions, seats, OAuth attempts**: `lib/session-limits.ts`, `oauth-attempt.ts` | sessions of a user and cached answers about them; one-time consents | register, clean up, revoke, check; create, consume | in part (`UserSessions`, `OAuthAttempts`) |
| **Redis lock, token cache, circuit breaker**: `lib/distributed-lock.ts`, `token-cache.ts`, `circuit-breaker.ts` | a mutex with time to live, cached credentials | acquire, extend, release; read through | not modelled: not called |
| **Client and account assignment**: `lib/client-account-assignment.ts` | who owns which ad account | assign, move, release | not modelled |
| **Automatic backfill enqueueing**: `lib/oauth-warehouse-backfill.ts` | none of its own | find or create a job | not modelled |
| **Provider clients, connector runtime** | shadow tables | HTTP calls, adapters | external to the models: their answers are open choices |
| **Metrics, reports, exports; pages and add-on; certification, onboarding, AI analyst** | read models, forms | queries, formatting, prompts | not modelled |

### 1.2 How they interact

* A user, the OAuth callback or an operator creates an import job together with
  its slices in one transaction. The `warehouse-jobs` cron first requeues jobs
  whose lease ran out, then claims one job per worker and runs
  `runDurableImportWorker`. The worker claims slices one at a time, and for each
  calls the sync of a connection over the dates of the slice. Jobs of the pilot
  are run by a route of their own, over the same rows and claims, while an operator
  pauses, resumes and cancels them; the cron requeues them like any other.
* The sync of a connection takes the connection lease, then one lock per ad
  account, fetches rows from the provider and writes them with the fence of that
  lock. Manual syncs, the refresh cron, imports and OAuth backfills all enter
  there, so two of them meet on the locks, never on anything in memory.
* The agent console opens a case when a scheduled check finds the data of a source
  unhealthy. A member asks for its recovery, which queues an operation and an import
  job bound to it; the worker then renews two leases, that of the job and that of
  the operation, and a verification over the imported data closes both.
* The `report-schedules` cron lists enabled schedules, takes the dispatch lease
  of one, writes the attempt row of today's occurrence, and only then calls
  Slack, Telegram and the mail provider. A report that was approved is mailed by the
  request of a user instead, with a claim on its snapshot.
* payOS and SePay announce bank transfers by webhook, as often as they like; the
  expiry cron takes plans away whose term is over. Both write the workspace row.
* Whoever fails raises an alert; the reporter itself and the health cron try to
  deliver it.
* Users act on the same rows at any time: they disconnect and reconnect a
  connection, force a sync, revoke a session, start a second consent. Nothing tells
  a running invocation; it finds out at its next guarded statement, or not at all.

### 1.3 What is hard

Every behaviour that matters here needs two invocations and a bad moment:

* a **lease that runs out under its holder**, who goes on (a *stale run*): between
  a heartbeat that failed and the next statement that asks;
* **decide, then act**: a row is read, and the update that follows repeats only
  part of what was read in its `WHERE`;
* a **crash between two statements** that belong together, and the cron or the
  next sweep that has to guess what was done;
* a **provider whose answer is lost**: a retry may send, charge or import twice;
* a **caller that repeats**: the same webhook, the same login, the same callback,
  the same click, in parallel or an hour later;
* **several records of one fact**: the slices, their parent's receipts and the
  parent's verdict; the attempt row and `lastSentAt`; the rows and the recorded
  outcome; case, operation and job; the session and what an instance has cached.

`PROJECT.json` lists each of them under `hazards` at the line where it bites,
with the properties that watch it, or with the reason why none does. A few more are
noted in section 6.

### 1.4 What makes each component correct

* *Import queue and slices*: completed means that every slice is; no provider is
  called for a slice more often than it has attempts; a slice is given up only
  when they are spent; a finished slice is never redone and a finished job never
  moves; every run comes to an end.
* *Pilot*: what an operator has stopped does not reach a provider; a verdict speaks
  for every slice and is given once; whoever ends gives the job back.
* *Leases and ingestion*: the fence of a scope never repeats; a row never falls
  back to older data; success means written; a lost holder does not block for
  ever; a worker never undoes what the user did to the connection.
* *Dispatch and mail*: nobody gets a brief twice; what may be retried has reached
  nobody; a closed occurrence stays closed; an answer is not taken back.
* *Payments*: a payment that arrives any number of times is counted once; two
  payments are both counted; paid time is never taken away, and ends when it is over.
* *Alert outbox*: every alert is sent or dead-lettered; sent means that it was;
  given up means that every try was used; the latest dispatcher decides.
* *Sessions and consents*: the ceiling holds under concurrent logins, and the
  account comes back to its allowance; a revocation reaches every cache; a consent
  is used at most once and only while it is valid.
* *Case recovery*: completed means imported and verified; a case is resolved once,
  and not over a finding nobody has seen; a pause stops the workers.

## 2. The modules

```
ImportRows ── ImportJob ──────┬─ ImportWorker ── MCImportWorker
     └─────── BackfillChunks ─┤      │   └── ImportWorker_proofs
                              │      └ refines SliceLedger
                              └─ PilotBackfill ─┐  (refines PilotLedger)
PaymentOrder (refines PaidTime) ────────────────┤
AlertOutbox ─ ReportEmail ─ UserSessions ───────┼─ MCServices
OAuthAttempts ─ CaseRecovery ───────────────────┘
SyncLocks ── MetaSync ── MCMetaSync
ReportDispatch (refines BriefLedger) ── MCReportDispatch
     └── ReportDispatch_proofs

PilotBackfill_proofs   over PilotBackfill, PilotLedger  ─┐
PaymentOrder_proofs    over PaymentOrder, PaidTime       │
Services_proofs        over AlertOutbox, ReportEmail,    ├─ MCServices_proofs
                            UserSessions, OAuthAttempts  │
CaseRecovery_proofs    over CaseRecovery                ─┘
MetaSync_proofs        over SyncLocks, MetaSync
```

Conventions of all modules:

* **One action is one statement on the database, or one request to a provider**,
  together with what the code decides from its result before the next one. That
  is the granularity at which invocations interleave. A Postgres transaction whose
  first statement takes the lock that everything it touches is under, or a
  serializable one, is one action; where other statements can reach a row that a
  transaction in progress has locked or is about to lock (`PaymentOrder`,
  `UserSessions`, `OAuthAttempts`), the transaction is several actions that hold a
  lock, and its writes become visible in the last.
* **A lease id is its owner.** Every claim draws a fresh UUID, and each invocation
  claims a scope at most once, so the invocation itself can stand for it.
* **Time is a bit.** `live` stands for `leaseExpiresAt >= now`. An expiry action
  turns it off at any moment, so no relation between durations is assumed: a
  worker may sleep longer than any lease. A renewal only puts off that moment;
  where it can *revive* a lease (`HeartbeatLock`), it is an action. Payments
  count days, because terms are added to them, and consents have a clock of ticks,
  because one reading of it is compared with another (section 2.8).
* **Each invocation has a program counter** and the locals it still needs; locals
  that the code will not read again are blanked, which keeps equal states equal.
* A **crash** ends an invocation at any point; a **failing statement** takes it to
  the handler that would catch the exception there.
* Variables and fields called history (`contacts`, `author`, `owed`, `accepted`,
  `late`, `lastSender`, `mailed`, `uses`, `replaced`, `stood`) are not in the code; they record what
  happened in the world so that properties can speak about it, and no guard reads
  them.

### 2.1 ImportRows, ImportJob, BackfillChunks, ImportWorker

`ImportJob` is the parent row and the guarded statements of
`warehouse-import-job.ts` on it; `BackfillChunks` is the same for the slices.
Their operators have the names of the functions (`ClaimImportJob`,
`CompleteBackfillChunk`, ...), and the `WHERE` clauses are operators of their own
(`OwnsJob`, `JobClaimable`, `Claimable` = `claimGuard`, `FencingGuard`).
`ImportWorker` is the control flow of `runDurableImportWorker`,
`runCheckpointedBackfillWorker`, the executor and `refreshParentJobFromChunks`:
claim, first heartbeat, the two clean-ups, the loop (select, claim, contact,
report progress, complete or fail, mirror), the verdict and the terminal write. The
worker claims without concurrency caps, so `claimBackfillChunk` is on the plain client
and its statements commit one by one: the check (`CheckCandidate`), the guarded update,
which tests no attempts (`TakeChunk`), the read of the row as it is by then
(`ReadClaim`), and the update of a claim that went past the last attempt
(`MarkExhausted`). A run may die or stall between any two of them. Runs whose lease was lost keep going until `leaseLost` is set by their
timer or a guarded statement refuses them. Around them: failing timers,
failing statements, crashes, expiries, and the cron's recovery.

One job is modelled, since no statement touches two. Dates, items and
notifications of a job are left out: the provider answers `ok`, `partial` or
`error` for a slice. The retry back-off only delays claims and is left open.

`SliceLedger` is the promise without leases, clocks and control: a slice has one
owner at a time, is admitted at most `MaxAttempts` times, is given up only when
these are spent, and its result is recorded once, by its owner; the import is
closed once, as completed only when every slice is done. The mapping
(`LedgerSlice`, `LedgerVerdict`) reads the owner from the lease id. The guarded update
that takes a slice past its last attempt is the ledger's `Forfeit`: it is no admission,
and from then on nobody may record the slice, although the row runs under a lease with
one attempt too many for as long as its claimer is silent, or for ever if he died. The
update that marks it failed, his own or that of a clean-up, is `GiveUp`.

### 2.2 SyncLocks, MetaSync

`SyncLocks` is the table of leases: claim (refused only while running and not
expired; each claim or theft moves the fence), heartbeat (no expiry test, so it
revives a lease that nobody has taken), assert, release (by lease id), the force
option of the sync route (rows are kept so that the fence is), expiry. `MetaSync`
is `syncConnectionData` for a Meta Ads connection: connection lease, account loop,
account lock, fetch, ingestion chunk by chunk on either write path, release, the
summary over the children, the assertion and the update of the outcome. The two
write paths differ in exactly what matters: `upsertMetaMetric` asserts the lease
and *then* upserts (`AssertRow`, `UpsertRow`); the bulk statement reads the lease in
its own snapshot, without locking the row of the lease (`BeginBulk`), and writes when it
has the row locks of all it updates (`WriteBulk`), which another writer may have held
meanwhile. It writes nothing if that first look finds no lease, and falls back to single
rows on an error.
Users disconnect, reconnect and force at any time.

A chunk goes to the database as one bulk statement; the parsing of rows, the
health records of accounts, the counters of stale rows and the removal of legacy
campaign-level rows are left out. Which rows are invalid, and which path is
enabled, is open at every chunk.

### 2.3 ReportDispatch

One schedule, the attempt rows of its days, and the sweeps of the cron over it.
`Begin` reads the attempt row; what follows (`Create`, `Orphan`, `Reclaim`) acts
on what was read and is guarded by whatever the statement repeats. `Start` is the
commit of PROVIDER_STARTED, the crash boundary: before it nothing can have been
sent, after it nothing can be excluded. `Send` is one request with three outcomes
(confirmed, rejected, unknown; an unknown one may have been accepted),
`DeadlinePasses` cuts off the rest. `Resolve`, `Complete`, `Release` are the
three closing statements. A sweep may span midnight.

When a schedule is due depends on its cron expression and is left open, so a sweep
may find it due at any time; edits by its owner and the compilation of the brief
are left out. That a provider that answers with an error has not accepted the
brief is the one assumption about the outside.

`BriefLedger` is the promise without leases, tokens and sweeps: an occurrence is open,
begun, delivered or unknown, has at most one sender, and only its sender delivers and
says what became of it, truthfully; anybody may give it up as unknown, *also while its
sender still sends*. The mapping (`Phases`, `BeingSent`) reads the phase from the status
of the attempt row and the senders from the program counters. A sweep that loses the row
to an orphaning one keeps sending and may complete the schedule: to the ledger the
occurrence stays unknown, and the count still speaks for a day that reached somebody.

### 2.4 PilotBackfill

The pilot runs import jobs of its own admission over the rows of `ImportJob` and
`BackfillChunks`, whose guarded statements are used as they are; the statuses of
pause and cancel are added. An execute request claims the parent, sweeps the slices
and takes them one by one under the cap of the workspace, and looks at the job
again *after* each claim (`Verify`), because the operator who pauses or cancels
writes without any lease: he reads, lists slices, and writes on the condition that
the status is still the one he read. Whoever leaves the loop gives the parent back
(`SettleParentLease`, `DropParentLease`), unless it left by an exception.

The receipts are left out, and the concurrency gate of the execute route, since
`TakeSlice` enforces the same limit in the transaction of every claim. With
`MaxAttempts = 1`, as in the run, no slice is taken up by a second execution; that
race is the one of `ImportWorker_safety`, on the same operators.

`PilotLedger` is the promise: it differs from `SliceLedger` in what an operator may do. A
slice may be dropped, but only while nobody has it; the backfill is closed once, by the
executions when every slice is done or dead and then with the outcome these give, or by a
cancel, which may say "partial" only over a slice that is done. The mapping
(`PromisedSlice`, `PromisedVerdict`) forgets pauses, leases and requests altogether: an
execution that was paused, lost its lease or died looks like one that has not started.

### 2.5 PaidTime, PaymentOrder

`PaymentOrder` has the orders of one workspace, the checkout request of each, webhook
deliveries that fulfil an order, the expiry cron and a calendar. Fulfilment is one
transaction over two `SELECT ... FOR UPDATE`, so it is three actions that hold row
locks, and its writes appear in the third, `CommitFulfillment`; it computes the new
end of the term from the deadline it read *under the second lock*. A rollback at any
point leaves the rows as they were. Statements without a condition are modelled
without one: the update to PENDING (`ShowLink`) names the order by id alone, and the
cron waits for the lock of the workspace row. The 30 minutes of an order are a bit;
terms are days.

`PaidTime` is the promise: an account is paid until some day, each payment adds its
term once, and access ends by time alone. `ImplementsPaidTime` maps the end of the term
of a workspace on the professional plan, and the orders that are PAID *and* were paid
in full, to it. So it fails if a duplicate adds a second term, if of two concurrent
renewals one is lost, if the cron takes away time that lies ahead, if a paid order is
reopened, or if a plan is given without money. Paddle is switched off in production
and has no part.

### 2.6 AlertOutbox

One incident and the dispatchers that may deliver it. A dispatcher reads the row and
its own `now`, claims on the condition that the row is open and due *as of that `now`*, sends,
and records or defers on the condition that it still owns the row. Two bits carry the
clock: `due` of the row as of now, `due` of a dispatcher as of the `now` it took. A
dispatcher that stalls for longer than a lease between the two claims a row with a lease
that has already run out; `slow` and `behind` keep that possible. Whether this was the
last attempt is decided from the counter as it was before the claim.

### 2.7 ReportEmail

Requests of users to mail one approved snapshot. The attempt row has two unique
columns, the key of the request and the claim on the snapshot, and nothing else keeps
the requests apart; a send whose answer does not come within ten minutes is declared
ambiguous by whoever meets it. Approval and its withdrawal are an open choice of
`CheckSnapshot`. The one assumption about the outside is the code's own
(`report-email-outcome.ts:12`): a `response.error` means that the provider has not taken
the mail. The client library reports a failed fetch or a 5xx answer as `error` too, where
that need not be so; a mail that was taken and recorded as a definitive failure is outside
the model, and `NoSecondMail` holds under this assumption only.

### 2.8 UserSessions, OAuthAttempts

`UserSessions` has the sessions of one user. Registration and the clean-up by a heartbeat
are transactions under the advisory lock of the user; revocation takes no lock. Grace
deadlines are ordered numbers of which a prefix is over. What one server instance has
cached about one session is followed (`Watched`), together with a check that has read
and not yet cached its answer. Which session is the oldest is left open. A login whose
transaction fails goes on without a row (the code fails open) and is no session here.
A check that meets an error of the database also lets the request pass, and is left out.
The limit is a constant: the plan is read again in every transaction
(`session-limits.ts:231`), and what a downgrade does to sessions that were within the old
limit is not covered. A heartbeat of a session that was revoked runs the clean-up as well;
it is the step of some other heartbeat.

`OAuthAttempts` has the consents of one user for one provider in one workspace, and the
clock. A consent that is started for an agent task ends the pending ones in a transaction
under an advisory lock: it takes a date (`BeginAgentAttempt`), updates the rows
(`ExpirePending`) and makes all of it visible (`CommitAgentAttempt`). A callback finds a
consent valid (`FindAttempt`), takes a date for its update (`ReadClock`), and marks the
consent consumed on the condition that it is pending and ends after *that date*
(`ConsumeOAuthAttempt`), waiting for a transaction that holds the row. The two dates are
what the update compares, not the time at which it runs: a callback that is slow after its
reading still goes on with a consent that has expired, or that a later reading has
replaced; one whose reading comes later is refused. Replacing consents that have already
expired moves their end forward, to the date of the replacement. The clocks of the
servers are taken to agree, and the end of a new agent consent is counted from the date of
its replacement instead of from a moment before the lock.

### 2.9 CaseRecovery

The data-health loop of the agent console for one source: responsibility and policy
(collapsed to unauthorized, active, paused), the episodes of one fingerprint, the
operations that recover them with their leases and lost leases, the import job each is
bound to, the workers, and the page a member decides on. Each action of the console is
a serializable transaction; a refused one rolls back and is left out. The worker is
`runDurableImportWorker` reduced to these rows (its import is `ImportWorker`): claim,
heartbeat of both leases, finish, verification. `RecoverCase` reconciles lost leases,
finds or makes the operation for the present version of the case, and queues a job that
has ended *again*, which `ImportWorker` does not know: its jobs have slices, and the
recovery creates jobs without.

Left out: the expected version of the responsibility in the administrator's decisions
(of two at once one has to be taken again), cases of another fingerprint (expired
authorization), the cancellation of a job, and the action *investigate*, which the policy
of data health authorizes no tool for.

### 2.10 MCServices

The seven services of 2.4 to 2.9 share no row. `MCServices` runs one of them per
behaviour, while the others rest in their first state, so that each is explored exactly
as on its own, and not once for every state of the rest. Their fairness asks nothing of
a service that rests, since none of its fair actions is enabled in the first state.
Case recovery is explored under three bounds (below), and consents for agent tasks apart
from the others, since they touch none of each other's rows.

## 3. The runs

TLC checks all of them; deadlock is checked except where the system really ends
(a terminal job whose runs are over; the last day; a service with nothing left to do).

| Run | Instance | What it shows |
|---|---|---|
| `ImportWorker_safety` | 2 runs, 2 slices, 2 attempts, 1 retry | types; `CompletedJobIsComplete`, `ContactsBounded`, `FailedSliceUsedItsAttempts`, `ListingsStayTrue`, `JobVerdictIsFinal` |
| `ImportWorker_ledger` | 2 runs, 1 slice, 2 attempts, 1 retry, fairness | the worker refines `SliceLedger`; every run leaves its loop unless it meets a slice that expired on its last attempt |
| `ImportWorker_spin`, `_partial`, `_queued` | 1 or 2 runs, 1 or 2 slices | three statements of the documentation that the code does not keep (section 5) |
| `MetaSync_safety` | 2 workers, 1 account, 2 rows | `TokensUnique`, `SuccessMeansWritten`, `RegressionOnlyInTheGap`, `WorkersDoNotReconnect` |
| `MetaSync_accounts` | 1 worker, 2 accounts, 1 row, fairness | outcome over several accounts; `OrphansAreFreed` |
| `MetaSync_zombie`, `_skipped` | 2 workers, 1 account, 1 row | two comments that the code does not keep |
| `ReportDispatch_safety` | 3 sweeps, 2 destinations, 2 days | the dispatch refines `BriefLedger`; `AtMostOnce`, `RetryableMeansUndelivered`, `SentOncePerOccurrence` |
| `MCServices` | see below, fairness | the refinement of `PilotLedger` and `PaidTime`, the safety and liveness of pilot, payments, alerts, mail, sessions, consents and case recovery |
| `PilotBackfill_pause` | 1 execution, 1 slice, 1 operator | a comment on the pause that the code does not keep |

`MCServices` has: 2 pilot executions, 1 slice, 1 operator; 2 orders with terms of 1 and
2 days, 2 concurrent announcements, 3 days, a workspace that is free, in trial or of a
legacy plan; 2 dispatchers, 2 sends; 3 mail requests, two of which share a key; 3 sessions
under a limit of 1 (and the grace slot); 2 consents for agent tasks and 1 other, 2 callbacks,
4 ticks of the clock with a lifetime of 2; and case recovery as two executions of one operation, two operations of one case, or two
episodes of one operation each, with operations given up at 2 lost leases.

**Why these bounds are enough to be interesting.** Two runs are a stale holder and
its successor; each run may also crash, so a third run would only add a second
successor (for the dispatch three sweeps are used, because there two stale ones
can disagree about a row that a third has closed; for the mail three requests, because
a late answer, the declaration that judged it stale and a new send are three parties).
Two slices are one that is finished and one that is not, which separates the verdicts.
Two attempts and one retry reach both sides of every limit, including the race for the
last attempt. Two rows are one asserted and one not. Two days give a sweep that spans
midnight a successor on the new date; three give a term that is over, renewed before or
after the cron has come. Two orders with unequal terms tell their sum from either. Three
sessions under a limit of one are the allowance, the grace slot and one too many. With a
lifetime of two ticks in four a consent can be read before, at and after its end and
replaced at any of these times, before and after the reading of a callback; two callbacks
are one that uses a consent and one that comes with it again.
Refinement and liveness of the worker are checked on one slice, since the ledger treats
slices independently and the loop's refusal needs only one. The refinement is also proved
for every size. The three bounds of case recovery are the three pairs that can meet: two
workers on one job, two operations on one case, two cases on one fingerprint.

Symmetry is used only without liveness: over runs; over workers and rows; over
sweeps and destinations. They occur in the models only under quantifiers. `MCServices`
uses none; instead, of the equal pilot executions a fixed one claims first, and recovery
workers are numbered as they claim, which renames states and loses none.
`ImportWorker_safety` also takes the state through a view, `WithoutReceipts`, that
leaves out `results` and `author`: no action reads them and no property of that run
but the two type conjuncts that name them, so states that differ only there have
the same future. (The types of those two are also proved, `TypeInvariant`.)
`ImportWorker_ledger`, whose refinement reads `author`, uses no view.
Fencing tokens and counters are bounded by the number of claims that the finite
set of runs can make; `LastDay` and `LastTick` are the only explicit caps, on the calendar
and the clock.

**Fairness.** `ImportWorker!FairSpec` assumes weak fairness of the steps of each
run: a process that is alive executes its next statement eventually. Nothing is
assumed of claims, crashes, expiries and the cron, and `Crash` stays possible at
any time. `MetaSync!FairSpec` adds that time passes: a lease that nobody renews
expires. `OrphansAreFreed` needs exactly that; a worker that is alive and keeps
renewing is not an orphan. In `MCServices`:

* `PaymentFairness`: payOS repeats an announcement until it is answered with success,
  and the webhook answers with an error until the order is PAID; the steps of a
  transaction are taken, row locks are granted; transactions are not rolled back for
  ever; the expiry cron keeps running.
* `AlertFairness`: the health cron keeps looking, dispatchers take their steps, leases and
  back-offs run out; from some point on dispatchers neither die nor outlive their lease,
  which the 10 s limit of a request under a lease of 30 s justifies.
* `SessionFairness`: grace windows end, cache entries expire, some open browser keeps
  sending its heartbeat, requests end and are not rolled back for ever.
* `RecoveryFairness`: the heartbeat timers of the workers that live fire. Nothing is
  assumed of the cron, of verifications or of people.

### The properties, and what would break them

* `CompletedJobIsComplete` relates the verdict on the parent, decided by one run
  from a listing, to slices that other runs still hold. It would fail if the
  outcome counted only failures, as the aggregate of the slices does.
* `ContactsBounded`: two runs can both read the last free attempt, each passing
  the check; what saves the bound is the read after the guarded update, which by then
  may show the row of a later claimer.
* `ListingsStayTrue` is why a verdict from an old listing is still true: nothing
  reopens a completed slice. Widening the claim guard breaks it.
* `ImplementsLedger`: the result of a slice is recorded by the run it was last
  admitted to, because the fencing guard names lease and token, and a slice is given up
  only when its admissions are spent, also when the claim that noticed it dies between its
  three commits. It fails if the fencing guard asked for the status alone.
* `RunConverges`: the loop ends, with the one exception named in section 5.
* `NoContactAfterStop`: a slice claimed after the pause or cancel is caught by the second
  look at the job, and only by it; the health of the lease alone would not.
* `VerdictCoversAllSlices`: a cancel sets the queued slices aside before it moves the job.
  An execution that took cancelled slices for finished would close the job between the two.
* `ImplementsPilotLedger`: operator and execution decide from what they read; each write
  repeats it. It fails if a verdict could replace another, if a cancel could drop a slice
  somebody works on, or if a partial cancel were recorded over nothing.
  `EndedExecutionFreesJob`: the parent is given back also when its lease has
  run out unnoticed, and after a verdict that failed to be written.
* `TokensUnique`: thefts, releases and forced unlocks never make a fence repeat.
  Forcing by deleting rows, which the code avoids, would.
* `RegressionOnlyInTheGap`: rows fall back to older data only in the gap between a test of
  the lease that passed and the write that it stands for: between the assertion and the
  upsert of the row path, or between the snapshot of the bulk statement and its row locks.
  Whoever tests after the loss writes nothing, also after the fallback from one path to
  the other, which must test each row anew.
* `SuccessMeansWritten`: a worker that records success has itself written all rows
  it fetched; a bulk statement that wrote nothing because its fence stopped it must
  not count.
* `WorkersDoNotReconnect`: an outcome written late never resurrects a connection.
* `AtMostOnce` and `RetryableMeansUndelivered`: see the proof in section 4.
* `ImplementsBriefLedger`: section 2.3. A resolution that asked only for its token would
  reopen or confirm what another sweep has given up.
* `SentOncePerOccurrence`: `lastSentAt` moves at most once for each day that
  reached somebody, though it is written under the lease of the schedule and the
  attempt row under its own token.
* `ImplementsPaidTime`: section 2.5; without the row locks two announcements of one payment
  add its term twice. `PaymentsSettle`: the first half fails if a rollback could leave a
  lock behind, the second if the cron skipped a kind of dated plan.
* `AlertVerdictsAreTrue`, `LatestClaimStands`, `AlertsSettle`: a late dispatcher neither
  decides for its successor nor gives up by a counter others have moved, and one that died
  is replaced because a row that is being sent becomes due again.
* `NoSecondMail`: as long as nobody knows what became of a send, its claim stays on the
  snapshot, whatever order answers, declarations and retries come in. `AnswersStand`: a
  declaration repeats its condition, so it never overwrites an answer.
* `SessionsCapped`: the ceiling and the single grace window hold because reading and
  writing are under one lock. `AllowanceReturns`: a window that is over must not keep
  shielding the extra session. `RevocationReaches`: a stale "active" may be cached *over* the
  entry of a revocation; it is corrected because positive entries expire too.
* `OneAgentConsent`, `UsedWhileValid`: replacing and using race for the same rows, each
  with a date it took before. A consent is used once, by a callback that took its date while
  the consent was valid or before the replacement took its own. It fails if the update
  asked only whether the consent is pending.
* `VerdictsStand`: members, scheduled checks and verifications resolve one case; a heartbeat
  must not take up an operation that was given up. `CompletedMeansImported`: the verification
  reads the job again, since a request may have queued it in between.
  `PauseReachesWorkers`: the heartbeat reads the policy, not only the lease.

Each property has a mutant in `PROJECT.json`: a plausible slip in one definition
(a dropped guard, an off-by-one, a swapped rule) with which TLC finds the property
violated.

## 4. The proofs

All theorems are checked by TLAPS, for every value of the constants that meets the
assumptions named in the modules: a lease owner differs from the null lease; fences,
ordinals, counters and days are natural numbers; `MaxAttempts`, `MaxSends` and the terms
of orders are positive. No finiteness is assumed: where a run has one slice, two orders
or three requests, the theorem has any set of them. The invariants were tried with TLC
before they were proved.

**`ImportWorker_proofs`**

* `TypeInvariant`: type correctness is inductive as it stands. The retry counter
  stays within `MaxRetries`, and a run that treats a slice has one at hand.
* `FailedMeansExhausted`, `ListingsInvariant`: both rest on one lemma,
  `SlicesEvolve`: a step never takes a completed slice back, never lowers
  attempts, and fails a slice only when its attempts are used (for the update of
  `MarkExhausted`, which asks for the lease alone, this is `ClaimsRead` below). Given this, a run's
  listing only ages into a subset of what is completed (`SeenEvolves`,
  `CompletedGrows`).
* `VerdictIsFinal`, `CompletedIsComplete`: by `JobEvolves`, a step that moves the
  job finds it queued or running, and one that completes it is the `Finish` of a
  run that listed all slices; with `ListingsInvariant` these are completed.
* `WorkerImplementsLedger`: `Spec => Ledger!Spec`. The extra invariant, `RowsInv`, has
  two parts. `LeasedWhileRunning`: a slice is running exactly when it names an owner;
  without it a settled row could still have an owner in the ledger. `ClaimsRead`: a run
  past the second look at its claim, whose lease the row still names, stands on
  a row within its attempts, and one about to mark its claim exhausted on a row whose
  attempts are used; without it a slice could be recorded after it was forfeited, or given
  up too early. Every step is one of the changes of the slices in `SliceStep` or a change
  of the job, never both (`JobOrSlices`), and each maps to a ledger step or a stutter.
* `ContactsStayBounded`: a bound on contacts alone is not inductive, and the attempts of a
  row may exceed `MaxAttempts`. `ContactsCounted` has two sums. Contacts plus the runs that
  have taken the slice and not called the provider (`Taken`) never exceed the attempts:
  taking raises both sides by one (`TakingCounts`). Contacts plus the runs that have also
  read their claim (`Due`) never exceed `MaxAttempts`: a run reads no more attempts than
  that, which by the first sum leaves room for its call (`ReadingCounts`). A call moves a
  run out of both (`OneContact`), and no other step makes one due (`NothingNewDue`). That
  `Taken` is finite is part of the invariant, so the theorem needs no bound on the number of
  runs.

**`PilotBackfill_proofs`**

* The safety properties of the pilot follow from one invariant, `PilotInv`. What an
  operator has read is never terminal, so his write cannot replace a verdict; while the
  job runs under its lease nobody is `late`, so an execution that passes its second look
  is not; an execution that is about to give its verdict knows every slice settled, and a
  slice with a verdict keeps it (`Kept`); and one that gave the job back, or never got it,
  does not hold it. The run has one slice; the theorems have any number.
* `PilotKeepsPromise`: `PilotSpec => Promise!Spec`. `PledgeInv` adds what the ledger can
  see: a slice is running exactly while somebody owns it, and was admitted no more often
  than allowed (`PledgeRows`); an operator about to write has read what his write says, so
  that a partial cancel has a finished slice behind it (`PledgeOffers`); and an execution
  that treats a slice has one at hand (`PledgeSlices`). A step changes either the
  slices (`SlicesMove`: an admission, a leave, slices given up or dropped) or the verdict
  (`VerdictMoves`: it closes, or is cancelled), and each of these is one ledger step.

**`PaymentOrder_proofs`**: `PaymentSpec` implements `PaidTime`. A term is only paid for an
order whose link was shown; an order that is PAID was paid in full; a free plan has no
deadline; and the heart of it: a transaction past its first lock holds the row of its
order (`HoldsOrder`), and one past its second knows the deadline *in force*, not one that
was in force when it started (`HoldsWorkspace`). `OthersHold` says that no transaction
disturbs this for another: what it writes it has locked. With these, `CommitFulfillment`
is one `Extend`, and every other step is `Lapse`, `NextDay` or a stutter. Types:
`PaymentTyped`.

**`ReportDispatch_proofs`**

* `IInvAlways`: the inductive invariant. `AtMostOnce` alone is not inductive: a
  sender might hold a destination that was served before. `IInv` adds, for every
  sweep that sends: it owns the attempt row, which others can only have closed as
  ambiguous (`SenderOwns`); what it still has to do has received nothing
  (`TodoUntouched`); while it knows of no confirmed and no unknown outcome nobody has
  received anything (`SenderKnows`); and a sweep about to reclaim has read a status
  that allows it (`ReclaimsRetryable`). `SenderOwns` gives that two senders never
  share a day; `SenderKnows` gives that a row resolved as a definitive failure may be
  tried again.
* `TypeInvariant`, `AtMostOnceInvariant`, `RetryableInvariant` follow from it, and
  `ClosedForEver` step by step: every update of a row is guarded by an open status.
* `SentOnceInvariant`: `CInv` adds that a sweep with a confirmed destination stands on a
  day that reached somebody, and one that is about to complete on a closed day of its
  own (`HasReached`). A day that has reached somebody and that no sweep holds is
  `Settled`; `lastSentAt` has moved at most once for each settled day. A completion
  settles its day, since the token of the row shows that nobody else holds it, and a
  start holds a day that has reached nobody.
* `DispatchKeepsPromise`: `Spec => Briefs!Spec`, by the two invariants together.
  `SenderOwns` makes the senders of the ledger a set from which the sweep that leaves takes
  exactly its own day (`SenderLeaves`); `TodoUntouched` makes each accepted request a
  `Deliver`; `SenderKnows` and `HasReached` make the two verdicts of a `Settle` true; and
  `Counted` leaves room for one more `Count` at every completion. Everything before the
  crash boundary is a stutter, since no claim changes the phase of a row.

**`Services_proofs`**

* `AlertOutbox`: the counter of the row is never behind what a dispatcher read of it
  (`CounterAhead`), so that giving up by an old reading is still right.
* `ReportEmail`: a request that sends or records holds the claim on the snapshot (`RowOf`),
  which the unique column gives to one row, and rows have different keys (`KeysDiffer`).
* `UserSessions`, for every limit and any number of sessions: `SessionsCapped` alone is not
  inductive, since a registration acts on sessions it counted a statement ago. `SessionInv`
  adds that whoever is in a transaction holds the lock of the user, and that the sessions
  it counted still include all that are active (`CountIsCurrent`): revocations take no
  lock, but they only make it fewer. So what a registration may add is decided by a count
  on the safe side (`CountIsCapped`), and the deadline it takes over is the one every
  running window has (`DeadlineIsTheirs`), which keeps the windows one.
* `OAuthAttempts`: `CreationOK`, that only one creation for an agent is in progress, under
  the advisory lock, that once it has updated the rows it holds every pending agent consent,
  and that the date it ends them with has passed. `CallbackOK`: a pending consent that
  nobody has replaced, and that ends after the date of a callback, was valid when the
  callback took it. So a callback whose condition holds either took its date while the consent
  was valid, or before the date of the replacement that has ended it (`ConsentsUsedOnce`).

**`MCServices_proofs`**: no service writes the rows of another (`StepsAreApart`), so in a
behaviour of all of them each keeps its own specification (`ServicesAreApart`).
`ServicesTyped` and `ServicesSafe` state every safety property and both refinements of the
run `MCServices` for the composition the run explores, with any number of actors of each
service.

**`CaseRecovery_proofs`**: episodes open one after the other; an operation in progress
has lost leases to spare and belongs to a case; a page on which a member may decide has
shown every finding so far; a completed operation has its import and its closed case.
This is where the serializable transactions matter: each step keeps all of it at once.

**`MetaSync_proofs`**: all safety properties of the sync from `SyncInv`. No token and no
stamp is ahead of the fence of its lock (`TokensBelow`, `StampsBelow`): so a claim, which
moves the fence, returns a token nobody has, and a write under a lease in force cannot
take a row back (`WriteUnderLease`). Every write is of rows for which a test of the lease
has passed, so a regression is the write behind such a test after the lease was lost, of a
row or of a bulk statement (`RegressionStep`). For
`SuccessMeansWritten`, `Accounted` says at every point of the program where each row is
that a worker has fetched and not written: its account has failed, or it is the account in
progress and the row is still to do, in the batch or asserted, or the account is bad. When
a chunk or an account ends nothing is in hand, so a row still owed has failed its account;
at the summary, no failed account means no row owed.

**Only model-checked.** Every safety property, action property and refinement that a
passing run checks is also proved. What stays with TLC is liveness, which under fairness
is out of the prover's reach: `RunConverges`, `OrphansAreFreed`, `PaymentsSettle`,
`AlertsSettle`, `AllowanceReturns`, `RevocationReaches`, `PauseReachesWorkers`; and the
six violations of section 5, which are counterexamples and have nothing to prove.

## 5. What the models found

Each is a run in which TLC finds a sentence of the documentation or of a comment
violated by what the code does.

* `ImportWorker_spin`: "the loop always converges"
  (`docs/CHECKPOINTED_BACKFILL_WORKER.md`). A slice whose lease expires on its last
  attempt *after* the opening clean-up is selected, refused as exhausted, left alone
  by the clean-up of queued slices, and selected again.
* `ImportWorker_partial`: "the parent must report partial, never completed". The
  comment is about `aggregateChunkStates`; the terminal write counts receipts
  instead, and the receipt of a partial slice is ok.
* `ImportWorker_queued`: "no-claimable-chunk stops are non-terminal". Losing the race
  for one slice ends the loop, and the job is closed over slices never tried.
* `MetaSync_zombie`: "a zombie worker is rejected before it can write". The row path
  asserts and writes in two statements. The bulk path does not keep the promise either
  (`warehouse-bulk-upsert.ts:450`: "a stolen/expired lease yields zero writes by
  construction"): its `lease_ok` clause sees the lease as of the snapshot of the statement,
  and the conflict clause compares no fence when the rows are locked at last.
* `MetaSync_skipped`: "`lastSyncAt` is the last fully successful requested sync". An
  account that is skipped for its health counts as ok.
* `PilotBackfill_pause`: "an in-flight chunk's fenced progress writes must keep
  succeeding so it can finish safely" (`lib/extended-backfill-pilot-lifecycle.ts:493`).
  The progress write asks for the status running, and the pause has just replaced it by
  `pause_requested`: the slice in flight stops, and stays running until its lease ends.

Seen in the models and not stated as a property, because nothing in the repository
promises otherwise: receipts shrink and grow, since the mirror write names the job
by id alone and the progress write replaces them by one slice; two syncs overlap
after the 20 minutes of a lease; an outcome may be recorded by a worker whose
lease went between the assertion and the update; an occurrence whose deadline
passes before its first request is closed as ambiguous, so that day's brief is not
sent; an alert may go out twice after a lost answer. `agent-console/recovery.ts` queues a
finished job again: that is part of `CaseRecovery`, and `JobVerdictIsFinal` is not about
such jobs, since they have no checkpointed slices.

## 6. Not modelled

* *Import queue*: the replay of jobs without slices and `retryPartialImportJob`, reached
  only from there; the merging of receipts; notifications; the enqueueing of a backfill
  after a consent (one transaction).
* *Ingestion* of Google Ads, TikTok, Shopee and Lazada: it runs under the same
  connection lease and records outcomes in the same way, over other writes. For Meta Ads,
  an error *behind* the update of the outcome (the date of the latest data is refreshed
  there) has the failure of that sync recorded over the success it has just recorded.
* *Pilot*: the admission, one transaction under an advisory lock.
* *Approved report*: the approval of a snapshot, one transaction; the mail requests see
  its result, approved or not, as an open choice.
* *Sessions and consents*: device notices, the Redis copy of a revocation (only its
  absence is assumed), pruning; what the OAuth callback does after the consent.
* *Agent console*: approvals and their consumption, evidence of the monitors,
  notifications, retention, the onboarding agent (`lib/agent/`), the other kinds of
  responsibility. Their handlers are serializable transactions like those modelled.
* *Assignment* of accounts: each decision is one serializable transaction, so there is no
  step between which another could come. A model would restate the transaction.
* *Redis lock, circuit breaker, token cache*: no production code depends on them.
  *Paddle*: switched off in production.
* Provider clients, pages, exports, formatting, prompts, which are most of the
  repository: no protocol of their own.

Further hazards, met while reading and outside the models or not worth a property:

* A slice that is `running` under an expired lease still counts against the cap on
  running slices of a workspace (`warehouse-backfill-chunks.ts:359`).
* `createOAuthAttempt` replaces pending consents of the *workspace*, though lock and
  cookie are per user and provider (`oauth-attempt.ts:46`).
* The refresh of a token writes the credentials by id alone
  (`oauth-framework/token-refresh.ts`), so a late refresh may replace a newer token.
* The job of a recovery that is paused or failed is claimed, refused and queued again by
  every cron.
* A finding observed again moves the version of its case, so that a second request makes a
  second operation and job for it; one of them stays running after the other has closed the
  case. The idempotency key of a request does not survive the day, since its default dates
  move.

## 7. Plan

What is left, most useful first.

1. Abstract specifications for the **mail requests** and for **case recovery**, whose
   promises are stated as single properties so far.
2. **Token refresh**: several refreshers of one connection, rotation of the refresh token
   by the provider, and the late write.
3. **Approvals** of the agent console (`consumeApproval`) and the onboarding agent
   with its own leases and resumptions.
4. **Admission** of the pilot with its capacity, and the **approval** transaction with the
   mail requests of several snapshots.
5. The other providers over `SyncLocks`.
