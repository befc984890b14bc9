# Formal model of QATTH Product v1

QATTH is a FastAPI application with Celery workers on PostgreSQL and Redis. It
reads CVs and analyses them, holds realtime interviews with an AI, searches jobs
and recommends them, sells prepaid credits, answers privacy requests and has an
administration. This directory holds TLA+ modules that model the core of it, the
TLC configurations that check them on small instances, and TLAPS proofs of the
properties that matter most. `PROJECT.json` lists the runs, the faults each
property detects, the source lines of every definition, the findings, the hazards
and the theorems. Paths below are relative to `src/`; services are in
`backend/app/services/`.

## 1. Inventory

The program is a modular monolith. HTTP handlers and Celery tasks call service
classes that hold a SQLAlchemy session; the session neither flushes before a query
nor forgets what it has read at a commit (`core/db.py:38-43`). PostgreSQL runs at
READ COMMITTED, and a handler that needs exclusion takes `SELECT ... FOR UPDATE`.
Such a select waits for the row, but does not refresh an object that the session
has read before: what a handler believes may be older than its lock. Celery
acknowledges a message after the task (`acks_late`), so a message of a dead worker
comes back; the beat tasks of `core/celery_app.py:30-43` publish, recover,
reconcile and clean up.

| Component | State | Operations | Correct when | Modules |
| --- | --- | --- | --- | --- |
| Credit ledger (`product_billing.py`) | accounts, buckets, reservations, ledger, reversal states, reviews | reserve, capture, release, refund, expire, grant, reverse, adjust, reconcile | nothing is held or charged twice, no credit is minted, reversed credits are taken back or owed | `CreditLedger`, `CreditRows` |
| Payment inbox (`product_billing.py`, `payment_adapter.py`) | inbox rows, checkouts, subscriptions | webhook, retry, poll of the provider | each payment takes effect, once, however its events arrive | `PaymentInbox` |
| Catalog, trial, adjustments, checkout (`product_billing.py`) | catalogs, prices, policies, grants, commands, checkouts | schedule, activate, price, publish, grant, request, approve, reject, open a checkout or portal | one catalog in force, one trial, an adjustment has two administrators, a payment finds its checkout | `BillingCatalog`, `SignupTrial`, `CreditAdjustment`, `Checkout` |
| Task leases (`task_dispatch.py`, `task_leases.py`, `workers/tasks.py`) | outbox events, the lease columns of scan, analysis and report | publish, claim, complete, fail, recover | the last owner finishes, a result is never replaced, nothing waits for ever | `LeasedTask`, `TaskLease` |
| Realtime interview (`product_interview.py`, `gemini_interview_gateway.py`, `api/v1/interviews.py`) | interview, tokens, transcript, reports, the websocket | issue a token, connect, record, bill, end, cancel, evaluate, sweep | one reservation, one connection, charged exactly when content was sent, ends in time | `Interview` |
| Realtime limiter and stream (the gateway) | Redis leases; recorded events | acquire, refresh, release; record, forward, reconnect | no more sessions than allowed; each event once, in order | `SessionLimiter`, `RealtimeStream` |
| CV library (`product_cv.py`) | scans, drafts, versions, analyses | scan, retry, edit by revision, confirm, draft again, activate, archive, analyse | no accepted edit is lost, a version is what was confirmed, a request is paid once | `CvLibrary`, `WorkRequest` |
| Files (`product_files.py`, `object_storage.py`) | upload intents, files, objects | intend, write, complete, reject, read | what can be read was checked | `FileUpload` |
| Privacy requests (`product_privacy.py`) | requests, events, artifacts, leases | export, delete, retry, clean up | what is deleted stays deleted, a failed deletion can go on | `PrivacyRequest` |
| Job search (`product_job_search.py`, `safe_job_fetch.py`, `openai_jobs.py`) | runs, results, events; the shared catalog of postings, cases, sources | search, stream, check, rank, page, mark stale, report, moderate | results of one ranking, a run ends, what is shown was verified, filters agree, ranking is fair | `JobSearch`, `JobCatalog`, `JobPage`, `JobRanking`, `ProviderSearch` |
| Recommendations and applications (`product_recommendations.py`) | candidate profiles, runs, matches, feedback, applications | derive, invalidate, run, give feedback, move an application | a run is made for the present inputs, a history is one story | `Recommendation`, `Application` |
| Administration (`product_admin_ops.py`, `core/celery_app.py`) | rollouts, operational jobs, audit chain, cases | evaluate, activate, retry, send, lock an account, moderate | a call finds one configuration, a retry is one job, the audit fits what was done | `ModelRollout`, `OperationalJob`, `AccountAccess`, `JobCatalog` |
| Provider resilience (`core/provider_resilience.py`) | cost, circuit, slots, in Redis or in the process | call, retry, trip, fall back | no slot is counted for nobody | `ProviderCalls` |
| Idempotency and middleware (`core/idempotency.py`, `core/middleware.py`) | replay records, rate windows | replay, limit | a repeated request has one effect, one limit for all processes | `WorkRequest`, `Application`, `RateLimit` |
| Identity and consent (`identity.py`, `core/identity_security.py`) | keys, sessions, account status, consents | verify, sign in, revoke, lock, consent | keys are the present ones, a revoked session stays out, the last word of the user counts | `TokenCheck`, `AccountAccess`, `Consent` |
| Legacy API | as above | as above | only with `legacy_api_enabled` | - |
| AI adapters, metrics (`openai_cv.py`, `core/telemetry.py`) | none | prompt, parse, count | - | - |

How they interact: CV analysis and interviews reserve credits and settle them in
the transaction that commits their own outcome. The reservation reconciler of
billing reads their state and writes `failed` or `timed_out` into them. Scan,
analysis, report, job search, recommendation and privacy share the outbox
pattern: an event row is committed with the resource and published by a beat task.
Payments reach the ledger through the inbox only.

What is hard: handlers that lock one row and trust another that they have read;
executions that come back after their lease; events that arrive twice, under two
ids or in the wrong order; beat tasks that conclude what a client or a worker is
still doing; several commits in one operation with a crash between them. The
`hazards` of `PROJECT.json` list them by line, with the property that watches each.

## 2. Plan

Order is by what an error costs: money first, then what brings money into motion,
then personal data, then what users read.

| # | Modules | Composes with | Abstract specification | State |
| --- | --- | --- | --- | --- |
| 1 | `CreditLedger` | - | - | done, proved |
| 2 | `TaskLease` | reservation of an analysis | `LeasedTask` | done, proved |
| 3 | `Interview` | reservation, reconciler, sweep | - | done, proved |
| 4 | `PaymentInbox` | grants and reversals, counted | - | done, proved |
| 5 | `PrivacyRequest` | uploads and the owner's own requests | - | done, proved |
| 6 | `FileUpload`, `CvLibrary` | each other | - | done, proved |
| 7 | `JobSearch` | - | - | done, proved |
| 8 | billing and administration: the eleven modules of `MCOperations` | - | - | done, proved |
| 9 | matching and providers: the nine modules of `MCMatching` | `JobCatalog` with `JobPage` | - | done, proved |
| 10 | `CreditRows`: the row locks and unlocked reads inside a transaction | `CreditLedger` | `CreditLedger`, up to what a select may miss | done, proved |

Proofs are kept in eight modules; those of `TaskLease` and of `CvLibrary` share one, so do
those of `CreditLedger` and `CreditRows`, and each of the two pools has one for all its
components.

`Interview` and `JobSearch` need no definition but their constants for TLC and have no
`MC` module. A module that is to be proved about has no RECURSIVE operator, names its
assumptions, has one action per transaction or event, and states invariants as
conjunctions of named parts. Proofs are in a module `...Proofs` of their own. A
definition under `Fault:` is the next definition with a mistake in it; no action
uses it, and the run that checks the property fails when it does. The modules of
the two pools have one each, more than `PROJECT.json` lists: a pooled property has
one part for each module, and each `Fault:` breaks the part of its own module.

## 3. The modules

### CreditLedger

One account. A bucket is identified by its type and source reference, a
reservation by its business reference and a ledger entry by its idempotency key,
which is what the unique constraints do; rows not inserted yet are there with
`granted = 0` or status `none`. Every action is one transaction of
`ProductBillingService`:

| Action | Code |
| --- | --- |
| `CreditAccount` | `credit_account`, with the trial grant and the expiry it triggers |
| `Reserve` | `reserve`: trial, expiry, the greedy pass over the ordered buckets |
| `Capture`, `Release`, `Refund` | the methods of the same name |
| `ReconcileExpiredReservations` | the reconciler; which reservation is captured, released or deferred is a choice here and determined in `TaskLease` and `Interview` |
| `PaymentSucceeded`, `PaymentReversed` | `_payment_succeeded`, `_payment_reversed` with `_cumulative_reversal` |
| `Adjust` | `_apply_credit_adjustment` |

`Spend` states the greedy pass without a loop: a bucket gives what is left to pay
after the buckets before it. Sums are cardinalities of sets of pairs, which both
TLC and the provers can handle.

- Run `credit_ledger`: two reservations of two and three credits against a trial, a
  subscription of three credits for two payment units (so that shares are
  rounded), a top-up and a debit, over two days. Reserved credits are those of the
  open reservations; no credit is minted; charges and refunds are posted exactly
  with their outcome; reversed credits are accounted for; each transaction posts
  what it does to the balance; a reversal makes debt only when nothing is left to
  take; a reservation holds its exact price, in the documented order, and never of
  expired credits.

Amounts up to three are enough: a cost is split over two buckets, a grant is
reversed in two unequal parts, and a bucket expires while it is held. A trial, a
subscription and a hold last a day each, so that any of them may end first.
`LedgerMatchesBalance` is in the module and in no run: see section 4.

### CreditRows

`CreditLedger` takes a transaction as one step. `CreditRows` extends it with the
statements of those transactions, run by any number of sessions `Tx` at READ COMMITTED.
`accountLock`, `holdLock` and `bucketLock` say which session has a row, and `tx` what a
session has read and has still to lock. What is written becomes visible with the commit,
which is also what releases the locks.

| Statement | Code |
| --- | --- |
| `BeginCreditAccount`, `BeginReserve`, `BeginDebit` | the lock of the account in `_account`, and which rows the following select matches |
| `SelectSpendable` | the second select of `reserve` (`product_billing.py:263`), for whatever has credits by then |
| `BeginCapture`, `BeginRelease`, `BeginPass` | the lock of one reservation, or of those the reconciler finds; they do not lock the account |
| `BeginRefund` | reservation, then account |
| `BeginReversal`, `SelectOpenHolds`, `LockHold` | the bucket, then the account and the ids of the reservations to release, then each reservation and its other buckets |
| `LockBucket` | one row of a select, which the session reads as it is at that moment |
| `Commit...` | what the handler computes from its copies, written at once |
| `Abort` | an error of the handler, a deadlock broken by the database, a crash |
| `Alone` | what locks the account and no other row of another transaction |

A select locks the rows that match when it begins, in any order, and passes over a row
that comes to match later. The clock stands while a session has the account: a
transaction is a few statements, a tick is at least the shortest term.

`RowsAreTransactions` says that every commit is a step of `CreditLedger`, or that step
where a select has missed buckets into which a release has put credits back (`Missing`).
The exception is real: `release`, `capture` and the reconciler do not lock the account,
and section 4 shows what comes of it. `AccountStaysSound` says that the account is sound
all the same.

- Run `credit_rows`: two sessions, two reservations of two and one credits, a trial of one
  credit, a top-up of two, a credit and a debit of one, one tick after which trial and
  reservations have expired. Two sessions suffice for each pair of transactions to
  interleave at any two statements. The sessions are alike, hence the symmetry. Two
  sessions that wait for each other are not stuck: the database aborts one (`Abort`).

`NeverSpendsExpired`, which holds of `CreditLedger`, does not hold here: see section 4.
A handler is taken to read a row first with its lock, as every method of
`ProductBillingService` does. The one caller that has read the reservation before,
`create_realtime_token`, is in `Interview`, and section 4 shows what comes of it.

### TaskLease and LeasedTask

One resource - a CV scan, a CV analysis or an interview report - and its outbox
event, the broker, the workers, and the beat tasks. The constants `Waiting`,
`Active`, `Done`, `Failed` and `Startable` are the statuses of the resource, taken
from the three tasks of `workers/tasks.py`; `Billed` says whether a reservation
pays. An execution is `Deliver`, `Claim`, a provider call without a transaction,
then `Complete`, `Fail` or `Discard`. `Sent` and `SentUncommitted` are the two
outcomes of a publisher; `Redeliver` and `Crash` bring a message back;
`FailUnclaimed` is the error path before the claim. `Age` lets fifteen minutes
pass at any time, so a lease may lapse while its worker still runs. `Reconcile` is
the reservation reconciler. `LeasedTask` is the promise in a page: taken, ended by
the last holder, never replaced. `State` and `lease` are the refinement mapping.

- Run `lease_analysis`: charged exactly with a result; implements `LeasedTask`;
  the reservation is settled.
- Run `lease_report`: a report is eventually ready or failed.

Two workers and two faults let an old owner, a new owner and a duplicate message
be there at once; task ids are recycled when nothing refers to them, and three are
as many as can be in use by two workers and a message.

Fairness: the publisher, recovery and reconciliation are beat tasks; workers take
messages; the backoff is finite; and an execution that is given a lease again and
again ends once before the lease does (provider timeouts are far below fifteen
minutes). The broker delivers what it has, but may lose what a dead worker had.

### Interview

One interview, its realtime tokens and the reservations made for them, the
websocket, the four ways to end, the evaluation and two beat tasks. Three
transactions are split because they act on what they read before they lock:
`IssueBegins`/`IssueCommits` (`create_realtime_token`), `SettleBegins`/
`SettleCommits` (the reconciler) and `SweepLists`/`SweepCounts`/`SweepWrites`
(`expire_timed_out`). `InterviewFree` and `HoldFree` are the row locks. Credits
are counted in interviews. Deadlines are events in any order the code allows:
`TokenExpires`, `HoldLapses`, `TimeIsUp`, `WindowCloses`.

- Run `interview`: at most one reservation is held or captured, charged exactly
  when billable content was marked, one connection, every reservation settled and
  every session ended.
- `NoFreeSession` and `LiveIsPaidFor` are in no run: see section 4.

Two tokens are the old one and its replacement; a third repeats the second. The
run has no deadlock check because an interview ends.

Fairness: deadlines pass, transactions end, and each beat task, which runs every
minute or five, finds its rows unlocked now and then (strong fairness, since
other transactions come and go). Nothing is assumed of users or connections.

### PaymentInbox

The events of one subscription: its first payment, renewals, partial refunds and
its cancellation. `Happen` and `Possible` are the provider. An event id is the
provider's or the digest of the poll, so one payment may be reported under two.
A webhook is `Receive` (the unlocked look at the inbox), `Store`, `Start` and then
`Apply`, or `Refuse` and `Fail`: the commits of `process_webhook`. The beat task
is `BeginPass`, `AskProvider`, `TakeNext` and `EndPass`, with `Start` or, for a row
that it read as `processing`, `Restart`, which writes the time alone. `Apply` is
the commit of `_apply_payment_event` with the status; `CreditLedger` says what it
does to buckets. Here grants and reversed units are counted, as if no credit had
been spent.

- Run `payment_inbox`: a payment, a renewal and a refund, a webhook request and
  the beat, one crash or database failure anywhere. Granted once, `processed` only
  with the effect, and everything that happened takes effect. That no more is
  reversed than was paid is proved (section 5). `ReversedOnce` and
  `CancellationSticks` are in no run: see section 4.

One fault is enough to leave a row in each unfinished status; a second repeats it.
One webhook request and the beat are two writers of one row.

Fairness: the provider repeats a webhook until it is acknowledged (its schedule is
finite, but longer than any outage considered), a process that does not crash
goes on, five minutes pass, and the beat starts pass after pass. Without the
repetition a payment whose webhook is never delivered would stay unknown, because
the poll asks only for checkouts that are `pending` (hazard at
`product_billing.py:637`).

### PrivacyRequest

One account with an export, two deletions (two keys, or two requests that both
looked before either inserted: `FindNoDeletion`, `InsertDeletion`), an old file, an
upload that was let in before, the owner, and two workers. `Take` is the lease of
thirty minutes; then each stage is a transaction, with the calls to the store
between them: `StoreExport`, `RevokeAccess`, `ListObjects`, `RemoveObject`,
`MarkRows`, `PurgeRows`, `PurgeCache`, `Anonymise`, `Complete`. `Complete` fails
always, because its two events take one number. `Fail`, `Crash`, `LeaseEnds` and
`Retry` are errors, dead workers and the administrator who sends a request again.

- Run `privacy`: as long as an old file exists its row names it, so that every retry
  finds it; and a tombstone is only there when rows, cache and objects are gone and
  nobody can sign in.
- Run `privacy_survives` (violated): see findings.

One fault and one retry reach every stage twice. The two workers and the two
deletions are interchangeable, which the symmetry uses.

### FileUpload and CvLibrary

`FileUpload` is the staging object, which the client may write until the intent
expires (`Put`), and two calls of `complete`, each of which reads, checks, stores a
clean copy and commits without a lock. `CvLibrary` composes it with what follows:
scans of a readable file, the draft, two editors who look (`Look`) and then change it
under a revision, `Confirm`, drafts of an old version, the active version and the
archive; what decides from an unlocked read has two steps (`BeginEdit`/`EndEdit`,
`BeginChange`/`EndChange`).

- Run `cv`: what can be read was checked, whatever the client writes between two
  calls; a version has the text its user saw and a scan becomes one version; whoever
  changes a draft has seen what he replaces.

Two calls, two scans (one and its retry, or one and a draft of its version), two
editors and two texts let each of them be overtaken by the other.

### JobSearch

One run with two postings. Its message may be delivered to two workers, which keep no
lease: the status is all that tells them of each other. `Execution` is the sequence of
transactions of `execute` (retrieval from the index and the web, `Store` of the
ranking, the commit that a failed explanation makes in the middle, completion,
events); `ReadStatus` and `ReadEvents` are the client that follows the events. A row of
the results carries the number of the delivery that wrote it (`turn`), which stands for
the identity the database gives to every row: a `DELETE` takes the rows it saw, and
none that were written since.

- Run `jobs`: as long as no explanation has failed, the results are one whole
  ranking of one execution; and a run that was created ends, idle workers and a
  closed stream included.

Two messages and one death are enough for two executions to overlap at any two
steps. Fairness: the publisher runs every thirty seconds, a worker that lives goes
on, the client polls.

### The two pools

The modules that follow are small and share no state. `MCOperations` and `MCMatching`
each check several of them in one run: the variable `part` is chosen in the initial
state and never changes, `Next` takes a step of that component only, and the
variables of the others keep their initial value. So a pooled run explores the sum
of the components' behaviours, not their product. The view `Changing` drops the
variables of the idle components from the comparison of states, which is sound
because they never change. A pooled property is a conjunction over the parts, each
the property that the component's module defines and comments. A pooled run has no
deadlock check: most components may come to rest.

`MCOperations` (run `operations`):

| Module | What acts | Its property |
| --- | --- | --- |
| `BillingCatalog` | two editors create, price and activate four catalogs on five moments, locking what they find | `OneCatalogAtATime`: one catalog in force at every moment, unless two calls cut the same inner window (section 4) |
| `SignupTrial` | three transactions of a new user, two policies; `Collides` is what the unique index refuses | `TrialOnce`: one trial, one account, nobody fails on a row of another |
| `CreditAdjustment` | three administrators, two calls, amounts on both sides of the threshold | `EffectsAuthorised`: posted exactly when executed, large ones by a second administrator, once |
| `Checkout` | two requests with two keys, offers of two catalogs, a provider whose answer may be lost | `PaymentsFindTheirCheckout`: what can be paid is a transaction some checkout knows, at its offer |
| `WorkRequest` | two clients, two keys, first analyses, retries and interviews; row locks of key and account | `WorkIsPaidOnce`: one result per key, a dispatch each, and the credits add up |
| `ModelRollout` | two administrators, three configurations, full and canary rollouts; `HitsIndex` is the partial unique index, checked row by row | `CanaryHasBaseline`: every call goes to one configuration that has passed |
| `OperationalJob` | two operators, the beat, two workers; a broker that refuses | `RetriesAccounted`: one command, one event, one job, and its message is on its way |
| `AccountAccess` | two accounts whose owners administer each other, two requests at a time | `AccountsAreAccounted`: what was changed was what the audit says it was, the chain has no gap, a closed login stays closed |
| `Consent` | two requests, repeated or overtaken, two policy versions | `ConsentGoverns`: the last decision made in knowledge of the others counts, and no work begins without it |
| `TokenCheck` | two requests verify while keys are rotated and fetches fail | `KeysAreCurrent`: no withdrawn key is taken, no present one refused |
| `RateLimit` | four requests of different address, principal and path | `LimitIsShared`: no more than the limit in a window |

`MCMatching` (run `matching`):

| Module | What acts | Its property |
| --- | --- | --- |
| `JobCatalog` with `JobPage` | two workers check a posting whose page is open, closed or moved to a blocked host; the beat task, a candidate's report, a moderator | `ListedIsVouchedFor`: what is listed was last written from its open page; `FiltersAgree`: SQL and Python select the same postings |
| `ProviderSearch` | answers with up to two postings, citations and sources, two tries | `ProvenanceKept`: an accepted posting has a page behind it, in the answer's order and once |
| `JobRanking` | two postings, every pair of retrievals, three profiles | `DominanceRespected`: a posting that is better in no signal is not placed above |
| `Recommendation` | a request and a search that derive profiles while inputs change, two deliveries of the run | `RunIsCurrent`: a run is made from inputs no older than its request |
| `Application` | two devices that repeat a request until it is answered | `HistoryIsOneStory`: each event follows the one before, was decided on it, and is there once |
| `ProviderCalls` | two calls, one slot, two failures to trip, one failure of Redis | `CallsAccounted`: a counted slot has an owner, or was lost to a fault |
| `SessionLimiter` | three sessions for two places, blocked, dead or released at any time | `LimitHolds` |
| `RealtimeStream` | three chunks of audio, two contents, two lost connections | `TranscriptKept`: recorded without gap or repetition, forwarded in order, at most one chunk lost per lost connection |

The bounds are the smallest at which two actors meet in each order: two of every
actor, two keys where keys are compared, a clock that reaches one tick beyond what
expires. The catalogue needs three checks (one that lists the posting, one that
finds it closed from an older read, one between them), the catalogs four rows (two
windows to cut and two drafts). The filters are a choice in
which each of the seven criteria occurs, alone (a salary bound with its currency) and
together with another.

## 4. Findings

One is a run that TLC finds violated; `PROJECT.json` quotes the document.

| Run | What the code does |
| --- | --- |
| `privacy_survives` | the archive of an export outlives the deletion of the account, because no row names it; for the same reason no request becomes `completed` |

Six more are stated by a definition that TLC finds violated when it is added to the
configuration of the module:

| Definition | Module | What the code does | Against |
| --- | --- | --- | --- |
| `LedgerMatchesBalance` | `CreditLedger` (a hold of one day, two days) | a bucket that expires, gets released credits back and expires again loses them without a ledger entry: the key of the entry is already posted (`product_billing.py:1255`) | `docs/requirements/functional-requirements.md:90` |
| `NeverSpendsExpired` | `CreditRows` (`CreditRows.cfg`) | a reservation that is released between the two selects of `reserve` (`product_billing.py:256`, `:263`) brings credits back into an expired bucket, which the first has missed and the second, which does not ask when a bucket expires, finds: the new reservation is paid with them. `release` does not lock the account | `docs/billing/pricing-and-credits.md:47`, `:180-182` |
| `NoFreeSession` | `Interview` (`Interview.cfg`) | `create_realtime_token` reads the reservation (`product_interview.py:229`) and then calls `release`, whose select waits for the reconciler but does not refresh the row in memory (`product_billing.py:325-328`): it is released a second time, and its credits return twice | `docs/billing/pricing-and-credits.md:189` |
| `LiveIsPaidFor` | `Interview` | a second token keeps a reservation without extending it (`product_interview.py:230`); it lapses before the token is used, and the session starts unpaid | `docs/billing/pricing-and-credits.md:194` |
| `ReversedOnce` | `PaymentInbox` (two requests) | two deliveries of one partial refund both pass the unlocked look at the inbox (`product_billing.py:495`) and reverse it twice | `docs/billing/pricing-and-credits.md:255` |
| `CancellationSticks` | `PaymentInbox` (with the cancellation) | a renewal applied after the cancellation makes the subscription active again (`product_billing.py:750`) | `docs/billing/pricing-and-credits.md:253` |

And `Settles` fails for the statuses of a CV scan (`Waiting = "queued"`,
`Active = "processing"`): a scan whose message was consumed by a task that failed before
its claim stays `queued` for ever (`task_leases.py:81` against
`docs/requirements/non-functional-requirements.md:21`).

Behaviours of the models that have no definition of their own, by component:

- Credits: a release into an expired bucket leaves the credits there until the next
  expiry (`product_billing.py:334` against `docs/billing/pricing-and-credits.md:208`).
- Tasks: a late message starts an analysis again that had failed for good
  (`workers/tasks.py:120`).
- Interview: `cancel` followed by `retry_evaluation` brings an ended interview back
  (`product_interview.py:587`, `:619` against `functional-requirements.md:52`); a
  repeated message of a failed evaluation overwrites the status that a later attempt
  has written (`workers/tasks.py:280` against the same document, `:54`).
- Payments: the poll asks for checkouts in a status that no code writes
  (`product_billing.py:637`); it always reads the first hundred subscriptions and
  one page of the provider's transactions, so that later ones are never polled, and
  it never asks for refunds.
- Catalogs: two activations that cut the same inner window between two catalogs
  overlap (`cutTwice`; against `docs/billing/pricing-and-credits.md:269`); the price of a
  catalog may be changed while it is being activated, because the status is read
  without a lock.
- Checkout: a lost answer leaves a transaction at the provider that no row knows;
  two requests with one key end in a 500 for the second; a replay may return a page
  that has expired.
- Rollout: the rows of an activation are written in the order of their keys and the
  partial unique index is checked with every row, so a configuration whose key is
  smaller than that of the active one is always refused (`HitsIndex`,
  `product_admin_ops.py:231`). If a new version could replace an old one, going back
  cannot work, although `functional-requirements.md:108` asks for it.
- Operational jobs: the request and the beat may both send one dispatch, because the
  lock does not refresh the row in memory; a redelivered message sets a job running
  that had succeeded; a task that catches its own error is recorded as succeeded.
- Accounts: a locked account can get a new session row from a request that was let
  in before (against `functional-requirements.md:22`); a deletion request overwrites
  an administrator's lock; administrators who change each other at once deadlock.
- Consent: of two decisions that are made before the answer to either, the row may
  end as granted with `withdrawn_at` set, although the withdrawal was answered.
- Tokens: keys are attributes of a verifier made for each request, so the cache and
  its lifetime have no effect and every request fetches them under one lock of the
  process.
- Rate limit: refused requests are counted; two windows in a row let twice the limit
  pass.
- Privacy: the owner can sign in and write again between the purge and the
  anonymisation; a message that is delivered again before the lease of a dead worker
  ends is acknowledged without work, and the request stays `processing`; the clean
  copy of an upload that ends later survives; a second run's manifest is empty.
- Files: an intent's replay record is completed before the row has an id, so a
  repeated request is refused for ever; two completions leave a clean object that no
  row names.
- CV: a draft can be edited after it was confirmed; a version may be made active on a
  CV that is being archived; two retries of one analysis may get one attempt number.
- Job search: two deliveries may mix once an explanation has failed, because the mark
  of the failure commits half of the results; a collision of two checks fails the
  whole run; the index sorts by relevance but pages by time of creation, so the next
  page leaves postings out; a hybrid run keeps an indexed posting that the live check
  has just rejected.
- Catalogue: checks that run at once mix their columns, and one that commits between
  two moderators' decisions may leave the posting active; disabling a source only
  blocks later checks; a second report after a decision opens no case.
- Recommendations: a second delivery may set a completed run to failed or replace
  matches and delete their feedback; two changes of preferences at once count once;
  a profile derived from old inputs may be stored as fresh, and is used by a search.
- Applications: two devices with keys of their own create two applications for one
  job.
- Providers: a slot that is released by `DECR` and `DELETE` may lose the count of a
  call that came between, and a slot lost to a fault is kept alive by every later
  call; the circuit may open after a success has closed it.
- Stream: an event is recorded before it is forwarded, so a lost connection loses one
  chunk for good; content that was recorded before is shown again.

## 5. Proofs

TLAPS proves the following for every value of the constants that satisfies the
named assumption of the module, so for any number of reservations, payments,
workers, tokens, requests and faults.

| Module | Theorems | From | Argument |
| --- | --- | --- | --- |
| `CreditLedgerProofs` | `TypeCorrect`, `HoldsAreBacked`, `NoCreditIsMinted`, `HoldsCoverTheirCost`, `ExpiredIsNeverSpent`, `CreditsAreSpentInOrder`, `DebtIsForSpentCredits`, `ChargesAreOutcomes`, `ReversalsAreAccounted`, `LedgerFollowsBalance` | `ConstantsAssumption` | four invariants, each inductive with those before it, below |
| `CreditLedgerProofs` (the rows) | the action property `StatementsAreTransactions`; `AccountIsSoundUnderLocks` | `ConstantsAssumption`, `RowsAssumption` | `RowInv`: what each session believes is still so when it writes, below |
| `CvTaskProofs` (the lease) | `TypeCorrect`, `ChargedExactlyForResults`, `ImplementsLeasedTask` | `TaskAssumption` | two facts that the code nowhere states: a resource with a result has no lease, and a failed one that still has a lease was timed out, so its reservation is released. Without them an owner that wakes after the reconciler could charge a failure. The refinement maps each step to a step of `LeasedTask` or a stutter |
| `InterviewProofs` | `TypeCorrect`, `HeldOnce`, `ChargedWhenBillable`, `ConnectedOnce` | `InterviewAssumption` | `PaidOnce` says what the transactions in flight may believe: `IssuerIsRight`, `SettlerIsRight`, and that only the interview's own reservation is occupied. `OneSocket` says that an interview that can be connected has no connection |
| `PaymentInboxProofs` | `TypeCorrect`, `GrantsAreIdempotent`, `ReversedWithinPayment`, `ProcessedMeansApplied` | `PaymentAssumption` | the four together are inductive: a row becomes `processed` in the commit of its effect only, and counters only grow |
| `PrivacyRequestProofs` | `TypeCorrect`, `NoFileForgotten`, `TombstoneSaysTheTruth` (the last for `Production`, where an error of the cache fails the request) | `PrivacyAssumption` | the invariant says for every stage a worker may be at what is gone by then; it stays gone, because nothing another worker, the owner or an upload does puts back what was there before the request |
| `CvTaskProofs` (the library) | `LibraryTypeCorrect`, `FilesAreChecked`, `VersionsAreConfirmed`, and the action property `NoEditIsLost` | `CvAssumption`, `FileAssumption` | nothing is locked from the look to the write; what makes it right is that a clean key has one writer, a draft is only written with a higher revision, and a confirmed scan stays confirmed |
| `JobSearchProofs` | `TypeCorrect`, `ResultsAreOneRanking` | `SearchAssumption` | a worker's `DELETE` takes all the rows there are or none of them; two whole rankings both have the rank one, so that the unique constraint on the rank refuses the second. That a ranking has no gap is a count of the postings before each place |
| `MatchingProofs` | `TypesStayCorrect`, `PostingsStayVouchedFor`, `RankingStaysFair`, `RecommendationsStayCurrent`, `ApplicationsStayOneStory`, `LimitsStayKept`, `SpeechStaysKept` | the assumptions of the eight components | an invariant for each component, below; `PoolInv` puts them together, since a step of the pool is a step of the component `part` and of no other |
| `OperationsProofs` | `TypesStayCorrect`, `BillingStaysAccounted`, `AdministrationStaysAccounted`, `RequestsStayAdmitted`, `RequestsStayPaidOnce` | the assumptions of the eleven components | in the same way: an invariant for each component, below, and its own `PoolInv` |

Each proof has the same outline: lemmas about helpers, the initial states, one lemma
or step per action for `Inv /\ [Next]_vars => Inv'`, and the theorems by PTL.

The ledger. `IInv` joins types with `Sound`: the reserved credits of a bucket are
those of its open reservations, and with what is available and charged they fit in its
grant. Neither part is inductive alone: that `Settle` leaves no negative row needs the
first, that a refund fits needs the second. `Funded` adds that a reservation holds its
price. It rests on the greedy pass: the documented order is a strict order on the
stocked buckets, each gives the lesser of what it has and what is left, so the shares
add up to the price whenever the account has it. `Posted` says which keys are in the
ledger, `Reversals` what the event of a reversed payment has taken back. That the
entries of a transaction add up to its change of the balance is shown helper by helper;
for the reconciler the credits that go back to buckets are summed once by reservation
and once by bucket (`HeldIsTheirPrice`). The property excludes what section 4 finds: a
bucket that expires a second time.

The rows. `RowInv` says three things of each session: the copies it has are what is
committed (`Reads`); a bucket that matches its select and that it has not to lock has been
refilled since (`Selects`); and the reservations it ends are the ones it has locked, with
all their buckets locked or still to lock (`Ends`). A step of another session keeps this
because it leaves alone what the session has locked (`Undisturbed`): it writes only rows
that it has itself. At a commit the copies can therefore be replaced by the rows, and what
is written is what one transaction does to them. Neither `IInv` nor `Funded` is inductive
for `CreditRows` without this, since a stale copy written back breaks both; with it each
commit, including those that have missed something, keeps them, and so
`AccountIsSoundUnderLocks` follows for any number of sessions. What `CreditLedger` proves
beyond that (`NeverSpendsExpired`, `SpendsInOrder`) is true of its steps and not of the
others: a bucket that was missed is neither expired nor spent in its turn.

Sums and sizes by induction. The library's induction theorems take an operator and
cannot be instantiated by the provers, but a least counterexample needs no operator:
`LeastNat` (from `WFMin`: a set of natural numbers has a least element) gives
`SmallestSet` and `SubsetInduction`, stated for the set of the subsets that have the
property. All facts about sums over finite sets, and about the recursive function
`Total` of the ranking, are proved that way.

The pool of matching:

- `CatalogueInv`: a check that is under way and would list the posting saw it open, or
  the row it is about to write has expired by now; and nothing reports, rules on or
  loads a posting that is not there. `FiltersAgree` needs no more than the types of the
  row and of the filter.
- `AnswerInv`: the postings handed on are those of an answer that passed its
  validation. Their order is a count of those before each, hence without a gap, and the
  first of several that name one page is the one that stays.
- `RankingInv`: the list is sorted by the score. That the score is a share and monotone
  goes from sums (`TotalIsBelow`) over weighted means (`WeightedIs`, for two lists of
  inputs with the same weights) to the mixture (`FinalIs`); inputs of the mean come and
  go together for two comparable postings. A sorted list exists because the sort key is
  a strict order and every place in a strict order of a finite set is taken
  (`PlacesAreTaken`).
- `RecommendationInv`: what a request has read is not older than its beginning, and a
  run has a profile that fits. `RecommendationBounded`, for the types alone, adds that
  each message is in the queue or with one worker.
- `ApplicationInv`: a decision whose version is still the row's was made on the present
  status; no two devices have one key; a key in the history has its replay record.
- `ProviderInv`: a call has a slot from its admission until the command that gives it
  back, so a count that stays too high is among the `lost`.
- `LimiterInv`: the entry of a session that has renewed within a lease lasts as long as
  that lease, and the key as long as its entries.
- `StreamInv`: audio that a connection holds was recorded after all that was forwarded.

The pool of operations, most of whose invariants say what a call may believe of rows it
has read:

- `CatalogInv`: the windows of the active catalogs are a time line (`TimeLine`): disjoint,
  and the end of each is the beginning of another or open. An activation has its draft to
  itself, and what it has found is still active. The catalog that begins last is the open
  one, and of those that begin before a moment the last is in force, which is how the code
  finds the window to cut. Two calls that cut one window break the line, and `cutTwice`
  records that; the property says no more for them either.
- `TrialInv`: a transaction that decided to give the trial holds the account row or, when
  there is none yet, the user's row, so that no other decides meanwhile.
- `AdjustmentInv`: a decision past its look holds the adjustment and found it pending, and
  the commands, the statuses and what is posted tell the same (`AdjustmentWell`); of two
  calls with one key only one is past it (`CallsApart`).
- `CheckoutInv`: between the answer of the provider and the commit, the transaction of a
  request has the offer that the commit will store; a page shows a stored checkout.
- `WorkInv`: each analysis is named by one record (`TicketsAnswered`), and a client past its
  claim holds a record that has no answer yet, and with a price to pay the account too.
  Credits are counted by sets (`PaidFor`), and each transition moves one element.
- `RolloutInv`: at most one configuration is active and one a canary (`OneOfEach`), and an
  activation under way still has the report it looked at. An activation writes its rows
  one after the other, and the index refuses an order that would leave two.
- `JobInv`: of every job no more messages are queued or being executed than were sent
  (`MessagesFlow`); what is sent, read or executed is a job (`MessagesHaveJobs`), and a job
  beyond the first has its dispatch and its command.
- `AccountInv`: a command that has locked both rows knows what they hold, and whoever is at
  the head of the chain holds it. The property itself is the rest of the invariant.
- `ConsentInv`: the row holds the decision that is `Governing`, the last one on its version
  if it was made when the answers to the earlier ones were known; a request that is about
  to write it has read the row as it is, and no two requests write one decision.
- `TokenInv`: what the provider published since a check began includes what it publishes
  now, and likewise for what it withheld; the keys a verifier has are among the former.
- `RateInv`: requests that passed under a key are among those counted under it, and a client
  and operation have one key (`AskersHaveKeys`).

The assumptions are those of the constants: the sets of catalogs, prices,
configurations, callers, sessions, workers and words of a title are finite, the shares a
posting brings are shares, and the bounds of a filter are amounts; a limit lets at least
one request pass and is below the bound of the counter; and the values that stand for
"nothing" (`NoTicket`, `NoSession`, `NoTransaction`, `Nobody`, `NoCaller`) are none of the
values they are told from. TLC checks each; they hold of the code because the values come
from rows, from settings or from validated requests.

Every invariant and every safety action property that a run checks is proved, the
refinement of `LeasedTask` included. The type invariants are proved and in no run, where
they would say less than the other properties do. Only model-checked: liveness (`ReservationSettles`,
`Settles`, `HoldsSettle`, `SessionsEnd`, `AllTakeEffect`, `RunEnds`), which needs fairness
and ENABLED.

## 6. What is not modelled

Whole components: the legacy API, which is mounted only when `legacy_api_enabled` is
set and which Product v1 replaces part by part; and the adapters that build prompts and
parse the answers of models, with the metrics, which keep no state (an answer or a
failure is a choice in the models that call them).

In the modelled ones: the `balance_after` column of the ledger; texts of transcripts, reports
and explanations; embeddings and the query of the index; the decoding of provider
messages and the set-up message of a session; page cursors except those of the index;
saved and hidden jobs; lists, dashboards and maintenance statistics of the
administration; what an export holds of each table; the checks of amount and offer of
a payment and the limit of one hundred rows in a pass of the reconciliation; redirect
addresses and the fetch of the provider's key address.
