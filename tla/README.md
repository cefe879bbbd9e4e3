# pesagrid-server: a TLA+ development

PesaGrid collects payments for businesses (tenants): payment providers (PSPs)
report each payment to a webhook, the system stores it, matches it with an
obligation of a payer or with a collection point, bills payers again each
cycle, notifies, and bills the tenant for its use. This directory holds the
TLA+ model of its core, the TLC configurations that check it, and the proofs
TLAPS checks.

    tlc -config PipelineCrash.cfg MCPaymentPipeline     # one run
    tlapm PaymentPipelineProofs.tla                     # the proofs of a module

## 1. The system

Two processes run the same code base, with `restart: always`
(`docker-compose.yml`): **pesagrid-api** (FastAPI on one uvicorn process) and
**pesagrid-worker** (`worker.py`: a RabbitMQ consumer and the scheduled jobs,
on one event loop, with threads for `asyncio.to_thread`). They share Postgres,
at READ COMMITTED, through SQLAlchemy sessions that neither lock rows nor check
versions (`core/dependancies.py`: `autoflush=False`), and one durable queue,
`pesagrid-worker.worker`.

| Component | State | Operations | What makes it correct |
|---|---|---|---|
| Webhook gateway (`ingestion/routers.py`) | none | three PSP callbacks: publish, answer 200 | a queued callback is eventually processed |
| Message bus (`rabbitmq/`) | the queue, unacked deliveries | publish; deliver at most 10 at a time; ack after the handlers; redeliver | no message is lost between accept and ack |
| Ingestion (`ingestion/services.py`, `handlers.py`) | `transactions` | `ingest_normalized`, `ingest_manual` | a payment is stored once, and gets its event |
| Reconciliation (`ingestion/reconciliation.py`) | `transactions`, `transaction_allocations`, `obligations`, `payers.credit_balance` | `reconcile`, `manual_match_transaction`, `rollback_payment`, `reconcile_transaction` | a payment is applied once; money is conserved; the books of each row agree; a rollback undoes exactly its match |
| Obligations (`obligations/services.py`, `logic.py`) | `payers`, `obligations`, `recurring_configs` | create (with credit), update, cancel, delete; ledger and tracker queries | debt and credit are explained by what was billed and paid; credit is used once |
| Recurring cron (`obligations/cron.py`) | the same, and the view `ledger_summary` | roll over due obligations; send reminders; refresh the view | one new obligation per cycle, later than the last, carrying the balance; a due series is billed; one reminder a day |
| Tenant billing (`billing/`) | subscription, wallet, wallet transactions, invoices | subscribe, top up, deduct, suspend, block, invoice | a top-up is credited once; the wallet is never negative and agrees with its history; a tenant that pays is not blocked |
| Notifications (`notifications/`) | templates, preferences, log | a handler per event, template and preference requests | every contact is tried and logged; only what was sent is charged; the handler ends |
| Auth (`auth/`, `core/dependancies.py`) | users, codes | register, verify, log in, confirm an action, reset, Google sign-in and link | a code that has worked is gone; the newest works; an account is verified by proof; a callback is answered |
| Cache (`core/cache.py`) and the read pages | Redis keys | get, compute, set with a life | no page is older than its life allows |
| Rate limiter (`core/rate_limit.py`) | the window of each address, in memory | check | its dependency is used by no route |
| Accounts (`accounts/`) | PSP accounts, profile | CRUD | secrets are per tenant |
| Dashboard (`dashboard/`) | none but the cache, and the preferences of a profile | read-only SQL; `update_notification_prefs` | as the read pages |

Components meet in three ways: through the queue (gateway → ingestion →
reconciliation → notifications and billing), through rows that two of them
write without locks (transactions, obligations, payers, wallets), and through
direct calls inside one process. Hard to get right, and what the properties
aim at: two commits with a publish between or after them, and a crash there;
messages delivered twice, also *next to* a handler still running; the check
before an `await` or in another thread; counters added to by read-modify-write;
sequences of legal operations (match, cancel, roll back, match again).
`PROJECT.json` lists every hazard at its line, with the properties that would
catch it.

## 2. Modules

| Module | Models |
|---|---|
| `PaymentLedger` | the abstract promise: a payment is credited at most once, to one place, for good |
| `PaymentPipeline` | gateway, queue, ingestion, the course of reconciliation, manual entry, crashes and reconnections; implements `PaymentLedger` |
| `Reconciliation` | amounts: reconcile, apply, roll back, manual match; a new obligation taking credit; cancellation |
| `Billing` | subscription and wallet of a tenant: plans, top-ups, deductions, suspension, trials, invoices |
| `Schedule` | `compute_next_due` over any calendar |
| `Obligations` | life cycle of obligations, the recurring series, the billing and reminders jobs; extends `Schedule` |
| `SignIn` | accounts, one-time codes, Google sign-in |
| `Notifications` | the handlers of the worker, the dispatcher, templates, the log, what is charged |
| `ReadModels` | the age of cached pages and of the materialised view |
| `Sums` | sums over a finite set; extended by `Reconciliation`, `Obligations` and `Billing` |
| `...Proofs` | theorems about the module of that name (those on `Schedule` are in `ObligationsProofs`) |
| `MC...` | its instance for TLC |

`Reconciliation` and `Obligations` share rows: the first has the interleavings
of payments, with a new obligation and a cancellation beside them; the second
has those of managers and jobs, with a payment as one step. `Notifications`
meters what `Billing` deducts (`Usage`).

Plan of what is left, in order:

1. what several sessions of `Reconciliation` and `Billing` still keep of the
   books: a usage fee is invoiced (TLC finds `UsageIsInvoiced` true with two
   sessions too), and the parts of `BooksAgree` about a row that no two
   sessions hold;
2. `AccountRouting`: payers and collection points never share an account number.

## 3. PaymentPipeline

One tenant. A *callback* is one delivery of a PSP's webhook; a PSP may repeat
it, so several callbacks may report one payment, with one reference. A *manual*
is a request to the manual-entry endpoint. A row of `transactions` takes the
name of the callback or request that inserts it.

| Variable | Code |
|---|---|
| `answered` | callbacks answered with 200 |
| `broker` | each message: absent, queued, unacked, acked |
| `row` | `transactions.status` |
| `applied` | the number of `transaction_allocations` of a row |
| `notified` | outcomes published as `payment.*` events about a row |
| `target` | `transaction_id` in the payload of `payment.received` |
| `stage`, `held`, `seen`, `live` | a handler invocation: where it is, its message, the status `reconcile` read, whether its channel is still the one it got the message on |
| `request` | progress of a manual entry |

| Action | Code |
|---|---|
| `Callback` | `mpesa_callback` and the two bank callbacks |
| `DeliverWebhook`, `Insert`, `Publish`, `Ack` | `handle_webhook_*`, `_store_transaction` (check, then insert), `_publish_payment_received`, the ack in `process_message` |
| `DeliverReceived`, `Apply`, `Notify`, `Ack` | `handle_payment_received`: `reconcile` reads, commits; `reconcile_transaction` publishes |
| `ManualCheck`, `ManualInsert`, `ManualPublish` | `ingest_manual` |
| `WorkerCrash`, `ApiCrash`, `Reconnect` | process restarts; `connect_robust` |

Each action is a segment of a handler between two points where it waits. The
handler's first segment is merged with its delivery, because before it nothing
shared is touched. The lookup and the insert of `_store_transaction` are kept
apart although one event loop runs them together, so the results hold for any
number of worker processes. `handle_webhook_mpesa` ends in a name that is not
defined (handlers.py:55); the consumer catches it and acks, which is what `Ack`
does after every handler. Which outcome `reconcile` reaches depends on routing
data and obligations, so `Apply` chooses any; amounts are in `Reconciliation`.
`notified` records a CATEGORIZED event whether or not the collection point has
acknowledgements switched on; no property looks at those.

### Runs

| Run | Shows | Distinct states |
|---|---|---|
| `PipelineCrash` | with 2 handlers, 2 crashes, a failed publish, a repeated webhook and a manual entry of its own: `CountedOnce`, `StatusTellsAllocation`, `ClosedStays`, and the refinement `CreditsOnce` | 1 047 000 |
| `PipelineRecovery` | a crash, a lost connection and a failed publish: `QueuedIsStored`; and, in the behaviours in which none happens, `QueuedIsReconciled` and `MatchedIsNotified` | 114 000 |

Five more things the model shows and no run keeps, so that nothing here would
catch their getting worse: the first and third are outside what the liveness
properties judge (behaviours without faults), the others outside the runs'
constants. A crash between the commit
of a row (services.py:365) and the publish of its event (406) leaves it RAW for
good: the redelivered webhook finds the row and returns. A manual entry of a
known reference (services.py:429) publishes the event of that row again, and
two handlers then apply it twice. `MatchedIsNotified` fails
with one crash: the match is committed before its event is published, and the
redelivery returns early (reconciliation.py:330). `ClosedStays` and
`CountedOnce` fail with `MaxReconnects = 1`: `connect_robust` resumes consuming while handlers of the
old connection still run. `QueuedIsStored` fails with two callbacks of
different payments that both lack a reference: both are stored as `""`, which
skips the early check and meets the unique constraint.

Bounds: two callbacks of one payment are a PSP's retry, and a third source
races with both; two handlers are the least that interleave; two crashes allow
one in the recovery from another. Handlers are interchangeable, so the runs of
safety properties that need it use symmetry; the liveness runs do not.

Fairness (`FairSpec`): the event loop and the threads run every handler that
can move, and the broker offers a queued message while a slot is free. Weak
fairness is enough, for a slot that frees stays free until a delivery, and
every handler ends. Callbacks, manual requests and faults need not happen.

### Proofs

`PaymentPipelineProofs` proves, for every value of the constants:

* `TypeCorrect`, `ReferencesUnique`: no assumption beyond the module's;
* `AllocatedOnce`, `StatusIsAllocation`, `ClosedIsFinal`, `ImplementsLedger`:
  when no connection is lost under a running handler (`MaxReconnects = 0`) and
  manual entries stand for payments of their own (`ManualsApart`). The
  manual entry of a known reference and the reconnection described above show
  that neither can be dropped.

`CountedOnce` is not inductive: that a handler about to apply reads a status
that is still the row's rests on no second handler holding a message about the
same row. The inductive invariant `OnceInv` says so in named parts: `RowInv`
(types; an event has its row; one row per reference), `HandledOnce` (an unacked
message is held by exactly one handler), `OneEventPerRow` (one message names a
row), `ReadIsFresh` (what a handler about to apply has read is what the row
says), `AllocationsAgree` (status and allocations agree). TLC found each of
them before it was proved. The argument for the ledger: an `Apply` that credits
does so from a row that is not closed, so, by `CountedOnce` and
`AllocationsAgree`, no entry of the ledger has its payment; every other step
leaves the credits alone.

Liveness (the leads-to properties) is checked by TLC alone.

## 4. Reconciliation

The rows with their amounts, and sessions that work on what they have read.
`run[s]` is a database session: the step it is at and the rows as it read
them. A SELECT is a step that copies committed rows into the session; a commit
is a step that writes back the columns the session changed (`Flush`), which is
what SQLAlchemy emits: a column whose new value equals the one read is not
written, so two sessions can leave a row that mixes both.

| Action | Code |
|---|---|
| `Reconcile`, `Route`, `Pick`, `Apply` / `Categorized` / `Unmatched` | `reconcile`, its queries in order, its three commits |
| `Ask`, `Match`, `Undo`, `UndoPayer`, `Undone`, `Target`, `Overflow`, `Apply`, `Again` | `match_transaction`, `manual_match_transaction` with `rollback_payment`, then the forced `reconcile_transaction` |
| `Create`, `Created` | `create_obligation` and `apply_credit_to_obligation` |
| `Cancel` | `cancel_obligation` |
| `Repeat`, `WorkerCrash` | a second `payment.received`; a restart of the worker |

`manual_match_transaction` is synchronous on the event loop, so one runs at a
time, while `reconcile` runs in threads beside it. OVERDUE is in the code's
list of open statuses but no code assigns it; DUPLICATE likewise for
transactions. The routing of a reference (`RoutesTo`) may change between
deliveries, as payers and collection points are edited.

| Run | Shows | Distinct states |
|---|---|---|
| `ReconSerial` | one session at a time, crashes between any two steps, a match older than the allocations table: `MoneyConserved`, `MatchIsAllocated`, `BooksAgree`, `PaidLeavesWithAllocation`; a manual match in the queue is made whatever crash comes: `MatchIsMade` | 673 000 |
| `ReconLostUpdate` | *violation*: two payments of one obligation at once, one lost | |

A manual match beside a reconciliation of the same transaction
(reconciliation.py:284) is the other way to go wrong with two sessions: both
have read it unmatched and both allocate it; two payments of one payer lose
credit the same way. `MatchIsAllocated` and `MoneyConserved` fail with two
sessions; nothing here judges them there. A match made before the allocations
table existed cannot be rolled back (reconciliation.py:228): there is no
allocation to undo, the match is cleared and the money stays, so that the next
match brings it a second time. `MoneyConserved` counts what stayed behind.

Bounds: two transactions (one of 2, matched to the first obligation before the
allocations table existed; one of 3, new, more than the first obligation still
needs), two obligations (one there at the start, one created later, which takes
the credit), one payer; two manual matches are a match and its correction. What
holds with one session and fails with two is the point of the pair
`ReconSerial` / `ReconLostUpdate`: the code's read-modify-write is right only
when nothing else touches the row.

`BooksAgree` judges the status as well: SETTLED only with nothing left, PARTIAL
only with something paid, PENDING only with nothing paid. The converses fail, and
nothing in the repository says what should be: a rollback makes every obligation
that keeps some payment PARTIAL (reconciliation.py:249), also one whose balance
is 0 because the rest was paid from credit. Nor does anything judge that a manual match takes a VOIDED obligation and makes it PARTIAL or SETTLED.

Fairness: sessions that have started run on; the broker keeps delivering events
and requests to match. Weak fairness is enough: payments and requests are few,
and each keeps its delivery enabled while the slot is free. With two sessions `MatchIsMade` would fail too, by a torn transaction row.

### Proofs

`ReconciliationProofs`, for every value of the constants that satisfies
`ReconciliationAssumption`:

* any number of sessions: `TypesHold`. Next to the types of the tables its
  invariant `TypeInv` says by the step a session is at what it has read
  (`Shaped`) and that allocations are finitely many, so that a new one gets a
  key of its own (`FreshIdIsFree`, by the pigeonhole principle);
* one session at a time (`OneSession`) and no match older than the allocations
  table (`NoLegacy`): `MoneyStays`, `MatchHasAllocation`, `BooksBalance`,
  `PaidLeavesOnlyByUndo`.

The first hypothesis cannot be dropped: with two sessions in the instance of
`ReconSerial`, TLC refutes each of the four properties (`ReconLostUpdate` keeps
one such behaviour). The second leaves out what the run has: its properties
speak of a match of before the table as well (`Unrecorded`), the proofs are about
systems without one.
A crash may come between any two steps, and a cancellation beside the session.

The invariant is `SerialInv`. None of the three state properties is inductive:
a commit writes what follows from the session's copy, so the copies must be
what the rows are (`Current`), but for an obligation's status, which
`cancel_obligation` may change meanwhile: `Current` speaks of its paid amount
and balance only, and the lemma `StatusOf` of what a commit makes of a status. `AbsentIsEmpty` says that an obligation starts without
payments, which the books need when it is created. Money moves in three steps
(`Apply` brings it into an obligation and credit, `Undone` takes it back,
`Created` moves it from credit to a new obligation), and each changes every sum
at one place, which the facts on sums below settle.

`SumsProofs` has the two facts these proofs keep needing: a sum over a finite
set can be taken apart at any element (`SumRemove`), and a change at one place
changes it by the difference (`SumChange`). `SumOver` is a recursive function
on subsets of an arbitrary finite set; that there is such a function, and what
it gives, is shown by looking at a smallest subset for which it fails
(`SmallestSubset`, from the library's `WFMin`), so no induction theorem is used.

`MatchIsMade` is checked by TLC only.

## 5. Billing

One tenant. `sub` is its row of `tenant_subscriptions`, `balance` its wallet;
`credited`, `welcomes` and `fees` summarise `wallet_transactions`, `invoiced`
and `billed` the invoices; `spent` is history: the code keeps no record of
single deductions. `run[s]` is a database session with what it has read, as in
`Reconciliation`. Money is whole; a month is `MonthDays` days.

| Action | Code |
|---|---|
| `Subscribe`, `Grant`, `Switch` / `CreateTrial` | `subscribe`, `_check_and_grant_welcome_credit` (threads of the API) |
| `Verify`, `Answered`, `TopupWallet`, `Topup` | `verify_topup`: look the reference up, await Paystack, read, credit, perhaps reactivate. Called by the user's return and by the webhook |
| `Usage`, `UsageWallet`, `Deduct`, `Recheck`, `Low`, `Suspend`, `Ack` | `deduct_usage`, `_check_and_suspend` |
| `ExpireTrials`, `Expire`; `EnforceGrace`, `Enforce`; `Invoice`, `InvoiceWallet`, `Invoiced` | the three scheduled jobs, each a SELECT and a commit |
| `Tick`, `ApiCrash`, `WorkerCrash` | days; restarts, after which usage events are delivered again |

One top-up at a time goes from Paystack's answer to the commit, and one usage
event from delivery to ack: these run on one event loop without waiting.
Everything else interleaves. `get_or_create_trial`, `assert_active` and
`handle_paystack_webhook` (services.py) have no caller and are left out;
`initiate_topup` and the queries change no row.

| Run | Shows | Distinct states |
|---|---|---|
| `BillingSerial` | one session, a restart between any two of its steps, two plans, two months: `BalanceExplained`, `UsageIsInvoiced`, `FullGrace` | 1 190 000 |
| `BillingThreads` | two sessions: `WalletNeverNegative`, `TopupByWaiting`, `GraceOverEnds` | 389 000 |
| `BillingTopupTwice` | *violation* of `TopupOnce`: the user's return and the webhook of one payment (`verify_topup`, services.py:235) both find its reference unused and both credit it, although routers.py:223 calls the request "Idempotent — safe to call multiple times" | |

What is true of overlapping verifications is `TopupByWaiting`: one that looks
after a credit gives none, so a payment is credited no more often than sessions
can be verifying it at a time; `BillingThreads` allows three verifications in two
sessions. The welcome credit is likewise granted once for each overlapping
change of plan (`WelcomeByWaiting`). `UsageIsInvoiced` says that what was taken is
counted for an invoice; an insufficient wallet skips the deduction after it was
counted (services.py:371), so more may be counted than was taken, and nothing
judges that. With two sessions `FullGrace` fails: a change of plan that commits between the
SELECT and the commit of `enforce_grace_periods` reactivates the subscription,
and the job blocks it all the same.

Bounds: fees of 1, minimum balances of 2 and 3 and a top-up of 3 make every
comparison with the wallet come out both ways; a trial and a grace period of a
day, and four days, are enough for a suspension, its end by a change of plan,
another one, and two invoices. With two sessions `BalanceExplained` fails as
the money does in `Reconciliation`, by a lost update: a top-up writes over a
deduction. What remains true then is in `BillingThreads`.

Fairness: a session that has started goes on; the daily jobs run each day, so
for ever after the last day of the model. Strong fairness for the jobs, since
they wait for a free slot. `GraceOverEnds` allows for one case seen in the
model: a deduction that read the row ACTIVE commits a new suspension over the
one that is overdue.

Seen and not judged by a property: a BLOCKED tenant stays BLOCKED, whatever it
pays or subscribes to (services.py:267 reactivates a SUSPENDED one only),
although the message of `assert_active` (services.py:620) tells it to top up
"to restore access".

### Proofs

`BillingProofs`, for every value of the constants that satisfies
`BillingAssumption`. The invariant is `BillingInv`: rows of their types, the
wallet not negative, a deadline on every suspended row, and `HeldOK` for each
session: what it has read by the step it is at. `HeldOK` is needed because a
commit writes what follows from the copy: a deduction takes the fee from a
balance that covered it, a top-up that clears the deadline has read SUSPENDED
and so writes ACTIVE with it. `FlushKeepsGrace` is the lemma on the unit of
work both rest on.

* any number of sessions: `BillingTypes`, `NeverNegative`, `GraceIsSet`;
  `CreditedByWaiting` and `WelcomedByWaiting`, by counting: what was credited
  and the sessions that looked before any credit and have yet to commit
  (`Waiting`, `Granting`) are together no more than the sessions there are;
* one session at a time (`OneSession`): `GraceIsGiven`, which needs that the
  deadline in the row is the running suspension's (`GraceDates`), which holds
  with any number of sessions (`GraceDatesNext`).
* one session at a time, the books: `BalanceAddsUp` (`BalanceExplained`) and
  `FeesAreInvoiced` (`UsageIsInvoiced`). Their invariant `BooksInv` adds that
  what the session has read is still the row when it commits (`Current`) and
  that a tenant without a subscription has no wallet (`NoWallet`), which is
  why the first subscription may start one. The sum over references is
  `SumOver`, with its lemmas from `SumsProofs`.

Types, the wallet's sign and the deadline hold for any number of sessions
because each commit keeps them by itself. With `OneSession` the counting gives
one credit for a payment, which is all the code's check can promise. `GraceOverEnds` is checked by TLC
only.

## 6. Obligations and Schedule

`Schedule` is `compute_next_due` (`obligations/logic.py`) over a calendar given
by constants: for every day its place in its month and the length of the month.
It is a module of its own so that its lemmas hold for any calendar, the
Gregorian one included.

`Obligations` has three parties that write the same rows without versions: a
request of the API (the event loop runs one at a time), the billing job in a
thread of the worker, and the reminders job in another.

| Variable | Code |
|---|---|
| `ob`, `config`, `credit` | `obligations`, `recurring_configs`, `payers.credit_balance` |
| `api` | the request being served, with the rows it has read |
| `billing` | the billing job: the batch of due series, the cycle at hand, its rows as read, the events it keeps for the end |
| `reminders` | the reminders job: its day, offset, page, and events |
| `told`, `reminded` | published events |
| `billed`, `received`, `adjusted`, `raced`, `moved`, `wiped` | history |

| Action | Code |
|---|---|
| `Update`, `Cancel`, `Delete`, `UpdateSeries`, `Create`, `RemovePayer`, `RemoveGroup`, then `Commit...` or `Conflict` | the requests of `obligations/services.py`: the SELECT with its refusals, and the commit with its event |
| `Pay` | `_apply_payment`, whose interleavings are `Reconciliation`'s |
| `SelectDue`, `ReadCycle`, `InsertCycle`, `CommitCycle`, `CycleFails`, `PublishCycles` | `_run_billing_cycle_sync`: its loop, the flush that inserts the new cycle, the commit that writes the old one and the series, its failure, the events of all cycles at the end |
| `StartReminders`, `ReadPage`, `Remind`, `PublishReminders` | `_run_reminders_cycle_sync`: pages by OFFSET without an order, one commit per obligation, the events at the end |
| `Tick`, `WorkerCrash`, `ApiCrash` | days; restarts |

| Run | Shows | Distinct states |
|---|---|---|
| `ObligationsCycles` | a series with any plan over three days, a request of any kind, a payment, a fault: `DebtExplained`, `RolledOnce`, `PeriodsAdvance`, `RemindedOnce`; liveness: `DueIsRolled`, `NewestIsTold` | 1 413 000 |

The billing job locks no row it will change: `autoflush` is off, the flush
inserts the new obligation, and the old one and the series are first written at
the commit (cron.py:118). The INSERT holds the payer's row against deletion
only, so between the two any payment, edit, cancellation or deletion may commit.
A deleted series makes the commit fail (`CycleFails`), and a payer removed
meanwhile makes the INSERT fail, or meets the job in a deadlock that the
database ends either way (`Deadlocked`). The handler of such a failure reads the series
on the broken session before it rolls back (cron.py:150), which raises again: the
job ends (`JobEnds`) and publishes what it has billed until then. An exception
before the flush, a NULL `meta`, is caught as intended (`RolledBack`).

Bounds: months of three and two days make a clamp, a month that lacks the day
of the plan and both orders of a date and its month's end happen within three
days; one plan has a negative interval, and `MaxObligations` ends its cycles,
which the code goes on making in one run; a page of one row makes the reminders
job read several; one request and one payment are enough to come between any two
steps of a job.

Fairness: the event loop finishes its request, both threads run, and the
scheduler starts the billing job every few hours (so a job that is idle while
something is due starts). The reminders job need not start.

What the model shows and no property judges:

* both places that create a recurring series call `_compute_next_due`, which
  the class does not have (services.py:299, 387): the request rolls back. Series
  exist only initially in the model;
* a series whose obligation has NULL `meta` keeps the job in its loop, and so does
  one with a negative interval, which the schema accepts (schema.py:97): it is
  due again at once, and nothing is told. `DueIsRolled` and `NewestIsTold` excuse
  these two (`Stuck`), `PeriodsAdvance` the second (`Backwards`);
* a series or a payer deleted while the job works on a cycle ends the whole job,
  the rest of its batch included;
* a cancelled obligation whose series is switched on again passes its balance
  on to the next cycle, as a paid one never does (`CommitCycle`, the last term
  of `billed`);
* `base_amount` in `meta` wins over an `amount_due` a manager has edited;
* with `day_of_month` NULL the day drifts to that of the shortest month passed;
* a payment between the SELECT and the commit of a cycle is carried over as
  unpaid, and a series switched off there is billed once more; `DebtExplained`
  is about the behaviours before such a race (`raced`), and counts the extra
  cycle as billed;
* a crash or a failed publish loses the events of a run: `NewestIsTold` is about
  the behaviours without faults, and no property says that a reminder arrives;
* `end_date` and `grace_period_days` are stored and never read.

### Proofs

`ObligationsProofs` begins with the calendar, for every one that satisfies
`CalendarAssumption`: `NextDueLater` (the next due date is later exactly when the
interval is not negative, or none for TERM) and `MonthlyIsFirst` (a monthly date
is the first after the given one on the day asked for, or the last day of a
month that lacks it).

For all constants that satisfy `ObligationsAssumption` and `MetaAssumption`
(NULL is not a JSON object) it proves `TypeCorrect`, `CyclesChain`,
`CyclesAdvance`, `DebtsExplained` and `RemindersOnce`. `RolledOnce` is not inductive: a
commit appends a cycle after the obligation the job *read*, which nothing locks.
The invariant `CycleInv` is `RowsOK`, `ApiOK`, `RemindersOK` (types), `BatchOK`
and `CycleOK` (what the job has read of a series is what the row says, as far as
only the job writes it, until the series is deleted, when the commit fails),
`ChainOK` (series never share
an obligation, and a cycle belongs to the series of the one before) and
`DatesOK` (a series is due after its newest cycle). The proof splits on who
moves: `Kept` says what requests, payments and reminders may do while the job
works, `Extended` what the commit of a cycle does, and `NextDueLater` gives the
advance of the dates.

`DebtsExplained` (`DebtExplained`) rests on `DebtInv`, which adds to `CycleInv`
what holds until a session commits over a row that changed since it read it
(`Fresh`): every balance is what is left of its row, and the debts are
explained; a commit of the billing job over a row that is not as it was read sets
`raced`. The rows in a
payer's debt are a set that changes with statuses, so each step is first
reduced to what it does to one row, or to one row and the new one
(`Owes`), and then summed.

`RemindersOnce` (`RemindedOnce`) needs to relate three places. A run marks an
obligation in its row, keeps the event, and publishes all of them at the end;
a page by OFFSET may show the row again. `RemindedInv` says: the events a run
keeps are all of its day and none twice, and their rows are marked
(`EventsOK`); what has gone out is of an earlier day than a run under way
(`OnceOK`), which is why a run that dies unpublished and is followed by another
does no harm. Both excuse rows whose `meta` a manager replaced or a session
wrote over (`Spoiled`), as the property does.

The liveness properties are model-checked only.

## 7. SignIn

All one-time codes are rows of one table, `auth_tokens`, without a purpose:
the flow that takes a code decides how old it may be. `tokens` are those rows,
`account` the rows of `users`; `held` is the row that each reader (a `verify_mfa`
in a thread, or the handler the event loop runs) has selected and not yet
deleted; `callback` the Google callbacks in progress; `blocked` says that the
event loop waits for a row lock that only it could release.

| Action | Code |
|---|---|
| `Register`, `SendAgain`, `RequestReset`, `RequestAction` | `register_user`, `login` and `resend_verification` of an unverified account, `request_password_reset`, `request_mfa_token`: a new code and what it replaces, in one commit; the publish after it changes nothing that is modelled |
| `ReadToVerify`, `VerifyAccount` | `verify_account`: SELECT of a code by its hash alone; later the DELETE and the commit |
| `ReadToReset`, `ResetPassword` | `reset_password`, in the same two steps |
| `ReadAction`, `ConfirmAction` | `verify_mfa` (`core/dependancies.py`), in a thread: SELECT, later DELETE and commit |
| `StartCallback`, `SignInKnown`, `InsertNew`, `PublishWelcome`, `CommitNew` | `handle_google_callback`: await Google; sign in or attach; or INSERT, await the publish of the welcome, commit |
| `Link` | `link_google_to_account` |
| `Tick`, `Crash` | time; a restart of the API |

| Run | Shows | Distinct states |
|---|---|---|
| `SignInCodes` | `WorksForReaders`, `NewestWorks`, `VerifiedByProof` | 1 695 000 |
| `SignInGoogle` | *violation* of `CallbackAnswered`: two callbacks of one new Google account; the second INSERT waits for the row of the first on the event loop, which never gets to commit that one | |

Bounds: two users and two codes make the codes of different users collide; two
threads read one row at a time, beside the loop's own flow; two callbacks are
the least that wait for each other. Fairness, which only `SignInGoogle` needs:
the event loop resumes callbacks and the threads run. Requests, time and faults
need not happen.

A code can work more than once. `verify_mfa` says "Consume token so it can't be
reused" (`core/dependancies.py:171`), and that is so for every request that
comes after the DELETE. But the SELECT locks nothing, and a DELETE that finds
its row gone is only a warning of the database layer: each request that has
read the row by then, in a thread or on the loop, goes on with the same code.
`WorksForReaders` states what is left of the promise: a row that is stored has
never worked, and a code works at most once for each reader there can be (TLC
reaches three times with two threads and the loop). `NewestWorks` says something
only while `clock <= ActionLife`, since a `verify_mfa` that comes later deletes
a code the other two flows would still take.

Seen and not judged: registering again for an unverified account keeps the old
password; a code of another user with the same digits is taken in place of
one's own (its owner is verified, which is why `VerifiedByProof` speaks of the
code's user); a publish that fails after the commit is answered 500 although
the code is stored. `setup_user` has no caller and is left out.

`SignInProofs` proves `CodesWorkForReaders`, `NewestCodeWorks` and
`VerifiedIsProved` for any users, codes, threads and callbacks. The invariant of
the codes, `CodesInv`, adds to the types (`CodesOK`) that a code has worked at
most as often as there are readers who no longer hold it (`UsedInv`: `used` plus
the number of its `Holders` is at most `Cardinality(Readers)`, and a stored row
has `used` 0) and that the newest code is stored until it works (`NewestInv`).
With the holders counted, `UsedInv` is inductive: only a stored row is read, and
a use gives up a hold. The lemma `CodeSteps` lists what a step
may do to codes, so that each part is proved against four cases, not twelve
actions. `AccountsOK` is what `VerifiedByProof` needs of the accounts.
`CodesAreGrounded` (`TypeOK`) is also a statement about the rows: no handler
deletes a user, so a stored code, a copy a reader holds and a Google account
always belong to an account that is there (`Grounded`). A code is only sent to
an account the request has found or is inserting, and a reader copies a stored
row.

## 8. Notifications

A handler of the worker is a list of calls to the SMS and e-mail providers
(`todo`), and every call is an await: other handlers, requests that change
templates or preferences, and faults come between a call and the row of
`notification_logs` it leads to. `job[s]` is a running handler; `acks` whether
its acknowledgement would still reach the broker. `tasks` are the usage events
the dispatcher publishes in tasks nobody waits for (`asyncio.create_task`).

| Action | Code |
|---|---|
| `Deliver`, `Finish` | delivery and acknowledgement (`rabbitmq/consumer.py`) with the list of calls of the event's handler (`handlers.py`, `_send_auth_notification`) |
| `Call`, `Skip`, `ReturnPayer` | `dispatch`: the template, the call, its row, the next channel |
| `AskPreferences`, `ReturnOwner` | `_notify_business` |
| `ReturnNotice`, `ReturnAccount` | notices of configuration and top-ups; codes, where the first call that does not raise is the last |
| `PublishTask` | `_publish_billing_notification` |
| `CreateTemplate`, `CreateBulk`, `UpdateTemplate`, `DeleteTemplate`, `UpdateSettings`, `UpdatePrefs` | the requests |
| `Crash`, `LoseConnection` | the worker restarts; the broker takes back what was delivered while the handlers run on |

| Run | Shows |
|---|---|
| `NotificationsFaults` | `EveryChannelLogged`, `MeteredIsSent`, `CodeIsAnswered`; liveness: `EventIsHandled` |

Bounds: one event of each group of kinds with two handlers at a time, which a
lost connection makes run beside each other; one request; one fault (a crash, a
lost connection, a row that cannot be written, a failed publish). Fairness: the
loop runs every coroutine that can go on, and the calls end (the SMS client has
a timeout); the broker delivers again.

Seen and not judged: the business is charged for an SMS to itself that the
provider refused and for mail that is skipped; its notices leave no row; a second default
template can be made by an update or in one bulk request; `update_notification_prefs`
changes the loaded JSON in place, so only the first preferences are stored; the
head of `dispatcher.py` (9–14) says that there are no hardcoded fallbacks and an
event without a template is skipped, while its fifth step falls back to the
library.

The fallback of codes is narrower than `auth/handlers.py:25` says ("primary
channel with email/sms fallback"). The next contact is tried when a call
raises; an SMS the provider refuses is not raised but returned as a value
(`send_sms.py:40-45`), the handler is done, and no mail is sent. So
`CodeIsAnswered` says only what the code does: when the event of a code is
acknowledged, a call came back, be it with a refusal, or every contact of the
account was tried. It does not say that the code reached anybody.

### Proofs

`NotificationsProofs`, for any events, handlers at a time and faults:
`ChargedForSent` (`MeteredIsSent`), `ChannelsAreLogged` (`EveryChannelLogged`)
and `CodesAnswered` (`CodeIsAnswered`).

That a SENT row has an accepted call is not inductive:
between the two a handler holds the answer, perhaps several for one event after
a redelivery. `SentOK` counts them: the handlers that await their row and the
rows are together no more than the accepted calls (`Awaiting`). `ChargedOK`
adds tasks and published events against the rows. The lemma `NoneSent` covers
every step in which nobody comes to hold a good answer.

The other two say what holds when an event is acknowledged, and by then nothing
of its handler is left. `HandledInv` says it of every handler at work
(`SlotOK`): what is not in the logs is still among the calls it has to make.
For a payment or an obligation (`PayerOK`) the calls to the payer come before
those to the business, so the row of each contact is there once the list is
empty; for a code (`AccountOK`) a call came back, or every contact was tried or
is to be tried, and an answer that is back is one that was counted. Rows and
answers only grow, so a handler that repeats the work of another, or is
overtaken by it, keeps its part (`Grows`). An event one of whose rows could not
be written (`aborted`) is excused, as in the property. `EventIsHandled` is
checked by TLC only.

## 9. ReadModels

A figure is known by the moment its rows were current. `cache` is Redis,
`view` the age of the materialised view `ledger_summary`, `req` the requests
(each Redis command is an await), `due` the refresh job.

| Action | Code |
|---|---|
| `Ask`, `LookupHit`, `LookupMiss`, `Read`, `Store` | the pattern of every cached page (`get_global_ledger`, `get_group_summary`, `get_upcoming_payments`, `list_obligations`, the dashboard's aggregates) |
| `ReadMarker`, `Refresh`, `Mark` | `refresh_ledger_summary`, for the board only |
| `RefreshJob`, `MissedJob` | the job of the worker |
| `Tick`, `RedisRestart`, `ApiRestart` | time and expiry; restarts |

`ReadsAge` checks `BoardReadsRecent`, `GroupIsRecent` and `PagesAreRecent` with
two requests at a time (interchangeable, so it uses symmetry), eight units of
time and a fault. The lives keep the order of those in the code; eight units
let the longest chain of ages (view, marker, page) build up. It has 7 705 000
states. There is no liveness here and so no fairness.

`ReadModelsProofs` proves all three for all constants (`BoardRead`, `GroupAge`,
`PageAge`). The invariant `AgeInv` says how old each thing may be by the time it
is stored or held: pages over tables (`TablesInv`), the view as long as the
marker lives and what was read from it (`BoardInv`), the view by the job's
interval while nothing has failed (`GroupInv`), on top of `InTime` (a request
ends in `MaxService`) and `NotExpired`.

Of the board, `BoardReadsRecent` judges what a request computes: the rows it
reads were current at most `RefreshLife` and one service time before the request
began. What is served is older. The page is cached on top of the view, so
"never reflects data that is more than 5 minutes stale" (`cron.py:284-287`) does
not hold of it: a page that was stored just before the view was due lives on for
its own life. No property judges the served age of the board.

Seen and not judged: a hit of `list_obligations` answers a total without rows;
a failed refresh leaves the transaction aborted, and the request is answered
500; `get_payments_by_account` answers nothing on a miss; a slow request stores
older figures over newer ones, which `PagesAreRecent` allows as long as they are
within the bound; the queries of the metrics are not one snapshot.

## 10. What is proved and what is checked

| | Proved for all constants | Model-checked only |
|---|---|---|
| pipeline | types, `CountedOnce`, `StatusTellsAllocation`, `ClosedStays`, the refinement | `QueuedIsStored`, `QueuedIsReconciled`, `MatchedIsNotified` |
| reconciliation | types; with one session `MoneyConserved`, `MatchIsAllocated`, `BooksAgree`, `PaidLeavesWithAllocation` | `MatchIsMade` |
| billing | types, `WalletNeverNegative`, `TopupByWaiting`, welcome credits; with one session `FullGrace`, `BalanceExplained`, `UsageIsInvoiced` | `GraceOverEnds` |
| obligations | types, `RolledOnce`, `PeriodsAdvance`, `DebtExplained`, `RemindedOnce`, the schedule | `DueIsRolled`, `NewestIsTold` |
| sign-in | types, `WorksForReaders`, `NewestWorks`, `VerifiedByProof` | – |
| notifications | `MeteredIsSent`, `EveryChannelLogged`, `CodeIsAnswered` | `EventIsHandled` |
| read pages | all three | – |
| sums | `SumRemove`, `SumChange` | – |

Every safety and action property that a passing run checks is stated by a
theorem. The three runs that find a violation (`ReconLostUpdate`,
`BillingTopupTwice`, `SignInGoogle`) are of TLC alone. Out of the prover's reach is liveness under fairness, which the runs
check on their instances. What is proved for one session only fails with two,
as `ReconLostUpdate` and the notes of section 5 show, except `UsageIsInvoiced`,
which TLC finds true of two sessions as well.

## 11. Not modelled

See `PROJECT.json`, "components". Left out for good: rendering of templates, SMS
and e-mail transport, password hashing and JWT encoding (no state is kept for
sessions), what the SQL of the dashboard, the tracker and the payer ledger
computes (`get_payer_ledger` adds up ROLLED and VOIDED balances as well), CRUD
of accounts, payers and groups, migrations, and the rate limiter, whose
dependency no route uses. Left for later: the plan in section 2.
