# RecoverFlow in TLA+

RecoverFlow is a multi-tenant service that recovers failed subscription
payments. A merchant points Razorpay's webhooks at it; a failed payment opens a
*recovery case*; the customer is sent up to three reminders, each with a
one-time link to update the payment method; a payment through the link, or any
later payment of the same customer, closes the case as recovered.

This directory models the parts of the repository in which several actors share
database rows, and the pages that read what those actors write; checks the models
with TLC, and proves all their safety properties with TLAPS (section 5). Module headers and the comment above each property say what it means; this
file says how the parts fit together.

## 1. Inventory

| Part | State it keeps | Operations | Hard behaviour | What makes it correct |
|---|---|---|---|---|
| Webhook ingestion (`apps/web/app/api/webhooks/razorpay`, `lib/razorpay`) | `WebhookReceipt`, `PaymentEvent`, `Merchant.razorpayAccountId` | verify, deduplicate, store, capture account, enqueue | redelivery, concurrent first deliveries, a crash between two statements | one request decides on an event; a stored event is queued or declined |
| Plan limits (`lib/billing/plan-limits`, `limit-notify*`, `usage-meter`) | `PlanLimitNotice` | count the month's failed payments, decline, mail a notice, show a meter | counting and queueing are separate statements; the month's end | the cap holds; the meter is over whenever a payment was declined; one mail a month |
| Event queue (`recovery-engine/processor`, the two `processing-store`s, `worker/retry-policy`) | `EventProcessing`, `IdempotencyRecord` | claim, process, record, succeed, fail, retry, dead-letter | two stores with different rules on the same rows; crashes, rejected statements, lost acknowledgements | exclusive claims, bounded retries, terminal rows, ledger before success |
| Worker pool (`apps/worker/src/worker.ts`, `index.ts`) | in-flight calls (memory) | poll, launch, stop | state read before an await and used after it; shutdown | slots respected, nothing starved, a clean stop is clean |
| Recovery cases and ladder (`recovery-engine/router`, `recovery/*`, `adapters/recovery-store`) | `RecoveryCase`, `RecoveryAttempt` | open, schedule, run due attempt, halt, exhaust, recover | nothing claims an attempt; the case status is read once, early | rungs in order, every case ends |
| Reminders (`recovery-engine/messaging`, `adapters/message-store`) | `MessageLog` | create, send, mark | several senders per attempt; provider errors before or after delivery | at most one reminder per attempt |
| Payment-update links (`recovery-engine/payment-update`, `lib/payment-update`, `adapters/token-store`) | `PaymentUpdateToken` | mint, supersede, validate, consume, complete | racing minters, racing POSTs | a link wins once |
| Stripe billing (`lib/billing/webhook`, `checkout`, `portal`, `summary`) | `BillingSubscription`, receipts | checkout, dispatch of Stripe events, reconciliation | late, reordered and repeated events; handlers with and without a guard; overlapping transactions | the row ends up as Stripe has it; the plan fits the subscription |
| Sessions, password reset (`lib/auth`, `middleware.ts`, auth routes) | `Session`, `PasswordResetToken`, `User.passwordHash`, the cookie | register, log in, rotate, validate, renew, expire, log out, request and complete a reset | concurrent rotation and renewal of one session, several live links, a reset beside a rotation | a reset ends the sessions of the old password; a link changes it once; nobody is signed out by overlapping requests |
| Rate limiter (`lib/rate-limit`) | windows (memory) | check, sweep | two bursts around a window's end | bounded bursts |
| Case list, timeline, figures (`lib/dashboard`, `app/dashboard`) | none of their own | keyset pages, three reads of a case, aggregates | rows inserted and changed between two pages or two reads; tied timestamps; time zones of days | a walk is exact; a timeline is causal; two pages' figures agree |
| Settings, audit, secret migration (`lib/settings`, `lib/audit`, `scripts/encrypt-webhook-secrets`) | `Merchant.businessName`, `webhookSecret`, `AuditLog` | rename, regenerate, encrypt in place | tabs and script runs over one row, an audit entry lost to an error or to a process that dies before it | every name is audited; the secret is encrypted exactly once |
| Onboarding (`lib/onboarding`, `connection-banner`) | the banner (browser) | render, poll | answers that overtake one another | the banner settles |
| Failure classifier, templates (`recovery-engine/recovery/classifier`, `messaging/templates`) | none | pure tables | | *not modelled* |
| Providers, crypto, env, other pages | none | | | *not modelled* |

How they interact: ingestion writes an `EventProcessing` row; the worker pool
polls it and runs `processPaymentEvent`, which claims the row through its store,
runs a handler of the recovery engine (which writes case, attempt, token and
message rows) and records the outcome. The worker pool also polls due attempts and
runs the ladder over the same case rows. The internal route
`POST /api/internal/process-event` runs `processPaymentEvent` over the web's
store on the same rows. The payment page consumes tokens and writes the case. Nothing
but PostgreSQL connects these processes: no queue, no lock, and only two
transactions in the modelled parts (the receipt with the event it is for, Razorpay's
and Stripe's).

Every hazard found in this code is in `PROJECT.json` under `hazards`, at its line.

## 2. Modules

| Module | Models | Lines of the repository |
|---|---|---|
| `EventProcessing` | the life of `EventProcessing` rows | `processor.ts`, `idempotency.ts`, both `processing-store.ts`, `retry-policy.ts` |
| `ClaimQueue` | abstract: what the `ProcessingStore` port promises | `types.ts` 45-74 |
| `EventProcessingProofs` | theorems about `EventProcessing` | |
| `Recovery` | cases, ladder, reminders, links | `router.ts`, `case-service.ts`, `attempt-service.ts`, `message-service.ts`, `token-service.ts`, `recovery-completion.ts` and their stores |
| `Dunning` | abstract: what merchant and customer are promised | comments and shape of the same code |
| `RecoveryProofs` | theorems about `Recovery` | |
| `RecoveryRefinement` | `Recovery` implements `Dunning` and strands no case | |
| `Ingestion` | webhook requests, the plan limit, the usage meter | webhook `route.ts`, `razorpay/service.ts`, `plan-limits.ts`, `limit-notify*.ts`, `usage-meter.ts` |
| `Admission` | abstract: what the webhook promises of events and the month's plan | the comments in `route.ts` 68-111, `plan-limits.ts` 83-90, `limit-notify.ts` 77-82, and what the code does |
| `IngestionProofs` | theorems about `Ingestion`, its refinement of `Admission` | |
| `WorkerPool` | one worker process | `worker.ts`, `index.ts` |
| `WorkerPoolProofs` | theorems about `WorkerPool` | |
| `Billing` | RecoverFlow's own subscriptions and the readers of their row | `billing/webhook.ts`, `checkout.ts`, the success page, `summary.ts`, the billing page |
| `BillingProofs` | theorems about `Billing` | |
| `Accounts` | registration, sessions, password reset | `lib/auth/*`, `middleware.ts`, the auth routes |
| `AccountsProofs` | theorems about `Accounts` | |
| `RateLimiter` | the fixed-window limiter and its guard | `lib/rate-limit/*` |
| `Dashboard` | case list, case page, overview and analytics | `lib/dashboard/*` and their pages |
| `Settings` | profile name, webhook secret, migration script | `lib/settings/*`, `lib/audit/*`, the settings page, `scripts/encrypt-webhook-secrets.ts` |
| `Onboarding` | the banner and its polls | `lib/onboarding/*`, the onboarding page |
| `WebProofs` | theorems about `RateLimiter`, `Dashboard`, `Settings` and `Onboarding` | |
| `MC*` | instances for TLC: symmetry sets; `MCWeb` runs the four web modules that share no row | |

`PROJECT.json` `map` gives the exact lines of every definition. Definitions whose
names end in `_Something` are deliberately wrong variants of the definition
above or below them, and nothing uses them; `PROJECT.json` `mutants` says which
property each of them breaks.

### Conventions

* **One database statement is one step.** Between two statements of a call any other
  call may run. A conditional `updateMany` and an insert under a unique index
  are atomic; a read followed by a write is two steps. What JavaScript runs
  between two awaits without touching the database is merged with the statement.
* **A call is a process** with a program counter `at` and its local variables.
  A call that has ended is `"idle"` again and may be started anew, so a small number
  of processes covers any number of calls that do not overlap.
* **Faults** are bounded by `MaxFaults`: `Abandon` ends a call between any two
  statements (the process died, or a statement outside every try block
  rejected: the caller logs it, a live worker runs on, and the rows stay as they are), and where the code catches an error there is an action for the
  caught error.
* **Data is abstracted** to what the code branches on. A payment is an id,
  a time is a unit of 24 hours (`Recovery`), a month (`Ingestion`) or
  past/future (`EventProcessing`). Rows ordered by age are integers
  (`WorkerPool`).
* **History variables** (marked `history` in the declarations) are read by no
  action and exist only to state properties.

### EventProcessing

`status`, `attempts`, `retryAt` are the columns of an `EventProcessing` row
(`"NONE"`: no row), `ledger` the set of events with an `IdempotencyRecord`.
`at[p]` runs through `processPaymentEvent`: `claiming` (the row was polled or
asked for, not claimed), `handling`, `recording`, `succeeding`, and in the catch
block `failing` and `deciding` (the worker's `markFailed` reads `attempts` before
it writes). Worker slots claim with `claimableWhere` (PENDING, or FAILED past
its backoff) and finish as DONE/FAILED/DEAD; web calls claim PENDING or FAILED
rows at any time and finish as SUCCESS/FAILED. The handler is one step that
returns or throws; `Recovery` opens it up. The read-back after a claim changes
nothing and is merged with the claim (its failure is `Abandon`). The manual route's
plan-limit check only refuses calls: `Trigger` may happen or not.

`StatementRejects` is the caught error of the try block's two statements; the
statement may have committed although the caller saw an error. After such a
`markSuccess` the call still holds a finished row and writes FAILED over it.

`ClaimQueue` is the same queue seen by its users: events are absent, waiting, held,
finished or dead; a holder takes, records, finishes, gives back, buries, or
vanishes with its event. `ImplementsClaimQueue` maps status to phase and the
calls past their claim to holders. `FinishUnheard` is the price of a lost
acknowledgement: the event is finished, its holder does not know, and may still
give it back.

### Recovery

`case`, `attempt`, `log`, `tokens` are the rows, keyed by case and rung;
`order` remembers the order of creation (`findOpenCaseByCustomer` wants the
newest). Processes: the `payment.failed` handler of each event (named by its
case: `ClaimExclusive` shows that there is never more than one), ladder slots,
POSTs, and `payment.captured` handlers. Each has an operator named after the code's
function that is the disjunction of its steps.
`handlePaymentFailed` is `OpenCase; ScheduleFirstAttempt;
SupersedeActiveTokens; CreateToken; CreateMessageLog | SkipDuplicate;
ProviderSends | ProviderFails; MarkSent | MarkFailed`; `runDueAttempt` is
`PickDueAttempt`, then `Halt`, or the same message steps followed by
`MarkAttemptExecuted; ScheduleNextRung | ExhaustLadder`. `PickDueAttempt` is the
poll: attempt and case status are read together, and the code branches on that
copy. `submitPaymentUpdate` is `ValidateToken; MarkUsed; CompleteRecovery;
SendRecovered`, `handlePaymentCaptured` is `FindOpenCase | NoOpenCase;
CompleteOrganic`.

All cases belong to one customer of one merchant; cases in `Cases \ Reachable`
left neither phone nor email, so their reminders fail and no captured payment
matches them. No code writes the case status `CLOSED` or links a case to a
subscription, so the two other reasons for a halt do not occur. The payment method updater
of the repository is a simulation that always succeeds; a failing one would end the call after
`MarkUsed`, which is what `Abandon` does.

`Dunning` is the merchant's view (open, climb, remind once per rung, recover at any time, give
up at the top); `ImplementsDunning` maps the rows to it. It deliberately allows
`RECOVERED` and `FAILED` to follow each other, because the code does (section 4).

### Ingestion

A request is `Deliver` (merchant read), then `Refuse`, `Duplicate` or `Persist`
(the transaction; the receipt's unique index decides), `CaptureAccount` or its
swallowed failure, `BeginCheck; CountUsed` for failed payments, and `Enqueue`,
or the notice: `ClaimNotice | AlreadyNotified`, `SendNotice`. `known` is the
account the request read with the merchant; `window` is the month a
check started in, later the period whose notice was claimed. `computeUsageMeter` is
the meter of the dashboard, over the same count the check uses. `NewMonth` and `Age`
(five minutes pass) may happen between any two steps. One merchant, one fixed `Limit`;
signatures are valid, since a bad one changes nothing.

`Admission` says the same in five atomic actions. An event's `phase` is read off the rows: a stored event is
*accepted*, *declined* or *queued* once it is in `dropped` or `queued`, and *admitted* once `meteredIn` has a
month. `Persist` is `Accept`, `CountUsed` is `Admit` or `Decline`, `Enqueue` is `Queue`, `SendNotice` is `Mail`, all other steps
stutter. `Admit` bounds the month's allowance and `Decline` requires more arrivals than the plan covers, though
the code counts in one statement and acts in later ones. A payment stored in one month and
metered in the next is admitted outside both allowances; so does the code.

### WorkerPool

`row` is what the database says of an event or attempt; `inFlight` and
`inFlightIds` are the worker's two sets, `hung` the calls that will never end;
`age` is a row's place in the poll's order, `broken` (history) the claimed rows whose call is over;
`loop` is the poll loop's place, with a
step for each stretch between two awaits: count slots and ask, the database
answers, launch, ask for attempts, the database answers, launch, sleep. `stop` is
the place of `stop()`. A launched event call claims its row or is skipped and
ends; an attempt call claims nothing. A call that fails gives its row back (`CallFails`) unless its own
`markFailed` or the claim's read-back is rejected: then it is over and the row stays in PROCESSING (`CallBreaks`).
`Arrive` and `TakenElsewhere` stand for the rest of the system. The keys are places for rows: when a row is done,
another worker's, or was never there, its key is `"gone"`, and `Arrive` puts a new and youngest row there, so that events and attempts never
run out.

### Billing

`row` is the merchant's `BillingSubscription`, `receipts` the Stripe events with a
`WebhookReceipt`; `open`, `sub` and `events` are Stripe's side. Three kinds of requests share the row:

* `createCheckoutSession` is `BeginCheckout` (reads the row once: guard and
  customer), `EnsureCustomer` (the upsert), `CreateSession`. The idempotency key
  contains merchant and tier, so a tier stands for its session and the
  subscription that comes of it.
* `applyStripeEvent` is `Deliver` (the handler's first lookup), for an unbound subscription
  `Associate` (the lookup by customer), and `Commit`: update and receipt commit together, or
  the receipt exists and both roll back. Prisma's transactions run at READ COMMITTED,
  so another request may write between lookup and commit.
* The success page is `VisitSuccessPage` (only while the row is not ACTIVE),
  `Retrieve`, `Reconcile`.

`Pay`, `RenewalFails`, `RenewalPaid`, `ChangePlan` and `Cancel` are Stripe's and create the events
the code handles, each change in a second of its own (`created` has seconds; two
changes within one second compare as equal and are applied in the order of their delivery).
Events are delivered in any order, to several requests at once, and again after their receipt
(counted against `MaxFaults`). Left out:
trials, period dates, a plan the configuration does not know, and the 24 hours after which an
idempotency key is forgotten. `getActivePlan`, `stateFor` and `billingView` are what the plan
limit and the billing page make of the row, and `FirstSubscriptionConverges` is stated
in their terms.

### Accounts

One user, several browsers with one cookie each. A session's number is its row's
and its token's. A request to `/dashboard` runs through `rotateSessionToken` (the middleware:
`ReadForRotation`, then `Discard` or `Swap`, whose two statements are one
transaction) and then `validateSessionToken` with the cookie it came with; other
requests only validate, a logout then deletes. Between any two statements another request
of the same browser or of another may rotate, renew, delete or reset. A statement of the rotation that rejects, for whatever reason, is swallowed by the middleware and the
request goes on (`RotationFails`, any number of times). The response
carries the cookie that rotation set, even when the page behind it failed to
validate. `resetPassword` is `markUsed` (conditional), `updatePassword`,
`invalidateUserSessions`; a link whose claim was won and whose request dies is spent.
`createSession` is apart from `authenticate`: the hash may change in between, which is
the exception (`late`) in `ResetEndsSessions`. Time is counted in units of the grace.

### Dashboard

The engine's writes are reduced to the columns the pages select; rows may tie in
time and may be inserted with a clock that runs a moment late. They are unconditional, as the stores' are: a ladder
slot may create a rung after the case was recovered, and a case that is recovered again gets a new date and
amount (`paid`). `OpenList` and `LoadMore` walk
the list as `listCases` does (keyset, `take: limit + 1`, the cursor of the last
row shown); `kept` remembers which cases matched the filter all along.
`OpenCasePage; ReadAttempts; ReadMessages` are the page's three reads and `buildTimeline` its
stable sort. `getDashboardStats` and `getAnalytics` are compared on one state.
A query's `orderBy` and the timeline's sort are `InOrder`, which puts at place `i` the one that `i - 1`
others precede: both orders are strict and total, so there is exactly one, and cardinalities can
be reasoned about where a recursive sort could not.

### RateLimiter

`check` is synchronous and so one step; a refused request changes nothing. `granted`
records when requests were let through. One process; several processes have a
limiter each.

### Settings

A tab's form and its request are one program counter. A secret is its generation with the
number of encryptions, so a double encryption is visible. The script's `Scan` reads once, and
`EncryptInPlace` writes what was read.

### Onboarding

The interval fires without waiting for earlier answers; an answer sets the banner when it
arrives.

These four (`Dashboard` twice: list and case page; `Settings` twice: name and secret) share no row that
one of them writes and another reads, so `MCWeb` lets a behaviour be about one `subject`:
interleaving them would multiply states and add no behaviour of any of them.

## 3. Runs that pass

| Run | Shows | Instance | Why it is enough |
|---|---|---|---|
| `queue` | `ClaimExclusive`, `LedgerBeforeSuccess`, `RetryBudget`, `ImplementsClaimQueue`, `TerminalIsFinal`, `EventuallySettled` | 2 events, 2 worker slots, 1 web call, 2 attempts, 1 manual claim, 1 fault | two workers and both stores race for one row, a row exhausts its retries, a call is hit by a crash, a rejection or a lost acknowledgement; the safety part is proved for all values |
| `recovery` | `LinkWinsOnce`, `AtMostOneReminder`, `ImplementsDunning` | 2 cases (one without a contact) or one whose handler runs twice, 1 ladder slot, 2 POSTs, 1 captured payment, 1 fault, on one day | two POSTs of a link while handler, ladder and captured payment use the same case, and a crash or provider error in any of them; all proved for all values |
| `ladder_race` | `LadderOrder`, `OneActiveLinkPerMinter`, `OnlyAbandonStrands` | 1 case, 2 ladder slots, 1 captured payment, clock to 72 h, no fault | all three rungs become due while a slow slot still holds an older one, and the case may be recovered in between; proved for all values, with faults |
| `ladder_fair` | `LadderCompletes` | 1 case, 1 process of each kind, clock to 72 h, no fault | the whole ladder and both ways of recovery |
| `ingest` | `OneDecider`, `CapHolds`, `OneMailAMonth`, `ImplementsAdmission`, `StoredIsDecided` | 2 failed payments (of two accounts), 1 other event without account, 2 requests, 3 deliveries, limit 1, 2 months, 1 fault | one event is delivered again while another is counted, two declined payments race for the notice, the month ends in between; `CapHolds` includes the meter; the safety part is proved for all values |
| `pool` | `SlotsRespected`, `CleanStop`, `StopReturns`, `NothingStarves` | 2 events and 2 attempts at a time, coming anew without end, 2 slots, 2 faults | both polls of a pass fill slots, events fill them pass after pass, calls end between a query and its answer, a claimed row is left behind, a call hangs before or during shutdown; the safety part is proved for all values |
| `billing` | `PlanIsOfSubscription`, `FirstSubscriptionConverges`, `RowKeepsOrder` | 2 plans, 3 requests, 2 changes at Stripe, 1 fault | two checkouts or a checkout and a webhook race, two subscriptions are paid, a change follows a payment; its events are applied, in every order and two at once, between a success page's question to Stripe and its write; proved for all values |
| `auth` | `ResetEndsSessions`, `LinksChangeOnce`, `CookieWorks` | 1 browser, 2 requests, 1 link, lifetime 4, grace 1, link 1, clock to 4, 3 session rows, 1 fault | both requests rotate, fail to rotate, renew, expire or log out one session, or race for one link, while time crosses the renewal point, the grace and the expiry; two sign-ins and a rotation fit; proved for all values |
| `web` | `WalkIsExact`, `TimelineIsCausal`, `FiguresAgree`, `BurstBound`, `NameIsAudited`, `SecretStaysReadable`, `BannerSettles` | 3 cases, 2 amounts, pages of 1, window of 1 day; limiter 2 per window of 2, clock to 5; 2 tabs, 2 script runs, 3 names, 2 secrets, 1 lost statement; 2 polls, 1 failed | a walk of three pages with ties and late inserts; an attempt written between a case page's reads and after the recovery; a case recovered, given up and recovered anew; two full windows and part of a third; a rename that reads another's name; two scans of one secret around a regeneration; a late "waiting" answer; all but `BannerSettles` are proved for all values |

Bounds: `MaxFaults` (crashes, redeliveries to `Billing`, rejected statements, provider errors, broken and hung calls),
`MaxManual` (manual claims per event), `MaxRuns` (starts of failed-payment
handlers), `MaxNow` and `MaxClock` (the clock), `MaxMonth`, `MaxDeliveries`, `MaxSessions`
(session rows), `MaxSecrets` (regenerations), `MaxLost` (rejected statements), `MaxFailed`
(failed polls). They bound the
environment and never the code: each is the guard of an environment action or of
a fault, except `MaxSessions`, which also keeps a request whose row would be the last one too many
from inserting it. Deadlock checking is off in every run: the systems really stop when the
bounded environment has nothing left to do.

Symmetry is used only in runs without liveness: over ladder slots and POSTs
(`recovery`, `ladder_race`), over requests and plans (`billing`), and over requests (`auth`),
which no definition tells apart.

Liveness is stated with the exception the code needs, as narrowly as possible:
`EventuallySettled` excuses only a row whose holder's call broke off, by death or because its
claim's read-back or its own `markFailed` was rejected (a rejection that the try block catches, or a lost acknowledgement, does not excuse it);
`StoredIsDecided` excuses a request that failed. `NothingStarves` excuses a call that
hangs, which keeps a slot and its row a place in the poll's LIMIT, and for attempts one thing more: `fillSlots`
asks for events first (`worker.ts` 150-172), so a due attempt waits for ever when events fill the last free slots
again and again. The model's rows keep coming, TLC refutes the property for attempts without that exception, and with it
shows that nothing else starves them. `LadderCompletes` is checked
without faults: a crash between the last `markAttemptExecuted` and
`updateCaseStatus` leaves an OPEN case that no attempt brings to an end.

### Fairness

* `EventProcessing`: calls that were started go on (a rejecting or dying call is a fault and
  has none), the clock passes a backoff, and each slot polls: `Poll` is strongly
  fair because a poll takes the oldest rows and a claimable row grows older until it is the oldest;
  another slot may take it in between. Nobody has to press the manual button.
* `Recovery`: clock, started calls, and `PickDueAttempt` strongly fair for the
  same reason (attempts are polled in the order of `scheduledAt`). No fairness for the customer and
  none for captured payments: `LadderCompletes` holds without them.
* `Ingestion`: requests that were started go on; Razorpay owes no redelivery.
* `Onboarding`: the interval fires, and a request that does not fail is answered; at most
  `MaxFailed` fail. `BannerSettles` needs the interval to be set up again after the banner turned
  back, which the effect's dependency does.
* `WorkerPool`: queries are answered, timers fire, the loop goes on, and so do
  calls unless they hang. That a poll's query is always answered is a real
  assumption: `stop()` awaits the loop before it starts its timeout. Nothing is assumed of how often rows arrive.

## 4. Runs that refute a sentence of the repository

Each checks one property that a comment or a doc states; TLC's shortest
counterexample is the finding of that name in `PROJECT.json`.

| Run | Sentence (where) | What happens |
|---|---|---|
| `queue_crash` | a failed event is retried until DONE or DEAD (`docs/deployment.md` 208-211) | a worker dies holding a row, nothing reclaims PROCESSING |
| `undone` | nothing undoes a completed recovery (`recovery-completion.ts` 36-39) | the last rung, polled earlier, writes FAILED |
| `dead_link` | the first link never goes dead (`router.ts` 76-78) | rung 2 supersedes it |

The models contain further behaviours of the same kind that no run singles out:
nothing reads the ledger before the handler, so a `markSuccess` that rejects
leads to a second run of a recorded event; a reminder polled before the customer
paid goes out after; a captured event whose processing is retried recovers the
customer's next OPEN case; two minters that supersede before either creates
leave two active links; a link POST and a captured payment that both read OPEN both recover
the case (`router.ts` 106-109 says it happens once); a ladder slot can send reminder #1 before the handler,
without a link; the notice of a new month can be spent on a limit reached in
the old one; an event or attempt that a live worker gives up on after a rejected statement stays behind like one of a dead worker, so a
clean drain may leave rows in PROCESSING (`processor.ts` 99, `worker.ts` 101-108) and a case may be left without a next rung
(`attempt-service.ts` 205-220, `worker.ts` 134-138); an unbroken stream of events keeps due attempts waiting; checkouts of two plans that are both paid make two live subscriptions, since the guard of
`checkout.ts` 89 reads only the row; the late completed event of a superseded
subscription binds the row to it again (`webhook.ts` 175), and the events of the
current one are then ignored; of two overlapping transactions that pass the stale guard
on the same reading, the older may commit last; and a success page that asked Stripe before a change and writes after
the event of that change was applied restores the older status (`checkout.ts` 212-240 reads, awaits and writes outside any transaction).
`FirstSubscriptionConverges` is therefore stated for a
merchant with one subscription and for histories without these two races (`raced`: `"transaction"`, `"page"`). Events that are
applied between a page's read and its write are covered as long as what the page read is still what Stripe has.
A late `completed` event restores the plan the checkout was for after a change of
plan (`webhook.ts` 95), until the next subscription event. Two payments over the limit's last unit
can count each other and both be declined, although `plan-limits.ts` 88-89 speaks of exactly
`limit` recoveries. A regeneration of the secret can be undone by a script run that read the
old one, although `settings/service.ts` 17 says the old one stops verifying immediately.
A request that read a session before another rotated it may renew the old row for a full
lifetime instead of the grace (`session.ts` 60). A PAST_DUE merchant's billing page offers
Subscribe buttons that checkout's guard refuses. The account of a webhook is captured on a
reading from before the event was verified, so of two first events of different
accounts the later may win (webhook `route.ts` 55). A crash between the notice's claim and its mail leaves
that month without a mail (`limit-notify.ts` 88). A second checkout's upsert, after the first
was paid, leaves the paid plan alone.

## 5. What is proved

TLAPS checks, for every value of the constants that satisfies the modules' ASSUMEs:

**EventProcessingProofs.** `TypeCorrect`; `CustodyInvariant`; from it
`ClaimsAreExclusive`, `LedgerPrecedesSuccess`, `ClaimsWithinBudget`,
`WorkersExhaustToDead` (no web calls), `TerminalRowsAreFinal`, `OrphansAreNeverTaken` (the safety half
of what `queue_crash` finds: a row left behind stays behind) and `StoresImplementClaimQueue`.
The invariants are not inductive alone: that no store hands out a held row
follows from its status being PROCESSING, and that status stays because nobody
but the holder writes it, which is again exclusivity. `Custody` says what a call
may rely on between its claim and its last statement: the row is PROCESSING (or,
after a lost acknowledgement, already finished and the call is in its catch
block), no other call is past its claim, the ledger is written before
`succeeding`, and the count that `markFailed` read is still the row's. The last
part is what makes the read-then-write of `markFailed` safe and bounds retries.
For the refinement each step is mapped to a step of `ClaimQueue` or a stutter;
the lemmas `TakeHold`, `LoseHold` and `KeepHold` say how a step changes the set
of holders.

**IngestionProofs.** `TypeCorrect`; `BookkeepingInvariant`; from it
`OneRequestDecides`, `PlanCapHolds`, `LimitMailAtMostOnce` and `AdmissionIsImplemented`. The cap is the
interesting one: requests count concurrently with each other's inserts, yet at most
`Limit` payments received and metered in a month are queued. The invariant
`Allowance` is about payments that were *allowed*, queued or not: when a request is
allowed, its count covered every payment stored in that window, so all that were
allowed before it, and itself. That no payment is counted by two requests
needs `Decisions` (one request decides on an event), which is also where the
receipt's unique index enters. `OneRequestDecides` is exact while nothing failed: every stored event that is neither
queued nor declined has its one request (`NoneForgottenStep`), which is what redeliveries, answered as duplicates, rely on. The meter's half of `CapHolds` (a meter never shows room in a month
in which a payment was declined) needs that counts only grow (`UsedGrows`) and that a decided window is not in
the future (`MonthsPast`).

The refinement adds what no single property says: a payment that is queued was metered before, once, and
allowed then (a webhook that queued payments unmetered would keep `CapHolds`, which speaks of metered ones). It needs
`Metering`: before its count a request's payment is unmetered, after it metered and not declined, and only a request
whose payment was declined is about to notify. Each request is mapped by what it does to the phase of its one event
(`PersistAccepts`, `CountDecides`, `EnqueueQueues`, `NoticeMails`); `PhaseStays` and `AllowancesStay`
cover the rest.

**RecoveryProofs.** `TypeCorrect`, together with `Roles`: what a process at each place
carries (a sender a case and a rung, a POST a token of its case, a captured payment no link). Every
statement of every process is shown to be `Sound`: it keeps the types, leaves the other processes
`Still`, and never revives, deletes or reassigns a token (`TokensLast`). On that rest four
strengthenings, each of them what a process may rely on until its next statement:

* `RemindersAreUnique` from `MayMail`: who is about to call the provider owns the attempt's log row,
  alone, and nothing was mailed for the attempt yet.
* `LadderIsOrdered` from `Climbing`: a slot works on a rung that exists, and stands before
  `scheduleNextAttempt` only when its own rung is executed. A stale copy of an attempt cannot hurt, because
  rows are never taken back (`RowsLast`).
* `LinksArePerMinter` from `ClearedToMint`: between its two statements a minter has no active link to the case.
* `LinkRecoversOnce` from `WonByLink`, `HoldsTheLink` (a POST past `MarkUsed` is alone with its link, and nothing
  was won by it) and `ThanksDue` (thanks already sent and thanks still to be sent are at most the
  recoveries by links), counted over the finite set of POSTs (`FiniteAssumption`).

**RecoveryRefinement.** `DunningIsImplemented` and `CasesAreNotStranded`, both from the above and `Grounded`
(whatever exists or is worked on belongs to a case that was opened).

`CasesAreNotStranded` is the safety half of `LadderCompletes`, and holds with faults: an open case has a
first attempt about to be created, a pending attempt, or a slot that executed the top rung and has yet to act on it
(`Driven`), unless a call broke off at the wrong place. It rests on `LadderOrder` (above a pending rung there is none, so the slot that
executes it stands at the top), on `Climbing` (a slow slot cannot touch a rung that is still to be
created) and on `Halting`: a slot takes an attempt off the ladder only for a case that has ended, and an ended
case never opens again (`StatusMoves`), though its status was read with the poll. What remains are the
code's weak spots, which `BreaksOffAtNextRung` names: a call that ends before the handler's `createAttempt`, or between a slot's
`markAttemptExecuted` and its `createAttempt` or `updateCaseStatus`. It ends there when its process dies, but also when that statement rejects:
`runDueAttempt` rethrows and the worker logs.

For Dunning, `Allowed` spells out Dunning's steps over the rows; every
statement is one of them or none. The height of a ladder is a cardinality: an attempt on rung n
means n rungs, since `LadderOrder` makes the rungs that exist the lowest ones (`HeightReached`).

**AccountsProofs.** `TypeCorrect`, from a split of the type invariant into
the parts that different steps disturb (`Parts`); `NoSessionOutlivesReset`;
`EachLinkOnce`, whose strengthening `LinkBudget` counts the passwords still to be
written by requests that have won a link, at most one per used link because the claim is a
conditional update of a link that the request carries (`ClaimsALink`). `NoSessionOutlivesReset` needs no strengthening beyond the type: every row created by `Swap` copies its password from a row
that is still there in the same transaction, which is why a rotation that
overlaps a reset cannot bring an old session back.

`NobodyIsSignedOut` is the deep one. It holds although any rotation may fail at any of its statements. `CookieWorks` speaks of browsers whose requests are all answered;
its invariant `CookieInv` must say what holds while they are not. `Ownership` is about tokens: a cookie
lasts no longer than a session created now (`Timely`), one browser at most holds a token and only its
requests carry it (`Owned`), and the token that rotation put on a response is known to nobody until
it arrives (`Unseen`). On it rests what holds of the rows while nothing was reset and nobody died: a
cookie on its way has a session that lasts as long as the cookie (`AwardsLive`), and a cookie
that is sent has one too, with no request about to delete it, or another cookie is on its way to
the same browser (`CookiesLive`). Every statement then either keeps a session at least as long, gives it
a lifetime from now (`Keeps`), or deletes one that its request read as expired, which no unexpired cookie
names; rotation alone shortens a session, and its request carries the replacement. A logout clears the cookie of
the one browser that can hold the token it deletes.

**WorkerPoolProofs.** `TypeCorrect` (its types are not in a run: the proof settles them), `PoolInvariant`, `ConcurrencyHolds`, `DrainIsClean`. That slots are not overdrawn although they are
counted before a query and filled after it needs that only the loop fills them and that ages order the rows of a
kind (`Ages`), so that a LIMIT is one; that a row is not launched twice needs that ids are looked up at launch (`Slots`, `Batches`). For the clean stop, `Custody` (a claimed
row has its call, or its call broke off: the exception of `CleanStop`) and `Stopping` (the drain begins only after the loop has ended, so nothing starts any more).

**BillingProofs.** `BillingInvariant`, `PlanIsTheSubscriptions`, `FirstSubscriptionEndsRight`. The row's plan was sold
because every handler takes it from an event or an object of the same subscription it binds (`RequestsCarry`,
`RowFollows`). Convergence for a first subscription needs `DecisionsHold`: what a request found out by the stale
guard is still true when it writes, as long as no write fell into a delivery's transaction and no event outran a success page (`raced`); then
the newest subscription event, once receipted, is what the row shows, and no success page carries
an older status (`NewestIsShown`). `EventsApplyInOrder` is for any number of subscriptions at once: what a
request is about to write is not older than the row (`WritesAreFresh`), since a write by another request
in between finds the first one waiting to write, and sets `raced` (`FreshAlone`).

**WebProofs**, about four specifications that share no state:

* `BurstsAreBounded`: any `2 * Limit + 1` requests granted to one
  key span at least a window. `LimiterInv` relates a key's bucket to its
  history: the newest `count` requests belong to it, those before came no later than it opened, and all
  but `Limit` of these a whole window earlier.
* `WalkHolds` from `DashboardInvariant`: a walk's cursor divides the list, what was listed is at or above it and what kept
  matching and was not listed is below (`WalkGoesDown`); rows never change their key, so writes cannot move one
  across the cursor. `InOrderIsSorted` says what `InOrder` returns for any finite set and strict total order.
* `TimelineHolds`, from the same invariant: the page's reads are beginnings of the rows' histories, in which
  everything is dated after what it is about (`HistoryIsDated`, `DetailIsPast`), also what is written after the recovery. A reminder's
  attempt may be missing from a page, but then the reminder comes after every attempt that is shown.
* `FiguresCountTheSameCases`: the days of the trend share no case and together count the overview's recoveries and those
  given up after one, but for those before the window, though a second recovery moves a case to another day (`RecoveriesAreKnown`, and `DayFrom` on
  whole division).
* `FiguresHold`: from the same cases to the same money. A sum over a set is usually a recursive fold, about which nothing can
  be proved here; `Dashboard` defines it as the number of units, a case of amount n having n of them (`Units`). That is the
  fold (`SumsAreFolds` in `MCWeb`, over all functions of a small range), and that a sum over parts is the
  sum of the parts' sums (`PartsAddUp`) becomes a bijection of unit sets.
* `NamesAreAudited`, `SecretIsReadable` from `SettingsInvariant`: a form that has read a name read an audited one, and a run of the
  script between its read and its write holds plain text only, so its write makes one layer
  even when a regeneration came in between.

* `GreenBannerStays`: a green banner is true (`BannerIsTrue`), and once no "waiting" answer is on its way it stays green:
  what polls still have to bring about for `BannerSettles` is never undone.

Not provable here and left to TLC: the liveness properties (`EventuallySettled`, `LadderCompletes`, `StoredIsDecided`, `StopReturns`,
`NothingStarves`, `BannerSettles`) and their fairness. Every invariant and every safety property that a
passing run checks is proved. Of four of the liveness properties the safety half is proved too: what still has to
happen is always somebody's to do, and is not undone (`ClaimsAreExclusive` with `OrphansAreNeverTaken`, `CasesAreNotStranded`,
`OneRequestDecides`, `GreenBannerStays`).

## 6. Left to do

An abstract specification of a browser's signed-in state, with `Accounts` as its implementation; so far
`CookieWorks` and `ResetEndsSessions` say of it what matters most.

## 7. Not modelled

The failure classifier and the message templates (tables of codes, keywords and wording: a
model would repeat them); email, SMS and WhatsApp providers beyond "sends", "fails before" and "fails
after"; signature checks, hashing and the cipher (a signature is valid, a
hash unguessable, a cipher is a layer); environment parsing and error classes; the markup of pages. `runOnce`
and `drainToCompletion` of the worker serve its tests. `subscription.*` events of Razorpay are
stored and their handlers do nothing. At ingestion a merchant has one fixed limit: unlimited plans and a
change of plan within a month are left out. The modules assume the database's promises: a statement is atomic, a unique
index admits one row, a transaction commits or leaves nothing.
