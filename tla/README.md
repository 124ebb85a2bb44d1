# Formal models of the AI Client Acquisition OS

TLA+ modules, TLC configurations and machine-checked proofs for the parts of
this repository where concurrency, failure and ordering decide correctness: how
a payment becomes an order, an entitlement and a Meta conversion exactly as
promised; how a Search is carried through its life by workers that crash; and
how research becomes scores, messages and proposals that say only what was
found and what a human approved.

Paths below are relative to the repository root.

## 1. The system

Two products share one PostgreSQL database.

- **The funnel.** The browser's checkout panel asks `POST
  /api/payments/create-order` for an order; Razorpay takes the money and calls
  `POST /api/webhooks/razorpay`; the webhook's one transaction records the
  payment, marks the order PAID, grants the entitlement and enqueues a Meta
  Purchase; a worker pool delivers the Purchase; access tokens let the buyer in.
- **The acquisition engine.** A user creates a Search from a service profile; a
  worker pool claims it and runs discovery, research, qualification,
  personalization, opportunities and outreach preparation; the user scores,
  approves, edits and sends.

Around them stand operational tools: the deployment of unique indexes, the
reconciliation of duplicates and the redaction of stored webhook bodies.

### Inventory

| Part (code) | State it keeps | Operations | Hard behaviours | What makes it correct |
|---|---|---|---|---|
| Order creation (`packages/core-payments/src/createOrder.ts`) | `orders`, Razorpay's orders | look up the key, create at Razorpay, insert, look up again | concurrent requests with one Idempotency-Key, failure between Razorpay and the row | one key, one order; nobody gets another's order; orphans bounded |
| Database integrity (`packages/db/prisma/migrations` 0001-0009) | `orders`, `payments`, `meta_events` | any INSERT/UPDATE, checked by triggers and unique indexes | READ COMMITTED, triggers that read other tables, row locks | payments match orders, one capture per order, legal transitions |
| Razorpay webhook (`webhookHandler.ts`, `webhookPgStore.ts`, route) | `webhook_events`, `payments`, `orders.status`, `entitlements`, `meta_events` | one transaction per delivery | repeated and overlapping deliveries, statement failure, lock waits | the transaction is atomic, idempotent and never deadlocks |
| Meta conversion worker (`apps/worker/src/metaEvents`) | `meta_events` leases, attempts | release, claim, load, send, settle | crash, lease overrun, lost answers, stale owners | SENT is true, budget kept, terminal is final, every row settled |
| Search lifecycle (`packages/core-search`, `apps/worker/src/searchWorker`) | `searches` | create, transition, claim, run, complete, fail, release | stale workers, cancellation during a run, retry budget | stale workers settle nothing, terminal is final, every Search ends |
| Pipeline (`core-discovery`, `-research`, `-qualification`, `-personalization`, `-opportunity`, `-outreach-preparation`, `-followup-preparation`) | prospects, signals, opportunities, drafts | find-or-create, supersede and insert, upserts | two workers on one Search, crash between two statements, stale evidence | one row per stage, stages rest on each other and on real evidence, a retry repairs what a crash left |
| Creating a Search (`core-search/src/service.ts`, `core-service-profile`) | `service_profiles`, `searches` | create, replace, delete a profile; `createSearch` with its key | calls of two windows interleave, retries with one key, edits between read and insert | one Search per key; a Search keeps the profile it was made from |
| Research call (`core-research/src/researcher.ts`, `provenance.ts`, `repair.ts`, `core-ai-usage`) | the call's attempts, `ai_usage_events` | fetch, ask, validate, repair, record, abort, deadline | a late answer beside a deadline, a repair that loses what was right, a failed usage write | what is returned is cited and complete; every answer is metered |
| Opportunities by hand (`core-opportunity`) | `opportunities`, `opportunity_scores`, `feedback` | create, score, classify, give feedback, total | signals superseded between two queries | offers, scores and staleness rest on evidence no research had replaced before the call |
| Entitlements and access (`core-entitlements`, migration 0004) | `entitlements`, `access_tokens`; signed links | grant, revoke, reissue a token, authorise a download, redeem a link | two reads with a grant or a revocation between them, a link that outlives its grant | who holds a product reads it, nobody else does, and nobody is offered what he has |
| Outreach approval (`core-outreach`) | drafts with an approval | generate, verify, repair, approve, reject, edit, send | edit after approval, two drafts for one channel | what is sent was approved, word for word |
| Proposals (`core-proposal`) | one record with versions | generate, verify, repair, edit, approve, send, answer | edit between approval and sending | what was sent is what was approved and stays readable |
| Acquisition engine (`core-acquisition`) | none: pure functions over an operator's records | stages, cadence, channel, next action, prospect score, decay | a reply or an opt-out before a scheduled follow-up, boundaries in days | nobody is chased after a reply or too early, and what went out without somebody's authorisation can be told; guesses never raise a score |
| Rate limiting (`packages/rate-limit`, `apps/web/src/lib/rateLimit`) | `rate_limit_counters`, a row per window | consume, sweep | concurrent consume at the limit, a clock read before the statement | never above the limit, never refused below it |
| Webhook records (`verifyRazorpayWebhook`, `webhookRetention.ts`, migrations 0007, 0011) | `webhook_events.payload`, `webhook_rejections` | store, reject, redact in batches | two redaction runs, a run killed between batches | bodies lose what is personal when due, and nothing else |
| Reconciliation (`core-reconciliation`) | `idempotency_reconciliations` | scan a dimension, upsert a case, triage | overlapping windows, a run that stops half-way, a case a human has closed | cases are true, triage is kept, a complete run misses nothing |
| Checkout panel (`apps/web/src/checkout`, `components/CheckoutPanel.tsx`) | a reducer, a cached script promise, Razorpay's window | start, load, open, succeed, fail, dismiss, retry | callbacks of an attempt that is over, capture after the window closed | one attempt at a time, always something to wait for, nobody who has paid is asked again |
| Index deployment (`packages/db-index-deploy`, migrations 0002, 0010) | `production_index_migrations`, the catalog, an advisory lock | preflight, create concurrently, verify, recover | a crash in each step, a server that goes on without its client, rows that collide meanwhile | done means enforced; lookups always have an index that works |
| Identity, checkout-return verification, catalog data, config, observability, dispatcher stubs, pages | single rows, constants or nothing | | | see "Not modelled" |

The parts meet in the tables. `orders` rows written by order creation are what
the webhook locks; rows the webhook commits to `meta_events` are what the
conversion worker claims, and its `entitlements` are what access reads; the
triggers of the migrations stand under all of them. Signals a research call
returns are what the pipeline stores and what opportunities are scored from.

## 2. Modules

| Module | Models | Code it stands for |
|---|---|---|
| `OrderIntake` | `createOrder` for concurrent requests | `createOrder.ts`, `orderRepository.ts`, `razorpayClient.ts` |
| `PaymentIntegrity` | the triggers and indexes on `orders`, `payments`, `meta_events` under READ COMMITTED | migrations 0001, 0002, 0003, 0009 |
| `PaidOrders` | *abstract*: what a captured payment brings about, in one step | the promise in the header of `webhookHandler.ts` |
| `WebhookPayments` | the webhook's transaction, statement by statement | `webhookHandler.ts`, `webhookPgStore.ts`, the route |
| `WebhookRecords` | what is kept of a webhook request, and its redaction | `webhook.ts`, `webhookRetention.ts`, migrations 0007, 0011 |
| `AccessGrants` | grants, revocation, tokens, signed links | `core-entitlements`, migration 0004, the ladder of `packages/catalog` |
| `RateLimit` | the gate in front of order creation | `packages/rate-limit`, its wiring in `apps/web` |
| `Checkout` | the checkout page in the browser | `CheckoutPanel.tsx`, `checkout/*` |
| `ConversionDelivery` | *abstract*: at-least-once delivery with one final outcome | the promise of `metaEvents/` |
| `MetaEventWorker` | the outbox's rows, leases and workers | `worker.ts`, `pgRepository.ts`, `backoff.ts` |
| `SearchIntake` | service profiles and `createSearch` | `core-service-profile`, `core-search/src/service.ts` |
| `SearchLifecycle` | Searches, workers and users | `core-search`, `searchWorker/` |
| `SearchPipeline` | what a run of the pipeline writes for one Prospect | `core-discovery` to `core-followup-preparation`, `runCanonicalPipeline` |
| `ResearchCall` | one research, from the fetch to the metered answer | `core-research`, `core-ai-usage` |
| `ProspectScore` | the prospect's score, its decay and staleness (pure) | `prospectScore.ts`, `scoring.ts` |
| `Opportunities` | what a user does with opportunities while research goes on | `core-opportunity` |
| `FollowUps` | stages, cadence, audit and the operator's queue | `stages.ts`, `followUp.ts`, `nextAction.ts`, `audit.ts` |
| `OutreachDrafts` | a message from request to sending | `core-outreach` |
| `Proposals` | a proposal from price to answer | `core-proposal` |
| `Reconciliation` | scans for duplicates and their cases | `core-reconciliation` |
| `IndexDeploy` | building unique indexes on a live database | `packages/db-index-deploy`, the script, migrations 0002, 0010 |
| `Absence` | the value the code writes as null, shared by what is composed | |
| `MC*` | small instances for TLC; `MCPlatform` composes fifteen components, with the texts of `MCOutreachDrafts` | |
| `*Proofs` | theorems, see section 5 | |

An operator whose comment begins with **Mutant:** is a deliberately wrong
variant of the definition that follows it (a dropped guard, a forgotten fence,
an off-by-one, a missing reset). No specification uses it. Each one can be put in the place of
the definition to see which property notices.

### How state and actions correspond to the code

**MetaEventWorker.** `meta_events[e]` is a row: status, attempts, lease owner,
`last_error` reduced to none/error/`DELIVERED_UNCONFIRMED`, and two facts in
place of clocks: `due` (`next_attempt_at <= now`) and `expired`
(`lease_expires_at <= now`). `pc`, `held`, `cur` and `snap` are the local state
of a worker: where `processMetaEvent` awaits, the rest of its batch, its event
and the attempt count the claim returned. `accepted` is Meta's own memory. One
action is one SQL statement or one HTTP request, which are the awaits of the
code; the fence `status = PROCESSING AND lease_owner = me` is `Owned`, and the
unfenced `recordAmbiguousSend` has no fence. The poll loop around it is not in
`src/` yet; its order (release, claim, process one after another) is taken from
`docs/WORKERS.md`. The worker's SIGTERM between two batches is the state it
polls from and needs no action.

**PaymentIntegrity.** A session holds at most one executed, uncommitted
statement (`stmt`). Triggers read what is committed when the statement runs;
row locks and index entries are held until commit, and a statement that would
wait is disabled. Legal transitions, frozen fields, `FOR SHARE` and the partial
unique index are operators named after the trigger functions. Left out: the
`product_slug` column of the order freeze (it behaves like the terms), deletes
(foreign keys with RESTRICT refuse them), updates that change none of the
modelled columns.

**WebhookPayments.** `pc[h]` is the next statement of a handler's transaction,
`wrote[h]` the rows it has inserted; they reach the tables at `Commit`.
`Contended` and `OrderLocked` say when a statement waits for another
transaction's index entry or for `FOR UPDATE`. `Rollback` is the exception that
leaves the handler. A delivery that fails the signature or the schema touches
none of these tables. Razorpay (`Capture`, `Deliver`) is external: it may
capture several payments of one order and deliver an event any number of times.

**OrderIntake.** A request is at most one Razorpay order and one row, so both
are named after it. `pc[r]` is the next await of `createOrder`. A database or
provider failure may strike before or after its effect.

**SearchLifecycle.** `searches[s]` is a row (status, attempts, owner, lease,
error); `pc`, `cur`, `claim` the worker's loop, its Search and the attempt number
of its claim. `TransitionSearch` is the user's side: a conditional UPDATE on the
status the graph was asked about, which leaves the lease columns. `failures` is
a history variable. The pipeline's own writes are in the next module.

**SearchPipeline.** The tables of one Prospect: `signals`, `superseded` and
`cited` are `research_signals` with its `superseded_at` and its sources; a
signal is the run that found it and one of three kinds (an observed claim that
matches the user's service, an inferred one that does not, an observation that
claims nothing). Qualification, personalization and drafts are reduced to their
state and the evidence they carry. `pc[w]` is the next statement of
`runCanonicalPipeline`, `read[w]` what the worker read last: nothing holds the
stages together in a transaction, so a worker whose lease ran out goes on among
the statements of another (`Release` takes the lease, as a fault while the owner
works). The Prospects of a Search share no row and are processed one after
another, so one stands for all; companies and prospects themselves are
idempotent upserts. `undisturbed` is a history variable. The variants of the
stage functions that check a user's token have no route and are left out.

**SearchIntake.** A caller's request is at one of the awaits of `createSearch`
(`FindByIdempotencyKey`, `GetProfile`, `InsertSearch`); profiles change between
them. The insert fails on the unique (owner, key), and that violation is not
caught, so a retry finds the first Search. Of a profile the model keeps how
often it was edited, which is what tells a snapshot from a reference.

**ResearchCall.** `turn` is the next await of `research()`. A document is a
function from observations to claims, a claim its class, its citations and
whether the rest of it is well-formed; `prior`, `roots` and `sources` are what
the repair turns carry from one attempt to the next (`PlanRepair`). Abort and deadline are
actions enabled at any moment and noticed only where the code looks.

**AccessGrants.** Entitlements by customer and product, tokens by age, links as
the claims they were signed over. `reissue` and `download` are requests between
their two queries; the instant is taken once at the start, as the code does. No
code revokes a token, but `evaluateAccessToken` reads `revoked_at`, so somebody
outside may set it at any moment (`RevokeToken`).

**RateLimit.** A request reads the clock, then `Consume` is the atomic upsert;
the sweep of closed windows is an action of its own. Malformed bodies and
proxies that hide the address take the branches of the route.

**WebhookRecords.** A body is the set of JSON paths in it; `Redact` is one
batch's statement with its row locks (`SKIP LOCKED`), its commit is another
step, and a kill falls between them. The stamp of a narrowed row is the instant
its run started, as in the code, and not that of the UPDATE.

**Opportunities, ProspectScore.** A call's step and what it has read are in
`query[c]`; research supersedes and inserts signals in between. A research run
takes its instant when it starts (`StartResearch`), awaits the provider and only
then supersedes and saves, with that earlier instant on every row; `leftOn` is the
day a row really left the active ones, a history the code does not keep. One run
goes on at a time here; overlapping ones are in `SearchPipeline`. Points are
computed exactly, as fractions; what the code sums with a loop or `reduce` is
a sum over the set of indices, which can be reasoned about without induction.
The code of `ProspectScore` is pure, so its only state is the question put to it:
`EnterProspect` chooses an operator's record, `ProspectAges` lets days pass.

**FollowUps.** The package is pure, so its caller is the operator: an action
applies one of its functions to the operator's records, and leads reply,
unsubscribe or stay silent between planning, authorisation and sending.
`MoveTo` allows every transition `assertTransition` does, so a paused lead may go
to any stage of the pipeline, and `SendFollowUp` asks for a person and for nothing else,
like `recordSend`. `touches` is a history of what went out, `trail` the audit entries.

**OutreachDrafts, Proposals.** Generation step by step (reply, verification, one
repair, best attempt kept), then human moves on the stored record. A text is
what verification finds out about it. `consent` and `approved` are histories.

**Checkout.** `starts[n]` is where one `start()` stands at its awaits; the
script is "absent", "loading", "ready" or "broken", the cached rejection.
Razorpay's window is external: it covers the page while it is open.

**Reconciliation.** A run has a window, groups found so far and a report; one
action is one query or one upsert. Rows arrive and a human triages meanwhile.

**IndexDeploy.** A run is at one await of `deployOne`; `CREATE INDEX
CONCURRENTLY` is four steps of the server that may go on when its client is
dead. The operator does what the script prints; migrations 0002 and 0010 are
guarded steps.

**MCPlatform.** A TLC run is started per question; these components share no
state, and checking them apart would be fifteen configurations that differ in
nothing but the module. `MCPlatform` extends them all, so that its invariants
are the very definitions the theorems are about, and takes their disjoint sum:
`part` is chosen at the start and only that part moves (`Opportunities` is two
parts, with two mixtures of its calls). The invariants need no
guard on `part`: a part that stands still is in its initial state, where they
hold too. Nothing is lost (there is no interaction to miss) and nothing is
multiplied (the states add up).

## 3. Runs

Each run answers one question. A bound is named in the module as a constant
(`MaxFaults`, `MaxAttempts`, `BatchLimit`) or is the size of a constant set.

| Run | Instance | What it shows |
|---|---|---|
| `outbox` | 2 rows (one with an unknown event name), 2 workers, batches of 2, budget 2, 2 faults | leases, budget, final statuses, truth of SENT, refinement of `ConversionDelivery`, and under fairness every conversion is settled |
| `search` | 2 Searches, 2 workers, every move of the user, budget 2, 2 faults | stale workers settle nothing; terminal is final; budget; and under fairness every Search ends |
| `pipeline` | 1 Prospect, 2 workers, 3 runs, 2 results of research, at most 1 piece of evidence, 2 faults | stages rest on each other and on real evidence however runs mix; one undisturbed run repairs what earlier ones left |
| `webhook_liveness` | 4 events, 4 payments, 2 orders of one customer and one of a stranger, 2 handlers, 1 fault | `WebhookHolds`: what is answered 200 is settled, access is backed by a capture; `ImplementsPaidOrders`: overlapping, repeated and failing deliveries settle each payment once, in one step; no request waits for ever; a captured payment of a known order is settled |
| `platform` | the sixteen parts below, 1.35 million states | the safety of everything else |
| `outbox_charge`, `payments_purchase`, `search_crash`, `pipeline_need`, `access_rebuy`, `outreach_verdict`, `checkout_resume` | the smallest instance each needs | *violations*: divergences 1 to 7 of section 6 |

The parts of `platform`, with their distinct states in thousands:

| Part | Instance | States | Properties |
|---|---|---|---|
| intake | 5 requests, 4 with one key (one of them for another product, one malformed), 1 without a key, 2 faults | 37 | one key is one order; answers fit requests; conflicts are real; orphans are accounted for |
| payments | 2 orders, 2 payments, 2 terms, 3 sessions | 61 | payments match their orders; one capture per order; legal transitions only |
| gate | 3 requests of one address, limit 1, windows of 2 ticks | 40 | `GateHolds`: never above the limit, at most twice in any stretch, refusals are fair |
| records | 2 rows, 2 runs, batches of 1, 3 days | 79 | `RetentionHolds`, `RedactionIsFinal` |
| access | 2 customers, a ladder of 2, 1 token and 1 link alive | 301 | `AccessHolds`: readers hold what they read although they are asked in two queries; offers are for what cannot be read yet |
| deploy | 2 targets, 2 runs, 4 catalogs to begin with | 172 | `DeploymentHolds` |
| reconcile | 3 rows, 2 dimensions of one table, 2 runs whose windows overlap, 1 move of triage | 87 | `ReconciliationHolds` |
| opportunities | 1 prospect, 2 callers, 2 rows, 2 researches, 3 calls (creation, score, class) once a first row is there, days 0 and 31 | 222 | `ScoringHolds` with the next two rows |
| totals | the same without research, 3 calls (creation, verdict, total) | 1 | `SummaryIsBracketed`, a part of `ScoringHolds`: each count lies between what there was when the call began and what there is when it ends |
| prospects | 1296 prospects, 6 ages around each threshold | 8 | HIGH rests on facts, inference never helps, waiting never promotes |
| followups | 1 lead, 2 channels, 2 touches, 7 days from a Monday, 3 entries in the trail | 117 | `FollowUpsHold` |
| outreach | 6 messages over 2 channels, 2 attempts, 3 moves | 20 | `OutreachHolds` |
| proposals | 5 texts, 2 attempts, 3 versions, 2 ticks | 19 | `ProposalsHold` |
| checkout | 3 attempts | 1 | `CheckoutHolds` |
| research | 2 observations, 6 kinds of claim, 2 documents, 3 attempts | 127 | `ResearchHolds` |
| searches | 2 users, 2 callers, 2 profiles, 1 edit, 2 calls, 1 key | 58 | `SearchIntakeHolds`: a request gets a Search that fits it, a retry the first one, an edit changes no Search |

**Why these bounds are enough.** The hazards are races of two actors over one
row: the smallest instance with both is two workers (handlers, sessions, callers,
runs) and one row, and a second row shows that they do not disturb each other. A
budget of two has a first, a last and an exhausted attempt. Two faults allow a
lease overrun followed by a crash of the worker that took over. Three sessions
let a refund, a capture and an order update overlap. The webhook's instance has
an order paid twice and two orders of one customer; two events of one payment
are left to the theorems, the liveness check does not end in time with them. In `pipeline` two runs may
overlap and a third must repair what they left; overlapping runs have more
evidence than fits. In `gate` two windows and a request that stalls across the
boundary occur. In `research` the third attempt follows a repair of a repair;
three attempts are the default of the code. In `deploy` the targets begin new,
whole, unfinished, or under a name somebody else took, and the second run finds
whatever the first left at any step. In `opportunities` three calls are a creation,
a score and a classification, in any order, beside a research run that starts on one
day and writes on the other; they begin once there is a row of evidence to lose, and
`totals` has the verdicts and totals of the same module, which read no evidence (that
a call may also come before all evidence is left to `OpportunitiesHoldAlways`). In
`followups` the trail has room for an authorisation, a decline and another
authorisation before a sending. Two parts are narrower than their theorem: in `gate` a policy decides
twice, so the limit of twice the budget over two windows bites only in `GateHoldsAlways`,
and in `reconcile` there is one colliding value and `MaxGroups` is 1, so a list of groups is never
cut short. What the bounds cannot show, the theorems
of section 5 do: every safety property of a passing run is one of them.

Symmetry is used only where no liveness is checked; in `platform` it is that of the two
callers of `opportunities` and `searches`, which no definition tells apart. Deadlock is switched off for the
outbox, for the pipeline and for `platform`: their work comes to an end (all
rows settled, all requests answered, the Search ended or its runs used up, the
bounds on time and calls reached).

## 4. Fairness

Fairness is stated in three specifications; the parts of `platform` are checked
for safety only, because their steps are taken by people, browsers and
schedulers that may stop at any time.

- *Outbox*: weak fairness of each worker's own steps (the loop of
  `docs/WORKERS.md` keeps polling, the HTTP client has a timeout), of time
  passing for a retry delay, and for the lease of a row no worker still holds.
  Faults are not fair; they are bounded by `MaxFaults`, because a system that
  fails for ever settles nothing.
- *Webhook*: strong fairness of each handler, since a lock wait is enabled and
  disabled as others come and go and PostgreSQL wakes waiters in order; strong
  fairness of redelivery of what has not been answered 200, Razorpay's retry.
- *Search*: weak fairness of each worker's loop (`pollLoop.ts` never ends
  except on a signal) and of lease expiry for a row whose worker is gone.
  The user's moves are not fair.

## 5. Proofs

Every component that keeps state is proved. A proof module holds one component
or, where the module would be small, a few neighbours, one after another, each
with its own inductive invariant; they share only the lemmas on numbers and finite sets.

| Module | Component | Proved for all values of the constants |
|---|---|---|
| `MetaEventWorkerProofs` | `MetaEventWorker` | type correctness, `DeliveryIsReal`, `FreshSnapshot`, `BudgetRespected`, `LiveLeaseHonoured`, `TerminalIsFinal`, `AttemptsCountFailures`, and that it implements `ConversionDelivery` |
| `WebhookPaymentsProofs` | `WebhookPayments` | type correctness, `WebhookHolds`, and that it implements `PaidOrders` |
| `SearchLifecycleProofs` | `SearchLifecycle` | type correctness, `FailuresWithinBudget`, `NoSearchIsStuck`, `NewestClaimSettles`, `TerminalIsFinal` |
| `SearchPipelineProofs` | `SearchPipeline` | type correctness, `StagesRestOnEachOther`, `EvidenceIsReal`, `UndisturbedRunHeals` |
| `PurchaseProofs` | `OrderIntake` | type correctness, `SameKeySameOrder`, `AnswerFitsRequest`, `ConflictIsReal`, `OrphansAreBounded` |
| | `PaymentIntegrity` | type correctness, `PaymentsMatchOrders`, `OneCapture`, `CaptureIsFinal` |
| | `Checkout` | `CheckoutHolds` |
| | `AccessGrants` | `AccessHolds` |
| `UpkeepProofs` | `RateLimit` | `GateHolds` |
| | `IndexDeploy` | `DeploymentHolds` |
| | `WebhookRecords` | `RetentionHolds`, `RedactionIsFinal` |
| | `Reconciliation` | `ReconciliationHolds` |
| `ProspectingProofs` | `SearchIntake` | `SearchIntakeHolds` |
| | `ResearchCall` | `ResearchHolds` |
| | `ProspectScore`, `Opportunities` | `ProspectsHold`, `OpportunitiesHold`, and both together, `ScoringHolds` |
| `SalesProofs` | `OutreachDrafts` | `OutreachHolds` |
| | `Proposals` | `ProposalsHold` |
| | `FollowUps` | `FollowUpsHold` |

A `...Holds` is the conjunction a component promises, its type invariant first;
the conjuncts are definitions of their own, each with its comment.

**Assumptions.** Only on constants, as named ASSUMEs which TLC evaluates in every
run. Absence markers differ from real values; budgets, windows and
bounds are numbers the configuration code accepts (a budget of the outbox is in
1..20, a retention lies between its two limits); lists of index targets and of
dimensions name each once; sets that are counted are finite. Four say something
about the input. `ResearchConstants`: documents are told apart by their URLs, as a
call is given the homepage alone. `OpportunityConstants`: an inferred signal has
a confidence of at most 80, which the schema of research enforces.
`ScoreConstants`: a prospect's answers have one of the shapes the types of
`prospectScore.ts` allow. `FollowUpConstants`: a lead's channels are distinct.

**Arguments.** The safety properties are seldom inductive as they stand. Each
argument below rests on a strengthening, `IInv` where a module has one component
and `OrdersIInv`, `GateIInv`, `ScanIInv`, ... where it has several.

- **Outbox.** The safety properties alone are not inductive: a worker that owns
  a row could hold a stale count. `IInv` adds that a busy worker's event is among
  the ones it holds, that a held row's snapshot is below the budget, what the
  control point says about Meta and routing, and that only a PROCESSING row has
  an owner. `FreshSnapshot` is the heart: while a worker owns a row nobody else
  writes its attempts, because every other write is fenced, touches the note
  only, or needs the status PENDING. A step of the system is then shown to
  change one row in one of a few ways (`StepEffect`), from which each action
  property and the refinement follow.
- **Payments.** Statements in flight matter: `InFlight` says that each one is
  still as sound as when its triggers ran, and that any two are compatible (no
  two on one row, no payment and order update of one order, no two captures of
  one order). The FOR SHARE lock and the index entry are what make the pair
  compatible; committing one statement keeps the others sound.
- **Order creation.** One row per key, every answer is a row of its request's
  key, and rows are written after their Razorpay order exists. For the orphans:
  a request that has not asked Razorpay yet has left none (`NothingPlacedYet`), and
  rows are never deleted, so what a finished request was told stays true.
- **Webhook.** `Transaction` says, for the statement a handler is at, what its
  transaction has written and what the rows it read still say; it survives the
  steps of others because a transaction that is past its order's upsert holds that
  row's lock until it ends, and no two do (`LocksAreExclusive`). `TablesAgree` relates the
  committed tables of an order, `EventsAreSettled` the stored events to them. Only
  `Commit` changes what is committed, and it takes the one step `PaidOrders`
  promises; every other step stutters.
- **Search.** A running, owned Search has failed fewer times than it was claimed
  (`Charged`), and the owner of a row holds its newest claim, even though the
  fence compares worker ids: a worker has one Search at a time, so it cannot
  still be busy with an old claim of the row it owns.
- **Pipeline.** Two invariants on top of each other. `Gates` says what a worker at
  a statement has read and knows to exist; it holds however runs mix, because
  rows of later stages are never removed and signals never disappear. For an
  undisturbed run, `Alone` says that nobody else is at work (any other claim ends
  the state of being undisturbed), so `InOrder`, what the run has put right so far,
  only has to survive the run's own steps.
- **Index deployment.** A whole index has no colliding rows (`WholeIsClean`),
  because writers maintain it from before its last pass; so what the catalog calls
  valid is enforced and stays so, whichever way it came about. The run with the
  lock is alone, so what it has read of its target is still true when it acts on it,
  and no target behind it is RUNNING (`Progress`); a RUNNING row that outlives its
  run has a dead run to explain it.
- **Search creation.** Rows move one way only: a profile keeps its owner, its edits
  grow, it goes once and only while no Search refers to it; a Search never changes
  and there is one for a user's key. So what a call has read stays a lower bound
  of what it finds later, and the Searches there were when it began are fixed
  (`CallHolds`).

- **Checkout.** The attempt that still runs is the last one, no window is open
  beside it, and the panel shows it (`UnderWay`); an open window is that of the
  last attempt (`WindowIsShown`). So a callback speaks
  of the attempt the panel shows, and what the panel shows as busy has a cause (`ShownIsBusy`).
- **Access.** Between its two queries a download carries what the customer could
  open at any moment since it began, and what he could not (`ListsWhatIs`). An answer is
  true of one of those moments. What a customer may open is all up to his
  highest rung (`Ladder`), so an offer is the rung above it.
- **The gate.** A policy counts a request once (`CountedOnce`), the hits of a
  bucket are counted from one without a gap (`NoGaps`), and while a window is open
  its row stands and no two requests that are in time have the same number
  (`OpenWindows`), although a sweep may come between the clock a request read
  and its upsert. So a refusal has a full limit of others behind it, and a
  stretch as long as a window, which meets at most two, lets at most twice the limit pass.
- **Webhook records.** The rows a redaction has locked were due and are locked by
  nobody else (`LocksApart`), so what it narrows was whole. A batch that is
  short took all that was free (`ShortBatchIsAll`); a run that reports the backlog
  drained has left only what it skipped, which another run held.
- **Reconciliation.** Rows are only appended, so a group a run found stays true of
  the rows there were at its scan (`TrueGroup`), whatever arrives while it goes on.
  A run has, of each dimension it has scanned, exactly the colliding values, as
  far as its limit goes (`RunFinds`), and has written its groups in order
  (`RunSteps`); one run alone creates a case (`ReportsIInv`).
- **Research call.** A repair may touch the roots of the last candidate's issues only
  (`PlanIInv`), so a claim that was right stays where it was (`GoodIInv`). A model that does
  as it is told has no fault of shape after its second answer (`RoundsIInv`), so a
  third is enough. Every answer but the one in hand is metered (`MeterIInv`).
- **Scores.** An inferred claim earns at most half the points of an observed one,
  and a band of HIGH is capped to MEDIUM unless half of what counts as evidence
  was observed; so the observed points of a HIGH are at least the inferred ones, and taking
  a claim for inferred lowers the score without lifting the cap. Of the factors
  that count, only what fades with age grows smaller, and it was observed: fading
  does not lift the cap either. Sums over any number of claims are bounded claim by claim.
- **Opportunities.** Rows of signals are replaced but never removed, and a row leaves the
  active ones on the day of the UPDATE (`leftOn`). So what a call found active after it
  began had left them on no earlier day than the one the call names when it writes
  (`BackedIsKept`), however long the write is delayed. `superseded_at` would not carry the argument:
  it is the day the research run started, which may precede the day the row was
  last read as active, and a reader of the table cannot tell from it what a score rested on. Offers, scores and staleness are those of the rows they name
  (`OpportunityIsDerived`), and the two counts of a total lie between what there
  was at its beginning and at its end, since the tables only grow.
- **Outreach.** A draft keeps the words of nobody else, an edit takes the approval
  back, and there are no drafts before a generation ends (`VerdictsOfBest`); a
  verdict is that of its channel, that is of the last draft for it (`LastVerdictsAreTrue`),
  which is all the code promises (item 6 of section 6). A failing draft is handed over like
  any other; a verdict of ok means that what the draft quotes was observed.
- **Proposals.** Versions are numbered, for the agreed price, and dated by when
  they were made (`VersionsIInv`). The version that went out was made by then and those
  after it no earlier (`SendingIInv`), so `sentVersion` finds it, or one made at the very instant
  of the sending (`SentVersionFound`).
- **Follow-ups.** What is scheduled is the next touch of a lead that has not
  replied, is due, and changes channel if there is another (`PlanIInv`); what is scheduled as
  authorised was authorised by a person (`TrailIInv`). The weekdays between two
  days are a set that only grows with the later one, so a touch that was due stays due.

**Model-checked only.** Liveness: `EventuallySettled`, `RequestsEnd`,
`CapturedIsSettled`, `EverySearchEnds`. They rest on fairness, that is on ENABLED,
which is out of the prover's reach. Every invariant and every action property a
passing run checks, and both refinements, are theorems. What a recursive
definition computes for all inputs would need induction theorems that take an
operator, which the provers cannot instantiate; the modules avoid such
definitions or say what they need of them pointwise.

## 6. Where code and words differ

1. **Attempts for our own failures** (`outbox_charge`). `worker.ts:245` and
   `docs/WORKERS.md:62` say attempts grow only when Meta failed; an exception of
   `loadContext` goes to `scheduleRetry` too (`worker.ts:292`), so a database
   outage can dead-letter a conversion.
2. **Purchase without a capture** (`payments_purchase`). Migration 0009 says the
   two Meta triggers together make the invariant hold; both read the other
   table without a lock, so a refund and a Purchase insert that overlap both
   commit.
3. **Crashes spend the budget** (`search_crash`). `retry.ts:10` says a crash does
   not count; the claim increments `attempts` and the lease recovery does not
   give it back, so one crash and two failures end a Search with budget three.
4. **A need nobody sees any more** (`pipeline_need`). `rules.ts:55-58` says that
   EVIDENCE_PRESENT fails when every signal that justified the need is
   superseded; it asks for any live claim, and `needDetected` is computed once.
   A second research that finds only something unrelated leaves the
   opportunity QUALIFIED.
5. **Buying again after a revocation** (`access_rebuy`). `webhookHandler.ts:22`
   calls a payment without its entitlement "a customer who paid and got nothing";
   the grant is ON CONFLICT DO NOTHING, so a revoked row of the same product
   swallows it and the new payment opens nothing.
6. **A failing draft with the verdict of another** (`outreach_verdict`).
   `generator.ts:17` says a failing message is visible; verifications are kept by
   channel (`verify.ts:199`), and a reply may hold two drafts for one channel: of
   two e-mails the first invents evidence, and both are handed over as ok.
7. **Resuming drops the order** (`checkout_resume`). `CheckoutPanel.tsx:270` says
   the order is held; "Resume payment" dispatches RETRY, which drops it, and the
   next attempt makes a second order.

Noted without a run, because they are wording, accepted, or of little weight:

- *Pipeline.* Overlapping runs can leave the signals of two researches active,
  where migration 0016 speaks of superseding "every currently-active row" first,
  until the next undisturbed run (`UndisturbedRunHeals`). A personalization stays
  when its opportunity is no longer qualified, and drafts are prepared from it,
  which `requirement/PHASE_21_PERSONALIZATION_CLOSURE.md` accepts.
- *Outbox.* A worker whose lease ran out before its request sends a row that
  already says SENT, which the outbox's comments accept as at-least-once delivery
  and Meta deduplicates (`ConversionDelivery` allows it).
- *Webhook.* A second captured payment of one order is refused by the index on
  every redelivery, so `CapturedIsSettled` is about orders paid once.
  `docs/WEBHOOKS.md` and parts of `docs/PAYMENTS.md` still describe a webhook that
  is not implemented.
- *Searches.* `transitionSearch` may move PENDING to RUNNING without a lease; such
  a row is nobody's, which `EverySearchEnds` names. `core-search/service.ts`
  says `createOrder.ts` has "the same documented limitation" of an uncaught unique
  violation; `createOrder` reads again and replays. Deleting a profile a Search
  was made from ends in the foreign key's raw error, as 0014 documents.
- *Research.* The deadline is "for the WHOLE call" (`researcher.ts:92`) but does
  not bound a model call in flight (`OneLateAnswer` says how many may come late).
  An abort during a backoff surfaces the raw reason instead of
  `ResearchAbortedError`. An answer without readable text is billed, retried and
  not metered. A failed usage write throws the paid answer away. Two supplied
  documents with one URL make a true quote of the second fail.
- *Scores.* Offer fit that rests on inferred signals is stored and scored as
  observed; superseded evidence aside, the order of rows decides between equal
  confidences; `actioned` may exceed `created` in a total whose two queries
  straddle a call.
- *Follow-ups.* `nextAction.ts:90` says a reply outranks everything; a lead
  neglected for some ninety days outranks an unread reply (`:134`). A scheduled
  follow-up is not checked again after an opt-out, a pause or a close, and goes
  out; nor does `recordSend` ask whether it was authorised, which `audit.ts:96-97` knows: such a
  touch "leaves an audit trail that visibly has no approver", and `TrailTellsApproval`
  says that it does. A PAUSED lead's unread reply shows nothing. `stages.ts` says that only a
  proposal can be won, lest somebody drags a lead "straight to closed"; a paused lead may
  be moved to PROPOSAL_SENT (`engine.test.ts:112-124` asserts it) and from there be won
  without ever having been contacted. A lead moved from a pause to CONTACTED with no touch
  is queued as SEND_FOLLOW_UP, while `planNextFollowUp` answers STOP_NOT_CONTACTED
  (`QueueAgreesWithPlan` is about leads that were written to).
- *Checkout.* `loadRazorpay.ts` promises that a retry tries again; a script that
  loads without defining Razorpay leaves the rejected promise cached. "Nothing
  was charged" may be read while a payment begun in the closed window is still
  captured. No request is ever retried with the key it was sent with.
- *Retention.* A redaction reports `incomplete` also when exactly its last full
  batch emptied the table.
- *Proposals, outreach.* A text that is edited is approved again by a human but
  never verified again. `sentVersion` picks by time and includes the instant of the sending: a proposal
  sent, declined and edited within one instant, as `proposal.test.ts:379-382` does, has the edit
  for its sent version (`SentVersionIsKept` names the case).
- *Research.* `superseded_at` is the instant the run started, before the provider was asked,
  so it may precede the reading of the row by a call that scored it.

## 7. Not modelled

- **Identity and sessions.** A session is one lookup of a row that nothing
  updates or revokes. Every call looks its token up once, first, and acts for
  the user it found; there is no interleaving to explore. The modules start
  behind `requireUser`.
- **Checkout-return verification**, hashing, signatures and prompts: pure functions of
  their input where correctness is cryptography or wording.
- **Configuration and observability**, type declarations, environment parsing, log
  redaction; **dispatcher stubs**, which only throw; **dashboard and marketing
  pages**, which render what is computed elsewhere.
- Of modelled parts: the layout and hashing of Meta's payload; the columns and
  deletes no property is about; normalisation of domains and the Places client
  of discovery; dashboard totals, metrics and message texts of the acquisition
  engine; prices and texts of the catalog.

Several packages have no caller under `src/` besides their tests
(`core-acquisition`, `core-outreach`, `core-proposal`, the scoring half of
`core-opportunity`, `createSearch` and the service profiles). Their callers are
the environment of the model, and what they are assumed to do is small: the
owner of a record stores what a function returned, the opening message of a lead goes
out once, and a reply takes away what is scheduled (`shouldCancelOnReply`).

## 8. Plan

Done: every component above that keeps state is modelled, checked and proved.
Left, in this order:

1. `Checkout` composed with `OrderIntake`, so that lost answers of the order
   request meet the keys the server keeps.
2. `WebhookPayments` over the triggers and locks of `PaymentIntegrity`, which now
   meet only in that both allow the same writes.
3. The poll loop of the conversion worker, once it is in `src/`.
