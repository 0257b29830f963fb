# A verification project for the Murzak website back end

TLA+ models, TLC runs and TLAPS proofs for the back end in `src/backend` (with
the programs under `src/broker` and `src/deploy/vps` that work on the same
records). The back end sells hosted services: a customer reserves capacity,
pays an invoice by PayPal or M-Pesa, the services of the account are activated
and Provisioning Jobs are queued, a runner builds them, and a sweep bills the
account again when the term is over.

Everything durable lives in **Frappe**, a record store reached over HTTP. It
has no transactions the code uses, no compare-and-set, and a PUT patches the
fields it names whatever the row holds by then. The only mutual exclusion is
inside one Node process: chains of promises. So the system is correct, or not,
by the order of its requests, and that is what the models are about: **every
GET, POST and PUT is an action of its own**, each of them may fail before or
after Frappe has stored it, and the process may die between any two.

## 1. Inventory

| component | state | operations | modelled in |
|---|---|---|---|
| provisioning runner, poll mode (`services/provisioning/runner.js`) | Provisioning Job rows; an id per process | `processQueue`: reclaim stale rows, fetch, place, claim, build, report | `ProvisioningRunner` |
| admin endpoints (`routes/adminRoutes.js`) | the same rows, domains | run, retry, resolve, domain status | `ProvisioningRunner`, `DomainPurchases` |
| BullMQ dispatcher (`services/provisioning/queue.js`) | a Redis queue of names over the job rows | enqueue, process, delayed retry, reconcile | `JobDispatch` |
| host bench runner (`deploy/vps/bin/murzak-bench-runner`) | the same rows, on the host | reclaim, claim, build, report | `JobDispatch` |
| Coolify lane (`services/provisioning/lanes/coolify.js`) and the deletion of a service | resources and builds on the platform, `deployment_uuid`, `external_ref` | find or create, start, read, build, wait; destroy | `CoolifyBuilds` |
| activation (`services/billingActivationService.js`) | Portal Invoice, service rows of the Web Account, the account lock | `activateServicesForInvoice` | `AccountActivation` |
| PayPal (`services/paypalService.js`, `routes/paypalRoutes.js`, `server.js`) | invoice, PayPal's own record | capture, COMPLETED, REFUNDED/REVERSED/DENIED | `AccountActivation` |
| M-Pesa (`routes/billingRoutes.js`, `services/mpesaService.js`) | invoice, its current prompt id and their history | push, prompt, callback | `MpesaPayments`, `AccountActivation` |
| job creation (`services/provisioning/provisioningService.js`) | jobs, unique `job_key`; the RAM sum | find then insert; provenance of the address | `AccountActivation`, `TenantSlugs`, `CheckoutReservations` |
| renewal sweep (`services/renewalService.js`) | Subscription invoices, plan and rows of the account | bill a term that is over, cut off after the grace window | `SubscriptionBilling` |
| plan selection and first orders (`routes/billingRoutes.js`, `server.js`, `services/checkoutBillingTerm.js`) | the same | attach or replace services, retire the old plan's invoice, raise one | `SubscriptionBilling` |
| checkout orders (`services/checkout/orderStore.js`, `routes/ordersRoutes.js`) | Checkout Orders, the create mutex | create, companions, heartbeat, prepare, cancel, sweep | `CheckoutReservations` |
| tenant slugs (`services/apps/tenantSlugStore.js`) | shop addresses, a mutex with a timeout | reserve, renew, take over, link, activate, adopt | `TenantSlugs`, abstractly `AddressBook` |
| paid app-order reconciler (`services/apps/paidOrderReconciler.js`) | attempt markers on the order | activate again what a paid order lacks | `TenantSlugs`; its call, as a `resync`, in `AccountActivation` |
| bundles and add-on invoices (`services/checkout/bundles.js`, `services/addonInvoiceService.js`) | ledger in the order's JSON, a lock per order, add-on invoices | claim, record, release a saving; create or merge an invoice; reprice on deletion | `AddonSavings` |
| customer domains (`services/domainPurchaseFulfilment.js`, `services/customerDomains.js`) | intake rows, ownership records, the registrar | fulfil, form, staff decision, backfill | `DomainPurchases` |
| terminal broker and its records (`broker/`, `routes/internalRoutes.js`, `services/terminal/`) | slots with timers, shells, session rows, recordings | open, close, kill, reap, report, purge | `TerminalBroker` over `TerminalRecords` |
| placement and ports (`scaling.js`, `targets.js`, `dbPortAllocator.js`) | none of their own: reads of the jobs | choose a box, a port | a choice in `ProvisioningRunner` |
| other lanes, storage, mail, DNS, health, sign-in, front end, deploy scripts | other systems, single records | adapters and pure I/O | not modelled (section 6) |

How they interact: an **order** reserves RAM while it is a live Draft, and for
a shop an address; `prepare-payment` raises an **invoice** and links it to the
address and the order; a payment rail marks the invoice Paid and **activates**
the account's rows and queues **jobs**, which count against the RAM from then
on; the **runner** (poll or BullMQ, or the host) has a **lane** build a job and
flips the account row from "Setting up" to "Active"; the **renewal sweep** bills
the term after the one paid for; other sweeps come round to orders, invoices and
jobs that were left in the middle. The hard behaviours are therefore

- a value read before an `await` and written back, or relied on, after it
  (claims, services arrays, ledgers, prompt histories, statuses, RAM figures,
  terms, expiry times);
- repeated and concurrent deliveries: PayPal's redelivery next to the browser's
  capture call, two M-Pesa prompts, double clicks, overlapping timers, a message
  in Redis next to the reconcile pass;
- one step of several failing (Paid but not activated; active but not flipped; a
  resource created whose answer is lost; a saving claimed for an invoice that
  failed);
- crashes between two requests, and what the later sweep then makes of the row;
- a timeout whose operation goes on (the address store, a build, the claim of a
  slow build);
- progress: nothing may be stranded, no lock or slot may be kept.

`PROJECT.json` lists each hazard at its line, with the property that covers it
or the reason why none can.

## 2. The modules

In all of them a request has three outcomes: it succeeds, it fails before
Frappe stored it, or it fails after. The bound on failures and crashes is
`MaxMishaps` or a field of the scenario a behaviour begins with. Variables that
say `(history)` exist in no program; only properties read them. Operators whose
comment begins with "Mutant" (or ends in `\* mutant`) are the mistakes each
property is tested against; no other definition uses them.

### ProvisioningRunner

One record per Provisioning Job (`status`, `runner_id`, `attempts`, and whether
`next_run_at` is still to come and `started_at` is too old), and one record per
*pass*, a call of `processQueue()`. A pass goes `reclaim -> fetch -> next ->
place -> claim -> write -> verify -> build -> activate | retry | giveUp`, each
arrow a request or a decision. The rows a pass holds are the snapshots its list
queries returned; `attempts` is counted from them, as in the code.

- A process gives all its passes one runner id; a reboot makes a new one.
- The workers of a pass take distinct rows and share nothing else, so a pass is
  modelled with one worker.
- `Build` stands for `adapter.provision()`: it returns, throws, or throws for
  good. Backup and edge registration cannot fail the job and are left out.
- `claims` is a history variable: claims written since the last admin retry.
- `AdminRetry` and `AdminResolve` have no status guard, as in the routes.
- Which passes and jobs there are is part of the initial state (`Scenarios`);
  a pass that is not in it stays `off`.

### JobDispatch

The same rows when the queue is BullMQ. `redis[j][n]` is the message named
after job `j` (0) or after its n-th retry: absent, delayed, waiting, or held by
a worker. The order (in the initial state), the reconcile timer and the
processor's own delayed retry add messages, and BullMQ drops an add whose name
it has. A worker reads the *row* and claims it as a pass does; a bench job is
escalated to `needs_human`, where the host's shell script takes it from by
rules of its own (reclaim without charging, claim by writing and reading back,
report). `host[h]` is one run of it with the rows it listed: the timer's, or
one started by hand beside it, which nothing prevents and whose list is as old
as its start. `crossed` (history) marks a job on which two runs met. A job is
born queued, parked by the capacity gate, or held (`HeldAttempts`) for staff.
Redis may lose everything, a worker or a host run may die.

### CoolifyBuilds

One job of the Coolify lane through its attempts. `box[u]` is the status of the
resource Coolify gave uuid `u`, `build[d]` that of deployment `d`, `lane[a]` what
attempt `a` holds. Attempts may overlap: an admin retry or the reclaim of a row
that is still being built makes it claimable again, and the next poll of the same
process claims it under the same runner id (`runner.js:127-140`, `526-540`).
`overlaps` (history) counts the attempts that began beside another, which the run
bounds with `MaxOverlaps`. A pass reclaims and claims rows from what it listed. An
attempt goes `list -> create -> look -> start -> poll -> attach -> restart
-> again`, or for an application `deploy -> watch`. `kind` and `image` (what the
container does once started) are chosen at the beginning; a reading of a
container that crashes over and over may be either of two. The runner's catch
block puts the `deployment_uuid` of the error in the row. `Remove`, `Destroy`
and `MarkRemoved` are the route that deletes a service, staff may retry.

### AccountActivation

One Web Account. `invoice` holds the status of its invoices, `row` that of its
service rows, `jobs` how many jobs there are per invoice and service, `queue`
the account lock (its head holds it). A *call* is one run of a handler: PayPal
capture, PayPal webhook, refund, M-Pesa callback, resync (the
`activate-services` route and the sweep of paid app orders), invoice deletion,
the renewal sweep's suspension, and the runner's row flip. The service rows are
always written as one array from the call's earlier read, which is what makes
`ReadRows` and `WriteRows` two actions with a snapshot in between. PayPal's
events start again when they end in a 500 or in a crash; nobody else's do.
`captured` is a history variable: the invoices whose money was taken.

### MpesaPayments

What comes before a callback. A push reads the invoice, sends a prompt for the
amount it read, and stores the prompt's id as the current one and in the
history (`pushHistory`, capped at `CHECKOUT_ID_HISTORY_MAX`), both computed from
its read. The customer enters the PIN, or not, on any prompt. The callback looks
the id up as the current one, then in the histories, checks the amount against
the invoice it found, and activates (one step here, `AccountActivation` has it
in full). When the PUT of both columns fails the push writes the current id
alone (`StoreAlone`), and the next push builds its history without that one.
Adding an add-on to an open invoice is three requests, `FindOpen` (the list),
`ReadLines` (the GET and its checks) and `WriteLines` (the PUT of lines, amount
and status), between which pushes, callbacks, deletions and other add-ons fall;
the discount of a bundle, which repeats the PUT, is in `AddonSavings`. The delete
route checks and writes in two steps. `crossed`, `alone`, `order`, `settling`
are history.

### SubscriptionBilling

The Subscription invoices of one account in the order they were created, its
plan and rows, and a clock. `sweep` goes `ListPaid -> RenewAccount -> RenewTerm
-> RenewOpen -> Bill` for the renewal, then `ListOverdue -> NextOverdue -> Cut`
for the cut-off; a request that throws in the first half leaves it for the
second, as the two loops do. A *call* is prepare-payment of a first order
(which merges into an invoice of its plan that is open, raises one, links it and
applies the plan), an attach of services or of another plan (which retires the
old plan's open invoice), a payment, or a deletion. The term an account is on is
that of the paid invoice with the latest `invoice_date`: the account has none of
its own. `since` is history: what requests did to invoices since the sweep
listed them. Assumed: `RENEWAL_SUSPEND_ENABLED` is set, services are of the
volume class (a paid row is Active at once), one account, whose invoices fit the
sweep's lists. A returning customer's services are invoiced as add-ons, which
`AddonSavings` has; here only their rows are merged.

### CheckoutReservations

The Checkout Orders of one box, the mutex `createChain` (`chain`), the clock and
the requests: create, companions, view (the heartbeat), prepare-payment, cancel,
and the sweep, which comes again for ever. A Draft counts until it expires; the
jobs' figure is read before the turn is taken, and is 0 when it cannot be read.
The RAM of an order is that of its *config*, a model value for account, service
and companions. `Pay` and `QueueJob` stand for what `AccountActivation` models.
Duplicates are recognised as the code does it, by `expires - TTL`, and an expiry
is stored as the code stores it, in whole seconds (`mysqlDatetime` cuts the
rest off): the clock ticks `Second` times a second, and `WholeSeconds` rounds
down. So a Draft may look up to a tick less than a second older than it is.

### AddressBook and TenantSlugs

`AddressBook` is the promise about one shop address: it is free, held or owned;
a held one is not taken by another account, an owned one never changes hands.
`TenantSlugs` is the store and its callers. `doc` is the Tenant Slug row,
`chain` the promise chain, `op[c]` the operation of a handler with the row it
read. `Read` and `Write` are the two requests of an operation; `TimeOut`
abandons an operation that overruns: its caller goes on with an error, the next
one gets its turn, and the abandoned write may still land. Around them the
handlers: create (reserve), view (renew), prepare (raise the invoice, link it
to the address, link it to the order), settle (a rail: mark Paid, activate the
address, look at its provenance, post the job under the chosen address, under a
derived one, or held), and sweep (the reconciler with its marker). The
reconciler lists orders that have an invoice, are Draft or Paid and were
modified within the last 14 days (`Listed`); `CancelOrder`, `FlipPaid` and
`GrowOld` are the buyer, the sweep of stale Drafts and time, which decide about
that behind its back. `Pass` is time for the address. `Book == INSTANCE
AddressBook` with a refinement mapping of the row and the clock;
`BookUntilOverrun` says the steps are the book's until an operation overruns.

### AddonSavings

One account, one order, services with catalog prices and pairings with a saving.
`checkout.config` is the JSON with the ledger (which pairing is claimed for which
invoice) and other keys; `lock` is the order's chain of promises. A purchase
reads the account and the open invoice, raises or merges one at full price,
claims the savings it may have, reduces the amount, and records them; what fails
is released. The order's own prepare-payment, markPaid, a deletion of a service
(which reprices the invoice) and `mergeOrderConfig`, which rewrites the JSON
outside the lock, are the other calls.

### DomainPurchases

One name of one account: intake rows, ownership records, and whether the
registrar has it. Calls: fulfilment (from an activation, so never two at once),
the dashboard's form, a staff decision (read, check the transition, write, sync
the intake), the backfill. Nothing is unique in Frappe: find and create are two
requests.

### TerminalRecords and TerminalBroker

`TerminalRecords` has the session rows, the bucket, the two reports of a
session (nobody awaits them, so the end may overtake the start), tiers and the
purge, which lists one page of the unpurged rows, open ones included and in no
order (`PageSize`, 200 in the code), and then looks which of them are expired.
The storage is configured for the broker, which uploads, and for the backend,
which deletes, separately (`left.storage`). `TerminalBroker` extends it with
the broker: the slot a session holds from before the exec opens, its timer, a
start of the exec that may be lost before or after Docker ran the shell, the
events that may end the session (client, shell, stream, timer, kill), the
reaper with the list of live sessions it noted when its sweep began, and a
restart of the broker.

### Instances and proofs

`MC...` modules define the constants of the runs; `...Proofs` modules hold the
theorems of the modules they extend (one, or two of neighbouring components,
whose names therefore differ: `OrdersSpec`, `PromptsSpec`, `BrokerSpec`).
Strengthenings that name program state stand next to the properties (`Charged`,
`Justified`) or in the proof module.

## 3. Runs

| run | asks | instance |
|---|---|---|
| `runner_passes` | does a crash, a reclaim or a stale snapshot give a job more builds than its attempts, take it back from a human, or strand it? | one pass over 2 jobs (1 premium) with 2 mishaps, or 2 processes at 1 job with 1; 2 attempts, 1 admin write, slow builds |
| `activation_calls` | is an activation lost, anything live without payment, a call wedged, a payment without its jobs though no request failed? | {capture, webhook, callback, resync} of 2 invoices, {capture, resync, delete, flip}, {capture, refund, grace, flip}; 2 services, 2 mishaps |
| `checkout_reservations` | do live Drafts fit the box, does a double click reserve once, does a paid order stop being a Draft? | 6 groups of 4 requests; box of 2; 2 ticks a second, TTL 4, window 3, clock to 5; 1 mishap |
| `slugs_book` | does the address store implement `AddressBook`, is an invoice forgotten, does a paid order the reconciler lists get its account a job? | 2 accounts, 3 groups of up to 5 calls; TTL 1, payment grace 2, clock to 2, 2 sweeps, 1 mishap, 1 overrun |
| `dispatch_bull` | is every job dispatched whatever Redis loses, is a held one left alone, are the host's failures charged? | 2 workers and the host's timer; {container}, {bench, held}, {gated} with a second host run by hand; 1 mishap, 1 admin retry |
| `savings_ledger` | is a pairing discounted twice, or without a record; does the invoice end at its price; is the lock let go? | 3 groups of calls (serial purchases, a race, the order's own life); 2 mishaps |
| `terminal_sessions` | are the caps kept, does a session end once, do slots, orphans and old recordings go, does a row point at something? | 2 sessions racing for 1 slot, whose rows do not fit one page; 1 session with a mishap, ageing and a hold; 1 with either storage missing |
| `mpesa_prompts` | does every callback find its invoice, and is an invoice paid with less than it says? | history of 2; 3 pushes with 2 mishaps; 3 with an add-on and a deletion; 2 with a mishap, 2 add-ons and a deletion; symmetric pushes and add-ons |
| `domain_purchases` | is a name fulfilled twice, or revived after staff cancelled it? | 4 groups of 4 calls, 1 mishap |
| `coolify_builds` | does a retry, a timeout or a lost answer create a second resource or build, and an overlap more than one of each; does one reading decide? | 3 uuids of each sort, 2 attempts that may overlap once, 1 mishap, 1 call of staff or customer; symmetric uuids and attempts |
| `subscription_billing` | is a renewal early or stacked, is anybody cut off without owing, is what falls due billed and enforced? | 6 groups of calls, monthly and annual; cycle 1, year 2, grace 1, clock to 3, at most 1 mishap |
| `coolify_delete` | **violation**: does a deleted service leave something on the platform? | 1 resource, no mishap |

The run that expects a violation shows the code disagreeing with its own
comment; `PROJECT.json` quotes it. Each property of the others has a mutant in
`PROJECT.json`: a change to one definition, of the kind a bug in that code would
be, under which TLC finds the property violated in the same run.

**Bounds.** Only TLC needs them: no proof assumes one. `MaxMishaps`
(`MaxFailures` in `AddonSavings`, or the scenario's `mishaps`) counts failed
requests and crashes together, `MaxOverlaps` attempts that begin beside
another, `MaxAdmin`, `MaxCalls` and `holds` what staff do, `MaxTime` and `aged`
the clock. Two mishaps let a crash follow a lost acknowledgement, which is the
longest chain a hazard on the list needs; one is used where the calls alone
make more states. Each race listed is between one reader and one writer, so two
actors show it, and a third is added where a repeat has to meet a rail and a
resync. `MaxAttempts = 2` is the smallest limit with a retry. Clocks run just
past the last deadline that matters: a TTL and its window, a grace period, a
cycle and its grace. The scenarios of a run are initial states, so one run
covers several groups of calls; every group has the calls its hazard is about.
In `checkout_reservations` `LateRenewals = FALSE` says that a heartbeat's PUT
lands before the reservation it renews has lapsed: a request times out after 15
s (`server.js:658`) and a reservation after 30 min, so only a heartbeat begun
in the last seconds could be late; with `TRUE` such a renewal brings back RAM
that was sold. `CHECK_DEADLOCK FALSE` is said for `coolify_*`,
`domain_purchases`, `mpesa_prompts`, `savings_ledger` and `terminal_sessions`,
whose calls come to an end; elsewhere deadlock is checked, and `Quiet` says
where a system may rest because nobody calls.

**Fairness.** Weak only, and only of what the code itself drives:

| module | `WF` of | because |
|---|---|---|
| `ProvisioningRunner` | each pass (its start included); a backoff elapsing; a run growing stale | `setInterval`; each step waits for a request with a timeout; time passes |
| `JobDispatch` | the workers together; the host; per job the reconcile timer, backoff, ageing and promotion of a delayed message | BullMQ, systemd's timer, `setInterval`, time |
| `AccountActivation` | a call that has begun; the beginning of a PayPal event | requests time out; PayPal redelivers until it gets a 200 |
| `CheckoutReservations` | the sweep: its steps and its next turn | a timer |
| `TenantSlugs` | begun handlers and operations; the reconciler's sweep | the same |
| `AddonSavings` | the steps of each call that has begun | the same |
| `TerminalBroker` | opening, expiry, the stream's close, reports, the reaper and the purge | timers and events of one process |
| `SubscriptionBilling` | the sweep | a timer |

Customers, staff, M-Pesa, payments, crashes and failures have none, and the
three other modules state safety only.

## 4. Proofs

TLAPS checks eight proof modules. In each the theorems follow from one inductive
invariant, stated as a conjunction of named parts with a lemma per action.

- `ProvisioningRunnerProofs`, for all jobs, processes and passes.
  `TypeCorrect`; `HumansCorrect`: while passes do not overlap, a job left to a
  human is taken back by an admin only. `HandsOff` says that a pass has no such
  job in hand or on its list, and each job once, so what it writes for one job
  spares the others. `ClaimsCorrect`: while passes do not overlap, a job is
  claimed at most `MaxAttempts` times. A claim is charged later than it is
  written, so the bound is not inductive: `Charged` says what is owed (a queued
  row has been charged every claim, a running one all but one), `Alone` that no
  other pass is under way. The premise is needed: TLC finds more builds than
  attempts without it.
- `JobDispatchProofs`. `TypeCorrect`; `HeldCorrect`: `HeldFit` says that a held
  row nobody released keeps status and attempts, `WorkerFit` and `HostFit` that
  what the workers and the runs of the host hold was queued, or had an attempt
  left, when they took it. `ChargedCorrect`, for any number of host runs: a run
  counts from a row it listed earlier and the workers write the same rows
  meanwhile; `ChargeFit` relates what has been charged to each listed snapshot,
  to the job in hand and to the row, and each lost report to a mishap, for jobs
  on which no two runs crossed.
- `PaymentProofs`, of `AccountActivation` and `MpesaPayments`. `TypeCorrect`;
  `PaidFirst`: what keeps unpaid services down is where the calls stand, so
  `Justified` says that a call which may mark an invoice paid, write rows or
  queue jobs stands there because money was captured. It needs no lock.
  `ActivationsNotLost` does need the lock: `Locked` says that `queue` holds
  exactly the calls that wait for it or have it, its head the one that has it,
  and `RowsCurrent` that the rows a holder read are the account's, as long as
  no call outside the lock has written. `PaidInFull`: over any prompts and any
  add-ons written from earlier reads, a Paid invoice was paid by a prompt that
  asked for all that is on it, since a write over a Paid one reopens it, unless
  it falls between a callback's check and its activation (`settling`).
  `IdsMatch`: each copy of a history, the row's and those the pushes read, is a
  piece of the order in which ids were stored (`Chain`), less those the
  fallback stored (`alone`), and the current id is the last one stored
  (`LatestFits`). So an id is missing only when as many as the cap were stored
  after it, or one if it is of the fallback, or two pushes overlapped.
- `TenantSlugsProofs`. `TypeCorrect`; `BookImplemented`: until an operation
  overruns, each step of the store is one of `AddressBook` or stutters, under
  the mapping of row and clock (`BookInv`: the operation that has its turn has
  read the row as it is). `HistoryCorrect`: invoices of the present owner are
  never dropped from the history. `ShopsCorrect`: what a shop was built on
  belongs to it.
- `CheckoutProofs`, of `CheckoutReservations` and `AddonSavings`. Of the
  reservations: `CheckoutTypeCorrect`; `OneDraft` and `DraftsFitTheBox`. Both
  rest on `createChain` being a mutex (`PlacesFit`: whoever lists or writes is
  at its head), so that what a request saw when it listed the Drafts still
  stands when it writes: `StillNew`, it repeats none of them, and `StillFits`,
  it fits beside them. Between the two the Drafts may only shrink: `Kept`
  describes all steps but the two writes, and a renewal that comes in time
  (`TimesFit`) counts what counted already. `DraftsFitTheBox` therefore assumes
  `~LateRenewals`, and TLC finds it false without; `OneDraft` does not need it,
  since a Draft is recognised as the same click by `expires - TTL`, which is
  before its creation by less than a second (`OrdersFit`), and the window is
  not longer than the TTL, an assumption on the constants. That last second is
  why the theorem speaks of clicks a second less than the window apart. The
  sums of RAM are folds: that one is a number, that any element can be taken
  out of it, that fewer elements sum to no more and that it depends on the
  values of its elements only are proved from its recursive definition, each by
  a least counterexample, since finite subsets are well-founded. Of the
  savings: `SavingsTypeCorrect`, whatever interleaves and fails;
  `DiscountsAreRecorded`, `OneDiscount` and `QuotesAreFull`, which follow from
  `SavingsInv`. What is given is recorded because what a call is about to take
  off already is (`SavingsKept`): a purchase takes off what it claimed,
  `TurnsKept` says that whoever is inside the critical section holds the lock
  and has read the order as it is, and what was recorded for the invoice when
  it read the windows may only be released by a call whose own write failed. A
  pairing has one entry in the ledger (`OrderKept`: it also says that an order
  under preparation is a Draft without an invoice, and that purchases claim
  only once it is paid), so a discount that is recorded is given once. The
  price (`PricesKept`) is exact at each stage of the one call that runs. The
  last three theorems assume `Untangled`: calls that interleave do not include
  `mergeOrderConfig`, nor two calls of prepare-payment. TLC shows it is needed:
  with two purchases and `mergeOrderConfig` at once on a paid order both
  `DiscountsRecorded` and `OneDiscountPerPairing` fail, since it writes back a
  ledger it read outside the lock; with two prepare-payments at once and a
  payment, the later records the same pairings for its own invoice and the
  order may be linked to the earlier one. One call at a time they are all
  allowed. `CatalogAssumption` asks for a finite catalog whose services cost
  something a month (what has no monthly price is not offered as an add-on).
- `DomainPurchasesProofs`. `TypeCorrect`; `FulfilmentCorrect`: activations make
  one request and one record however they repeat; `CancelledStays`.
- `ContainerProofs`, of `CoolifyBuilds` and `TerminalBroker`, what happens
  around one container. `TypeCorrect`; `ResourcesCorrect` (`BoxInv`: an attempt
  that creates has listed and found nothing, and what was posted since is of
  the attempts that overlap it, so resources and attempts about to create are
  bounded together); `BuildsCorrect` (`DepInv`, `BuildInv`: the uuid travels
  from the lane's error to the row and back, and each one missing was lost by a
  crash, a failed request or an attempt beside another); `VerdictsCorrect`
  (`VerdictInv`: what the attempt has read). Of the terminal:
  `BrokerTypeCorrect`; `CapsAreHeld` (`SlotsFit`: a session that is opening or
  bridged has its slot until its own end or its timer, so the caps on slots
  bound the shells); `EndsOnce` (`SessionsFit`: where a session stands says how
  often its end was reported); `PointersLast` (`RowsFit`, `ObjectsGone`:
  nothing puts an object back once the purge has deleted it, and a late report
  does not bring back a key; it assumes that the backend has a storage).
- `SubscriptionBillingProofs`. `TypeCorrect`; `RenewalsCorrect` and
  `CutsCorrect`: `FoundFit`, `BillInv` and `CutInv` say what is still true of
  the sweep's old reads while no request has touched an invoice since.

Assumed are only the named assumptions on the constants (`ConstantsAssumption` and
the like), which TLC evaluates in every run.

Only model-checked: all liveness (`Settles`, `Delivered`, `CallsEnd`,
`PaidGetsJobs`, `PaidDraftsSettle`, `PaidOrdersGetJob`, `LockFreed`,
`SlotsReturn`, `OrphansReaped`, `ExpiredPurged`, `SweepCatchesUp`), which rests
on `ENABLED`. `PromptsTypeOK` of `MpesaPayments` and the type invariants of
`TerminalRecords` are documentation: no run lists them, the properties there
would fail first.

## 5. What could come next

- `DiscountsRecorded` for interleaved calls some of whose requests fail, which
  the property leaves out now.
- An abstract job (queued, being built, built, given up) that
  `ProvisioningRunner` and `JobDispatch` both implement, as `TenantSlugs`
  implements `AddressBook`.
- `JobDispatch` beside `CoolifyBuilds` on one row, which would show what an
  overlap of two workers (section 7) does to the platform.
- Several accounts in `SubscriptionBilling`, with the limits of its lists.
- The other domain routes, which share `DomainPurchases`' find-then-create.

## 6. Not modelled, and why

- Lanes other than Coolify (bench builds, cloud apps, e-mail, k8s, object
  storage) are single calls whose outcome is a choice; backup and edge
  registration cannot fail a job.
- The rails' checks of currency, amount (but M-Pesa's) and signature are taken
  to pass: failing ones end in a record for staff and touch no state here.
- Prices: pro-rating, annual prepayment, capacity gates of add-ons. They refuse
  or compute before anything is written.
- Trial clocks, `account_status`, mails, alerts, logs and the session payload do
  not feed back into the states above.
- Placement and ports are reads without a reservation, so there is nothing whose
  correctness could be stated; the verdict is a choice.
- The login throttle is one bounded counter in one thread, storage buckets are
  wrappers around S3; both have unit tests.
- Sign-in, portal, BYOA, hosting, AI and marketplace routes validate and format
  single records. The front end, the largest part of the repository by lines, is
  a client of the routes: its calls are the requests of the models. Deployment
  scripts are I/O. The map covers the code that decides about shared state, and
  for that reason a small share of all lines.

## 7. Where the code departs from a stronger promise

Met while modelling, and left in the models as the code has it. Where a promise
is named it is a definition of the module which no run lists, because the code
does not keep it.

**Provisioning.** Two passes of one process share a runner id, so both may
claim and build one job (`OneBuilderPerJob`), and the failure of a build that
was reclaimed meanwhile re-queues, with the attempts of its own old read, a job
that was already left to a human (`HumanJobsStay` is stated of passes that do
not overlap). An attempt that begins beside another one of its job (after an
admin retry or the reclaim of a slow build) finds no resource yet, nor the
other's build, and makes its own: `FewResources` and `FewBuilds` count one more
for each. Two runs of the host script that both listed a job build it one after
the other or at once and write the same attempts, though the script says that
"a second overlapping instance backs off instead of double-building"
(`murzak-bench-runner:32-33`); `HostBuildsCharged` leaves such jobs aside. Two
BullMQ messages about one row, a delayed retry and the reconcile pass's, get
past the claim as two passes do (`OneWorkerPerJob`, `queue.js:6`). A bench job
parked by the capacity gate is what the host runner takes (`GatedParked`). In
BullMQ mode nobody reclaims a row left `running` by a dead worker: `Delivered`
calls it abandoned. A crash between the PUT of active and the flip leaves the
account row "Setting up". In the Coolify lane a resource found by name is
believed at one reading of `running`, an admin retry keeps the failed
`deployment_uuid`, a status GET that fails drops a live one, and a deletion
knows only the newest job of a service (`coolify_delete`). The e-mail lane
looks for `attachedServiceId` and `name`, but `listCustomerDomains` returns
`attachedToService` and `domainName` (`emailHosting.js:74-84`): it finds no
domain.

**Payments.** The invoice is Paid before the activation starts; after a failure
in between the webhook answers `alreadyPaid` and only a resync helps. A deletion
checks for Paid and then writes Deleted, also over a payment that landed in
between. The runner's flip and the services route (`billingRoutes.js:356`) write
the services array outside the account lock and can undo an activation. Of two
M-Pesa pushes that overlap one id is lost, and the payment on it matches nothing
(`EveryIdFindable`). An id that only the fallback PUT stored is in no history, so
the next push of the invoice loses it with no overlap at all. Both are against
`mpesaService.js:33-35`, by which "every id that could still produce a callback
has to remain findable". Adding an add-on writes status and amount from an
earlier read (`addonInvoiceService.js:446`): over a payment that came in between
it reopens the invoice, over a deletion it brings it back, and one that falls
between a callback's amount check and its activation is Paid without having been
asked for, which `NoShortfall` leaves aside.

**Orders.** The RAM of an order that stops being a Draft before its job counts
is in neither figure (`NotOversold`). Cancel and the sweep write Cancelled over
an order that was paid since (`PaidOrderKept`). Of two clicks in the last of
the ten seconds of `DEDUP_WINDOW_MS` apart both may reserve, since whole-second
storage makes a Draft look older: `expires - TTL` does not hold creation time
"exactly", as the comment of `findRecentDuplicateDraft` says. An address that
could not be looked up in time lets a job be built under a derived name
(`NeverGuessed`). `mergeOrderConfig` rewrites the order's JSON outside the lock
and drops a saving claimed meanwhile.

The reconciler never lists a paid order that was cancelled (by its buyer or as
a stale Draft) before it was paid, nor one not modified for 14 days, and lists a
hundred at a time: such an order gets no job (`PaidOrdersGetJob` is about those
it lists, in a list and a sweep that are long enough). Where a second visit to
the payment page raised a second invoice, the account's job may be the other
one's.

**Renewals.** A first order's payment page reuses the open invoice of its plan, so
a second order overwrites the first's (the add-on branch forbids it: "One order,
one invoice", `ordersRoutes.js:553`), and a reused invoice keeps an annual
`billing_term` beside a monthly amount. The cut-off looks at any unpaid
Subscription invoice past its grace, not at renewals alone
(`renewalService.js:14`), and what it suspends stays suspended after paying if
the invoice does not list it. A payment during a sweep may lead to a second
renewal of the cycle or to a suspension, and `applyPlan` may write Unpaid over
Paid. The term is that of the invoice with the latest date, whenever it was paid.
A renewal bills rows that were never paid for; each paid renewal queues a new job
per service, counts its RAM again, and puts premium rows back to "Setting up".
`POST /api/subscription/upgrade` raises no invoice for rows it sets to Awaiting
Payment. A deletion does not reprice a Subscription invoice. The list of paid
invoices is cut at 500, newest first, and accounts that are due are the oldest.

**Domains, terminal.** Two staff decisions that overlap can revive a cancelled
domain. The reaper kills shells that are not in the list it noted, also one
opened since (`ReapsOnlyEnded`). It knows a container only once a session was
live in it: a shell whose start was answered by an error stays in any other. A
recording that was uploaded but reported failed has no key on its row: the row
is marked purged, the object stays. The retention sweep lists 200 unpurged rows
in no order and looks for expired ones among them: when more wait, open ones
included, one may never be seen (`ExpiredPurged` says as long as they fit). A
backend without a storage of its own deletes nothing and clears the key all the
same (`PointerLast` says where one is configured).
