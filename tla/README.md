# Verification of the lead marketplace

The repository is a small web shop for sales leads. A Google Sheet is the source of
the leads; a FastAPI/SQLite backend mirrors it, prices leads by age, sells them through Stripe
Checkout and mails the purchased list through Resend; a Next.js frontend has a storefront for
buyers and a dashboard for the administrator. All paths below are relative to `leadspr/`.

This directory holds TLA+ modules of its core logic, the TLC configurations that check them
on small instances, and proofs checked by TLAPS. `PROJECT.json` maps every
definition to the lines it translates and lists runs, mutants, hazards and theorems.

To repeat everything: `tlc -config <cfg> <module>` for each run of the table in section 3, and
`tlapm <module>` for `FulfillmentProofs`, `RecoveryProofs`, `EmailProofs`, `DatabaseProofs`,
`LeadSyncProofs`, `SchedulerProofs`, `StorefrontProofs` and `OperationsProofs`.

## 1. Inventory

| Component | Code | State it keeps | Operations | Status |
|---|---|---|---|---|
| Pricing rules | `backend/app/services/pricing_service.py`, `scripts/seed.py` | `pricing_rules` | seed, create, patch, batch update, rule for an age | modelled |
| Inventory and eligibility | `services/inventory_service.py`, `repositories/lead_repository.py`, `utils/time.py` | `leads` (read), the business day | tier summary, municipalities, eligible leads, random choice | modelled |
| Checkout creation | `services/purchase_service.py` | `purchases` | `create_checkout`, `get` | modelled |
| Fulfillment | `services/fulfillment_service.py` | `purchases`, `purchase_leads` | `payment_succeeded`, `payment_failed` | modelled |
| Stripe webhook and client | `services/webhook_service.py`, `integrations/stripe/` | none (Stripe's sessions are external) | `process` | modelled |
| Checkout recovery | `services/checkout_reconciliation_service.py` | `audit_logs` (attempts), file lock per order | `refresh`, `recover_pending` | modelled |
| Email delivery | `services/email_service.py`, `integrations/email/client.py` | `email_sent_at`, `audit_logs`; Resend's key memory is external | `deliver` with or without a resend key | modelled |
| Email payload | `integrations/email/template.py` | none | `delivery_payload` | modelled: brand, sender and contacts; not the layout |
| Lead synchronization | `services/lead_sync_service.py`, `integrations/google_sheets/` | `leads`, `sync_runs`, file lock | `run` | modelled |
| Lead entry | `services/lead_entry_service.py` | the sheet (external), file lock | `add` | modelled |
| Database session | `db/session.py`, `api/dependencies/runtime.py` | threads, connections, transactions, SQLite's write lock | read session, write session | modelled |
| Scheduler | `jobs/scheduler.py`, `main.py` | file lock, trigger, remembered schedule | start, refresh, stop | modelled |
| Settings | `services/settings_service.py` | `app_settings` | read, patch | modelled, in the modules a setting matters to |
| Admin queries, routes, token check | `api/`, `services/admin_service.py` | none | totals, lists, statistics | partly: totals and the list of leads |
| Storefront | `frontend/src/components/marketplace/` | React state of the form and of the order page | loads, choices, checkout, polling | modelled |
| Operations dashboard | `frontend/src/components/operations/` | React state, request version, request id of a form | loads, sync, lead entry, prices, session | modelled |
| Proxies and admin session | `frontend/src/app/api/`, `frontend/src/lib/` | session cookie | sign in, sign out, forward | partly: the session, from the browser's side |
| Schema, configuration, logging | `models/`, `alembic/`, `core/` | constraints | none | constraints appear as types and guards |

How they interact:

```
 buyer's browser (Storefront)              administrator's browser (Operations)
        | inventory, checkout, refresh               | dashboard, sync, entry, prices
        v                                            v
   create_checkout -- Stripe session          pricing rules   sync / lead entry --- Google Sheet
        |                  |                        |              |
        |        event / retrieval                  v              v
        v                  v                 +--- SQLite, one writer (Database) ----+
     purchases <-- webhook | refresh | sweep --> allocation --> email delivery --> Resend
                                     ^                                ^
                                     +------- scheduler, one process -+
```

What is hard here, and which properties watch it:

* **Nothing is reserved.** A checkout names a quantity and a price; leads are chosen when the
  payment is reported. In between other orders, price edits, synchronizations, hours and even a
  change of the time zone come. A lead must never have two owners at once, a buyer gets exactly
  the number paid for or none, and every lead sold must be worth its price at that very moment
  (`ExclusiveSales`, `ExactFulfillment`, `SoldAsOffered`, `MarketImplemented`).
* **A payment is reported many times**, by webhooks that are lost, late, repeated or out of
  order, by the buyer's refresh and by the sweep, each of which acts on what it read before a
  network call (`MoneyIsAccountedFor`, `SettledIsFinal`, `StatusFollowsPayment`,
  `ShopImplemented`, `PaymentIsRecovered`).
* **An answer may be lost.** Resend may have sent a mail, Google may have appended a row,
  without the code ever learning; the retry must not do it twice, a permanent
  refusal must not be retried at all, and a mail must still arrive in the end
  (`OncePerKey`, `MailedOnce`, `RecordedSendsNoMore`, `OnlyResendUnblocks`, `MailImplemented`,
  `LotIsDelivered`, `EventuallyDeliveredOrBlocked`, `OneRowPerEntry`, `SavedMeansWritten`).
* **A retry renders its mail anew**, from settings and contacts that may have changed, under a
  key the provider binds to the first rendering; it must conflict with that one for a real change only
  (`ConflictsComeOfEdits`).
* **Snapshots of the sheet** are applied after they were read; two runs may overlap and some
  rows may be unreadable (`NeverGoesBack`, `MirrorsOneState`, `EventuallyMirrors`).
* **Transactions of many statements** share a few threads, a few connections and one write lock; they must
  neither mix two states nor be refused with work done, and each request must end, although those who wait
  for the lock can keep its holder from getting a thread
  (`ReadsOneState`, `RefusedBeforeReading`, `TransactionsAreAtomic`, `EveryRequestEnds`).
* **Several processes** may exist around a reload, but each job belongs to one
  (`JobsOfOneProcess`), and a changed schedule must reach the trigger although reading and
  installing it are separate and may fail (`ScheduleFollowsSettings`).
* **The browser** processes answers late and in another order than it asked, and must not keep
  anyone waiting (`SubmittedAsOffered`, `NeverShowsOlder`, `RestingIsExplained`, `WaitingEnds`,
  `NeverShowsOlderReport`, `SignedOutShowsNothing`, `OneRowPerForm`).
* **What is shown is computed apart from what is sold**: summaries, totals and lists are queries of
  their own (`StockIsSellable`, `RevenueIsEarned`, `ListDiffersByTypeOnly`).
* **Day arithmetic**: ranges in days must tile all ages, and the SQL formulation of a range must
  agree with the Python one (`ExactCover`, `QueryAgreesWithRule`, `CheckAgreesWithSortedScan`).

The full list, each at its line, is `hazards` in `PROJECT.json`.

## 2. Modules

```
 Pricing <--- Fulfillment <--- Recovery        Database    LeadSync   Scheduler   Storefront   Operations
               ^    \ implements  | \ implements   \ implements
            Reports  LeadMarket   |  EmailDelivery  AtomicStore
                                  \ implements Fulfillment!Spec
```

`A <--- B` means B extends A. `MC_X` instantiates X for TLC, and the theorems about X are in a module
`XProofs` that extends it (`EmailProofs` those about EmailDelivery; `FulfillmentProofs` those about
Pricing, Reports and LeadMarket, too). Each module's head comment names
its abstractions; what follows is the correspondence to the code.

**Pricing** (variable `rules`). The table is a function from ids to rows; a rejected edit
rolls back and is no step. `Create`, `Update` and `UpdateBatch` are the three endpoints with
`ValidRanges` (`validate_ranges`, said of rules instead of positions in a list; `SortedLists` and `ScanAccepts` are
the code's own formulation, and `ScanIsExact` proves the two equal), the check that a patch leaves prices distinct, and the
check of a batch's ids. `Applicable` is `applicable_rule`; `AgeCondition` is the date range of the SQL
query in `lead_repository.py`. `sort_order` is left out: the lookup it orders never has a second
candidate (theorem `ValidRangesExactCover`).

**LeadMarket**. The abstract promise: orders are placed, then sold exactly as many free leads as they
asked for, or refused for good; a sale ends no earlier than its exclusion.

**Fulfillment** (`orders`, `allocations`, `leads`, `checkout`, `clock`, `zone`, and `rules`). Every
write session starts with `BEGIN IMMEDIATE`, so one transaction is one action (module Database says
why that is sound). `create_checkout`
is `CreateOrder`, then the call to Stripe, then `CheckoutCreated`, `CheckoutRefused` or, when the
process dies between them, `CheckoutLost`. `PaymentSucceeded(p)` binds the report to an order
and then is one of: already settled, rejected (terms, duplicate payment, shortage), allocated.
`PaymentFailed(p)` is its counterpart. There are two notions of time, as in the code: sales and
exclusions are instants (`clock`, moved by `Tick`), ages count calendar days of the
configured zone (`BusinessDay`), so `ChangeTimeZone` may move today by a day, back as well as
forth. `ApplySync` and `EditPricing` are the other surroundings.

A lead has an insurance type and perhaps no municipality, as the sheet gives it; `EligibleQuery` asks for the
one type that is sold (`lead_repository.py:44`), which an order therefore need not carry.

**Reports** extends Fulfillment with what the summary, the list of municipalities, the totals and the
list of leads say of a state; it has no actions of its own. The administrator's list asks for no insurance type
and decides on exclusion and price by itself.

**EmailDelivery** (`fulfilled`, `company`, `sender`, `contacts`, `sentAt`, `latest`, `resent`, `tx`;
external: `remembered`, `forgotten`, `inbox`). `deliver` holds the write lock over the provider call:
`Begin` opens `tx`, one of the provider's answers fills it, a commit or `Crash` ends it.
`DeliveryPayload` renders brand, sender and contacts at the moment of the call; the marketplace's former
name in stored settings is rendered as the present one (`template.py:45-50`). A permanent refusal
(`client.py:49-53`) may come at any attempt, whatever became of the key before; the refusal of another payload
under a known key is an answer of its own ("conflict"). `EditSettings` and
`EditContacts` (a synchronization) change what the next rendering gives. `ProviderForgets` is the end of the
provider's 24 hours.

**Recovery** composes Fulfillment and EmailDelivery (instance `Mail`, whose `fulfilled` is read off the
orders' status). Webhook requests, buyers' refreshes and the job are workers; each step of a worker
is a transaction or a network call, and its record keeps what the code keeps in local variables.
Every worker may raise or die at every step (`Fail`). The per-order file lock is read off the
workers. Stripe changes a session on its own (`BuyerActs`), and its reports may be dropped,
repeated and reordered (`events`).

**Database** (`store`, `lock`, `phase`, `view`, `result`, `written`). One session statement by statement: a
connection of the pool, `BEGIN` (IMMEDIATE for `write_session`, DEFERRED for `get_session`), reads from a
snapshot, writes, commit; refused when the write lock or a connection does not come in time, rolled back when
anything raises, gone when the process crashes. Blocking calls run on few `Threads` (forty, the framework's
default). A service that opens its session itself is one call; an injected session (`SessionDep`,
`WriteSessionDep`) is entered in one call, used in a second, and its response validated in a third, before
it is left. So an injected writer has the lock and no thread while it is "yielded" to its endpoint, and again
when its work is done: that is `TakeThread` and the guard of `Commit`. A session is left under a limiter of its
own, and the scheduler's jobs have their own threads; like the pool of threads itself that is external, modelled
from its use here. **AtomicStore** is what the other modules
take for granted of it: a write request is one step on the latest state, or none.

**LeadSync** (`history`, `leads`, `applied`, `full`, `worker`, `answer`, `inflight`). `history`
keeps all states of the sheet, so a fetched snapshot is a position in it. `run` is `StartRun`, `TakeSyncLock`,
`Fetch`, `Apply` or `AbortRun`; `add` is `Enter`, `Lookup`, `AppendConfirmed` or
`AppendUnconfirmed`, a synchronization, `Report`. With `LateWrites` an unconfirmed append may reach
the sheet at any later time. `EditSheet` is people: to a row of their own they may do anything but copy it
(make it good, unreadable, hidden, twice, or remove it), an entered lead they may remove, correct or make
unreadable. That its id comes to be there twice is left to the program's own appends.

**Scheduler** (`stage`, `lock`, `running`, `read`, `schedule`, `trigger`, `settings`). The lifespan of each
process, the jobs' firing and finishing, and `refresh` as a read followed by an installation.

**Storefront** and **Operations** take one event handler, or one stretch between two awaits, as one
step, rendering included. A request is answered by the server at one moment and its answer
processed at a later one. What the server answers is free (`Inventories`) or a counter that only
grows, which is what the properties about order need.

## 3. Runs

All runs end with the state space exhausted. Mutants of mapped definitions (listed in
`PROJECT.json`, defined beside the original and marked `Mutant:`) show for every property that
a plausible bug violates it under the same configuration. Type invariants are not run: each is a
conjunct of an inductive invariant and a theorem of section 5.

| Run | What it asks | Instance and bounds | States |
|---|---|---|---|
| `pricing` | Do accepted edits keep every age priced by one rule? Do the query, the lookup and the sorted scan agree? | 3 rule ids, all ranges within 0..2 days or open, two prices, ages 0..4 | 192 |
| `fulfillment` | Are sales exclusive, exact and final, is all money accounted for, under every interleaving? | 2 orders, 2 leads, 2 tiers, 3 instants of half a day, 1 time zone, twelve payment reports | 123 thousand |
| `reports` | Do summary, totals and lists say what the shop does, insurance types apart? Are leads sold as offered? Does the shop implement `LeadMarket`? | 2 orders, 2 leads, 3 rule ids with tiers that split and merge, 3 instants, 2 time zones, four payment reports | 61 thousand |
| `email` | Does no key mail twice, is what is recorded final, does a retry conflict with its key for cause only, and is every lot delivered or parked? | 1 order, 1 resend key, 3 company names, 3 senders, 2 contacts; fair | 236 thousand |
| `recovery` | Do webhook, refresh and sweep agree with Stripe, keep to the transactions of Fulfillment and of EmailDelivery, and get the mail out? | 1 order, 1 webhook request, 1 visitor, the job; fair | 15 thousand |
| `recovery_payment` | Is every paid order settled if all webhooks are lost? | 2 orders competing for a sweep of 1, and for 1 lead; fair | 25 thousand |
| `database` | Do interleaved transactions read one state, act as single steps, and end although those who wait starve the one they wait for? | 3 write requests and a report, 2 tables, 2 connections, 2 threads; fair | 90 thousand |
| `lead_sync` | One row per entry, true replies, one snapshot at a time, no lead withdrawn because its row cannot be read, never backwards | 1 entered and 1 upstream lead, 2 contents, daily job, manual run, 2 entries, 3 states of the sheet | 247 thousand |
| `lead_sync_live` | Does the inventory come to mirror the sheet, late appends included? | 1 entry, `LateWrites`; fair | 86 thousand |
| `scheduler` | Do only one process's jobs run; does the trigger follow the settings? | 2 processes, 2 schedules; fair | 694 |
| `storefront` | Is what was submitted what is shown; does the order page go forward, explain itself and stop? | 2 places, 2 tiers, 3 inventories, 2 polls, 3 loads; fair | 73 thousand |
| `operations` | Does the dashboard go forward, show nothing after sign-out, and enter one row per form? | 3 loads, 1 change of state, 1 of price, 2 form ids, 2 calls at a time | 3.6 million |

Why these bounds are enough to be interesting:

* *Two orders and two leads* make a shortage, a race for the last lead, and an order for both
  leads that loses one. The tiers include the edit (`Aged(20)`) after which the price an
  order was placed at stands for leads of another age. The second lead
  table withdraws one lead and dates another tomorrow. With two half-day ticks a sale lies before
  or after a midnight and its exclusion ends at another time of day; the exclusion of a fresh
  lead (one day) ends within them and that of an aged one (two days) outlasts them. Symmetry exchanges the orders together with their sessions and
  payments, and the ids of the rules. The theorems of section 5 cover all instances.
* *The payment reports* are, per order: as ordered, with wrong terms, with the payment of the other
  order, with none, with references that disagree, and unpaid. Reports are not consumed:
  each may come at any time, any number of times.
* *Reports*: two tiers at two prices, three at two (one price sells two ages), or one tier for all. Two
  zones whose midnights lie a tick apart, and changes between them at any time, make every order of sale, midnight
  in the one zone, midnight in the other and change of zone, today going back included. The lead tables
  include a lead without a municipality and an active lead of another insurance type.
* *Email*: the companies and senders are the marketplace's two names and a third; `MaxCopies = 2` is one
  more than the promise allows. Other orders only take the write lock in turn; the theorems cover any
  number of them.
* *Recovery*: a webhook, a visitor and the job are three different code paths on one order, which is
  the interleaving the code has to survive. Prices, leads and days stand still there (their races are
  in `fulfillment`). `Limit = 1` for two orders is the code's limit of ten for eleven; the order that is
  settled first stays a candidate until its mail is out, and the other one meets a shortage.
* *Database*: with two connections for four requests, requests wait for a connection while those who
  have one wait for the lock; with two threads, a writer that is between its calls finds both taken by
  requests that wait for its lock, or for a connection. Two of the writers and the report have injected sessions, the
  third writer is a service with its own. Two tables are enough to mix two states or to commit one half. A third writer
  separates "the lock was taken" from "the snapshot is old". `CHECK_DEADLOCK FALSE` because all
  requests end.
* *LeadSync*: three states of the sheet are enough for two snapshots in the wrong order, and for an
  upstream or an entered lead that is on sale, becomes unreadable and is removed.
* *Storefront*: three runs of an effect let two late answers overlap; two polls are one that waits
  and one that ends the polling (twelve in the code). `CHECK_DEADLOCK FALSE` because a page at
  rest may stay so once the loads are used up.
* *Operations*: three loads and two calls overlap in every order; `CHECK_DEADLOCK FALSE` for the
  same reason. With one change of price the exception in `NeverShowsOlderReport` (a save overtaken by
  another one) does not come up; the proof covers it.

`MaxClock`, `MaxCopies`, `MaxVersions`, `MaxLoads`, `MaxState`, `MaxPrice`, `MaxIds` and `MaxCalls` bound the model
only: each is a guard of the action that would exceed it. `MaxAttempts`, `PoolSize`, `Threads` and
`Limit` are constants of the code and its libraries made small; `Horizon` is the oldest age of the pricing run.

## 4. Fairness

Six modules assume any, and nothing is assumed of webhooks, people at the sheet, what a buyer chooses to do, or
the administrator.

* **EmailDelivery.** The recovery job tries an undelivered order every minute (strong fairness of
  an automatic `Begin`, since the write lock comes and goes); an open transaction ends, because the HTTP
  timeout is 15 seconds (weak fairness of `Deliver`); a provider asked again and again, and a commit
  tried again and again, does not fail every single time (strong fairness, per order).
* **Recovery.** The scheduler runs the sweep every minute and every call has a timeout: steps that
  stay possible are taken (weak). No single order fails at the same step every
  time it comes to it (strong, per order and step). Webhooks have no fairness at all in
  `recovery_payment`, where there are none.
* **Database.** A call that has its thread takes the steps that stay possible, and a thread that stays free is given
  to whoever waits for one (weak, per request). No thread is promised to anybody: while the writer that holds the
  lock is between two calls, requests that wait for the lock or for a connection may hold all of them. Those
  waits have limits (`busy_timeout` of 30 seconds, `session.py:24`; 30 seconds for a connection, the pool's
  default), so `Timeout` has weak fairness, too; without it `EveryRequestEnds` does not hold. Errors and
  crashes have no fairness.
* **LeadSync.** The daily job starts again and again; a worker goes on; taking the lock, reading
  the sheet and committing do not fail every single time. `EventuallyMirrors` further assumes in its own
  premise that people leave the sheet alone and readable from some time on.
* **Scheduler.** The one-minute refresh fires again and again while a process owns the lock, and
  reading or installing does not fail every single time. Nothing makes a process start: an idle
  process never takes over from a dead one, as the backend README documents.
* **Storefront.** Every request is answered or given up, since the proxy ends a backend request after
  90 seconds (`frontend/src/lib/server/backend.ts:42`), and timers fire while their page is open
  (weak, per run of the effect). The buyer need not do anything.

## 5. Proofs

`tlapm` checks all eight proof modules to the last leaf. The only assumptions are the named ones on
constants, each evaluated by TLC in the runs of its module: `PricingAssumption` (what the input schema
and the CHECK constraints admit), `SeedAssumption` (the seeded table is valid),
`FulfillmentAssumption` (the shape of requests, lead tables, sessions, reports and calendars; `None` is no
number and no place, "any place" is no place, and the type that is sold is one of the types),
`EmailAssumption`, `RecoveryAssumption` and `ReportsAssumption` (Stripe's reports carry an order's
own references and terms), `DatabaseAssumption`, `LeadSyncAssumption`, `SchedulerAssumption`,
`StorefrontAssumption` and `OperationsAssumption` (identifiers of different kinds differ, bounds are
positive, and the requests of Database are finitely many).

Every safety property of the runs, invariant or action property, and every refinement is proved for all values
of the constants. Each module has one inductive invariant: the checked properties together with the
facts they need.

**FulfillmentProofs**, pricing
* `ValidRangesExactCover`: a table that `validate_ranges` accepts prices every age by exactly one
  active rule. Ranges may have any length and number, so the argument is not by counting: of the active rules
  that start no later than an age, the latest start exists (`LatestStart`, from `LeastNatural`); were
  that rule to end before the age, its successor would start later and still in time. Uniqueness is
  disjointness of ranges.
* `PricingTypeCorrect`, `PricingExactCover`: from `PricingInv`, type and
  `ValidRanges(rules)`, which every edit re-establishes.
* `QueryAndRuleAgree`: `AgeConditionIsCovers` is the arithmetic of the date range, for every date of the calendar
  and every today; the clamp at ordinal 1 loses nothing because no date is smaller.
* `ScanIsExact`: the scan accepts exactly the tables of `ValidRanges`, whatever order ties come in. From left to
  right, strict order of the starts makes the next position the nearest later rule; from right to left, a
  position follows another by one step or by more, and the starts between only grow. `CheckAndScanAgree` adds
  that there is a list to scan (`SortedListExists`: take the last rule away, list the others, put it back).

**FulfillmentProofs**, orders
* `Invariant`: the inductive invariant `Inv`. It conjoins the checked invariants with three facts
  they need. `CallingIsPlaced`: a checkout waiting for Stripe belongs to a
  placed order, otherwise `CheckoutCreated` could write a row of no type. `ValidRanges(rules)`: an
  eligible lead has a pricing rule, so its exclusion is a number. `AllocationsDated`: an allocation was made
  no later than now and ends no earlier than it began. Exclusions being instants, a change of the time
  zone disturbs none of it.
* `TypeCorrect`, `SalesAreExclusive`, `FulfillmentIsExact`, `MoneyIsAccounted`: for any numbers of
  orders, leads and rules, any calendar and any zones.
* `SettledOrdersAreFinal`, `LeadsAreSoldAsOffered`: action properties, by cases on `Next` under `Inv`.
* `ImplementsMarket`: under the refinement mapping of Fulfillment (demand, verdict and sales read off
  orders and allocations) the initial state is initial in `LeadMarket`, `CreateOrder` is `Place`, an
  allocation is `Sell`, a rejection `Refuse`, a tick a tick, and every other transaction a stutter.
  `MarketKeepsItsPromise` shows what that is worth: the abstract market alone gives a lead one owner at a time
  and an order its whole lot or nothing.

**FulfillmentProofs**, reports
* *Sums.* `SumFunction` of the community modules is a fold over sets. Its defining function
  exists for every finite set (`IterationExists`, subsets by size) and does not depend on the set it is defined
  for (`IterationsAgree`); hence any element may be taken first (`SumRemove`), equal parts multiply
  (`SumOfEqualParts`), and disjoint sets are counted one by one (`SumOfCardinalities`). The library's induction
  theorems being out of reach, each argument takes a smallest counterexample: `SmallestSubset`, from the least
  natural number.
* `StockOnShowIsSellable`: one rule prices a lead (`ValidRangesExactCover`), so the stocks of two rules, and of
  two tiers, are disjoint and their counts add up.
* `RevenueIsEarnedAlways` is not inductive by itself. `BooksInv` adds that orders and allocations are finite sets
  at any moment; `ExactFulfillment` in `Inv` makes a lot new and as large as its order (`LotIsNew`), so both sums
  grow by quantity times price (`BooksEnterLot`), and every other step leaves both alone (`NextSellsOrNot`).
* `ListIsShopAndOtherTypes`: the latest exclusion exists and is over exactly when all are (`LatestExclusionDecides`),
  and the price filter and the price shown come to the same rule. What is left of the difference is the insurance type.

**RecoveryProofs**. `RecoveryImplementsShop`: every step of every worker is a step or a stutter of
Fulfillment, so all theorems above hold of the composition; the argument is that a worker settles by the
whole transaction, whatever it read before. `RecoveryImplementsMail`: the same for
EmailDelivery; a settlement that fulfils an order is its `Fulfill`, possible only while no delivery
transaction is open. `StatusesFollowPayments` needs `WorkersAreInformed`: a worker about to settle
carries a state of the session that Stripe does not change any more (paid, declined, expired); what it
carries is therefore true at the time it acts, however late. The invariants of the other two modules are
reused, not proved again: `NextInv` by way of the refinement, and `EmailNextInv` through an
instance of EmailProofs. `LotsAreMailedOnce` (`MailedOnce`) follows from `OncePerKey` there.
`RecoveryKeepsPromises` and `RecoveryKeepsMailPromises` draw the conclusion from the two refinements: what Fulfillment, Reports
and EmailDelivery promise of a state or a step holds with all workers at once.

**EmailProofs**. `KeysSendOnce` rests on `TakenIsRemembered` (a message in the inbox has its key
remembered or forgotten) and `OneMessagePerKey`; `RecordedIsNotSentAgain` and `BlocksAreKept` on
`StillAllowed` (what `deliver` checked before its network call still holds after it, because the open transaction
keeps every other writer out); `ConflictsHaveACause` on `ConflictHasCause` and on the lemma that
two renderings of the same mail are the same payload, former name or not. It says nothing of the other
permanent refusals, which come for reasons of the provider's.

**DatabaseProofs**. A writer at work holds the lock and sees the latest store (`WritersSeeTheLatest`), and
what a request has read comes from its one snapshot (`ReadFromView`). Hence `RequestsReadOneState`,
`WritersRefusedBeforeReading`, and `TransactionsImplementAtomicStore`: a writer's commit is one step
from the latest store, everything before it a stutter. On AtomicStore, counting commits is easy, so
`NoUpdateIsLost` is proved there and carried back: each table was raised once by each request that reported
success. `OnlyLimitedWaitsBlock` is the safety part of `EveryRequestEnds` (`NobodyIsStuck`): in every state either
some request may proceed, or all threads are held by calls that wait for the lock or for a connection, and each of
those waits has a limit. A call with a thread that is past its `BEGIN` may always go on (`CallsGoOn`), and while a
thread is free somebody may: if the lock is taken, its owner, who needs no more than a thread
(`FreeThreadsAreUsed`). That somebody may always proceed would be false. It is stated with the guards of
`RequestStep` and `Timeout`, as ENABLED is out of the prover's reach.

**LeadSyncProofs**. The two file locks read off the workers (`OneSyncs`, `OneEnters`); what is about to
be applied is no older than what was (`ReadsForward`), whence `SyncNeverGoesBack`, and `TableMirrorsOneState`:
a run withdraws leads only after a snapshot without rejected rows, in which a lead that is not imported has
no row (`ApplyWithdrawsForCause`); an entry past its
append has its lead on the sheet (`PassedMeansWritten`), whence `SavedIsWritten`; without late writes an
entry about to append finds no row (`OneRow`), whence `EntriesAreOneRow`.

**SchedulerProofs**. `OneProcessRunsJobs` from `JobsUnderLock`: a process runs jobs only while it holds the lock.

**StorefrontProofs**. At most one load is current, and it is for the place on the form
(`LoadsAreOrderly`, `FormAgrees`); nothing moves under a submitted form (`SubmittedHeld`); no answer under way is
ahead of the order, and the current one is not behind the page (`AnswersInOrder`).

**OperationsProofs**. Reports on show and under way are true of the server (`ReportIsTrue`), the current
one no older than the one on show (`LoadsAreOrderly`); after signing out nothing current can bring a report
(`LeftBehind`); a form sends one id (`OneId`).

Only model-checked: liveness (`EventuallyDeliveredOrBlocked`, `LotIsDelivered`, `PaymentIsRecovered`,
`EveryRequestEnds`, `EventuallyMirrors`, `ScheduleFollowsSettings`, `WaitingEnds`). Its proof needs fairness and ENABLED,
which these tools do not handle. Proved and in no run: the type invariants, `MailedOnce`, and `NothingLost`, `NobodyIsStuck`,
`OneOwnerAtATime` and `WholeLots`, which follow from properties that are.

## 6. Limits of the model, and what the code does not promise

Abstractions:

* Orders and summaries have no insurance type of their own, since only one is sold
  (`schemas/purchase.py:8`). Currency, amount and mode of a session are one flag: they agree with the order or not.
* A municipality is a model value or missing; blank ones, which the list of municipalities leaves out like
  missing ones (`inventory_service.py:86-87`), are no model value.
* Random selection is any subset of the right size.
* The calendar of a zone is any function from instants to days that the constants give; that two
  active tiers have different prices is a guard of `Update` (`pricing_service.py:74`), not a theorem: a
  batch of edits may merge them.
* A change of the sheet id or tab between two synchronizations is not modelled.
* The sweep looks at orders of the last seven days; the model is that week, and in Recovery the provider
  remembers its keys for as long.
* In Recovery the buyer pays only after `create_checkout` has returned (the browser has the URL from its
  response), and administrators' resends are left to EmailDelivery.
* Cell formats and header aliases are abstracted to rows that are good, rejected, hidden (blank id)
  or duplicates. A run with rejected rows is stored as FAILED; the model calls its outcome
  "PARTIAL" to keep it apart from a run that applied nothing. The first transaction that stores
  `rows_received` is left out: no decision reads it.
* In Database a write request reads all tables before it writes and adds one to each; which values a
  service computes does not matter to isolation.
* Storefront leaves out the order page without a usable id, Operations the validation of fields, the
  list of municipalities, the dashboard's abort signal (what it aborts, the request version ignores
  as well), and a second click on sign-out while the first is under way, which the page does not disable
  (`dashboard.tsx:176-181`): its answer would sign the page out once more. Prices are edited in one browser only.
* Signature verification, the bearer token and the cookie's signature are left out: only accepted
  requests reach the models.

Behaviour the models contain, and no property forbids, because the code does not promise otherwise:

* An order marked FAILED is not asked about again by refresh or sweep
  (`checkout_reconciliation_service.py:63`); `StatusFollowsPayment` says that this is so only when no money will come. An
  order whose session was never stored (a crash between Stripe's answer and the
  third transaction) depends on the webhook, as does closing an order whose asynchronous payment was declined.
* A crash leaves a sync run RUNNING; the backend README documents it.
* Google may apply an unconfirmed append after the retry has looked for it. The id is then on
  the sheet twice and every synchronization refuses the sheet until people remove one row.
  `OneRowPerEntry` is therefore stated without `LateWrites`.
* Once Resend has forgotten a key (24 hours), an attempt whose acceptance was never recorded may mail
  again. `OncePerKey` is therefore stated of keys that were not forgotten.
* An order whose contacts or sender really changed between a lost answer and the retry is parked for the
  administrator although its first mail may have arrived. `ConflictsComeOfEdits` says that only a real change is
  a conflict. Any other permanent refusal (a revoked API key, a sender no longer admitted; `client.py:51`) parks an
  order likewise, also when an earlier attempt's mail was taken and the answer lost.
* The administrator's list and its count of active leads show leads of other insurance types, with a price, which the
  shop never sells (`lead_repository.py:44`; `admin_repository.py:51-64` has no such condition).
* Requests that wait for the write lock or for a connection may hold all forty threads, so that the request that
  has the lock does not get one to run its endpoint. Nothing moves until the first of those waits runs out
  after 30 seconds, and those requests are refused.
* The refusal of a synchronization that was sent in an expired session may return after the
  administrator has signed in again and sign the page out once more (`dashboard.tsx:102`).
* A lead form unmounted by a refused session loses its request id; a new form draws a new one.
* Inventory loads and polls pass the abort signal of their effect and so have no 30 s timeout of their own
  (`frontend/src/lib/api.ts:30`); the proxy's 90 s end them.

Not modelled, and why:

* *Layout of mails and pages*: fixed by the payload and the state the modules keep.
* *The list of orders and the plain column filters of the administrator's lists*: they show rows as stored.
* *Forwarding in the proxies*: stateless. What a session's end does to the page is in Operations.
* *Schema migrations, configuration and logging*: they run before the program or decide nothing in it; the
  constraints they declare are in the types and guards.

## 7. Plan

Order of the modules, most important behaviour first.

1. Pricing, LeadMarket, Fulfillment with proofs: done.
2. EmailDelivery, Recovery, LeadSync: modelled and checked.
3. Scheduler, Storefront, Operations: modelled and checked.
4. Settings and the business date, Reports, Database with AtomicStore: done.
5. Proofs about EmailDelivery, Database, LeadSync, Scheduler, Storefront, Operations: done.
6. Recovery as an implementation of Fulfillment and of EmailDelivery, with proofs: done.
7. Proofs about Reports and the second formulations of Pricing; no update lost and only
   limited waits in Database; the
   promises of Fulfillment, Reports and EmailDelivery carried over to Recovery: done.

Left for later:

8. Liveness of the dashboard (that a synchronization's busy state ends); with fairness the state space of
   Operations is beyond a short run, so it needs a smaller instance of its own.
9. The session cookie's own life (issue, expiry, sign-out in two tabs) as a module under Operations.
10. A change of the sheet id or tab while a synchronization is under way.
