# Verification of the Cadeau backend

TLA+ models of the Cadeau CRM backend (`src/apps/api`, a NestJS API over
PostgreSQL), the TLC configurations that check them, and TLAPS proofs about the
components whose rows are shared most: inventory, orders, bookings, sessions, members,
the capability cache, the trail of the writes and the notifications. The models are written from the TypeScript sources and the
SQL migrations; `PROJECT.json` maps every definition to the lines it translates.

## 1. The system

The API is one stateless process, run in several instances over one PostgreSQL
database. A request is handled by a controller, a service and a repository; the
repository runs its statements in a transaction scoped to one company
(`runTenantTransaction`, row-level security). Transactions are READ COMMITTED:
every statement sees what was committed when it began. What is atomic is
therefore decided by row locks (`SELECT ... FOR UPDATE`, or the lock an UPDATE
takes), unique indexes, CHECK constraints and one advisory lock, and by nothing
else. That is where most of the hard behaviour of this code is, and it is what
the models are about.

| Component (`src/apps/api/src/modules/...`) | State | Operations that change it | Hard behaviour | What makes it correct |
|---|---|---|---|---|
| inventory | levels (on hand, committed, reorder point) per warehouse and variant; logs of reservations, transfers and adjustments; active warehouses | reserve, release, transfer, adjust, setReorderPoint, archive, reopen | competing reservations, retries with one idempotency key, transfers that lock from both sides, crashes | committed units are backed; each write acts on the balance it lands on; a key moves stock once; crossings reported once; its calls do not deadlock with each other |
| orders | orders, items, activities; numbers; money columns; the customer's KPIs | create, update, transition, bulkTransition, assign | transitions that deadlock; rows read without a lock; KPIs aggregated before another transaction commits | an order holds what its activities account for; a transition moves stock all or nothing; numbers without gaps; derived columns agree |
| shipping | shipments, carrier connection, webhook inbox | book, transition, cancel, connect; ingest, claim, process, mark | HTTP calls between and inside transactions; resent and reordered events; several workers; crashes | one active shipment per order; no event handled twice or lost; the carrier agrees with the row |
| auth | profile, sessions, refresh tokens | register, login, refresh, switch company, revoke, TOTP, password, deletion request | tokens replayed after a lost reply; refresh beside a company switch | reuse ends the session; nothing else does; only a confirmed secret is asked for |
| tenancy, access, common | members, invitations, overrides; plan, feature flags, subscriptions; a capability cache per process | create, switch, invite, revoke, accept, remove, assign; toggle, set plan; resolve, invalidate | checks without a lock before the write; two assignments at once; a set resolved before a change is stored after its invalidation | invitation spent once; overrides are one set; an owner remains; a revoked capability is not used for long |
| finance | expenses, invoices, refunds, reconciliations, payments, periods; purchase orders, receipts, average cost | the writes and edits, the close, the tax rate, place and receive orders | the period is asserted without a lock; clock and tax rate move; receipts lock many rows, and foreign keys lock the variants the other way round | closed months are final; invoices number without gaps; receipts are atomic; the average carries the cost |
| customers | customers, addresses | create, update, archive, address writes, merge | retries with one key or phone; the merge beside order and address writes, in both directions | one row per key and phone; one default address; a merge leaves nothing behind |
| integrations | storefront connection and its events | ingest order and product events, reprocess; rotate, revoke, update | no idempotency key on the order it creates; the level is read in one transaction and corrected in another; any step may fail or be the last | one order per event; the feed's quantity reaches the shelf; no event stays pending |
| notifications | notifications, preferences, subscriptions, push deliveries | dispatch, claim, send, mark; register, remove, list, mark read | an effect that cannot be undone before the mark; browsers that change hands; muted channels | a push reaches its recipient, and again only if the one before was lost; every delivery settles |
| shared: events, audit log, lists, routes | the event bus, `audit_log`, keyset pages, the guards of the routes | publish, record, list | the audit row and the events follow the commit, each on its own; rows move while pages are read | the trail tells what was written; a page reader sees each row once |
| products, master data, analytics | their rows, caches | single-row writes, the product import with its compensation, reads | a row's compensation fails or has nothing to undo | a row reported as failed leaves nothing |

How the parts interact: orders and finance write the inventory's rows in their
own transactions; shipments read orders without a lock; the webhook worker moves
shipments through the same transition as users do; sessions carry the company
that tenancy decides about, and every gated route asks the capability cache for
what that member may do; a storefront event runs through the services of
customers, products, inventory and orders, one transaction each; domain events
are published in the process after the commit and the audit row, and reach one
subscriber, the notification dispatch.

`PROJECT.json` lists every component, with the reason for each one that is not
modelled, and under "hazards" what is hard to test, each at its line.

## 2. The modules

| Module | Models | Lines up with the code as follows |
|---|---|---|
| `StockRequests` | requests of the inventory API, the arithmetic on a level | the repository's helpers and its `availableOf`; which requests share a key per log table |
| `StockLedger` | abstract: every write happens at one instant | what the class comment of `InventoryRepository` promises |
| `Inventory` | `InventoryRepository` | one action per statement: key lookup, warehouse check, each row lock, the write, commit; `view[c]` is what the transaction has written and not committed |
| `InventoryProofs` | theorems about `Inventory` | |
| `SumTheorems` | lemmas about sums over finite sets | |
| `OrderStatus` | the order state machine, payment status | `order-status.ts`, used by three modules |
| `OrderBook` | abstract: a transition and its stock effect, an edit, a reservation, a release or a count, each in one step | `trail` is the activities of every order, with what each move applied and listed; `shortfall` is how far an adjustment or a transfer left a level below what is reserved of it |
| `OrderStock` | `OrdersRepository.transition`, the items of an `update`, the inventory's `reserve`, `release`, `adjust` and `transfer` on the same levels, PostgreSQL's deadlock detector | `todo` and `taken` are the rows read before the levels are locked, or the items an edit deletes; `applyStock` is the inventory feature as the service read it; an insert waits for the order its foreign key names |
| `OrderStockProofs` | theorems about `OrderStock`, `OrderBook` and `Storefront` | |
| `CustomerBook` | customers and addresses, the customers' half of a merge | `CustomersRepository`; an `updateMany` finds its rows in one step and writes those that still match in another |
| `OrderMoney` | create, update and the status part of transition, the orders' half of a merge | extends `CustomerBook`: sequence row, money columns, replaced items, the KPI aggregate and its write, `payment.collected` |
| `OrderMoneyProofs` | theorems about `OrderMoney` | |
| `ShipmentStatus` | the shipment state machine | `shipment-status.ts` |
| `WebhookInbox` | inbox, claim, `WebhookProcessor`, worker tick | the transition, the audit write and the mark are three actions, each may fail, and the process may die between them |
| `Shipments` | booking in three phases, transitions, cancellation, carrier connection | both short transactions run the same statements (`phase` says which); the carrier's answer is free |
| `ShipmentsProofs` | theorems about `Shipments` and `WebhookInbox` | |
| `Auth` | `AuthService` and the sessions repository, for one account | statements on one row commit alone and are one action; tokens are named by the call that minted them |
| `AuthProofs` | theorems about `Auth` and about `Purchasing` | |
| `Capabilities` | the access catalogue, plans, role templates, the three-layer resolution | `packages/database/src/seed/access/catalog.ts` and the resolver's layers, as pure operators |
| `Routes` | every HTTP route with its guard and capability | one row per decorated method of a controller |
| `Access` | the rows capabilities come from, `AccessGuard`, the cache of each process, the platform's switches | a guard's miss reads row by row and stores what it resolved; invalidation reaches the process that wrote only |
| `Tenancy` | members, invitations, template and overrides of one company | extends `Access`; one action per statement, with the rows a DELETE saw in `snap` |
| `TenancyProofs` | theorems about `Tenancy` and the `Access` it extends, and about `AccountingPeriods` | |
| `Storefront` | a store's connection, its event inbox, `StorefrontIngestionService` | a request is at one statement or one transaction of another module at a time (`req[c].at`); each may fail, or be the last |
| `Lists` | sort fields, filters and defaults of every list endpoint, `keyset.ts` | pure operators: parse a request, cut a page, the next cursor, whose times are in milliseconds |
| `ListPages` | a client that reads a list page by page beside writers | extends `Lists` |
| `Operations` | the audit rows and events of every write, and the event catalogue | one definition per write of a service: the sequence of its steps, what undoes them, and how a bulk goes on |
| `Trail` | requests that run those sequences, break off and are sent again | extends `Operations`; the steps left to a request are a set, each with its item and its number, and the order among them is `Sooner` |
| `Notifications` | dispatcher, delivery queue and workers, preferences, subscriptions, inbox | extends `Lists` and `Trail`: the event a trail emits is the one the dispatcher handles; a row's `place` is its `created_at` in the order of the claims |
| `NotificationsProofs` | theorems about `Notifications` and the `Trail` and `Lists` it extends | |
| `AccountingPeriods` | dated finance writes and edits, the monthly close, invoices, the tax rate, the clock | `dated` is the assertion of `assertPeriodOpen`, `closedSince` what was closed since; the DTO checks are sets the requests are drawn from |
| `Purchasing` | purchase orders, receipts, stock and average cost, the adjustment of a level, PostgreSQL's deadlock detector | locks on order, variants and levels in the code's order, roll-up CHECK; `todo` is the set of lines still to insert or to apply, of which `IsNext` takes a receipt's first; `shared` is the variants whose rows a transaction's foreign keys keep (`FOR KEY SHARE`); `Blockers` says whom a statement waits for |
| `MC*` | instances for TLC | the requests a run explores |

Conventions. A call, row, token or invitation is named by the request that made
it. A variable marked "history" is read by no guard; it records that a named
race has happened, so that a property can say precisely where it stops holding.
Where the code fails to protect something, the property is not weakened in
general: it holds in every behaviour except those in which the history names the
race (`BackedUntilRaced`, `CustomersMatchUnlessCrossed`,
`PaymentsAreReportedOnceUnlessCrossed`, `SettledUnlessAbandoned`,
`RemovalLeavesAnOwnerUnlessRaced`, `CacheAgreesUnlessBehind`,
`ClosedBooksAreFinalUnlessRaced`, and the exceptions that `EventsMakeOneOrder`,
`StockMeetsTheFeed` and `PushesReachTheRecipientOnce` name). These say that
nothing else goes wrong, and every one of the races is listed as a hazard.

The state machines state a type invariant, `TypeOK`. It is proved where the component
has a proof module, and is no property of a run: the runs are about what could go wrong
rather than about types.

## 3. What the runs check

Deadlock is checked in `inventory_calls`, `order_stock`, `order_money`,
`finance_periods` and `purchasing_receipts`, whose modules say with an explicit
stuttering disjunct when everything has been answered. The others stop when
their requests have been served, wherever that is (`CHECK_DEADLOCK FALSE`); what
must be reached there is stated as liveness, except in `auth_sessions`,
`tenancy_members` and `stock_pages`, whose actors never wait for each other.

**inventory_calls.** Four calls on two warehouses and two variants with two
units: two reservations ask for more than there is; one is released twice; two
calls share a key; transfers go in opposite directions; one variant may be
oversold; warehouse 1 is archived and reopened at any time. Four calls are two
competitors, one that changes the balance under them and one that undoes. Checked:
`KeySpentOnce`, `NoOversell` (an action property: units are committed out of what
is available at that instant), `CrossingIsReported`, `LedgerSpec` (the refinement
of `StockLedger`) and, under fairness, `EveryCallEnds`.

**order_stock.** Two orders over the same two variants, one listing a variant on
two lines, one variant oversold, two connections. Nothing but a release begins once three
transactions are committed, so four are: a reservation meets another one, a shipment or a
cancellation on the same levels in both lock orders, an order goes from `new` to
`shipped`, and one that was set aside before it reserved comes back and ships.
The reservations of one order are also released one by one. One write that is no move is
committed, or two at once: the items of an order are replaced, a unit is reserved for it, or
an adjustment takes a unit off the shelf. That is enough for a unit to leave from under a
reservation, for an order to ship or release what it no longer lists, and for a
reservation that holds a level to wait for the order of a move that waits for the level.
Reservations for no order and moves while the inventory feature is off are in the module
and in its theorems, not in this instance. Checked:
`BackedUntilRaced` (committed is the sum of the active reservations, and these are on the
shelf but for what an adjustment or a transfer itself took from under them),
`HoldingsFollowTheTrail` (an order's own reservations are those its activities account
for: one for each line it listed when it was taken up, none once it has shipped or was
cancelled after that), `BookUntilRaced` (refinement of `OrderBook`) and
`EveryTransactionEnds` with the deadlock detector.

**order_money.** Five families of requests, two transactions open at a time, which is
what a lost update needs: (1) four creates (two with one key, one refused by the
money checks), two edits, two transitions; (2) an edit, the same edit sent again and an
edit of another order, each of which may break off between its commit and its payment
event; (3) creates, an edit and a transition
beside merges of two customers into each other; (4) new and edited addresses, one
of an unknown governorate and one of the wrong customer, beside the merges; (5)
customers created with one key or with the phone of another, two that change to
the same phone, and an archival, beside a merge. One edit may be lost. Checked:
`NumbersAreContiguous`; `DerivedColumnsAgree`; `CustomersMatchUnlessCrossed`
(a customer's KPIs are the sums of its orders, a merged customer keeps no order and
no address from before, unless transactions on it crossed; and nobody loses a
default address without having asked); `PaymentsAreReportedOnceUnlessCrossed` (an update
reports the money by which it raised the collected amount once; if it broke off it reports
nothing, and neither does the retry).

**webhook_workers.** Two instances, one status sent under two event ids, all
three calls may fail, two processes die, a user moves the shipment. Three
attempts reach both a retry and the parked state. Checked:
`ProcessedIsRecordedOnce`, `SettledUnlessAbandoned` (fair).

**shipment_bookings.** Two calls race for one order, a third spends the first
one's key on another; replies are lost, a process dies, the order moves, a
shipment is cancelled, Bosta is disconnected once. Checked: `BookedOnce`,
`CancelledAtTheCarrier` (as long as the connection did not change), and
`EveryCallAnswers`.

**auth_sessions.** Five requests on one account, in any order and interleaving
(they are interchangeable, hence the symmetry), with lost replies and one
expiring token: two sessions and three uses, or one session and a double
presentation beside a switch. Checked: `ReuseKillsFamily`,
`HonestClientsStaySignedIn`, `EnabledSecretIsConfirmed`.

**tenancy_members.** Two of sixteen requests, on a company that has two owners and
a pending invitation or does not exist yet, each sent to one of two API processes
whose caches are empty or hold what the rows grant. The time to live is two ticks:
an entry can age without expiring; time does not pass while a guard reads, which
takes milliseconds. Two requests are a race, and what a third would have prepared
is in the first rows and the caches. Calls and processes are interchangeable. Checked:
`OverridesAreOneSet`, `RemovalLeavesAnOwnerUnlessRaced`, `StaleAtMostTtl` (what a cache serves was granted by the rows it read no longer ago than
its time to live), `CacheAgreesUnlessBehind` (a cached set is what the rows grant,
unless the change was made in another process, came while a guard was reading, is
one that invalidates nothing, or its invalidation is still to come or was lost).

**storefront_events.** Seven scenarios of up to three requests: one event delivered twice
and reprocessed; two orders of one new phone; a failed event reprocessed by two
users at once; products with a new, a known and a retired sku beside an order;
the connection revoked, updated and its key rotated; the default warehouse moved,
also to one that does not exist; stock sold between a read and its correction.
Every step may fail, and every request may die. Checked: `EventsMakeOneOrder`,
`StockMeetsTheFeed`, `EveryEventSettles` (fair).

**notification_pushes.** Two groups of scenarios. Every operation of `Operations`, sent
up to twice, with its key by two requests at the same time, and with two items
where it is a bulk or an import: that is what it takes for a step to be repeated
or for one item to fail beside one that does not. And pushes, with two workers,
two attempts and a batch of two: a browser that is registered by somebody else
while its push waits, a subscription that is removed, a channel that is muted, a
new event beside a push that waits, an inbox read in pages of one while a
notification arrives. The push service takes a push, reports the subscription gone, fails, or
takes the push and its answer is lost. The clock has the two milliseconds a cursor tells apart.
Checked: `PushesReachTheRecipientOnce` (a delivery is pushed again only when every earlier
push of it broke off before its row was marked), `PagesShowEachOnce` (the inbox),
`TrailsTellTheWrites`, `FailedItemsLeaveNothing`, `EveryDeliverySettles` (fair).

**stock_pages** (violated). Every list of `Lists` over two rows, with pages of one
and the requests that sort, filter or ask wrongly. `PagesShowEachOnce`: whoever
reads a list to its end sees each row once that was there all the time and did
not change. The stock list is sorted by a column that the database sets in
microseconds, and its cursor carries milliseconds; see section 5. The inbox of
`notification_pushes` has the same property and keeps it: its column is written by
the database client, in milliseconds.

**finance_periods.** Four requests, two months, two tax rates, in twelve plans: the writes
of a month, its close, and a fourth request that meets them; edits of one expense
that move it between the months; invoices of an order and of free lines beside
their refunds; reconciliations with a variance; a purchase-order payment, which
asserts no period. The clock crosses the end of the month at any point and any
transaction may die. Checked: `GapsAreLateActivity` (an open month below a closed
one was opened by late activity), `InvoicesAreSound` (numbers without gaps, VAT
half up of the rate read), `ClosedBooksAreFinalUnlessRaced` (net income, cash out
and the rows of a closed month stay what the close saw).

**purchasing_receipts.** Four of the receipts, placed orders and adjustments of
two purchase orders that list the same two variants in opposite orders, in two
warehouses; a key used twice, a line named twice, an unknown warehouse, an
archived supplier, an over-receipt, a crash anywhere. The line of an order and the row of an
adjustment keep their variant's row (`Share`), which a receipt locks for update: an
adjustment holds its level and waits for the variant while the receipt holds the
variant and waits for the level, and an order of two variants meets a receipt in the same
way. One of the circle is aborted (`DeadlockVictim`). Checked: `ReceiptsAreAtomic`,
`AverageCarriesTheCostOfOneWarehouse`, `ReceiptsAloneDoNotDeadlock` (no circle is of receipts
alone, which is what the sort by variant is for), `EveryRequestEnds`.

Every property has a mutant in `PROJECT.json`: a plausible bug in a mapped
definition (an operator named `Definition_Variant`, commented as a mutant, that
the specification does not use) under which the run finds the property
violated.

### Fairness

- `Inventory`, `Purchasing`: weak fairness of each call's next statement. An
  async function that has begun is driven on by its runtime, and PostgreSQL's lock
  queue wakes a waiter once the row is free. A crash is never required to happen.
- `OrderStock`: strong fairness of each connection's step. A lock there may be
  taken again and again by others, and the queue is what guarantees the waiter its
  turn; the detector breaks cycles.
- `WebhookInbox`, `Notifications`: weak fairness of the workers' steps and of the
  passing of the backoff (a `setInterval`, and the clock).
- `Shipments`: weak fairness of bookings and cancellations. `Storefront`: of each
  request's next step.
- `CustomerBook`/`OrderMoney`, `Auth`, `Access`/`Tenancy`, `AccountingPeriods` and
  `ListPages` are checked for safety only.

## 4. What is proved

TLAPS proves the following for every value of the constants: any number of calls,
rows, tokens, orders and processes, and any requests. Each component with theorems has a
module of its own. What they rest on is the assumptions its constants come with, which
say that a constant has the type its comment gives it, that calls of different kinds have
different names, and that a "none" (`NoRow`, `NoMember`, `Nobody`, `Absent`) is no row, no
call and no value. Three say more: no two first members of `Tenancy` are the same user (the unique
index), the first invitations are pending, and every request of its menu is one the DTOs
let through (`WellFormed`). And the scenarios of `Notifications` are sound
(`ScenarioAssumption`): an event is published by one request and has no notification before,
the rows left from before are rows the code stores, a request caught between its write and its
event has that event left. Those of `Storefront` (`ScenariosAssumption`) begin with rows the
code stores, and their users ask for what the DTOs let through; the requests of
`AccountingPeriods` (`BookAssumption`) are drawn from its DTOs as well, and its months are
numbered from 1 (`PeriodAssumption`). `Purchasing` (`PurchasingAssumption`) has finitely many
warehouses, begins with orders of valid lines and with levels that are natural numbers, and its
requests are drawn from its DTOs. `OperationsAssumption` says of the catalogue what its definitions
show one by one: what every sequence of it looks like. It depends on no constant, so that
TLC's evaluation of it settles it. TLC evaluates all of the assumptions.

| Module | Theorem | States |
|---|---|---|
| `InventoryProofs` | `TypeCorrect`, `InvariantHolds` | `TypeOK`, `IInv` |
| | `BalancesNeverNegative` | no CHECK constraint of a level ever rejects a write |
| | `KeysSpentOnce` | `KeySpentOnce` |
| | `ReservationsNeverOversell` | `NoOversell`, for every committing step |
| | `CrossingsAreReported` | `CrossingIsReported`, for every commit |
| | `TransactionsImplementLedger` | `Spec => LedgerSpec` |
| `OrderStockProofs` | `OrderStockInvariant`, `OrderStockTypes` | `IInv`, `TypeOK` (no balance goes below zero) |
| | `LevelsAreBacked` | `BackedUntilRaced` |
| | `HoldingsAreTheTrails` | `HoldingsFollowTheTrail` |
| | `TransitionsImplementTheBook` | `Spec => BookUntilRaced`: the order book, step by step |
| | `StorefrontInvariant` | `StorefrontInv`, with the types of the storefront |
| | `StoreEventsMakeOneOrder` | `EventsMakeOneOrder` |
| | `StoreStockMeetsTheFeed` | `StockMeetsTheFeed` |
| `OrderMoneyProofs` | `OrderMoneyInvariant` | `IInv` |
| | `NumbersHaveNoGap` | `NumbersAreContiguous` |
| | `PaymentsAreReportedOnce` | `PaymentsAreReportedOnceUnlessCrossed` |
| | `ColumnsAgreeWithTheLines` | `DerivedColumnsAgree` |
| | `CustomersAgreeWithTheirOrders` | `CustomersMatchUnlessCrossed` |
| `ShipmentsProofs` | `ShipmentsTypeCorrect`, `ShipmentsInvariant` | `TypeOK`, `IInv` |
| | `AnOrderIsBookedOnce` | `BookedOnce` |
| | `CancellationsReachTheCarrier` | `CancelledAtTheCarrier` |
| | `InboxInvariant` | `InboxIInv`, with the types of the inbox |
| | `TransitionsAreRecordedOnce` | `ProcessedIsRecordedOnce` |
| `AuthProofs` | `AuthTypeCorrect`, `AuthInvariant` | `TypeOK`, `IInv` |
| | `ReuseRevokesTheFamily` | `ReuseKillsFamily` |
| | `SessionsEndForAReason` | `HonestClientsStaySignedIn` |
| | `TwoFactorIsVerified` | `EnabledSecretIsConfirmed` |
| | `PurchasingInvariant` | `PurchasingInv`, with the types of the purchases |
| | `ReceiptsStayAtomic` | `ReceiptsAreAtomic` |
| | `AverageStaysDerived` | `AverageCarriesTheCostOfOneWarehouse` |
| `TenancyProofs` | `TenancyTypeCorrect`, `TenancyInvariant` | `TypeOK`, `IInv` |
| | `InvitationsLetOneMemberIn` | `InvitationsAreSpentOnce`, which no run checks |
| | `AssignmentsReplaceAllOverrides` | `OverridesAreOneSet` |
| | `RemovalsLeaveAnOwner` | `RemovalLeavesAnOwnerUnlessRaced` |
| | `CachedSetsAreAtMostTtlOld` | `StaleAtMostTtl` |
| | `InvalidationsKeepTheCache` | `CacheAgreesUnlessBehind` |
| | `BooksInvariant` | `BooksInv`, with the types of the books |
| | `InvoicesStaySound` | `InvoicesAreSound` |
| | `GapsComeLate` | `GapsAreLateActivity` |
| | `ClosedBooksStayFinal` | `ClosedBooksAreFinalUnlessRaced`, for every step |
| `NotificationsProofs` | `TrailInvariant`, `PushInvariant` | `TrailInv`, `PushInv` and `PagesAreKept` |
| | `TrailsTell` | `TrailsTellTheWrites` |
| | `FailedLeaveNothing` | `FailedItemsLeaveNothing` |
| | `PushesReach` | `PushesReachTheRecipientOnce` |
| | `PagesShow` | `PagesShowEachOnce`, of the inbox |
| `SumTheorems` | `SumUnion` | the sum over two disjoint finite sets is the sum of their sums |

### The arguments

None of these properties is inductive: a transaction commits what it computed several
statements ago, and what carries a fact across is a lock, a unique index or nothing. Each
`IInv` says which, and TLC checked it on the run's instance before it was proved.

**Inventory.** `LocksHeld`: a transaction past its locks holds those of the levels it
needs. `ViewIsCurrent`: while it holds one, what it read is the committed balance, since
nobody else can commit to that level. `WrittenIsSound`: what it has written is the outcome
of its operation on the committed balance, was permitted on it, and no other row carries
its key, committed or pending (the unique index). `RowsMatchCalls`: a log row belongs to
the call of the right kind. The proof has a lemma per kind of step: those that lock
nothing (`UnlockedStep`), lock (`LockStep`), leave the transaction (`LeaveStep`), write
(`WriteStep`) and commit (`CommitStep`). `CrossingsInv`, on top, is what the effects of a
call hold: nothing before its write, then the crossings its outcome makes of the committed
balances; a release makes none, for it frees committed units. For the refinement, `CommitIsLedgerStep` shows
that a commit is the ledger's step of the same operation on the balance of that instant,
and every other step, save that of a warehouse, changes nothing the ledger sees.

**OrderStock.** `OrderLocked`: the order's lock keeps its status and its lines as a move has
read them, and its reservations from growing, since whoever inserts either waits for it; so
the lines a move reserves are the order's (`Reserving`), and the rows it consumes are a
superset of those its order holds (`RowsRead`). `ViewOK`: as long as every row taken is
active, a view is the committed level less the units taken, which is what makes the committed
units add up at the commit; a taken row that is active no more is what `raced` stands for.
`Asking`: a reservation that waits for its order holds its level, where what it asks still is.
`Written` says that a row of the future is none that anybody has read. `HoldingsFollowTheTrail`
is part of the invariant: `DueAfterMove` shows what one more activity makes due, and
`MovedKeeps` carries this over the three kinds of move; edits, counts and reservations of a
client do not touch an order's own rows. The refinement maps a commit to the order book's step
of the same name, and every other step to a stutter.

**Storefront.** The unique index on the event lets one request insert its row, and a later one
takes it from `failed` only, so one request runs an event at a time unless users reprocess it together
(`RunsAreAlone`). The request that has stored an order is on its way to the mark, or has
left its event `processed`, which nobody runs again (`OrdersAreMarked`); the ways out of this, a failure
or a death between the two, are what `slipped` notes. With it, two orders of one event are
the same (`OneOrderEach`). `LevelsAreWatched`: what a request has read of a level is the level until
another one writes it, which stirs the request; so the difference it adjusts by ends at the
quantity the feed gives.

**OrderMoney.** `SequenceIsHeld`: one create at a time is between the draw of a number and
its commit; the number it drew is still the next one, and the numbers stored are `1..next-1`
with as many orders as numbers. `CrossingsAreNoted`: two changes of one order that are
open together are in `crossed`, so the collected amount that the service of an update read
is still the order's. `UpdatesTellOnce`: an update has told of nothing before its commit, and
what is due has been neither told nor lost, so each update's sum is that of one commit.
`MoneyInv`: unless it is crossed, the row a change has read is the
order's until the change commits, the lines it has deleted are the order's, and the row it has
written agrees with the lines it leaves behind; a create's draft agrees with the lines it
inserts. That the columns of a commit agree with the lines stored is then the sum of one
request's lines (`SumAdd`).

`CustomersInv`, on top of it, is about the rows a transaction works on. No two hold the lock of
one order row (`RowsExclusive`) or have written one address. Two that touch one customer
while open have crossed it (`MeetingsAreNoted`), but for two creates, which the sequence row
keeps apart. So what each knows stays so while another commits (`CommitOthersOrders`,
`CommitOthersMerges`): its aggregate is that of the orders it sees (`CustomersOf`); what a merge
swept and took is all the customer had (`MergeOf`); an address a write has demoted is still the
customer's default (`AddressWriteOf`). A step that commits nothing is `Calm`: it changes its own part
only, and locks only what is free. The commits are taken by what they write: `CommitMovesOrders`
and `CommitSpares` for the orders, `StoredAddresses` for the addresses.

**Shipments.** `LocksHeld` and `InsertsAreClear`: a call that has seen no active shipment
still holds the order's advisory lock when it inserts, and nothing else makes a shipment
active. `KeysSpentOnce` counts inserted rows as well as committed ones. `CancelsAreTold`: a
cancellation has been accepted by the carrier before the row changes.

**Webhook inbox.** Nothing in the inbox remembers that an event was applied before its mark: a
retry may find it `failed` and applied. What stops a second transition is the state machine,
which has no cycle: every transition raises the shipment's `Rank`, and past a transition its target is
out of reach for every event that asks for it (`MovesAreSpent`). `ClaimsAreExclusive` (one worker
per claimed event, and the event is `processing`) makes the audit row the business of the worker that made the
transition (`RecordsFollowMoves`), and `MissingRecordsAreHeld` says where an event is whose
transition has no audit row: with the worker about to write it, or left `processing` by one
that was lost. It needs `BudgetLeft` for the attempts only.

**Auth.** A token is followed from the call that minted it to the one that spent it: a
session's row names a token whose claims are the row's (`RowsNameTheirTokens`), a family
belongs to one session (`FamiliesOfSessions`), a token its row does not name any more was spent
by one refresh (`SpentTokens`, `OneSuccessor`), and the answer to a presented token stays true
(`AnswersLast`). The last one is the point: that a family stays revoked relies on no
statement writing `revoked := false`, and on rotations naming the token they replace.

**Tenancy and Access.** The first half of `IInv` is about the rows: what a call has
checked still holds when it writes, unless `raced` says otherwise (`InvitesInv`, `OverridesInv`,
`OwnersInv`, on top of one membership per user). The second half is about the caches: what a
guard has read agrees with the rows, or its entry will be excused (`GuardInv`); an entry
agrees, is excused, or will be invalidated by a call between its commit and its audit; and
every capability it serves beyond the rows was lost `n` ticks ago with `n` plus the time
the entry has left at most `Ttl` (`EntryInv`). All steps that are no step of a cache
are one kind to the second half (`OrdinaryGo`, `OrdinaryCommit`), whatever they do to the rows.

**AccountingPeriods.** Nothing keeps a period open once a write has asserted it.
`AssertionsStand` says what is left: a period found open is open, or a close has come in since
(`closedSince`); and it has its row, in the table or in the very transaction that inserts it
(`periodLock`). `DatesStand` and `DraftFits` tie the row about to be committed to what was
asserted, unless the clock or another edit has moved it (`astray`). What a closed month
reports then changes by the commits named in `ClosedBooksAreFinalUnlessRaced` only. `ClosesFit`: a
close past its gap check has no open month below it but those that came late. For the
numbers, `NumberHeld` and `InvoicesAreNumbered`: whoever has taken a number holds the
sequence's row until it ends, the sequence stands one above the last committed invoice,
and the committed ones are numbered `1..n`. `VatRounds` is the arithmetic of half up, for every
amount and rate. A step that is of one request leaves alone what the others have read
(`Undisturbed`), so every lemma is about the request that moves.

**Purchasing.** A receipt works on what it has locked, and its view is the tables with its own
units on top. `OrderIsHeld`: the order's lock keeps the committed lines, so a line in the view
is the stored one with the roll-ups the receipt has made. `LevelsAreHeld` says the same of the
levels: the committed balance plus the units raised. `CostsAreHeld`: an average in the view is of a
locked variant, and where the receipt's warehouse is the only one with units of it
(`Homes`), it carries what the committed and the raised units have cost, less what the
divisions cut off, which is below the number of units for each of them
(`MovingAverageCarries`). These are facts about one request, so a
step of another one has to leave alone what it has locked (`Undisturbed`, `UndisturbedFits`). Two
commits move what the properties are about. A receipt's makes its view the tables, so that
the roll-ups of the orders are the sums of the receipts stored (`CommitSums`,
`CommitReceiptKeeps`). An adjustment keeps the level it has locked, and that it has the units to
take (`AdjustmentHolds`), but of the variant only the key; the units it moves are reckoned at
the average cost of its commit (`AdjustKeeps`).

**Trail.** Every sequence of the catalogue has a shape (`Shaped`): one row after the
other, each committed once and before it is announced; what undoes an item is an archive that
stands alone. A request keeps the shape whatever of its steps is done, fails or is undone
(`ProgramIsShaped`, `LessIsShaped`, `UndoIsShaped`). `CommitsAreLeft` and `AnnouncementsAreLeft`
tie what is left to what is stored: what is to be committed is not written, what is to be
announced is not in the log and is owed or follows a commit that is left. `OwedIsNext` is what
makes a failure harmless: once an announcement is owed, no commit of its item stands before it, so
whatever breaks it off finds the write in `broken` (`FailBreaks`). That a retry announces nothing twice is
that its writes are of another try, or replays (`ReplayKeeps`), which announce nothing.

**Notifications.** `EventsAreNew`: an event that a request has still to publish has no
notification, no delivery and no other request. `HandlersGoAhead` carries it through the
dispatcher: there is no notification before it is created, and nothing is queued for the
subscriptions still to be served, which are those the recipient had. `QueueIsRight` then says whom a
queued or held row is for, until the subscription changes hands or goes. `WorkersHoldApart`
(rows held by a worker are `processing`, and no other worker's) and `SentIsNotQueued` give
the "once": a row whose push is out is held by nobody, or by the worker that is about to mark it,
unless that push is in `lost`: its answer or its mark was lost. `PushesAreNumbered` keeps the
pushes of a delivery apart, so that each but the last is one of those. Most steps only give up, mark or drop rows (`HoldingsKeep`); the two that
take them are `ClaimKeeps` and `SendPushKeeps`.

**Pages.** In the order of a list by `createdAt` a page is an initial piece of what is past
the cursor, and the rows past the next cursor are the others (`PageIsFirst`). This needs the
keys in milliseconds, which rows of the inbox have and levels do not: `stock_pages` is violated
where `InboxRows` fails. `PagesAreKept`: of the rows that stay, those shown once are those the
cursor has passed.

**Sums.** `SumTheorems` shows that the sum of a function over a finite set is what one
expects: it splits over disjoint sets, loses what an element adds when the element is removed,
is a natural number when its terms are. Such a statement needs induction over the set, and the
library's induction theorems take an operator, which the installed provers cannot
instantiate. The lemmas go round it: of the subsets on which a sum might fail, a smallest one
exists (strict inclusion on the subsets of a finite set is well-founded, `WFMin`), and
one element less gives the contradiction. `OrderBook`, `OrderStock` and `OrderMoney` write
their sums as `SumFunction` of the community modules, which is first-order.

### What the proofs corrected

Proving found two places where a history noted less than it has to; neither
shows in the instances TLC runs.

- `Tenancy`: an owner race is also noted by an assignment that makes somebody an owner
  (`CommitAssign`). With three calls, a removal may count an owner that another one is
  about to create and a third to remove; two calls cannot.
- `Access`: a guard that reads the role before a write and the overrides after it is noted as torn by
  the rows that changed (`RowsOf`), not by the set they grant: an assignment of role and overrides
  together may leave what the user may do unchanged and still tear a resolution.

### Only model-checked

- Liveness under fairness (`EveryCallEnds`, `EveryTransactionEnds`, `SettledUnlessAbandoned`,
  `EveryCallAnswers`, `EveryEventSettles`, `EveryDeliverySettles`, `EveryRequestEnds`) and
  ENABLED are outside what TLAPS 1.4.5 proves here.
- `ListPages`.

No module uses a RECURSIVE operator.

## 5. Where code and text disagree

One run is violated by what the code does (`findings` in `PROJECT.json`).

`keyset.ts` keeps pages stable under concurrent writes, but a cursor carries a `Date`, which has
milliseconds, and `inventory_stock.updated_at` is set by a trigger to `now()`, which
has microseconds and is the same for all rows of a transaction. Levels that were written
within one millisecond, by two transactions or by one that wrote several (a transfer, an
order), are skipped at a page boundary of the descending list, and repeated by the
ascending one.

Another divergence is in the model and in no run. An order may be postponed before it has
reserved anything, and go on from there to `ready` and `shipped` (`order-status.ts:46`, `:54`).
`postponed` counts as a state that holds a live reservation (`:67`), so no move on this way
reserves, and the shipment consumes the reservations it finds, which are none: nothing leaves
the shelf, where the module says "entering `shipped`: decrement on-hand and release the
reservation" (`:96`).

The conditional properties circumscribe the rest; each exception is a
history variable that names the code's race.

- A retry that loses the race on its key re-reads the row in the transaction
  the unique violation has aborted, so it is answered with an error, not with a
  replay (`KeyConflict` in `Inventory`, and its siblings). No stock moves twice. The
  same goes for a customer create ("the loser replays",
  `customers.repository.ts:224`), which may also be answered 409 for the phone of
  its own winner, and for a re-sent storefront event ("a re-sent event is a
  no-op").
- A transition consumes the reservations it read before it locked the levels; a
  release that commits in between is consumed again (`raced` in `OrderStock`). An
  order that ships or is cancelled while the inventory feature is off keeps its
  reservations for ever, and so does one that reserved, went through `postponed` to `new` and
  is cancelled there; taken up from there, it reserves its lines a second time
  (`HoldingsFollowTheTrail` states what is held on these ways as well).
- The items of an order are replaced in any status, and its reservations stay what they
  were (`orders.repository.ts:258`): an order that was edited ships what it listed when it
  was taken up. Two edits at once leave the items of both (`BookEdit`).
- Adjustments and transfers check on-hand only, and take units from under the reservations
  (`shortfall` in `OrderBook`); "concurrent stock writes serialize instead of oversell" holds
  for what reserves.
- Writes on two orders of one customer may leave the KPIs with the older sum,
  which "can never drift" (`orders.repository.ts:114`), and so may a merge, which
  does not recompute the merged customer's own (`CustomerBook`, `OrderMoney`).
- `update` publishes `payment.collected` after its commit and after two audit rows. If one
  of those fails, or the process dies, the event is lost for good: the retry finds the
  amount raised and no difference to tell of (`untold` in `OrderMoney`).
- Setting an address as the default clears the old one before the address is known to
  exist; so does the default warehouse (`Storefront`).
- Two owners may remove each other (`raced` in `Tenancy`).
- A carrier that accepted a parcel and whose reply was lost leaves a parcel without
  a shipment (`CarrierReplyLost` in `Shipments`).
- A push that was accepted and whose answer is lost, or whose row could not be marked, counts
  as failed and is sent again (`lost` in `Notifications`).
- A worker that dies with a claimed batch of webhook events leaves them
  `processing` for ever: the claim takes pending and failed rows only
  (`webhook-inbox.repository.ts:64`), though "a retry worker drains pending rows".
- Purchase-order payments assert no period and enter closed months
  (`finance.repository.ts:659`). Two edits of one expense may move it out of the
  month that one of them asserted open.
- Receipts are sorted "so two receipts touching an overlapping variant set cannot
  deadlock" (`finance.repository.ts:584`), and two receipts cannot. A receipt and an adjustment of the
  same level can, and so can a receipt and an order placed over the same variants: the foreign
  keys of the rows these insert wait for the variants it has locked (`DeadlockVictim` in
  `Purchasing`). The victim is answered with an error.
- With a variant in two warehouses the moving average weighs a receipt with the
  on-hand of one of them (`finance.repository.ts:1538`).
- `revoke` calls a storefront connection's end terminal
  (`storefront-connections-repository.port.ts:85`), and an update with
  `status: "active"` brings it back. A product event that loses on the sku leaves a
  product without a variant, and the orders of an archived customer always fail.
- The audit row of a product created by an import may fail after the product was
  stored; the row is then reported as failed and there is nothing to undo it with
  (`products.service.ts:244`).
- The event catalogue says `stock.changed` is "emitted by each atomic inventory
  write"; order transitions and receipts write stock and publish nothing
  (`Operations`).
- "Creates the in-app row (if enabled)" (`dispatch.service.ts:101`): the row is
  created when either channel is on, and hidden unless the in-app channel is.
- The auth and tenancy services audit to the logger only. The master-data cache is
  filled and invalidated, but nothing outside tests reads it.

## 6. What is not modelled

Rendering and parsing (PDF, CSV, smart paste, waybills, message texts); what a filter
selects; hashing, signing and encryption (tokens and secrets are told apart by who
made them); row-level security (every module stays within one company); logging.
The rate limiter checks and counts without an await in between. Analytics is
read-only: its aggregates and their cache, which expires by time alone, are left
out, and its routes and the audit row of its export are modelled. Of products,
master data, suppliers and warehouses the trail, the lists and the routes are
modelled, not the columns, which single-row writes set behind unique indexes.
Transactions that fail are rolled back as PostgreSQL does it, which is assumed,
as are its lock queue and its deadlock detector. The rows of one DELETE or UPDATE
that touches several are locked at once, except where the order of locking is the
point (`OrderStock`, `Purchasing`, and the search of an `updateMany` in
`CustomerBook`).

Narrower abstractions, module by module:

- `CustomerBook`: the waits of an insert for the row its foreign key names are left
  out; the rows a merge locks are locked together, with `DeadlockAddress` for the
  cycle that two merges, or a merge and an address write, can close.
- `OrderStock`: one warehouse; a level exists from the start. A transfer is the change of one
  level: the other warehouse serves no order here, so that a circle of two transfers is in
  `Inventory` only. Orders are there from the start. Two edits of one order
  wait for each other on a row they both delete; here the second deletes what it has read, as it
  does once the first has committed.
- `AccountingPeriods`: a reconciliation is of the month it is written in, which is the one its
  guard asserts. The `periodKey` its request gives (`finance.dto.ts:362`) is stored as a label
  (`finance.repository.ts:1231`) that no guard and no report compares, so it may name a closed month;
  it is left out. A date is its month; an order's items and a shipment's fee do
  not move during a run; the tax settings row is there from the start; the stamp of
  the first PDF is left out.
- `Purchasing`: a level exists from the start. Transfers and the shipping of orders, which move
  on-hand as well, are not beside the receipts: `Inventory` and `OrderStock` have them, and
  they touch neither orders, receipts nor costs. Every other row that names a variant (an order's
  item, a reservation, a transfer) waits for a receipt as the adjustment and the placed order
  do here, and may be in a circle with it in the same way.
- `Storefront`: one line per order, one connection that is there from the start.
- `Notifications`: the WhatsApp message after a dispatch is a stub in the code. The push
  service always answers or breaks off: `sendNotification` is called without a timeout
  (`web-push.adapter.ts:24`), and were it to hang, the worker's tick would never end.
- `Lists`, `ListPages`: the rows are those that match the filter.
- `Access`: add-on grants, which nothing in the code writes, are a constant.

Composition is by extension and by shared definition more than by one large
product: `OrderMoney` extends `CustomerBook`, `Tenancy` extends `Access` over
`Routes` and `Capabilities`, `Notifications` extends `Lists` and `Trail` over
`Operations`; `OrderStatus` is in `OrderBook`, `OrderMoney` and `Shipments`, and
`ShipmentStatus` in `Shipments` and `WebhookInbox`; `OrderStock` carries the
inventory's release and `Purchasing` its adjustment, and `Storefront` the calls it
makes to customers, products, inventory and orders, each as one atomic action of the
other party. The full interleaving of all parties is out of TLC's reach. The pairs whose
writes meet on a row that decides something are in one module; where one party is reduced to
an atomic step of another's module, or left out beside it, the list above says so. The waits
of an insert for the rows its foreign keys name are modelled where they close circles or
decide what is read: the variants in `Purchasing`, the orders in `OrderStock`. Elsewhere they
are left out.

## 7. Plan

Built, in this order: the inventory and its ledger with the proofs; orders and
their stock; orders and money; the webhook inbox; bookings; sessions; members;
periods; receipts; then storefront ingestion; the capability cache under the
tenancy and platform writes; customers and the merge; lists and pages; the trail
of every write; notifications.

Proved, in this order: the inventory; bookings; sessions; numbers and payments of orders;
members, overrides and the capability cache; sums; orders and their stock; the money and
the customers of orders; the trails, the pushes and the pages of the inbox; the
carriers' webhook inbox; storefront ingestion; the accounting periods and the writes they
guard; purchase orders and receipts.

Left: the pages of a list of levels (`ListPages`) beyond the violation its run shows, and
liveness, once the provers reach it.
