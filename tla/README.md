# Verification of the TriAD backend

TLA+ models of the commerce backend in this repository, TLC configurations that
check them on small instances, and proofs that TLAPS checks for every instance.
Paths below are relative to the repository; `core/...`, `modules/...` and
`shared/...` stand for `src/core/...` and so on.

## 1. The system

TriAD is an Express server over PostgreSQL (Prisma), Redis and a job queue. Its
core is an event-driven order flow: a checkout transaction changes products,
discounts, orders and carts and writes domain events into the table
`outbox_events` of the same database; relays publish these rows to in-process
handlers, which build read models and send notifications.

| Component | State | Operations | Talks to |
|---|---|---|---|
| Outbox relay (`core/outbox/outbox-relay.ts`, `prisma-outbox-relay.store.ts`) | rows: publishedAt, deadLetteredAt, attempts, lockOwner, leaseUntil; process: activeClaimIds, heartbeatInFlight | start, stop, pollOnce, publishRow, heartbeat | outbox rows shared by all relay processes; event bus |
| Event bus and handler log (`shared/domain/event-bus`, `core/outbox/outbox-handler-tracker.ts`) | one log row per event and handler | publish: check, run, record each handler, in parallel | handlers; relay |
| Outbox maintenance (`core/outbox/outbox-maintenance.service.ts`) | none of its own | replay of dead letters, cleanup of published rows | outbox rows, beside live relays |
| Checkout (`modules/checkout`) | orders, products.stock/version, discounts.usedCount | quote, checkout with retries | cart rows, outbox rows, idempotency middleware |
| Cart (`modules/cart`) | one row per customer and product | add, update, remove, clear | read by quote and checkout, cleared by checkout |
| Products (`modules/products`, image job) | price, stock, isActive, images, version | create, update, delete, restore, image upload | checkout (stock, version), outbox |
| Orders (`modules/orders`) | status, version | status changes, cancellation | outbox |
| Projections (`core/outbox/projection-*.ts`, `rebuild-*.ts`) | read models with sourceVersion, rating, dashboard | upsert per event, refresh, rebuild | fed by the event bus |
| Idempotency middleware (`shared/middlewares/idempotency.middleware.ts`) | one Redis entry per user, route and key | claim, renew, complete, delete, replay | in front of checkout |
| Sagas (`checkout.saga.ts`, `cancellation-refund.saga.ts`, `shared/*/saga`) | persisted saga state | execute, compensate | ports; not wired into the server |
| Authentication (`modules/auth`) | refresh-token families, verification links, provider identities, pre-auth tokens | register, verify, resend, provider sign-in, refresh, logout, 2FA | users, Redis, outbox, mail queue |
| Reviews, notifications, users, wishlist | single rows | create, read, update, delete | event bus |
| Server process (`server.ts`, `core/queue`) | connections, relay timer, workers, signal handlers | start, shutdown, forced exit | everything |
| Portfolio backup (`scripts/backup/portfolio-backup.cjs`) | archives, receipts, a scratch directory, a container | backup, verify | PostgreSQL, Docker |
| Container, cross-cutting middlewares | | wiring, checks of one request | everything |

What is hard to test here, and what makes each component correct:

- **Outbox.** Several processes share the rows under leases that can run out
  while a handler is running; any database call may fail, before or after it took
  effect; processes die between any two steps; operators replay and delete rows
  meanwhile. Correct means: an event is published only when every handler has
  completed, only the holder of the claim decides the fate of a row, no row falls
  between "can be claimed" and "is settled", and every row is settled in the end.
- **Checkout.** The cart is read outside the transaction; duplicates of a
  request, other customers, the customer's own cart and administrators interleave
  with it; row locks can deadlock; a conflict is retried; the answer of a commit may
  be lost. Correct means: one order per key, stock and discount uses accounted for,
  the announced versions without gap, the reviewed total charged, and an outcome
  for every request.
- **Projections.** Events of one aggregate arrive out of order, repeatedly, and
  beside a rebuild; writers take several steps without a transaction. Correct means
  that a row always shows one committed version, never an earlier one afterwards,
  and in the end the newest; that the dashboard and the ratings settle on what
  they count.
- **Orders.** Concurrent status changes, decided on what was read earlier. Correct
  means that an order's history is a path of its lifecycle.
- **Idempotency middleware.** Redis calls time out after they took effect, leases
  expire under a running request. Correct means: a completed answer is replayed,
  and a stale request never overwrites its successor's entry.
- **Sagas.** Steps that time out keep running; state is saved between steps.
  Correct means: compensated or completed, not both.
- **Authentication.** Requests exchange one refresh token at the same time; sign-ins
  with one identity race to create and link its account; mails and links fail half
  way. Correct means: one usable token per session, one account per identity, a
  link spent only for a verified account, a mail for every registration.
- **Cart.** Requests read a line and write it later. Correct means that what was
  ordered or removed does not come back.
- **Server and backup.** Signals come at any time, work may hang, runs are killed.
  Correct means: the database outlives what uses it, the process ends, and a receipt
  is only beside an archive that was restored.

`PROJECT.json` lists these hazards at their lines ("hazards"), each with the
property that covers it or the reason there is none.

## 2. Modules

| Module | Contents |
|---|---|
| `OutboxDelivery` | abstract specification: what the outbox promises, without relays, leases or retries |
| `OutboxRelay` | relay, event bus, handler log, heartbeat, maintenance commands, crashes and failing calls |
| `OutboxRelayLive` | the same with faults counted, and fairness |
| `OutboxRelayProofs` | the inductive invariant of `OutboxRelay` and the theorems |
| `Checkout` | checkout, quote, cart writes, administrators, PostgreSQL locks and snapshots; with fairness |
| `CheckoutProofs` | the inductive invariant of `Checkout` and the theorems |
| `OrderLifecycle` | statuses and transitions of an order |
| `OrderAggregate` | the Order entity: draft, pricing, placement, status |
| `Orders` | stored orders: requests that read, decide and write under a version, and their events |
| `ReadModel` | abstract specification of any projection table |
| `OrderHistory` | EXTENDS `Orders`: projection of their events, rebuild, dashboard, notifications |
| `Catalogue` | products and reviews, the catalog projection, ratings, rebuild |
| `OrderHistoryProofs` | legal histories, atomic changes, the refinement of `ReadModel`, dashboard, notifications |
| `CatalogueProofs` | the refinement of `ReadModel` by the catalog, ratings |
| `ReadModelsProofs` | the Order entity; the types of orders, read models and entity side by side |
| `IdempotencyKey` | the requests and the Redis value of one Idempotency-Key |
| `CancellationSaga`, `CheckoutSaga` | one saga each: attempts, timeouts, compensation, resumption |
| `Accounts` | registration, verification mails and links, provider sign-ins |
| `Sessions` | refresh tokens of one session |
| `CartLine` | one line of a cart and the requests that change it |
| `ServerLifecycle` | one process from start to exit |
| `PortfolioBackup` | the backup script |
| `SagaProofs`, `UserProofs`, `ServicesProofs` | proofs about the sagas; about accounts, sessions and carts; about keys, server, backup and the types of all of them side by side |
| `MCOutboxRelay`, `MCCheckout`, `MCReadModels`, `MCServices` | instances for TLC |

How they fit together: `OutboxDelivery` promises that every event is handled at
least once by every handler, in any order, and `OutboxRelay` implements it. `OrderHistory`, `Catalogue`
and `Accounts` take the promise as their environment: a delivery is `due`
(`undone`, `registered`) until its handler has been recorded, any idle relay may
take it, two may have it at once, and a worker may stop at any statement.
`Checkout` and `Orders` write the events; the insertion of an order is an action
of `Checkout`, and `PlaceOrder` in `Orders` is its effect. `OrderHistory`
composes the write side of orders with what follows their events, and `Checkout` composes
checkout, cart and product administration.

### OutboxRelay and the code

The table `outbox_events` is `status`, `attempts`, `lockOwner`, `lease`; the table
`outbox_handler_log` is `handlerLog`. `lease` counts ticks to `leaseUntil`: `NoLease` is NULL,
0 is in the past. What `OutboxRelay` (the class) keeps in memory is `pc`, `batch`, `snap`
(the attempts of the claimed row objects), `active` (`activeClaimIds`), `cur`, `try`,
`hpc` and `beat` (`heartbeatInFlight`); a crash erases it. `delivered` is history:
the handlers that ran to completion.

`pollOnce` is `ClaimBatch`, then per row `SkipRow` or `StartRow`, then `EndPoll`.
`EventBus.publish` runs each handler as `CheckHandler`, `HandlerReturns` or
`HandlerThrows`, `RecordResult`, all handlers interleaved, and `SettlePublish` is the
`allSettled` with the immediate retries of `withRetry`. `MarkPublished` and
`MarkFailed` are the guarded updates. Every database call has a failing variant,
which may or may not have committed: `ClaimAnswerLost`, `CheckError`, `RecordError`,
`MarkPublishedError`, `MarkFailedError`, `HeartbeatError`. A heartbeat may outlive its
poll. `Start`, `Stop` and `Crash` are the life of a process; a restarted process has a new
owner id and is another member of `Relays`. `ReplayDeadLetters` and
`CleanupPublished` are the operator's commands.

`lease` runs by the database's clock, and `updateClaimed` compares it with the relay's: with
`ClockSkewed` the update may match a lease that has just expired (`Owned`, a clock behind)
or miss one that has not (`Refused`, a clock ahead).
Between the claim and the first row the code refreshes metrics; it catches a failure there
(`outbox-relay.ts:256`), and a delay is an interleaving.
An undecodable payload fails every immediate attempt in the same way and is one step.

### Checkout and the code

The committed tables are `product`, `live` and `used` (the discount), `cart`, `order`, and
`announced`, the sourceVersions of product events in the outbox. A request is `pc`,
`lines` (the cart it read), `quoted` (the quote behind `expectedTotal`), `tries`,
`answer`. `Requests` are HTTP requests: a client's retry is a request of its own
with the same user and key.

`Quote` is GET /quote. `Lookup`, `ReadCart` come before the transaction; `Begin`,
`LockProduct`, `Reserve`, `CheckCode`, `TakeCoupon`, `InsertOrder`, `ClearCart`, `Commit` are the
transaction; `Reload`, `AnswerAfterConflict` follow it. `Conflict` is
`executeWithRetry`. `SetCartItem` and `EmptyCart` are the writes of `CartService`,
`AdminRead` and `AdminUpdate` those of `AdminProductService`.

Of PostgreSQL the model keeps what the code relies on: a row changed by an open
transaction is locked until its end (`LockedProducts`, `CouponLocked`, `KeyLocked`,
`CartLocked`), writing or locking a row that changed since the snapshot fails
(`stale`), a cycle of waits is broken by aborting a member (`DeadlockVictim`), and a commit
may be refused (`CommitRefused`). Effects are applied to the tables by `Commit`, which is
sound because nobody reads the locked rows in between. `FOR UPDATE` takes
its locks in any order, since the statement has no ORDER BY. Only P2034 becomes a
`ConflictError`; the raw statement may report a conflict otherwise, and then the
request fails (`RawConflict`). `Lose` is the failure of anything else at any point.

Tax, shipping and percentage discounts are functions of the subtotal and left out; the
discount takes off a fixed amount, at most the subtotal. An `AdminUpdate` changes
price, stock or the active switch, which are what the checkout reads.

### Orders, read models and the code

`Orders` keeps the versions an order has gone through in `log`; `hand` is a request of
staff between `findById` and the update. `Decide` is `OrdersService.updateOrderStatus`
up to the repository, `WriteStatus` is `updateStatusWithEvents`, whose condition on the
version either inserts the events too or throws. `OrderAggregate` has the methods of the entity; one
that throws changes nothing and is no step. The one caller that fills a draft, the checkout, prices and places it
at once: `PlacedOrderIsPayable` is a rule of the entity for every order of calls, not one that concurrency threatens.

In `OrderHistory` and `Catalogue` every database statement is an action. `UpdateRow`,
`CreateRow`, `RetryRow`, `CheckRow` are `writeOrderHistoryProjection` in
`projection-writer.ts` (`UpdateProductRow` and so on for the catalog), `PatchRow` and `RowExists` are
`updateOrderStatus` in `prisma-projection.store.ts`, `Query` and `StoreDashboard` are
`refreshDashboard`, `LockRow`, `Aggregate`, `StoreRating` are
`refreshProductRatingProjection`, `Notify` is `create` with an idempotency key. `Rebuild` and
`RebuildProduct` are what the two scripts do with each row they read. The content of an
order is its status, that of a product its slug, which is unique in both tables and
therefore the one field that makes one row's projection depend on another's; a rating is
the set of the reviews it averages. The script rebuilds products in batches: when one row's
write throws, the refreshes of its whole batch are skipped. Here each product is
rebuilt by itself, and such a neighbour's refresh that never comes is `Die` at `lock`, which marks the row `suspect`.
Events of products and of registrations refresh the dashboard, too; those refreshes are left out, so
that `DashboardSettles` rests on the deliveries of orders alone.

`ReadModel` says what both promise: a row shows a committed version of its source,
whole, and moves only to a later one. `HistoryImplementsReadModel` and
`CatalogImplementsReadModel` are its specification under INSTANCE with `log` and `row`, `plog` and
`catalog` put for `committed` and `shown`.

### The smaller components and the code

- `IdempotencyKey`: `Look`, the claim by SET NX and a second look, then the handler;
  `settling` is the script that completes or deletes the entry after it, `late` a SET NX whose request no longer
  waits. Redis calls are given a second; a call that is given up may still be applied.
  Expiry of the entry at any time is a step of its own (`forgotten`).
- `CancellationSaga`, `CheckoutSaga`: `executeSagaStep` with its attempts and its timeout: a
  call that has been given up is `flying` (`vague`, when its answer is lost) and may
  take effect later. `sagaStep`, `sagaRow` are the stored state. The ports have no
  implementation in the repository; they are external and assumed to treat a
  repeated call of one saga as one call, as their idempotency keys ask them to.
  Executing a saga again that is over is left to callers that do not exist yet.
- `Accounts`: `FindUser`, `StoreLink`, `QueueMail` are the handler of UserRegistered and the
  resend, `SendMail` and `SendFails` an email job; `FindVisitor`, `VerifyUser`, `DeleteLink` a visit of a link;
  `FindLinked` to `FindRaced` the sign-in with a provider, with what it does after a unique
  index has refused its insert.
- `Sessions`: `FindToken`, `FindLatest`, `Rotate` are `refreshToken`; `ScanFamily` and
  `RevokeFamily` one UPDATE, which changes the rows its snapshot has found.
- `CartLine`: `ReadStock`, `FindCartItem`, `IncreaseQuantity`, `CreateCartItem` are `addItem`, `ReadCart` and `SetQuantity`
  `updateItem`, `RemoveItem` `removeItem`, `ClearCart` `clearCart` and the clearing by a checkout. A quantity is the set
  of requests it adds up, so that lost and returning pieces can be told apart.
- `ServerLifecycle`: `Connect`, `Ping`, `Serve` are `startServer`; `Signal` to `Leave` are
  `shutdown`, a statement each; `ForceExit` is its timer. Work is counted, not named.
- `PortfolioBackup`: one action per command of the script; `RunKilled` skips the
  `finally` block. One run at a time, as `scripts/backup/portfolio-backup.ps1:58`
  registers it (IgnoreNew).

## 3. Runs

| Run | Instance | Shows |
|---|---|---|
| `outbox_safety` | 2 relays, 1 row, 2 handlers, 2 attempts, lease of 1 tick, clocks that are behind or ahead; every fault without limit | `TypeOK`, `PublishedIsDelivered`, `NoRowStranded`, `OnlyOwnerSettles`, and the refinement `DeliverySpec` |
| `outbox_live` | 2 relays, 1 row, 1 handler, immediate retry, lease of 2 ticks, 1 fault | `EventuallySettled`, `DeadRelayLosesClaims` |
| `outbox_batch` | 1 relay, 2 rows in one batch, one undecodable, 2 faults | `EventuallySettled` although a neighbour is poisonous and polls abort |
| `outbox_success_forgotten` | as `outbox_safety` | counterexample: a late FAILED replaces a SUCCESS |
| `outbox_attempts` | as `outbox_safety` | counterexample: a failing update of publishedAt counts as a failed delivery |
| `checkout_safety` | a request, its duplicate, another customer; 1 product, 2 units, discount with 1 use, 1 administrator | `TypeOK`, `OneOrderPerKey`, `StockConserved`, `DiscountWithinLimit`, `EveryVersionAnnounced`, `ChargedAsAgreed` |
| `checkout_live` | a request and its duplicate, 2 products, 1 retry | `EventuallyDecided` through deadlocks and conflicts; `OneOrderPerKey`, `EveryVersionAnnounced` through retries |
| `checkout_admin_stale` | 1 request, 1 administrator | counterexample: an administrator's update applies to a version it has not read |
| `read_models` | scenarios below | `HistoryIsLegal`, `PlacedOrderIsPayable`, `DashboardSettles`, `RatingSettles`, `ReadStaysRead`, the refinements `HistoryImplementsReadModel`, `CatalogImplementsReadModel`, and the liveness `HistoryCatchesUp`, `CatalogCatchesUp` |
| `order_status_lost` | 2 relays, 1 order | counterexample: a status change is acknowledged and never shown |
| `rating_lost` | 1 relay, 1 product, 1 review | counterexample: a rating is acknowledged and never shown |
| `services` | scenarios below | `RunsOnce`, `AnswerLasts`; `StoredStepsHappened`, `CompensatedHoldsNothing`; `SameIdentitySameAccount`, `SpentLinkHasVerified`, `RegistrationReachesMailbox`; `OneUsablePerFamily`; `GoneStaysGone`; `DatabaseOutlivesWork`, `ExitsAfterSignal`; `ReceiptIsOfLastRun` |

Why the bounds are enough. A lost claim needs two relays and one row; what two
handlers add is that one of them is done while the other still runs. Two attempts
are the least with a backoff before the dead letter. More rows only meet in a
batch, which `outbox_batch` has; there are no cross-row guards but `Oldest`.
Relays and handlers are interchangeable and nothing orders them, so symmetry is used for safety.
Two duplicates are the least that race; the third request competes for stock and for the
discount from another cart. Deadlock needs two products, which `checkout_live` has;
retries are there too (one instead of five), and the safety run, without retries,
has the third request, price changes and quotes instead. Versions stop at
`MaxVersion` for administrators only. Deadlock checking is off where the system may stop:
all requests decided, or all rows settled.

`MCReadModels` and `MCServices` hold components that share no state. They are checked side by
side, not interleaved: `focus` picks one at the start and the others stand still, so a run is the sum and not the
product of their state spaces. Each of these has its own types conjoined in
`ReadModelsTypeOK`, `ServicesTypeOK`.

`MCReadModels` gives the crews and casts that work together. Orders: two staff requests on
one order; one relay with up to two interruptions; two relays; a relay beside a rebuild
with an interruption. Two changes of one order (`MaxVersion`) are the least that can be
reordered with a placement. The dashboard has one of its four counters, since the
counters do not meet. Products: slugs exchanged through a third one; a slug
taken over from another product; a relay beside a rebuild; two relays that refresh one rating, twice.
A draft has two products, two prices and quantities up to 2.

`MCServices`: three requests with one key, one of them with another body; two
executions of one cancellation saga, two attempts per call; sign-ins of one
subject with two emails, three at once, and one with an email not verified; a link visited
twice beside a second link; a mail with as many failures as its job survives and one more; three refresh
requests and three tokens; three cart requests and three lines; two HTTP requests and a
job; two archives, one of them damaged. In each case the third actor is the one that finds
what the race of two has left.

### Fairness

`OutboxRelayLive`: the interval timer keeps polling and JavaScript continues a
resolved await, so `RelayStep` is weakly fair; time passes (`LeaseTick`); the
supervisor starts a process. Nothing is assumed of the heartbeat, of
operators or of successful handlers; handlers are assumed to return or throw, for there is no
timeout on them. A live relay may lose the lease it renews only as a fault, as
renewals are sent three times per lease. An operator who replays dead letters for ever
would starve younger rows, since claims are served oldest first: replay is a fault, too.
Faults are limited, because a database that always fails settles nothing.

`Checkout`: a request keeps running (`WF` of its steps), which for a request waiting for a lock means that
PostgreSQL grants a free lock and detects deadlocks. Customers, administrators and failures
owe nothing.

`OrderHistory`, `Catalogue`: a worker that has begun goes on (`WF`), and deliveries of one handler
about one aggregate that are due again and again are taken at some time (`SF`), because the
relay polls for ever and claims the oldest rows first; `EventuallySettled` is what that rests on. That a delivery
becomes a dead letter after ten attempts is left out here: a scenario interrupts its relay
twice at most, and served oldest first, a delivery waits for few others. Catching up is
claimed with one relay and no rebuild: with two, a change can be lost (findings 4 and 5).
`CatalogCatchesUp` excludes one more case, `SlugDeadlock`: products that have exchanged slugs between two
projections wait for one another's rows for ever, since the projection has a
unique index of its own. `RatingSettles` leaves out the rows marked `suspect`, whose refresh came before the row or
whose rebuild died, and `RatingIsNotLost` shows what happens to them.

`Accounts`: the handler of a registration and the mail job go on. `ServerLifecycle`:
only the forced-exit timer, for any work may hang. Nothing is assumed of users, requests, or
operators.

### Findings

1. `recordResult` upserts unconditionally: a relay that lost its lease can replace
   SUCCESS by FAILED, and the handler runs again (docs/OPERATIONS.md:984 says that
   successful handlers are skipped). Delivery stays at-least-once: `DeliverySpec` holds.
2. A failing update of publishedAt is counted as a failed delivery
   (docs/OPERATIONS.md:985 counts failed immediate attempts only).
3. Updates of a product by administrators do not compare versions (README.md:130 says that
   product updates are guarded by persisted versions). `StockConserved` is about orders and takes
   the stock an administrator sets as it is; that it may overwrite a decrement he
   has not seen is what this run shows.
4. `updateOrderStatus` looks for a row it can update and then for any row: when another
   relay creates the row in between, the status change is neither written nor retried
   (docs/OPERATIONS.md:1020 says that the relay cannot silently lose it).
5. A rating refresh delivered before the catalog row of its product updates nothing and
   succeeds; the row is then created without rating (docs/OPERATIONS.md:957 says that
   consumers are order-tolerant).

Each violation run checks only the property its finding names.

The model also contains behaviour no document speaks about: an item added to the cart
between the checkout's read and its transaction is deleted without being
ordered, two keys can order the same cart, and a duplicate may be told that the cart is empty. These are
listed as hazards without a property.

## 4. Proofs

`OutboxRelayProofs` proves, for any number of relays, rows and handlers and any limits that
satisfy `ConstantsAssumption`:

- `TypeCorrect`, `PublishedDelivered`, `NothingStranded`: the invariants of `outbox_safety`;
- `OwnerSettles`: the action property `OnlyOwnerSettles`;
- `ImplementsDelivery`: every behaviour of `OutboxRelay` is one of `OutboxDelivery`.

The safety properties are not inductive: that a published row was delivered depends on
what the relay believed when it published, and that on the handler log. `IInv`
adds two groups of facts. *Beliefs* link beliefs to history: a SUCCESS entry
belongs to a handler that ran (`LogIsTruthful`), a handler in state ok or done ran for the
row in hand (`HandlersRan`), a relay about to set publishedAt has seen all of them run
(`SuccessRan`), and what is published can be decoded (`DecodableInHand`). *Claims* link
a relay's memory to the table: rows in a batch or in hand exist (`ClaimedExist`), a locked row is pending
(`LockedIsPending`), and, the heart of `NoRowStranded`, while a relay owns a row, the attempts it read at
claim time are the current ones (`SnapshotCurrent`); an idle relay holds nothing
(`IdleIsEmpty`). Replay and a second claim break a relay's snapshot but also its
ownership, which is why a stale snapshot never reaches the row. `StepInv` has one
step per action; `ImplementsDelivery` maps claims, heartbeats, handler checks and
crashes to stutters and the settling updates to `Publish` and `Fail`.

`CheckoutProofs` proves, for any sets of requests, customers, products and
administrators, any carts, prices, stocks and limits, any number of retries, and with the
faults of the model without limit:

- `TypeCorrect`, `OneOrder`, `DiscountLimit`, `VersionsAnnounced`: invariants of `checkout_safety`;
- `StockAccounted`: the invariant `StockConserved`, the sum over all orders included;
- `Charged`: the action property `ChargedAsAgreed`. `Total` is never expanded, so it holds for
  every way of computing a total, tax and shipping included.

Here, too, the properties are not inductive: what a commit writes was read several steps
before. `IInv` says why it is still right. A product has one holder, and a transaction that has
reserved holds all it needs (`Locking`), so the price, version and stock behind its
bill are current (`Reading`): an administrator cannot write a locked row, and another commit writes
only rows it holds. An inserted key is alone and has no order yet (`Keys`); whoever has
counted a use of the discount is alone and there is room for it (`Uses`); the total
compared at the insertion stays the total (`Agreed`); and a placed order's request is past its
transaction (`Standing`). Rollbacks, steps outside the transaction and steps inside it
have a lemma each (`RollbackInv`, `OutsideInv`, `AdvanceInv`); `CommitInv` is where every part is used.

`StockConserved` is a sum over the requests. `Conserved` says it as an invariant: what was sold
of a product is what was supplied less the stock. Only commits and administrators
touch orders and stock; a commit adds its bill to the sum of one request that had none and takes
the same from a row that it holds and has read (`CommitSells`), and an administrator moves stock and
supply by the same difference (`UpdateSupplies`). Behind this are lemmas about sums of the
library's fold: a recursive function gives the sum over every subset of a finite set
(`SumsExist`, `SumsOfIsRecursive`), the fold is that function (`SumUnfolds`), and a sum changes by as much as
one of its summands does (`SumChangesAt`). The induction theorems of the library take an operator,
so the proofs argue by a least counterexample in the natural numbers (`Induction`).

The other proof modules do the same for every set of orders, products, workers,
requests, archives and so on, and for every bound:

| Theorem | Property | Because (the inductive invariant) |
|---|---|---|
| `OrderHistoryProofs!OrdersHistoryIsLegal` | `HistoryIsLegal` | `HandsAreSound`: what a request has decided is legal after the version it has read, so the comparison of versions makes it legal where it is written |
| `OrderHistoryProofs!ChangesAreAtomic` | of `Orders` alone: what requests read, decide and write in three steps changes an order and its events as the one step `ChangeAtOnce` does, which `OrderHistory` composes with | `HandsAreSound` again: `WriteIsLegal` |
| `OrderHistoryProofs!HistoryRefinesReadModel` | `HistoryImplementsReadModel` | `TasksAreTrue`, `RowsAreTrue`: every event, every task in hand and every row names a version of its order together with the status the order had there; the conditions of the three statements give monotonicity |
| `OrderHistoryProofs!ReadNotificationsStayRead` | `ReadStaysRead` | types alone: a redelivery finds the notification's key |
| `OrderHistoryProofs!DashboardIsSettled` | `DashboardSettles` | `RefreshIsDue`: a dashboard behind the rows has a projection to come that is not about to be recorded; `Counting`: what the one relay has counted is what the rows say, since nobody else writes them |
| `CatalogueProofs!CatalogueRefinesReadModel` | `CatalogImplementsReadModel` | `CopiesAreGenuine`: the same for what a worker has read of a product |
| `CatalogueProofs!RatingsSettle` | `RatingSettles` | `RowsAreLocked`, `StaleIsFollowed`: who has counted reviews holds the row, and reviews written since have a delivery that no worker has started, or is still waiting for the lock; `RatingsAreNumbered`: deliveries of two opinions are two |
| `ReadModelsProofs!PlacedOrdersArePayable` | `PlacedOrderIsPayable` | the types: placing checks the discount against the gross amount, which depends on the items alone (`GrossFollowsItems`), and no step changes the items of a placed order |
| `ServicesProofs!KeyRunsOnce`, `KeyAnswerLasts` | `RunsOnce`, `AnswerLasts` | `OwnersHoldKey`: who runs or has succeeded is whose entry is stored, until it expires; `ScriptsFit`: only a failed request has sent a script that deletes |
| `ServicesProofs!DatabaseIsLast` | `DatabaseOutlivesWork` | `StagesHold`: what each stage of the shutdown has ended for good |
| `ServicesProofs!ReceiptsAreGenuine` | `ReceiptIsOfLastRun` | `RunHasArchive`: the archive being restored is there and has no receipt |
| `SagaProofs!CancellationStepsHappened` | `StoredStepsHappened` | `RunsKnow`: a run that has a step in its state has seen the calls before it answered |
| `SagaProofs!CompensationIsComplete` | `CompensatedHoldsNothing` | `HeldIsKnown`, `RunInProgress`: what is held is in the state, in the row, still to be undone, or was never answered |
| `UserProofs!SessionsOneUsable` | `OneUsablePerFamily` | `ActiveExist`: an active token has been created, so a new one is not active yet |
| `UserProofs!OneAccountPerIdentity` | `SameIdentitySameAccount` | `CallbackSound`: a sign-in that is done has the account its identity is linked to, links are never changed, and what was read as verified stays verified |
| `UserProofs!SpentLinksVerified` | `SpentLinkHasVerified` | `VisitsVerify`: a visit about to delete its link has seen the account verified |
| `UserProofs!GonePiecesStayGone` | `GoneStaysGone` | `CopiesAreSafe`: a copy of the line that is there holds no deleted pieces, and a line never has an identifier used before |

The theorems `OrdersTypes`, `HistoryTypesHold`, `CatalogueTypes`, `DraftTypesHold`, `KeyTypes`, `CancellationTypes`,
`CheckoutSagaTypes`, `SessionsTypes`, `AccountsTypes`, `ServerTypes` and `BackupTypes` are the type invariants they
start from. `ReadModelsTypesHold` and `ServicesTypesHold` put them together for the
modules that the runs compose (`ReadModelsTypeOK`, `ServicesTypeOK`): each component
moves or stands still, and keeps its invariant in either case. Two of them need more than
types: a count on the dashboard never exceeds the number of orders, since it counts rows of
orders that are finitely many, and a mail that is not out yet has attempts left (`MailInv`).

All proofs rest only on the assumptions that the modules name, which TLC evaluates in the runs:

- special values are none of the ordinary ones (`NobodyIsNoOrder`, `NothingIsNoDecision`,
  `HistoryAssumption`, `NoneAssumption`, `UnsetIsNoCell`, parts of `CheckoutSagaAssumption`, `AccountsAssumption`, `CartAssumption`);
- bounds are numbers, and what is tried is tried once at least (`SomeAttempt`, `MaxTokenIsNat`, `ServerAssumption`,
  `AggregateAssumption`, and parts of the others);
- scenarios name actors that exist; orders, requests and processes are finitely many, which sums and
  counts need; a relay is not a rebuild, which is a program of its own (`ConstantsAssumption`, `HistoryAssumption`).

Every safety invariant and action property of the passing runs is a theorem. Only model-checked are
the liveness properties (`EventuallySettled`, `DeadRelayLosesClaims`, `EventuallyDecided`,
`HistoryCatchesUp`, `CatalogCatchesUp`, `RegistrationReachesMailbox`, `ExitsAfterSignal`): fairness and
ENABLED are out of the prover's reach.

## 5. Not modelled

- Two-factor login, passwords, access tokens and their blacklist: they decide about one request, from one
  row or one Redis key.
- Mails about orders and what the image job uploads: fire-and-forget, without state of their own.
- Wishlist and user profiles: writes of one row. Users are never deleted.
- The gross total and the product counts of the dashboard: the same queries as the counters that are modelled.
- Rate limiting, CSRF, authorisation, logging, tracing and metrics decide per request
  and share no state with the flows above. The dependency container, route registration
  and API documentation are wiring and text. Reads change nothing.
- Storage, mail, Docker and cryptography are external services.
- `scripts/acceptance` drives deployments from outside and exercises the components above.

These are most of the repository's lines, with validation, mapping between rows and
entities, Swagger texts and routes: the modules cover the code that holds state shared by several actors.

Two hazards have no property. A handler that never returns keeps its relay busy and its
lease renewed (`event-bus.ts:70`): no property could hold, since there is no timeout, and the
fairness of `OutboxRelayLive` assumes that handlers end. The cart is read outside the
transaction that clears it (`checkout.service.ts:99`): an item added in between is deleted
unordered, and two keys can order one cart; `Checkout` has these behaviours and no
document says they are wrong.

What is left to do: a relay composed with the projections instead of through
`OutboxDelivery`; executing sagas once they are wired; the pricing functions against a reference
definition.
