# TicketBottle in TLA+

TicketBottle sells tickets for events: a NestJS service over Postgres (the
records), Redis (the stock on sale and the orders under way) and BullMQ (the
background jobs). This directory holds TLA+ models of the parts of it in which
requests, workers, gateways and failures meet, the instances TLC checks, and
theorems about the models that TLAPS checks. Paths below are relative to `src/`,
and line numbers to its files.

## 1. The system

### Components, their state, their operations

| component | state | operations | made correct by |
|---|---|---|---|
| `OrderService` (`src/modules/order`) | `order:<code>` hashes and the counters `available`, `hold` of `ticketClass:<id>` in Redis; `Order`, `Transaction`, `Ticket`, `OrderDetail` rows, `TicketClass.soldQuantity` in Postgres | `checkout`, `cancelOrder`, `processTransaction`, `completeOrder`, queries | no class oversold; every reservation paid or released; charged xor voided; tickets issued once and only when charged |
| workers (`src/modules/order/workers`) | three BullMQ queues | delayed release (one at a time), processing of transactions (five at a time, three attempts), confirmation e-mail | a job that stalls, is retried or repeated does nothing twice |
| `PaymentService`, `PaymentController`, gateways (`src/modules/payment`) | none of their own; they read the order hash | `createPaymentLink`, `handleCallback`, `addTransactionToQueue` | a genuine payment gets its order processed; a repeated notification is harmless |
| `EventConfigService` (`src/modules/event`) | `event:<id>`, `event:<id>/status`, `ticketClass:<id>` in Redis, `Event.configStatus` | `requestConfigure`, `checkIsReadyForSale`, `getSaleData` | an event goes on sale completely and once |
| `EventService`, `EventInfoService` | `Event`, `EventInfo` rows; the cache `eventStatistics:<id>` | CRUD, listings, `getStatistics`, `invalidateEventStatisticsCache` | statistics are no older than the cache admits; an answer of several queries holds together |
| `TicketClassService` | `TicketClass` rows | CRUD, listing by event | what is stocked is what was listed |
| `TicketService` | `Ticket` rows | `validateCheckIn` | a ticket admits once; as it stands, a check-in ends the process |
| `AuthService`, `UserService`, `TokenService`, `StaffService` | `User`, `Staff` rows; refresh tokens in the cache; mailed tokens | register, verify, reset, Google login, sessions | one account per address, mailed tokens used up, no update lost, no session outlives its account into the next one |
| `EventRecommendService` | none | recommendations | published events, each once, not the one that was asked about |
| seed and start (`prisma/seed.ts`, `entrypoint.sh`, `DatabaseService`) | the rows of the seed, beside those of administrators | `main` of the seed, the start and restart of the container | complete before the application starts, edits never undone, the container starts again |
| e-mail queue (`EmailQueue`, `SendSuccessOrderEmailWorker`, `EmailService`) | jobs in Redis, without attempts | queue, send | every buyer confirmed once |
| image, organizer, category, order-detail, transaction services | rows, files | single calls | - |
| application shell (`main.ts`, filters, pipes, interceptors) | none | validation, answers; exits on an unhandled rejection | - |

### How they interact

A checkout reads the sale data through `EventConfigService.getSaleData` (Postgres
for the list of classes, Redis for the counters), writes a PENDING hash, moves
tickets from `available` to `hold` in one MULTI, queues the delayed release job
and asks the gateway for a link. The gateway calls `PaymentController` back;
`PaymentService` queues a transaction job; the worker creates the `Transaction`
row, sets the hash to COMPLETED, commits tickets and order in one database
transaction, queues the confirmation, deletes the hash and invalidates the
statistics. A cancellation, by HTTP or by the release job, returns the tickets,
deletes the hash and writes the order as CANCELLED. No step locks anything: what
keeps the handlers apart is the status field of the hash, which they read before
they write, and two unique columns of Postgres, `Transaction.refCode` and
`Order.code` (`prisma/schema/order.prisma`).

### What is hard

* every handler is a sequence of awaits: what it read is stale when it acts;
* cancellation and payment of one order run at the same time, in two workers and
  in any number of requests;
* gateways repeat notifications; BullMQ retries jobs that throw and redelivers
  jobs that stall;
* the process may die between any two steps; a single call may throw;
* Redis, Postgres and the queues are written one after the other;
* the database is seeded again at every start of the container, over rows that
  have been edited since;
* listings and recommendations are put together from queries between which the
  catalogue changes.

`PROJECT.json` lists these as hazards at the lines where they bite.

## 2. Modules

| module | what it is | EXTENDS / INSTANCE |
|---|---|---|
| `OrderLedger` | abstract specification: what is promised about the money and the tickets of an order | |
| `OrderLifecycle` | the handlers of an order, its queues and its failures, with the refinement mapping to the ledger | `OrderLedger` |
| `StockLedger` | abstract specification: what is promised about the stock of an event when one request is served after the other | |
| `OrderStock` | laws of the stock over all orders, `SerialSpec`, the handlers one at a time, and the refinement mapping to the stock ledger | `OrderLifecycle`, `StockLedger` |
| `MCOrder` | instances for TLC: numbered carts, totals, symmetry | `OrderStock` |
| `OrderClaims` | what guards, comments and documentation claim and interleavings refute | `MCOrder` |
| `OrderLifecycleProofs` | theorems about `OrderLifecycle` | `OrderLifecycle`, `TLAPS` |
| `OrderStockProofs` | theorems about `OrderStock` | `OrderStock`, `OrderLifecycleProofs` |
| `EventSale` | an event is put on sale while it is edited and bought | |
| `EventSaleProofs` | theorems about `EventSale` | `EventSale`, `TLAPS` |
| `EventStatistics` | the statistics cache | |
| `AfterSale` | what a committed order still owes: confirmation, clean-up, invalidation; the e-mail queue; the end of the process | `EventStatistics` |
| `AfterSaleProofs` | theorems about `AfterSale` | `AfterSale`, `TLAPS` |
| `Accounts` | the account of one address, its mailed tokens and its sessions | |
| `MCAccounts` | symmetry of its requests | `Accounts` |
| `AccountsProofs` | theorems about `Accounts` | `Accounts`, `TLAPS` |
| `Startup` | the container is seeded, edited, killed and started again | |
| `StartupProofs` | theorems about `Startup` | `Startup`, `TLAPS` |
| `Listings` | what visitors are shown of the catalogue meanwhile | `Startup` |
| `MCListings` | categories and filters to choose from | `Listings` |
| `ListingsProofs` | theorems about `Listings` | `Listings`, `StartupProofs` |

### OrderLifecycle and the code

An action is the code between two awaits together with the single command it
issues. A handler is a variable that says where it stands (`checkout[o]`,
`cancel[k]`, `job[j]`); the actions of a handler are, in order:

| handler | actions | code |
|---|---|---|
| `checkout` | `GetSaleData`, `StoreOrder`, `ReserveTickets`, `ScheduleRelease`, `CreatePaymentLink` | `order.service.ts` 93-195, 217-254 |
| `cancelOrder` | `TakeReleaseJob` or `RequestCancel`, then `CheckPending`, `ReleaseTickets`, `DeleteOrder`, `PersistCancelled` | `ticket-release.worker.ts`, `order.service.ts` 256-326 |
| `processTransaction`, `completeOrder` | `HandleCallback` or `TestCreatePaymentLink`, then `ProcessTransaction`, `ChargeTransaction`, `VerifyPending`, `MarkCompleted`, `CommitOrder`, `NotifyCustomer`, `CleanUp` | `payment.service.ts` 22-48, `order.service.ts` 328-464 |
| failures | `CheckoutFails`, `CancelFails`, `JobFails`, `Crash` | any awaited call; `process.exit` in `main.ts` |

What is abstracted, and why it does not matter to the properties:

* A cart is two numbers for each class: the tickets over all its lines
  (`CartQty`, what the HINCRBYs add up to) and its largest line (`CartMaxLine`,
  what the line-by-line check of :232 sees).
* `orderKey[o]` is the status field of the hash; the other fields never change.
  The value `ghost` is the key that HSET creates after a cancellation has deleted
  the hash: it has a status and nothing else.
* The sale data is one snapshot. `EventSale` reads it step by step.
* The field `releaseJobId` is written and never read; its HSET is part of
  `ScheduleRelease`. The release job is eleven minutes away, so it does not run
  before that HSET.
* A call that took effect and whose answer was lost is the completed step
  followed by the failure of the next one.
* The database transaction of `completeOrder` is atomic in Postgres; that it may
  be aborted (a serial number drawn twice, a lock cycle between two carts with
  the same classes in another order) is `JobFails` at `commit`.
* Five transaction jobs may be active. The instances have no more than two.
* BullMQ redelivers a stalled job once and gives it up the second time
  (`maxStalledCount`). `Crash` does not keep who has stalled before: the first crash
  redelivers every job, and from the second on each may be redelivered or given up,
  which covers what BullMQ does for any number of crashes. A release job that is
  redelivered after its DEL would read a hash that is not PENDING and return, so it
  is over at once.
* A cancellation that is over is `done` when it has run its DEL and `failed` when it
  was refused or cut off before.

### EventSale, EventStatistics and AfterSale

`EventSale` cuts `requestConfigure` (`event-config.service.ts` 40-89) into seven
steps and `getSaleData` (101-127) into four, followed by the reservation and the
release of one ticket. Beside them `CreateInfo`, `WriteTicketClass`, `PatchStatus`
and the deletions `DeleteInfo`, `RemoveTicketClass` and `RemoveEvent` change the
rows at any time, and `ConfigureFails` and `StockPartly` end a request between its
steps or among the HSETs of one `Promise.all`. No deletion looks at Redis: the hash
of a class in `removed` and the status of a REMOVED event stay, and what keeps them
out of a sale is that `isEventExist` and `findTicketClassesByEventId` ask Postgres. A
configuration whose event goes away under it throws at its last step (`Publish`).

`EventStatistics` has `getStatistics` as reads of the classes and of their tickets
and a write to the cache, and of `completeOrder` the commit and the invalidation.
Prices, revenues and sums over the classes are functions of the two numbers that
are kept for each class. `overtaken` is an auxiliary variable: it records that an
invalidation was lost or fell between the reads of a request and its write, the
two ways the cache is known to go stale.

`AfterSale` continues `completeOrder` behind the commit: `GeneratePdfTickets`,
`SendOrderSuccessEmail`, `DeleteOrder`, `Invalidate` (`order.service.ts` 443-460),
each of which may throw (`CompletionFails`), which ends the job for good, because
the status it has written itself refuses the next attempt. The hash is not part of
its state. `cancelOrder` deletes it too (:263), possibly while the order is being
completed, and `OrderLifecycle` has both deletions; what `AfterSale` says does not
depend on it, because no step behind the commit reads it and a job that comes back
is refused whether the hash says COMPLETED or is gone. `TakeMail`, `SendMail`
and `SendFails` are the worker of the e-mail queue; a call to the mail server that
fails may have delivered. `DeleteInfo` removes the info that
`sendOrderSuccessEmail` formats. `Crash` ends everything at once: a mail under way
is taken again once (BullMQ's stalled jobs), a completion under way is lost.
`ValidateCheckIn` is such an end: `TicketService` hands `'event'` to the base
service (`ticket.service.ts`:17), so the search for a serial number is rejected,
`TicketController` does not wait for it, and `main.ts`:30 exits. The state of
`EventStatistics` is shared: `Commit` and `Invalidate` are its `CommitOrder` and
`InvalidateEventStatisticsCache` with the steps of the order around them.

### Startup and Listings

`Startup` runs `main()` of the seed row by row: `IsNext` is the order of a loop,
`TableAfter` the order of the loops. `OrganizerOf`, `EventOf`, `YearOf`,
`SeedCategories` are the columns of the generated rows that a constraint or a query
looks at; the rest of their text is left out. An upsert finds a row by its key and
changes nothing in it; it throws when a parent is missing (`Orphans`) or, for a
class, when another class of the event has its name (`Clashes`); either exits with
1, and `set -e` ends the container. Deleting an event takes its info and classes
along (`onDelete: Cascade`). `BaseService.remove` does not await its query, but the
query is a thenable that `Object.assign` copies into the answer, so it runs when
the controller's promise resolves: a removal is a removal.

`Listings` adds visitors. A request goes from query to query (`at`), `got` collects
what each answered; `Some`, `Firsts` and `Slices` are what Postgres may return for
LIMIT without an order, with an order, and with an offset. `Routes` is the order of
declaration in `EventController`: `upcoming` and `most-sold` come after `:id` and
are answered as events of that id, which do not exist, so `findUpComingEvents` and
`findMostSoldEvents` are never called and not modelled. `touched` is auxiliary: the
events edited while a request runs, of which no list read in several queries can
say anything.

### Accounts

`Accounts` is about one e-mail address, because every operation reads and writes the
rows of one: `register`, `validateGoogleLogin`, `sendVerificationEmail`,
`forgotPassword`, `resetPassword`, `verifyAccount` (`auth.service.ts` 57-116,
203-284), each cut at its awaits, and the single calls of `UserController`. A token
is what it is signed with: the password column to reset, the password column and
`isVerified` to verify (`token.service.ts`); what is stored of it is nothing.
`login`, `getUserIfRefreshTokenMatched` and the guard of `getMe` (74-98, 130-149,
194-201) are the sessions: a refresh token is named by the id that it carries, since
bcrypt sees only its first 72 bytes, which tell accounts apart and not logins. A hash
is named after the request that made it, since hashes are salted; passwords that
`UserController` stores are in clear and may recur. A token may expire at any time
(`CheckToken` may refuse every token).

## 3. What TLC checks

Runs that pass:

| run | instance | question | properties |
|---|---|---|---|
| `order_races` | one order of two lines, two transaction jobs, a customer's cancellation, the release job, the test endpoint, VNPAY or ZaloPay, two crashes, a failing call | do the rows of an order stay consistent, do the handlers implement the ledger and sell once, and when can an order disappear from Redis or from both stores, in every order of their steps? | `TypeOK`, `SingleWinner`, `OutcomeAgreement`, `SettledNotPending`, `LifecycleInvariant`, `KnownUntilConfirmed`, `LostOnlyWhenCharged`, `SoldMatchesOrders`, `ImplementsLedger` |
| `order_serial` | three orders for two tickets, one handler at a time | is the code correct for the executions it was written for? | `NeverOversold`, `StockAccounted`, `ImplementsStock` |
| `order_progress` | two orders and two classes, one release worker, a notification of each order with three attempts, a crash | does every reservation end and every job settle, and do the counters move together? | `CountersBalance`, `ReservationsResolve`, `JobsSettle` |
| `event_sale` | two configure requests, two classes, a buyer, PATCH to DRAFT and CANCELLED, every deletion, a request that dies | does an event go on sale completely, do readers see it so, and does what is removed leave the sale? | `TypeOK`, `SaleOpensComplete`, `BuyersFindTheSale`, `PublishedIsOnSale`, `OneConfigurationSurvives`, `RemovedGoesOffSale` |
| `event_statistics` | `AfterSale`: two orders of a class, a dashboard, a midnight, a failing call, a deleted info, a crash | what do invalidation and expiry guarantee a dashboard, and completion and the e-mail queue a customer? | `AfterSaleTypeOK`, `SalesInvalidate`, `NeverAhead`, `MailedOnce`, `StatisticsSettle`, `ConfirmationsArrive` |
| `accounts` | any five requests about one address, one of which may die | is there one account at a time, does a late write undo an earlier one, do used tokens stay used, do sessions end with their account? | `TypeOK`, `OwnMailVerifies`, `SessionsStayApart`, `VerificationSticks`, `UsedTokensRefused` |
| `catalogue` | `Listings`: three mock events, one without an info, a class, two edits, a restart, a visitor | what does a start restore, what does it never undo, can it fail for ever, and which answers of several queries hold together? | `TypeOK`, `OnlyNamesBlockSeeding`, `SeededBeforeBoot`, `CategoriesComplete`, `RecommendedOnce`, `PagesCover`, `EditsSurvive`, `StartsAgain` |

Runs that find a claim of the repository violated (one property each, the claim is
quoted in `PROJECT.json`):

| run | claim | what happens |
|---|---|---|
| `oversell_race` | "Insufficient tickets for class" is answered when there are too few (:232-234) | two requests read the same availability and both reserve the last ticket |
| `late_payment` | tickets of an order "already completed" are not released (:303-304) | the release passes its check, the payment completes the order, the release returns the sold tickets to the stock |
| `failed_fulfilment` | three attempts complete a paid order "reliably" (`payment.module.ts`:34, `README.md`:25) | an order is charged while PENDING and with no cancellation past its check; one call fails after the charge, the next attempts are refused by the charge itself, and the release job cancels the order. Without a failing call the claim does not hold either: a cancellation that passes its check after the charge and before the HSET takes the hash away |
| `vnpay_payment` | a notification of the right amount is accepted (`vnpay.gateway.ts`:82) | it is compared with the field `amount`, which the hash does not have |
| `reconfigured` | "Event has been published" refuses a second configuration (`event-config.service.ts`:51-52) | two requests read DRAFT; the second resets the counters of a sale under way |

The same kinds of executions also show, as variations of these: a reservation
returned twice (two cancellations, or a release job redelivered after a crash
between :322 and :263); an order that is in neither store, when a cancellation
deletes the hash of an order that was charged in the meantime (with nothing failing
this is the only way, `LostOnlyWhenCharged`); a completed order that Redis does not
know before its confirmation is queued, for the same reason
(`KnownUntilConfirmed`); a reservation that is never released, when the release worker's `catch` swallows an error or the
process dies between :160 and :162; an oversell by a single cart with two lines
of one class. They are described as hazards and not repeated as runs.

### Bounds

One order is enough for `order_races`: the handlers of different orders meet only
in the counters, the sold quantities and the single release worker, which
`order_serial` and `order_progress` share among two or three
orders. Two jobs of an order are the least that can repeat a notification; three
attempts are the code's own number; with one fault and two crashes each step is
interrupted in some execution, at every other progress of the other handlers, and a
job is redelivered and then given up. `order_progress` has one crash, so that
no release job is given up.
In `event_sale` two requests are the least that can interfere, and with two
classes a listing may be complete, partial or outgrown by the rows; one buyer is
enough, because its properties relate a single buyer to the administrators (two
buyers of one ticket are `oversell_race`). In
`event_statistics` a dashboard can be overtaken by an invalidation at each of its
steps, and with two orders the second sale may meet an entry that the first left
and the second mail a worker that was killed over the first. One fault and one
crash let each of the other steps follow a failure.
In `catalogue` event 10 has no info and 11 and 12 begin in different years; two
edits are what it takes to remove a class and give its name away, or to move two
events between two queries. The takes of the lists are 1 and 2 instead of 10 and 4,
and pages hold one event, so that full lists, missing recommendations and second
pages occur with three events; dates are years, and the clock is what may have
passed an event between two queries.
In `accounts` the longest of the interesting executions
(registration, its mail, removal, another registration, a verification that began
before) takes four of the five requests. `Symmetry` is used only where no liveness
is checked.

`CHECK_DEADLOCK FALSE` is set in every run because the requests of an instance are
finitely many: when they are all answered nothing is left to do.

### Fairness

`Fairness` in `OrderLifecycle` is weak fairness of the steps of a handler that has
started (Node runs the continuation of every settled call), of the transaction
worker (BullMQ takes waiting jobs) and of the release worker (the delay passes and
the worker takes one job after the other). Nothing is assumed of customers or
gateways: they may never pay, cancel or notify. `order_progress` has no failing
call because with one the release job is lost (`ticket-release.worker.ts`:37-43):
the property says "while no call fails". In `EventStatistics` it is weak fairness
of a request under way and of the expiry of entries (600000 ms, :476), in
`AfterSale` of completions and of the e-mail worker besides; nothing obliges
a call to succeed. In `Startup` it is weak fairness of the seed, of the boot and of
the restart policy (`docker-compose.prod.yml`:70); nobody is obliged to edit or visit.

### Mutants

Each property of a passing run is paired in `PROJECT.json` with a variant of one
operator, defined just before it and marked `Variant`, that changes the code the
way a bug would: the unique column dropped, a hash left in place, a comparison off
by one, a status written early. TLC finds the property violated with the variant
in place.

## 4. What is proved

`OrderLifecycleProofs`, for every number of orders, classes, carts, gateways,
cancellations, jobs, attempts, crashes and faults, from `CartsAssumption` and
`BoundsAssumption`:

* `TypeCorrect`: `Spec => []TypeOK`.
* `CountersAlwaysBalance`: `Spec => []CountersBalance`; inductive with `TypeOK`,
  because `TakeTickets` and `ReturnTickets` are the only steps that move the
  counters and each moves both.
* `LifecycleInvariantHolds`, and from it `WinnerIsSingle`, `OutcomesAgree`,
  `SettledIsNotPending`. The three properties are not inductive: that two jobs do
  not complete one order needs that the job past the create owns the row
  (`LockHeld`), that its stage tells which rows exist (`StageMatchesRows`), and
  that nothing turns the status back to PENDING behind it (`PastPending`), which in
  turn needs that an order is not known to anyone before it is stored
  (`UnknownBeforeStored`). The proof has a lemma for the steps of each handler and
  one for a crash.
* `CompletedOrdersAreKnown`: `Spec => []KnownUntilConfirmed`, inductive with what a
  job relies on at its commit (a hash, or a cancellation that has deleted it) and has
  done at its clean-up (`KnownInvariant`). All but five actions are `Quiet`: they
  take nothing away that it speaks of.
* `OnlyChargedOrdersAreLost`: `Spec => []LostOnlyWhenCharged`, inductive with
  `LifecycleInvariant`: that the row behind a refused create is a charge is
  `OutcomeAgreement`, that a `ghost` is a charged order is `LockHeld`.
* `HandlersImplementLedger`: `Spec => ImplementsLedger`; with the invariant, only
  `ChargeTransaction`, `CommitOrder`, `PersistCancelled` and `NotifyCustomer` are
  steps of the ledger, all others stutter.

`OrderStockProofs`, about all the orders of a class. `TicketsOf` counts tickets as
pairs of an order and a number, so that the sums of the laws are cardinalities, and
the first lemmas say that disjoint sets of orders add up.

* `SoldAlwaysMatchesOrders`: `Spec => []SoldMatchesOrders`, in every execution;
  with `LifecycleInvariant`, because a second job that reached `CommitOrder` would
  add to the quantities of an order that is completed already.
* `HandlersAreAlone`: what `OneHandler` says of the three counts of running
  handlers, as a fact about any two of them. It needs that the counted sets are
  finite, which follows from the start of a handler adding one to them.
* `SerialNeverOversells`: `SerialSpec => []NeverOversold`, whatever crashes or
  fails, when each cart has one line for a class (`OneLinePerClass`). The
  hypothesis is needed: :232 compares line by line, and a cart with two lines of one
  class oversells alone. The inductive part is `SeenFresh`: what a checkout has
  read is still the availability when it reserves.
* `SerialStockIsAccounted`: `SerialSpec => []StockAccounted`, when nothing fails
  (`NoFailures`), as in the run. The hypothesis is needed: after a crash between
  :160 and :162 a reservation belongs to nobody, and after one between :322 and :263
  it is returned twice. `StockTaken` says at every step of a handler that what is
  missing from the availability is the tickets of the orders in `Out`, which are the
  pending and the completed ones when no handler is under way.
* `SerialImplementsStock`: `SerialSpec => ImplementsStock`, from `NoFailures` and
  `OneLinePerClass`. Only `ReserveTickets`, `ReleaseTickets` and `CommitOrder`
  are steps of the stock ledger (`Hold`, `Return`, `Sell`); `SeenFresh` proves the
  guard of `Hold`, and `KnownWhenReserved` and `StillPending` that an order is
  released or sold only while its tickets are out. What the interleaved handlers
  do instead is what `oversell_race` and `late_payment` show.

`EventSaleProofs`, for every number of administrators, buyers, classes and
requests that die, from `QuantitiesAssumption`, `PatchesAssumption` and
`FaultsAssumption`: `SaleInvariantHolds`, and from it `SaleTypeCorrect`,
`SaleAlwaysOpensComplete`, `BuyersAlwaysFindTheSale`, `PublishedIsAlwaysOnSale` and
`RemovedStaysOffSale`. The
invariant ties the stage of a request to what it has written, and what a buyer has
read so far to what is bound to be found next; it rests on hashes only growing, and
on every class that was ever listed being a row or counted as removed.
`OneConfigurationAlwaysSurvives` has an invariant of its own, `SurvivalInvariant`: a
request past its first read has read a DRAFT (`DraftTellsStage`), a buyer holds
tickets only of a sale that one of these has opened (`OpenedBeforeHeld`), and they are
finitely many (`Countable`), so that "at most one" is a fact about any two.

`StartupProofs`, for any set of the mock events and classes, any categories, calendar
and number of edits and restarts, from the three assumptions of `Startup`:
`SeedInvariantHolds`, and from it `AlwaysSeededBeforeBoot`, `OnlyNamesEverBlock` and
`EditsAlwaysSurvive`. `SeededBeforeBoot` is not inductive: `SeedProgress` says for
each table of the seed that the tables before it are complete and that the rows it
has passed are there, which lasts because nobody edits before the application has
started. That no upsert lacks a parent needs in addition that the generators give
every info one of the six organizers (`InfosHaveOrganizers`).

`AfterSaleProofs`, for any orders, dashboards and classes and any number of
midnights, failing calls and crashes, from `DaysAssumption`, `FailuresAssumption`
and `CrashesAssumption`: `AfterSaleInvariantHolds`, and from it
`AfterSaleTypeCorrect`, `SalesAlwaysInvalidate`, `StatisticsNeverAhead`,
and `MailedAtMostOnce`. `SalesInvalidate` speaks of the
cache only; `NothingOutdated` adds the requests about to write to it. `MailedOnce`
is inductive with what a job that has still to be sent may have sent before
(`MailCounted`).

`AccountsProofs`, for any set of requests of any kind, any passwords in clear and
any number of failures, from `PlainAssumption` and `FaultsAssumption`:
`AccountInvariantHolds`, and from it `AccountsTypeCorrect`, `OwnMailAlwaysVerifies`,
`SessionsAlwaysStayApart`, `VerificationAlwaysSticks` and `UsedTokensStayRefused`.
None of the last three follows from its own statement: the invariant says whom a
password belongs to wherever it is kept, in rows, in requests and in mailed tokens
(`Belongs`, `PasswordsOwned`), that a token a request acts on was mailed and signed
with the row it has read (`TokensChecked`), and that the password a reset has
replaced is gone from the rows for good (`ResetsReplace`).

`ListingsProofs`, for any set of the mock events, any requests, filters, lengths of
lists and pages, from `FiltersAssumption`, `TakesAssumption` and the assumptions of
`Startup`. Requests only read, so `Spec` implements `StartupSpec`
(`CatalogueUnderneath`) and the theorems about the seed hold of the catalogue that is
served (`ServedCatalogueIsSeeded`). `RequestInvariantHolds` ties the query that is next
to the route and the number of answers, whence `ListingsTypeCorrect`. The others rest on
one step lemma: a step is one of the request, which changes no row, or the request
waits, and an event that is not in `touched` afterwards is as it was (`StepOrWait`,
`NotEdited`).

* `EventsAreRecommendedOnce`: the events of the first answer share a category with the
  one that was asked about, those of the second do not (`Recommending`).
* `ListsAreComplete`: each list is, for an event nobody edits, what it has to be when
  it is read, and stays so (`Listing`); that an event has a date as long as it has an
  info (`InfoDated`) is a fact about the rows.
* `PagesAlwaysCover`: the events of the pages so far are the first of all that match
  (`Paging`). In an order without ties these are one set (`OneFirst`), and those and
  the ones that follow them are again the first (`MoreFirsts`), which makes the query
  with an offset continue where the last page ended.

Every safety invariant and every action property of the passing runs is stated by one
of these theorems, `NeverOversold` and `StockAccounted` under the hypotheses above. Only
model-checked are the liveness properties (`ReservationsResolve`, `JobsSettle`,
`StatisticsSettle`, `ConfirmationsArrive`, `StartsAgain`), which are beyond the proof
system.

## 5. Plan

Done, in this order: the order life cycle and its ledger, the laws of the stock,
their proofs; the sale of an event and its proofs; the statistics cache; accounts;
the seed and the start with their proofs; the catalogue; what follows a sale and
its proofs; sessions, and the proofs of accounts; the deletion of events and
classes, and the proofs of the sale with it; the laws of the stock, the survival of
reservations and the listings as theorems; the stock ledger.

Next: what sales, accounts and statistics promise as abstract specifications of their
own, and that the requests implement them, as the handlers of an order implement the
two ledgers.

## 6. Not modelled

Staff accounts have the sessions of users without their mails and removals, and are
not modelled a second time. Images, organizers, categories, order queries and the
drawing of PDF tickets are single calls or pure I/O; of `findEventById` the fields it
computes for an answer are left out (cheapest price, and a status that is never
SOLD_OUT, because :371 compares a field `availableTickets` that the hashes do not
have), and
`findUpComingEvents` and `findMostSoldEvents` cannot be reached.
`getRecommendedEventsByEventId` takes four events of the same category whatever
`limit` says, so "at most `limit`" holds from four on only; the instances stay above.
Signatures, checksums and links of the gateways are left out: a notification is
genuine and says what the customer paid. `deleteEventConfig` and
`checkIfExceedMaxNumOfTickets` are called by nothing (the call at
`order.service.ts` 129-134 is commented out), so `maxTicketsPerCustomer` is not
enforced and not modelled.
