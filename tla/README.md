# Verification of the naimu backend

TLA+ models of the backend in `src/` (Go, module `naimuBack`), the TLC runs that
check them on small instances, and theorems that TLAPS checks for every
instance. The models are read from the code; where a document or a comment of
the repository says otherwise of what they cover, [Disagreements](#disagreements)
says so, and for six of them a run shows the difference.

Contents: [Inventory](#inventory) · [Modules](#modules) ·
[How the models read the code](#how-the-models-read-the-code) ·
[Runs](#runs) · [Bounds](#bounds) · [Fairness](#fairness) ·
[Disagreements](#disagreements) · [Proofs](#proofs) ·
[What is only model-checked](#what-is-only-model-checked) ·
[Not modelled](#not-modelled) · [Plan](#plan)

## Inventory

One process serves HTTP and WebSockets over one MySQL database and one Redis.
Handlers run concurrently, each in its own goroutine, and share nothing but the
database and a few maps behind mutexes. Most operations are several SQL
statements, each committed by itself, with checks made on values read some
statements earlier. That is where the hard behaviour is.

| Component | State it keeps | Operations | Hard behaviour | What makes it correct |
|---|---|---|---|---|
| **Taxi orders, offers, dispatch** (`internal/taxi/{http,repo,dispatch,fsm}`) | `orders` (status, driver, price), `order_dispatch` (state, next tick, radius), `driver_order_offers` (state, price) | create, reprice, two offer flows, acceptance, ride steps, cancellation, `POST …/status`, payment webhook; dispatcher tick; offer expiry | acceptance is two writes; the dispatcher works on an old read; the search timeout races acceptance and cancellation; handlers abort half-way | an order goes only to a driver who won it; statuses follow the graph; a search is served until it ends, and it ends; only drivers who won pay |
| **Taxi drivers** (`repo/drivers.go`) | approval, ban flag, balance | admin ban/approve/delete, commission, deposit, withdrawal | eligibility checked before the write | commission once, from who won |
| **Taxi payments** (`repo/payments.go`, `pay/`) | `payments` | create payment, provider's webhook | webhook repeated, late, or before the answer is stored | one payment per completion, confirmed only for a paid order |
| **Taxi ride library** (`lifecycle/`) | in-memory ride | waiting, trip, waypoints, pauses, finish, cash, cancel, no-show, buttons' policies | long legal call sequences; paid waiting found out late | no waiting lost or billed twice, a trip ends at its last point |
| **Taxi/courier live connections** (`ws/`, `geo/redisgeo.go`) | maps of connections, Redis sets | connect, report, move, close | an old reader's end against a new connection; a report is several commands; each connection names its city, and the sets are a city's | a connected peer is written to; who is busy is not among the free |
| **Taxi intercity** (`repo/intercity_orders.go`) | two-state rows | create, close, cancel | none beyond a lost race | closed is final |
| **Courier orders, offers, dispatch** (`internal/courier`) | `courier_orders`, `courier_offers`, `courier_order_dispatch` | create, offer, accept, decline, respond, lifecycle steps, `POST …/status`, dispatcher tick | acceptance is two transactions and can be repeated; the timeout's status is not in the graph | as the taxi's; the courier is fixed once under way |
| **Invoices** (`handlers/airbapay_handler.go`, `top_handler.go`, `repositories/invoice.go`) | `invoices`, `invoice_targets` | create payment, top activation, callback | callbacks repeated, late, overlapping; execution and mark are two statements | nothing unpaid granted, nothing paid passed over, nothing granted twice |
| **App-store purchases** (`handlers/iap_*.go`, `repositories/iap_*.go`) | processed transactions | verify, notification, revoke | repeated and overlapping notifications, some without a transaction | one grant per transaction |
| **Marketplace responses and confirmations** (six kinds: service, work, rent, ad, work_ad, rent_ad) | responses, chats, confirmations, balance of responses | respond, withdraw, confirm, call off, done; delete a chat | a chain of seven statements with a hand-written rollback; refunds on an old read; deletes that cascade | a response that stands is paid and has its order |
| **Listings** (`handlers/{service,work,…}_handler.go`, services, repositories) | six tables, files on disk | create, edit, archive, restore, delete; GET, two POST searches, lists of an owner | an edit writes the row back whole; files go before the row; clients send lists of files; eighteen queries kept alike by hand | the archive is hidden, searches agree, pages partition, files exist |
| **Subscriptions and promotion** (`subscription_repository.go`, `top_service.go`, `cmd/*_cleaner.go`) | `executor_subscriptions`, listing status, top state | extend, lapse, activate, clear | the cleaner against extensions, edits and restores | who lapsed is archived; the way back is paid |
| **Business accounts** (`business_service.go`) | seats bought, a counter of seats used, workers | purchase, hire, dismiss, own deletion | check, create and count are five statements of no transaction | the counter is the number of workers; hired on paid seats |
| **Location hub** (`cmd/location_ws.go`) | clients, subscriptions, `is_online` | register, report, fan-out, go offline, close | two closers of one channel; an old reader takes a new connection offline | one connection, the one open; its report is found |
| **Chat hub** (`cmd/websocket.go`) | clients by user | register, send, ping | an old connection's end after a new one's start | as above |
| **Assistant, users, complaints, favourites, files, notifications** | one row per request | create, read, update, delete | none of their own | – |

How they interact: the taxi's and courier's handlers and dispatchers share only
their tables and push events through `ws/`; the invoice callback calls the taxi
(`DepositDriverBalance`), the courier (`DepositBalance`), subscriptions, business
accounts and promotion, and hands signed callbacks over to the taxi's webhook;
responses consume the quota that invoices and app-store purchases raise; the
cleaners archive listings whose subscription ended, and calling an order off
makes its listing active again.

`PROJECT.json` lists every hazard with the line where it bites and the
properties that would catch it; those without a property carry the reason.

## Modules

| Module | What it is |
|---|---|
| `TaxiFSM` | the taxi's status graph (`fsm/fsm.go`) and the status sets of `repo/orders.go` |
| `TaxiOrders` | taxi orders, offers, dispatcher, offer expiry, all HTTP handlers that write them |
| `OfferBook` | abstract specification: what offers promise, without requests, dispatcher or clock |
| `MCTaxiOrders` | symmetry for TLC |
| `TaxiOrdersProofs` | theorems about `TaxiOrders`, the refinement of `OfferBook` included |
| `CourierFSM` | the courier's status graph (`lifecycle/lifecycle.go`) |
| `CourierOrders` | courier orders, offers, dispatcher, handlers |
| `CourierBook` | abstract specification: what a courier order promises |
| `MCCourierOrders`, `CourierOrdersProofs` | symmetry; theorems, the refinement of `CourierBook` included |
| `Invoices` | the request that creates an invoice, the provider, the callbacks |
| `Ledger` | abstract specification: what is done for money from outside, by agents that may fail |
| `MCInvoices` | symmetry for TLC |
| `Listings` | what the six kinds of listings share: the row, the query, the helpers of `top_sort.go` and `filter_utils.go` |
| `Services`, `Works`, `Rents`, `Ads`, `WorkAds`, `RentAds` | one kind each: its handler, service and repository as operators over the table, under the same names, so that their differences stand side by side |
| `Market` | the steps: requests on listings, subscriptions, both cleaners, promotion, reviews; instantiates the six kinds; `kind` chooses one per behaviour |
| `MarketProofs` | theorems about the steps of `Market`: files, edits, the archive |
| `SearchProofs` | theorems about the searches of `Market`; extends `MarketProofs` |
| `Deals`, `DealsProofs` | responses, confirmations (orders) and the balance of responses for the six kinds; theorems |
| `BusinessSeats` | seats bought, workers, the counter of seats used |
| `StorePurchases` | purchases in Apple's and Google's stores, notifications, revocations |
| `PurchasesProofs` | theorems about what an account has bought: `BusinessSeats`, `StorePurchases` |
| `LiveHub`, `LiveHubProofs` | one peer's connections to one of the six hubs and its entries in Redis; theorems |
| `TaxiMoney` | commission and payments of one ride against the handlers that end it |
| `RideLibrary` | the in-memory ride of `internal/taxi/lifecycle` |
| `BillingProofs` | theorems about what is charged: `Invoices` (its refinement of `Ledger` included), `TaxiMoney`, `RideLibrary` |
| `MCPlatform` | composes `Market`, `Deals`, `BusinessSeats`, `StorePurchases`, `LiveHub`, `TaxiMoney` and `RideLibrary` for TLC, one scene per behaviour |
| `MCProgress` | composes `TaxiOrders`, `CourierOrders` and `Market` for TLC, one scene per behaviour: what must end at last |

Operators named `X_Something` directly before an `X`, marked "Slip", are plausible
mistakes in the code that `X` models. They are used by nothing; substituting one
for `X` must make the property named in `PROJECT.json` fail, which shows that the
property depends on that code.

## How the models read the code

**One step is one database statement or one transaction.** A handler in flight
is a record in a request slot (`req`), whose `pc` is the name of the database
call it makes next and whose other fields are what it has already read.
Everything between two calls – a check, an early return – belongs to the step of
the call before. Two reads of one handler are one step where no other step can
tell them apart. A handler may be aborted before any of its calls (`Abort`): its
context is canceled by a timeout or the client, or a statement fails. Validation
of a request's body and everything that only logs or notifies is left out: a
client can always send a request that passes.

**Taxi** (`TaxiOrders`).

| Code | Model |
|---|---|
| `orders.status/driver_id/client_price` | `status`, `driver`, `price` |
| `driver_order_offers` | `offer`, `offerPrice` (no row: `"none"`) |
| `order_dispatch.state`, `next_tick_at` passed, search timeout passed | `dispatch`, `due`, `timedOut` |
| `drivers.approval_status`, `is_banned`, deletion | `account` |
| commissions taken | `charged` (a set: which drivers paid for which order) |
| `handleCreateOrder`, `handleReprice` + `TriggerImmediate` | `CreateOrder`, `Reprice`, `TriggerImmediate` |
| `handleOfferPrice`, `handleOfferResponse`, `handleOfferAccept` → `SetDriverPrice`, `AcceptOffer`, `UpdatePrice`, `AssignDriver`, `DeclineOffer` | actions of the same names, chained by `pc` |
| `handleLifecycle*`, `applyStatusSequence`, `UpdateStatusCAS`, `UpdateStatusWithDriverCharge` | `Lifecycle*`, `ApplyStatusSequence`, … : read, then one compare-and-set per status of the sequence |
| `handleStatus`, `handleAirbaPayWebhook` | `HandleStatus`, `AirbaPayWebhook` |
| `Dispatcher.tick/processRecord` | `DispatchTick` (ListDue), `ProcessRecord` (reads the order), `OfferDriver` per driver, `UpdateRadius`, `TimeoutSearch`, `FinishDispatch`, `DispatchError` |
| `startOfferCleanup` / `ExpireOffers` | `ExpireOffers` |
| process death | `Crash`: requests and the dispatcher's locals vanish, tables stay |

The dispatcher is one goroutine, so its locals are one record `disp`. `Nearby`
returns any set of drivers: the geo index, the radius and its limit of twenty
are not modelled, which makes the model allow more than the code does. Time is
two flags per order, which pass at any moment (`NextTickPasses`,
`TimeoutPasses`). The search timeout is taken to be positive, as configured.

**Courier** (`CourierOrders`). The same structure. What differs from the taxi:
`UpdateStatus` reads, checks and writes in one transaction with the row locked;
an acceptance is two transactions (`OfferAccept`, `AssignCourier`) and closes no
other offer; offers never expire and their courier may reopen them; most
handlers do not ask whose order it is. Of prices one bit is kept: whether an
offer's price is the courier's own (`asked`) or the dispatcher's stub.

**Invoices** (`Invoices`). `payment` is how far the request that creates the
invoice has got: insert the invoice, one `AddTarget` per target in any order,
the call to the provider, the final `UpdateStatus`. `CreatePayment` and the
promotion's `Activate` have the same shape; `Product` is what an invoice may
grant, and `Responses`, which the callback recognises by the invoice's
description, is the one without a row in `invoice_targets`. The provider
(`charge`, `Pay`, `Says`) is external: it may deliver any callback late, several
times and out of order, but says success only of what was paid. A callback in
progress is a record of `hook`: status written, reward, list of targets, then
per target its execution and its mark, each of which may fail. `granted` keeps
which deliveries granted a product, and the field `late` which targets were
already processed when a delivery was received; both exist only for the
properties. Execution of one target (a deposit, a subscription, seats, a
promotion) is one step that takes effect or not; its error may come before or
after the effect, because some of them are several statements.

**Listings** (`Listings`, six kinds, `Market`). A row is `tbl[i]`; its age is
`born`, the second of `created_at`, which several rows may share. Columns a filter
compares with one value are one set of `traits`; the address of an image is kept
because each kind writes its own prefix, and files have a state of their own
(`disk`). What a form says of files are four fields (`FileFields`): uploads (`add`),
what is to go (`del`), a list in place of the one read (`list`: `images`,
`existing_images`) and paths to append (`links`: `image_links`). The code takes the
last two as they come, whatever file a path names; only the creation of a service
looks at them, too. `lent` remembers the files that a form named from outside.

| Code | Model |
|---|---|
| `Create…`, `Update…`, `Archive…`, `Delete…` of a handler, with its service | `StartCreate`, `StartEdit` (reads the row, stores and deletes files) → `Reread` → `CheckPaid` (→ `Lapse`) → `Write`; `StartRestore`, `Archive`, `Delete` |
| `Get…WithFilters`, `GetFiltered…Post`, `GetFiltered…WithLikes`, `Get…ByUserID`, `FetchByStatusAndUserID`, `Get…ByID` | operators of the same names in the module of the kind; a result is a set of sequences, since SQL leaves the order of equal keys open, and fails if a row it scans has a `NULL` |
| `HasActiveSubscription`, `ExtendSubscription`, `ArchiveExpiredExecutorListings` | `CheckPaid`, `ExtendSubscription`, `CleanerReads` + `CleanerArchives` per user |
| `UpdateTop`, `ClearExpiredTop`, `computeTopState`, `liftListingsTopOnly` | `ActivateTop`, `TopExpires`, `ClearExpiredTop`, `lessByTopState`, `liftListingsTopOnly` |

A day has six moments (`Clock`), enough for hours within a day, past midnight, and
both ways in which "round the clock" is written (`00:00`–`23:59`, with and without
seconds).

**Responses** (`Deals`). A call is a script, the list of its statements, written
per kind because the six services differ; one step runs the first statement or
lets it fail, and `AfterFailure` is what the code then does. An order's chat has
its row's id, so the cascade from chats to confirmations is one deletion,
`Without`: by `Cancel`, or by `DELETE /api/chats/:id` (`DeleteChat`), which anybody may
call. `Owner` may be one of the parties who respond, since no service compares
them; `Pending…` is whose orders a withdrawal takes along.

**Seats** (`BusinessSeats`), **stores** (`StorePurchases`). A call in flight is a
record with a `pc`, as in the taxi. `Abort` and `Dies` leave behind what its earlier
statements wrote. In `StorePurchases`, `Key` is what the code looks a transaction
up by: Apple's transaction id, but Google's token, which renewals share. A notice
(`Notice`) is about a transaction (`Txn`), or is Apple's with renewal info only
(`Info`), to which `transactionFromRenewal` gives an id made of the date it was signed.

**Connections** (`LiveHub`). One peer of one hub; the hubs differ in what the end
of a reader takes out (`…Closes`, `…Unregisters`), in whether going offline follows,
and in the commands that a report runs. `place[c]` is in which of city `c`'s sets of
Redis the peer is, `region[n]` the city that connection `n` named; a report works on
the sets of its own connection's city. Thread `n` is the reader of connection
`n`; thread 0 is whoever writes to the peer.

**Money** (`TaxiMoney`). One ride from `in_progress` on: handlers read, then
compare and set; `createPayment` runs beside them (`maker`); the webhook is two
statements. Who may be the driver is `TaxiOrders`' matter.

**Ride library** (`RideLibrary`). Sequential, so one call is one step. Time is in
half minutes, which is what distinguishes rounding up from not.

**What refines what.** Three abstract specifications say what a client may count
on; each is short enough to be read as a contract. They leave out requests in
flight, dispatchers, aborts and crashes; of these a step either does nothing to
the contract's state or is one of its actions.

| Contract | Refined by | Mapping | Where the code is looser than one would expect |
|---|---|---|---|
| `OfferBook` | `TaxiOrders` | the offer table and the driver named | an offer may be opened after the order was taken |
| `CourierBook` | `CourierOrders` | `stage`: the status up to `Stages` (`waiting_free` and `in_progress` are both under way, the endings two); `holder`: `courier_id`; `terms`: no row, an invitation, or the courier's own price | `Withhold`: `POST …/status` writes `accepted` with nobody named; `Give` from `given`: another courier accepts until the order is under way; `Invite` has no condition on the stage |
| `Ledger` | `Invoices` | agents are callbacks; `claims`: what is left of the list a callback has read; `doers`: `granted`; `settled`: targets with `processed_at` | `Claim` does not ask whether another agent claimed the same, so an item may be done by several; `Settle` is a step of its own; an execution that fails and a callback that dies are `Forgo` |

History variables (`muddled`, `orphaned`, `tangled`, `torn`, `lent`, `mixed`, `stray`, `miscounted`, …)
record that an exception named in a property's comment has occurred: calls of
one party that overlapped, a failed rollback, a call that died between two
statements. No guard reads them, but to bound a run (`MaxGrant`, `MaxPay`); a property that
excepts them says what the code guarantees otherwise. What happens in the
excepted cases is listed under [Known weaknesses](#known-weaknesses).

## Runs

| Run | Instance | Shows | States |
|---|---|---|---|
| `TaxiOffers` | 1 order, 2 drivers, 1 price, 2 requests | types; an order names only a driver with its accepted offer; searching means no driver and an open dispatch record; every status change is an edge or the unconditional `accepted`; the offer table implements `OfferBook` | 223 thousand |
| `TaxiRide` | 1 order, 1 driver, 2 prices, 2 requests, all handlers | no ride is completed or paid without a driver; a commission only from a driver who won that order | 989 thousand |
| `TaxiRevived` | 1 driver, 2 requests | *violation*: an ended order is accepted again | – |
| `TaxiLateOffer` | 2 drivers, 1 request | *violation*: an offer opened after the acceptance closed the others | – |
| `CourierOffers` | 1 order, 2 couriers, 2 requests | types; searching is dispatched; orders and offers implement `CourierBook`; courier and progress are fixed once under way; a courier's own price survives the stub | 406 thousand |
| `CourierTimeout` | 1 order, 1 courier, 1 request, fair | *violation*: a search nobody answers never ends | – |
| `InvoiceCallbacks` | 1 invoice, 3 products, 3 deliveries | invoices implement `Ledger`; a processed target was executed; all targets are stored before money can be taken; a callback executes nothing that was processed when it came | 864 thousand |
| `InvoiceTwice` | 1 invoice, 2 products, 2 deliveries | *violation*: a target is granted twice | – |
| `Platform` | seven scenes, below | what each of the seven parts keeps | 509 thousand |
| `Progress` | three scenes, below, fair | every search for a driver ends, every dispatch record (taxi, courier) is closed, every offer is decided or expires; a lapsed listing is archived and comes back paid for; edits lose no field and no file | 72 thousand |
| `DealCancel` | 2 responders, 1 call | *violation*: calling one order off deletes the other's | – |
| `RentConfirm` | 2 responders, 1 call | *violation*: confirming one response to a rental confirms the other's | – |

`CHECK_DEADLOCK FALSE` in all of them: clients may send nothing more, and the
bounded deliveries run out; a state where nothing is left to do is legal.

`Platform` composes seven parts that share no variable with the orders or with
each other. A behaviour is a scene, chosen at the start, in which one part
moves and the others rest in an initial state; between them the scenes fire
every action of every part. That loses nothing: the parts do not interact but
through what each other's steps do to a listing's status, which `Market`
(`OrderMoves`) and `Deals` (`Shelve`) each allow at any time.

| Scene | Instance | Properties |
|---|---|---|
| search | every table of up to 2 listings out of 6 drafts, of one second or of two, each of the 6 kinds, 5 searches, viewers of either city or none | `SearchesHideArchived`, `ListsAgree`, `PagesPartition`, `ListedCanBeOpened`, `OpenHours` |
| deal | 2 responders, one of them the owner, with 1 response each, 2 calls, each of the 6 kinds | `StandingIsPaidAndOpen` |
| seats | 2 calls, 2 logins, 2 seats, 2 workers | `SeatsCounted`, `HiredOnPaidSeat` |
| store | both stores, 4 products, 2 buyers, 2 calls, a purchase and a renewal, one notice with renewal info only | `TakesEffectOnce`, `AnsweredIsGranted` |
| live | each of the 6 hubs, 2 connections, 2 cities | `LiveHubServes` |
| money | 2 handlers, 2 payments, webhooks, online and cash | `RideIsSettled` |
| trip | 2 waypoints after the pickup, 3 half-minutes free, time up to 6 | `RideAddsUp` |

`MCTypeOK` is the conjunction of the parts' type invariants. The invariants are
checked in every scene.

`Progress` does the same for what ends only if the server goes on:

| Scene | Instance | Properties |
|---|---|---|
| taxi | 1 order, 1 driver, 1 price, 1 request, all handlers | `SearchEnds`, `DispatchEnds`, `OffersResolve` |
| courier | 1 order, 1 courier, 1 request | `CourierDispatchEnds` |
| listing | 1 service, 1 owner, 2 requests in flight, 2 files, subscription and cleaner; forms with uploads, removals, an old list and a link | `FilesOfListingsExist`, `EditKeepsUnnamed`, `OnlyPaidReturns`, `LapsedIsArchived` |

## Bounds

- **Orders: 1.** No statement reads or writes two orders except `ListDue`, whose
  batch is a set, and the check that a driver has no other order, which can only
  refuse. The theorems cover any number.
- **Drivers, couriers: 2 where they compete** (one wins, the other is closed,
  late or reopened), 1 where only the ride matters. `StatusFollowsGraph` and the
  refinement do not depend on a third. The theorems cover any number.
- **Prices: 2 in `TaxiRide`**, for a reprice against an agreed price; otherwise
  prices are copied, never compared, and 1 is enough.
- **Requests in flight: 2, plus the dispatcher and the expiry worker**: the
  races listed as hazards are of two actors, and each request slot is reused, so
  runs of any length occur. With fairness 1, to keep liveness checking small.
- **`Handlers`, `StatusTargets`** choose the handlers that take requests and the
  statuses sent to `POST …/status`. `TaxiRide` has all handlers, `TaxiOffers` those
  that touch offers or end a search. `CourierOffers` sends the courier's handler three
  statuses, one that accepts, one under way, one that ends; `CourierTimeout` and
  `Progress` send all nine, and the theorems hold for any set. Between the passing runs every action
  fires.
- **`Delivery`: 3 callbacks**, the only bound on how long a run is. Two overlap,
  the third comes after; a fourth could only repeat one of those roles. Invoices
  share nothing, so 1 is enough. The theorems cover any number of both.
- **`Budget`** in `MCPlatform` and `MCProgress`: how often, in a scene, people, clocks and failures
  may act (`deal`, `store` and `money` 4 times, `live` 3, the listing of `Progress` 4;
  the steps of the server itself are not counted). Four are enough for two calls, a
  failure, and a call that repeats what failed. One less is spent (`Limit`) on works and a
  client's rentals and jobs, whose scripts are those of services and (but for the
  order of two statements) of ads, and on the couriers' hub, whose reports and places go as the
  drivers'; and a performer's listing is not shelved in `deal`, where no statement
  asks for it. The seats, searches and rides are bounded by their constants
  alone; a listing is rated or promoted when both are there. The theorems
  about the seven parts have no such bound.
- **`MaxId`, `MaxOrder`, `MaxSeats`, `MaxWorker`, `MaxTxn`, `MaxGrant`, `MaxLink`, `MaxPay` = 2,
  `MaxInfo` = 1, `Horizon` = 6**: rows ever inserted, connections ever made, notices
  without a transaction, time. Two rows are what order, agreement and the races
  need; the theorems hold for any.
- **`Region`: 2** cities, one to leave and one to come to.
- **`Owner`** is one of the two responders in `Platform` and nobody of them in the two
  runs that show a disagreement, which do without.
- **`born`**: the clock (`Now`) stands at the newest listing's second or the one after,
  so that two listings share a second or do not.
  `MaxId` is asked where a row is inserted, not where a request begins, so that
  creations in flight together stay within it.
- **Second slots** act only beside the first, and the first party to act is a
  fixed one: slots and parties are interchangeable, so this leaves out only
  renamings.
- **Symmetry** over requests, drivers, couriers, deliveries, targets: they appear in no
  property asymmetrically. It is not used in runs with liveness.

## Fairness

`FairSpec` of `TaxiOrders` and `CourierOrders`. Weak fairness of the clocks and of
the two tickers: `time.Ticker` loops that end only with the process, which is
restarted. Strong fairness of each of the dispatcher's own calls: a call may
fail, or the process die, any number of times, and the record is then found
again by the next `ListDue`; what is excluded is that the same call fails for
ever. Weak fairness would be too weak, since a crash in between disables the
call. Nothing is assumed of clients: no request need ever come, and one in
flight may be aborted.

`MarketFairness`: weak fairness of `CleanerReads` (`cmd/subscription_cleaner.go`, a ticker
that ends with the process) and strong fairness of `CleanerArchives` per user,
since an archival that fails or a stop of the cleaner disables it, and the next
day's read finds the user again. Nothing else of `Market` is fair.

`MCProgress` states the three together (`Tickers`, `Calls`): since only the steps of the
scene at hand are ever enabled, fairness of the disjunction of one step of each
scene is the fairness of that step in each, and TLC has fewer cases to tell
apart. The courier's `AlreadyOffered` and `CreateOffer` are fair together only, which
assumes less.

`Spec` alone, without fairness, is what all safety runs
and all theorems are about.

## Disagreements

1. **An ended taxi order comes back** (`TaxiRevived`).
   `AssignDriver` (`internal/taxi/repo/orders.go:854`) writes `accepted` with no
   condition on the status. A driver's acceptance in flight while the passenger
   cancels, or of an offer still pending long after, revives the order.
   `docs/taxi_frontend_api.md:33` says that transitions are those of the FSM.
2. **Offers after the acceptance** (`TaxiLateOffer`). An acceptance "closes the
   other offers" (`docs/taxi_frontend_api.md:191`), but the dispatcher, which read
   the order before, goes on inserting some; accepting such an offer replaces
   the driver.
3. **The courier's search timeout does nothing** (`CourierTimeout`). It writes
   `not_found`, which the courier's graph does not have
   (`internal/courier/dispatch/dispatcher.go:155-174`); the error keeps the record
   open and every later tick repeats it.
4. **A target is granted twice** (`InvoiceTwice`). `processed_at` is set after the
   execution, by a statement that claims nothing; a failure in between, or two
   overlapping callbacks, execute the target twice.
   `docs/airbapay_payment_flow.md:104` says that `processed_at` prevents it.

5. **Calling off one order deletes the others** (`DealCancel`). The six `Cancel`
   functions delete the chats of all confirmations of the listing
   (`repositories/service_confirmation_repository.go:78` and its likes), and the
   confirmations follow by `ON DELETE CASCADE`.
   `docs/performer_confirmation_flow.md:11` says that the confirmation is preserved
   for history, `:122` that only it is updated.
6. **Confirming one response to a rental confirms all** (`RentConfirm`).
   `RentConfirmationRepository.Confirm` (`repositories/rent_confirmation_repository.go:45`)
   updates the rows `WHERE rent_id = ? AND client_id = ?`, and the client of all of
   them is the owner. `docs/performer_confirmation_flow.md:10` says that only the
   accepted confirmation switches, `:126` that rentals follow the same lifecycle.

Read beside the runs, and without one: `docs/filtering_and_sorting_api.md:20` says
that sort 1 of the POST searches is "by reviews (rating)"; the six repositories order
it by `created_at` (`Oldest` in `PostBefore`).

What holds in spite of each is checked beside it: a driver named in an order
always won it (1, 2), the courier's records of orders that stopped searching are
closed (3), a callback that comes after the mark executes nothing (4), a response
that stands is paid for and has its order as long as no order of the listing was
called off (5), and for the other five kinds a confirmation is one responder's
(6, the theorem `OneResponderConfirmed`).

### Known weaknesses

What the properties except, because the code allows it; each is a behaviour of the
model.

- **Listings.** An edit writes the whole row back, so it undoes what an archival,
  the cleaner or a promotion wrote since it was read. A performer's listing comes
  back without a subscription when an edit names another status than active,
  when an edit overlaps the archival, or when an order is called off. An edit
  deletes files before its row is written. It takes the list of images and the
  links that a client sends as they are: an old list sent back names files that an
  edit has removed since, a path of another listing's image makes the two share it,
  and removing it from one deletes the file of both. Images of work_ads and rent_ads get
  addresses that no route serves. `GET` of work_ads and `GET /ads` list the
  archive, and so does an owner's list, which for services
  (`GET /service/user/:user_id`) needs no login. Pages of listings created in one
  second may repeat one or miss it: `created_at` has whole seconds and is all that
  the query orders by. One incomplete row fails the whole page it is on.
- **Courier orders.** `POST …/status` with `accepted` takes an order off the market
  with no courier named, if it is sent while nobody has accepted. An order that
  one courier accepted can be accepted by another until it is under way.
- **Invoices.** Responses have no row in `invoice_targets`, so nothing marks them as
  added: every callback that reports success adds them again.
- **Responses.** Deleting a chat takes its order and leaves the response, paid for
  and without one; anybody signed in may. An owner may respond to the own listing; withdrawn
  again, such a response takes all pending orders of a service or a work along,
  because they all name the owner. A response withdrawn by two calls is refunded twice; work_ads and
  rent_ads look for whom to refund after the cascade has deleted them, so nobody
  is; ads refund performers whose responses stay.
- **Seats.** Two dismissals of one worker lower the counter twice; a hire cut
  short leaves a user, or a worker not counted; two hires may share one seat.
- **Stores.** A crash between row and grant leaves a transaction that counts as
  processed; Google's renewals count as processed from the start; two calls at
  once may grant twice; a purchase of seats by somebody without an account saves
  the seats, then fails, is rolled back and granted again by a repetition. A
  notice of Apple's with renewal info only is granted under an id of its own, also
  when the renewal it tells of was granted already.
- **Connections.** In the taxi's hubs the end of an old connection's reader takes
  the new one out; in the location hub it takes the user offline. A driver free in
  one city who connects from another and reports busy stays among the free of the
  first.
- **Money.** A completion reported again takes a commission again.

## Proofs

TLAPS proves the following for any values of the constants that satisfy the
assumptions declared with them: the null values are not identities, handlers and
statuses are among those that exist (`ConstantsAssumption`), `ResponsesIsProduct`,
bounds are naturals and sets of calls finite (`DealAssumption`, `SeatsAssumption`,
`StoreAssumption`, `LiveAssumption`, `MoneyAssumption`, `RideAssumption`), languages are
traits (`ListingsAssumption`), and the forms and searches given are such as a
client can send, whichever fields they name (`MarketAssumption`).

| Module | Theorem | Property |
|---|---|---|
| `TaxiOrdersProofs` | `Invariance` | `IndInv` |
| | `TypeCorrect`, `DriverWonOrder`, `SearchIsServed`, `OnlyWinnersPay`, `NoDriverlessRide` | `TypeOK`, `DriverHasAcceptedOffer`, `SearchingIsDispatched`, `ChargedHasAcceptedOffer`, `CompletedHasDriver` |
| | `StatusesFollowGraph` | `StatusFollowsGraph` |
| | `OffersImplementBook` | `ImplementsOfferBook` (refinement) |
| `CourierOrdersProofs` | `Invariance`, `TypeCorrect`, `SearchIsServed`, `OnlyOfferedCouriers` | `IndInv`, `TypeOK`, `SearchingIsDispatched`, `CourierWasOffered` |
| | `CourierIsFixed`, `AskedPriceIsKept` | `CourierFixedOnceUnderWay`, `AskedPriceKept` |
| | `OrdersImplementBook` | `ImplementsCourierBook` (refinement) |
| `BillingProofs` | `Invariance`, `TypeCorrect`, `OnlyPaidIsGranted`, `ProcessedMeansGranted`, `PaymentAfterTargets`, `LateCallbackSkipsTargets` | `IndInv`, `TypeOK`, `GrantedWasPaid`, `ProcessedWasGranted`, `PaymentSeesTargets`, `RepeatedCallbackGrantsNothing` |
| | `InvoicesImplementLedger` | `ImplementsLedger` (refinement) |
| | `MoneyInvariance`, `MoneyTypeCorrect`, `RideSettled` | `MoneyInv`, `MoneyTypeOK`, `RideIsSettled` |
| | `RideInvariance`, `RideTypeCorrect`, `RideIsBilled` | `RideInv`, `RideTypeOK`, `RideAddsUp` |
| `DealsProofs` | `DealInvariance`, `DealTypeCorrect`, `StandingPaidAndOpen` | `IndInv`, `DealTypeOK`, `StandingIsPaidAndOpen` |
| | `OneResponderConfirmed` | `ConfirmTakesOneResponder` but for rents |
| `PurchasesProofs` | `SeatsInvariance`, `SeatsTypeCorrect`, `SeatsAreCounted` | `SeatsInv`, `SeatsTypeOK`, `SeatsCounted` |
| | `HiredOnPaid` | `HiredOnPaidSeat` |
| | `StoreInvariance`, `StoreTypeCorrect`, `PurchaseTakesEffectOnce`, `AnswerMeansGrant` | `StoreInv`, `StoreTypeOK`, `TakesEffectOnce`, `AnsweredIsGranted` |
| `LiveHubProofs` | `LiveInvariance`, `LiveTypeCorrect`, `LiveHubIsRight` | `IndInv`, `LiveTypeOK`, `LiveHubServes` |
| `MarketProofs` | `MarketInvariance`, `MarketTypeCorrect`, `ListingsKeepFiles` | `MarketInv`, `MarketTypeOK`, `FilesOfListingsExist` |
| | `EditsKeepTheRest`, `ReturnsArePaid` | `EditKeepsUnnamed`, `OnlyPaidReturns` |
| `SearchProofs` | `ArchivedStaysHidden`, `ListedIsOpened`, `HoursAreKept` | `SearchesHideArchived`, `ListedCanBeOpened`, `OpenHours` |
| | `SearchesDoAgree`, `PagesDoPartition` | `ListsAgree`, `PagesPartition` |

**Argument.** The properties are not inductive, because a handler acts on what it
read. The invariant therefore has three parts: the types; what the tables
promise (`TablesOK`: the properties, and which rows exist together); and what
each actor in flight may still rely on (`RequestsOK`, `DispatcherOK`, `HooksOK`,
each a predicate `Fit` of one record and the tables). For instance, a request at
`AssignDriver` relies on its offer being `accepted`: that is true when
`AcceptOffer` sends it there, and stays true because no step takes an offer out
of `accepted`. Facts of this kind – an accepted offer stays accepted, an order
that stopped searching never searches again, a processed target stays
processed – are collected in the predicate `Keeps` of each module; every action
is shown to satisfy it, and one lemma (`FitIsStable` in `TaxiOrdersProofs`,
`FitKept` in `BillingProofs`, the slot lemmas in `CourierOrdersProofs`) concludes
that nobody in flight loses what he relies on. A step lemma per action then shows
its own record and its own table.

`StatusesFollowGraph` follows because a compare-and-set writes only where the
status is still the one read, and `RequestsOK` remembers that what was read has
an edge to what will be written. `OffersImplementBook` maps every step to one
action of `OfferBook` or a stutter (`StepBook`); the interesting case, `AssignDriver`
to `Take`, again needs `RequestsOK`. `CourierIsFixed` needs only the graph: from
nowhere that has left `accepted` is there a way back.

`OrdersImplementBook` splits a step by what it touches. `OrderSteps` goes through the
actions once and leaves four cases: a step places an order, moves one along the
graph, gives one to a courier with an offer, or touches none; `CourierIsFixed` is a
corollary of it. `OfferSteps` does the same for offers: no row is ever taken away.
`AskedHasRow` (a price that was named has its row) is the invariant that `terms` needs.

`InvoicesImplementLedger` rests on `GrantsOnce`, which says of every callback in
progress that what is on its list it has not granted yet: each target leaves
the list when it is executed, and a grant is a member of `granted` under the
callback's name. The list that `ListTargets` reads is the whole of what `Ledger` calls
open, because the invoice is paid, and then all its targets are stored
(`PaymentSeesTargets`, `TargetsWanted`). A target is marked only by a callback that
has executed it, which is what `Settle` asks for.

That nothing unpaid is granted and that the courier named had an offer follow
from the contracts; the theorems `OnlyPaidIsGranted` and `OnlyOfferedCouriers` state
them by themselves, and no run repeats them.

`DealsProofs` follows one responder at a time (`PartyOK`): if the responder's calls
never overlapped there is at most one in flight, and for each statement it may
have reached `FitAt` says what was charged, which row stands and whether it still
lacks its order. The balance is exact but for the owner's refunds; `Due` counts
the callings-off that may still refund this responder, so that each refund has
been counted in `called` before it is made. An order whose chat somebody deleted, or
that went when the owner withdrew, is in `orphaned` from then on, and each fact
about an open order excepts those. Statements of others leave a
responder's rows alone (lemmas per statement), and `Confirm` and the cascade only
remove what `called` excuses.

The seats' half of `PurchasesProofs` counts: `seats_used` plus the hires about
to be counted is the cardinality of the workers, and a hire that was `alone`
since it looked still has the seat it saw, because every step that could take it
clears the flag. In `LiveHubProofs` each thread's script is one of the tails of
those the hub knows, and a report in progress fixes which set it left and which
it will enter, and that no city holds the peer but its own and those of `stray`;
every other thread's step either leaves places alone or sets `mixed`. A report from
a new city makes the old ones stray and forgets who was `told` before. For `TaxiMoney`, `BillingProofs` lists what each handler may be about
to write for each status it has read; a compare-and-set that succeeds then pays
once; for `RideLibrary` it keeps an account: what was billed plus the session in
progress covers the time since the arrival, and exceeds it by one half minute
per session closed at most.

The stores' half of `PurchasesProofs` ties each call in progress to the rows and
the history. A call whose key is not `tangled` (no other call about it overlapped)
runs alone (`RunsAlone`), and the row it has written is still there (`RowIsSaved`). A
transaction may be granted once more only while its row is missing or belongs to
a call that has not granted it yet (`Ungranted`); then what was granted before has
been revoked (`GrantedOnce`). `OneBuyer` and `RowMeansGrant` say the same of whom a row
names and what it stands for, notices with renewal info only included, unless a call died on it (`cut`) or failed after
granting (`spoiled`), which are the cases the properties except.

`MarketProofs` says whose the files are. A file that a listing or a request in
flight names was uploaded (`Used`) for it and for no other (`Apart`), unless some form
named it from outside, which `lent` records, or two edits of one listing overlap,
which `torn` records (`Sole`). So the files that an
edit's end removes are named by nobody else, and what the others name stays on
disk (`Intact`, `ReqIntact`). `FormKept` and `GroundsFound` carry what a request has read
and checked through its steps; `EditKeepsUnnamed` and `OnlyPaidReturns` then follow at
its write. The six kinds are gone through once, in lemmas on what they do alike.

`SearchProofs` needs no behaviour beyond the types: every table of typed rows
has these properties. A member of a finite, totally ordered set has a rank, and
the pigeonhole principle makes the ranks a bijection; so the set can be put in
order (`OrderExists`) and in one way only (`PlaceIsRank`). By age the order is not
total, but a match that is alone in its second has its place in every ordering
(`Placed`, `AgePlaces`), which is why two queries agree on the page it is on
(`PageByAge`), whatever they do to the others. The six kinds'
`GetPage`, `PostList` and `LikesList` are brought to one form (`GetMatches`,
`PostMatches`: which rows match), `liftListingsTopOnly` is shown to permute what
it is given, and page `p` to hold the places `(p - 1) * limit + 1` to `p *
limit`, so that each place has exactly one page, and a row moved within a page
does not leave it. `OpenHours` is a comparison for each of the five kinds of
hours.

## What is only model-checked

- Liveness (`SearchEnds`, `DispatchEnds`, `OffersResolve`, `CourierDispatchEnds`, `LapsedIsArchived`): temporal reasoning with
  fairness and `ENABLED` is out of the prover's reach.
- The disagreements: a counterexample is its own proof.
- `MCTypeOK`, as a property of the composition: each of its conjuncts is a theorem
  about the part it belongs to.

## Not modelled

- **Taxi search radius, next tick and geo index**: `Nearby` is arbitrary.
- **Amounts**: deposits, withdrawals, tariffs, tolls, prices of the courier.
  Commissions and payments are counted, not summed.
- **Deletion of a user** (`services/user_service.go:393`) and of a worker's account
  (`repositories/business_repository.go:263`), which delete orders, offers and listings
  under the handlers that hold them and, by `ON DELETE CASCADE` from `users`, the
  chats, confirmations and responses that name the user. `BusinessSeats` has what
  it does to the seats (`DeleteOwnUser`, `DeleteWorker`).
- **Drivers known to Redis only**: the taxi's dispatcher takes them out of the sets
  (`dispatch/dispatcher.go:191`).
- **The promotion cleaner's stale read** (`repositories/top_repository.go:87`): its
  read and its update are one step (`ClearExpiredTop`).
- **Executor subscriptions and business markers** of the location hub, and two
  creators of one chat.
- **`AddExtraDistance`, `ApplyDiscount`, `LogContactAttempt`** of the ride library.
- **Distance to the viewer** in searches, and text search.
- **Events to clients**: a lost event changes no table; clients read again.
- **Signatures, tokens, parsing, logging, telemetry**: decide only whether a
  request is taken.
- **Intercity, reviews, statistics, complaints, assistant, users, favourites**: one
  row per request, or calls to external services.

## Plan

What is left, most important first. Modules keep the same layout: parameters
and their named assumptions, one action per operation, invariants as
conjunctions of named parts, and no `RECURSIVE` operator.

1. `TaxiOrders` with the search radius and the limit of twenty nearest drivers,
   and with two orders per driver: both need positions or a second order, hence a
   run with smaller handlers.
2. The deletion of a user as an action of `TaxiOrders`, `CourierOrders` and `Deals`,
   with the rows it takes away.
3. An abstract specification that `StorePurchases` refines. It is not `Ledger`: a
   store's transaction is saved before it is granted, so the contract is "at
   most once", with the losses of a crash stated.
4. The stale read of the promotion cleaner in `Market`, and a subscription's length.
