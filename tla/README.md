# GoDrive in TLA+

A verification project for `godrive/`, the Go back end of a ride-hailing
service: models of its core, TLC configurations that check them on small
instances, and theorems about them that TLAPS proves for instances of any size.

The models describe the deployment the operations guide recommends: several API
and worker processes on one Postgres, offers in Redis, the transactional outbox
feeding NATS JetStream. Where a component also has a variant in memory that the
configuration may choose (offers, claims, positions, limits, idempotency keys,
the bus), the variant is part of the model as a choice of the initial state.

## 1. Inventory

### Core components

| Component (code) | State | Operations | Talks to |
|---|---|---|---|
| Trip service (`internal/trip`) | tables `trips`, `trip_events`, `outbox`; idempotency keys | Create, Assign, MarkArrived, Start, Complete, MarkPaid, Cancel, Expire, Rate | called by riders, drivers, matching, workers; emits `trip.*` through the outbox |
| Matching (`internal/matching`) | Redis: `offer:{id}`, `tripoffers:{trip}`, `claim:{trip}` (TTL 30 s) | Dispatch (rounds), Accept, Reject, WithdrawOffers | trip service (Assign, Expire), driver service (Reserve, SetStatus), location (candidates) |
| Driver service (`internal/driver`) | table `drivers`: status and version, KYC, documents, statistics, cached balance | Onboard, ReviewKYC, UpdateDocumentDates, GoOnline, GoOffline, Reserve, SetStatus, ApplyStats, ... | asks the trip service for an active trip, the ledger for the balance |
| Workers (`internal/app/workers.go`) | none of their own | consumers of `trip.requested`, `.assigned`, `.started`, `.completed`, `.cancelled`, `.rated`, `wallet.balance_changed` | every service above |
| Ledger (`internal/wallet`) | `ledger_transactions` (unique id), `ledger_entries` (insert only) | SettleTrip, SettleWalletTrip, PostCancelFee, PostRefund, TopUp | workers, payment, refund |
| Settlement (`internal/wallet/settlement.go`) | `settlement_batches`, `settlement_items` | Calculate, Pay | ledger |
| Outbox and bus (`internal/outbox`, `platform/eventbus`) | table `outbox`, streams, delivery counters, dead letters | Relay, Publish, Subscribe, Close | everything that emits or consumes |
| Payments (`internal/payment`) | `payment_transactions` | CreateIntent, HandleWebhook; ExpireStale, which nothing calls | gateways, ledger |
| Refunds (`internal/refund`) | `refunds`, audit log | Request, Approve, Reject, retry of the posting | ledger, trip service |
| Idempotency (`pkg/idem`) | Redis keys with a TTL | Reserve, Complete, Release | trip service |
| Identity (`internal/identity`, `platform/authn`) | OTP challenges, rate limits, revoked tokens | RequestOTP, VerifyOTP, logout, RevokeToken, RevokeAccount | every handler that asks who is calling |
| Pricing (`internal/pricing`) | quotes, the demand window per cell | Estimate, RecordRequest, SurgePermille | trip service, matching |
| Location (`internal/location`) | last position per driver | Ingest, Last Will, Nearby | matching, pricing, pushes |
| Settings (`internal/settings`) | versioned groups with history, a cached snapshot per process | Put, Reload, Current | everybody |
| Admin console back end (`internal/admin`) | audit log | ReviewKYC, UpdateDocuments, lists, counts, overview | driver service, identity (sign-out), refunds |
| MQTT authorisation (`internal/mqttauth`) | none | Authenticate, Authorize | the broker; token checks |
| Pushes and notices (`internal/app/realtime.go`, `notify.go`, `internal/notification`) | tokens of phones, FCM's access token | push, notifyTrip, DriverMoved, Register, DeleteDevice | bus, MQTT broker, FCM |
| Places (`internal/places`) | cache with a TTL | Autocomplete, Detail, Reverse | an external provider |
| Limits (`identity/otp_limit.go`, `platform/httpx`) | windows per number, buckets per address | Allow, Sweep | identity, every HTTP handler |

Not core: the admin user interface, logging, metrics, configuration, the load
generator and the type generator. `PROJECT.json` lists each with its reason.

### How the parts interact

A rider's Create leaves a SEARCHING trip and a `trip.requested` message. A
worker starts a goroutine that offers the trip to drivers in rounds. A driver's
Accept claims the trip in Redis, reserves the driver in Postgres, assigns the
trip, marks the offer and withdraws the others: five writes to three stores,
with no transaction around them. From then on the driver moves the trip along,
and consumers of its messages set `drivers.status`, post the ledger and mark the
trip PAID.

### What is hard here, and what must hold

* **Stale rows.** Every handler of the trip service reads, decides and saves in
  separate steps. Only `AND version = $14` and a partial unique index stand
  between a stale decision and the database. *The log is the trip's history; a
  driver has one live trip; each outcome is announced once and truthfully.*
* **No transaction around Accept.** *The claim admits one driver at a time; the
  accepted offer is that of the driver who got the trip.*
* **Two sources of truth about a driver.** `drivers.status` repeats what `trips`
  says, and is written by Accept, its undo, four concurrent consumers and the
  driver. *The status never lets a driver onto two trips; nobody is locked out
  for good.*
* **At-least-once messages, handlers with several effects.** *A retry does what
  the first delivery left undone, and nothing twice.*
* **Goroutines that outlive their message.** *A search comes to an end.*
* **Memory that runs out.** Keys in Redis, windows, caches and tokens have lives
  of their own, and sweeps run beside what they sweep. *What still counts is not
  forgotten, what has ended does not come back.*
* **Answers that overtake each other**: pings, positions, reloads, travel times.
  *The late one does not do lasting harm.*
* **Money in several transactions** (trip and tax; item and payout; payment and
  credit). *Nothing is paid twice, nothing is lost by a crash.*

The full list of hazards, each at its line, is in `PROJECT.json`.

## 2. Modules

| Module | Models |
|---|---|
| `TripStates` | the transition table and the sets of statuses other parts depend on |
| `TripLifecycle` | abstract: what the trip service promises, one atomic step per edge |
| `TripService` | the trip service and its store, each request in two or more steps |
| `Matching` | the search for a driver of one trip: goroutine, offers, claim, requests |
| `DriverStatus` | `drivers.status` against `trips`: Accept, consumers, redelivery, the driver |
| `Ledger` | the consumers of `trip.completed`, `trip.cancelled` and `wallet.balance_changed`: postings, PAID, statistics, cached balance |
| `PayoutBook` | abstract: what a settlement promises the accountant, one step per list and per payment |
| `Payout` | settlement: Calculate and Pay as loops of single statements, several jobs at once |
| `TopUps` | payments into the wallet: intents, notifications, the result and its posting, expiry |
| `Refunds` | refunds of one trip: Request, Approve, Reject, audit log, posting, notification |
| `Wallet` | the choice between `Ledger`, `TopUps` and `Refunds`, what is posted to the ledger one by one |
| `Delivery` | outbox, relays, JetStream consumers, pushes and notices, the phones of an account |
| `LocalBus`, `EventBus` | the in-process bus and its stop; the choice between it and `Delivery` |
| `Settings` | one group of settings: row and history, snapshots of the pods, PUT, reload, announcement |
| `Roster` | one driver's profile: registration, review, papers, debt, on- and offline, reservation |
| `Listing` | keyset paging while rows come and change |
| `BackOffice` | the choice between `Settings`, `Roster` and `Listing` |
| `Order` | sorting by a strict order, as `sort.Slice` and ORDER BY do it; used by `Listing`, `Candidates` and `Demand` |
| `Access` | codes, tokens, revocation and the checks of both |
| `Limits` | limits on codes per number and on requests per address, in memory and in Redis |
| `Presence` | one driver's pings, Last Will and connection, both location indexes, the search |
| `Fares`, `Demand` | what a ride costs; the demand the multiplier comes from |
| `Booking` | Create under one Idempotency-Key, in copies |
| `Candidates` | whom a round of the search asks: candidates, travel times and their memory, scores |
| `Offers`, `Claims` | how offers and the claim are kept in three stores, with the lives of keys |
| `Tracking` | positions of a driver on their way to the rider, one trip after another |
| `Lookups` | caches in front of others: addresses, FCM's access token |
| `Market` | the choice between the eleven modules from `Access` to `Lookups` |
| `TripService_proofs` | the theorems about `TripService` and their proofs |
| `Ledger_proofs` | the theorems about `Ledger` and their proofs |
| `Payout_proofs` | the theorems about `Payout` and their proofs |
| `TopUps_proofs` | the theorems about `TopUps` and their proofs |
| `Console_proofs` | the theorems about what the console works on, `Refunds` and `BackOffice`, and their proofs |
| `Matching_proofs` | the theorems about `Matching` and `DriverStatus` and their proofs |
| `Delivery_proofs` | the theorems about `EventBus`, that is `Delivery` and `LocalBus`, and their proofs |
| `Market_proofs` | the theorems about ten of the eleven parts of `Market` and their proofs |
| `MCTripService`, `MCPayout` | instances for TLC with symmetry; the other modules are instantiated by their `.cfg` files alone, which say what the instance is and why it has no symmetry |

### TripService

`trips`, `events` and `outbox` are the tables, per trip and in insertion order;
`rated` collects the `trip.rated` payloads, which bypass the outbox. `calls` is
what an HTTP handler or a consumer holds on its stack between its steps: the row
it read and what it is going to write. `Assign`, `Start`, `Cancel`, ... are the first
half of the method of the same name (Get, checks, decision: a failed check is a
guard, since it changes nothing); `Save` is the transaction of
`PostgresRepo.Save`: the row if its version is still the one that was read and
the unique index agrees, the event, the outbox rows. `Create` is an INSERT of its own
and the same `Save`. `Fail` ends a request at any point: a conflict, a
database error, a client that hung up, a killed process. Who may call what is not
checked here beyond "the trip has a driver": `DriverMove` acts for that driver.

### Matching

One trip. `loops` are the dispatch goroutines with their round and position,
one per delivery of `trip.requested`; `offers` and `claim` are the Redis keys;
`calls` are Accept requests and withdrawals, one step per read or write of shared
state. `ExpireOffers` reads and writes an offer at a time, so its two halves are
two actions. `UpdateStatus` is a GET and a SET, but only replaces the status, so
it is one blind write. An offer's `ExpiresAt` is modelled by where its loop stands: once
the loop has waited `OfferTTL` the offer is expired; while it waits it may be,
because `ExpiresAt` counts from before the offers were saved. Candidates, ranking and radius
decide *who* gets an offer: any set of at most `BatchSize` drivers. `Reserve` succeeds or
fails here; when, is `DriverStatus`'s subject.

### DriverStatus

`trips` moves by the transition table; `drivers` is the status column. A write to it is a
compare-and-swap on `drivers.version`. Where the code reads and swaps in
the same function without looking elsewhere in between, the successful swap is one
atomic step. Where it looks elsewhere, there are two: `ReadTrip`/`WriteStatus`
(`syncDriverStatus` reads the trip first and the driver's row only afterwards, so its
swap does not notice that the trip moved on), and `PressOnline`/`Resume`, where `online`
stands for "the version read is still current": any other write clears it. `papers`
says that the review and the dates of the papers let the driver work: without, `Reserve` and `PressOnline` refuse
(`EditProfile` and `ExpirePapers` change it at any time; `Roster` has it in detail). A sync whose read of the trip fails is
acknowledged all the same (`TripUnreadable`), so that nothing corrects the status afterwards.
`inbox` is, per message, where its consumer stands; `Nak` redelivers until
`MaxDeliver` deliveries have failed. Failing handlers, lost syncs and acknowledgements, dying
requests, failing assignments, edits of the profile and reservations for a trip that is already gone share
the budget `MaxFaults`.

### Ledger

Trips of one driver, from the moment they end. `trips` and `cash` are what the handlers need of
the trip's row; `messages` is, per published copy of the outbox row (`Copies`), where its
delivery stands; `workers` are the consumer callbacks that run at the same time, each with the
statement it executes next. `transactions` is `ledger_transactions` (`PostOnce` ignores an id it has),
`wallet` the sum over the driver's DRIVER_WALLET, `completed` and `cancelled` the increments of
the driver's counters per trip (the code keeps only their sums), `cached` the column
`drivers.wallet_balance`, and `news` the `wallet.balance_changed` messages. `HandlerFails` is a
statement that fails, a killed pod, a timeout or a lost acknowledgement: the message is
delivered again, up to `MaxDeliver` times. `Announce` may lose its message, because it bypasses the outbox and drops the error.
`syncDriverStatus`, the last call of both handlers, is left to `DriverStatus`.
Of each transaction only the entry on the driver's wallet is modelled, and of the
statistics only the two counters.

### Payout

`batches` and `items` are the two settlement tables; a batch is named by its period and
an item by batch and driver, as the UNIQUE keys make them. `payouts` holds what the
transaction `tx_payout_<batch>_<driver>` posted, `wallet` the sum over DRIVER_WALLET that
`DriversWithBalance` computes; `credited` and `charged` are its other two parts, which
trips, fees and refunds change at any time. `jobs` are running calls of Calculate or
Pay: each SQL statement is an action. `Post` may report an error and still have
committed; the error of `MarkItemFailed` is dropped; `Die` is an error that ends the
call, or a kill, between any two statements. `attempts` counts how often a line was
tried: it is not in the code. `PayoutBook` is what the accountant relies on, and
`Listed` maps the tables to it: a list exists once its batch is closed, and a SKIPPED line
is worth nothing.

The batch's totals are left out. The threshold is constant, although the settings can
change it between two runs (a run of Calculate reads it for every line).

### TopUps

`payments` is the status column of `payment_transactions`; an order is an intent, for one amount.
`webhooks` are requests being served, in whatever pod: `HandleWebhook` is that method up to and with the comparison of the
amount (none of it writes), `MarkResult` the conditional UPDATE, `AlreadySettled` its refusal, which is
answered like a success, `TopUp` the posting, `Answer` the answer. `WebhookFails` is an error, a kill or a lost
answer between any two of them. `gateway`, `told` and `GatewaySettles` are external: what became of the payment, and
whether the gateway has been answered; it notifies again also afterwards, since notifications may be late or
doubled. `credited` is the ledger, which takes an id once; `tries` counts the calls of `wallet.TopUp`, and is not in the code.

### Refunds

`refunds` is the table, `audit` the entries of the audit log, `posted` the ledger, which has a transaction per
refund, `notified` the refunds that were announced. `calls` are handlers; `Request` is the transaction of
`PostgresStore.Create` up to the sum (everything before it only reads what does not change), `Insert` its end.
In between it holds the lock of the trip's row (`TripLocked`). `Approve` and `Reject` are the halves that read the row, `Decide`
is the compare-and-swap. What follows is common: `Record`, then, for whoever holds an approved refund, `Look`
(`RefundPosted`), `Post` and `Notify`. The table's CHECK on two names is not a step of its own: `Approve` never gets that far.

### Delivery, LocalBus, EventBus

`row` is the outbox table, `stream` the JetStream stream, `inbox` where each copy stands at its consumers. A relay
takes a batch (`FetchUnpublished`: the locks end with the statement, so two relays may hold the same row), publishes row by row and
marks what went out; `PublishFails` counts an attempt, and a row with `MaxAttempts` of them is dead. Offers and withdrawals do not go through
the outbox: the engine publishes them itself, once, and drops the error (`PublishOffer`). `says` is what an event tells of: a trip
in a state without a driver concerns the rider's topic only, an offer whose time to answer is over (`Lapse`) nobody any more. `Deliver`, `Ack`, `Nak` and `AckWait`
are the durable consumers, whose lookup of whom to tell may fail; a copy that failed `MaxDeliver` times is given up (`GaveUp`), which nothing in
the repository counts or shows. `Push` tells the topics of a trip, `Send` one phone after another, whose answer (`Outcome`: accepted, token
gone, refused, try again) decides in `AfterSend` and `Returned` whether the message is acknowledged. `Crash` takes a pod's batch and handlers with it.
`LocalBus` has the lock and the WaitGroup of the bus in memory: a call is admitted and running, both counted, or, when the bus was closed before it was published,
inline: run by its publisher and counted by nobody, also after Close has returned.

### Settings, Roster, Listing

`Settings` follows one group whose value has two fields with a range and, where the code has one, an order between them; the other groups have the
same code. `StartLoad` and `Reload` are the halves of a reload, so two of them can overlap; `Probe`, `Put` (or `PutFirst` and `InsertFirst`, when the group has no row yet) and `Announce` those of a PUT. `EditByHand` changes the row in the database,
to a value that can be used or not, under the version it has and without an entry in the history; `byHand` remembers it.
`Roster` has one profile and requests that read it (`Begin`, `DriverBegins`, `OperatorBegins`) and write it later, `Update` unconditionally and `UpdateStatus` by
compare-and-swap; a day is a number, `Alerts` and the two counts are the papers seen by the console, SQL and memory. In `Listing` a row is the pair it is sorted by.
A sorted list is `Arranged` of `Order`: each element stands at the place that as many leave it as come before it. No keys are alike where the code sorts (an id, or the place in a list, breaks ties).

### The modules of Market

`Access` counts lives in seconds of one clock and lets at most `Delay` pass between reading the clock and writing with it (the
time-outs of the Redis client). `Limits` is a function of what was let through: the model keeps the history it is judged by and the window or bucket the code keeps. The shared bucket
is told the time by the pod that asks, which may be ahead of Redis by any of `Leads`: `level` is what was let through beyond what flowed in, and what flows in is time or a lead that the last pod did not have.
Codes that are sent because Redis failed (`unasked`) count like the others.
`Presence` measures ages instead of times, on a line of `Places`; whatever disturbs a driver (a lost connection, a fix that is off, a clock, an error) uses up `MaxEvents`.
`Booking` has a slot for the key and copies of the request at each statement of Create; `Lose` is a commit whose reply is lost. `Fares` has one state per quote,
all its properties being about neighbouring inputs: a unit more of length, duration or multiplier makes the fare at most a rounding step dearer, or, since a per mille of a fare
above a million is more than a thousand dong, that per mille up to a round sum. `Demand` has the map of each of the `Processes` that share the durable
consumer, keeps beside it the requests each was given, and judges a quote by those of the process that makes it (a process that starts again is another one, with an empty map). `Candidates` has the memory of OSRMETA per pair of cells
(two drivers to a cell) and rounds that look, ask and put back in separate steps; OSRM's answers change with time, so that old ones can be told from new; from a place without a way they are 0, as null is decoded, or -1 when the row is empty; of the parts of a score, travel time and acceptance are there, the
others add up in the same way. `Offers` has the records of one trip's offers and the two sets of ids, each with its own end, and lists, withdrawals and status writes that go through them one
read at a time; `Matching` has the same operations without lives but with every race of Accept. `Claims` is the claim with its time in three stores. `Tracking` has a driver who serves trips
one after the other and positions numbered as the device took them. `Lookups` has answers by the time they were given, which is all that matters of them.

## 3. Runs

| Run | Instance | Shows |
|---|---|---|
| `trip_service` | 2 trips, 2 drivers, 2 concurrent requests, 2 ratings; symmetric | all safety properties of the trip service, and that it implements `TripLifecycle` |
| `matching` | 2 drivers, 2 requests in flight, 1 goroutine, 2 rounds, 1 lapse of the claim | exclusivity of the claim, agreement of offer and trip, and that a search ends |
| `driver_status` | 2 trips, 1 driver, 2 deliveries, 1 fault | the driver is never on two trips; one with papers in order who is locked out by any of the races or a lost sync can get out again |
| `wallet` | 1 trip, 2 copies of its message, 2 handlers, 3 deliveries, 2 faults, tax on; 2 orders, 2 webhooks at once, 2 faults; 2 refunds of 1 or 2, 3 paid, limit 1, 2 clerks, 2 requests at once, 1 fault | PAID means posted, a trip is counted once, a completed trip becomes PAID; credited is paid and one webhook posts; refunds never exceed what was paid, rejected is not posted, two names above the limit, approved is posted in the end |
| `payout` | 2 periods, 2 drivers, 2 jobs, threshold 2, credits up to 2, charges up to 1; symmetric | a line is tried once, and the jobs implement `PayoutBook` |
| `payout_twice` | 1 driver, credits up to 3 | *violated*: two periods calculated before either is paid pay the same money twice |
| `top_up_lost` | 1 order, 1 fault | *violated*: a webhook that stops between its two transactions loses the money |
| `delivery` | 1 event: a match, an expiry or an offer; 2 pods, 3 phones, 2 attempts, 2 deliveries, 2 faults, 2 copies; the local bus with 2 publishers and a follow-up | published is on the stream; acknowledged is told; nothing of the outbox stays on its way for ever; Close outlasts the goroutines of the local bus |
| `back_office` | 2 pods, 2 PUTs and an edit by hand; 1 driver with 2 papers and 3 requests; 6 rows, 2 to a page | history explains what pods serve, but for what was edited by hand, and pods converge; the status stands on the current profile; four views of the papers agree; pages are complete |
| `setting_overwritten` | 2 pods, 2 PUTs, no fault | *violated*: a PUT changes fields it was not sent |
| `market` | eleven parts, each with the bounds in `market.cfg` | what is signed out stays out; limits hold; one trip per key; quotes are sound; the best are asked; offers and claims hold; a rider sees only the own ride; what is looked up is fresh; a driver who pings is found |
| `no_way_first` | 3 drivers in 2 cells, 1 of them asked | *violated*: who has no way to the rider is asked first |

`Wallet`, `EventBus`, `BackOffice` and `Market` compose parts that share no state: the initial state chooses one, and the state space is the sum, not the product,
of theirs. Properties of a part are guarded by that choice.

Bounds. Two requests and two trips are the smallest instance in which requests race on one
row and on the unique index; a third adds no new conflict, because each conflict is
between two writers (and the theorems below need no bound). In `matching`, two requests of
two drivers already give every pair of interleaved Accepts, retries of the same
driver, and an Accept against a withdrawal; a second round gives offers of different rounds,
and one lapse of the claim lets a slow request overlap a newer owner. In
`driver_status`, two trips of one driver are what a second reservation needs; a
single fault is enough for each way of losing a step, for a lost sync and for one edit of the papers, and several
reservations, assignments and redeliveries follow it. In `wallet`, trips do not interact except through
the wallet, so one trip suffices for its properties; two copies and two handlers give every pair of
racing and of overtaking deliveries, and two faults fall between any two statements of either; with one delivery more
than faults, not every delivery of a copy can fail, which is what `CompletedIsPaid` needs. In `payout`, two jobs give two Pays of one batch, a Calculate against a Pay and two Calculates
of one period or of two; balances below, at and above zero, below and at the threshold
occur. In `wallet`, too, two webhooks give a race of two
notifications of one order, a race with ExpireStale and a repetition after a fault; orders do not interact; two refunds of 2 exceed the
3 that were paid together and not alone, and an amount of 1 approves itself. No version of a trip exceeds 6: its
longest path has that many edges.

In `delivery`, two relays, two deliveries and two faults give a row published twice, a copy delivered after
it was handled, one phone that fails while the other is told, an event that concerns one side only, an offer that lapses, and each limit reached. In `back_office`, two pods and two PUTs give reloads and PUTs that overtake each other; two days, with the windows of 7, 15 and 30 days scaled to 0, 1 and 1 and dates up to the day after the last, put two papers before, on and after
every threshold but the last two, which only colour the console, together; three rows of one instant need the identifier in the cursor. In `market`: a token's life of 4 seconds leaves room for a second revocation after the first and for the first one's record to run out; 18 ticks
hold two windows of 9 and a day of 13; two pods a tick apart, asking in turn, fill a bucket of 3 again while the clock stands; two processes share three requests, so that each may have two and one nothing, and sweep at most once a minute, as in the code, with a window of three instead of five; three copies and two lives of a key give a copy that wakes up in the key's next life; lengths, hours and multipliers are the values around every rounding point, threshold and midnight, and one ride is long enough for a fare above a million (TLC's integers have 32 bits; the theorem has no such bound);
three drivers in two cells give a round with one travel time known and one missing, which is what putting back needs; one driver asked in two rounds whose records outlive the offers gives a set that must be prolonged;
two handlers, two rides and two positions give a position found during one ride and sent during the next; a memory cache of one entry and two keys is full at once. Storage faults are 1 or 2: one hits every read and every write there is.

Fairness. `Matching` assumes that the broker delivers `trip.requested` at least
once and that a running goroutine takes its next step (its timers fire); drivers,
riders and requests may stop at any time, and the goroutine itself may die, which
`SearchEnds` has to except: nothing resumes it (operations guide, section on the worker).
`DriverStatus` assumes that consumers and Accept requests run on, and that a driver who is
locked out keeps pressing "go online" while the papers allow it (`StuckDriverRecovers` promises nothing to one whose papers do not: GoOnline refuses him before it looks at his status); nothing is assumed of trips, which may stay
IN_PROGRESS for ever. `Ledger` assumes that a handler which runs gets on (each has a timeout of AckWait)
and that JetStream delivers a message that is ready; nothing is assumed of the refreshes of the cached
balance. `Refunds` assumes that a request which is served gets on, and that a clerk presses "approve"
again on a refund that the console shows as approved and not posted; strong fairness is needed there only because the model
serves a bounded number of requests at once. `Delivery` assumes that some relay's ticker, some consumer goroutine and the server's
redelivery timer run on; no pod has to stay alive. `LocalBus` assumes that a goroutine that can run does. `Settings` assumes that requests keep asking every pod for its settings (each request does) and that time passes;
no message has to arrive. `Presence` assumes that the app pings while it is connected, that what has arrived is taken in, that searches end and that time goes on. The other modules have safety properties only and assume nothing.

No run checks for deadlock: every one of these systems may come to rest, with all trips
finished and all requests answered.

### What the violations say

* `payout_twice`: the three layers against double payment guard a line, not the money: a batch
  lists the whole wallet whatever its period, and nothing reserves what an unpaid batch has listed.
* `top_up_lost`: "already settled" is taken for "already credited". Posting again in that branch would
  be safe, because the ledger ignores a transaction it has.
* `setting_overwritten`: the version compared is that of the row the console has seen, but the value merged onto is the snapshot of the pod, which may be older. Merging onto the row that is locked would do what the comment says.
* `no_way_first`: the element null leaves a float64 at 0. A pointer, or a look at the element, would drop the candidate as the comment and the test have it. `BestAreAsked` holds by what the engine was told.

### Other observations

Places where the code does something else than its comments, documents or neighbouring code say, or where a property above needed an exception. They are in the models, but have no run of their own.

* *Driver status.* A handler of `trip.started` that read IN_PROGRESS and was overtaken by the one of `trip.completed` leaves the driver ON_TRIP with no trip (against `app/workers.go:306`), and so does an error of reading the trip, which is acknowledged (`app/workers.go:319`); `StuckDriverRecovers` shows that "go online" is the way out, for a driver whose papers are in order.
* *Retries.* `MarkPaid` refuses PAID, so what follows it in `onTripCompleted` is done at the first delivery or never (against `app/workers.go:132`). The cancellation counter is incremented again by a redelivery.
* *Cached balance.* Of two overlapping refreshes the one that read first may write last (against `app/workers.go:259`).
* *Tax.* A crash between the trip's and the tax's posting loses the tax: the retry finds the first and returns.
* *Create.* A crash inside leaves a trip without events (query #4 of `docs/08-van-hanh.md:294`). A commit whose reply is lost releases the key, and a retry books a second trip (`trip/service.go:81`); `OneTripPerKey` excepts it.
* *Offers.* They become LOST although nobody took the trip, while the claim outlives a failed Reserve. Reject does not look at the status. `PendingForDriver` takes any failed read for a record that is gone and removes a live offer from the driver's set; `ExpireOffers` passes over an offer it cannot read, and stops at one that runs out under it (the settings allow ten rounds of 120 s, more than a record's ten minutes). A status written after a record ran out creates one without an end. In memory the owner who claims again does not prolong the claim (Redis and Postgres do); Postgres counts by the pod's clock, so skewed clocks shorten it.
* *Repeated events.* Msg-Id is there so that JetStream drops what a relay publishes again (`eventbus/nats.go:158`), but every Publish makes a new one (`eventbus/bus.go:84`, `outbox/outbox.go:277`): the stream keeps both copies, as in `Publish` of `Delivery`, and only what handlers do themselves keeps a repetition from having an effect.
* *Stopping.* Close "waits for every handler that is running" (`eventbus/bus.go:164`), and the stores are closed next (`app/app.go:412`). A closed bus still runs the handlers of a late publisher in the publisher (`eventbus/bus.go:127`), where nothing waits for them: a search or a request that outlives the shutdown has them work on stores that are being closed. `Drained` is about the goroutines of the bus, which are waited for.
* *Events.* A copy that failed MaxDeliver times is lost, and neither DeadCount nor anything else in the repository shows it.
* *Pushes.* `pushOffer` looks at the end of an offer only: a redelivered one may be pushed after its withdrawal. Positions queued on a phone that was offline are pushed to the rider of the trip that is under way when they arrive, also those from before it. `OnlyOwnRider` relies on a search being over before a ride requested after it is; ten rounds of 120 s would break that.
* *Settlement.* A job that dies between MarkItemPaid and Post leaves a line PAID without an entry; one that dies inside Calculate leaves a batch OPEN for good.
* *Refunds.* A repeated Approve posts without the audit entry that failed (`docs/07-todo.md:747`).
* *Settings.* A value edited by hand, if it can be used, is served with no entry in the history (against `settings/domain.go:12`, where every change leaves a trace); two first PUTs race into a database error. The form allows a multiplier up to 3000 and a window up to 3600 s, while a quote stops at 2000 and demand is kept for five minutes.
* *Profiles.* `Update` overwrites review, dates and cached balance by what was read; the version protects the status only. The console judges debt by the default limit, not by the one in the settings (`admin/service.go:295`).
* *Signing out.* An older RevokeAccount may overwrite a newer one (`SignedOutStaysOut` allows for `Delay`). Without Redis the revoker is a typed nil. MQTT's Authorize does not ask for revocation, its Authenticate does.
* *Limits.* The sweep of OTP windows goes by the day, so an hour may hold the codes of three windows (against `otp_limit.go:94`); both limiters in Redis let everything through when it fails. The bucket that is one for the whole cluster (`httpx/ratelimit_redis.go:13`) is told the time by the pod that asks, takes a negative difference for 0 (line 57) and stores the older time all the same (line 66): pods whose clocks differ and who ask in turn fill it by the difference each time. Using the later of the two times, or the clock of Redis, would make it one bucket. `LimitsHold` says what holds as it is: the differences of the clocks flow in, too.
* *Demand.* Surge is to follow the requests counted in a cell (`pricing/surge.go:11`). The map is in the memory of a process, and every API pod and every worker joins the one durable consumer (`app/workers.go:25`): a quote divides the share its own process was given by the whole supply, and the share of a worker, which makes no quotes, counts for nothing. `QuotesAreSound` says what holds: a process counts all that it was given itself.
* *Positions.* A clock that is ahead keeps a driver fresh, one more than StaleAfter behind keeps him from ever being found; a reader's removal of an orphan may take a new entry with it until the next ping. Some readers use the fixed StaleAfter rather than the setting.
* *Caches.* An older answer may overwrite a newer one, in the travel times and in the addresses; ages stay within the life and the time of a request. FCM's token is not renewed on 401.

## 4. Proofs

`TripService_proofs` proves, for any sets of trips, drivers and concurrent
requests: `TypeOK`, `LogIsHistory`, `OneActivePerDriver`, `OutcomeAnnouncedOnce`,
`MessagesAreTrue`, `RatedOnce`, and that `TripService` implements `TripLifecycle`. The
only assumptions are that `NoDriver` is no driver and `NoRating` no rating
(`NoneAssumption`).

None of these is inductive alone. The argument:

1. `RowsSound` says what a row can look like: a trip that was not cancelled has exactly the
   version of its depth in the state machine (SEARCHING is 1, ASSIGNED is 2, ...), has no driver before
   ASSIGNED, and has one from there on.
2. `SnapshotsFresh` is the heart: *a request whose version still matches holds the row as it is
   now*, status and driver (not the rating, which `Save` does not write). Hence a `Save`
   that passes its check decided on the present, and one that decided on the past fails.
3. `DecisionsSound` says what a request may be about to write: an edge of the table from the
   status it read, the driver it read or, for ASSIGNED, one of the drivers, a fee only where one is due.
4. `Core`, the conjunction of these and `TypeOK`, is inductive, with one step per action. With it,
   `LogIsHistory` is inductive (a `Save` appends an edge from the current status), and so is
   `OneActivePerDriver` (only a `Save` makes a trip live, and the index admits it).
5. `MessagesSound` and `RatingsSound` extend it to the outbox (every business message belongs to one
   version, and the version determines the move) and to the rating (at most one
   request ever reaches `PublishRated` for a trip).
6. The refinement maps `Create` to `Request`, a `Save` to ASSIGNED to `Match`, any other
   `Save` to `Move`, and the remaining steps to stuttering.

`Ledger_proofs` proves, for any sets of trips, handlers and copies, and any bounds on deliveries and
faults: `LedgerTypeOK`, `PaidIsPosted` and `CountedOnce`. It assumes `LedgerAssumption` (amounts and
bounds are natural, at least one delivery, `Nil` is neither a trip nor a copy). The inductive invariant adds:

1. `HasMessage` and `ReadyAgain`, which `LedgerTypeOK` needs: a handler of a trip knows its message, and a message with
   no deliveries left is not ready.
2. `PostedFirst`: a handler that has passed the trip's posting, or found it, finds it in the ledger ever after. Hence
   `MarkPaid` marks only posted trips.
3. `NotYetCounted`: nothing is counted before PAID, and a handler that is about to count has a trip that is
   PAID and not counted.
4. `OneCounter`: no two handlers are about to count the same trip, because `MarkPaid` refuses PAID. With 3,
   `CountedOnce` is inductive.

Most steps neither mark nor count; `QuietStep` covers what they leave alone.

`Payout_proofs` proves, for any sets of periods, drivers and jobs: `TypeOK`, `TriedOnce`, and that
`Payout` implements `PayoutBook`. It assumes (`PayoutAssumption`) a positive threshold, natural bounds,
and that `Nothing` is neither a driver nor a list. `TriedOnce` and the refinement need to know who
is entitled to what, so the inductive invariant `IInv` adds:

1. `OneCalculation`: a batch that is being calculated is OPEN, and only the job that created it does so.
   Hence nothing changes a list after it is closed.
2. `PaysPublished`: a job inside Pay works on a batch whose list is closed.
3. `OneClaim`: the line a job is about to post says PAID, has not been posted, and no other job holds it.
4. `Untouched`: a line nobody claimed has neither been tried nor posted.

The refinement maps `CloseCalculated` to `Publish` and a `Post` that commits to `PayOut`; all other
steps stutter (`Unseen`). It does not show that a driver is paid no more than was earned: that is
false, as `payout_twice` shows.

`TopUps_proofs` proves, for any orders, requests and bounds: `TopUpTypeOK`, `CreditedIsPaid` and `PostedByOne`. The invariant
says that a request past `MarkResult` is the only one of its order (`OnePoster`), that nothing was posted before it (`FirstPost`,
`NotYetPosted`), and that SUCCESS is written only for what the gateway calls paid (`SuccessIsPaid`, `Checked`).

`Console_proofs` proves, about `Refunds`, for any refunds, clerks, amounts and requests: `TypeOK`, `PostedIsApproved`, `TwoPeople` and `NeverMoreThanPaid`. A
handler acts on what it read and wrote earlier; `Deciding` and `Believing` say that the row still agrees: by `Decide`, APPROVED is
final, and the one who is about to approve is not the one who asked. `Inserting` says that the lock admits one insertion at a
time, so that no two handlers create the same row. `QuietStep` covers the steps that leave the table alone.

`NeverMoreThanPaid` needs what a fold over a set computes. The installed provers cannot use the library's induction
theorems, but they can use the least-number principle, which has no operator for a parameter: `Least` and `SetInduction` are induction over
the naturals and over finite sets for a *set* in place of a predicate. With them, `AddsExists` and `AddsUnique` show that the function the fold
stands for exists and is unique, `TotalOne` that a row more adds its amount, and `Budget` is inductive: the amounts that stand, and the one that
is about to be inserted under the lock, stay within the fare.

About `BackOffice` it proves, with the types of all three parts (`OfficeTypes`):

* `HistoryExplains`, for any pods, PUTs, edits by hand and faults. `SettingsSound` follows a snapshot from the table to the pod: whatever was read, by a reload, a probe or a pod, is a
  version of the history, or what somebody made of one by hand (`byHand`), however late it is stored, because both only grow and the row is the last entry or the last edit.
* `CountsMatchGate`, for any papers, dates and thresholds with urgent <= soon <= window. It follows from the types, but not from any one definition: four functions of the code, written separately, split the days at the same places.
* `StandsOnCurrentProfile`, an action property, for any requests and papers. `RosterSound`: a request that was allowed has a version not above the profile's, and *while the two are equal what it looked
  at is what is there*; so a swap that succeeds on the version stands on the present.
* `PagesComplete`, for any times, ids and page size. `ListingSound`: what was shown descends to the cursor, and every row that was there throughout and is not below the cursor was shown. That a page is a prefix of the sorted rows
  rests on `ArrangedSorts`: `Arranged` has every element of a finite set once and in order, for every strict total order, by counting what comes before each.

It assumes `OfficeAssumption` (natural bounds, sorted thresholds, times and ids finite and not zero, which is the cursor's empty value, and a page with a row on it) and `ProfileAssumption` (no profile is not a profile).

`Matching_proofs` proves, for any drivers, goroutines, requests, rounds and lapses of the claim: `TypeOK`, `ClaimIsExclusive` and
`AcceptedIsTripDriver`. It assumes `MatchingAssumption` (natural bounds, at least one round, `NoDriver` is no driver). `DeciderHasClaim` holds while no claim ran
out: whoever is past the claim and has not given it back is its owner. The other property holds also when claims run out. `Winners` are the offers that are
ACCEPTED or about to be; `OneWinner` says that there is at most one, that its driver is the trip's, and that there is none while the trip is searched for.
A winner comes into being only with the Save that ends SEARCHING, and the trip never returns to it: the claim keeps requests from working in vain, the version makes the winner.
About `DriverStatus` it proves `OneTripPerDriver`, for any trips, drivers and bounds, without an assumption: no write of `drivers.status` is needed for it, and none can spoil it, because a trip
comes under way only by the Save that the unique index lets through (`MovesKeepOne` for all other moves).

`Delivery_proofs` proves about `EventBus`, for any events, pods, phones and bounds: `TypeOK`, `PublishedIsOnStream`, `AckedIsTold` and that the bus in
memory drains. It assumes `DeliveryAssumption` (bounds as in the code, no phone of both). `DoneIsOnStream` says that a relay's list
of what it will mark is on the stream, `CallsTell` that a handler which saw no transient failure has told whomever it no longer has on its list. A crash empties list and handler, and with
them what these promise. For the bus in memory the invariant `Counted` says that the WaitGroup counts exactly the goroutines
admitted or running; so `Wait` returns only when there is none, and `closed` admits no other. `Nested` adds that what is run inline is run by a publisher that has not returned,
so that a follow-up which outlives Close has a handler from outside above it. `AckedIsTold` holds for changes of any trip, with or without a driver, and for offers that have not lapsed.

`Market_proofs` proves about `Market`, part by part, the following. Its assumptions are in `Market` and evaluated by the run.

* `SignedOutStaysOut`, an action property, for any lives of tokens, records and codes, any skew and any delay. `KeptOut` says of each token whose holder was told "signed out": it has
  ended, or its own record lasts as long as it does, or the record of its account does, is later than the token by more than the skew, and stays so however late an older
  revocation is written over it. It assumes that a token lives no longer than the record of its account: 24 hours and 30 days. The first is a
  setting without an upper bound (`ACCESS_TTL`): with more than 30 days, a signed-out token would come back.
* `LimitsHold`, for any cooldown, limits and intervals, an hour no longer than a day. `DayHolds` and `HourHolds` bound what was sent since the window began and in the one before, so that
  any interval, which overlaps two of them (three after a sweep), is within the multiples; the codes are counted as finite sets. `Counting` and `Brimming` say that a bucket
  holds at most what was not yet let through, and that one which was dropped would have been full, because `IdleTTL * Rate >= Capacity` (ten minutes of 30 a second for 60); a
  bucket a pod ahead has filled is balanced by the lead that flows in, for any leads. Each failure of Redis adds one code or request.
* `OneTripPerKey`, for any number of copies and lives of the key. While no commit's reply is lost, one copy owns a life (`OneOwner`), a life has one trip, and it is the owner's (`OneLooked`), and whatever a slot or an answer
  names is there (`NamedIsLooked`).
* `OffersHold`, for any drivers asked, offers, lives and clocks. `OldOnes` is what makes lists and withdrawals sound although they read one offer at a time: an offer of an earlier round never
  becomes pending again. `Findable` says that in Redis a pending offer is in both sets and they live as long as it does; `ListSound` and `SweepSound` say what is left to read.
  For the claim, `Guarded` keeps for every "yes" that its owner has it or has had his time, less the largest lead of a clock in Postgres (`Slack`).
* `OnlyOwnRider`, for any rides, handlers and positions: the ride under way is the last one assigned (`RidingIsLast`), and a handler that looked up
  the rider holds a position measured before the ride ended, if it has ended since (`NotAfter`).
* `LookupsAreFresh`, for any askers, spots, sizes and lives, with `Lag <= Margin` (10 s and 5 minutes) and `2 * Lag < TokenLife` (an hour). `Young` bounds the age of what is
  kept, told or sent, `Exchanging` lets one exchange of tokens run at a time, and the size of the memory is counted as a finite set.
* `QuotesAreSound`, the part of `Fares`, for any route, hour, window of the night and multiplier. `FareInv` says only where a quote comes from; the property is arithmetic about `computeBase`, `MulPermille` and `RoundTo`, which the solver
  decides when each lemma has one product or one quotient: a metre or a second more is at most 12 dong more (`BaseRises`), 14 with the night's share, and that at most a rounding step after any multiplier up to 2000 (`PaidForMore`); a per mille
  more of demand is at most a thousandth of the fare, up to a round sum (`PaidForSurge`). Here the first statement of the property was false: it allowed a step of a thousand dong, which a fare above a million exceeds. The run now has such a fare.
* `QuotesAreSound`, the part of `Demand`, for any processes, cells, lateness of consumers and intervals of sweeping. `DemandInv` says of the times each process keeps of each cell (`Fits`) that, counted from any moment on, they are never more than the requests it was given,
  and exactly those from `Late` after the start of the window on; and that no time is older than a later one by more than `Late`. The last part is what makes `sweep` right, which looks at the last time of a cell alone. Surge follows the count
  because the multiplier is the largest of a set that grows with requests and shrinks with drivers (`SurgeFollowsDemand`).
* `BestAreAsked`, for any drivers, weights, sizes of a batch and rounds at once. `SearchInv`: whatever the memory or a round has was said of that cell (a duration, or 0 for no way), not after now, and what a round took from the memory was younger than its life
  (`Remembered`, `Told`); a round has each driver once (`Lists`). `LaidOutTold` is the step a review would look at: the answers come in the order of the places that missed, so each is put back where it was asked for.

A step of one part leaves the others alone, so each invariant is proved against `MarketNext` by one lemma (`AccessStep`, `LimitsStep`, ...).

The type invariants of the modules with theorems are proved (those of the parts of `Market` as the first conjuncts of each invariant, `AccessTypes`, `LimitTypes`, ...), so no run checks them;
those of the other modules are stated where they are and were used while building them, and the runs are spent on what could be wrong.

Only model-checked is liveness, which is out of the prover's reach (fairness, ENABLED): `SearchEnds`, `StuckDriverRecovers`, `CompletedIsPaid`, `ApprovedIsPosted`,
`NothingForgotten`, `StopCompletes`, `PodsConverge` and `PingingIsFound`. Of `StopCompletes`, the safety half is proved (`StopDrains`). Every invariant and every action property that a passing run checks is a theorem.
`Presence` has no theorem: what it promises is that a driver gets out of a wrong state again, not that there is none.

## 5. Not modelled

Geometry and floating point (distances are places on a line, scores are integers); wording and layout of payloads; signatures, hashing and encryption; HTTP; metrics and
logs; the overview and the live map of the console, which only read; statements and the platform's side of the ledger; where quotes are kept; bank accounts; counters of offers, of fraud flags
and of idle drivers; the load and type generators, start-up and the user interface. `PROJECT.json` says for each component what is left out. Conversions between a payload and the fields a
consumer reads are exact in the code (both sides are written in this repository) and left out. MemoryRepo, the stores of tests for trips, drivers and money, is modelled only where it says something else than Postgres (lists, counts, the active trip).

## 6. Plan

Done: trips, matching, the driver's status, the ledger's consumers, settlements, top-ups, refunds, delivery, the back office and what happens around a trip. What is left:

1. Safety halves of what is only model-checked: `Presence`, where a fresh driver stands in the index where he said he was, and `DriverStatus`, which wrong states of the column there are.
   The proofs about top-ups and refunds, both about money coming in and going back, can share a module, and their lemmas on sums can serve both.
2. `Ledger`: the tax that a crash between two postings loses for good, the cancellation counter, the rider's wallet, which two trips can overdraw together.
3. Quotes and their life; the counters of offers.
