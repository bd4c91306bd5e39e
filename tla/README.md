# Event ticket booking: specifications and proofs

TLA+ modules for the services in `src/` and the buyer's pages that follow them: what each
part does, what has to hold whatever its processes, requests and failures
interleave, TLC runs on small instances and TLAPS proofs for all of them. Sources
are cited as `<service>/<path>:<line>` below `src/`.

## 1. The system

Node.js services around Firestore, Redis and Kafka, and a Next.js front end.

| Component | State it keeps | Operations | Modelled in |
|---|---|---|---|
| event: sharded inventory (`event/src/services/inventory.service.js`, `event/src/inventory/`) | Redis: a meta hash, a version and one counter per shard for each ticket type | seed at publication, reserve (one script per probed shard), release | `Sharding`, `Inventory`, `StockCounter` |
| booking: reservations (`booking/src/services/reservation.service.js`) | Redis: `hold:*`, index `hold_expiries`, `user_hold:*`, `reservation:committed:*`, `lock:confirm:*`, idempotency records | create, cancel, confirm, late commit, buyer claim | `Reservation` (create, cancel, confirm), `Booking`, `LateCommit` |
| booking: reaper (`booking/src/scripts/reservation.reaper.js`) | `lock:reap:*`, snapshots `reservation:expired:*`, schedule `auto_cancel:due` | one tick every few seconds | `Reservation`, `LateCommit` |
| booking: auto-cancel worker (`booking/src/workers/auto-cancel.worker.js`) | `lock:auto_cancel:*` | one tick every few seconds | `Reservation`, `LateCommit` |
| booking: order commit (`booking/src/services/order.service.js`) | Firestore: orders, tickets, `reservation_commits` | create an order from a paid hold, look it up by claim | `OrderCommit`, `CommitOnce` |
| booking: payment event handlers (`booking/src/kafka/`) | Redis dedupe keys | confirm or late-commit on PaymentSucceeded, annotate or cancel on the others | `LateCommit` (PaymentSucceeded) |
| payment: intents (`payment/src/services/payment.service.js`, `payment/src/routes/payment.intent.routes.js`) | Firestore: intents; Redis: idempotency records, `tx:*` records of the mock provider | create, mock payment, update, refresh, publish | `Payment`, `PaymentOnce` |
| payment: refunds (the same service) | Firestore: refunds | look up or create, pay back, publish | `Refunds`, `PaymentOnce` |
| payment: methods (the same service) | Firestore: methods; Redis: the list per user | add, update, delete, set default, list | `PaymentMethods` |
| shared: Kafka (`shared/kafka/kafka.service.js`) | consumer offsets, retry and dead-letter topics | consume, publish to retry, re-drive | `Delivery` |
| shared: Redis (`shared/redis/`) | keys and tag sets in Redis | get/set with serialisation, scripts, locks, tagged cache entries | `TaggedCache`; its effects in `Reservation`, its lock in `Catalogue` |
| event: lifecycle (`event/src/services/event.service.js`) | Firestore: events, attendees, slugs; Redis: three views of an event, pages of attendees | create, update, publish with seeding, cancel; attendees | `EventLifecycle`, `TaggedCache` |
| event: availability (`event/src/services/availability.service.js`, `event/src/kafka/handlers/`, `event/src/adapters/broadcaster.sse.js`) | Redis: snapshot, etag, last versions; memory: reads in flight, timers, SSE clients | consume a change, nudge, read or join a read, push | `Availability` |
| ticket: ticket types (`ticket/src/services/ticket.service.js`) | Firestore: types; Redis: list, lock; the event service's copies | create, update, publish, delete, announce, copy | `Catalogue` |
| user: organizers (`user/src/services/organizer.service.js`) | Firestore: applications, users; Redis: copies and lists | apply, edit, decide, cancel, delete | `Organizer` |
| frontend: checkout page (`frontend/src/app/checkout/[rid]/page.tsx`) | the page's state, timers and requests in flight, a record in the browser's storage | load, create a payment, poll, leave, return | `Checkout` |
| frontend: stock on an event's page (`frontend/src/app/events/[slug]/AvailabilityClient.tsx`, `frontend/src/hooks/use-availability-polling.ts`) | the page's state, a stream, a grace timer, polling loops | follow the stream, poll while it is silent, render, leave | `StockPage` |
| frontend: query cache (`frontend/src/lib/queryClient.ts`, eight hooks under `frontend/src/hooks/`) | one entry per page's data: what is shown, a request, mutations under way | mutate, answer, fail and undo, fetch again | `QueryCache` |
| frontend: files of forms (`multi-document-uploader.tsx`, `DocumentUploader.tsx`, `EventCreationModal.tsx`) | the list of files, selections being read, a submission | choose, read, remove, submit, close | `EventForm` |
| auth, notification, media, ocr-service, analysis, other pages | | thin wrappers, output, files, rendering and forms | not modelled |

How they interact: booking calls the event service over HTTP to reserve and
release units and the payment service for the status of an intent and for
refunds; its HTTP handlers, the reaper and the worker meet only in Redis, where
each command or script is atomic and nothing else is. Inventory changes and
reservation and payment events go through Redis pub/sub and Kafka.

What is hard in this code:

* **Interleaving.** Every `await` of a handler is a point at which another
  request, the reaper or the worker may change the same keys. Create, cancel,
  confirm and reap each take a different lock or none.
* **Expiry.** Holds, user holds, locks, snapshots and counters have TTLs, and the
  handlers act on the same moments the TTLs end at.
* **Failure.** Clients turn a failed call into a value (`ok: false`, `null`), so
  that "failed", "not there" and "done, but the answer was lost" look alike.
* **Restart.** A process may die between two chunks of an order or two steps of
  a reaping; what is left has to be completed or got over.
* **Order of delivery.** Versions of the stock decide which message is new;
  retried messages overtake or are overtaken.
* **Copies.** Nearly every document has cached copies in Redis, which readers
  fill while writers delete them, and some decisions are made from a copy.

What makes each component correct: the inventory never hands out a unit twice
and loses none while its keys live; a reservation's units are out exactly as
long as it is held or ordered; an order appears whole and once; what is paid is
ordered or refunded, not both; nothing waits in an index for ever; a final
payment status stays and is announced; a refund is paid once; a message is
handled, dead or ahead of a consumer; a copy does not outlive the change that
outdates it; a client ends up with the stock as it is; a code on the screen is
polled; a page has one source of the stock. `PROJECT.json` lists the hazards
line by line with the property that covers each, or why none does.

## 2. Modules

* **`Sharding`**: `allocateShards`, the probe order, and the positions of the
  keys the seeding script fills, as pure operators.
* **`Inventory`**: one ticket type (types share no key). `shard`, `version` and
  `keys` stand for the Redis keys, `req` for the requests in flight. `Seed` is
  `seedSharded` with `seed.lua`, `Start` is `reserve` up to the probe order,
  `ReserveOk` and `ReserveShort` are one run of `reserve.lua` on a probed shard,
  `Release` is `release.lua`, `Expire` the end of the TTL. A missing counter reads
  as 0 in every script, so the two are one value. The shift between the key list
  of `seedSharded` and the script's is modelled as it is (`ShardKeyPos` against
  `FilledPos`).
* **`StockCounter`**: what booking relies on, one counter per ticket type.
  `MCInventory` shows `Inventory` to implement it, with the sums over the shards
  as the refinement mapping.
* **`OrderCommit`**: `createFromReservation`. One action is one Firestore
  transaction of the chunk loop; attempts overlap and crash. `store` says whether
  a transaction may read after it has written (the fakes of the tests allow it,
  the Firestore SDK does not).
* **`CommitOnce`**: what the order service promises: everything at once, one
  attempt told "committed", the others "already". `OrderCommit` implements it
  with the tickets counted as issued when the ledger entry exists.
* **`Reservation`**: every step between two awaits of create, cancel, confirm,
  the reaper's tick and the worker's tick, for any number of reservations,
  handlers and users. `create` is the step each creation is at, `work` the step,
  reservation and loaded lines of each handler; the other variables are Redis
  keys, the units out per line (`net`), payments, orders and refunds. `client`
  is the Redis client: `typed`, the one the code and its tests assume, or
  `ioredis`, the deployed one, with which hold, lock values and flag are stored
  in a form that some readers do not understand (`StoredHold`, `Matches`,
  `StoredFlag`). The stock is `StockCounter`'s and an order one step, as
  `CommitOnce` says, so that the modules compose. `past` is history: `troubled`
  names the reservations that met a failed call, two handlers at once or a lapsed
  hold, `missed` those whose hold was looked up in vain or not deleted.
* **`Booking`**: what the service promises about one reservation: asked for, held
  or given up, a hold ordered or given up, neither ever undone; only what is paid
  and not refunded is ordered, and an order is not refunded. `Reservation`
  implements it once for each reservation (`Promise(r)`); `Fate` reads from the
  steps, units and orders which of these a reservation is, and "unknown" of those
  that `Balanced` leaves out.

* **`LateCommit`**: a payment that succeeds around the end of its hold: the
  handler of its event, confirm over HTTP and the worker, which meet in
  `confirmReservation` and `attemptLateCommitFromSnapshot`. Holding, reaping and
  ordering are single steps, as `Reservation` and `OrderCommit` have them.
* **`Payment`**: an intent lives twice, as a document and as the mock provider's
  Redis record. `call` is where each request is: creation (`CreateLook` to
  `CreateAnswer`) with its idempotency record, the mock payment (`MockPay`,
  `MockPaySet`), `updateIntentStatus`, `confirmByIntent` (`Refresh`, `Settle`),
  and publication (`Tell`). A write to Redis that fails is not noticed: the mock
  payment goes on to the intent all the same. `wired` says whether the service has been given its
  providers; in this repository nothing sets `this.providers`.
* **`Refunds`**: `createOrGetRefund`, each query and write a step, against a
  provider that may pay back without being heard. The intents are those of the
  abstract `PaymentOnce`.
* **`PaymentOnce`**: what payment promises: an id opens, settles once and is
  announced as it settled; `Payment` and `Refunds` both implement it.
* **`PaymentMethods`**: the default among a user's methods: one transaction, one
  batch, single writes, and a cached list that deletion relies on.
* **`Organizer`**: a user's applications. `copy`, `fetch`, `list` and `query` are
  the caches and what is being fetched into them, because creation decides from
  the list and edits write back a status read from a copy.
* **`Checkout`**: the page over several visits: `timer` is what `pollRef` holds,
  `loose` the timers it has lost hold of, `flights` the polls in flight,
  `stored` the browser's record. A page that has been left goes on until its
  requests are answered. In the history, "loose" says that a payment began
  while such a timer of an earlier one was still to fire.
* **`Delivery`**: `KafkaService` on one partition: the consumer with its manual
  commits, `Forward` to the next retry topic or the dead letters, the global
  retry consumer with batches that resolve offsets, restarts that go back to
  what is committed, and the failures each of them passes over.
* **`Catalogue`**: extends `Delivery`. Ticket types changed under
  `executeWithLock`, announced with `Send`, handled by the event service's three
  consumers (`Handle`). `answers` is the Redis client: the deployed
  `RedisService.set` drops `nx` and answers `true`, so that the lock is never
  acquired; with the other client the lock works.
* **`TaggedCache`**: `set` with a tracking key, `getOrSet` and
  `invalidateByTrackingKey` with its chunks, as used for an event's attendees.
  An entry is `fresh`, `stale` (right when it was stored) or `late` (read before
  a change and stored after it).
* **`EventLifecycle`**: an instance of `TaggedCache` with the three views of an
  event, plus `publishEvent`, `updateEvent`, `cancelEvent`, the four deletions of
  `_invalidateEvent` in their order, and the reads that store what they found
  themselves, then once more.
* **`Availability`**: from `_afterChange` over the topic, the consumer with its
  last versions, the nudge, the coalescing timer and `getBySlug` with its joined
  reads, to a client's screen. A push holds the set of sinks that it found, which may
  not be the one under the slug when it is answered (`Sinks`, `Show`), and looks into
  the cache before it joins or starts a run (`LookUp`). Counts are kept as those of
  the stock, older ones, or the zeros of a failed read.
* **`StockPage`**: the stream and the polling of an event's page. React applies a
  state change when it renders, so `Render` is where the hook's effect is cleaned
  up and run again, after any number of other steps; `running` is what it last
  saw. `loop` is where each polling loop is; `ours` says that its run of the
  effect is not stopped, `kept` that `timerRef` or `ctrl` holds it, which is what
  a clean-up reaches. `doubled` is history: a 304 was answered in this run.
* **`QueryCache`**: one entry of the query cache and the mutations on it. What the
  hooks differ in is a `Mode`: what `onMutate` shows before the answer, whether
  `onError` restores the entry of before, whether a failure is followed by a new
  request. `Modes` says which ones a page has. `Broken` is an entry that is no
  response any more, as `usePaymentMethods` and `useUserApplication` make of it
  until the next request is answered. The library (`cancelQueries`,
  `invalidateQueries`) is modelled by what it does with the entry's request.
* **`EventForm`**: a list of images, or a single document, that is chosen, read
  and removed while the dialog is submitted, closed and opened again. `base` is
  the list that a handler's closure holds. Files added together are a set: their
  order among each other is left out. `wanted` and `crossed` are history.

`MC*` modules and `.cfg` files instantiate them for TLC. The theorems are in
modules of their own: `Inventory_proofs` (extends `MCInventory`, for the sums over
shards), `OrderCommit_proofs`, `Payment_proofs`, `Reservation_proofs`,
`Catalogue_proofs` (`Catalogue` and the `Delivery` it extends), `Records_proofs`
(extends `MCRecords`: `Refunds`, `PaymentMethods`, `Organizer`, `Checkout`,
`LateCommit`) and `Events_proofs` (extends `MCEvents`: all of its parts). `Sums`
holds what several of them need: induction over the natural numbers and over the
subsets of a finite set, and the laws of `SumFunctionOnSet`. Definitions whose comment says "mutant" are deliberate errors: each
property of a passing run has one which makes it fail.

## 3. Runs

| Run | Instance | What it shows |
|---|---|---|
| `inventory` | 3 requests for 1 to 3 units, 10 units on 4 shards, 2 probes, up to 2 releases each | `TypeOK`; `StockAccounted`: per shard, units in it and out of it add up; `NoOversell`: what is held and what is left exceed neither a shard's share nor the capacity, but for the units that repeated releases brought back; `DistinctVersions`; `StockSpec`: refinement of `StockCounter`, until a release is repeated |
| `seed_sum` | the same, 1 release each | **violated** `SeededInFull`: the shards do not add up to the capacity after seeding |
| `order_commit` | 3 attempts, 6 tickets of 2 types, chunks of 2 | `TypeOK`, `LedgerMeansComplete`, `IssuedOnce`, `CommitsOnce` (refinement), `PaidIsCommittedLenient` (liveness) |
| `order_strict` | the same, strict store | **violated** `PaidIsCommitted`: the transaction reads after it writes and is always rejected |
| `reservation` | 1 reservation of 2 lines, 1 handler and 1 reaper/worker at once, 1 fault, both clients | `Balanced`: stock, orders and refunds agree; `HoldIndexed`; `IndexDrains` (liveness); `PromisesKept`: refinement of `Booking`, for each reservation |
| `holds` | 2 reservations of 1 user for the same units, 1 handler, both clients; for one unit and the typed client also 1 fault | `OneLiveHold`: a user has one live hold, unless one of his creations was taken for an orphan while in progress; `SoldWithinStock`: what is held or ordered fits into the stock, unless units were given back twice |
| `reservation_leak` | 1 reservation, no faults, typed client | **violated** `NothingLeaks`: hold keys run out before the reaper reads them |
| `sold_released` | the same | **violated** `SoldStaysSold`: confirm and reaper on one hold under different locks |
| `ioredis_confirm` | the same, ioredis | **violated** `LiveHoldIsConfirmed`: every live hold is refused as expired |
| `records` | `Payment`, `Refunds`, `PaymentMethods`, `Organizer`, `Checkout`, `LateCommit`, one at a time; 2 requests or visits, 2 intents, refunds, methods, applications, transactions, 2 lines | payment: `SettledIsTold`, `RecordsAgree`, `OneIntentPerKey`, `PaymentSettlesOnce` (refinement); refunds: `RefundedOnce`, `RefundsSettleOnce` (refinement); methods: `OneDefault`; applications: `OneOngoing`, `StatusFollows`; page: `ShownIsFollowed`; late payment: `SettledOnce` |
| `catalogue` | `Catalogue` with 1 type, 2 requests, 3 writes, 1 retry level, 1 fault; and `Delivery` alone with 2 messages whose handler fails as it likes | `NoneForgotten`: a message is handled, dead, ahead of a consumer or known to be missed; `AllEnd` (liveness); `CopiesFollow`: the event service's copies (`SnapshotsAgree`) and the cached list (`ListFollows`) follow |
| `events` | `EventLifecycle`, `TaggedCache`, `Availability`, `StockPage`, `QueryCache`, `EventForm`, one at a time; 2 requests, 2 pages with chunks of 1, 2 ticket types, 2 changes, 2 reads in flight, 3 polling loops, 2 mutations, 3 files of which 2 fit, 2 selections at once | `EntriesFollow`, `PublishedIsSeeded`; `PagesFollow`; `ClientCurrent`, `CacheFollows`; event page: `OneSource`: the stream or one polling loop, but for what a 304 or 404 does; `ShownFollows`: a page at rest shows what the server has; `FilesFit`: files within the limits, and the ones chosen |

The violated properties are what a comment or a test of the repository says;
`PROJECT.json` quotes it and the lines of the code that differ.

Bounds. Three requests on four shards with two probes make two requests meet on
a shard both first and second, one of them short; 10 units over 4 shards do not
divide evenly. Six tickets in chunks of two give a first, a middle and a last
chunk; three attempts let one crash, one fall behind and one finish. A creation,
one request and one tick at once give every pair of handlers; a second line makes
partial reservations and releases possible; one fault (`MaxFaults`) is a failed
call to another service or a failed Redis command at any step, an answer lost
after the work was done, half of a clean-up, or a crash. What a handler makes of
it is the code's: most errors are passed over, some end the handler, and one
makes the reaper start over. Capacity ranges from
0, so that creation also fails for lack of stock. `holds` has no reaper, to
keep two reservations within reach, and follows a fault only where one unit is there
for both and the client is the typed one (`BoundHolds`): with a unit for each nothing
can be sold twice. `MaxReleases` bounds the releases of one reservation. Deadlock is not checked: requests end and time
stops, so every instance may come to rest.

`records` and `events` put modules that share no state into one run: `part` says
which one moves, so that each is explored by itself and nothing is multiplied;
`TypesOK` and `MCEvents!TypeOK` are the type invariants of their parts; those of
`Reservation` and `Catalogue` are proved (section 4) and no longer part of a run.
Two requests are the smallest number that interleave, and every race the
invariants speak of is one of two; the second intent, refund, method,
application or transaction is what a duplicate would be made of. In the payment
part nothing is followed once the second intent exists (`BoundPayment`): a
further one repeats the first. One miss of the organizer's caches is answered at a
time, and one of an event's entries is filled at a time, because the invariants
speak of one copy. `Levels` is 1 instead of 4: a level only adds a copy of the
same topic; the way from one level to the next is the way back to the topic and
on to the dead letters. `PageChunk` 1 with two pages and `Chunk` 2 with at most
two tagged keys are the two sides of the chunk size of 256. Three `Loops`
are the two that a 304 makes of one and a third, left over or started anew. Two
mutations are one and the other that its roll-back may undo; `QueryCache` by
itself was also explored with three. Three files with room for two make a
selection fit by itself and not together with another.
In the availability part (`BoundAvailability`) the screen and the etag are followed
apart from each other, and a second run of `getBySlug` only where it can reach a
screen: a run that nobody can join and no push waits for changes nothing there,
nor does the consumer while it deletes and records. A failed read of the counters
and a push for clients who have left are followed with one run under way, and a
client that such a push has struck off the list is not followed further: nothing is
claimed of it. What these bounds leave out, the proof of `ClientCurrent` covers.
`MaxChanges`, `MaxWrites`, `MaxRequests`, `MaxLog` and `Faults` bound counters. Where an
invariant excuses what has happened in the past (a lost message, a failed
deletion, a race), the constraint stops there: what comes after is excused for
good. In `catalogue`, requests and the consumer are interleaved only over the
topic (`BoundRequests`); the topic alone is explored without any constraint, and
it is there that `AllEnd` is decided.

Fairness. `OrderCommit`: weak fairness of a live attempt's next transaction (the
loop awaits each). `Reservation`: weak fairness of the next step of a creation or
handler that has begun, and of expiry (time passes, TTLs end); strong fairness
of the reaper taking a due id whose lock is free, since each tick goes through
all due ids in turn. No request is assumed to arrive, no payment to be made, and a
crash is always possible within its bound. `Delivery`: weak fairness of the
consumer's next step other than a failure, of the retry consumer's next message
and of its next batch, since both run their loops as long as there are messages;
failures and restarts are not fair and come at most `Faults` times.

What the properties leave out, on purpose: `Balanced` says nothing about a
reservation on which two handlers collided, a call failed or the hold lapsed.
Those are the cases in which the code does go wrong (`reservation_leak`,
`sold_released`), and for the deployed client nearly everything does
(`ioredis_confirm`); the property states exactly where it still holds.
`OneLiveHold` names its exception in the same way: a creation taken for an orphan
has lost its user hold, and from then on any later creation of the user may hold
as well. Two reservations show the first half of that only; the second, with a
third reservation that never met the orphan, came out of the proof. The
`ClientCurrent` says nothing of a client that is no longer on the broadcaster's list,
and takes the zeros of a failed read for what they are until the next change;
`RecordsAgree` says nothing of an intent whose record could not be written. The
properties of the later runs name theirs too, each in its comment: what the history variable excuses is a race
or failure in which the code does go wrong, and everything else is claimed.

Observations. Some of what the models show has no property of its own:

* `invalidateByTrackingKey` counts its loop with `i = CHUNK` in place of
  `i += CHUNK` (`shared/redis/redis.service.js:541`): with more than 256 members
  it does not end. `OneRoundOrNone`, a part of `PagesFollow`, is what remains true.
* `publishEvent` seeds through `this.inventoryService`, which nothing sets; the
  event stays published without stock and a second attempt is refused
  (`wired` in `EventLifecycle`).
* `executeWithLock` waits for the answer `"OK"` and `RedisService.set` gives
  `true` (`answers` in `Catalogue`): updating, publishing and deleting ticket
  types always fails in the deployed setting.
* A price changed to 0 does not reach the event service's copy (`past.free`).
* A mock payment asked about after its expiry overwrites the Redis record of
  a payment that succeeded (`payment/src/routes/payment.intent.routes.js:287`).
* A mock payment whose write of the Redis record fails settles the intent all the
  same: `RedisService.set` answers `false` (`shared/redis/redis.service.js:206`),
  `_set` does not look (`payment.intent.routes.js:103`), and the buyer's page goes on
  showing PENDING. A failed write when the intent is created leaves it without a
  record, so that it cannot be paid.
* A stored idempotency answer is parsed a second time, and the failure then
  replaces it (`CreateRepeat`); once the record has run out, the key makes a
  second intent.
* A worker whose payment check fails closes the case, since `PaymentClient`
  never throws (`booking/src/workers/auto-cancel.worker.js:117`); a handler whose
  late commit found no stock refunds and leaves the snapshot, from which the
  worker may order (`past` of `LateCommit`).
* A checkout page whose stored payment had lapsed shows its code without polling
  it (`page.tsx:365`); a late answer to a page that was left removes the record
  of the page that is open (`page.tsx:248`). A poll that schedules the next one
  overwrites `pollRef` (`page.tsx:314`): where two run, one timer is beyond the reach
  of `clearTimeout` and outlives its payment (`loose`).
* A stock snapshot claims at least the version it was asked for and at most the
  greatest of its types', so that an old count can pass for current
  (`past.late` of `Availability`).
* A push takes the set of sinks before it awaits the snapshot. If the last client
  leaves meanwhile and one comes back, the push finds its own set empty and deletes
  the new one (`event/src/adapters/broadcaster.sse.js:49` and `:101`): that client
  stays connected and is pushed nothing any more (`client.listed`).
* A failed read of the counters is not an error: `mgetRaw` answers nulls
  (`shared/redis/redis.service.js:381`), which are added up to 0
  (`event/src/services/inventory.service.js:484`) and answered with 200 under a
  current version, stored and pushed. The next change puts it right, as
  `ClientCurrent` and `CacheFollows` say; without one the event looks sold out.
* A push that finds `MAX_INFLIGHT` runs under way, of whatever events, is dropped
  (`availability.service.js:122`); so is one whose run fails. No other follows.
* The event page's polling schedules twice after a 304
  (`use-availability-polling.ts:84` and `:118`), so that its requests double with
  each one (`doubled`), and a clean-up reaches one loop. Once a snapshot came
  over the stream, what is polled is not shown (`AvailabilityClient.tsx:63`).
* Updating or deleting a payment method shows none at all until the next request
  is answered (`use-payment-method.ts:80`), and uploading a document shows that
  there is no application (`use-user-application.ts:60`). The admin's list writes
  entries that the page of an application cannot read (`List`). A profile whose
  update failed while another went through keeps the older state, for its query
  is not enabled (`use-user.ts:68`).
* Lists are invalidated under keys that match none of them
  (`use-event-detail.ts:64`, `use-application-detail.ts:31`): the key's second
  part differs.
* Files read while the list changed replace the change
  (`multi-document-uploader.tsx:171`, `crossed`); cancelling the dialog does not
  stop a submission, whose end closes and empties a dialog opened meanwhile, and
  a failed upload loses the form (`EventCreationModal.tsx:162`).

## 4. Proofs

Every safety invariant and every refinement of the passing runs is a theorem, for
all values of the constants; the runs check the same formula on an instance. 41
theorems in seven modules, and `Sums`, which holds lemmas. The hypotheses are the
named assumptions of the modules, which say what the values mean (numbers are
numbers, a name that stands for "none" is none of the others), and what is said
below. Hardly any of the properties is inductive; each module states what has to be
added in the definitions before its first lemmas.

**`Sums`.** The library's induction theorems take an operator as a parameter, which
the provers cannot instantiate. `NaturalInduction` and `SubsetInduction` state it
with the *set* of those that have the property, and follow from what
`FiniteSetTheorems` knows of finite sets: were a number missing, adding one would
map those below it into one fewer. From these, that `SumFunctionOnSet` is what a sum
should be: it adds an element, changes with one value, adds up and compares like its
terms.

**`Inventory`.** `IInv`: the accounting alone is not inductive, because seeding would
overwrite what earlier requests did; `QuietBeforeSeed` excludes them.
`DistinctVersions` needs that no request carries a version the key has yet to reach.
The others are about sums: `HeldInv` adds that what requests hold from a shard, less
what was given back to it again, is what is out of it, and `AllocatesAll` that
`allocateShards` gives out the capacity, for every capacity and shard count.
`release.lua` does not remember that it has run, and `NothingOversold` says what is true
however often it does: a first release moves units from held to in stock, each further
one brings them in from nowhere, and nothing else does. `ShardsAreOneCounter` holds
until a release is repeated, which is part of what it states, and `OnceIsOneCounter`
without exception if `MaxReleases <= 1`. The three assume finitely many requests, for
the sums to exist; types, accounting and versions do not.

**`OrderCommit`.** `ChunksKept`: the chunks an attempt has gone through are in the
store, so that the one that reaches the last chunk completes the tickets, whoever
wrote the others; and only one attempt has committed.

**`Payment`.** What is published is read from the call and not from the intent:
`CallsKnow` adds that a call about an intent finds it created, that a creating call
is the only one with its id, and that the status an announcing call carries is the
intent's; `IssuedExist`, that an id given to a client is that of an intent. Each step
then maps to the opening, settling or telling of `PaymentOnce` or to a stutter.
`KeysInv`, for `OneIntentForKey`: while the record of a key lives one request works
under it, and the key has made no intent before that request writes its own.
`RecordsInv`, for `RecordsOfIntentAgree`: which of an intent's two records a request
has changed at each of its steps, unless its write of the first was lost.

**`Reservation`.** Four invariants over the same steps, for any number of
reservations, lines, handlers, reapers and users and either client. `IndexInv`: a
worker that found nothing knows so. `AccountInv`: at each step of a
creation, cancel, confirm, reaping or cancellation of an order, which lines of the
reservation are out, and which other worker may have its hold in hand. `UserHoldInv`:
from its creation to the end of its hold the user hold is the reservation's own.
`StockInv`, for `SoldFits`: no unit is taken that is not there. The stock is the
capacity less a sum over all reservations, and every step that moves units moves those
of one reservation, so that the sum changes by its share (`StockChanges`). A
reservation that is held or ordered and met no trouble counts for one in this sum by
`AccountInv`, and the others for no less than nothing as long as nothing came back
twice, which is what the property excuses; reservations have to be finitely many, to
be counted. `KeepsPromises` is the refinement: `FateMoves` goes through the steps
and shows which of `Booking`'s each one is. That a hold is given up only before
it is ordered, and ordered only when it is paid and not refunded, comes from
`AccountInv`, which knows at each step of a handler what lies behind it.

**`Records`.** One theorem or two for each part of `SpecRecords`.

* Refunds (`RefundsInv`): what a request has looked up it still knows; documents of
  one key are apart; unless requests overlapped, one is in hand.
* Methods (`MethodsInv`): at most one default; between look and write nobody
  else writes, unless that is what history names.
* Applications (`ApplyInv`): the copy is fresh or its being stale is known; the
  ongoing application is on the list, or in what a request is about to write there.
* Checkout (`CheckoutInv`): one visit is open, those left only wait for answers; what
  a page at each phase has stored, shown, in flight and scheduled.
* Late commit (`LateInv`): while the hold is there all its lines are out and nobody
  attempts a late commit; a unit taken is that of an attempt that has yet to order it
  or to give it back; of attempts there is one.
* `RecordsTypes`: that undoing never goes below nothing is a sum again: what all
  attempts together have taken is no more than is out (`UnitsFit`, for finitely many
  calls).

**`Catalogue`.** `DeliveryInv` is about offsets: what lies below a committed one
was handled, is dead or was forwarded and lies further on; the first try of a message
is in the topic. `CatalogueInv` adds, for each type, that its messages are in the log
in the order of its versions, that the last of them is the type as it is, or a
request is about to send it, and that the copy is that of the last one handled.

**`Events`.** What an entry, a screen or a list lacks is in the hands of someone who
will bring it: `SeedIsPending` and `DeletionIsPending` for the views of an event,
`RoundsFit` and `PagesAreHeld` for the attendees, `ChangesFit`, `RunsFit`,
`CacheIsPending` and `ScreenIsPending` for the availability (the last change of a
type, still to be handled, or a push that holds the client's set and is to show what
is read after that change), `LoopsFit` and
`StreamFits` for the event page, `FetchedFollows` and `ProfileFollows` for the query
cache, `ReadingsFit` and `WantedFollows` for the forms.

What the proofs found. An invariant that holds on an instance and is not provable
was, each time, a statement about the model to correct:

* `OneLiveHold` is false for three reservations of a user in the form two
  allow (above); it is now stated as it holds.
* `ShownIsFollowed` is false for a page with more timers than the instance made
  use of: the timers that `pollRef` has lost are now part of the model.
* The `CASE`s of `LateCommit` and `QueryCache`, and of the first `Fate`, had guards
  that overlap: TLC takes the first, the logic either. They are now disjoint.

Only model-checked: liveness (`PaidIsCommittedLenient`, `IndexDrains`, `AllEnd`),
which the prover does not cover; and that the violated properties are violated.

## 5. Plan

Modelled, checked and proved: everything in the table of section 1. What could follow:

1. Proofs: `StockSpec` with the releases that are repeated as an action of
   `StockCounter`; common forms of "what is missing is pending" as lemmas.
2. Models: the topic with several partitions, the idempotency record of booking.

Not modelled, and why:

* HTTP routing, validation, sanitising, rate limits and logging: no state that
  the properties are about.
* Provider clients, signatures, mail, SMS, file storage, OCR: output to and input
  from systems outside of the repository; their answers are inputs here.
* `auth`: it asks an external identity provider; `analysis` is empty.
* The front end but for the checkout page, the stock of the event page, the query
  cache and the files of forms: rendering, fields and their validation, which make
  up most of the repository's lines. A wizard waits for nothing but its own
  validation before a step, which no click comes between.
* User profiles: single documents. `updateUser` is called with one object for
  its two parameters (`user/src/controllers/user.controller.js:50`), and creation
  waits for `executeWithLock`, which the deployed client never lets acquire.
* Searches, listings and statistics: reads without a cache of their own.
* An event's contributors and ticket-type copies in `event.service.js`: cached
  and dropped as its attendees and views are.
* The booking service's idempotency record: the payment service's, in `Payment`,
  is the same in form; buyer claims: one write.
* Kafka topics with several partitions: each has its own consumer loop and
  offsets, as the one in `Delivery`.
