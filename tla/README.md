# OpenWar: a TLA+ verification project

OpenWar is a gateway and order pipeline for flash sales ("ticket wars"). Buyers
wait in a virtual queue, are admitted at a fixed rate, and send one purchase
request each. The purchase takes a unit from sharded Redis counters and is
published to NATS JetStream. A worker persists it in Postgres, and an order that
is not paid in time is cancelled. No transaction spans the three stores: every
guarantee rests on Lua scripts, on state keys, and on the order in which separate
calls are made. That is what this project models.

The model follows the code call by call. One action is one call to Redis, NATS or
Postgres (a Lua script and a `MULTI` are one call), and between two calls of a
goroutine anything else may happen: another goroutine's call, a failure, a crash,
the expiry of a key.

Contents:
[1 Inventory of the system](#1-inventory-of-the-system) ·
[2 Modules and their correspondence to the code](#2-modules-and-their-correspondence-to-the-code) ·
[3 Runs](#3-runs) ·
[4 Bounds](#4-bounds) ·
[5 Fairness](#5-fairness) ·
[6 Proofs](#6-proofs) ·
[7 Where the code and its documents disagree](#7-where-the-code-and-its-documents-disagree) ·
[8 Not modelled](#8-not-modelled) ·
[9 Plan](#9-plan)

## 1 Inventory of the system

Three processes take part: the gateway (`cmd/gateway`), the backend
(`cmd/backend-demo`) and the worker (`cmd/worker`). Several gateways, backends
and workers may run at once. They share Redis, JetStream and Postgres and no
memory.

| Component | State | Operations | What makes it correct |
|---|---|---|---|
| Sharded inventory (`internal/inventory`, `reserve_stock.lua`, `release_stock.lua`) | `inventory:<sku>:shard:<i>`, `soldout:<sku>`, `reservation:<orderID>` | `Seed`, `Reserve` (latch, home shard, siblings, latch again), `Compensate` (script, then `DEL` of the latch) | A counter is its seed less what was taken plus what was returned; an order is refunded at most once, only if it took a unit, and to the shard it took it from; the latch is not set while there is stock |
| Order placement (`internal/order/service.go`) | a goroutine per `Place` call | `Place`: Reserve, `SET RESERVED`, publish up to three times, Compensate on failure | An accepted order is never lost; a failed `Place` gives the unit back (unless its client has left: section 7) |
| Order worker and store (`cmd/worker/main.go`, `internal/store`) | the messages of `ORDERS`, `openwar.orders` | `handleOrder`: insert, flip to `PUBLISHED`, arm the timeout, `Ack`/`Nak` | At-least-once delivery has the effect of once; a live row holds a unit |
| Dead-letter worker (`internal/order/dlq.go`) | messages on `orders.dlq` | `HandleDLQMsg`, `Ack` | An order the worker could not persist is compensated once |
| Payment window (`internal/order/timeout.go`, `reconciler.go`) | `cancel:<orderID>`, `reconciler:leader`, the schedule, `orders.timeout` | `ProcessTimeout` from the message and from the reconciler's scan | An unpaid order is cancelled in the end, once, for good, and its unit goes back on sale |
| JetStream streams (`internal/queue`) | `ORDERS`, `ORDERS_DLQ`, timeout schedules | publish, fetch, `Ack`, `Nak`, redelivery up to `MaxDeliver` | external; modelled from its use |
| Circuit breaker (`internal/resilience`) | state, two counters, time of the last failure | `Execute`, `State`, `Reset` | Trips on a run of failures and on nothing less; closes again once the dependency is back |
| Waiting room (`internal/waitingroom`, `admit_batch.lua`, `consume_admit.lua`) | sorted set of waiters, heartbeat keys, admission keys | `Join`, `Heartbeat`, `Status`, admission worker, `ConsumeAdmission` | First come, first served; one token per wait; a waiter who stays alive is admitted |
| Checkout chain (`internal/router`, `middleware/virtualwaitingroom`, `middleware/idempotency`, `proxy`, `claim_idem.lua`) | `idem:<user>:<event>:<key>` | gate, limiter, claim, replay, forward, record | One key places at most one order; a replay is the response to the same body; a key does not stay locked |
| Token bucket (`internal/ratelimiter`, `token_bucket.lua`) | tokens and last refill per key | `Allow` | Never more than burst plus rate × time if clocks agree, and a bounded excess if they do not; `Retry-After` is enough |
| JWT, CORS, request ids, sessions, logging | none | | |
| Configuration, metrics, wiring | none that outlives a request | | |
| Seeding command (`cmd/gateway/seed.go`, `internal/inventory/seeder.go`, `ClearOrders`) | counters, latch, queue, `openwar.orders` | `seed-events`: `SET` of the counters, `DEL` of the latch, `DEL` of the queue, `TRUNCATE` of the orders, upserts of the catalogue | The next sale sells its own stock, whatever the last one left behind, and is open |
| Migrations (`migrations`) | `openwar.schema_migrations` | `Migrate`, when a process starts | Each version is applied once |

How they interact:

- The gateway runs every purchase through recovery, request id, logger, CORS, JWT,
  waiting-room gate, token bucket, idempotency and proxy, in this order
  (`router.go:36-51`). The gate and the idempotency middleware share Redis with
  the admission worker and with the same buyer's other requests.
- The proxy calls the backend's `POST /checkout`, which is `Service.Place`. The
  proxy sees a status code and nothing else; a 5xx says nothing about what was
  committed.
- `Place` talks to the worker only through the stream and through
  `reservation:<orderID>`.
- The seed command writes under all of them: it looks at nothing that is under way.
- The worker arms the payment timeout. The timeout consumer and the reconciler
  call the same `ProcessTimeout` on the same rows; both, `Place` and the DLQ
  worker call the same `Compensate` on the same reservation.

The behaviours that are hard, and that the properties are aimed at (the full
list, each at its line, is `hazards` in `PROJECT.json`):

- *Reply lost, effect done.* A Redis script, a publish or an `INSERT` may have
  happened although the caller sees an error. `Reserve` goes on to the next
  shard, `Place` compensates, the idempotency middleware reopens the key.
- *Check in one call, act in the next.* The sold-out sweep and the `SET` of the
  latch; the claim's verdict and the `HGETALL` of the replay; the response and
  its record; the guard key and the CAS.
- *Several compensators.* `Place`, the DLQ worker, the timeout consumer and the
  reconcilers may refund the same order, in any order and at any time.
- *A client that leaves.* Every Redis call of `Place` carries the context of the HTTP
  request. Once it has ended no command is sent, the compensation included.
- *Crashes and redelivery.* The worker may die after each of its calls and is
  given the message again, up to `MaxDeliver` times, perhaps after the order was
  cancelled.
- *Time.* Leader locks, guards, heartbeats, admission tokens, idempotency keys
  and reservations expire under their users; a schedule fires up to a second
  early; a rate-limit call carries the time of a gateway whose clock is behind, or
  arrives late.
- *From one sale to the next.* Counters, latch and rows are reset by three separate
  calls, any of which may fail, while buyers may already be there and while timeouts
  and the reconciler still process the last sale.

## 2 Modules and their correspondence to the code

```
StockLedger  <-- refined by --  Inventory  <-- EXTENDS --  Placement  <-- EXTENDS --  PaymentWindow
                                    ^                                                 ^   |
                                    |                                      EXTENDS ---+   |
                                    |                                      Seeding        |
                                    +------------------ refined by -----------------------+

WaitingRoom  <-- EXTENDS --  Checkout               CircuitBreaker               TokenBucket
```

Each module has its properties at its end; an `MC…` module gives the constants of
a run that are functions; a `…Proofs` module holds the theorems. A definition
whose comment begins with *Mutant:* is a plausible wrong version of the one that
follows it. It is used by no specification; it serves to show that a property
notices the mistake.

### Inventory and StockLedger

`Inventory` is `ShardRouter`, the two scripts and the reservation key. An order id
stands for one `Place` call, as the ids are fresh (`genOrderID`).

| State | Code |
|---|---|
| `shard[i]` | `inventory:<sku>:shard:<i>`; seeded by `SeedShare`, the remainder going to the first shards |
| `soldout` | existence of `soldout:<sku>` |
| `resv[o]` | value of `reservation:<o>`; `"NONE"` when absent |
| `rpc[o]`, `offset[o]`, `invKey[o]` | where `Reserve` is, its loop variable, the shard it won |
| `left` | orders whose request context has ended |
| `clearing` | orders whose `Compensate` restored a unit and has yet to delete the latch |
| `taken`, `refundedTo`, `refunds` | history variables, read by properties only |

| Action | Code |
|---|---|
| `ContextEnds` | the client goes away; from then on a Redis call of its `Place` fails unsent (`Reply`, `DirectReply`), or the breaker refuses it |
| `CheckLatch` | the `EXISTS` at the head of `Reserve` |
| `ProbeShard` | one `reserve_stock.lua`, on home or on the next sibling; a lost reply takes the unit and goes on |
| `LatchSoldOut` | the `SET` after the sweep |
| `MarkReserved`, `MarkPublished` | the `SET`s of `Place` and of `handleOrder` |
| `Release`, `ClearLatch` | the two calls of `Compensate`; `Compensable` is the script's test |
| `ReservationExpires` | the reservation's TTL |
| `DropClears` | a caller of `Compensate` dies between its two calls |

`InventoryNext` lets anybody compensate any order to any shard at any time, and
any reservation be published. It is the contract the inventory offers to callers
it knows nothing about, so what is proved of it holds for `Place`, for the DLQ
worker and for both timeout processors, and for callers yet to be written.

`StockLedger` is the abstract specification: one number of units on sale, what
each order owes, `Take` and `Return`. `LedgerSpec` in `MCInventory`
instantiates it with the sum of the counters; the run `inventory` shows that every
step of the sharded inventory is a ledger step or a stutter.

### Placement

`Placement` adds `Service.Place`, the stream, the order worker, the insert and the
DLQ worker. `place[o]` is `Place` after `Reserve`; `stream` holds stored copies
`<<order, attempt>>` that are not acknowledged, and `delivered` counts their
deliveries; `row` and `createdAt` are the order's row; `wpc`, `wmsg`, `wnew` are
`handleOrder`'s position and locals; `armed` is the timeout schedule; `dlq`,
`dmsg`, `dclear` are the DLQ and its worker.

- `ClientLeaves` ends the request's context, at any moment of the call. `PlaceReserve`,
  `PlaceMark`, `PlaceRelease` and `PlaceClear` make their Redis calls with that
  context, so after it they have no effect: a `SET RESERVED` fails although Redis is
  healthy, and `Compensate` does not send its script.
- `PlacePublish` is one attempt of `publish`: stored, not stored, stored without
  an acknowledgement (`"lost"`), or refused by the open breaker (`"open"`). The
  publish itself does not look at the context; the back-off does, so a failed attempt
  of a client that has left is the last one.
- `InsertOrder` has both uniqueness rules: `ON CONFLICT (order_id)` is swallowed
  and counts as a redelivery; `(user_id, event_id)` is an error and is `Nak`'ed.
- `FlipPublished`, `ArmTimeout`, `AckOrder` are the rest of `handleOrder`. A failed
  flip is `Nak`'ed like a failed insert; a failed `ArmTimeout` is only logged.
- `BackendCrash`, `WorkerCrash` stop a process between any two calls.
  `WorkerCrash` leaves the message to be redelivered.
- `AgeOut` is the 24 h `MaxAge` of `ORDERS`: a copy whose deliveries are used up goes
  away. `Outage` extends it to copies nobody came for in time (the worker is down for
  a day); the runs leave it off, section 7 says what it does.
- `DeadLetter` is guarded by `DLQFed`: no code publishes on `orders.dlq`. The run
  that examines the DLQ worker sets it, all others do not.

### PaymentWindow

`PaymentWindow` adds `ProcessTimeout` with its six calls (`ClaimGuard`,
`ReadOrder`, `CancelOrder`, `TimeoutRelease`, `TimeoutClear`, `NotifyCancelled`),
run by the processor `"timeout"` (the `orders.timeout` consumer) and by each of
`Reconcilers`; `TakeLead`, `FetchExpired`, `ReconcileNext` are the reconciler's
scan, oldest first and at most `BatchLimit`. `age[o]` is `"young"`, `"due"` (the
schedule's second has come) or `"expired"` (`expires_at` has passed): `ArmTimeout`
cuts the deadline to a second, so `"due"` can come first. `GuardExpires` and
`LeaderExpires` are the TTLs. `ProcessCrash` is the death of one worker process: the
reconciler it runs, the consumers if they are its own, or both.

It composes the whole order path. `Spec` implements `InventorySpec`, so the
inventory's theorems hold of the composed system.

### CircuitBreaker

`Execute` is two actions, because the mutex is not held while the operation runs:
`Begin` (the check) and `ReportFailure` or `ReportSuccess` (the outcome), between
which the state may have changed several times. `ReadState` is `State()`, which
may move open to half-open, and `Reset` is `Reset()`. Time is the bit `cooled`.
`failRun` and `goodRun` are history: the length of the current run of failures or
successes as reported. `Inventory` and `Placement` see a breaker as the outcome
`"open"` of a call, at any time, which includes whatever the breaker does.

### WaitingRoom

One event's room. `score[s]` is the member's score in the sorted set (0: not a
member); `hb` and `adm` are the heartbeat and admission keys; `stamp[s]` is the
time a `Join` in flight has read and not yet used. `JoinStamp` and `Join` are the
two halves of `Room.Join`, `AdmitBatch` is `admit_batch.lua` on a tick (`Popped`
is the set it pops: live sessions up to `Rate`, and every zombie before them),
`NotifyNext` is the worker's publication, `StatusRank` and `StatusAdmitted` are
the two reads of `Status`, `ConsumeAdmission` is `consume_admit.lua`.
`HeartbeatExpires` and `AdmissionExpires` are the TTLs, `WorkerDies` loses the
notifications that were not sent, `ClearQueue` is the seed command's `DEL` of the
queue, under whoever waits in it.

### Checkout

`Checkout` extends the room by the purchase requests that carry one idempotency
key. `Gate` consumes the session's token, `Limit` is the limiter's verdict
(nondeterministic; an error lets the request pass), `Claim` is `claim_idem.lua`
and the answers to its verdicts, `Replay` is the later `HGETALL`, `Forward` is
proxy and backend (`"err"`: a 5xx and no order, `"lost"`: a 5xx and an order),
`Record` is the `HSET` that follows the response. `ClientGone` cancels a request's
context, so that its later Redis calls fail; `GatewayDies` ends all requests.
`Exchange` is `POST /event/{id}/admit`. `KeyExpires` is the key's TTL.

### TokenBucket

One bucket of the limiter. Time is counted in ticks and tokens in fractions (`Unit` to
a token, `Rate` refilled in a tick), so the script's floating-point refill is exact
arithmetic. `Script` is `token_bucket.lua` (`Level`: the refill with its `min` and
`max`; `Suffices`, `RetryAfter`, `TTL`), `Allow` is `Limiter.Allow` with the caller's
reaction, fail-open included. The script is atomic but is given the time: the
reference clock is the one furthest ahead, and a call's time is up to `MaxLag` ticks
behind it, because its gateway's clock is or because the call was slow. `behind` and
`idle` place `last_updated` and the key's TTL against that clock. `Observe` starts the
history variables `span`, `passed` and `setback` afresh at any moment, so that the
rate property speaks of every stretch of time and not only of the first one.

### Seeding

`seed-events` on top of `PaymentWindow`, whose workers keep running: `SeedSteps` names the calls that matter to the
order path in their order, `SeedStep` makes the next one (done, not done, or done with
the reply lost) and the command ends at the first error. `SeedValue` is what the
`MULTI` leaves in a shard. `old` is history: the orders begun before the counters were
last set. Buyers may come between any two of its calls. `Quiet` says that the operator
waits until the last sale is over before the command is started; the command itself
does not look. `SaleIsOver` is what he waits for: no `Place` call under way, no order
event to be delivered, and no reservation still `RESERVED`, that is, until the
reservations' TTL (25 min) after the last of them. Unpaid rows of the last sale,
armed schedules, timeout messages and processors in the middle of `ProcessTimeout` may
be left, and go on during the command and the new sale. `WindowOutlastsSeed` is an
assumption on time like that of `HoldExpires`: what is sold while the command runs (a
few calls) is not 15 minutes old before it ends.

## 3 Runs

Twelve runs, each one question. `tlc -workers 2 -config <cfg> <module>` reproduces
one. Sizes are distinct states.

| Run | cfg, module | Question | Answer |
|---|---|---|---|
| `inventory` | `MCInventory` | Can three buyers, two shards, two units and every Redis fault lose, mint or double-refund a unit, whoever compensates and whoever leaves? Are the sharded counters one ledger? | No; yes (396 k) |
| `placement` | `MCPlacement` | Can an accepted order be lost, a live order lose its unit, an order take two? Does every `Place` return and every accepted order reach Postgres or use up its deliveries? Under Redis, NATS and Postgres errors, lost Postgres replies, clients that leave at any moment and crashes of both processes | No; yes (663 k) |
| `placement_nats` | `MCPlacementNats`, `MCPlacement` | With ambiguous publishes, several copies of an event, the DLQ worker, clients that leave at any moment and a dying worker: is a unit returned to another shard than its own? Does a failed `Place` restore its unit, unless its client left? Is the latch honest before the first refund? | No; yes; yes (1.7 M) |
| `placement_oversell` | `MCPlacementOversell`, `MCPlacement` | Does a live order hold its unit when a publish is stored without being acknowledged? | **No** |
| `payment_window` | `MCPaymentWindow` | One order, the timeout consumer and two reconcilers, all faults and crashes, a client that may leave: does a live order hold its unit, is a cancellation announced once, is it final, does the order path keep the inventory's contract? | Yes (1.3 M) |
| `payment_window_live` | `MCPaymentWindowLive`, `MCPaymentWindow` | Is an unpaid order cancelled in the end, with a batch of one, a schedule that fires early and one that was never stored? | Yes (125 k) |
| `payment_window_restock` | `MCPaymentWindowRestock`, `MCPaymentWindow` | Does the unit of a cancelled order go back on sale? | **No** |
| `breaker` | `CircuitBreaker` | Does the breaker trip and close only on full runs of reports, although calls overlap? Does it close for good after recovery? | Yes |
| `room` | `WaitingRoom` | With joins that stall, zombies, failing calls, a dying worker and a deleted queue: is anybody overtaken? Does a wait buy more than one token? Is a live waiter admitted? | No; no; yes (592 k) |
| `checkout` | `MCCheckout` | Can one key place two orders, one wait buy two backend requests, a replay answer another body, a key stay locked? | No (550 k) |
| `token_bucket` | `TokenBucket` | With late and out-of-order calls, failing calls and evictions: does any stretch of time let more through than a full bucket and the refill of the stretch, of `MaxLag` and of the setback? Is `Retry-After` enough? | No; yes (189 k) |
| `seeding` | `MCSeeding` | Two runs of the command, failing and losing replies, with unpaid rows, timeouts and the reconciler of the last sale still at work and buyers who come during it: does the new sale sell its own stock and no more, and is it open? | Yes (1.4 M) |

The properties, by what could go wrong:

- *Stock.* `ShardConserved`: each counter is its seed, less the orders that took
  from it, plus the orders refunded to it. `RefundAtMostOnce`, `RefundToOrigin`, `OneUnitPerOrder`, `LedgerSpec`. `PublishedIsFinal`: once
  disarmed, compensation is never re-armed. `LatchHonestBeforeRefunds`: with a
  healthy Redis and before the first refund nobody is turned away while there is
  stock, although the sweep reads the shards one after the other.
- *Orders.* `AcceptedIsDurable`: an accepted order has a row, a copy in the stream,
  or has used up its deliveries. `FailedPlaceRestores`: with a healthy Redis a failed
  `Place` has given its unit back, or the order exists, or its client had left.
  `AcceptedIsPersisted`, `LiveOrderHoldsUnit`, `PlaceReturns`, `CancelledOnce`,
  `CancelIsFinal`, `UnpaidIsCancelled`.
- *Breaker.* `ClosedBelowLimit`, `TripsOnRunOfFailures`, `ClosesOnRunOfSuccesses`,
  `ClosesWhenHealthy`.
- *Room.* `NobodyOvertaken`: no session whose join began after the join of `s` had
  returned is admitted while `s` waits. `OnePassPerDraw`, `AliveIsAdmitted`.
- *Checkout.* `ExecutesOnce`, `OneExecutionPerDraw`, `ReplayMatches`,
  `PendingIsResolved`.
- *Bucket.* `WithinRate`: between any two moments no more requests use a token than a
  full bucket, the refill of that time and of `MaxLag`, and the refill of `setback`
  allow; `setback` is the time by which calls with an older clock set `last_updated`
  back, each refilled twice. It bounds that excess and does not exclude it: `SteadyRate`,
  the rate without the allowance, is kept only if `MaxLag = 0` (sections 6 and 7).
  `RetryAfterIsEnough`: a client that waits as long as it was told, and whose retry's
  clock is not further behind than that of the denied call, finds a token unless
  somebody else used it.
- *Seeding.* `ConservedSinceSeed`: each counter is its share of the new stock, less and
  plus the orders of the new sale only. `SaleOpens`: the latch of the last sale, or of
  a buyer who came during the command, does not close the new one. `LiveWithinStock`:
  no more live rows than units.

For every property of a passing run `PROJECT.json` names a mutant under which the
run finds the property violated.

## 4 Bounds

| Bound | In the code | In the runs | Why it is enough to be interesting |
|---|---|---|---|
| `Orders` | any | 1 to 3 | a refund, a sweep and a latch need three buyers; a race for a row or a reservation is between actors on one order |
| `NumShards`, `Stock` | configuration | 2 and 1 or 2 | a home and a sibling; the last unit; an uneven seed |
| `PublishAttempts` | 3 | 1 to 3 | one failed attempt, one stored attempt, one more |
| `MaxDeliver` | 5 | 1 to 3 | exhaustion after a `Nak` and after a crash |
| `BatchLimit` | 100 | 1 | one order fewer than there are expired |
| `Leaves` | clients come and go | `TRUE`; `FALSE` in the liveness, violation and seeding runs | a context that ends at any call of `Place`; where it is `FALSE` a client that leaves adds only a `Place` that has failed and its leaked unit |
| `Reconcilers` | one per worker process | 1 or 2 | two leaders overlap when the lock expires |
| `Callers` | any | 3 | a probe and two late reports; the limits 5 and 2 are the code's |
| `Sessions`, `Rate` | any | 2, 1 (room); 1, 2 (checkout) | one overtakes the other; a zombie is in front |
| `Pollers` | every session | one (room), none (checkout) | `Status` only reads, so polling sessions do not influence others |
| `MaxClock` | real time | 3 (room), 2 (checkout) | joins at different times and at the same one; two draws of a session |
| `MaxReseeds` | any | 1 (room), 0 (checkout) | the queue goes once, at any moment |
| `Capacity`, `Unit`, `Rate`, `Second` | configuration | 3 tokens; 4; 3; 2 | a refill of 1.5 tokens a second: no whole number per tick or second, so every rounding shows |
| `MaxLag` | clock skew and latency | 3 ticks | a call more than a token's refill behind; the assumption `MaxLag <= FillTime` is needed: a call further behind would find a bucket evicted that is not yet full by its own clock |
| `MaxSpan`, `MaxSetback` | unbounded | 12, 4 | twice the time to fill the bucket and its TTL; two setbacks |
| `MaxSeeds` | any | 2 | a sale, a failed or complete command, another sale |
| the order path in `seeding` | | 2 orders, 1 unit, 2 shards, 1 publish, 1 delivery, 1 reconciler, lost Postgres replies | an unpaid row of the last sale, and its timeout, next to an order of the new one; a lost reply of the insert leaves a row whose reservation is `RESERVED`, the state in which a timeout refunds |
| `Requests` | any | 4 | two equal ones, one with another body, one malformed |

States are cut off only by the guards of `JoinStamp` (`MaxClock`), `ClearQueue`
(`MaxReseeds`), `SeedStep` (`MaxSeeds`), `TimePasses` (`MaxSpan`, which `Observe` sets
back to 0) and `Allow` (`MaxSetback`, likewise); `attempts` and `delivered` are bounded by the code itself, the other
counters are bounded by the number of orders. In `placement_nats` both orders have
the same buyer, so they are interchangeable and `SameBuyerSymmetry` is sound (the run has no temporal
property); in `seeding` every order has a buyer of its own with the same home shard,
and `BuyerSymmetry` is sound for the same reason. `CHECK_DEADLOCK FALSE` is set for the order path, where all orders may
have run to their end; breaker, room, checkout and bucket are checked for deadlock.

Faults are constants: the set of ways in which a call may fail. `"err"`: nothing
happened; `"lost"`: it happened, the reply did not arrive; `"open"`: the breaker
refused. A client that leaves (`Leaves`) is not a fault of a call: it concerns all later
calls of its `Place`. Whether a fault happens is a choice
at each call, with no limit on their number.

Some constants are assumptions on the surroundings, each shown to matter in section
7: `Outage = FALSE` (a worker comes for a message within 24 hours), `Quiet = TRUE` (the
seed command is started when `SaleIsOver`), `SeedShards = NumShards` (the `-shards` flag
agrees with `INVENTORY_SHARDS`).

## 5 Fairness

Liveness is stated under weak fairness and only for what the runtime does by itself:

- `PlacementFairness`, `Fairness`: goroutines go on (a `Place` call, the order
  worker, the processors, the reconciler with its ticker), time passes, a stored
  schedule fires, keys with a TTL expire. Nothing is assumed of faults and crashes:
  they may happen at any time or never. In `payment_window_live` the calls to
  Redis and Postgres succeed, since a store that always fails cancels nothing, and
  publishes may fail for ever.
- `BreakerFairness`: operations return, time passes, and there is traffic (a
  breaker without calls never closes). `Heal` need not happen: the property is
  about what follows it.
- `RoomFairSpec`: the worker's ticker fires and a tick reaches Redis now and then;
  notifications go out. Sessions need not do anything. The queue is deleted at most
  `MaxReseeds` times, and `AliveIsAdmitted` speaks of the time after the last one.
- `CheckoutFairSpec`: a handler that has started goes on, and Redis expires keys
  that have a TTL.

## 6 Proofs

`tlapm` proves, for every value of the constants, with no limit on orders, shards,
buyers, attempts, deliveries, processors, goroutines, sessions or requests. The
assumptions are the named `ASSUME`s of the modules: there is at least one shard, every
buyer has a home shard, limits are positive, fault sets are sets of the fault names
above, `Orders` is finite, the fingerprint of a request is not the model's `"none"`
(`CheckoutAssumption`), the bucket's rate is positive and `MaxLag <= FillTime`. A
theorem that needs more of its surroundings says so in its statement (third column);
section 7 has the counterexample to each of these hypotheses but those on `RedisFaults`
and `DLQFed`, which select the case the property is about. `HoldExpires` and
`WindowOutlastsSeed` are the two assumptions on durations, both about limits of many
minutes against a few calls.

| Module | Theorem | Statement |
|---|---|---|
| `InventoryProofs` | `InventoryTypeCorrect` | counters are never negative, every call is where it can be |
| | `RefundsAtMostOnce`, `RefundsOnlyTaken`, `PublishedStays` | at most one refund per order, only after a take, never after `PUBLISHED` again `RESERVED` |
| | `ShardsConserved` | `ShardConserved`, with cardinalities of the sets of orders |
| | `LatchHonest` | `LatchHonestBeforeRefunds` (which speaks of an empty `RedisFaults`), with clients that leave in the middle of a sweep |
| | `OneUnit` | `OneUnitPerOrder` |
| | `HoldersWithinStock` | over all shards together, no more orders hold a unit than `Stock` |
| `PlacementProofs` | `PlacementTypeCorrect`, `PlacementImplementsInventory` | `PlacementTypeOK`; `PlacementSpec => InventorySpec` |
| | `AcceptedStaysDurable` | `AcceptedIsDurable`, if `Outage = FALSE` |
| | `RefundsGoHome` | `RefundToOrigin` |
| | `FailedPlaceIsSettled` | `FailedPlaceRestores` (which speaks of an empty `RedisFaults`) |
| | `PlacementNoOversell` | `LiveOrderHoldsUnit`, if no publish is stored unacknowledged (`"lost" \notin NatsFaults`) and nothing feeds the DLQ (`DLQFed = FALSE`) |
| `PaymentWindowProofs` | `TypeCorrect` | type correctness of the whole order path |
| | `ImplementsInventory` | `Spec => InventorySpec` |
| | `SystemRefundsAtMostOnce`, `SystemConservesShards`, `SystemOneUnit` | corollaries of it |
| | `SystemAcceptedDurable` | `AcceptedIsDurable` of the whole path, if `Outage = FALSE` |
| | `CancelledAtMostOnce`, `CancellationIsFinal` | one `orders.cancelled` per order, whatever the number of reconcilers, guards that expire, crashes; a cancelled row stays cancelled |
| | `NoOversell` | `LiveOrderHoldsUnit` of the whole path, under the hypotheses of `PlacementNoOversell` |
| | `LiveWithinSeed` | under the same hypotheses, never more live orders than `Stock` |
| `CircuitBreakerProofs` | `BreakerTypeCorrect`, `ClosedIsBelowLimit`, `TripsOnlyOnRun`, `ClosesOnlyOnRun` | for any number of goroutines and any limits |
| `WaitingRoomProofs` | `RoomTypeCorrect`, `NobodyIsOvertaken`, `OnePassEachDraw` | `RoomTypeOK`, `NobodyOvertaken`, `OnePassPerDraw`, for any number of sessions and any rate |
| `CheckoutProofs` | `ImplementsRoom` | `CheckoutSpec => RoomSpec` |
| | `CheckoutTypeCorrect`, `ReplaysMatch`, `OneExecutionEachDraw` | `CheckoutTypeOK`, `ReplayMatches`, `OneExecutionPerDraw` |
| | `OneOrderPerKey` | `ExecutesOnce`, if `"lost" \notin UpstreamFaults` |
| `TokenBucketProofs` | `BucketTypeCorrect`, `RateIsKept`, `RetryAfterSuffices` | `BucketTypeOK`, `WithinRate` and `RetryAfterIsEnough`, for any capacity, rate, lag and length of time |
| | `SteadyWhenOnTime` | `SteadyRate`, the rate of README.md:153, if `MaxLag = 0` |
| `SeedingProofs` | `SaleSellsItsStock` | `ConservedSinceSeed`, if `Quiet` and `SeedShards = NumShards` |
| | `SaleIsOpen` | `SaleOpens`, if `Quiet` and `RedisFaults` is empty |
| | `LiveNeverExceedsStock` | `LiveWithinStock`, under the hypotheses of `SaleSellsItsStock`, `"lost" \notin NatsFaults` and `DLQFed = FALSE` |

`PlacementProofs` extends `InventoryProofs`, `PaymentWindowProofs` extends
`PlacementProofs` and `SeedingProofs` extends `PaymentWindowProofs`; `CheckoutProofs`
extends `WaitingRoomProofs`. Each proves its step lemmas about one step of its own
module, and the modules above it cite them.

How the arguments go:

- *Refunds.* `RefundAtMostOnce` is not inductive. `OrderInv` adds what it rests on:
  a `RESERVED` key has not been refunded yet, a key exists only after `Place` has
  marked it, and a sweep has taken nothing from the shards it has still to visit.
  The last part (`ProbedOnce`) needs the arithmetic of the sweep: `SiblingInjective`
  says that it visits no shard twice, `SiblingOnto` that it misses none.
- *Conservation.* A step changes at most one counter by one and one of the two sets
  of orders by one element; `OneMore` is the fact about cardinality. `ProbedOnce`
  makes the taken unit a new element.
- *Latch.* `SweptEmpty` says what a sweep knows: the shards behind it are empty and
  stay so, as counters only fall without refunds. It is said of the buyers who have not
  left: the sweep of one who has reads nothing, and its `SET` of the latch is not sent. `SweepComplete` turns the last
  probe into "all are empty".
- *One unit.* A sweep that goes on has taken nothing, unless a reply was lost: a
  probe either wins, and `Reserve` returns its key, or leaves the counter alone.
- *The sum over the shards.* `HoldersWithinStock` adds up `ShardConserved`. There is no
  induction over data in this prover, but there is the well-foundedness of `<`
  (`LeastNumber`): `UnitsBounded` takes the least number of shards for which the count
  is wrong and looks at the shard before it. `SeededBelow(k)`, in closed form, is what
  the first `k` shards are seeded with, and `SeededBelow(NumShards) = Stock` is "so that
  sum(shards) == stock" of `seeder.go`.
- *Refinement.* `StepSim`: under `SysInv` every step of the order path is an
  inventory step or leaves the inventory alone. `SysInv` is type correctness plus
  `Contract`: an order that is on the stream, in the DLQ, in a row, in a schedule or
  in a processor's hands was marked, which is what the guards of `Release` and
  `MarkPublished` ask for. With it, the inventory's theorems carry over. `PlaceInv`,
  the part about `Placement`, serves `PlacementSpec` and `SeedingSpec` as well.
- *Durable.* `AcceptedIsDurable` needs `HandledHasRow`: past the insert the row of the
  message in hand exists, so the `Ack` removes no event that is still needed.
- *Failed `Place`.* `FailInv`: until it ends, a `Place` call that won holds a `RESERVED`
  key, or the unit was given back or the order persisted by somebody else, or its client
  has left. The key may expire, but only after `Place` has returned.
- *Cancelled once.* `OwnerInv`: the CAS makes one processor the owner of an order's
  cancellation; the row shows it, there is no notice yet, and no other processor
  owns it. The guard key plays no part: it may expire at any time.
- *No oversell.* `HoldInv`: downstream of the stream there are only accepted orders,
  and an order that was refunded is cancelled or was given up by its `Place`. The
  two assumptions of the theorem are necessary: `placement_oversell` is the
  counterexample without the first.
  `LiveWithinSeed` combines it with `HoldersWithinStock`.
- *Room.* `NobodyOvertaken` rests on the clock: a join returns after the moment its
  score stands for, and whoever has been admitted has a score the clock has left behind
  (`QueueInv`). `DrawInv` counts what a session has in hand, a place in the queue or a
  token, against the times it has queued.
- *Checkout.* `KeyInv`: the request that claimed the key has it to itself until it
  records an outcome. `CommitInv` adds that a key which may be claimed has no order,
  and `ReplayInv` that, before the first 5xx, a request told `DUPLICATE` still finds its
  own fingerprint. `PassInv` pays for each forwarded request with a use of the token,
  and `DrawInv`, which holds of the chain because it implements the room, pays for that
  with a wait.
- *Seeding.* `SeedInv` says that the orders begun before the counters were set are done
  with: their `Place` calls have ended (`OldIdle`) and none has a `RESERVED` key
  (`OldSpent`), so a timeout processor, the reconciler or the DLQ worker may still run
  `Compensate` for one and finds nothing to refund. Only orders of the new sale move its
  counters (`OnlyNewOrders`), and conservation is `ShardConserved` with the old orders
  left out. `SaleInv` is the latch argument again, for the buyers who have not left and
  from the call on that deletes the latch; it can say nothing of buyers turned away
  before that. `LiveNeverExceedsStock` needs more (`NewInv`): no event of the last sale
  will be delivered and its rows are gone (`OldGone`); the `TRUNCATE` hits no cancelled
  row of the new sale (`YoungInv`, where `WindowOutlastsSeed` is used); and the
  invariants of *No oversell*, `HoldInv` and `OwnersCancelled`, hold of the new orders.
  So the live orders are among those that hold a unit of this sale, of which there are
  at most `Stock` (`OutBounded`, in `LiveBounded`).
- *Breaker.* `BreakerInv`: while closed, `failures` is the length of the run of
  failures; while half-open, `successes` is at most the run of successes.
- *Rate.* `Potential`: what has passed, plus what a call at the slowest clock would
  find in the bucket (`Found`), is at most a full bucket, the refill of `span` and
  `setback`, and what that clock has yet to catch up (`Ahead`). A call moves tokens
  from `Found` to what has passed, a tick adds at most one refill to each side, and an
  older `last_updated` costs exactly its setback. The key's expiry is the step that
  needs `MaxLag <= FillTime` and the factor 2 of the TTL: the bucket must be full for
  every clock when it is forgotten. `Kept`: a promise is what is in the bucket plus
  the refill until it is due; the prover gets the refill's linearity as lemmas
  (`RateAdd`, `RateMono`), as it does no non-linear arithmetic by itself.
  `SteadyWhenOnTime` adds that without lag there is never a setback.

The inductive invariants were checked with TLC too, on the instances of section 3.

Only model-checked: every liveness property (`PlaceReturns`, `AcceptedIsPersisted`,
`UnpaidIsCancelled`, `ClosesWhenHealthy`, `AliveIsAdmitted`, `PendingIsResolved`; fairness and
`ENABLED` are out of tlapm's reach), and `LedgerSpec`, because the sum of the counters
is a fold over the shards, and how a fold changes with one of its terms is a fact about
a recursive definition. `HoldersWithinStock` is what the ledger says of the stock, proved
without the fold. Every other property of a passing run is a theorem.

## 7 Where the code and its documents disagree

Two disagreements have a run that shows them:

- `payment_window_restock`: a timed-out order's unit never comes back.
  `handleOrder` has set the reservation to `PUBLISHED`, for which
  `release_stock.lua` returns without an `INCR`; the processor logs "order timed out
  and stock restored".
- `placement_oversell`: a publish whose acknowledgement is lost is stored. `Place`
  takes it for "no stream stored it" and returns the unit; the worker persists the
  order.

Others were met while modelling. Each is stated as a property that the code does
not keep; TLC finds the counterexample with the constants given.

| Property | Constants | What happens |
|---|---|---|
| `LatchMeansEmpty` (`Inventory`) | `MCInventory`, `RedisFaults = {}` | a refund whose `INCR` and `DEL` fall between another buyer's sweep and his `SET` leaves the latch set, without expiry, over stock |
| `ExecutesOnce` (`Checkout`) | `UpstreamFaults = {"lost"}` | a 5xx is taken for "nothing committed" and reopens the key; after a lost backend reply or an unacknowledged publish the retry places a second order |
| `SteadyRate` (`TokenBucket`) | any `MaxLag > 0` | a call with an older time sets `last_updated` back, and the difference is refilled twice: two gateways whose clocks differ exceed the rate for as long as they alternate (README.md:153: "the backend can never sustain more than `refill_rate` requests/sec per key"). With `MaxLag = 0` it holds (`SteadyWhenOnTime`) |
| `ConservedSinceSeed`, `SaleOpens`, `LiveWithinStock` (`Seeding`) | `Quiet = FALSE` | a refund, a sweep or an event of the last sale that is still under way reaches the new counters, latch or table |
| `ConservedSinceSeed`, `LiveWithinStock` (`Seeding`) | `SaleIsOver` without its last conjunct (for `LiveWithinStock` three orders) | the worker's insert was committed and its reply lost on the last delivery: the row is unpaid, its reservation still `RESERVED`. The counters are set, the reconciler cancels the old row before the `TRUNCATE` and refunds it into the new counters (`timeout.go:76`), which sell one unit too many. Waiting for the end of the `Place` calls and of the stream is not enough; the reservations' TTL must have run out too |
| `AcceptedIsDurable` (`Placement`) | `MCSeeding`, `MaxDeliver = 2`, `MaxSeeds = 1` | a buyer who is served between the `SET` of the counters and the `TRUNCATE` loses his accepted order with the old rows (`seed.go:66`) |
| `ConservedSinceSeed` (`Seeding`) | `SeedShards = 1`, `Stock = 2` | a `-shards` flag below `INVENTORY_SHARDS` leaves old stock in the other shards |
| `AcceptedIsDurable` (`Placement`) | `Outage = TRUE` | an accepted order nobody fetched for 24 hours is dropped from the stream and keeps its unit |
| `FailedPlaceAlwaysRestores` (`Placement`) | `MCPlacementNats` | `Place` makes every Redis call with the request's context. The client leaves before `SET RESERVED`, during the publish back-off or during the last attempt; the call fails, `Compensate` is not sent, and the unit is leaked (`service.go:66`: "the stock is restored exactly once"). No other fault is needed: six steps. `FailedPlaceRestores` is the property with this case excepted |
| `UnitsWithinStock` (`MCPlacement`) | `Requested <- MCTwoEach` | the row carries the quantity, both scripts move the counter by one (`release_stock.lua:2` documents `ARGV[2] = qty`) |
| `ExhaustedIsCompensated` (`Placement`) | `PlacementFairSpec`, `StoreFaults = {"err"}` | nothing publishes on `orders.dlq`; an exhausted message keeps its unit (README.md:554-556) |
| `CollisionIsAcked` (`Placement`) | no faults, `Buyer <- MCSameBuyer` | `ON CONFLICT` names `order_id` only, so a second order of a buyer is `Nak`'ed until its deliveries are used up and keeps its unit (`store.go:138`) |
| `GuardNeverBlocks` (`PaymentWindow`) | no faults | a timeout that fires before `expires_at` leaves its 24 h guard, and the reconciler takes the order for a duplicate ("retried next sweep", README.md:767) |
| `RefundToOrigin` (`Placement`) | `MCPaymentWindow`, `Crashes = {"worker"}`, `MaxDeliver = 1` | a timeout refunds the buyer's home shard instead of the shard the unit came from (`router.go:46`) |
| `StatusTellsAdmission` (`WaitingRoom`) | one session | an admitted session is no longer ranked, and `Status` tells it to wait (`room.go:58`) |
| `ReplayMatches` without its condition (`Checkout`) | `UpstreamFaults = {"err"}` | between verdict and `HGETALL` the key fails, is reclaimed with another body and completed: the replay is the response to the other body |
| `ReplayAnswered` (`Checkout`) | no faults | the gate is before the idempotency middleware and has used up the token: a repeated request gets 403, not the cached response (README.md:384) |
| `NoFalseDuplicate` (`Checkout`) | `UpstreamFaults = {"err"}` | a retry between the 5xx and the `HSET FAILED` gets 409 (README.md:445) |
| `ExchangeIsCapability` (`Checkout`) | no faults | `POST /admit` uses up the token the purchase gate asks for (README.md:969) |

README.md:454 says that a Redis error during the claim is "fail-open"; the
middleware answers 503, and so does the model.

## 8 Not modelled

- Payment itself. No code of the repository sets an order to paid.
- JWT, CORS, recovery, request ids, logging, metrics, health checks, configuration:
  no protocol state. The user and the session of a request are parameters.
- The upserts of the catalogue tables and the foreign keys of `openwar.orders` on them:
  nothing that is modelled reads them, and after the first seeding they are there.
- `Migrate`: it runs when a process starts, before there is protocol state (section 9).
- A refill rate of zero (`ADMISSION_RATE=0`): `EXPIRE` then gets an infinite TTL, the
  script fails, and every request passes (fail-open); the bucket assumes a positive
  rate.
- Graceful shutdown: its effects are those of a cancelled context followed by a crash,
  both of which are modelled.
- The fallback of `HandleDLQMsg` for an empty shard key, which no publisher produces.
- Clock skew between gateways in the room (it has one clock, and one join in flight per
  session), and the expiry of an idempotency key under a running request (24 hours
  against seconds).
- Commands that go-redis sends again by itself. Its default is three retries after a
  network error (the program sets no `MaxRetries`), so one `Reserve` probe may run the
  script twice and take two units of one shard, and a `SETNX` may be refused by the guard
  it has just set. In the models a call is executed at most once; a lost reply is seen by
  the caller, which goes on to the next shard or treats the guard as its own error path
  does. The leak of a unit to a lost reply is there, one per call; the second unit of the
  same shard is not.
- A call to the limiter that is more than the time to fill the bucket behind
  (`MaxLag <= FillTime`; with the gateway's configuration the bucket fills in 2 s). The
  timeouts of go-redis's pool, dial and read together allow more; such a call could find
  a bucket evicted that by its own clock is not full yet.
- `Room.Admit` and `HasAdmission`, which nothing calls.
- Strings: keys, JSON, fingerprints, UUIDs. An order id is fresh, a fingerprint is
  the body, `fnv32a` is the constant `HomeShard`.

## 9 Plan

The order was: what the system sells (inventory), how a sale becomes an order
(placement), how it ends (payment window), the guards in front of it (breaker, waiting
room, checkout, token bucket), and what happens between two sales (seeding). What is
left, in order of importance:

1. A model of `Migrate`: two processes that start on an empty database both find a
   version missing; one commits, the other fails to open its store and exits.
2. An abstract specification of an idempotent endpoint that `Checkout` refines while
   `UpstreamFaults` is empty.
3. `LedgerSpec` as a theorem, with the sum of the counters written as a recursive
   function of the number of shards counted and `LeastNumber` in place of induction.
4. Composition of `Checkout` with `Placement`: the backend's reply as the outcome of a
   `Place` call instead of a choice.
