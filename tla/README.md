# A TLA+ model of neb-lite

neb-lite is the backend of a ride-hailing service: a NestJS process with
PostgreSQL for what must last, Redis for what is hot, and BullMQ queues for
what can wait. Its hard part is not any single handler. It is that handlers,
queue workers and callbacks share rows and keys, that almost nothing runs in a
transaction, and that every `await` lets another one in. This directory models
that part, checks it with TLC and proves with TLAPS, for every value of the
constants, all of the safety properties that the passing runs check.

Paths below are relative to the repository; `MS` is
`src/rides/domain/services/rides-management.service.ts`.

## 1. Inventory

| Component | State | Operations | Interacts with |
| --- | --- | --- | --- |
| Ride lifecycle (`rides-management.service`, `rides-tracking.service`, ride repositories) | rows `rides`, `ride_driver_candidates`, `ride_status_history` | cancel, accept, reject, confirm, rider reject, start, complete | tracking on completion; payment through the row; notifications |
| Trip tracking (`trip-tracking.service`, its processor and repositories) | Redis: state and event list of a ride, set of active rides; tables `trip_track`, `trip_summary` | record a location, total distance, mark completed, flush all, flush one ride, clean up | called by start, location and completion handlers; a queue worker flushes |
| Ride payment (`rides-payment.service`, `payment.service`, processor, repositories) | payment columns of `rides`, `ride_payment_details`, `ride_payment_outbox`, the payment queue | proceed with payment, process an outbox row, take a notification | the payment provider, over HTTP both ways |
| Notification stream (`notification-stream.adapter`) | connected clients of a channel, subscribed channels, pending subscriptions | subscribe, disconnect, emit, handle a message | Redis publish/subscribe; called by every ride handler |
| Driver location (`location.service`, `geolocation.repository`, processors, scheduler) | the queue; Redis `drivers:geo`, `geo:drivers:metadata`, `drivers:active` | report a position, store it, remove idle drivers, find nearby drivers | ride creation asks for nearby drivers |
| Ride creation and route estimation (`MS`, `ride.processor`, `ride.repository`) | the ride row before it exists, the ride queue | check for an unfinished ride, estimate the route, find drivers, store, offer | location, fare engine, OpenRouteService, notifications |
| Fare engine (`fare-engine.service`) | none | fare, discount, app fee | creation, completion |
| Authentication (`authentication.service`, `sms-processor`, `access-token.guard`) | codes, refresh and access tokens in the cache; the SMS queue | request a code, send it, verify it, refresh, log out, admit a request | client profiles, SMS service |
| Client signup (`client.service`, the two profile repositories) | rows `rider_profile` and `driver_profile`, advisory locks | sign up as a rider or a driver | authentication reads the profiles |
| Ride notifications, gateway controllers, infrastructure | none of their own | compose, decode, connect | everything |

What is hard, and where the properties aim:

* **Check, then write.** `transitionRideStatus` reads a status, checks it and
  calls `updateRide`, which reads again, merges and writes every column. Any two
  handlers interleave there. Only `claimDriver` locks.
* **Entities written back whole.** A row read before an exchange with a provider
  or a queue is saved after it.
* **Two stores, no transaction over both.** Redis is emptied before PostgreSQL is
  filled; an outbox row is committed before its job is queued.
* **Delivery.** Jobs are retried, waits time out while the job goes on,
  notifications of the provider are repeated and come in any order.
* **Callbacks.** A subscription is pending while clients come and go; a cleanup
  chained to it runs later, in another situation.
* **Promises that go on.** `Promise.all` fails with its first promise, and the
  other one still adds a job or gets a result.
* **Ids that are reused.** A fixed job id drops what comes while an old job is
  there; a cache key shared by two roles or two clients mixes what it holds.
* **Time.** A cleanup compares with a time it took before it read.

`PROJECT.json` lists these hazards one by one with the line where each bites and
the property that watches it.

## 2. Modules

Every module has the state as variables, one action per statement, transaction
or callback of the code, `Next` and `Spec`. A guard that makes a handler throw
before it changed anything is a stuttering step and so is not an action: the
actions have the opposite guard. Definitions marked `Mutant` are plausible bugs;
they are used by nothing, and replacing the definition after them shows that a
property can fail.

### RideLifecycle

One ride, from the moment `createRideWithDetails` has committed it. `ride`,
`candidates` and `history` are the rows; `req` holds the handlers in flight. A
handler is a record: its operation, its next database access (`pc`), the call of
`transitionRideStatus` or `updateRide` it is in (`stage`), the driver it acts
for, the entity it holds (`row`), the status it will record (`from`) and the
candidates it has still to save (`todo`).

| Code | Actions |
| --- | --- |
| entry and first guards of each handler | `CancelRide`, `AcceptRideByDriver`, `RejectRideByDriver`, `ConfirmDriverAcceptance`, `RejectDriverAcceptance`, `StartRide`, `CompleteRide` |
| `findByRideAndDriver` and the guards on it | `AcceptCandidate`, `RejectCandidate`, `ConfirmCandidate`, `RiderRejectCandidate` |
| `markCandidateSuperseded`, `claimDriver`, saving the answer | `MarkCandidateSuperseded`, `ClaimDriver`, `SaveCandidate` |
| `transitionRideStatus` | `TransitionRideStatus`, then `updateRide`, then `RecordStatusChange` |
| `updateRide` | `UpdateRideMerge`, `UpdateRideWrite`, `UpdateRideReload` |
| `findByRideId`, `saveMany` | `ListCandidates`, `SaveMany` |
| an access that fails, a process that dies | `Fail` |

`Continue` says what each handler does after a transition: it goes on whether or
not the transition changed anything, as the code does. `Overlapping` is the set
of operations that callers may run at the same time; the theorems and runs say
for which sets which property holds, because the code has no locking that would
make them hold for all. `StandingOf` and `Ownership` are the refinement mapping to
`RideOwnership`. Left out: texts, timestamps, distances (the proximity
checks pass), notifications, the removal of queued route jobs in `cancelRide`.

### TripTracking

The Redis keys of one ride and its rows. A position of the driver is the number
of its report, so that the distance between two reports is a difference, and a
lost, repeated or reordered report shows. `recordLocation` is three actions
(read, save the state, push the event), completion is the same three plus the
total, the transition, the two accesses of `markRideCompleted` and the queued
flush; `flushRide` is `LRange`, `Del`, `PersistFlush`, `CheckCompleted`, `LLen`,
`CleanupRide`. `PersistFails` rolls the transaction back, `geo` counts distances
that Redis failed to compute. `Overlap` is the set of kinds that may overlap.
The summary of a batch is the total of its last driver event (`LastTotal`), as the
`Map` that the code fills keeps the last entry of a role. `stale` is a history
variable: it is set when a report writes back a state that
was changed, or belongs to a ride that was completed, since it was read. Nothing
in the code depends on it; it says when the fare distance and the cleanup are
promised. `FareDistance` is the choice of `completeRide` before it asks the fare
engine: a total of 0, after reports whose distances Redis failed to compute or whose
state was lost, is replaced by `distanceActualKm ?? distanceEstimatedKm ?? 0`, which
is the constant `Estimate`. Left out: the expiry of the keys after an hour.

### RidePayment

One completed ride. `proceedRidePayment` runs from `ProceedRidePayment` through
`FindDetail`, `SaveDetailAndOutbox` (a transaction), `AddJob`, `SaveJobId`, the
wait and its timeout, `RefreshDetail` and `UpdatePaymentState`; the worker from
`TakeJob` through `PostPayment` to `MarkCompleted` or `SaveFailed`, whose error
makes the queue try again; a notification is `HandleNotification` and
`SaveDetailWithRideUpdate` (a transaction). A detail holds the token and the address of
its link apart from each other: a call returns an existing link only if both are there
(`HasLink`), and an answer of the provider may bring one without the other. The provider is external: it accepts
an order once, may lose the request or the answer, lets the rider pay an order
whose link the rider has, and notifies any number of times. `MaxOrders` bounds the
order ids that are generated. Left out: amounts, the whitelist of addresses.

### NotificationStream

One channel in one process. The subscriber connection is a queue of commands and
a queue of replies and messages, the publisher connection a queue of `PUBLISH`
commands; Redis takes one command at a time. What waits for the promise of a
subscription (the flag `cleanup`, the sequence `waiting`) runs in the turn of
the event loop that receives its reply, so the reply is one action:
`SubscriptionFulfilled`, `SubscriptionRejected`, or `UnhandledRejection` when the
rejected promise has no handler and the process ends. Left out: a lost
connection to Redis, emits of other processes.

### DriverLocation

All drivers. A job is a record in a set; the job id keeps `UpsertDriverLocation`
from adding a second one. `StoreDriverLocation` is the one `MULTI`; the cleanup is
`CleanupStarts` (takes the time), `ReadStale` (a batch), `RemoveStale` (a
`MULTI`), again while batches are full; the search is `GeoRadius`, `ReadScores`,
`ReadMetadata`. Time is the age of each score; `lag` is the time since a cleanup
or a search read the clock. Left out: distances (any stored driver may be near),
the per-driver hash, which nothing reads.

### RideOwnership, the abstract ride

What `RideLifecycle` promises its drivers, in three variables: who has the ride,
where each driver stands (`open`, `engaged`, `out`), how the ride ended. A driver
who is neither engaged nor out takes a free ride, only the holder is engaged, a
holder who is out loses the ride, being out is for good, and the ride ends once.
The mapping is `driver_id`, the candidates' statuses and the terminal status.

### FareEngine

`calculateFare` as operators on integers. Distances are in tenths of a metre; the
rate and the percentage may be fractions and are in `1/Scale`; base fares are in
`1/(1000 Scale)` of the currency, all other amounts in cents. The code's two
`Math.round`s are integer divisions. `ExactFare` is the reference definition without
any rounding: it chooses between the minimum fee and the percentage by the unrounded
discounted fare. The code chooses after rounding, so there are fares for which the
choice differs. `RoundingDecides` says which: those within half a cent below the
threshold, and those above 0 that round to 0. Assumed: the minimum fee, the threshold
and the discounts have at most two decimals.

### RideCreation

Calls of `createRide`. `pc` is the request and `route` its promise of an estimate:
the two run concurrently and the second goes on when the request has failed.

| Code | Actions |
| --- | --- |
| the check for an unfinished ride, up to `Promise.all` | `CreateRide` |
| `requestRouteEstimatesThroughQueue` | `RemoveOldJob`, `CreateQueueEvents`, `AddJob`, `Listen`, `Timeout`, `QueueFails` |
| `RideProcessor`, `fetchRouteEstimates` | `TakeJob`, `EstimateRoute`, `EstimateFails` |
| `getNearbyDrivers` and its outcome | `GetNearbyDrivers`, `NearbyDriversFail`, `NoDriverNearby` |
| `createRideWithDetails` | `CreateRideWithDetails` (to the commit), `CreateFails`, `LoadRide`, `LoadFails` |
| the offers, the answer, the catch block | `NotifyRideOffered`, `NotifyRideMatched`, `CreateRideCatch` |
| a process that stops | `Crash` |
| what becomes of the ride | `ReadRide`, then `MoveRide`, `CancelRide` or `CompleteRide` (with the fare) |

`seen` is the number of committed rides when a request looked for an unfinished
one; it is a history variable. The handlers of a stored ride are those of
`RideLifecycle`, reduced to what `createRide` can see of them: each reads the row,
finds its status among the allowed ones (`AllowedStatuses`) and later writes the whole
row (`UpdateRide`), so a handler that read an unfinished ride can write it back after
another one has cancelled or completed it. `revived`, a history variable, remembers
that. A handler writes once here; the second writes of cancel and complete, which
repeat the status, are in `RideLifecycle`. The job id is the rider and the millisecond, so
`clock` may stand still between two requests. Left out: the limit of candidates,
texts, coordinates (a route is the request it belongs to).

### Registry and ClientSignup

`Registry` is what a signup promises: a profile for a number that has none, with
an id that is new in its table. `ClientSignup` is how: two session locks taken with
`pg_try_advisory_lock`, the two lookups, the insert, the commit, and the unlocking
in `finally`, one action per statement. The sessions are those of the connection pool:
a request that ends gives its session to a later one. A statement may fail:
`LockFails` and `RollbackTransaction` lead to the unlocking, but an unlock that fails
(`UnlockFails`) skips the locks after it, and `release()` returns the session with the
locks it still has. `leaked` keeps them; the session can take them again, since
advisory locks are reentrant, and everybody else is refused until the pool closes the
session (`PoolCloses`). A connection may break (`ConnectionLost`), also while the
commit is under way; the server notices later (`LossIsNoticed`), and the session ends
with its locks and its transaction. A `ROLLBACK` fails only with its connection.

### Authentication

Handlers of any clients over the cache, one action per cache command. It takes its
clients from `Registry`, so it is checked against what signup promises and not
against its statements. Codes and tokens are numbered as they are generated; the
entries of the cache expire at any moment; a handler may die at any step (`Die`). The
queue of SMS jobs has its fixed job ids and keeps a failed job. Left out: hashes
and signatures (nobody guesses), the time to live in numbers.

### MC modules and proofs

`MCRideLifecycle`, `MCTripTracking`, `MCNotificationStream` and `MCAuthentication`
add symmetry and the sets of overlaps; the other modules are run as they are.
The theorems are in `RideLifecycleProofs` (which also has the refinement of
`RideOwnership`), `TripTrackingProofs`, `RidePaymentProofs`, `RideCreationProofs`
(with the fare engine), `DriverLocationProofs`, `NotificationStreamProofs`,
`AuthenticationProofs` and `ClientSignupProofs` (with the refinement of
`Registry`).

## 3. Runs

| Run | Result | Bounds | Question |
| --- | --- | --- | --- |
| `RideAcceptRace` | passes, fair | 2 drivers, 2 requests, 1 failure, history to 9 | Accepts race each other and everything else happens in between: do ride, candidates, history and fare agree, can two drivers have the ride or hand it over, is every step one of `RideOwnership`, does a claim end in an accepted ride? |
| `RideTripRejected` | violation | 1 request | A rejection takes the driver from a trip that has started. |
| `RideCancelRace` | violation | accept and cancel overlap | A committed cancellation is overwritten by an acceptance. |
| `TrackOverlap` | passes, fair | 2 reports in flight, 2 driver positions, 2 rider reports, 1 failed flush, 1 failed distance, an estimate above any distance driven | Everything overlaps but the driver's own reports: is the rider ever charged for more than was driven, but for the estimate; is the fare distance exact, are rows repeated, is the summary the last row, does a completed ride leave Redis? |
| `TrackLost` | violation | 1 report in flight, 3 driver positions, no failure | A report pushed between `lrange` and `del` is lost. |
| `PaySerial` | passes, fair | 1 call at a time, 2 outbox rows, 2 order ids, 2 attempts, 1 crash | Timeouts, retries, crashes, lost answers, notifications at any moment: one order, known to its detail, a payable link, and a payment that is recorded? |
| `PayReopened` | violation | 3 outbox rows | A paid ride goes back to `on_process`. |
| `NotificationRace` | passes | 3 clients, 3 emits, 1 refused subscription | Is a notification missed, repeated or reordered, or a subscription leaked, while clients come and go? |
| `LocationCleanup` | passes, fair | 3 drivers, at most 2 reports each and 3 together, batches of 2, idle after 1 tick, lag 1, 1 failure | Do positions go back, are answers coherent, does every cleanup finish its work, does an idle driver disappear? |
| `ClientSignup` | passes, fair | 2 numbers, 3 sessions, 3 requests, 2 failures | Does a number get one profile, is a lock without a request always one that a failed unlock left, is every commit a step of `Registry`, does one of several competing requests get through? |
| `Authentication` | passes | 2 numbers, 2 handlers in flight, 2 codes, 3 pairs of tokens, 1 fault | Do spent codes and sessions stay dead, does anyone get the code or the tokens of another client? |
| `RideCreation` | passes, fair | 1 rider, 2 requests, 2 milliseconds, 1 worker slot, 1 fault, 2 handlers with 2 calls, 2 distances, 3 discounts around the fee threshold, a rate of 3.5 | When do two requests make two rides, is the estimate that of the ride's own route, does a refusal leave a ride, is the fare exact but for rounding, is every request answered? |

**Why the bounds are enough to be interesting.** Two requests in flight give
every pair of handlers. A history of 9 rows has room for an accepted ride that is
released, accepted again, confirmed and then started or completed. The driver's
start, positions and completion give two distances, so that a total that starts again is
visible. Two outbox rows are a call that timed out and the one that follows it,
with both jobs in the queue. Three clients are one that leaves during a pending
subscription, one that comes, and one that stays. With batches of 2
three stale drivers fill one and leave one over, two fill one that an empty one
follows, and one ends the cleanup with a batch that is not full. Three signups over two numbers are
a pair that competes for one number and a third that retries or comes from the
side, and two failures are a failed unlock and one more thing on the session it
leaves behind. Two codes are an old and a new one; three pairs of tokens are a session, the
one it was refreshed to and a second login. Two requests for a ride share a
millisecond or do not, with one worker slot for both; two handlers are one that
finishes a ride and one that had read it before. The two distances are 2857 m and
2860 m, with base fares of 9.9995 and 10.01 and a threshold of 10.00: the first rounds
to the threshold, the second reaches it exactly with a discount of one cent, and a
discount of 20.00 is refused.
A run with `CHECK_DEADLOCK FALSE` is of a system that may stop: callers promise
nothing.

Each module states the types of its variables (`TypeOK` and the like). A run checks
that of `RideLifecycle`; types are a part of every inductive invariant of section 4,
and so are not repeated in every run.

`RideAcceptRace` and `TrackOverlap` ask in one run what used to be asked in several
smaller ones. Overlaps that the code does not survive are in the violations and in
the hazards.

**Fairness.** A handler that was started runs to its end (`WF` on the steps of
each handler): an `await` on PostgreSQL or Redis returns or throws. A queue
delivers its jobs and repeats its repeated ones (`WF` or `SF` on flushes, jobs
and cleanups: `ensureFlushScheduler`, `onModuleInit` of the maintenance
scheduler). The provider repeats the notification of a payment until it has been
handled (`SF`), as payment providers do. Nothing is assumed of riders and
drivers, and time need not pass. In `RideCreation` the steps of a request are fair,
its timer included, and the worker is not: nothing bounds a call of the routing
service. In `ClientSignup` a request runs to its end and the server notices a
broken session.

**What the violations show.**

* `RideTripRejected`: `Ride already in progress` (MS:390 and MS:550) is refused in
  `enroute` only; in `trip_started`, the status after it, both rejections pass.
  They clear `driver_id`, do not change the status, and the trip can no longer be
  completed because only its driver may.
* `RideCancelRace`: the guard `Cancelled ride cannot be accepted` (MS:274) is
  passed before the cancellation, and the write of the whole row comes after it.
* `TrackLost`: the list is read and its key deleted in two commands.
* `PayReopened`: `proceedRidePayment` checks for `PAID` at its beginning and sets
  `on_process` unconditionally at its end. In the trace a second call finds the link of
  the first, and the notification of the payment comes in between.

Four more things happen in the model and have no run of their own; the hazards
say so: the losing driver of a claim keeps an open invitation because
`claimDriver` throws instead of returning false; a rider can confirm in the
moment between the claim and the transition to `assigned`; two simultaneous
payments make two orders; a driver that reports between the read and the removal
of a cleanup is removed. A driver who sends the same acceptance twice at once
makes two history rows of one change, which is why `HistoryIsConnected` asks that
every change starts from a status the ride was in, and not for a chain.

The other modules add these, none of which contradicts a document in a way a run
could show: a rider has two rides after two requests that overlap, or after a handler
has written back a ride that was finished (`OneRideUnlessOverlapping` says that nothing
else does it); a signup whose unlock fails leaves its number refused until the pool
closes the session; an error after the commit,
or a crash, leaves a ride that the rider was not told of and that refuses the retry;
two verifications that overlap both succeed with one code; two overlapping logins
or refreshes leave the refresh entry of one pair and the access entry of the other,
so each client holds half a session; a failed SMS job keeps later codes of the
client from being sent although the answer is `otp code sent`; the app fee
jumps at its threshold, so that a discount can raise the fare; and as the fee is chosen
after rounding, a fare within half a cent below the threshold is billed as at the
threshold.

## 4. Proofs

Every proof follows the same plan. A lemma per operation says what its steps do,
field by field; the inductive invariant, which says what each handler in flight
still knows of the rows it read, is proved one action at a time; the property
follows from it, and the last step combines the three with `PTL`. Every inductive
invariant was checked with TLC before it was proved. The hypotheses of a theorem
are those of the run that checks the property, and the counterexamples that
forbid weaker ones are named.

### RideLifecycleProofs

For any drivers, any number of handlers in flight, of failures and of history
rows:

| Theorem | Statement | Assumption on `Overlapping` |
| --- | --- | --- |
| `TypeCorrect` | `Spec => []TypeOK` | none |
| `HistoryCorrect` | `Spec => []HistoryIsConnected` | none |
| `OneDriver` | `Spec => []HolderHasRide` | within accept, confirm, start, complete (`KeepDriver`) |
| `DriverIsReleasedFirst` | `Spec => NoHandover` | the same |
| `OwnershipImplemented` | `Spec => ImplementsOwnership` | within accept |
| `HandshakeCorrect` | `Spec => []HandshakeAgrees` | within accept |
| `FareCorrect` | `Spec => []FareMatchesOutcome` | within accept |

The assumptions are not for convenience: with cancel added, `RideCancelRace` is
the counterexample. The only assumption on constants is `ConstantsAssumption`.

`HolderHasRide` is not inductive: whether a save of `accepted` is safe depends on
what the handler that makes it knows. `DriverInv` adds that. `Exclusive`: while a
handler of an operation outside the set is in flight, it is alone. `Shape`: which
stages and program counters go together. `DriverKnown`: an accept that saves has
`driver_id` for its driver, every entity about to be written names the driver
the row still has or releases it, and a rejection has changed its candidate
before it releases. With these every write of a stale row is harmless to
`driver_id`, which is the whole argument: a handler that keeps the driver can
only write the driver that is there.

`StatusInv` is the same for statuses, with `StatusKnown`: while an accept is in
flight the ride is not over, and an entity of another handler that is about to be
written to a finished ride has the status of that ride. The refinement below needs it:
an abstract ride ends once. Each invariant is proved one action at a time; `DriverInvKept` and
`StatusInvKept` settle the handlers that do not move.

`HistoryCorrect` needs no assumption. `HistoryInv` says of every status that the ride
has, that a row of the history starts from, or that a handler holds, that it is
`Covered`: a row leads to it, or a handler that has written it is still to record
it. A write of a stale row can bring back an old status, but only one that is
covered.

`OwnershipImplemented`: every database access is a step of `RideOwnership` or leaves
the abstract ride as it is. The mapping needs to know who is out, which `DriverInv` and `StatusInv` do not say.
`OwnershipInv` adds it: an accept that saves or may still claim has a candidate who
is not out, one that is superseded is not the driver of the ride, a rejection finds
a ride that is not over and has put its candidate out before it releases, and only
`completeRide` is about to write `completed` over an unfinished ride.
`NextOwnershipInv` proves it one action at a time, `OwnershipInvKept` for the
handlers that do not move. `NextOwnership` then looks at the five actions that write
the ride or a candidate: a claim is `Claim`, the first save of an accept is `Engage`,
saves of declined and cancelled candidates are `Withdraw`, and a write of the row is
`Release`, `Complete`, `Cancel` or a stutter.

`HandshakeAgrees` and `FareMatchesOutcome` speak of a ride at rest, so their invariant
must say what holds while handlers work. `HandshakeInv` does, with one predicate per
operation (`AcceptKnown`, `ConfirmKnown`, ...): which statuses the ride can have at
each of its accesses, and which candidates it has dealt with. When only accepts are
in flight (`Quiet`), ride, candidates and fare tell the same story (`Agrees`), but for
an acceptance that is half done, and then some accept is `Working` on the other half.
That is the point: when two accepts of one driver interleave, the one that finds the
work done stops, and the other one must still be there to finish.

### TripTrackingProofs

From `TrackingAssumption`, for any number of reports in flight, reports, failures and
lost distances:

| Theorem | Statement | Hypothesis |
| --- | --- | --- |
| `TypeCorrect` | `Spec => []TypeOK` | none |
| `SummaryCorrect` | `Spec => []SummaryIsLatest` | none |
| `ChargeCorrect` | `Spec => []NeverOvercharged` | `DriverWaits` |
| `FareDistanceCorrect` | `Spec => []FareDistanceIsExact` | `DriverWaits` |
| `TracksCorrect` | `Spec => []NoDuplicateTracks` | `OneWorker` |

`DriverWaits` says that the driver's phone has one report or completion in flight at a
time; the rider and the workers overlap with everything. Without it two reports can be
saved in the wrong order and the way between them is counted twice. `OneWorker` is the
`concurrency: 1` of the tracking processor; two workers can read the same list before
either deletes it.

`OrderInv` draws the consequence of `DriverWaits`: one execution of the driver at a
time, with the last position, and none besides the completion. `SaneInv` is the reason
why stale writes do not overcharge: a total is always smaller than the position it
was measured to, in the stored state and in every state that an execution has read and
may write back. The fare is such a total or, if that is 0, the estimate. For exactness `MarkInv` says that nothing marks the state as completed,
and hence nothing removes it, before `completeRide` has read the distance, and
`ExactInv` that the total is that of the driver's last position, or of the one before
while an execution has still to write it, with the lost distance it has already
counted. `DupInv` follows every report by its key: table, list, the batch of the worker
and the reports in flight have none in common (`TrackInv`, `FlightInv`), and all were
sent (`SentInv`), so the next one is new. `SummaryCorrect` rests on `LastTotalConcat`:
the last driver event of two sequences is that of the second, if it has one.

### RidePaymentProofs

From `PaymentAssumption` and `OnePayer` (one call of `proceedRidePayment` at a time),
for any number of outbox rows, order ids, attempts and crashes, timeouts and
notifications at any moment:

| Theorem | Statement |
| --- | --- |
| `OneOrderCorrect` | `Spec => []OneOrderPerRide` |
| `OpenOrderCorrect` | `Spec => []OpenOrderIsKnown` |
| `LinkCorrect` | `Spec => []LinkIsPayable` |

`OnePayer` is needed: two overlapping calls that both find no detail generate two
orders. A call that timed out and the one after it do not overlap, while the jobs of
both may. `OrderInv`: the order id is written with the first outbox row, and whoever
has read the detail since (worker, notification, call) brings back the same one, so
saving a stale entity is harmless to it. `LinkInv`: a link that an entity carries is
that of the order of the detail, and the provider knows that order. `RowInv` says that
the rows referred to exist.

### RideCreationProofs

For any riders, drivers, requests, sets of drivers nearby, handlers in flight, clock,
faults, worker slots, rates, fees, distances and discounts, from `CreationAssumption` and
`FareAssumption`:

| Theorem | Statement |
| --- | --- |
| `CreationTypesCorrect` | `Spec => []CreationTypeOK` |
| `OneRideCorrect` | `Spec => []OneRideUnlessOverlapping` |
| `EstimateIsOwnCorrect` | `Spec => []EstimateIsOwn` |
| `RefusalCorrect` | `Spec => []RefusalLeavesNothing` |
| `FareCorrect` | `Spec => []FareIsExact` |

`CreationInv` is the inductive invariant. `RequestInv`: a request that began has its
rider, and no answer while it works. `StoredInv`: the request of a ride is past the
commit and has only this ride, so an answer given before the commit is never that of
a stored ride. `SeenInv`: every open ride of the rider of a request before its
commit was committed after its check or was revived, which is what
`OneRideUnlessOverlapping` needs at the moment of the append. `BornInv` says the same
of pairs of stored rides, whatever the later one has become, since a stale write can
open it again. `HandlerInv`: a handler writes a ride that exists. `JobInv`: a job and an estimate belong to a request
with the same job id; `EstimateIsOwn` is its last part read through the definition
of the id. The steps fall into four kinds (a request moves, the queue moves, a ride
moves, a request begins, commits or ends), each with a lemma that settles what does
not move. The fare is arithmetic: `RoundedToCents`, `AppFeeRounded` and `PercentRounded`
bound each rounding; `SameBranch` says that, unless `RoundingDecides`, the fee chosen
after rounding is the one chosen before it; `MinimumClose` and `PercentageClose` bound
the two kinds of fare, and `FareRounded` puts a bill together.

### DriverLocationProofs

From `LocationAssumption`, for any finite set of drivers, batch size, idle time and
numbers of reports and failures: `StoredInOrderCorrect` (`Spec => StoredInOrder`),
`AnswerIsCoherentCorrect` (`Spec => []AnswerIsCoherent`) and
`CleanupIsCompleteCorrect` (`Spec => CleanupIsComplete`).

`StoreInv`: the job id leaves a driver at most one job, and a job that is still to be
stored is newer than what is stored; five concurrent workers therefore cannot store
out of order. `SearchInv` relates what the search has read to what is stored now.
`CleanupInv`: a batch that is not full holds every driver that was stale when it was
read, by counting; the loop of the cleanup ends with such a batch.

### NotificationStreamProofs

From `StreamAssumption`, for any clients, emits and refused subscriptions:
`SubscriptionCorrect` (`Spec => []SubscriptionMatchesClients`), `DeliveryCorrect`
(`Spec => []NoNotificationMissed`) and `InOrderCorrect` (`Spec =>
[]NotificationsInOrder`).

`LinkInv` lists what can be on the subscriber connection for each state of the promise:
at most one subscribe that is unanswered, an unsubscribe only before it. `NoteInv`
relates that to what the process has noted, so that after the last command in flight
the server's subscription is the one the clients need. `DeliveryInv` says that, unless a
subscription was refused, no command that publishes for a connected client is under way
while a subscription is pending: such an emit waits for the promise.
`SortedInv` orders the whole way of a notification, inbox, connections and waiting
emits, each part before the next.

### AuthenticationProofs

For any phone numbers, clients, handlers, codes, tokens and faults:
`SpentCodeCorrect` (`Spec => []SpentCodeIsDead`), `SpentSessionCorrect` (`Spec =>
[]SpentSessionIsDead`), `TokensAreOwnCorrect` (`Spec => []TokensAreOwn`) and
`CodeIsForItsClientCorrect` (`Spec => []CodeIsForItsClient`). There is no hypothesis;
clients come from `Registry`.

`AuthInv` says that a code and a token are put into the cache under the keys of one
client (`OwnInv`), by one handler, and only before the caller knows them; and that what
a handler has taken out is out (`HandlerInv`). So what was spent never comes back
(`DeadInv`). `RegistryInv`, one profile per number and id, is what makes the keys of two
clients different. `TableStep` sums up what any step may do to cache, codes and pairs.

### ClientSignupProofs

From `SignupAssumption`, for any numbers, sessions, requests and failures, broken
connections and failed unlocks included: `OneProfileCorrect` (`Spec => []OneProfilePerMsisdn`), `LocksReleasedCorrect`
(`Spec => []LocksAreReleased`) and `RegistryImplemented` (`Spec =>
ImplementsRegistry`), the refinement.

`LockInv`: a session holds exactly the locks that its request has acquired and those
that were left with it, so two requests for one number are never both past their locks:
a leaked lock excludes as a held one does. `CheckInv`: hence what a
request has looked up still holds when it commits, and the two tables together have at
most one profile per number. `IdInv` and `CountInv` are for the refinement: the id of a
profile is new in its table, and no more ids are taken than `Registry` has.

### Only model-checked

Liveness, which the prover cannot handle under fairness: `ClaimLeadsToAccepted`,
`CompletedRideIsCleanedUp`, `PaymentIsRecorded`, `IdleDriverIsRemoved`,
`SomebodyGetsThrough`, `EveryRequestIsAnswered`. The four violations are
counterexamples of TLC. Every other property that a run checks is a theorem.

## 5. Not modelled

The controllers, the payloads of notifications, the interceptors and filters,
health checks, metrics, configuration and migrations keep no state of their own.
The upserts of profiles by phone number are called by nothing. The expiry of
tracking keys, the units of the cache's times to live and the limit of candidates
are numbers the models abstract from; the hazards name what they can do. Binary
fractions of the fare are replaced by exact ones, and amounts of the configuration and
discounts have at most two decimals. SQL and Redis are modelled by what
a statement does to the rows or keys in question; a transaction or a `MULTI` is one
step.

## 6. Plan

1. Completion composed with payment, where a late completion sets the payment status
   back.
2. `HolderHasRide` for larger sets of overlapping operations than `KeepDriver`, with the
   operations that the violations exclude named one by one.
3. The safety half of the liveness properties: what a step can never undo on the way to
   a recorded payment or a cleaned-up ride, as action properties.
