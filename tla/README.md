# TLA+ models of the TTAPP taxi backend

TTAPP is a NestJS backend over PostgreSQL/PostGIS (through TypeORM) for a taxi
service: passengers ask for trips, the backend quotes them, looks for a driver
(or lets an operator name one), follows the ride and records its payment.
Paths are relative to the repository root; the program is under `src/src/`, its
schema in `src/db/schema.sql`, its specification in `src/docs/`.

## 1. Inventory

| Part | State | Operations | What makes it correct |
|---|---|---|---|
| Trips (`modules/trips`) | `trips`, `trip_events` | create, review, arrive, start, complete, cancel, rate, queries | a trip moves only along the documented table; it has a driver from its assignment on; the log tells its whole story; a FORANEO trip costs what an operator said |
| Payments and finance (`TripsService.confirmPayment`, entities) | `payments`, `commissions`, `driver_settlements` | confirm a payment, in a transaction with a row lock | a trip is charged once; the settlement of a driver is the sum of the commissions; closed means paid |
| Dispatch (`modules/dispatch`) | `trip_assignment_offers`, `driver_profiles.status` | start dispatch, accept, reject, manual assignment | however dispatches meet, a driver is offered a trip at most once by each; whoever drives was asked; FORANEO only by hand |
| Dispatch expiry (`dispatch-expiry.service.ts`) | offers | a cron pass every five seconds | every offer is answered in the end; an answer is final |
| Drivers (`modules/drivers`) | status, availability clock, vehicle assignment | set one's own status | the clock starts when the driver becomes free and at no other time; BUSY while on the way |
| GPS (`modules/gps`) | last location, history | position ping | the distance charged is the one travelled, however positions arrive |
| Fares (`modules/fares`) | `fare_rules`, zones (read) | quote: category, night schedule, price | night schedules across midnight; no rule, no trip |
| Ratings (`TripsService.rate`) | `ratings` | rate a closed trip | a rating is of a ride that was paid, about who was paid for it |
| Audit (`modules/audit`) | `audit_logs` | explicit records, an interceptor on mutating requests | a row tells of a write that was answered, and of who made it |
| Authentication, guards (`modules/auth`, `common/guards`) | the token | login, validation, permissions | what a token grants its account had, not too long ago |
| Rate limit (`app.module.ts`) | hits per client and route | a guard before every route | it keeps out who guesses passwords and nobody else |
| Users, passengers, vehicles, notifications, configuration | rows | read only, or none | - |
| Health, Redis, bootstrap, error filter, seeds, patch script | - | wiring and I/O | - |

**Interactions.** `create` raises the event `trip.quoted` and awaits the
listener, which is `DispatchService.startDispatch`. A rejected or expired offer
calls `startDispatch` again. `complete` and `cancel` write the driver's status,
which the eligibility query of the dispatch reads. The dispatch and the trip
handlers write the same rows of `trips`, as do the payment transaction and every
other handler in flight. The client, the operator, the driver, and the cron job are
the concurrent actors.

**What is hard.** The server is one Node.js process: a handler runs alone
between two `await`s, and at each `await` any other handler may run. Only
`confirmPayment` opens a transaction; everything else loads an entity, tests and
changes the copy, and writes it with `Repository.save`, then writes the event,
the driver, the audit row, each on its own. So: state is stale when it is
written; two handlers interleave between test and write; a process that dies
leaves the first half of an operation; an offer outlives the reason for it; a
pass of the job is abandoned when one dispatch throws. `hazards` in
`PROJECT.json` lists each at its line.

## 2. The modules

| Module | What it models |
|---|---|
| `TripStates` | the enumerations of `common/enums` and the groups of states the services test against |
| `TaxiStore` | the tables, the handlers in flight, `Repository.save`, events, audit rows, a crash |
| `TripsService` | create, review, arrive, start, complete, cancel, the payment transaction, rate |
| `DispatchService` | startDispatch, answers, manual assignment, the expiry job |
| `DriversController` | a driver's own status changes and the availability clock |
| `Taxi` | composes them: `Init`, `Next`, `Spec`, every property |
| `PaymentLedger` | the abstract specification of payments |
| `MCTaxi` | instances of `Taxi` for TLC: who asks for what, the fair specification |
| `SumLemmas` | lemmas about sums over finite sets, for the proofs of settlements and of the meter |
| `TaxiProofs` | theorems about `Taxi`: types, payments, settlements, the refinement |
| `DispatchProofs` | theorems about `Taxi`: who may come to drive a trip, what is offered automatically |
| `SerialProofs` | theorems about `Taxi` when nobody writes a trip of which another handler holds a copy: drivers, payments, ratings, fares and moves of trips |
| `RaceProofs` | theorems about `Taxi` that ask nothing of its requests: how often a driver is offered a trip, payment before closing and rating |
| `TrailProofs` | theorems about `Taxi`: the log of a trip, for any number of handlers |
| `Fares` | `FareCalculationService`: zones, the night, versions of fare rules, a quote |
| `Metering` | extends `Fares` to the final fare: the driver's phone, `GpsController.ping`, what `complete` measures; its properties |
| `MCMetering` | the instance of `Metering` for TLC |
| `MeteringProofs` | theorems about `Fares` and `Metering`: tariffs, the night, the meter |
| `Access` | `AuthService.login`, the guards, `AuditInterceptor`: tokens against accounts that change |
| `MCAccess` | the instance of `Access` for TLC |
| `AccessProofs` | theorems about `Access` |
| `Reporting` | a phone's pings behind the rate limit, at the configured interval |

`Taxi` and `Metering` meet in a trip: `Taxi` has its states and handlers and
leaves the price of a metered trip open, `Metering` has its price and leaves out
what cannot change it. `Access` is what happens around every handler: its
`Write` and `Answer` stand for any of the handlers of `Taxi`, whose callers are
those the guards let through. `Reporting` stands before the pings of `Metering`.

### How the model corresponds to the code

*A handler in flight* is a record in `req[s]`, `s` a slot: the trip, the driver,
the offer, the in-memory entity `mem`, the state it was loaded in `from`, and
`todo`, the sequence of awaited statements still to run. An action named after a
method (`Arrive`, `Cancel`, ...) is the method from its first line to its first
awaited *write*: the guards are the guards of the code (a request they reject
answers an error and changes nothing, so it is no step), and `todo` is the rest
of the method in the order of the code. Each awaited statement is then one step:
`CompareTrip`, `WriteTrip`, `RecordEvent`, `FreeDriver`, and so on. With one slot
requests are served one at a time, with two they interleave at every await.

*`trips.save`* is two steps, because TypeORM reads the row, compares it with the
entity, and updates the columns that differ. A column someone else wrote since
the load differs too and is written back: this is where stale copies bite. A
relation that was not loaded (`undefined`, here `Unloaded`) is no difference.

*The payment transaction* is two steps: `LockTrip`, the `SELECT ... FOR UPDATE`
with the checks repeated under the lock, and `CommitPayment`, all its writes at
their commit. Between them the row is `Locked`; updates of the row, and inserts
whose foreign key points at it, wait. A crash between them is the rollback.

*The expiry job* reads the pending automatic offers once (`queue`) and takes
them in any order; each is young (`SkipOffer`) or past its timeout
(`ExpireOffer`), time itself is left open. Nothing in the code keeps the timer
from starting a pass while the last is still awaiting, so both slots may run one
at once. A dispatch that throws ends the pass (`Return`).

*A driver's status.* `UpdateStatus` loads the profile, changes the copy and saves
it, with the two halves of `save` (`CompareProfile`, `WriteProfile`); the other
handlers write status and clock with one `UPDATE` (`FreeDriver`,
`OccupyDriver`). The clock tells readings apart as far as `ClockReadings`, which
is enough to see that it was set anew.

*A rating* is one step to its test (`Rate`) and one for its insert, which the
unique constraint of `ratings` refuses when the same user has rated the trip
(`InsertRating`; `SameRater` is the constraint). Score and comment are left out.

*Ranking* is any eligible driver, or none: where drivers are is left open, so
every score and every radius is covered.

*Data.* Amounts are whole centavos; `Number(null)` is 0; the settlement table has
one open period. The quoted fare of a trip that is not FORANEO is never read
again and is left out. NORMAL and NOCTURNO are alike for every handler.
A payment may be confirmed with an amount that is off, which only
adds an audit row.

*A quote* is the three queries of `quote`, an await each, and the insert of the
trip: `Locate` (the zone of the origin, any of them if zones overlap; outside
the coverage the trip is FORANEO and has no rule), `Categorize` (`Nocturno` is
the loop over the schedules, in any order, since the query asks for none),
`FindRule` (the rules in force, the zone's own before the default) and
`SaveTrip`. The number the provider estimates is read by nobody again and is
left out.

*A ping* is two writes, `Upsert` of the last position and `InsertPing` into the
history. The phone takes positions in time and dates them by its own clock
(`Take`), which is off by any of `Skews`, not the same from one to the next: the
code stores `recordedAt` as it comes (`gps.controller.ts:41,53`). They arrive
late, twice, in any order or never. `complete` is `LoadRide` (trip, rule and
minutes) and `Meter` (the rows dated within the ride, in order of their date,
those of one date in any order, and the fare). A trip that is FORANEO is not
metered; its price is in `Taxi`. A copy of a ping that arrives between the two
writes of an earlier copy is not told apart from it. The last position is written
and not read here: the eligibility query compares its date with the server's
clock, so what it takes for silence is the phone's word.

*A login* is `ReadAccount`, the query with role, permissions and status, and
after the password comparison `IssueToken` or `RefuseLogin`. An account's rights
are the permissions of its role and `Active`, its status, a right like the
others; `Withdraw` and `Confer` change them at any moment, as an operator does on
the tables (no code does). A token lives from its signing for `TokenLife`. A
request (`Request`, `PublicRequest`) is the three guards in one step, since they
await nothing; one they refuse changes nothing and is no step. The handler then
writes (`Write`), throws or answers, and `tap` starts the insert of the row,
which is carried out (`RecordCall`), is lost with a process that dies (`Die`) after
the answer is gone, or fails (`LoseRow`): nobody awaits it and nothing catches its
error, so that a failed insert ends the process with whatever else is in flight
(`Stops`). `lostAt` is a history variable: when a
user last lost a right.

*The rate limit* counts the requests of one client to one route that were let
through in the last `Window`. The unit of time in `Reporting` is the interval at
which a phone reports, five seconds.

*External, modelled from its use:* TypeORM's `save`, the event loop, the HTTP
server and the cron timer, the death of the process, the withdrawal of a vehicle
(no code does it; the dispatch handles it). The monitoring
centre, which publishes rules and forces the night (the schema says how, no code
does it), the phone and its network are external too.
`FOR UPDATE` is taken as granted,
although the query joins nullable relations, which PostgreSQL may refuse.

## 3. Runs

The modules of the runs are `MCTaxi`, and `MCMetering`, `MCAccess` and
`Reporting` for `metering`, `access` and `gps_throttled`.
`CHECK_DEADLOCK FALSE` because the system may stop: when every trip is closed or
cancelled, or a clock at its bound, there is nothing left to do.

| Run | Instance | Checks |
|---|---|---|
| `serial` | 1 trip, 2 drivers, 1 slot, every operation on trips and offers, both categories, two fares, audited conditions | `IInv` (types, and a save writes no unloaded relation), `AssignedHasDriver`, `ClosedIsPaid`, `ForaneoFareStands`, `TrailUnbroken`, `CancelFreesDriver`, `RatedWasPaid`, `EnRouteIsBusy`, `DriverWasOffered`, `ForaneoByHand`, `GuardedMoves` |
| `crash` | the same rides with a process that dies at any await, a driver who pauses and comes back at will, a vehicle withdrawn | `AssignedHasDriver`, `ClosedIsPaid`, `GuardedMoves`: what needs no transaction to survive; `ClockStartsWhenFree` |
| `payment` | 1 trip, 1 driver, 2 slots: complete, pay and rate in one while the other drives the trip to its payment; crashes; fair | `PaidOnce`, `OneLock`, `SettlementsBalance`, `ClosedOrRatedIsPaid`, `ImplementsLedger` (refinement), `RequestsReturn` (liveness) |
| `expiry` | 1 trip, 2 drivers; clients in one slot, the expiry job in both; fair | `OfferedOncePerHandler`, `EveryOfferAnswered` (liveness) |
| `metering` | 1 request, 1 zone with or without its rules, 2 night schedules, a day of four minutes, three positions of one phone whose clock jumps | `NeverRefused`, `ZoneTariffWins`, `NoLaterTariff`, `NightAsScheduled` while tariffs change; `MeterIsRight` while positions arrive as they may; `MeteringTypeOK` |
| `access` | 1 user, 2 permissions, two calls at once, a public route, one that needs a token, one that needs either permission and writes; crashes and failed rows | `AccessInv`, `LetThroughHeldRight`: how long a withdrawn right is still good; `TrailIsTrue` |

Six further runs find a sentence of the documentation violated by the code:

| Run | Found | The sentence |
|---|---|---|
| `asked_twice` | the dispatch of a trip's creation and one a client asks for rank the same driver before either inserts its offer: the driver is offered the trip twice | `docs/02`, lines 434-436 |
| `late_accept` | served one at a time, an offer is accepted for a trip that is cancelled, taken, or closed: `respondToOffer` never looks at the trip's status | `docs/02`, table of transitions (line 753) |
| `cancel_ride` | a cancellation that loaded the trip before it started is written after, over the ride | `docs/02`, line 702 |
| `answer_lost` | the driver and the expiry job overwrite each other's answer of an offer | `dispatch.service.ts`, line 251 |
| `two_rides` | 2 trips, 1 driver, served one at a time: the driver accepts both; the end of one sets the driver AVAILABLE in the middle of the other | `docs/01`, line 95 |
| `gps_throttled` | the guard meant for `/auth/login` lets through five positions of a phone in fifteen minutes, after which its driver looks silent to the dispatch | `docs/01`, line 81; `docs/02`, lines 431-433 |

`GuardedMoves` therefore names acceptance as the one move without a guard. What
the serial runs check (`serial`, `crash`) is the life of a trip when requests come
one at a time; they exercise the guards, the order of the awaits and, in `crash`,
what a death leaves, and no race. Section 4 proves most of it of any number of
handlers, and says which pair must not meet. `ClockStartsWhenFree`,
`CancelFreesDriver` and `EnRouteIsBusy` are claimed of such requests only: a
profile saved stale, or the driver of one trip occupied or freed by another,
breaks them. The passing runs with two slots, and the theorems of `TaxiProofs`,
`DispatchProofs`, `TrailProofs` and `RaceProofs`, which are about any number of
them, show what holds all the same.

Further disagreements of code and documents that have no run of their own:

- A process that dies between the save of a trip and the insert of its event
  leaves the change without its row (`TrailUnbroken` with `MayCrash`), against
  `trip-event.entity.ts:8-9`; dying before `drivers.update` in `cancel` leaves the
  driver BUSY (`CancelFreesDriver` with `MayCrash`).
- `auth.module.ts:19-21` says a change of role or permission must not take hours
  to be felt; a token lives eight (`TokenLife`), and `JWT_EXPIRES_IN`, named by
  `jwt-payload.interface.ts:4`, is read nowhere. `LetThroughHeldRight` states what
  the code does achieve.
- `audit.interceptor.ts:18-19` says every write over HTTP is registered: a
  handler that throws after a write is not (`Throw` from `written`), nor a call
  whose row fails (`LoseRow`), which ends the server besides.
- `docs/02:431-433` says a phone that is switched off drops its driver from the
  dispatch; the date compared is the phone's own, so that one whose clock is ahead
  keeps its driver eligible for as much longer.
- `docs/02:583-592` (Ticket 7.12) says a status change that is not a becoming
  AVAILABLE leaves `availableSince` alone; `updateStatus` saves a copy of the
  profile, so that one loaded before another handler's update writes the old clock,
  or the old status, back. (The end of a trip sets the clock even for a driver who
  is AVAILABLE already, as `docs/02:667` and `707` say, and `ClockStartsWhenFree`
  allows.)

### Bounds, and why they are enough

- *Trips, drivers.* Handlers touch one trip; two trips meet only in a shared
  driver or settlement: `two_rides` has the driver, and the theorem about
  settlements is for any number. Two drivers give a second candidate, a
  take-over, and an exhausted list of candidates. Offers are bounded by the model
  itself and need no cap: by `OfferedOncePerHandler` no more than one to each
  driver by each slot, the four of `LastOffer` in `MCTaxi`.
- *Slots.* Two: every hazard listed is between two handlers. The
  theorems of `TaxiProofs`, `DispatchProofs`, `TrailProofs` and `RaceProofs` are for
  any number.
- *Fares* 105 and 250 centavos, at 10 per cent: 10.5 exercises the rounding. One
  amount in `crash`, where a single slot completes and pays, and in the runs that
  find a violation.
- *Cancellations*: one of the three states, which no handler tells apart.
- *Shifts, Retiring*: in `crash` one driver sets AVAILABLE, which undoes BUSY, or
  PAUSED, which stands for the statuses that are neither; the other loses the
  vehicle.
- *ClockReadings* 2 in `crash`: a clock that was set anew differs from what it
  was. One elsewhere: nobody reads it.
- *Audited*: `TRUE` only in `serial`; elsewhere audit rows change nothing else.
- *MayCrash*: in `crash` and `payment`.
- *A day of four minutes* (`Day`), of which the instance lives one and a half
  (`LastInstant`): both windows, the one across midnight and the other, open and
  close. The general case is a theorem.
- *`ChangesUntil`, `PhoneFrom`*: the centre acts in the first minutes, the phone
  in the last, and `Apart` lets one of them act in a behaviour: quotes and prices
  read only what the one writes, the meter only what the other does.
- *`MaxRules`* 4: up to two new versions besides the seed's two rules. *`MaxPings`,
  `MaxRows`* 3: three positions give two stretches, so that order matters, or two
  positions with one repeated. *`Moves`*: the driver stands or advances. *`Skews`*:
  the phone's clock is a minute behind or ahead and may jump between two positions,
  so that their dates may coincide or be in the wrong order.
- *`access`*: a token lives an instant and a password comparison takes up to one,
  so that both bounds of `LetThroughHeldRight` are met within `LastInstant` 3.
  Two calls, so that one ends the process under the other; one token
  (`MaxLogins`), since none reads another's. `review` needs either of two
  permissions, so that one of them may be lost. The theorems hold for any values.
- *`gps_throttled`*: the figures of the code, in intervals: a window of 180, a
  limit of 5, a position fresh for 24; `LastInstant` 40 leaves room for the
  position to grow old.
- *Straight* 2: the estimate of a ride without positions is no distance that the
  three positions give by accident.

### Fairness

`HandlerFairness` is weak fairness of a handler's steps: the event loop runs every
promise that can run, a lock holder's commit included. `payment` assumes no more.
It allows crashes: a process that dies has no handler left to return.

`TimerFairness` is what `expiry` assumes besides: weak fairness of the cron
timer's firing, and that time passes, so that from some moment on an offer is past
its timeout and no pass that examines it skips it any more (`SkipOffer`). It says
nothing of which offers of its list a pass gets to before a dispatch that throws
ends it; that some pass gets to each is what `EveryOfferAnswered` shows. Crashes are
left out of that run. Nothing is assumed of clients, who may never answer.

## 4. Proofs

`TaxiProofs` proves, for every finite or infinite set of trips, drivers and
slots and every choice of the other constants allowed by `StoreAssumption`:

| Theorem | Statement |
|---|---|
| `LocalsCorrect` | `Spec => []IInv` |
| `TypeCorrect` | `Spec => []TypeOK` |
| `NobodyPaysTwice` | `Spec => []PaidOnce` |
| `OnePayerAtATime` | `Spec => []OneLock` |
| `PaymentsImplementLedger` | `Spec => ImplementsLedger` |
| `SettlementsAddUp` | `Spec => []SettlementsBalance` |

*Types.* `TypeOK` is not inductive: whether `FreeDriver` writes a real driver, or
`WriteTrip` a real relation, depends on what the handler put in its locals some
awaits ago. `LocalsOK` states what those locals say of each other (whoever
awaits a write that names the driver has one; a save in progress is at the head
of `todo`; an unloaded relation is not in the columns to be written; a commit is
preceded by its lock). `Good` is its form for one request; lemmas show that the
ways of moving a request (`Proceed`, `Become`, `Return`, `Handle`) keep it good,
and each action has one lemma, combined in `NextTypes`.

*Payments.* `PaidOnce` needs `OneLock`: whoever is at `commit` found the trip
unpaid, no other handler is at the `commit` of the same trip, and so it is still
unpaid. `LocksOfStep` shows that only `LockTrip` takes a handler to a commit
(that is where "a commit is preceded by its lock" is used), `OnlyPaymentsCharge`
that only `CommitPayment` changes the three tables.

*Refinement.* `TheLedger` maps charges to the commission rows, credit and debt
to the two columns of the settlements. `CommitPayment` maps to `Charge`, whose
guard is `OneLock`'s first half; every other step to a stutter.

*Settlements.* `LedgerInv`: the commissions are finitely many, and each of the two
columns of a driver's settlement is the sum, over the commissions of the trips
whose payment the driver confirmed, of what was earned or owed. `CommitPayment`
adds one commission, to one driver, of a trip that by `OneLock` had none; a
settlement that lost an update, or a second commission of a trip, would break the
equation. The sums of the library are recursive functions that pick their elements
by `CHOOSE`, and its induction theorems are out of reach (they take an operator).
`SumLemmas` therefore argues by minimal counterexample: among the subsets of a
finite set for which a claim fails, one has no smaller one (`SmallestSet`), and the
recursion equation there leads to a smaller one after all. That gives that the sum
is well defined, is a number, does not depend on the order of picking, and grows by
the value of an element that is added (`TotalAdd`).

`DispatchProofs` goes on from there:

| Theorem | Statement |
|---|---|
| `ForaneoNeverOffered` | `Spec => []ForaneoByHand` |
| `NobodyDrivesUnasked` | `~MayCrash`, `Spec => []DriverWasOffered` |

*Offers.* Neither property is inductive: what `InsertOffer` inserts and
`WriteTrip` writes was decided some awaits earlier, on a copy. `OfferInv` states
what holds of such copies. A handler on its way to an automatic offer works on a
trip that is not FORANEO, and a trip never changes its category, so that neither a
review nor a second dispatch in between matters. The driver in the column of the
row is `Backed`: an offer of the trip has that driver's answer, which no step
takes back, or a manual assignment is still to insert its offer. The driver in a
copy to be saved is `Vouched` for: backed, or about to be, since an acceptance
saves its answer before the trip and a manual assignment inserts its offer right
after. The last disjunct is why
`NobodyDrivesUnasked` assumes that the process does not die: it may, after
`manualAssign` saved the trip and before it inserted the offer.

`TrailProofs` is about any number of handlers too, in a process that does not die:

| Theorem | Statement |
|---|---|
| `TrailsAreUnbroken` | `~MayCrash`, `Spec => []TrailUnbroken` |

*The trail.* A row may be overwritten by a stale copy, but a handler logs what it
loaded and what it saved, whatever others did meanwhile. `Told` is what the log
says of a trip, or a handler that has saved is still to say. It only grows
(`ToldStays`), every save adds to it (`SavesAreTold`), and whatever is logged as
left was told: the state a handler loaded was one of a row (`TrailInv`), the
payment's `PAYMENT_PENDING` is what its lock was taken on. That a saver still has its
event ahead, and nothing between them that can make it return, is the order of the
awaits (`InOrder`, by `MayFollow` in `SerialProofs`), which no interleaving
changes. Save and event are statements of no transaction; a process that dies
between them breaks the trail, hence `~MayCrash`.

`RaceProofs` asks nothing at all of the requests: any number of them interleave at
every await, stale copies are saved, the process dies where it may.

| Theorem | Assumptions | Statement |
|---|---|---|
| `OffersAreCounted` | `IsFiniteSet(Slots)` | `Spec => []OfferedOncePerHandler` |
| `ClosedAndRatedArePaid` | - | `Spec => []ClosedOrRatedIsPaid` |

*Counting offers.* `CountInv`: once a driver has an automatic offer of a trip, the
offers there are and the handlers that are still to insert one (`Offerers`) are
together no more than the slots. Before the first offer any number of handlers may
choose the driver; after it none does, since `Eligible` sees the row, and an
insert turns a handler that had chosen into an offer (`OffersOfStep`,
`OfferingComes`). So an answer, an expiry or a retry never brings a trip back to a
driver, and what `asked_twice` shows is all that can happen.

*Payment first.* A stale copy may be saved over a closed trip and reopen it, but
none can close one: `Knows` says that no copy about to be saved has a state that
only the payment reaches, and that a handler about to rate has found its trip in
such a state, hence paid; no payment is ever taken back (`PaymentsStay`).

`SerialProofs` is about what is false when the wrong two handlers meet, which
`NoRace` names, for any trips, drivers, handlers in flight,
fares, clocks and shifts:

| Theorem | Assumptions | Statement |
|---|---|---|
| `AssignedTripsHaveDrivers` | - | `Spec /\ []NoRace => []AssignedHasDriver` |
| `ClosedTripsArePaid` | - | `Spec /\ []NoRace => []ClosedIsPaid` |
| `RatingsArePaidFor` | - | `Spec /\ []NoRace => []RatedWasPaid` |
| `ForaneoFaresStand` | - | `Spec /\ []NoRace => []ForaneoFareStands` |
| `MovesAreDocumented` | - | `Spec /\ []NoRace => GuardedMoves` |

*Which two.* `NoRace`: nobody is about to write a trip (a save, or the commit of a payment) of
which another handler holds a copy it counts on. Without it, a cancellation that loaded the
trip before it had a driver writes that back while an arrival, or a start, writes
the status (`AssignedHasDriver`); a manual assignment that loaded the trip before
another one names its driver after the payment (`ClosedIsPaid`, and `RatedWasPaid`
by a rating that follows); a cancellation that loaded a trip before its review
writes the missing fare back (`ForaneoFareStands`); `cancel_ride` shows it for
`GuardedMoves`.

It is what a lock on the trip, held from the load to the write, would enforce, and
the code has none but for `confirmPayment`. A server that takes one request at a
time satisfies it (`OneHandlerNoRace`), and so do handlers of different trips, the
expiry job among them; drivers, audit rows, events and the test of a request never
matter. The theorems say that such meetings are the only cause: the tests, the
order of the awaits and the columns each handler changes are right by themselves,
and no order of requests, late acceptance or crash at an await breaks them.

*Fresh copies.* `FreshInv` is their common inductive invariant: wherever a
handler still counts on what it read, the row is as it read it. So whoever is to save has
`from` and every column but its own changes in common with the row (`Draft`),
whoever is to rank finds the trip waiting, whoever is to commit a payment or a
rating finds the trip, or the payment, of its test. This needs the order of the
awaits (`Ordered`, by `MayFollow`): a handler saves once, after whatever can
still make it return and before events, drivers and audit rows, so nothing it
writes itself outdates its copy. `Fits` is what a row satisfies at rest and a
copy satisfies before it is saved: a driver where one is needed, a final fare
once there is something to pay, an operator's fare on a FORANEO trip. A crash
forgets the handler and leaves rows that fit, which is why these need no
transaction. `ManualAnswered` excludes acceptances of offers made by hand.

`AccessProofs` proves, for any users, permissions, routes and times that
`AccessAssumption` allows:

| Theorem | Statement |
|---|---|
| `TokensTellTheTruth` | `AccessSpec => []AccessInv` |
| `WithdrawalsAreFelt` | `AccessSpec => LetThroughHeldRight` |
| `RowsTellTheTruth` | `AccessSpec => []TrailIsTrue` |

*Tokens.* `AccessInv` is inductive: a login in flight says what held when it read
the account (`HeldWithin` with no span), so the token it becomes says what held at
most `CompareTime` before its signing; a right that is lost meanwhile was lost
now, which is no earlier than either. `LetThroughHeldRight` adds the life of the
token, by `Authenticates`.

*Rows of the interceptor.* `LoggedTrail` adds to `TrailIsTrue` that only a
mutating call is ever being logged, which is inductive, whatever inserts fail
and whenever the process dies.

`MeteringProofs` proves, for any zones, schedules, rules, requests, positions and length
of the day that `FaresAssumption` allows (zones and schedules finite):

| Theorem | Statement |
|---|---|
| `NeverRefusedHolds` | `MeteringSpec => []NeverRefused` |
| `ZoneTariffHolds` | `MeteringSpec => []ZoneTariffWins` |
| `NoLaterTariffHolds` | `MeteringSpec => []NoLaterTariff` |
| `NightHolds` | `MeteringSpec => NightAsScheduled` |
| `MeterHolds` | `MeteringSpec => MeterIsRight` |
| `MeteringTypeCorrect` | `MeteringSpec => []MeteringTypeOK` |

*Tariffs.* None of the three is inductive. `TariffInv` adds that every version
of a tariff has one that is still open and that both categories have a default
(`OpenVersions`: so a candidate is always there, and if a zone has a rule one of
its candidates is the zone's), that a quote keeps a rule of its category no
younger than its trip (`QuoteOK`), and that a ride pays by it (`RideOK`).
`RepublishStep` is the step with work in it. The bounds `MaxRules`,
`LastInstant` and `ChangesUntil` are constants of any size, and the proofs do
not use them.

*The night.* `NightWindow`: the comparison of minutes with its case for windows
across midnight is a walk of one day from the start of the window. `NightOfRows`:
if no row is forced off, the first row that is forced or open exists exactly
when some row is, in any order of the rows (`LeastNumber`).

*The meter.* `MeterIsRight` compares two sums: what `complete` adds up over the rows
of the history that fall in the ride, sorted, with the way between the positions the
phone took. `PositionInv` says that rows are positions the phone took, and that it
took them one after the other, however the network ordered and repeated them.
`Tracks` are the rows in any order that their dates allow. As long as the phone's
clock is not set back (`ClockNotSetBack`, part of the property), whatever it is off
by, that order is the one in which the positions were taken (`TrackRows`).
If every position of the ride has arrived, the k-th row of the track is a position
whose number rises by nought (a repeated row, which adds nothing) or one (the next
stretch) from row to row (`RowsOfStretch`), so the two sums agree after every row
(`TravelledOn`, `RideMeasured`).

*Types of a ride.* The distance and the fare of a ride are numbers because the rows
it sums are positions and the rule it pays by is a rule: `RideTypes` is inductive
with `TariffInv` and `PositionInv`.

Only model-checked: `EveryOfferAnswered` and `RequestsReturn`, which are liveness,
outside the prover's reach, as is `ENABLED`; and `CancelFreesDriver`, `EnRouteIsBusy`
and `ClockStartsWhenFree`, which are false as soon as a second handler or, for the
first two, a crash may come between two statements, so that a theorem would have
to assume away what could go wrong. Every other invariant and action property of
the passing runs is stated by a theorem.

## 5. Not modelled, and why

Passengers, vehicles, notifications, configuration: rows without operations of
interest; of users, the read-only endpoints. Health, Redis, the wiring of the
modules, the validation of the environment, the format of errors, seeds, the
patch script: input and output. Floating-point rounding of commissions; the
change of the settlement's week; distances and scores; wrong security codes and
callers who are not the trip's driver (rejected without a change). The bodies of
audit rows. The rate limit on other routes than the positions.

## 6. Plan

1. *Done:* the core, its runs, types and payment theorems; ratings; the drivers
   component with the availability clock; `Fares` and `Metering`; `Access`;
   `Reporting`; a driver who accepts two trips; the theorems about offers, the
   log of a trip, tokens, settlements, payment before closing, the meter, and about
   which handlers must not meet.
2. *The last known position*: the upsert does not compare times, so a late ping
   sets it back; a property that says how far.
3. Two trips that are paid at once to one driver, in a run of their own.
4. *Proofs:* that a lock on the trip would make `NoRace` hold, as a variant of
   `TaxiStore` and a proof that its handlers keep it.
