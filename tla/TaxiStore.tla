----------------------------- MODULE TaxiStore ------------------------------
(***************************************************************************)
(* The database the services share, and what a request does to it at each  *)
(* of its awaits.                                                          *)
(*                                                                         *)
(* A handler is an async function: between two awaits it runs alone, at an *)
(* await any other handler may run.  A slot stands for one handler         *)
(* invocation in flight; its record holds the handler's local variables    *)
(* and "todo", the awaited writes it has still to perform, in order.  With *)
(* one slot requests are served one at a time; with two they interleave    *)
(* at every await.                                                         *)
(*                                                                         *)
(* Outside confirmPayment no handler opens a transaction: it loads an      *)
(* entity, tests and changes the copy, and calls Repository.save, which    *)
(* reads the row again, compares it with the copy and updates the columns  *)
(* that differ.  A save is therefore two steps, CompareTrip and WriteTrip, *)
(* and a column written by somebody else since the load is written back.   *)
(***************************************************************************)
EXTENDS Integers, Sequences, FiniteSets, TripStates

CONSTANTS
  Trips,        \* identifiers trips may be created with
  Drivers,      \* driver profiles
  Retiring,     \* drivers whose vehicle may be withdrawn in this instance
  Fares,        \* amounts, in centavos
  CommissionPct,\* configuration row commission.default_pct
  Categories,   \* service categories quoted in this instance
  Cancellations,\* cancellation states asked for in this instance
  Shifts,       \* Shifts[d]: the statuses driver d sets for itself in this instance
  ClockReadings,\* how many settings of an availability clock are told apart
  Audited,      \* whether requests meet a condition that is audited, here
  Slots,        \* handler invocations that may be in flight at once
  Serves,       \* Serves[s]: the operations slot s may be asked for
  MayCrash,     \* whether the process may die
  NoTrip, NoDriver,
  Unloaded      \* a relation that was not loaded: undefined, not null

ASSUME StoreAssumption ==
  /\ NoTrip \notin Trips
  /\ NoDriver \notin Drivers
  /\ Unloaded \notin Drivers \cup {NoDriver}
  /\ Retiring \subseteq Drivers
  /\ Fares \subseteq Nat
  /\ CommissionPct \in 0..100
  /\ Categories \subseteq ServiceCategory
  /\ Cancellations \subseteq CANCELLED_STATES
  /\ Audited \subseteq BOOLEAN
  /\ MayCrash \in BOOLEAN

ASSUME ShiftAssumption ==
  /\ Shifts \in [Drivers -> SUBSET DriverStatus]
  /\ ClockReadings \in Nat \ {0}

VARIABLES
  trips,        \* table trips
  offers,       \* table trip_assignment_offers, in insertion order
  driverStatus, \* column driver_profiles.status
  availableSince, \* column driver_profiles.available_since
  withVehicle,  \* drivers with an active row in driver_vehicle_assignments
  payments,     \* table payments
  commissions,  \* table commissions
  settlements,  \* table driver_settlements, one open period
  events,       \* table trip_events, as the set of recorded transitions
  audits,       \* table audit_logs, as the set of recorded actions
  ratings,      \* table ratings, in insertion order
  req           \* the handlers in flight

profiles == <<driverStatus, availableSince, withVehicle>>
ledger == <<payments, commissions, settlements>>
tables == <<trips, offers, profiles, ledger, events, audits, ratings>>
vars == <<tables, req>>
-----------------------------------------------------------------------------
(* Rows and entities. *)

NoFare == -1    \* a null fare column

\* What a trip may be charged: Number(null) is 0.
Amounts == Fares \cup {0}

TripRow == [category: ServiceCategory, status: TripStatus \cup {None},
            driver: Drivers \cup {NoDriver},
            quotedFare: Fares \cup {NoFare}, finalFare: Amounts \cup {NoFare},
            startedAt: BOOLEAN]

\* A Trip object in memory: a row whose driver relation may be undefined.
TripEntity == [category: ServiceCategory, status: TripStatus \cup {None},
               driver: Drivers \cup {NoDriver, Unloaded},
               quotedFare: Fares \cup {NoFare}, finalFare: Amounts \cup {NoFare},
               startedAt: BOOLEAN]

NoRow == [category |-> "NORMAL", status |-> None, driver |-> NoDriver,
          quotedFare |-> NoFare, finalFare |-> NoFare, startedAt |-> FALSE]

Exists(t) == trips[t].status # None

Response == {"ACCEPTED", "REJECTED", "EXPIRED"}

OfferRow == [trip: Trips, driver: Drivers, manual: BOOLEAN,
             response: Response \cup {None}]

\* respondedAt IS NULL: both columns are always written together.
Pending(i) == offers[i].response = None

TripEvent == [trip: Trips, from: TripStatus \cup {None}, to: TripStatus \cup {None}]

AuditAction == {"trip.create_on_behalf", "trip.foraneo_quoted",
                "payment.amount_mismatch", "dispatch.manual_assign"}

Audit == [action: AuditAction, trip: Trips]

\* What one user says of another after a trip: its driver of the passenger
\* (byDriver), or the passenger of its driver.
RatingRow == [trip: Trips, driver: Drivers, byDriver: BOOLEAN]

Column == {"status", "driver", "quotedFare", "finalFare", "startedAt"}
-----------------------------------------------------------------------------
(* Requests. *)

\* The awaits a handler may have before it.
Stage == {"save", "event", "free", "busy", "answer", "load", "rank", "offer",
          "check", "vehicle", "manualOffer", "lock", "commit", "next",
          "compareProfile", "writeProfile", "passengerRates", "driverRates"} \cup AuditAction

\* Instants of an availability clock: what matters is that it was set anew.
Clock == 0..ClockReadings-1

Later(instant) == (instant + 1) % ClockReadings

Untouched == -1   \* no instant: the column is not written

\* A DriverProfile in memory, and after its comparison what is to be written.
ProfileCopy == [status: DriverStatus \cup {None}, since: Clock \cup {Untouched}]

NoProfile == [status |-> None, since |-> Untouched]

Request == [todo: Seq(Stage), trip: Trips \cup {NoTrip},
            driver: Drivers \cup {NoDriver}, mem: TripEntity,
            from: TripStatus \cup {None}, offer: Nat,
            response: Response \cup {None}, queue: SUBSET Nat,
            saving: BOOLEAN, dirty: SUBSET Column, profile: ProfileCopy]

NoRequest == [todo |-> <<>>, trip |-> NoTrip, driver |-> NoDriver, mem |-> NoRow,
              from |-> None, offer |-> 0, response |-> None, queue |-> {},
              saving |-> FALSE, dirty |-> {}, profile |-> NoProfile]

Idle(s) == req[s].todo = <<>>

At(s, stage) == req[s].todo # <<>> /\ Head(req[s].todo) = stage

\* What is left of a request after a step: nothing once the handler has
\* returned, and only its list of offers between two turns of the expiry loop.
Remaining(r) ==
  IF r.todo = <<>> \/ (r.todo = <<"next">> /\ r.queue = {}) THEN NoRequest
  ELSE IF r.todo = <<"next">>
       THEN [NoRequest EXCEPT !.todo = <<"next">>, !.queue = r.queue]
       ELSE r

Become(s, r) == req' = [req EXCEPT ![s] = Remaining(r)]

\* The awaited step is done; the handler goes on.
Proceed(s) == Become(s, [req[s] EXCEPT !.todo = Tail(@)])

\* The handler throws, or returns early: nothing of it is left.
Return(s) == Become(s, NoRequest)

\* Slot s takes a request for operation op.
Accepts(s, op) == Idle(s) /\ op \in Serves[s]

\* A request on trip t that changed its copy of the row into e.
Handle(s, t, e, todo) ==
  Become(s, [NoRequest EXCEPT !.todo = todo, !.trip = t, !.driver = trips[t].driver,
                              !.mem = e, !.from = trips[t].status])
-----------------------------------------------------------------------------
(* The writes of Repository.save, on trips. *)

\* The row is held FOR UPDATE by a payment transaction.
Locked(t) == \E s \in Slots : At(s, "commit") /\ req[s].trip = t

\* Mutant of Differing: an undefined relation is written as one.
DifferingIfUnloaded(e, row) ==
  {c \in Column : \/ c = "status" /\ e.status # row.status
                  \/ c = "driver" /\ e.driver # row.driver
                  \/ c = "quotedFare" /\ e.quotedFare # row.quotedFare
                  \/ c = "finalFare" /\ e.finalFare # row.finalFare
                  \/ c = "startedAt" /\ e.startedAt # row.startedAt}

\* The columns of entity e that differ from the row; an undefined relation
\* is not a difference.
Differing(e, row) ==
  {c \in Column : \/ c = "status" /\ e.status # row.status
                  \/ c = "driver" /\ e.driver # Unloaded /\ e.driver # row.driver
                  \/ c = "quotedFare" /\ e.quotedFare # row.quotedFare
                  \/ c = "finalFare" /\ e.finalFare # row.finalFare
                  \/ c = "startedAt" /\ e.startedAt # row.startedAt}

\* Mutant of Updated: plain columns only, no relation.
UpdatedColumns(row, e, cols) ==
  [row EXCEPT !.status = IF "status" \in cols THEN e.status ELSE @,
              !.quotedFare = IF "quotedFare" \in cols THEN e.quotedFare ELSE @,
              !.finalFare = IF "finalFare" \in cols THEN e.finalFare ELSE @,
              !.startedAt = IF "startedAt" \in cols THEN e.startedAt ELSE @]

\* UPDATE trips SET the columns of cols.
Updated(row, e, cols) ==
  [category   |-> row.category,
   status     |-> IF "status" \in cols THEN e.status ELSE row.status,
   driver     |-> IF "driver" \in cols THEN e.driver ELSE row.driver,
   quotedFare |-> IF "quotedFare" \in cols THEN e.quotedFare ELSE row.quotedFare,
   finalFare  |-> IF "finalFare" \in cols THEN e.finalFare ELSE row.finalFare,
   startedAt  |-> IF "startedAt" \in cols THEN e.startedAt ELSE row.startedAt]

\* trips.save, first half: read the row and compare.
CompareTrip(s) ==
  /\ At(s, "save") /\ ~req[s].saving
  /\ req' = [req EXCEPT ![s].saving = TRUE,
                        ![s].dirty = Differing(req[s].mem, trips[req[s].trip])]
  /\ UNCHANGED tables

\* trips.save, second half: update the columns that differed.  The update
\* waits for a payment transaction that holds the row.
WriteTrip(s) ==
  LET r == req[s] IN
  /\ At(s, "save") /\ r.saving
  /\ ~Locked(r.trip)
  /\ trips' = [trips EXCEPT ![r.trip] = Updated(@, r.mem, r.dirty)]
  /\ Become(s, [r EXCEPT !.todo = Tail(@), !.saving = FALSE, !.dirty = {}])
  /\ UNCHANGED <<offers, profiles, ledger, events, audits, ratings>>

\* One row of trip_events.  Its foreign key also waits for the row's lock.
RecordEvent(s) ==
  LET r == req[s] IN
  /\ At(s, "event")
  /\ ~Locked(r.trip)
  /\ events' = events \cup {[trip |-> r.trip, from |-> r.from, to |-> r.mem.status]}
  /\ Proceed(s)
  /\ UNCHANGED <<trips, offers, profiles, ledger, audits, ratings>>

\* AuditService.record.
RecordAudit(s) ==
  /\ \E action \in AuditAction :
       /\ At(s, action)
       /\ audits' = audits \cup {[action |-> action, trip |-> req[s].trip]}
  /\ Proceed(s)
  /\ UNCHANGED <<trips, offers, profiles, ledger, events, ratings>>

\* The process dies: the requests in flight are lost, and with them every
\* write they had not made; an open transaction is rolled back.
Crash ==
  /\ MayCrash
  /\ \E s \in Slots : ~Idle(s)
  /\ req' = [s \in Slots |-> NoRequest]
  /\ UNCHANGED tables
=============================================================================
