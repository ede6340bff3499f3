---------------------------- MODULE TripsService ----------------------------
(***************************************************************************)
(* TripsService: the life of a trip from its request to its payment.  Each *)
(* action named after a method runs that method up to its first awaited    *)
(* write; the writes are the steps of TaxiStore and those defined here.    *)
(* A request the guards reject answers an error and changes nothing.       *)
(***************************************************************************)
EXTENDS TaxiStore

\* A driver may act on a trip only when it is the driver of the loaded row.
HasAssignedDriver(t) == trips[t].driver # NoDriver

\* POST /trips.  The quote decides the category; a FORANEO trip waits for an
\* operator, any other looks for a driver at once ("load" is the first await
\* of startDispatch, called through the trip.quoted event).  Staff may create
\* a trip on behalf of a passenger, which is audited.  The quoted fare of a
\* trip that is not FORANEO is never read again and is left out.
Create(s, t) ==
  /\ Accepts(s, "create")
  /\ ~Exists(t)
  /\ \E category \in Categories, onBehalf \in Audited :
       LET row == [NoRow EXCEPT !.category = category,
                                !.status = IF category = "FORANEO" THEN "PENDING_REVIEW"
                                                                   ELSE "QUOTED"]
       IN  /\ trips' = [trips EXCEPT ![t] = row]
           /\ Handle(s, t, row,
                (IF onBehalf THEN <<"trip.create_on_behalf">> ELSE <<>>)
                  \o <<"event">>
                  \o (IF category = "FORANEO" THEN <<>> ELSE <<"load">>))
  /\ UNCHANGED <<offers, profiles, ledger, events, audits, ratings>>

\* POST /trips/{id}/review: an operator sets the fare of a FORANEO trip.
Review(s, t) ==
  /\ Accepts(s, "review")
  /\ trips[t].status = "PENDING_REVIEW"
  /\ \E fare \in Fares :
       Handle(s, t, [trips[t] EXCEPT !.quotedFare = fare, !.status = "QUOTED"],
              <<"save", "event", "trip.foraneo_quoted">>)
  /\ UNCHANGED tables

\* Mutant of Arrive: the move is not logged.
ArriveUnlogged(s, t) ==
  /\ Accepts(s, "arrive")
  /\ HasAssignedDriver(t)
  /\ trips[t].status \in {"DRIVER_ASSIGNED", "DRIVER_EN_ROUTE"}
  /\ Handle(s, t, [trips[t] EXCEPT !.status = "DRIVER_ARRIVED"], <<"save">>)
  /\ UNCHANGED tables

\* POST /trips/{id}/arrive
Arrive(s, t) ==
  /\ Accepts(s, "arrive")
  /\ HasAssignedDriver(t)
  /\ trips[t].status \in {"DRIVER_ASSIGNED", "DRIVER_EN_ROUTE"}
  /\ Handle(s, t, [trips[t] EXCEPT !.status = "DRIVER_ARRIVED"], <<"save", "event">>)
  /\ UNCHANGED tables

\* Mutant of Start: the ride may start before the driver has arrived.
StartEarly(s, t) ==
  /\ Accepts(s, "start")
  /\ HasAssignedDriver(t)
  /\ trips[t].status \in ASSIGNED_STATES
  /\ Handle(s, t, [trips[t] EXCEPT !.status = "TRIP_IN_PROGRESS", !.startedAt = TRUE],
            <<"save", "event">>)
  /\ UNCHANGED tables

\* POST /trips/{id}/start, with the right security code.
Start(s, t) ==
  /\ Accepts(s, "start")
  /\ HasAssignedDriver(t)
  /\ trips[t].status = "DRIVER_ARRIVED"
  /\ Handle(s, t, [trips[t] EXCEPT !.status = "TRIP_IN_PROGRESS", !.startedAt = TRUE],
            <<"save", "event">>)
  /\ UNCHANGED tables

\* Mutant of FinalFares: a FORANEO trip is metered like any other.
MeteredFares(row) == Fares

\* What a finished trip may cost: the operator's fare when it is FORANEO
\* (Number(null) is 0), else whatever the distance and the time give.
FinalFares(row) ==
  IF row.category = "FORANEO"
  THEN {IF row.quotedFare = NoFare THEN 0 ELSE row.quotedFare}
  ELSE Fares

\* Mutant of Complete: the fare is computed and not stored.
CompleteUnpriced(s, t) ==
  /\ Accepts(s, "complete")
  /\ HasAssignedDriver(t)
  /\ trips[t].status = "TRIP_IN_PROGRESS"
  /\ trips[t].startedAt
  /\ Handle(s, t, [trips[t] EXCEPT !.status = "PAYMENT_PENDING"],
            <<"save", "event", "free">>)
  /\ UNCHANGED tables

\* POST /trips/{id}/complete
Complete(s, t) ==
  /\ Accepts(s, "complete")
  /\ HasAssignedDriver(t)
  /\ trips[t].status = "TRIP_IN_PROGRESS"
  /\ trips[t].startedAt
  /\ \E fare \in FinalFares(trips[t]) :
       Handle(s, t, [trips[t] EXCEPT !.finalFare = fare, !.status = "PAYMENT_PENDING"],
              <<"save", "event", "free">>)
  /\ UNCHANGED tables

\* Mutants of Cancel: no test of the status; the driver is forgotten once at
\* the origin.
CancelAnytime(s, t) ==
  /\ Accepts(s, "cancel")
  /\ Exists(t)
  /\ \E status \in Cancellations :
       Handle(s, t, [trips[t] EXCEPT !.status = status],
              <<"save", "event">> \o (IF HasAssignedDriver(t) THEN <<"free">> ELSE <<>>))
  /\ UNCHANGED tables

CancelForgetful(s, t) ==
  /\ Accepts(s, "cancel")
  /\ trips[t].status \in CANCELLABLE_STATES
  /\ \E status \in Cancellations :
       Handle(s, t, [trips[t] EXCEPT !.status = status],
              <<"save", "event">>
                \o (IF trips[t].status \in {"DRIVER_ASSIGNED", "DRIVER_EN_ROUTE"}
                       /\ HasAssignedDriver(t)
                    THEN <<"free">> ELSE <<>>))
  /\ UNCHANGED tables

\* POST /trips/{id}/cancel: anybody, as long as the ride has not begun.  The
\* driver is set free only if the loaded row was assigned.
Cancel(s, t) ==
  /\ Accepts(s, "cancel")
  /\ trips[t].status \in CANCELLABLE_STATES
  /\ \E status \in Cancellations :
       Handle(s, t, [trips[t] EXCEPT !.status = status],
              <<"save", "event">>
                \o (IF trips[t].status \in ASSIGNED_STATES /\ HasAssignedDriver(t)
                    THEN <<"free">> ELSE <<>>))
  /\ UNCHANGED tables

\* Mutant of FreeDriver: the availability clock is left alone.
FreeOnly(s) ==
  /\ At(s, "free")
  /\ driverStatus' = [driverStatus EXCEPT ![req[s].driver] = "AVAILABLE"]
  /\ Proceed(s)
  /\ UNCHANGED <<trips, offers, availableSince, withVehicle, ledger, events, audits, ratings>>

\* drivers.update(driver of the loaded trip, AVAILABLE and its clock)
FreeDriver(s) ==
  /\ At(s, "free")
  /\ driverStatus' = [driverStatus EXCEPT ![req[s].driver] = "AVAILABLE"]
  /\ availableSince' = [availableSince EXCEPT ![req[s].driver] = Later(@)]
  /\ Proceed(s)
  /\ UNCHANGED <<trips, offers, withVehicle, ledger, events, audits, ratings>>
-----------------------------------------------------------------------------
(* POST /trips/{id}/payment, the one handler with a transaction. *)

\* round2(fare * pct / 100), in centavos.
CommissionOf(fare) == (fare * CommissionPct + 50) \div 100

Paid(t) == \E p \in payments : p.trip = t

\* The checks made before the transaction, on an unlocked copy whose final
\* fare the transaction will use.  An amount off by more than 5 pesos is
\* audited and accepted.
ConfirmPayment(s, t) ==
  /\ Accepts(s, "pay")
  /\ HasAssignedDriver(t)
  /\ trips[t].status = "PAYMENT_PENDING"
  /\ \E mismatch \in Audited :
       Handle(s, t, trips[t],
              (IF mismatch THEN <<"payment.amount_mismatch">> ELSE <<>>)
                \o <<"lock", "commit">>)
  /\ UNCHANGED tables

\* Mutant of MayCharge: no look at the payments.
MayChargePending(s) ==
  LET t == req[s].trip IN
  /\ trips[t].driver = req[s].driver
  /\ trips[t].status = "PAYMENT_PENDING"

\* What the transaction checks again once it holds the row: the caller still
\* drives the trip, nobody has paid it, it still waits for its payment.
MayCharge(s) ==
  LET t == req[s].trip IN
  /\ trips[t].driver = req[s].driver
  /\ ~Paid(t)
  /\ trips[t].status = "PAYMENT_PENDING"

\* Mutants of LockTrip: the row is read without FOR UPDATE; nothing is checked
\* again; the trip is closed before the payment is committed.
ReadTrip(s) ==
  /\ At(s, "lock")
  /\ IF MayCharge(s) THEN Proceed(s) ELSE Return(s)
  /\ UNCHANGED tables

LockUnchecked(s) ==
  /\ At(s, "lock")
  /\ ~Locked(req[s].trip)
  /\ Proceed(s)
  /\ UNCHANGED tables

LockAndClose(s) ==
  /\ At(s, "lock")
  /\ ~Locked(req[s].trip)
  /\ MayCharge(s)
  /\ Proceed(s)
  /\ trips' = [trips EXCEPT ![req[s].trip].status = "CLOSED"]
  /\ UNCHANGED <<offers, profiles, ledger, events, audits, ratings>>

\* SELECT ... FOR UPDATE, and the checks.
LockTrip(s) ==
  /\ At(s, "lock")
  /\ ~Locked(req[s].trip)
  /\ IF MayCharge(s) THEN Proceed(s) ELSE Return(s)
  /\ UNCHANGED tables

\* Mutant of Credited: the driver is credited what is left of the fare.
CreditedNet(row, gross, commission) ==
  [earnings |-> row.earnings + gross - commission, commission |-> row.commission + commission]

\* The upsert of the settlement of the period.
Credited(row, gross, commission) ==
  [earnings |-> row.earnings + gross, commission |-> row.commission + commission]

\* Mutant of CommitPayment: an event is inserted through another connection,
\* where it waits for the row this transaction holds.
CommitOutside(s) ==
  LET r == req[s]
      gross == IF r.mem.finalFare = NoFare THEN 0 ELSE r.mem.finalFare
      commission == CommissionOf(gross)
  IN
  /\ At(s, "commit")
  /\ ~Locked(r.trip)
  /\ payments' = payments \cup {[trip |-> r.trip, confirmedBy |-> r.driver]}
  /\ commissions' = commissions \cup
       {[trip |-> r.trip, gross |-> gross, commission |-> commission,
         earning |-> gross - commission]}
  /\ settlements' = [settlements EXCEPT ![r.driver] = Credited(@, gross, commission)]
  /\ trips' = [trips EXCEPT ![r.trip].status = "CLOSED"]
  /\ events' = events \cup
       {[trip |-> r.trip, from |-> "PAYMENT_PENDING", to |-> "PAYMENT_CONFIRMED"],
        [trip |-> r.trip, from |-> "PAYMENT_CONFIRMED", to |-> "CLOSED"]}
  /\ Proceed(s)
  /\ UNCHANGED <<offers, profiles, audits, ratings>>

\* Everything the transaction writes, at its commit: payment, commission, the
\* driver's settlement, PAYMENT_CONFIRMED and CLOSED with an event each.
CommitPayment(s) ==
  LET r == req[s]
      gross == IF r.mem.finalFare = NoFare THEN 0 ELSE r.mem.finalFare
      commission == CommissionOf(gross)
  IN
  /\ At(s, "commit")
  /\ payments' = payments \cup {[trip |-> r.trip, confirmedBy |-> r.driver]}
  /\ commissions' = commissions \cup
       {[trip |-> r.trip, gross |-> gross, commission |-> commission,
         earning |-> gross - commission]}
  /\ settlements' = [settlements EXCEPT ![r.driver] = Credited(@, gross, commission)]
  /\ trips' = [trips EXCEPT ![r.trip].status = "CLOSED"]
  /\ events' = events \cup
       {[trip |-> r.trip, from |-> "PAYMENT_PENDING", to |-> "PAYMENT_CONFIRMED"],
        [trip |-> r.trip, from |-> "PAYMENT_CONFIRMED", to |-> "CLOSED"]}
  /\ Proceed(s)
  /\ UNCHANGED <<offers, profiles, audits, ratings>>
-----------------------------------------------------------------------------
(* POST /trips/{id}/rating. *)

\* Mutant of Rate: as soon as the ride is over.
RateUnpaid(s, t) ==
  /\ Accepts(s, "rate")
  /\ trips[t].status \in {"PAYMENT_PENDING", "PAYMENT_CONFIRMED", "CLOSED"}
  /\ HasAssignedDriver(t)
  /\ \E rating \in {"passengerRates", "driverRates"} : Handle(s, t, trips[t], <<rating>>)
  /\ UNCHANGED tables

\* The passenger of the trip or its driver rates the other, once it is paid.
Rate(s, t) ==
  /\ Accepts(s, "rate")
  /\ trips[t].status \in {"PAYMENT_CONFIRMED", "CLOSED"}
  /\ HasAssignedDriver(t)
  /\ \E rating \in {"passengerRates", "driverRates"} : Handle(s, t, trips[t], <<rating>>)
  /\ UNCHANGED tables

\* Two rows UNIQUE(trip_id, rated_by) does not let stand together.
SameRater(a, b) ==
  a.trip = b.trip /\ a.byDriver = b.byDriver /\ (a.byDriver => a.driver = b.driver)

\* ratings.save; a second rating by the same user is answered a conflict.
InsertRating(s) ==
  LET row == [trip |-> req[s].trip, driver |-> req[s].driver,
              byDriver |-> At(s, "driverRates")]
  IN
  /\ At(s, "passengerRates") \/ At(s, "driverRates")
  /\ ~Locked(req[s].trip)
  /\ ratings' = IF \E i \in DOMAIN ratings : SameRater(ratings[i], row)
                THEN ratings ELSE Append(ratings, row)
  /\ Proceed(s)
  /\ UNCHANGED <<trips, offers, profiles, ledger, events, audits>>
=============================================================================
