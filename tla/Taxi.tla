-------------------------------- MODULE Taxi --------------------------------
(***************************************************************************)
(* The backend: trip and dispatch handlers interleaving over one database, *)
(* the expiry cron job, drivers who set their own status, ratings, and a   *)
(* process that may die.                                                   *)
(***************************************************************************)
EXTENDS TripsService, DispatchService, DriversController, FiniteSetsExt

\* A vehicle assignment ends.  No code of the repository does it; it is done
\* on the table itself.
EndAssignment(d) ==
  /\ d \in Retiring \cap withVehicle
  /\ withVehicle' = withVehicle \ {d}
  /\ UNCHANGED <<trips, offers, driverStatus, availableSince, ledger, events, audits, ratings, req>>

Init ==
  /\ trips = [t \in Trips |-> NoRow]
  /\ offers = <<>>
  /\ driverStatus = [d \in Drivers |-> "AVAILABLE"]
  /\ availableSince = [d \in Drivers |-> 0]
  /\ withVehicle = Drivers
  /\ payments = {}
  /\ commissions = {}
  /\ settlements = [d \in Drivers |-> [earnings |-> 0, commission |-> 0]]
  /\ events = {}
  /\ audits = {}
  /\ ratings = <<>>
  /\ req = [s \in Slots |-> NoRequest]

\* A request, or a cron pass, reaches an idle slot.
Arrival(s) ==
  \/ \E t \in Trips : \/ Create(s, t)
                      \/ Review(s, t)
                      \/ Arrive(s, t)
                      \/ Start(s, t)
                      \/ Complete(s, t)
                      \/ Cancel(s, t)
                      \/ ConfirmPayment(s, t)
                      \/ Rate(s, t)
                      \/ StartDispatch(s, t)
                      \/ \E d \in Drivers : ManualAssign(s, t, d)
  \/ \E i \in DOMAIN offers : Accept(s, i) \/ Reject(s, i)
  \/ \E d \in Drivers : UpdateStatus(s, d)
  \/ ExpiryPass(s)

\* The handler in slot s goes on to its next await.
Step(s) ==
  \/ CompareTrip(s) \/ WriteTrip(s) \/ RecordEvent(s) \/ RecordAudit(s)
  \/ FreeDriver(s) \/ OccupyDriver(s) \/ CheckDriver(s) \/ CheckVehicle(s)
  \/ LockTrip(s) \/ CommitPayment(s) \/ InsertRating(s)
  \/ LoadForDispatch(s) \/ RankCandidates(s)
  \/ InsertOffer(s) \/ InsertManualOffer(s) \/ SaveAnswer(s)
  \/ CompareProfile(s) \/ WriteProfile(s)
  \/ \E i \in req[s].queue : SkipOffer(s, i) \/ ExpireOffer(s, i)

Next ==
  \/ \E s \in Slots : Arrival(s) \/ Step(s)
  \/ \E d \in Drivers : EndAssignment(d)
  \/ Crash

Spec == Init /\ [][Next]_vars
-----------------------------------------------------------------------------
(* Types. *)

Payment == [trip: Trips, confirmedBy: Drivers]

Commission == [trip: Trips, gross: Nat, commission: Nat, earning: Int]

Settlement == [earnings: Nat, commission: Nat]

\* Every table and every handler's locals hold what the schema and the code
\* say they may: foreign keys are real, statuses are of the enumeration.
TypeOK ==
  /\ trips \in [Trips -> TripRow]
  /\ offers \in Seq(OfferRow)
  /\ driverStatus \in [Drivers -> DriverStatus]
  /\ availableSince \in [Drivers -> Clock]
  /\ withVehicle \subseteq Drivers
  /\ payments \subseteq Payment
  /\ commissions \subseteq Commission
  /\ settlements \in [Drivers -> Settlement]
  /\ events \subseteq TripEvent
  /\ audits \subseteq Audit
  /\ ratings \in Seq(RatingRow)
  /\ req \in [Slots -> Request]

\* Awaits that name the request's driver.
NamesDriver == {"free", "busy", "offer", "manualOffer", "lock", "commit",
                "compareProfile", "writeProfile", "passengerRates", "driverRates"}

\* What may be left of a request that is about no trip.
Tripless == {<<>>, <<"next">>, <<"compareProfile", "writeProfile">>, <<"writeProfile">>}

\* What the locals of a handler in flight say of one another.
LocalsOK(r) ==
  /\ r.trip = NoTrip => r.todo \in Tripless
  /\ \A i \in DOMAIN r.todo : r.todo[i] \in NamesDriver => r.driver \in Drivers
  /\ \A i \in DOMAIN r.todo : r.todo[i] = "commit" /\ i > 1 => r.todo[i - 1] = "lock"
  /\ r.saving => r.todo # <<>> /\ Head(r.todo) = "save"
  /\ r.saving \/ r.dirty = {}
  /\ "driver" \in r.dirty => r.mem.driver # Unloaded

\* The inductive form of the type invariant: a save never writes a relation
\* that was not loaded, and no write is awaited for a trip or a driver the
\* handler does not have.  (all handlers)
IInv == TypeOK /\ \A s \in Slots : LocalsOK(req[s])
-----------------------------------------------------------------------------
(* Payments. *)

\* What the tables of the payment transaction show of the abstract ledger.
TheLedger == INSTANCE PaymentLedger WITH
  charges <- {[trip |-> c.trip, fare |-> c.gross] : c \in commissions},
  credit  <- [d \in Drivers |-> settlements[d].earnings],
  debt    <- [d \in Drivers |-> settlements[d].commission]

\* However payment requests interleave with each other and with everything
\* else, the commission and settlement tables move as the abstract ledger:
\* a trip is charged once, in one step with its driver's totals.
\* (TripsService.confirmPayment)
ImplementsLedger == TheLedger!Spec

\* The settlement of a driver is the sum over the commissions of the trips
\* whose payment that driver confirmed: no payment is credited twice, to
\* another driver, or lost by a crash between the inserts and the upsert.
\* (TripsService.confirmPayment)
SettlementsBalance ==
  \A d \in Drivers :
    LET mine == {c \in commissions : \E p \in payments : p.trip = c.trip /\ p.confirmedBy = d}
    IN  /\ settlements[d].earnings = MapThenSumSet(LAMBDA c : c.gross, mine)
        /\ settlements[d].commission = MapThenSumSet(LAMBDA c : c.commission, mine)

\* Payments and commissions come in pairs, one of each for a trip, so that the
\* UNIQUE(trip_id) constraints of both tables are never what stops a request.
\* (TripsService.confirmPayment, db/schema.sql)
PaidOnce ==
  /\ {p.trip : p \in payments} = {c.trip : c \in commissions}
  /\ \A p, q \in payments : p.trip = q.trip => p = q
  /\ \A c, e \in commissions : c.trip = e.trip => c = e

\* Between the check and the commit of a payment its trip is still unpaid and
\* nobody else's to pay.
OneLock ==
  /\ \A s \in Slots : At(s, "commit") => ~Paid(req[s].trip)
  /\ \A s, q \in Slots :
       At(s, "commit") /\ At(q, "commit") /\ req[s].trip = req[q].trip => s = q

\* The inductive form of PaidOnce: the lock is what carries the check of the
\* transaction to its commit.  (TripsService.confirmPayment)
PaymentInv == PaidOnce /\ OneLock

\* Unless a trip is written while another handler holds a copy of it, it is
\* CLOSED only when its own driver confirmed a payment of exactly its final
\* fare.  (complete, confirmPayment)
ClosedIsPaid ==
  \A t \in Trips : trips[t].status = "CLOSED" =>
    /\ \E p \in payments : p.trip = t /\ p.confirmedBy = trips[t].driver
    /\ \E c \in commissions : c.trip = t /\ c.gross = trips[t].finalFare

\* A trip is closed, and rated, only once it is paid, also when a stale copy
\* of its row is saved over the closing, or a rating races the payment.
\* (confirmPayment, rate, every handler that saves a trip)
ClosedOrRatedIsPaid ==
  /\ \A t \in Trips : trips[t].status \in {"PAYMENT_CONFIRMED", "CLOSED"} => Paid(t)
  /\ \A i \in DOMAIN ratings : Paid(ratings[i].trip)
-----------------------------------------------------------------------------
(* The life of a trip. *)

Quiet == \A s \in Slots : Idle(s)

\* Unless a trip is written while another handler holds a copy of it, it has a
\* driver from the assignment to the closing, wherever the process dies.
\* (every handler that saves a trip)
AssignedHasDriver ==
  \A t \in Trips : trips[t].status \in DRIVEN_STATES => trips[t].driver \in Drivers

\* The moves of the documented table (Ticket 7.20); the payment's two
\* are committed together.
DocumentedMoves ==
  ({"REQUESTED", "PENDING_REVIEW", "QUOTED", "SEARCHING_DRIVER",
    "DRIVER_ASSIGNED", "DRIVER_EN_ROUTE", "DRIVER_ARRIVED"} \X CANCELLED_STATES) \cup
  {<<None, "QUOTED">>, <<None, "PENDING_REVIEW">>, <<"PENDING_REVIEW", "QUOTED">>,
   <<"QUOTED", "SEARCHING_DRIVER">>,
   <<"QUOTED", "DRIVER_ASSIGNED">>, <<"SEARCHING_DRIVER", "DRIVER_ASSIGNED">>,
   <<"DRIVER_ASSIGNED", "DRIVER_ARRIVED">>, <<"DRIVER_EN_ROUTE", "DRIVER_ARRIVED">>,
   <<"DRIVER_ARRIVED", "TRIP_IN_PROGRESS">>, <<"TRIP_IN_PROGRESS", "PAYMENT_PENDING">>,
   <<"PAYMENT_PENDING", "CLOSED">>}

\* Served one at a time, requests move a trip only as the documented table
\* says, but for the acceptance of an offer, which tests no state.
\* (assertTransition in every handler; respondToOffer)
GuardedMoves ==
  [][\A t \in Trips :
       \/ trips'[t].status = trips[t].status
       \/ <<trips[t].status, trips'[t].status>> \in DocumentedMoves
       \/ /\ trips'[t].status = "DRIVER_ASSIGNED"
          /\ \E s \in Slots : req[s].response = "ACCEPTED"]_trips

\* Unless a trip is written while another handler holds a copy of it: what is
\* charged for a FORANEO trip is the fare an operator set, and it gets past its
\* review only with such a fare.  (review, complete)
ForaneoFareStands ==
  \A t \in Trips :
    LET row == trips[t] IN
    row.category = "FORANEO" =>
      /\ row.status \notin {None, "PENDING_REVIEW"} \cup CANCELLED_STATES
           => row.quotedFare # NoFare
      /\ row.finalFare \in {NoFare, row.quotedFare}

\* In a process that does not die, when no handler is in flight the log of a
\* trip ends in its present state, and every logged departure was from a state
\* the log says it reached.  (recordEvent and the inserts of DispatchService)
TrailUnbroken ==
  Quiet => \A t \in Trips : Exists(t) =>
    LET trail == {e \in events : e.trip = t} IN
    /\ trips[t].status \in {e.to : e \in trail}
    /\ {e.from : e \in trail} \ {None} \subseteq {e.to : e \in trail}
-----------------------------------------------------------------------------
(* Ratings. *)

\* Unless a trip is written while another handler holds a copy of it, a rating
\* names the driver who was paid for the trip, also when an offer accepted late
\* gave it another driver.  (rate, confirmPayment)
RatedWasPaid ==
  \A i \in DOMAIN ratings :
    \E p \in payments : p.trip = ratings[i].trip /\ p.confirmedBy = ratings[i].driver
-----------------------------------------------------------------------------
(* Dispatch. *)

\* A FORANEO trip is never offered automatically.  (startDispatch, review)
ForaneoByHand ==
  \A i \in DOMAIN offers : ~offers[i].manual => trips[offers[i].trip].category # "FORANEO"

\* The automatic offers of trip t to driver d.
AutomaticOffers(t, d) ==
  {i \in DOMAIN offers : ~offers[i].manual /\ offers[i].trip = t /\ offers[i].driver = d}

\* However dispatches, rejections and passes of the expiry job of one trip
\* interleave, a driver is offered it at most once by each of the handlers that
\* had chosen the driver before the first offer was inserted; no answer or
\* expiry brings the trip to the same driver again.
\* (getEligibleCandidates, startDispatch)
OfferedOncePerHandler ==
  \A t \in Trips, d \in Drivers : Cardinality(AutomaticOffers(t, d)) <= Cardinality(Slots)

\* As documented, whoever already had an offer of a trip is never offered it
\* again.  (getEligibleCandidates)
OfferedOnce ==
  \A i, j \in DOMAIN offers :
    i < j /\ ~offers[j].manual /\ offers[i].trip = offers[j].trip
      => offers[i].driver # offers[j].driver

\* In a process that does not die, whoever drives a trip answered an offer of
\* it, or is being assigned by hand and the offer is about to be inserted.
\* (respondToOffer, manualAssign)
DriverWasOffered ==
  \A t \in Trips, d \in Drivers :
    trips[t].driver = d =>
      \/ \E i \in DOMAIN offers :
           offers[i].trip = t /\ offers[i].driver = d /\ ~Pending(i)
      \/ \E s \in Slots : At(s, "manualOffer") /\ req[s].trip = t /\ req[s].driver = d

\* An offer is accepted only for a trip that still looks for a driver: the
\* documented row for an accepted offer.  (respondToOffer)
AcceptedWhileSearching ==
  [][\A t \in Trips :
       trips'[t].status = "DRIVER_ASSIGNED" /\ trips[t].status # "DRIVER_ASSIGNED"
         => trips[t].status \in ASSIGNABLE_STATES]_trips

\* A ride that has begun is not cancelled.  (cancel, start)
RideNotCancelled ==
  [][\A t \in Trips :
       trips[t].status = "TRIP_IN_PROGRESS" => trips'[t].status \notin CANCELLED_STATES]_trips

\* An answered or expired offer keeps its answer.  (respondToOffer, expireOffer)
AnswersAreFinal ==
  [][\A i \in DOMAIN offers : ~Pending(i) => offers'[i].response = offers[i].response]_offers

\* Served one at a time by a process that does not die, requests leave the
\* driver of a trip cancelled after its assignment free.  (cancel)
CancelFreesDriver ==
  Quiet => \A t \in Trips, e \in events :
    /\ e.trip = t /\ e.from \in ASSIGNED_STATES /\ e.to = trips[t].status
    /\ trips[t].status \in CANCELLED_STATES
    => driverStatus[trips[t].driver] # "BUSY"

\* The documented meaning of "on the way": the driver of a trip under way is
\* BUSY.  So it is for one trip, served one request at a time by a process that
\* does not die.  (respondToOffer, manualAssign, complete, cancel)
EnRouteIsBusy ==
  Quiet => \A t \in Trips :
    trips[t].status \in {"DRIVER_EN_ROUTE", "TRIP_IN_PROGRESS"}
      => driverStatus[trips[t].driver] = "BUSY"

\* Served one at a time, with crashes anywhere, the availability clock of a
\* driver is set anew by every way of becoming AVAILABLE, and by nothing else
\* but the end of a trip, which sets it even for a driver who is AVAILABLE
\* already (Ticket 7.12).  (updateStatus, complete, cancel)
ClockStartsWhenFree ==
  [][\A d \in Drivers :
       LET becomingAvailable == driverStatus[d] # "AVAILABLE" /\ driverStatus'[d] = "AVAILABLE"
           tripEnds == \E s \in Slots : At(s, "free") /\ req[s].driver = d
       IN  /\ becomingAvailable => availableSince'[d] # availableSince[d]
           /\ availableSince'[d] # availableSince[d] => becomingAvailable \/ tripEnds
     ]_<<driverStatus, availableSince>>
-----------------------------------------------------------------------------
(* Progress. *)

\* An awaited statement that can run runs.
HandlerFairness == \A s \in Slots : WF_vars(Step(s))

\* The cron timer fires for ever, and time passes: some day an offer is past its
\* timeout, and no pass that gets to it skips it any more.  Which offers of its
\* list a pass gets to, before one of them ends it, is left to the passes.
TimerFairness(lastOffer) ==
  /\ \A s \in Slots : WF_vars(ExpiryPass(s))
  /\ \A i \in 1..lastOffer : <>[][\A s \in Slots : ~SkipOffer(s, i)]_vars

\* Every handler returns, unless the process dies: none waits for ever for the
\* row a payment holds, neither another payment of the trip, nor a save, an
\* event or a rating of it, nor the payment itself.
\* (confirmPayment, and every handler that writes of a trip)
RequestsReturn == \A s \in Slots : ~Idle(s) ~> Idle(s)

\* Offer i, once made, is answered or expires, whatever happened to its trip
\* and whatever the passes of the job that it aborts.  (expireStaleOffers)
OfferAnswered(i) == (i \in DOMAIN offers) ~> (i \in DOMAIN offers /\ ~Pending(i))
=============================================================================
