--------------------------- MODULE DispatchService --------------------------
(***************************************************************************)
(* DispatchService and the cron job of DispatchExpiryService: a driver is  *)
(* looked for, offered the trip, and answers or lets the offer expire; or  *)
(* an operator names one.  Where drivers are, and hence which of them is   *)
(* within the radius and scores highest, is left open.                     *)
(***************************************************************************)
EXTENDS TaxiStore

\* Mutant of Eligible: whoever had an offer may have another.
EligibleAgain(t) == {d \in withVehicle : driverStatus[d] = "AVAILABLE"}

\* The drivers the eligibility query may return for trip t: free, with a
\* vehicle, and never offered this trip before.
Eligible(t) ==
  {d \in withVehicle : /\ driverStatus[d] = "AVAILABLE"
                       /\ \A i \in DOMAIN offers :
                            ~(offers[i].trip = t /\ offers[i].driver = d)}

\* Mutant of MayDispatch: a FORANEO trip too.
MayDispatchAny(row) == row.status \in ASSIGNABLE_STATES

\* What startDispatch lets through: the row is still assignable, not FORANEO.
MayDispatch(row) == row.status \in ASSIGNABLE_STATES /\ row.category # "FORANEO"

\* The entity startDispatch works on: its driver relation is not loaded.
WithoutDriver(row) == [row EXCEPT !.driver = Unloaded]

\* startDispatch, first await: load the trip.  When it is not assignable any
\* more it throws, and a cron pass that called it is abandoned.
LoadForDispatch(s) ==
  LET r == req[s]
      row == trips[r.trip]
  IN
  /\ At(s, "load")
  /\ IF MayDispatch(row)
     THEN Become(s, [r EXCEPT !.todo = <<"rank">> \o Tail(@), !.from = row.status,
                              !.mem = WithoutDriver(row)])
     ELSE Return(s)
  /\ UNCHANGED tables

\* POST /trips/{id}/dispatch/start, up to the same point.
StartDispatch(s, t) ==
  /\ Accepts(s, "dispatch")
  /\ MayDispatch(trips[t])
  /\ Handle(s, t, WithoutDriver(trips[t]), <<"rank">>)
  /\ UNCHANGED tables

\* The candidates are read and ranked.  With none nearby startDispatch returns
\* and the trip keeps its status.
RankCandidates(s) ==
  LET r == req[s] IN
  /\ At(s, "rank")
  /\ \/ Proceed(s)
     \/ \E top \in Eligible(r.trip) :
          Become(s, [r EXCEPT !.todo = <<"save", "offer", "event">> \o Tail(@),
                              !.driver = top, !.mem.status = "SEARCHING_DRIVER"])
  /\ UNCHANGED tables

\* offers.save of a new offer; its foreign key waits for the trip's lock.
InsertOffer(s) ==
  LET r == req[s] IN
  /\ At(s, "offer")
  /\ ~Locked(r.trip)
  /\ offers' = Append(offers, [trip |-> r.trip, driver |-> r.driver, manual |-> FALSE,
                               response |-> None])
  /\ Proceed(s)
  /\ UNCHANGED <<trips, profiles, ledger, events, audits, ratings>>
-----------------------------------------------------------------------------
(* Answers. *)

\* Mutants of Accept: the trip is saved before the answer; the driver is not
\* put into the trip.
AcceptThenAnswer(s, i) ==
  LET o == offers[i] IN
  /\ Accepts(s, "accept")
  /\ Pending(i)
  /\ Become(s, [NoRequest EXCEPT
                  !.todo = <<"vehicle", "save", "answer", "busy", "event">>,
                  !.trip = o.trip, !.driver = o.driver, !.offer = i,
                  !.response = "ACCEPTED", !.from = trips[o.trip].status,
                  !.mem = [trips[o.trip] EXCEPT !.status = "DRIVER_ASSIGNED",
                                                !.driver = o.driver]])
  /\ UNCHANGED tables

AcceptUnassigned(s, i) ==
  LET o == offers[i] IN
  /\ Accepts(s, "accept")
  /\ Pending(i)
  /\ Become(s, [NoRequest EXCEPT
                  !.todo = <<"answer", "vehicle", "save", "busy", "event">>,
                  !.trip = o.trip, !.driver = o.driver, !.offer = i,
                  !.response = "ACCEPTED", !.from = trips[o.trip].status,
                  !.mem = [trips[o.trip] EXCEPT !.status = "DRIVER_ASSIGNED"]])
  /\ UNCHANGED tables

\* POST /dispatch/offers/{id}/respond by the driver it was made to.  The trip
\* is loaded with the offer; nothing tests its status.
Accept(s, i) ==
  LET o == offers[i] IN
  /\ Accepts(s, "accept")
  /\ Pending(i)
  /\ Become(s, [NoRequest EXCEPT
                  !.todo = <<"answer", "vehicle", "save", "busy", "event">>,
                  !.trip = o.trip, !.driver = o.driver, !.offer = i,
                  !.response = "ACCEPTED", !.from = trips[o.trip].status,
                  !.mem = [trips[o.trip] EXCEPT !.status = "DRIVER_ASSIGNED",
                                                !.driver = o.driver]])
  /\ UNCHANGED tables

Reject(s, i) ==
  LET o == offers[i] IN
  /\ Accepts(s, "reject")
  /\ Pending(i)
  /\ Become(s, [NoRequest EXCEPT !.todo = <<"answer", "load">>, !.trip = o.trip,
                                 !.driver = o.driver, !.offer = i,
                                 !.response = "REJECTED"])
  /\ UNCHANGED tables

\* offers.save of the answered copy.  The answer and its time differ from the
\* null columns of a pending row and from any other answer, so the save always
\* writes them: no test is made that the offer is still pending.
SaveAnswer(s) ==
  LET r == req[s] IN
  /\ At(s, "answer")
  /\ offers' = [offers EXCEPT ![r.offer].response = r.response]
  /\ Proceed(s)
  /\ UNCHANGED <<trips, profiles, ledger, events, audits, ratings>>

\* The driver's active vehicle is looked up: for an accepted offer after the
\* answer was saved, for a manual assignment before anything is.
CheckVehicle(s) ==
  /\ At(s, "vehicle")
  /\ IF req[s].driver \in withVehicle THEN Proceed(s) ELSE Return(s)
  /\ UNCHANGED tables

\* drivers.update(driver, BUSY)
OccupyDriver(s) ==
  /\ At(s, "busy")
  /\ driverStatus' = [driverStatus EXCEPT ![req[s].driver] = "BUSY"]
  /\ Proceed(s)
  /\ UNCHANGED <<trips, offers, availableSince, withVehicle, ledger, events, audits, ratings>>
-----------------------------------------------------------------------------
(* POST /dispatch/manual-assign. *)

\* Mutant of ManualAssign: the driver stays free.
ManualAssignFree(s, t, d) ==
  /\ Accepts(s, "manual")
  /\ trips[t].status \in ASSIGNABLE_STATES
  /\ Become(s, [NoRequest EXCEPT
                  !.todo = <<"check", "vehicle", "save", "manualOffer", "event",
                             "dispatch.manual_assign">>,
                  !.trip = t, !.driver = d, !.from = trips[t].status,
                  !.mem = [trips[t] EXCEPT !.driver = d, !.status = "DRIVER_ASSIGNED"]])
  /\ UNCHANGED tables

\* An operator names the driver of a trip that is still looking for one.
ManualAssign(s, t, d) ==
  /\ Accepts(s, "manual")
  /\ trips[t].status \in ASSIGNABLE_STATES
  /\ Become(s, [NoRequest EXCEPT
                  !.todo = <<"check", "vehicle", "save", "manualOffer", "busy",
                             "event", "dispatch.manual_assign">>,
                  !.trip = t, !.driver = d, !.from = trips[t].status,
                  !.mem = [trips[t] EXCEPT !.driver = d, !.status = "DRIVER_ASSIGNED"]])
  /\ UNCHANGED tables

\* The driver is read after the trip.
CheckDriver(s) ==
  /\ At(s, "check")
  /\ IF driverStatus[req[s].driver] = "AVAILABLE" THEN Proceed(s) ELSE Return(s)
  /\ UNCHANGED tables

\* A manual assignment leaves an offer that is already accepted.
InsertManualOffer(s) ==
  LET r == req[s] IN
  /\ At(s, "manualOffer")
  /\ ~Locked(r.trip)
  /\ offers' = Append(offers, [trip |-> r.trip, driver |-> r.driver, manual |-> TRUE,
                               response |-> "ACCEPTED"])
  /\ Proceed(s)
  /\ UNCHANGED <<trips, profiles, ledger, events, audits, ratings>>
-----------------------------------------------------------------------------
(* DispatchExpiryService.expireStaleOffers, every five seconds. *)

\* The pass reads the pending offers once, in no particular order.
ExpiryPass(s) ==
  /\ Accepts(s, "expire")
  /\ \E i \in DOMAIN offers : Pending(i) /\ ~offers[i].manual
  /\ Become(s, [NoRequest EXCEPT
                  !.todo = <<"next">>,
                  !.queue = {i \in DOMAIN offers : Pending(i) /\ ~offers[i].manual}])
  /\ UNCHANGED tables

\* The next offer of the list is younger than the timeout.
SkipOffer(s, i) ==
  /\ At(s, "next")
  /\ i \in req[s].queue
  /\ Become(s, [req[s] EXCEPT !.queue = @ \ {i}])
  /\ UNCHANGED tables

\* Mutant of ExpireOffer: the trip is dispatched before the offer is marked.
DispatchThenExpire(s, i) ==
  LET r == req[s] IN
  /\ At(s, "next")
  /\ i \in r.queue
  /\ Become(s, IF i \in DOMAIN offers /\ Pending(i)
               THEN [NoRequest EXCEPT !.todo = <<"load", "answer", "next">>,
                                      !.queue = r.queue \ {i}, !.trip = offers[i].trip,
                                      !.offer = i, !.response = "EXPIRED"]
               ELSE [r EXCEPT !.queue = @ \ {i}])
  /\ UNCHANGED tables

\* The next offer is older than the timeout: expireOffer loads it again, and
\* unless it was answered meanwhile marks it and dispatches the trip once more.
ExpireOffer(s, i) ==
  LET r == req[s] IN
  /\ At(s, "next")
  /\ i \in r.queue
  /\ Become(s, IF i \in DOMAIN offers /\ Pending(i)
               THEN [NoRequest EXCEPT !.todo = <<"answer", "load", "next">>,
                                      !.queue = r.queue \ {i}, !.trip = offers[i].trip,
                                      !.offer = i, !.response = "EXPIRED"]
               ELSE [r EXCEPT !.queue = @ \ {i}])
  /\ UNCHANGED tables
=============================================================================
