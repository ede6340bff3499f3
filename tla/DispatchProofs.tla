--------------------------- MODULE DispatchProofs ---------------------------
(***************************************************************************)
(* Proofs about who is offered a trip and who comes to drive it, for any   *)
(* number of trips, drivers and slots.                                     *)
(*                                                                         *)
(* The argument is about what a handler in flight may count on at each of  *)
(* the awaits before it, whatever the other handlers do meanwhile: Known.  *)
(* It is stated over tables given as parameters, so that the same lemma    *)
(* speaks of the tables before a step and of those after it.               *)
(***************************************************************************)
EXTENDS TaxiProofs

USE StoreAssumption DEF None, NoFare

\* The drivers who answered an offer of trip t, or whose assignment by hand is
\* about to leave one.
Backed == [t \in Trips |-> {d \in Drivers :
  \/ \E i \in DOMAIN offers : offers[i].trip = t /\ offers[i].driver = d /\ ~Pending(i)
  \/ \E s \in Slots : At(s, "manualOffer") /\ req[s].trip = t /\ req[s].driver = d}]

\* Why the save at place j of a handler may put the driver of its copy into
\* the trip: the driver is backed, the handler is about to store the answer,
\* or it inserts the offer right after.
Vouched(r, j, os, backed) ==
  \/ MayCrash
  \/ r.mem.driver \in backed[r.trip]
  \/ Head(r.todo) = "answer" /\ os[r.offer].driver = r.mem.driver
  \/ j + 1 \in DOMAIN r.todo /\ r.todo[j + 1] = "manualOffer" /\ r.driver = r.mem.driver

\* What a handler counts on at await j, with trips ts and offers os.
KnownAt(r, j, ts, os, backed) ==
  /\ r.todo[j] = "save" =>
       /\ r.mem.status # None
       /\ r.mem.driver \in Drivers => Vouched(r, j, os, backed)
  /\ r.todo[j] = "rank" => r.mem.driver = Unloaded
  /\ r.todo[j] \in {"rank", "offer"} => ts[r.trip].category # "FORANEO"
  /\ r.todo[j] = "answer" =>
       r.response # None /\ r.offer \in DOMAIN os /\ os[r.offer].trip = r.trip

Known(r, ts, os, backed) ==
  /\ r.trip \in Trips => ts[r.trip].status # None
  /\ \A j \in DOMAIN r.todo : KnownAt(r, j, ts, os, backed)

\* What the tables say of one another.
TablesAgree(ts, os, backed) ==
  /\ \A i \in DOMAIN os : /\ ts[os[i].trip].status # None
                          /\ ~os[i].manual => ts[os[i].trip].category # "FORANEO"
  /\ MayCrash \/ \A t \in Trips, d \in Drivers : ts[t].driver = d => d \in backed[t]

\* The inductive invariant.
OfferInv ==
  /\ \A s \in Slots : Known(req[s], trips, offers, Backed)
  /\ TablesAgree(trips, offers, Backed)

\* What no step takes back: a trip and its category, the parties of an offer,
\* and that a driver is backed.
Grown(ts, os, backed, ts2, os2, backed2) ==
  /\ \A t \in Trips : ts[t].status # None =>
       ts2[t].status # None /\ ts2[t].category = ts[t].category
  /\ DOMAIN os \subseteq DOMAIN os2
  /\ \A i \in DOMAIN os : /\ os2[i].trip = os[i].trip /\ os2[i].driver = os[i].driver
                          /\ os2[i].manual = os[i].manual
  /\ \A t \in Trips : backed[t] \subseteq backed2[t]
-----------------------------------------------------------------------------
(* Handlers, whatever the tables. *)

LEMMA KnownNothing ==
  ASSUME NEW ts, NEW os, NEW b
  PROVE  Known(NoRequest, ts, os, b)
  BY DEF Known, NoRequest

LEMMA KnownPass ==
  ASSUME NEW ts, NEW os, NEW b, NEW q
  PROVE  Known([NoRequest EXCEPT !.todo = <<"next">>, !.queue = q], ts, os, b)
  BY DEF Known, KnownAt, NoRequest

LEMMA KnownRemaining ==
  ASSUME NEW r, NEW ts, NEW os, NEW b, Known(r, ts, os, b)
  PROVE  Known(Remaining(r), ts, os, b)
  BY KnownNothing, KnownPass DEF Remaining

\* What a handler counts on depends only on these fields.
LEMMA KnownSame ==
  ASSUME NEW r, NEW u, NEW ts, NEW os, NEW b, Known(r, ts, os, b),
         u.todo = r.todo, u.trip = r.trip, u.mem = r.mem, u.driver = r.driver,
         u.offer = r.offer, u.response = r.response
  PROVE  Known(u, ts, os, b)
  BY DEF Known, KnownAt, Vouched

\* What it still counts on when the tables have grown.
LEMMA KnownGrows ==
  ASSUME NEW r \in Request, NEW ts, NEW os, NEW b, NEW ts2, NEW os2, NEW b2,
         LocalsOK(r), Known(r, ts, os, b), Grown(ts, os, b, ts2, os2, b2)
  PROVE  Known(r, ts2, os2, b2)
  <1>1. r.trip \in Trips => ts2[r.trip].status # None
    BY DEF Known, Grown
  <1>2. ASSUME NEW j \in DOMAIN r.todo PROVE KnownAt(r, j, ts2, os2, b2)
    <2>1. KnownAt(r, j, ts, os, b)
      BY DEF Known
    <2>2. r.trip \in Trips \/ r.todo \in Tripless
      BY DEF LocalsOK, Request
    <2>3. CASE r.todo \in Tripless
      BY <2>3 DEF Tripless, KnownAt
    <2>4. CASE r.trip \in Trips
      <3>1. r.todo[j] \in {"rank", "offer"} => ts2[r.trip].category # "FORANEO"
        BY <2>1, <2>4 DEF Known, KnownAt, Grown
      <3>2. r.todo[j] = "answer" =>
              r.response # None /\ r.offer \in DOMAIN os2 /\ os2[r.offer].trip = r.trip
        BY <2>1 DEF KnownAt, Grown
      <3>3. ASSUME r.todo[j] = "save", r.mem.driver \in Drivers
            PROVE  Vouched(r, j, os2, b2)
        <4>1. Vouched(r, j, os, b)
          BY <2>1, <3>3 DEF KnownAt
        <4>2. CASE Head(r.todo) = "answer" /\ os[r.offer].driver = r.mem.driver
          <5>1. r.todo \in Seq(Stage) /\ r.todo # <<>>
            BY DEF Request
          <5>2. 1 \in DOMAIN r.todo /\ r.todo[1] = "answer"
            BY <4>2, <5>1
          <5>3. r.offer \in DOMAIN os
            BY <5>2 DEF Known, KnownAt
          <5> QED BY <4>2, <5>3 DEF Vouched, Grown
        <4> QED BY <2>4, <4>1, <4>2 DEF Vouched, Grown
      <3> QED BY <2>1, <3>1, <3>2, <3>3 DEF KnownAt
    <2> QED BY <2>2, <2>3, <2>4
  <1> QED BY <1>1, <1>2 DEF Known

\* The next await is done, unless it was the storing of an answer.
LEMMA KnownTail ==
  ASSUME NEW r \in Request, NEW ts, NEW os, NEW b, Known(r, ts, os, b), r.todo # <<>>,
         \/ Head(r.todo) # "answer"
         \/ \A d \in Drivers : os[r.offer].driver = d => d \in b[r.trip]
  PROVE  Known([r EXCEPT !.todo = Tail(@)], ts, os, b)
  <1> DEFINE u == [r EXCEPT !.todo = Tail(@)]
  <1>1. r.todo \in Seq(Stage) /\ Tail(r.todo) \in Seq(Stage)
    BY DEF Request
  <1>2. /\ u.todo = Tail(r.todo) /\ u.trip = r.trip /\ u.mem = r.mem /\ u.driver = r.driver
        /\ u.offer = r.offer /\ u.response = r.response
    BY DEF Request
  <1>3. DOMAIN u.todo = 1..(Len(r.todo) - 1) /\ DOMAIN r.todo = 1..Len(r.todo) /\ Len(r.todo) \in Nat
    BY <1>1, <1>2
  <1>4. \A j \in DOMAIN u.todo : u.todo[j] = r.todo[j + 1] /\ j + 1 \in DOMAIN r.todo
    BY <1>1, <1>2
  <1> HIDE DEF u
  <1>5. ASSUME NEW j \in DOMAIN u.todo PROVE KnownAt(u, j, ts, os, b)
    <2>1. KnownAt(r, j + 1, ts, os, b) /\ u.todo[j] = r.todo[j + 1]
      BY <1>4 DEF Known
    <2>2. ASSUME u.todo[j] = "save", u.mem.driver \in Drivers, ~MayCrash
          PROVE  Vouched(u, j, os, b)
      <3>1. Vouched(r, j + 1, os, b)
        BY <1>2, <2>1, <2>2 DEF KnownAt
      <3>2. CASE j + 1 + 1 \in DOMAIN r.todo /\ r.todo[j + 1 + 1] = "manualOffer"
                 /\ r.driver = r.mem.driver
        <4>1. j + 1 \in DOMAIN u.todo
          BY <1>3, <3>2
        <4>2. u.todo[j + 1] = r.todo[j + 1 + 1]
          BY <1>4, <4>1
        <4> QED BY <1>2, <3>2, <4>1, <4>2 DEF Vouched
      <3>3. CASE r.mem.driver \in b[r.trip]
        BY <1>2, <3>3 DEF Vouched
      <3>4. CASE Head(r.todo) = "answer" /\ os[r.offer].driver = r.mem.driver
        BY <1>2, <2>2, <3>4 DEF Vouched
      <3> QED BY <2>2, <3>1, <3>2, <3>3, <3>4 DEF Vouched
    <2>3. MayCrash => Vouched(u, j, os, b)
      BY DEF Vouched
    <2> QED BY <1>2, <2>1, <2>2, <2>3 DEF KnownAt
  <1>6. u.trip \in Trips => ts[u.trip].status # None
    BY <1>2 DEF Known
  <1>7. Known(u, ts, os, b)
    BY <1>5, <1>6 DEF Known
  <1> QED BY <1>7 DEF u

\* A new handler on a trip that exists, none of whose awaits needs the tables
\* but for a save.
Plain == Stage \ {"save", "rank", "offer", "answer"}

LEMMA KnownNew ==
  ASSUME NEW r, NEW ts, NEW os, NEW b,
         ts[r.trip].status # None,
         \A j \in DOMAIN r.todo : r.todo[j] \in Plain \/ r.todo[j] = "save",
         \/ \A j \in DOMAIN r.todo : r.todo[j] # "save"
         \/ /\ r.mem.status # None
            /\ MayCrash \/ r.mem.driver \notin Drivers \/ r.mem.driver \in b[r.trip]
  PROVE  Known(r, ts, os, b)
  BY DEF Known, KnownAt, Vouched, Plain
-----------------------------------------------------------------------------
(* One step of one slot. *)

LEMMA BackedIs ==
  ASSUME NEW t \in Trips, NEW d \in Drivers
  PROVE  /\ d \in Backed[t] <=>
              \/ \E i \in DOMAIN offers :
                   offers[i].trip = t /\ offers[i].driver = d /\ offers[i].response # None
              \/ \E s \in Slots : At(s, "manualOffer") /\ req[s].trip = t /\ req[s].driver = d
         /\ d \in Backed'[t] <=>
              \/ \E i \in DOMAIN offers' :
                   offers'[i].trip = t /\ offers'[i].driver = d /\ offers'[i].response # None
              \/ \E s \in Slots : At(s, "manualOffer")' /\ req'[s].trip = t /\ req'[s].driver = d
  BY DEF Backed, Pending

LEMMA BackedGrows ==
  ASSUME NEW s \in Slots, \A q \in Slots \ {s} : req'[q] = req[q],
         \/ ~At(s, "manualOffer")
         \/ \E i \in DOMAIN offers' : /\ offers'[i].trip = req[s].trip
                                      /\ offers'[i].driver = req[s].driver
                                      /\ offers'[i].response # None,
         DOMAIN offers \subseteq DOMAIN offers',
         \A i \in DOMAIN offers :
           /\ offers'[i].trip = offers[i].trip /\ offers'[i].driver = offers[i].driver
           /\ offers[i].response # None => offers'[i].response # None
  PROVE  \A t \in Trips : Backed[t] \subseteq Backed'[t]
  <1> SUFFICES ASSUME NEW t \in Trips, NEW d \in Drivers, d \in Backed[t]
               PROVE  d \in Backed'[t]
    BY DEF Backed
  <1>1. CASE \E i \in DOMAIN offers :
               offers[i].trip = t /\ offers[i].driver = d /\ offers[i].response # None
    BY <1>1, BackedIs
  <1>2. ASSUME NEW q \in Slots, At(q, "manualOffer"), req[q].trip = t, req[q].driver = d
        PROVE  d \in Backed'[t]
    <2>1. CASE q = s
      BY <1>2, <2>1, BackedIs
    <2>2. CASE q # s
      <3>1. req'[q] = req[q]
        BY <2>2
      <3>2. At(q, "manualOffer")' /\ req'[q].trip = t /\ req'[q].driver = d
        BY <1>2, <3>1 DEF At
      <3> QED BY <3>2, BackedIs
    <2> QED BY <2>1, <2>2
  <1> QED BY <1>1, <1>2, BackedIs

\* A step of slot s need only be looked at in s and in the tables.
LEMMA OneSlot ==
  ASSUME IInv, OfferInv, NEW s \in Slots, \A q \in Slots \ {s} : req'[q] = req[q],
         Grown(trips, offers, Backed, trips', offers', Backed'),
         Known(req'[s], trips', offers', Backed'), TablesAgree(trips', offers', Backed')
  PROVE  OfferInv'
  <1>1. ASSUME NEW q \in Slots, q # s PROVE Known(req'[q], trips', offers', Backed')
    <2>1. req[q] \in Request /\ LocalsOK(req[q]) /\ Known(req[q], trips, offers, Backed)
      BY DEF IInv, TypeOK, OfferInv
    <2>2. Known(req[q], trips', offers', Backed')
      BY <2>1, KnownGrows
    <2> QED BY <1>1, <2>2
  <1> QED BY <1>1 DEF OfferInv

\* A step that leaves trips and offers alone.
LEMMA TablesStay ==
  ASSUME IInv, OfferInv, NEW s \in Slots, \A q \in Slots \ {s} : req'[q] = req[q],
         ~At(s, "manualOffer"), UNCHANGED <<trips, offers>>
  PROVE  /\ Grown(trips, offers, Backed, trips', offers', Backed')
         /\ TablesAgree(trips', offers', Backed')
  <1>1. \A t \in Trips : Backed[t] \subseteq Backed'[t]
    BY BackedGrows
  <1>2. TablesAgree(trips, offers, Backed)
    BY DEF OfferInv
  <1> QED BY <1>1, <1>2 DEF Grown, TablesAgree

LEMMA BecomeKnown ==
  ASSUME IInv, IInv', OfferInv, NEW s \in Slots, NEW r, Become(s, r),
         Known(r, trips, offers, Backed), ~At(s, "manualOffer"), UNCHANGED <<trips, offers>>
  PROVE  OfferInv'
  <1>1. req'[s] = Remaining(r) /\ \A q \in Slots \ {s} : req'[q] = req[q]
    BY DEF Become, IInv, TypeOK
  <1>2. Known(req'[s], trips, offers, Backed)
    BY <1>1, KnownRemaining
  <1>3. /\ Grown(trips, offers, Backed, trips', offers', Backed')
        /\ TablesAgree(trips', offers', Backed')
    BY <1>1, TablesStay
  <1>4. req'[s] \in Request /\ LocalsOK(req'[s])
    BY DEF IInv, TypeOK
  <1>5. Known(req'[s], trips', offers', Backed')
    BY <1>2, <1>3, <1>4, KnownGrows
  <1> QED BY <1>1, <1>3, <1>5, OneSlot

\* An awaited step that touches neither trips nor offers.
LEMMA ProceedKnown ==
  ASSUME IInv, IInv', OfferInv, NEW s \in Slots, NEW stage, At(s, stage),
         stage \notin {"manualOffer", "answer"}, Proceed(s) \/ Return(s),
         UNCHANGED <<trips, offers>>
  PROVE  OfferInv'
  <1>1. req[s] \in Request /\ Known(req[s], trips, offers, Backed)
    BY DEF IInv, TypeOK, OfferInv
  <1>2. req[s].todo # <<>> /\ Head(req[s].todo) = stage /\ ~At(s, "manualOffer")
    BY DEF At
  <1>3. CASE Proceed(s)
    <2>1. Known([req[s] EXCEPT !.todo = Tail(@)], trips, offers, Backed)
      BY <1>1, <1>2, KnownTail
    <2> QED BY <1>2, <1>3, <2>1, BecomeKnown DEF Proceed
  <1>4. CASE Return(s)
    BY <1>2, <1>4, KnownNothing, BecomeKnown DEF Return
  <1> QED BY <1>3, <1>4
-----------------------------------------------------------------------------
(* New handlers. *)

\* A handler whose copy is the row it read, changed but not in its driver.
LEMMA HandleKnown ==
  ASSUME IInv, IInv', OfferInv, NEW s \in Slots, Idle(s), NEW t \in Trips, Exists(t), NEW e, NEW todo,
         \A j \in DOMAIN todo : todo[j] \in Plain \cup {"save"},
         (\A j \in DOMAIN todo : todo[j] # "save") \/ (e.status # None /\ e.driver = trips[t].driver),
         Handle(s, t, e, todo), UNCHANGED <<trips, offers>>
  PROVE  OfferInv'
  <1> DEFINE r == [NoRequest EXCEPT !.todo = todo, !.trip = t, !.driver = trips[t].driver,
                                    !.mem = e, !.from = trips[t].status]
  <1>1. r.todo = todo /\ r.trip = t /\ r.mem = e
    BY DEF NoRequest
  <1>2. Become(s, r)
    BY DEF Handle
  <1> HIDE DEF r
  <1>3. MayCrash \/ trips[t].driver \notin Drivers \/ trips[t].driver \in Backed[t]
    BY DEF OfferInv, TablesAgree
  <1>4. Known(r, trips, offers, Backed)
    BY <1>1, <1>3, KnownNew DEF Exists
  <1>5. ~At(s, "manualOffer")
    BY DEF Idle, At
  <1> QED BY <1>2, <1>4, <1>5, BecomeKnown

\* The awaits of a handler that only saves its copy.
Simple == Plain \cup {"save"}

LEMMA SimpleAwaits ==
  /\ {"event", "free", "lock", "commit", "passengerRates", "driverRates",
      "trip.foraneo_quoted", "payment.amount_mismatch"} \subseteq Simple
  /\ "save" \in Simple
  BY DEF Simple, Plain, Stage, AuditAction

LEMMA AwaitLists ==
  ASSUME NEW S, NEW p \in Seq(S), NEW q \in Seq(S), NEW a \in S, NEW b \in S, NEW c \in S
  PROVE  /\ p \o q \in Seq(S) /\ <<>> \in Seq(S) /\ <<a>> \in Seq(S)
         /\ <<a, b>> \in Seq(S) /\ <<a, b, c>> \in Seq(S)
  OBVIOUS

LEMMA SeqElements ==
  ASSUME NEW S, NEW p \in Seq(S)
  PROVE  \A j \in DOMAIN p : p[j] \in S
  OBVIOUS

LEMMA SavedCopyKnown ==
  ASSUME IInv, IInv', OfferInv, NEW s \in Slots, NEW t \in Trips, NEW e, NEW todo \in Seq(Simple),
         Handle(s, t, e, todo), trips[t].status # None, Idle(s), UNCHANGED tables,
         e.status # None, e.driver = trips[t].driver
  PROVE  OfferInv'
  <1>1. \A j \in DOMAIN todo : todo[j] \in Plain \cup {"save"}
    BY DEF Simple
  <1> QED BY <1>1, HandleKnown DEF Exists, tables

\* The trip requests that write nothing before their first await.
LEMMA TripRequestKnown ==
  ASSUME IInv, IInv', OfferInv, NEW s \in Slots, NEW t \in Trips,
         \/ Review(s, t) \/ Arrive(s, t) \/ Start(s, t) \/ Complete(s, t) \/ Cancel(s, t)
         \/ ConfirmPayment(s, t) \/ Rate(s, t)
  PROVE  OfferInv'
  <1>1. trips[t] \in TripRow
    BY DEF IInv, TypeOK
  <1>2. \A status, fare :
          /\ [trips[t] EXCEPT !.status = status].status = status
          /\ [trips[t] EXCEPT !.status = status].driver = trips[t].driver
          /\ [trips[t] EXCEPT !.quotedFare = fare, !.status = status].status = status
          /\ [trips[t] EXCEPT !.quotedFare = fare, !.status = status].driver = trips[t].driver
          /\ [trips[t] EXCEPT !.finalFare = fare, !.status = status].status = status
          /\ [trips[t] EXCEPT !.finalFare = fare, !.status = status].driver = trips[t].driver
          /\ [trips[t] EXCEPT !.status = status, !.startedAt = TRUE].status = status
          /\ [trips[t] EXCEPT !.status = status, !.startedAt = TRUE].driver = trips[t].driver
    BY <1>1 DEF TripRow
  <1>3. CASE Review(s, t)
    <2>1. PICK fare \in Fares :
            Handle(s, t, [trips[t] EXCEPT !.quotedFare = fare, !.status = "QUOTED"],
                   <<"save", "event", "trip.foraneo_quoted">>)
      BY <1>3 DEF Review
    <2>2. trips[t].status # None /\ Idle(s) /\ UNCHANGED tables
      BY <1>3 DEF Review, Accepts, ASSIGNED_STATES
    <2>3. <<"save", "event", "trip.foraneo_quoted">> \in Seq(Simple)
      BY SimpleAwaits, AwaitLists
    <2> DEFINE e == [trips[t] EXCEPT !.quotedFare = fare, !.status = "QUOTED"]
    <2>4. Handle(s, t, e, <<"save", "event", "trip.foraneo_quoted">>) /\ e.status # None /\ e.driver = trips[t].driver
      BY <1>2, <2>1
    <2> HIDE DEF e
    <2> QED BY <2>2, <2>3, <2>4, SavedCopyKnown
  <1>4. CASE Arrive(s, t)
    <2>1. Handle(s, t, [trips[t] EXCEPT !.status = "DRIVER_ARRIVED"], <<"save", "event">>)
      BY <1>4 DEF Arrive
    <2>2. trips[t].status # None /\ Idle(s) /\ UNCHANGED tables
      BY <1>4 DEF Arrive, Accepts, ASSIGNED_STATES
    <2>3. <<"save", "event">> \in Seq(Simple)
      BY SimpleAwaits, AwaitLists
    <2> DEFINE e == [trips[t] EXCEPT !.status = "DRIVER_ARRIVED"]
    <2>4. Handle(s, t, e, <<"save", "event">>) /\ e.status # None /\ e.driver = trips[t].driver
      BY <1>2, <2>1
    <2> HIDE DEF e
    <2> QED BY <2>2, <2>3, <2>4, SavedCopyKnown
  <1>5. CASE Start(s, t)
    <2>1. Handle(s, t, [trips[t] EXCEPT !.status = "TRIP_IN_PROGRESS", !.startedAt = TRUE],
                 <<"save", "event">>)
      BY <1>5 DEF Start
    <2>2. trips[t].status # None /\ Idle(s) /\ UNCHANGED tables
      BY <1>5 DEF Start, Accepts, ASSIGNED_STATES
    <2>3. <<"save", "event">> \in Seq(Simple)
      BY SimpleAwaits, AwaitLists
    <2> DEFINE e == [trips[t] EXCEPT !.status = "TRIP_IN_PROGRESS", !.startedAt = TRUE]
    <2>4. Handle(s, t, e, <<"save", "event">>) /\ e.status # None /\ e.driver = trips[t].driver
      BY <1>2, <2>1
    <2> HIDE DEF e
    <2> QED BY <2>2, <2>3, <2>4, SavedCopyKnown
  <1>6. CASE Complete(s, t)
    <2>1. PICK fare \in FinalFares(trips[t]) :
            Handle(s, t, [trips[t] EXCEPT !.finalFare = fare, !.status = "PAYMENT_PENDING"],
                   <<"save", "event", "free">>)
      BY <1>6 DEF Complete
    <2>2. trips[t].status # None /\ Idle(s) /\ UNCHANGED tables
      BY <1>6 DEF Complete, Accepts, ASSIGNED_STATES
    <2>3. <<"save", "event", "free">> \in Seq(Simple)
      BY SimpleAwaits, AwaitLists
    <2> DEFINE e == [trips[t] EXCEPT !.finalFare = fare, !.status = "PAYMENT_PENDING"]
    <2>4. Handle(s, t, e, <<"save", "event", "free">>) /\ e.status # None /\ e.driver = trips[t].driver
      BY <1>2, <2>1
    <2> HIDE DEF e
    <2> QED BY <2>2, <2>3, <2>4, SavedCopyKnown
  <1>7. CASE Cancel(s, t)
    <2> DEFINE tail == IF trips[t].status \in ASSIGNED_STATES /\ HasAssignedDriver(t)
                       THEN <<"free">> ELSE <<>>
    <2>1. PICK status \in Cancellations :
            Handle(s, t, [trips[t] EXCEPT !.status = status], <<"save", "event">> \o tail)
      BY <1>7 DEF Cancel
    <2>2. trips[t].status # None /\ Idle(s) /\ UNCHANGED tables
      BY <1>7 DEF Cancel, Accepts, CANCELLABLE_STATES, ASSIGNABLE_STATES, ASSIGNED_STATES
    <2>3. status # None
      BY DEF CANCELLED_STATES
    <2>4. <<"free">> \in Seq(Simple) /\ <<>> \in Seq(Simple)
      BY SimpleAwaits, AwaitLists
    <2>5. tail \in Seq(Simple)
      BY <2>4
    <2> HIDE DEF tail
    <2>6. <<"save", "event">> \in Seq(Simple)
      BY SimpleAwaits, AwaitLists
    <2>7. <<"save", "event">> \o tail \in Seq(Simple)
      BY <2>5, <2>6, AwaitLists, SimpleAwaits
    <2> DEFINE e == [trips[t] EXCEPT !.status = status]
    <2>8. /\ Handle(s, t, e, <<"save", "event">> \o tail)
          /\ e.status # None /\ e.driver = trips[t].driver
      BY <1>2, <2>1, <2>3
    <2> HIDE DEF e
    <2> QED BY <2>2, <2>7, <2>8, SavedCopyKnown
  <1>8. CASE ConfirmPayment(s, t)
    <2>1. PICK mismatch \in Audited :
            Handle(s, t, trips[t], (IF mismatch THEN <<"payment.amount_mismatch">> ELSE <<>>)
                                     \o <<"lock", "commit">>)
      BY <1>8 DEF ConfirmPayment
    <2> DEFINE head == IF mismatch THEN <<"payment.amount_mismatch">> ELSE <<>>
    <2>2. trips[t].status # None /\ Idle(s) /\ UNCHANGED tables
      BY <1>8 DEF ConfirmPayment, Accepts
    <2>3. <<"payment.amount_mismatch">> \in Seq(Simple) /\ <<>> \in Seq(Simple)
      BY SimpleAwaits, AwaitLists
    <2>4. head \in Seq(Simple) /\ Handle(s, t, trips[t], head \o <<"lock", "commit">>)
      BY <2>1, <2>3
    <2> HIDE DEF head
    <2>5. <<"lock", "commit">> \in Seq(Simple)
      BY SimpleAwaits, AwaitLists
    <2>6. head \o <<"lock", "commit">> \in Seq(Simple)
      BY <2>4, <2>5, AwaitLists, SimpleAwaits
    <2> QED BY <2>2, <2>4, <2>6, SavedCopyKnown
  <1>9. CASE Rate(s, t)
    <2>1. PICK rating \in {"passengerRates", "driverRates"} : Handle(s, t, trips[t], <<rating>>)
      BY <1>9 DEF Rate
    <2>2. trips[t].status # None /\ Idle(s) /\ UNCHANGED tables
      BY <1>9 DEF Rate, Accepts
    <2>3. <<rating>> \in Seq(Simple)
      BY SimpleAwaits, AwaitLists
    <2> QED BY <2>1, <2>2, <2>3, SavedCopyKnown
  <1> QED BY <1>3, <1>4, <1>5, <1>6, <1>7, <1>8, <1>9

LEMMA OfferAt ==
  ASSUME IInv, NEW i \in DOMAIN offers
  PROVE  /\ i \in Nat /\ offers[i] \in OfferRow
         /\ offers[i].trip \in Trips /\ offers[i].driver \in Drivers
         /\ offers[i].manual \in BOOLEAN /\ offers[i].response \in Response \cup {None}
  <1>1. offers \in Seq(OfferRow)
    BY DEF IInv, TypeOK
  <1>2. i \in Nat /\ offers[i] \in OfferRow
    BY <1>1
  <1> QED BY <1>2 DEF OfferRow

LEMMA CreateKnown ==
  ASSUME IInv, IInv', OfferInv, NEW s \in Slots, NEW t \in Trips, Create(s, t)
  PROVE  OfferInv'
  <1>1. PICK category \in Categories, onBehalf \in Audited :
          LET row == [NoRow EXCEPT !.category = category,
                                   !.status = IF category = "FORANEO"
                                              THEN "PENDING_REVIEW" ELSE "QUOTED"]
          IN  /\ trips' = [trips EXCEPT ![t] = row]
              /\ Handle(s, t, row,
                   (IF onBehalf THEN <<"trip.create_on_behalf">> ELSE <<>>)
                     \o <<"event">>
                     \o (IF category = "FORANEO" THEN <<>> ELSE <<"load">>))
    BY DEF Create
  <1> DEFINE row == [NoRow EXCEPT !.category = category,
                                  !.status = IF category = "FORANEO"
                                             THEN "PENDING_REVIEW" ELSE "QUOTED"]
             first == IF onBehalf THEN <<"trip.create_on_behalf">> ELSE <<>>
             last == IF category = "FORANEO" THEN <<>> ELSE <<"load">>
             todo == first \o <<"event">> \o last
             r == [NoRequest EXCEPT !.todo = todo, !.trip = t, !.driver = trips[t].driver,
                                    !.mem = row, !.from = trips[t].status]
  <1>2. trips' = [trips EXCEPT ![t] = row] /\ Become(s, r)
    BY <1>1 DEF Handle
  <1>3. /\ Idle(s) /\ trips[t].status = None /\ UNCHANGED offers
        /\ ~At(s, "manualOffer")
    BY DEF Create, Accepts, Exists, Idle, At
  <1>4. row.status # None /\ row.driver = NoDriver
    BY DEF NoRow
  <1>5. \A j \in DOMAIN todo : todo[j] \in Plain
    <2>1. "trip.create_on_behalf" \in Plain /\ "event" \in Plain /\ "load" \in Plain
      BY DEF Plain, Stage, AuditAction
    <2>2. /\ <<"trip.create_on_behalf">> \in Seq(Plain) /\ <<"event">> \in Seq(Plain)
          /\ <<"load">> \in Seq(Plain) /\ <<>> \in Seq(Plain)
      BY <2>1, AwaitLists
    <2>3. first \in Seq(Plain) /\ last \in Seq(Plain)
      BY <2>2
    <2> HIDE DEF first, last
    <2>4. first \o <<"event">> \in Seq(Plain)
      BY <2>1, <2>2, <2>3, AwaitLists
    <2>5. todo \in Seq(Plain)
      BY <2>1, <2>3, <2>4, AwaitLists
    <2> QED BY <2>5, SeqElements
  <1>6. r.todo = todo /\ r.trip = t
    BY DEF NoRequest
  <1> HIDE DEF row, todo, r
  <1>7. req'[s] = Remaining(r) /\ \A q \in Slots \ {s} : req'[q] = req[q]
    BY <1>2 DEF Become, IInv, TypeOK
  <1>8. trips'[t] = row /\ \A u \in Trips \ {t} : trips'[u] = trips[u]
    BY <1>2 DEF IInv, TypeOK
  <1>9. Known(r, trips', offers', Backed')
    BY <1>4, <1>5, <1>6, <1>8, KnownNew DEF Plain
  <1>10. Known(req'[s], trips', offers', Backed')
    BY <1>7, <1>9, KnownRemaining
  <1>11. \A u \in Trips : Backed[u] \subseteq Backed'[u]
    BY <1>3, <1>7, BackedGrows
  <1>12. Grown(trips, offers, Backed, trips', offers', Backed')
    BY <1>3, <1>8, <1>11 DEF Grown
  <1>13. TablesAgree(trips', offers', Backed')
    <2>1. ASSUME NEW i \in DOMAIN offers PROVE offers[i].trip \in Trips
      BY OfferAt
    <2>2. ASSUME NEW i \in DOMAIN offers'
          PROVE  /\ trips'[offers'[i].trip].status # None
                 /\ ~offers'[i].manual => trips'[offers'[i].trip].category # "FORANEO"
      BY <1>3, <1>8, <2>1, <2>2 DEF OfferInv, TablesAgree
    <2>3. MayCrash \/ \A u \in Trips, d \in Drivers : trips'[u].driver = d => d \in Backed'[u]
      BY <1>4, <1>8, <1>11 DEF OfferInv, TablesAgree
    <2> QED BY <2>2, <2>3 DEF TablesAgree
  <1> QED BY <1>7, <1>10, <1>12, <1>13, OneSlot

\* The handlers of the dispatch and of the drivers.
LEMMA StartDispatchKnown ==
  ASSUME IInv, IInv', OfferInv, NEW s \in Slots, NEW t \in Trips, StartDispatch(s, t)
  PROVE  OfferInv'
  <1> DEFINE e == WithoutDriver(trips[t])
             r == [NoRequest EXCEPT !.todo = <<"rank">>, !.trip = t, !.driver = trips[t].driver,
                                    !.mem = e, !.from = trips[t].status]
  <1>1. /\ Become(s, r) /\ ~At(s, "manualOffer") /\ UNCHANGED <<trips, offers>>
        /\ trips[t].status # None /\ trips[t].category # "FORANEO"
    BY DEF StartDispatch, Handle, Accepts, Idle, At, MayDispatch, ASSIGNABLE_STATES, tables
  <1>2. e.driver = Unloaded
    BY DEF WithoutDriver, IInv, TypeOK, TripRow
  <1>3. r.todo = <<"rank">> /\ r.trip = t /\ r.mem = e
    BY DEF NoRequest
  <1> HIDE DEF r, e
  <1>4. Known(r, trips, offers, Backed)
    BY <1>1, <1>2, <1>3 DEF Known, KnownAt
  <1> QED BY <1>1, <1>4, BecomeKnown

LEMMA ManualAssignKnown ==
  ASSUME IInv, IInv', OfferInv, NEW s \in Slots, NEW t \in Trips, NEW d \in Drivers,
         ManualAssign(s, t, d)
  PROVE  OfferInv'
  <1> DEFINE e == [trips[t] EXCEPT !.driver = d, !.status = "DRIVER_ASSIGNED"]
             r == [NoRequest EXCEPT
                     !.todo = <<"check", "vehicle", "save", "manualOffer", "busy",
                                "event", "dispatch.manual_assign">>,
                     !.trip = t, !.driver = d, !.from = trips[t].status, !.mem = e]
  <1>1. /\ Become(s, r) /\ ~At(s, "manualOffer") /\ UNCHANGED <<trips, offers>>
        /\ trips[t].status # None
    BY DEF ManualAssign, Accepts, Idle, At, ASSIGNABLE_STATES, tables
  <1>2. e.driver = d /\ e.status # None
    BY DEF IInv, TypeOK, TripRow
  <1>3. /\ r.todo = <<"check", "vehicle", "save", "manualOffer", "busy",
                      "event", "dispatch.manual_assign">>
        /\ r.trip = t /\ r.mem = e /\ r.driver = d
    BY DEF NoRequest
  <1> HIDE DEF r, e
  <1>4. Vouched(r, 3, offers, Backed)
    BY <1>2, <1>3 DEF Vouched
  <1>5. \A j \in DOMAIN r.todo :
          /\ r.todo[j] \notin {"rank", "offer", "answer"}
          /\ r.todo[j] = "save" => j = 3
    BY <1>3
  <1>6. Known(r, trips, offers, Backed)
    BY <1>1, <1>2, <1>3, <1>4, <1>5 DEF Known, KnownAt
  <1> QED BY <1>1, <1>6, BecomeKnown

LEMMA AcceptKnown ==
  ASSUME IInv, IInv', OfferInv, NEW s \in Slots, NEW i \in DOMAIN offers, Accept(s, i)
  PROVE  OfferInv'
  <1> DEFINE o == offers[i]
             e == [trips[o.trip] EXCEPT !.status = "DRIVER_ASSIGNED", !.driver = o.driver]
             r == [NoRequest EXCEPT
                     !.todo = <<"answer", "vehicle", "save", "busy", "event">>,
                     !.trip = o.trip, !.driver = o.driver, !.offer = i,
                     !.response = "ACCEPTED", !.from = trips[o.trip].status, !.mem = e]
  <1>1. /\ Become(s, r) /\ ~At(s, "manualOffer") /\ UNCHANGED <<trips, offers>>
        /\ o.trip \in Trips /\ trips[o.trip].status # None
    BY OfferAt DEF Accept, Accepts, Idle, At, tables, OfferInv, TablesAgree
  <1>2. e.driver = o.driver /\ e.status # None
    BY <1>1 DEF IInv, TypeOK, TripRow
  <1>3. /\ r.todo = <<"answer", "vehicle", "save", "busy", "event">>
        /\ r.trip = o.trip /\ r.mem = e /\ r.offer = i /\ r.response = "ACCEPTED"
    BY DEF NoRequest
  <1> HIDE DEF r, e
  <1>4. \A j \in DOMAIN r.todo : r.todo[j] = "save" => Vouched(r, j, offers, Backed)
    BY <1>2, <1>3 DEF Vouched
  <1>5. \A j \in DOMAIN r.todo : r.todo[j] \notin {"rank", "offer"}
    BY <1>3
  <1>6. Known(r, trips, offers, Backed)
    BY <1>1, <1>2, <1>3, <1>4, <1>5 DEF Known, KnownAt
  <1> QED BY <1>1, <1>6, BecomeKnown

LEMMA RejectKnown ==
  ASSUME IInv, IInv', OfferInv, NEW s \in Slots, NEW i \in DOMAIN offers, Reject(s, i)
  PROVE  OfferInv'
  <1> DEFINE o == offers[i]
             r == [NoRequest EXCEPT !.todo = <<"answer", "load">>, !.trip = o.trip,
                                    !.driver = o.driver, !.offer = i, !.response = "REJECTED"]
  <1>1. /\ Become(s, r) /\ ~At(s, "manualOffer") /\ UNCHANGED <<trips, offers>>
        /\ o.trip \in Trips /\ trips[o.trip].status # None
    BY OfferAt DEF Reject, Accepts, Idle, At, tables, OfferInv, TablesAgree
  <1>2. /\ r.todo = <<"answer", "load">> /\ r.trip = o.trip /\ r.offer = i
        /\ r.response = "REJECTED"
    BY DEF NoRequest
  <1> HIDE DEF r
  <1>3. Known(r, trips, offers, Backed)
    BY <1>1, <1>2 DEF Known, KnownAt
  <1> QED BY <1>1, <1>3, BecomeKnown

LEMMA TriplessKnown ==
  ASSUME IInv, IInv', OfferInv, NEW s \in Slots,
         ExpiryPass(s) \/ \E d \in Drivers : UpdateStatus(s, d)
  PROVE  OfferInv'
  <1>1. ~At(s, "manualOffer") /\ UNCHANGED <<trips, offers>>
    BY DEF ExpiryPass, UpdateStatus, Accepts, Idle, At, tables
  <1>2. CASE ExpiryPass(s)
    BY <1>1, <1>2, KnownPass, BecomeKnown DEF ExpiryPass
  <1>3. ASSUME NEW d \in Drivers, UpdateStatus(s, d) PROVE OfferInv'
    <2>1. PICK copy : Become(s, [NoRequest EXCEPT
                                   !.todo = <<"compareProfile", "writeProfile">>,
                                   !.driver = d, !.profile = copy])
      BY <1>3 DEF UpdateStatus
    <2> DEFINE r == [NoRequest EXCEPT !.todo = <<"compareProfile", "writeProfile">>,
                                      !.driver = d, !.profile = copy]
    <2>2. r.todo = <<"compareProfile", "writeProfile">> /\ r.trip = NoTrip
      BY DEF NoRequest
    <2>3. Become(s, r)
      BY <2>1
    <2> HIDE DEF r
    <2>4. Known(r, trips, offers, Backed)
      BY <2>2 DEF Known, KnownAt
    <2> QED BY <1>1, <2>3, <2>4, BecomeKnown
  <1> QED BY <1>2, <1>3
-----------------------------------------------------------------------------
(* Handlers going on. *)

\* Steps that touch neither trips nor offers and only move on, or return.
LEMMA QuietStepKnown ==
  ASSUME IInv, IInv', OfferInv, NEW s \in Slots,
         \/ RecordEvent(s) \/ RecordAudit(s) \/ FreeDriver(s) \/ OccupyDriver(s)
         \/ CheckDriver(s) \/ CheckVehicle(s) \/ LockTrip(s) \/ InsertRating(s)
         \/ WriteProfile(s)
  PROVE  OfferInv'
  <1>1. PICK stage \in {"event", "free", "busy", "check", "vehicle", "lock",
                        "passengerRates", "driverRates", "writeProfile"} \cup AuditAction :
          At(s, stage) /\ (Proceed(s) \/ Return(s)) /\ UNCHANGED <<trips, offers>>
    BY DEF RecordEvent, RecordAudit, FreeDriver, OccupyDriver, CheckDriver, CheckVehicle,
           LockTrip, InsertRating, WriteProfile, tables
  <1>2. stage \notin {"manualOffer", "answer"}
    BY DEF AuditAction
  <1> QED BY <1>1, <1>2, ProceedKnown

LEMMA CompareProfileKnown ==
  ASSUME IInv, IInv', OfferInv, NEW s \in Slots, CompareProfile(s)
  PROVE  OfferInv'
  <1>1. /\ req[s].todo # <<>> /\ Head(req[s].todo) = "compareProfile"
        /\ ~At(s, "manualOffer") /\ UNCHANGED <<trips, offers>>
    BY DEF CompareProfile, At, tables
  <1>2. req[s] \in Request /\ Known(req[s], trips, offers, Backed)
    BY DEF IInv, TypeOK, OfferInv
  <1> DEFINE u == [req[s] EXCEPT !.todo = Tail(@)]
  <1>3. Known(u, trips, offers, Backed)
    BY <1>1, <1>2, KnownTail
  <1>4. PICK copy : Become(s, [req[s] EXCEPT !.todo = Tail(@), !.profile = copy])
    BY DEF CompareProfile
  <1> DEFINE r == [req[s] EXCEPT !.todo = Tail(@), !.profile = copy]
  <1>5. /\ r.todo = u.todo /\ r.trip = u.trip /\ r.mem = u.mem /\ r.driver = u.driver
        /\ r.offer = u.offer /\ r.response = u.response
    BY <1>2 DEF Request
  <1>6. Become(s, r)
    BY <1>4
  <1> HIDE DEF r, u
  <1>7. Known(r, trips, offers, Backed)
    BY <1>3, <1>5, KnownSame
  <1> QED BY <1>1, <1>6, <1>7, BecomeKnown

LEMMA CompareTripKnown ==
  ASSUME IInv, IInv', OfferInv, NEW s \in Slots, CompareTrip(s)
  PROVE  OfferInv'
  <1>1. /\ ~At(s, "manualOffer") /\ UNCHANGED <<trips, offers>>
        /\ req' = [req EXCEPT ![s].saving = TRUE,
                              ![s].dirty = Differing(req[s].mem, trips[req[s].trip])]
    BY DEF CompareTrip, At, tables
  <1>2. /\ req \in [Slots -> Request] /\ req[s] \in Request /\ req'[s] \in Request
        /\ LocalsOK(req'[s]) /\ Known(req[s], trips, offers, Backed)
    BY DEF IInv, TypeOK, OfferInv
  <1>3. /\ \A q \in Slots \ {s} : req'[q] = req[q]
        /\ req'[s].todo = req[s].todo /\ req'[s].trip = req[s].trip /\ req'[s].mem = req[s].mem
        /\ req'[s].driver = req[s].driver /\ req'[s].offer = req[s].offer
        /\ req'[s].response = req[s].response
    BY <1>1, <1>2 DEF Request
  <1>4. Known(req'[s], trips, offers, Backed)
    BY <1>2, <1>3, KnownSame
  <1>5. /\ Grown(trips, offers, Backed, trips', offers', Backed')
        /\ TablesAgree(trips', offers', Backed')
    BY <1>1, <1>3, TablesStay
  <1>6. Known(req'[s], trips', offers', Backed')
    BY <1>2, <1>4, <1>5, KnownGrows
  <1> QED BY <1>3, <1>5, <1>6, OneSlot

\* A step that changes one row of trips, which existed, and no offer.
LEMMA RowChange ==
  ASSUME IInv, OfferInv, NEW s \in Slots, \A q \in Slots \ {s} : req'[q] = req[q],
         ~At(s, "manualOffer"), NEW t \in Trips, UNCHANGED offers,
         \A u \in Trips \ {t} : trips'[u] = trips[u],
         trips'[t].status # None, trips'[t].category = trips[t].category,
         MayCrash \/ \A d \in Drivers :
                       trips'[t].driver = d => d \in Backed'[t] \/ trips[t].driver = d
  PROVE  /\ Grown(trips, offers, Backed, trips', offers', Backed')
         /\ TablesAgree(trips', offers', Backed')
  <1>2. \A u \in Trips : Backed[u] \subseteq Backed'[u]
    BY BackedGrows
  <1>3. Grown(trips, offers, Backed, trips', offers', Backed')
    BY <1>2 DEF Grown
  <1>4. ASSUME NEW i \in DOMAIN offers
        PROVE  /\ trips'[offers[i].trip].status # None
               /\ ~offers[i].manual => trips'[offers[i].trip].category # "FORANEO"
    <2>1. offers[i].trip \in Trips
      BY OfferAt
    <2> QED BY <2>1 DEF OfferInv, TablesAgree
  <1>5. ASSUME ~MayCrash, NEW u \in Trips, NEW d \in Drivers, trips'[u].driver = d
        PROVE  d \in Backed'[u]
    <2>1. trips[u].driver = d => d \in Backed[u]
      BY <1>5 DEF OfferInv, TablesAgree
    <2> QED BY <1>2, <1>5, <2>1
  <1> QED BY <1>3, <1>4, <1>5 DEF TablesAgree

LEMMA NextAwait ==
  ASSUME NEW p \in Seq(Stage), 1 + 1 \in DOMAIN p
  PROVE  Tail(p) # <<>> /\ Head(Tail(p)) = p[1 + 1]
  OBVIOUS

LEMMA WriteTripKnown ==
  ASSUME IInv, IInv', OfferInv, NEW s \in Slots, WriteTrip(s)
  PROVE  OfferInv'
  <1> DEFINE r == req[s]
             t == r.trip
             row == Updated(trips[t], r.mem, r.dirty)
             u == [r EXCEPT !.todo = Tail(@)]
             v == [r EXCEPT !.todo = Tail(@), !.saving = FALSE, !.dirty = {}]
  <1>1. /\ At(s, "save") /\ UNCHANGED offers /\ Become(s, v)
        /\ trips' = [trips EXCEPT ![t] = row]
    BY DEF WriteTrip
  <1>2. r \in Request /\ LocalsOK(r) /\ Known(r, trips, offers, Backed) /\ ReqOK
    BY DEF IInv, TypeOK, OfferInv, ReqOK
  <1>3. t \in Trips
    BY <1>1, <1>2, TripAt
  <1>4. r.todo \in Seq(Stage) /\ r.todo # <<>> /\ 1 \in DOMAIN r.todo /\ r.todo[1] = "save"
        /\ Head(r.todo) = "save"
    BY <1>1, <1>2 DEF At, Request
  <1>5. KnownAt(r, 1, trips, offers, Backed)
    BY <1>2, <1>4 DEF Known
  <1>6. r.mem.status # None /\ (r.mem.driver \in Drivers => Vouched(r, 1, offers, Backed))
    BY <1>4, <1>5 DEF KnownAt
  <1>7. trips[t].status # None
    BY <1>2, <1>3 DEF Known
  <1>8. /\ row.status # None /\ row.category = trips[t].category
        /\ row.driver = trips[t].driver \/ row.driver = r.mem.driver
    BY <1>6, <1>7 DEF Updated
  <1>9. Known(u, trips, offers, Backed)
    BY <1>2, <1>4, KnownTail
  <1>10. /\ v.todo = u.todo /\ v.trip = u.trip /\ v.mem = u.mem /\ v.driver = u.driver
         /\ v.offer = u.offer /\ v.response = u.response
         /\ v.todo = Tail(r.todo) /\ v.trip = t /\ v.driver = r.driver
    BY <1>2 DEF Request
  <1> HIDE DEF row, u, v
  <1>11. Known(v, trips, offers, Backed)
    BY <1>9, <1>10, KnownSame
  <1>12. /\ req'[s] = Remaining(v) /\ \A q \in Slots \ {s} : req'[q] = req[q]
         /\ ~At(s, "manualOffer")
    BY <1>1, <1>2 DEF Become, ReqOK, At
  <1>13. \A d \in Trips : Backed[d] \subseteq Backed'[d]
    BY <1>1, <1>12, BackedGrows
  <1>14. ASSUME ~MayCrash, NEW d \in Drivers, r.mem.driver = d
         PROVE  d \in Backed'[t]
    <2>1. CASE r.mem.driver \in Backed[t]
      BY <1>3, <1>13, <1>14, <2>1
    <2>2. CASE 1 + 1 \in DOMAIN r.todo /\ r.todo[1 + 1] = "manualOffer" /\ r.driver = r.mem.driver
      <3>1. Tail(r.todo) # <<>> /\ Head(Tail(r.todo)) = "manualOffer"
        BY <1>4, <2>2, NextAwait
      <3>2. v.todo # <<>> /\ Head(v.todo) = "manualOffer" /\ v.trip = t /\ v.driver = d
        BY <1>10, <1>14, <2>2, <3>1
      <3>3. v.todo # <<"next">>
        BY <3>2
      <3>4. Remaining(v) = v
        BY <3>2, <3>3 DEF Remaining
      <3>5. At(s, "manualOffer")' /\ req'[s].trip = t /\ req'[s].driver = d
        BY <1>12, <3>2, <3>4 DEF At
      <3> QED BY <1>3, <3>5, BackedIs
    <2> QED BY <1>4, <1>6, <1>14, <2>1, <2>2 DEF Vouched
  <1>15. trips'[t] = row /\ \A w \in Trips \ {t} : trips'[w] = trips[w]
    BY <1>1, <1>3 DEF IInv, TypeOK
  <1>16. /\ Grown(trips, offers, Backed, trips', offers', Backed')
         /\ TablesAgree(trips', offers', Backed')
    <2>1. trips'[t].status # None /\ trips'[t].category = trips[t].category
      BY <1>8, <1>15
    <2>2. ASSUME ~MayCrash, NEW d \in Drivers, trips'[t].driver = d
          PROVE  d \in Backed'[t] \/ trips[t].driver = d
      BY <1>8, <1>14, <1>15, <2>2
    <2>3. MayCrash \/ \A d \in Drivers :
                         trips'[t].driver = d => d \in Backed'[t] \/ trips[t].driver = d
      BY <2>2
    <2> HIDE DEF t
    <2> QED BY <1>1, <1>3, <1>12, <1>15, <2>1, <2>3, RowChange
  <1>17. Known(req'[s], trips, offers, Backed)
    BY <1>11, <1>12, KnownRemaining
  <1>18. req'[s] \in Request /\ LocalsOK(req'[s])
    BY DEF IInv, TypeOK
  <1>19. Known(req'[s], trips', offers', Backed')
    BY <1>16, <1>17, <1>18, KnownGrows
  <1> QED BY <1>12, <1>16, <1>19, OneSlot

LEMMA CommitPaymentKnown ==
  ASSUME IInv, IInv', OfferInv, NEW s \in Slots, CommitPayment(s)
  PROVE  OfferInv'
  <1> DEFINE t == req[s].trip
             row == [trips[t] EXCEPT !.status = "CLOSED"]
             u == [req[s] EXCEPT !.todo = Tail(@)]
  <1>1. /\ At(s, "commit") /\ UNCHANGED offers /\ Become(s, u)
        /\ trips' = [trips EXCEPT ![t].status = "CLOSED"] /\ ~At(s, "manualOffer")
        /\ req[s].todo # <<>> /\ Head(req[s].todo) = "commit"
    BY DEF CommitPayment, Proceed, At
  <1>2. /\ req[s] \in Request /\ Known(req[s], trips, offers, Backed) /\ ReqOK
        /\ trips \in [Trips -> TripRow]
    BY DEF IInv, TypeOK, OfferInv, ReqOK
  <1>3. t \in Trips
    BY <1>1, <1>2, TripAt
  <1>4. /\ row.status # None /\ row.category = trips[t].category
        /\ row.driver = trips[t].driver
        /\ trips'[t] = row /\ \A w \in Trips \ {t} : trips'[w] = trips[w]
    BY <1>1, <1>2, <1>3 DEF TripRow
  <1>5. Known(u, trips, offers, Backed)
    BY <1>1, <1>2, KnownTail
  <1> HIDE DEF row, u
  <1>6. req'[s] = Remaining(u) /\ \A q \in Slots \ {s} : req'[q] = req[q]
    BY <1>1, <1>2 DEF Become, ReqOK
  <1>7. /\ Grown(trips, offers, Backed, trips', offers', Backed')
        /\ TablesAgree(trips', offers', Backed')
    BY <1>1, <1>3, <1>4, <1>6, RowChange
  <1>8. Known(req'[s], trips, offers, Backed)
    BY <1>5, <1>6, KnownRemaining
  <1>9. req'[s] \in Request /\ LocalsOK(req'[s])
    BY DEF IInv, TypeOK
  <1>10. Known(req'[s], trips', offers', Backed')
    BY <1>7, <1>8, <1>9, KnownGrows
  <1> QED BY <1>6, <1>7, <1>10, OneSlot

\* The trip is loaded: from here on it is known not to be FORANEO, and the copy
\* has no driver.
LEMMA LoadForDispatchKnown ==
  ASSUME IInv, IInv', OfferInv, NEW s \in Slots, LoadForDispatch(s)
  PROVE  OfferInv'
  <1> DEFINE r == req[s]
             row == trips[r.trip]
             e == WithoutDriver(row)
             u == [r EXCEPT !.todo = Tail(@)]
             v == [r EXCEPT !.todo = <<"rank">> \o Tail(@), !.from = row.status, !.mem = e]
  <1>1. /\ At(s, "load") /\ UNCHANGED <<trips, offers>> /\ ~At(s, "manualOffer")
        /\ r.todo # <<>> /\ Head(r.todo) = "load"
    BY DEF LoadForDispatch, At, tables
  <1>2. r \in Request /\ LocalsOK(r) /\ Known(r, trips, offers, Backed) /\ ReqOK
    BY DEF IInv, TypeOK, OfferInv, ReqOK
  <1>3. r.trip \in Trips
    BY <1>1, <1>2, TripAt
  <1>4. CASE Return(s)
    BY <1>1, <1>4, ProceedKnown
  <1>5. CASE MayDispatch(row) /\ Become(s, v)
    <2>1. row.category # "FORANEO" /\ row.status # None
      BY <1>5 DEF MayDispatch, ASSIGNABLE_STATES
    <2>2. e.driver = Unloaded /\ e.status # None
      BY <1>3, <2>1 DEF WithoutDriver, IInv, TypeOK, TripRow
    <2>3. Known(u, trips, offers, Backed)
      BY <1>1, <1>2, KnownTail
    <2>4. Tail(r.todo) \in Seq(Stage) /\ <<"rank">> \in Seq(Stage)
      <3>1. r.todo \in Seq(Stage) /\ "rank" \in Stage
        BY <1>2 DEF Request, Stage
      <3> QED BY <1>1, <3>1
    <2>5. /\ v.todo = <<"rank">> \o Tail(r.todo) /\ u.todo = Tail(r.todo)
          /\ v.trip = r.trip /\ u.trip = r.trip /\ v.mem = e
          /\ v.offer = u.offer /\ v.response = u.response
      BY <1>2 DEF Request
    <2> HIDE DEF u, v, e
    <2>6. \A j \in DOMAIN v.todo :
            v.todo[j] = "rank" \/ (j - 1 \in DOMAIN u.todo /\ v.todo[j] = u.todo[j - 1])
      BY <2>4, <2>5
    <2>7. ASSUME NEW j \in DOMAIN v.todo PROVE KnownAt(v, j, trips, offers, Backed)
      <3>1. CASE v.todo[j] = "rank"
        BY <2>1, <2>2, <2>5, <3>1 DEF KnownAt
      <3>2. CASE j - 1 \in DOMAIN u.todo /\ v.todo[j] = u.todo[j - 1]
        <4>1. KnownAt(u, j - 1, trips, offers, Backed)
          BY <2>3, <3>2 DEF Known
        <4> QED BY <2>1, <2>2, <2>5, <3>2, <4>1 DEF KnownAt
      <3> QED BY <2>6, <3>1, <3>2
    <2>8. Known(v, trips, offers, Backed)
      BY <2>1, <2>5, <2>7 DEF Known
    <2> QED BY <1>1, <1>5, <2>8, BecomeKnown
  <1> QED BY <1>4, <1>5 DEF LoadForDispatch

\* A candidate was found: its copy of the trip is saved and the offer made.
LEMMA RankCandidatesKnown ==
  ASSUME IInv, IInv', OfferInv, NEW s \in Slots, RankCandidates(s)
  PROVE  OfferInv'
  <1> DEFINE r == req[s]
             u == [r EXCEPT !.todo = Tail(@)]
  <1>1. /\ At(s, "rank") /\ UNCHANGED <<trips, offers>> /\ ~At(s, "manualOffer")
        /\ r.todo # <<>> /\ Head(r.todo) = "rank"
    BY DEF RankCandidates, At, tables
  <1>2. r \in Request /\ LocalsOK(r) /\ Known(r, trips, offers, Backed) /\ ReqOK
    BY DEF IInv, TypeOK, OfferInv, ReqOK
  <1>3. CASE Proceed(s)
    BY <1>1, <1>3, ProceedKnown
  <1>4. ASSUME NEW top \in Eligible(r.trip),
               Become(s, [r EXCEPT !.todo = <<"save", "offer", "event">> \o Tail(@),
                                   !.driver = top, !.mem.status = "SEARCHING_DRIVER"])
        PROVE  OfferInv'
    <2> DEFINE v == [r EXCEPT !.todo = <<"save", "offer", "event">> \o Tail(@),
                              !.driver = top, !.mem.status = "SEARCHING_DRIVER"]
    <2>1. r.todo \in Seq(Stage) /\ 1 \in DOMAIN r.todo /\ r.todo[1] = "rank"
      BY <1>1, <1>2 DEF Request
    <2>2. KnownAt(r, 1, trips, offers, Backed)
      BY <1>2, <2>1 DEF Known
    <2>3. r.mem.driver = Unloaded /\ trips[r.trip].category # "FORANEO"
      BY <2>1, <2>2 DEF KnownAt
    <2>4. Known(u, trips, offers, Backed)
      BY <1>1, <1>2, KnownTail
    <2>5. Tail(r.todo) \in Seq(Stage) /\ <<"save", "offer", "event">> \in Seq(Stage)
      BY <2>1 DEF Stage
    <2>6. /\ v.todo = <<"save", "offer", "event">> \o Tail(r.todo) /\ u.todo = Tail(r.todo)
          /\ v.trip = r.trip /\ u.trip = r.trip /\ v.offer = u.offer /\ v.response = u.response
          /\ v.mem.driver = Unloaded /\ v.mem.status = "SEARCHING_DRIVER"
      BY <1>2, <2>3 DEF Request, TripEntity
    <2>7. Become(s, v)
      BY <1>4
    <2> HIDE DEF u, v
    <2>8. \A j \in DOMAIN v.todo :
            \/ v.todo[j] \in {"save", "offer", "event"}
            \/ j - 3 \in DOMAIN u.todo /\ v.todo[j] = u.todo[j - 3]
      BY <2>5, <2>6
    <2>9. ASSUME NEW j \in DOMAIN v.todo PROVE KnownAt(v, j, trips, offers, Backed)
      <3>1. CASE v.todo[j] \in {"save", "offer", "event"}
        BY <2>3, <2>6, <3>1 DEF KnownAt
      <3>2. CASE j - 3 \in DOMAIN u.todo /\ v.todo[j] = u.todo[j - 3]
        <4>1. KnownAt(u, j - 3, trips, offers, Backed)
          BY <2>4, <3>2 DEF Known
        <4> QED BY <2>3, <2>6, <3>2, <4>1 DEF KnownAt
      <3> QED BY <2>8, <3>1, <3>2
    <2>10. Known(v, trips, offers, Backed)
      BY <2>4, <2>6, <2>9 DEF Known
    <2> QED BY <1>1, <2>7, <2>10, BecomeKnown
  <1> QED BY <1>3, <1>4 DEF RankCandidates

\* An offer is appended.
LEMMA InsertKnown ==
  ASSUME IInv, IInv', OfferInv, NEW s \in Slots, InsertOffer(s) \/ InsertManualOffer(s)
  PROVE  OfferInv'
  <1> DEFINE r == req[s]
             u == [r EXCEPT !.todo = Tail(@)]
  <1>1. PICK row :
          /\ UNCHANGED trips /\ offers' = Append(offers, row) /\ Become(s, u)
          /\ row.trip = r.trip /\ row.driver = r.driver
          /\ \/ At(s, "offer") /\ ~row.manual
             \/ At(s, "manualOffer") /\ row.manual /\ row.response # None
    <2>1. CASE InsertOffer(s)
      <3> DEFINE row == [trip |-> r.trip, driver |-> r.driver, manual |-> FALSE,
                         response |-> None]
      <3>1. UNCHANGED trips /\ offers' = Append(offers, row) /\ Become(s, u) /\ At(s, "offer")
        BY <2>1 DEF InsertOffer, Proceed
      <3>2. row.trip = r.trip /\ row.driver = r.driver /\ ~row.manual
        OBVIOUS
      <3> HIDE DEF row
      <3> QED BY <3>1, <3>2
    <2>2. CASE InsertManualOffer(s)
      <3> DEFINE row == [trip |-> r.trip, driver |-> r.driver, manual |-> TRUE,
                         response |-> "ACCEPTED"]
      <3>1. /\ UNCHANGED trips /\ offers' = Append(offers, row) /\ Become(s, u)
            /\ At(s, "manualOffer")
        BY <2>2 DEF InsertManualOffer, Proceed
      <3>2. row.trip = r.trip /\ row.driver = r.driver /\ row.manual /\ row.response # None
        OBVIOUS
      <3> HIDE DEF row
      <3> QED BY <3>1, <3>2
    <2> QED BY <2>1, <2>2
  <1>2. r \in Request /\ LocalsOK(r) /\ Known(r, trips, offers, Backed) /\ ReqOK
    BY DEF IInv, TypeOK, OfferInv, ReqOK
  <1>3. r.trip \in Trips /\ trips[r.trip].status # None
    BY <1>1, <1>2, TripAt DEF Known
  <1>4. r.todo # <<>> /\ Head(r.todo) \in {"offer", "manualOffer"}
    BY <1>1 DEF At
  <1>5. ~row.manual => trips[r.trip].category # "FORANEO"
    <2>1. r.todo \in Seq(Stage)
      BY <1>2 DEF Request
    <2>2. 1 \in DOMAIN r.todo /\ r.todo[1] = Head(r.todo)
      BY <1>4, <2>1
    <2>3. KnownAt(r, 1, trips, offers, Backed)
      BY <1>2, <2>2 DEF Known
    <2> QED BY <1>1, <2>2, <2>3 DEF KnownAt, At
  <1>6. Known(u, trips, offers, Backed)
    BY <1>2, <1>4, KnownTail
  <1> HIDE DEF u
  <1>7. req'[s] = Remaining(u) /\ \A q \in Slots \ {s} : req'[q] = req[q]
    BY <1>1, <1>2 DEF Become, ReqOK
  <1>8. offers \in Seq(OfferRow)
    BY DEF IInv, TypeOK
  <1>9. /\ DOMAIN offers' = DOMAIN offers \cup {Len(offers) + 1}
        /\ \A i \in DOMAIN offers : offers'[i] = offers[i]
        /\ offers'[Len(offers) + 1] = row
    BY <1>1, <1>8
  <1>10. \A t \in Trips : Backed[t] \subseteq Backed'[t]
    <2>1. \/ ~At(s, "manualOffer")
          \/ \E i \in DOMAIN offers' : /\ offers'[i].trip = r.trip
                                       /\ offers'[i].driver = r.driver
                                       /\ offers'[i].response # None
      BY <1>1, <1>9 DEF At
    <2> QED BY <1>7, <1>9, <2>1, BackedGrows
  <1>11. Grown(trips, offers, Backed, trips', offers', Backed')
    BY <1>1, <1>9, <1>10 DEF Grown
  <1>12. TablesAgree(trips', offers', Backed')
    BY <1>1, <1>3, <1>5, <1>9, <1>10 DEF OfferInv, TablesAgree
  <1>13. Known(req'[s], trips, offers, Backed)
    BY <1>6, <1>7, KnownRemaining
  <1>14. req'[s] \in Request /\ LocalsOK(req'[s])
    BY DEF IInv, TypeOK
  <1>15. Known(req'[s], trips', offers', Backed')
    BY <1>11, <1>13, <1>14, KnownGrows
  <1> QED BY <1>7, <1>11, <1>12, <1>15, OneSlot

\* An answer is stored: its driver is backed from here on.
LEMMA SaveAnswerKnown ==
  ASSUME IInv, IInv', OfferInv, NEW s \in Slots, SaveAnswer(s)
  PROVE  OfferInv'
  <1> DEFINE r == req[s]
             u == [r EXCEPT !.todo = Tail(@)]
  <1>1. /\ At(s, "answer") /\ UNCHANGED trips /\ Become(s, u) /\ ~At(s, "manualOffer")
        /\ offers' = [offers EXCEPT ![r.offer].response = r.response]
        /\ r.todo # <<>> /\ Head(r.todo) = "answer"
    BY DEF SaveAnswer, Proceed, At
  <1>2. r \in Request /\ LocalsOK(r) /\ Known(r, trips, offers, Backed) /\ ReqOK
    BY DEF IInv, TypeOK, OfferInv, ReqOK
  <1>3. r.trip \in Trips /\ r.todo \in Seq(Stage)
    BY <1>1, <1>2, TripAt DEF Request
  <1>4. r.response # None /\ r.offer \in DOMAIN offers /\ offers[r.offer].trip = r.trip
    <2>1. 1 \in DOMAIN r.todo /\ r.todo[1] = "answer"
      BY <1>1, <1>3
    <2>2. KnownAt(r, 1, trips, offers, Backed)
      BY <1>2, <2>1 DEF Known
    <2> QED BY <2>1, <2>2 DEF KnownAt
  <1>5. /\ DOMAIN offers' = DOMAIN offers
        /\ \A i \in DOMAIN offers \ {r.offer} : offers'[i] = offers[i]
        /\ offers'[r.offer] = [offers[r.offer] EXCEPT !.response = r.response]
    BY <1>1, <1>4
  <1>6. offers[r.offer] \in OfferRow /\ offers[r.offer].driver \in Drivers
    BY <1>4, OfferAt
  <1>7. \A i \in DOMAIN offers :
          /\ offers'[i].trip = offers[i].trip /\ offers'[i].driver = offers[i].driver
          /\ offers'[i].manual = offers[i].manual
          /\ offers'[i].response = offers[i].response \/ offers'[i].response = r.response
    BY <1>5, <1>6 DEF OfferRow
  <1>8. offers'[r.offer].response # None
    BY <1>4, <1>5, <1>6 DEF OfferRow
  <1> HIDE DEF u
  <1>9. req'[s] = Remaining(u) /\ \A q \in Slots \ {s} : req'[q] = req[q]
    BY <1>1, <1>2 DEF Become, ReqOK
  <1>10. \A t \in Trips : Backed[t] \subseteq Backed'[t]
    BY <1>1, <1>4, <1>5, <1>7, <1>9, BackedGrows
  <1>11. Grown(trips, offers, Backed, trips', offers', Backed')
    BY <1>1, <1>5, <1>7, <1>10 DEF Grown
  <1>12. TablesAgree(trips', offers', Backed')
    <2>1. trips' = trips /\ DOMAIN offers' = DOMAIN offers
      BY <1>1, <1>5
    <2>2. TablesAgree(trips, offers, Backed)
      BY DEF OfferInv
    <2>3. ASSUME NEW i \in DOMAIN offers'
          PROVE  /\ trips'[offers'[i].trip].status # None
                 /\ ~offers'[i].manual => trips'[offers'[i].trip].category # "FORANEO"
      BY <1>7, <2>1, <2>2, <2>3 DEF TablesAgree
    <2>4. MayCrash \/ \A t \in Trips, d \in Drivers : trips'[t].driver = d => d \in Backed'[t]
      BY <1>10, <2>1, <2>2 DEF TablesAgree
    <2> QED BY <2>3, <2>4 DEF TablesAgree
  <1>13. \A d \in Drivers : offers'[r.offer].driver = d => d \in Backed'[r.trip]
    <2> SUFFICES ASSUME NEW d \in Drivers, offers'[r.offer].driver = d
                 PROVE  d \in Backed'[r.trip]
      OBVIOUS
    <2>1. \E i \in DOMAIN offers' : /\ offers'[i].trip = r.trip /\ offers'[i].driver = d
                                   /\ offers'[i].response # None
      BY <1>4, <1>5, <1>7, <1>8
    <2>2. PICK t \in Trips : t = r.trip
      BY <1>3
    <2> HIDE DEF r
    <2> QED BY <2>1, <2>2, BackedIs
  <1>14. Known(r, trips', offers', Backed')
    BY <1>2, <1>11, KnownGrows
  <1>15. Known(u, trips', offers', Backed')
    BY <1>1, <1>2, <1>13, <1>14, KnownTail DEF u
  <1>16. Known(req'[s], trips', offers', Backed')
    BY <1>9, <1>15, KnownRemaining
  <1> QED BY <1>9, <1>11, <1>12, <1>16, OneSlot

\* The expiry job takes the next offer of its list.
LEMMA NextOfferKnown ==
  ASSUME IInv, IInv', OfferInv, NEW s \in Slots, NEW i, SkipOffer(s, i) \/ ExpireOffer(s, i)
  PROVE  OfferInv'
  <1> DEFINE r == req[s]
             v == [r EXCEPT !.queue = @ \ {i}]
             w == [NoRequest EXCEPT !.todo = <<"answer", "load", "next">>,
                                    !.queue = r.queue \ {i}, !.trip = offers[i].trip,
                                    !.offer = i, !.response = "EXPIRED"]
  <1>1. /\ At(s, "next") /\ ~At(s, "manualOffer") /\ UNCHANGED <<trips, offers>>
        /\ Become(s, v) \/ (i \in DOMAIN offers /\ Become(s, w))
    BY DEF SkipOffer, ExpireOffer, At, tables
  <1>2. r \in Request /\ Known(r, trips, offers, Backed)
    BY DEF IInv, TypeOK, OfferInv
  <1>3. /\ v.todo = r.todo /\ v.trip = r.trip /\ v.mem = r.mem /\ v.driver = r.driver
        /\ v.offer = r.offer /\ v.response = r.response
    BY <1>2 DEF Request
  <1>4. /\ w.todo = <<"answer", "load", "next">> /\ w.trip = offers[i].trip
        /\ w.offer = i /\ w.response = "EXPIRED"
    BY DEF NoRequest
  <1> HIDE DEF v, w
  <1>5. CASE Become(s, v)
    <2>1. Known(v, trips, offers, Backed)
      BY <1>2, <1>3, KnownSame
    <2> QED BY <1>1, <1>5, <2>1, BecomeKnown
  <1>6. CASE i \in DOMAIN offers /\ Become(s, w)
    <2>1. trips[offers[i].trip].status # None
      BY <1>6 DEF OfferInv, TablesAgree
    <2>2. Known(w, trips, offers, Backed)
      BY <1>4, <1>6, <2>1 DEF Known, KnownAt
    <2> QED BY <1>1, <1>6, <2>2, BecomeKnown
  <1> QED BY <1>1, <1>5, <1>6
-----------------------------------------------------------------------------
(* The theorems. *)

LEMMA OfferInit == Init => OfferInv
  <1> SUFFICES ASSUME Init PROVE OfferInv
    OBVIOUS
  <1>1. \A s \in Slots : Known(req[s], trips, offers, Backed)
    BY KnownNothing DEF Init
  <1>2. TablesAgree(trips, offers, Backed)
    BY DEF Init, TablesAgree, NoRow
  <1> QED BY <1>1, <1>2 DEF OfferInv

LEMMA OfferNext == IInv /\ OfferInv /\ [Next]_vars => OfferInv'
  <1> SUFFICES ASSUME IInv, OfferInv, [Next]_vars PROVE OfferInv'
    OBVIOUS
  <1>1. IInv'
    BY NextTypes
  <1>2. CASE UNCHANGED <<trips, offers, req>>
    <2>1. Backed' = Backed
      BY <1>2 DEF Backed, At, Pending
    <2> QED BY <1>2, <2>1 DEF OfferInv
  <1>3. CASE UNCHANGED vars
    BY <1>2, <1>3 DEF vars, tables
  <1>4. CASE \E d \in Drivers : EndAssignment(d)
    BY <1>2, <1>4 DEF EndAssignment
  <1>5. CASE Crash
    <2>1. MayCrash /\ req' = [s \in Slots |-> NoRequest] /\ UNCHANGED <<trips, offers>>
      BY <1>5 DEF Crash, tables
    <2>2. \A s \in Slots : Known(req'[s], trips', offers', Backed')
      BY <2>1, KnownNothing
    <2>3. TablesAgree(trips', offers', Backed')
      BY <2>1 DEF OfferInv, TablesAgree
    <2> QED BY <2>2, <2>3 DEF OfferInv
  <1>6. ASSUME NEW s \in Slots, Arrival(s) PROVE OfferInv'
    <2>1. ASSUME NEW t \in Trips,
                 \/ Create(s, t) \/ Review(s, t) \/ Arrive(s, t) \/ Start(s, t)
                 \/ Complete(s, t) \/ Cancel(s, t) \/ ConfirmPayment(s, t)
                 \/ Rate(s, t) \/ StartDispatch(s, t)
          PROVE  OfferInv'
      BY <1>1, <2>1, CreateKnown, TripRequestKnown, StartDispatchKnown
    <2>2. ASSUME NEW t \in Trips, NEW d \in Drivers, ManualAssign(s, t, d) PROVE OfferInv'
      BY <1>1, <2>2, ManualAssignKnown
    <2>3. ASSUME NEW i \in DOMAIN offers, Accept(s, i) \/ Reject(s, i) PROVE OfferInv'
      BY <1>1, <2>3, AcceptKnown, RejectKnown
    <2> QED BY <1>1, <1>6, <2>1, <2>2, <2>3, TriplessKnown DEF Arrival
  <1>7. ASSUME NEW s \in Slots, Step(s) PROVE OfferInv'
    BY <1>1, <1>7, QuietStepKnown, CompareTripKnown, WriteTripKnown, CommitPaymentKnown,
       LoadForDispatchKnown, RankCandidatesKnown, InsertKnown, SaveAnswerKnown,
       CompareProfileKnown, NextOfferKnown
    DEF Step
  <1> QED BY <1>3, <1>4, <1>5, <1>6, <1>7 DEF Next

\* A FORANEO trip is never offered automatically, whatever interleaves with
\* its review and its dispatch, and whenever the process dies.
\* (startDispatch, review)
THEOREM ForaneoNeverOffered == Spec => []ForaneoByHand
  <1>1. OfferInv => ForaneoByHand
    BY DEF OfferInv, TablesAgree, ForaneoByHand
  <1> QED BY <1>1, LocalsCorrect, OfferInit, OfferNext, PTL DEF Spec

\* As long as the process does not die, nobody comes to drive a trip without
\* an answered offer of it: however stale the copy of the trip a handler
\* saves, the driver in it was asked. (respondToOffer, manualAssign)
THEOREM NobodyDrivesUnasked ==
  ASSUME ~MayCrash
  PROVE  Spec => []DriverWasOffered
  <1>1. OfferInv => DriverWasOffered
    <2> SUFFICES ASSUME OfferInv, NEW t \in Trips, NEW d \in Drivers, trips[t].driver = d
                 PROVE  \/ \E i \in DOMAIN offers :
                             offers[i].trip = t /\ offers[i].driver = d /\ ~Pending(i)
                        \/ \E s \in Slots :
                             At(s, "manualOffer") /\ req[s].trip = t /\ req[s].driver = d
      BY DEF DriverWasOffered
    <2>1. d \in Backed[t]
      BY DEF OfferInv, TablesAgree
    <2> QED BY <2>1 DEF Backed
  <1> QED BY <1>1, LocalsCorrect, OfferInit, OfferNext, PTL DEF Spec
=============================================================================
