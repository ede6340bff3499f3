----------------------------- MODULE TaxiProofs -----------------------------
(***************************************************************************)
(* Proofs about Taxi, for any number of trips, drivers and slots.          *)
(***************************************************************************)
EXTENDS Taxi, SumLemmas, TLAPS

USE StoreAssumption DEF None, NoFare
-----------------------------------------------------------------------------
(* Requests. *)

\* A request whose fields have their types and agree with one another.
Good(r) == r \in Request /\ LocalsOK(r)

\* A good request that does not hold the lock of a payment.
Outside(r) == Good(r) /\ (r.todo = <<>> \/ Head(r.todo) # "commit")

LEMMA NoRequestGood == Good(NoRequest)
  BY DEF Good, LocalsOK, NoRequest, Request, TripEntity, NoRow, ServiceCategory, ProfileCopy,
         NoProfile, Tripless

\* The expiry job between two offers of its list.
LEMMA PassGood ==
  ASSUME NEW q \in SUBSET Nat
  PROVE  Outside([NoRequest EXCEPT !.todo = <<"next">>, !.queue = q])
  <1>1. <<"next">> \in Seq(Stage)
    BY DEF Stage
  <1>2. [NoRequest EXCEPT !.todo = <<"next">>, !.queue = q] \in Request
    BY NoRequestGood, <1>1 DEF NoRequest, Request, Good
  <1>3. LocalsOK([NoRequest EXCEPT !.todo = <<"next">>, !.queue = q])
    BY DEF LocalsOK, NoRequest, NamesDriver, Tripless
  <1> QED BY <1>2, <1>3 DEF Outside, Good, NoRequest

LEMMA RemainingGood ==
  ASSUME NEW r, Good(r)
  PROVE  Good(Remaining(r))
  <1>1. r.queue \in SUBSET Nat
    BY DEF Good, Request
  <1> QED BY <1>1, PassGood, NoRequestGood DEF Remaining, Outside

\* Taking the next await off the list keeps a request good, unless a save is
\* under way.
LEMMA TailGood ==
  ASSUME NEW r, Good(r), r.todo # <<>>, ~r.saving
  PROVE  Good([r EXCEPT !.todo = Tail(@)])
  <1> DEFINE u == [r EXCEPT !.todo = Tail(@)]
  <1>1. r.todo \in Seq(Stage) /\ Tail(r.todo) \in Seq(Stage)
    BY DEF Good, Request
  <1>2. u \in Request
    BY <1>1 DEF Good, Request
  <1>3. /\ u.todo = Tail(r.todo) /\ u.trip = r.trip /\ u.driver = r.driver
        /\ u.saving = r.saving /\ u.dirty = r.dirty /\ u.mem = r.mem
    BY DEF Good, Request
  <1>4. u.trip = NoTrip => u.todo \in Tripless
    <2>1. /\ Tail(<<"next">>) = <<>> /\ Tail(<<"writeProfile">>) = <<>>
          /\ Tail(<<"compareProfile", "writeProfile">>) = <<"writeProfile">>
      OBVIOUS
    <2> HIDE DEF u
    <2> QED BY <1>3, <2>1 DEF Good, LocalsOK, Tripless
  <1>5. \A i \in DOMAIN u.todo : u.todo[i] = r.todo[i + 1] /\ i + 1 \in DOMAIN r.todo
    BY <1>1, <1>3
  <1>6. \A i \in DOMAIN u.todo : u.todo[i] \in NamesDriver => u.driver \in Drivers
    BY <1>3, <1>5 DEF Good, LocalsOK
  <1>7. ASSUME NEW i \in DOMAIN u.todo, u.todo[i] = "commit", i > 1
        PROVE  u.todo[i - 1] = "lock"
    <2>1. r.todo[i + 1] = "commit" /\ i + 1 \in DOMAIN r.todo /\ i + 1 > 1
      BY <1>1, <1>5, <1>7
    <2>2. r.todo[i] = "lock"
      BY <1>1, <2>1 DEF Good, LocalsOK
    <2>3. i - 1 \in DOMAIN u.todo
      BY <1>1, <1>3, <1>7
    <2>4. u.todo[i - 1] = r.todo[i - 1 + 1]
      BY <1>5, <2>3
    <2>5. i - 1 + 1 = i
      BY <1>1, <1>3, <1>7
    <2> QED BY <2>2, <2>4, <2>5
  <1> QED BY <1>2, <1>3, <1>4, <1>6, <1>7 DEF Good, LocalsOK

\* Putting awaits that name no driver the request lacks before the tail.
LEMMA PrefixGood ==
  ASSUME NEW r, Good(r), r.todo # <<>>, Head(r.todo) # "lock", ~r.saving,
         NEW p \in Seq(Stage), p # <<>>, "commit" \notin {p[i] : i \in DOMAIN p},
         NEW d \in Drivers \cup {NoDriver}, NEW mem \in TripEntity,
         NEW from \in TripStatus \cup {None},
         r.trip # NoTrip,
         d \in Drivers \/ (d = r.driver /\ \A i \in DOMAIN p : p[i] \notin NamesDriver)
  PROVE  Outside([r EXCEPT !.todo = p \o Tail(@), !.driver = d, !.mem = mem, !.from = from])
  <1> DEFINE u == [r EXCEPT !.todo = p \o Tail(@), !.driver = d, !.mem = mem, !.from = from]
             v == [r EXCEPT !.todo = Tail(@)]
  <1>1. Good(v)
    BY TailGood
  <1>2. /\ r.todo \in Seq(Stage) /\ Tail(r.todo) \in Seq(Stage)
        /\ p \o Tail(r.todo) \in Seq(Stage)
    BY DEF Good, Request
  <1>3. u \in Request
    BY <1>2 DEF Good, Request
  <1>4. /\ u.todo = p \o Tail(r.todo) /\ v.todo = Tail(r.todo)
        /\ u.trip = r.trip /\ u.driver = d /\ v.driver = r.driver
        /\ u.saving = r.saving /\ u.dirty = r.dirty
    BY DEF Good, Request
  <1>5. Len(Tail(r.todo)) \in Nat
    BY <1>2
  <1> HIDE DEF u, v
  <1>6. \A i \in DOMAIN u.todo :
          \/ i \in DOMAIN p /\ u.todo[i] = p[i]
          \/ /\ i - Len(p) \in DOMAIN v.todo /\ u.todo[i] = v.todo[i - Len(p)]
             /\ i - Len(p) + 1 \in DOMAIN r.todo /\ u.todo[i] = r.todo[i - Len(p) + 1]
    BY <1>2, <1>4
  <1>7. \A i \in DOMAIN u.todo : u.todo[i] \in NamesDriver => u.driver \in Drivers
    BY <1>1, <1>4, <1>6 DEF Good, LocalsOK
  <1>8. ASSUME NEW i \in DOMAIN u.todo, u.todo[i] = "commit", i > 1
        PROVE  u.todo[i - 1] = "lock"
    <2> DEFINE k == i - Len(p)
    <2>1. DOMAIN u.todo = 1..(Len(p) + Len(Tail(r.todo))) /\ Len(p) \in Nat
      BY <1>2, <1>4
    <2>2. i \in Nat /\ i - 1 \in DOMAIN u.todo
      BY <1>8, <1>5, <2>1
    <2>3. ~(i \in DOMAIN p /\ u.todo[i] = p[i])
      BY <1>8
    <2>4. /\ k \in DOMAIN v.todo /\ u.todo[i] = v.todo[k]
          /\ k + 1 \in DOMAIN r.todo /\ u.todo[i] = r.todo[k + 1]
      BY <1>6, <2>3
    <2>5. k \in Nat \ {0} /\ k = i - Len(p)
      BY <1>2, <1>4, <2>4
    <2> HIDE DEF k
    <2>6. k # 1
      <3> SUFFICES ASSUME k = 1 PROVE FALSE
        OBVIOUS
      <3>1. r.todo[k + 1] = "commit" /\ k + 1 > 1 /\ k + 1 \in DOMAIN r.todo
        BY <1>8, <2>4, <2>5
      <3>2. r.todo[k + 1 - 1] = "lock"
        BY <3>1 DEF Good, LocalsOK
      <3>3. k + 1 - 1 = 1
        OBVIOUS
      <3> QED BY <1>2, <3>2, <3>3
    <2>7. v.todo[k - 1] = "lock"
      <3>1. v.todo[k] = "commit" /\ k > 1 /\ k \in DOMAIN v.todo
        BY <1>8, <2>4, <2>5, <2>6
      <3> QED BY <1>1, <3>1 DEF Good, LocalsOK
    <2>8. u.todo[i - 1] = v.todo[i - 1 - Len(p)]
      BY <1>2, <1>4, <2>2, <2>5, <2>6
    <2>9. i - 1 - Len(p) = k - 1
      BY <2>1, <2>2, <2>5
    <2> QED BY <2>7, <2>8, <2>9
  <1>9. u.saving = FALSE /\ u.dirty = {}
    BY <1>4 DEF Good, LocalsOK, Request, u
  <1>10. Good(u)
    BY <1>3, <1>4, <1>7, <1>8, <1>9 DEF Good, LocalsOK, u
  <1>11. Head(u.todo) # "commit"
    <2>1. 1 \in DOMAIN p /\ Head(u.todo) = p[1]
      BY <1>2, <1>4
    <2> QED BY <2>1
  <1> QED BY <1>10, <1>11 DEF Outside, u

\* Every handler's locals are good.
ReqOK == req \in [Slots -> Request] /\ \A s \in Slots : LocalsOK(req[s])

LEMMA BecomeTyped ==
  ASSUME ReqOK, NEW s \in Slots, NEW r, Good(r), Become(s, r)
  PROVE  ReqOK' /\ req' = [req EXCEPT ![s] = Remaining(r)]
  <1>1. Good(Remaining(r))
    BY RemainingGood
  <1>2. req' = [req EXCEPT ![s] = Remaining(r)]
    BY DEF Become
  <1> QED BY <1>1, <1>2 DEF ReqOK, Good

\* The step of slot s leaves the other slots alone and s without a lock.
KeepsOutside(s) == /\ ~At(s, "commit")'
                   /\ \A q \in Slots \ {s} : req'[q] = req[q]

LEMMA BecomeGood ==
  ASSUME ReqOK, NEW s \in Slots, NEW r, Outside(r), Become(s, r)
  PROVE  ReqOK' /\ KeepsOutside(s)
  <1>1. Good(r) /\ ReqOK' /\ req' = [req EXCEPT ![s] = Remaining(r)]
    BY BecomeTyped DEF Outside
  <1>2. req'[s] = Remaining(r) /\ \A q \in Slots \ {s} : req'[q] = req[q]
    BY <1>1 DEF ReqOK
  <1>3. Remaining(r).todo = <<>> \/ Head(Remaining(r).todo) # "commit"
    BY DEF Remaining, NoRequest, Outside
  <1> QED BY <1>1, <1>2, <1>3 DEF KeepsOutside, At

LEMMA ReturnGood ==
  ASSUME ReqOK, NEW s \in Slots, Return(s)
  PROVE  ReqOK' /\ KeepsOutside(s)
  <1>1. Outside(NoRequest)
    BY NoRequestGood DEF Outside, NoRequest
  <1> QED BY <1>1, BecomeGood DEF Return

LEMMA TailOutside ==
  ASSUME NEW r, Good(r), r.todo # <<>>, ~r.saving, Head(r.todo) # "lock"
  PROVE  Outside([r EXCEPT !.todo = Tail(@)])
  <1> DEFINE u == [r EXCEPT !.todo = Tail(@)]
  <1>1. r.todo \in Seq(Stage)
    BY DEF Good, Request
  <1>2. Good(u) /\ u.todo = Tail(r.todo)
    BY <1>1, TailGood DEF Good, Request
  <1>3. ASSUME Tail(r.todo) # <<>>, Head(Tail(r.todo)) = "commit"
        PROVE  FALSE
    <2>1. PICK k \in DOMAIN r.todo : k = 2 /\ r.todo[k] = "commit"
      BY <1>1, <1>3
    <2>2. k > 1 /\ k - 1 = 1
      BY <2>1
    <2>3. r.todo[k - 1] = "lock"
      BY <2>1, <2>2 DEF Good, LocalsOK
    <2> QED BY <1>1, <2>2, <2>3
  <1> QED BY <1>2, <1>3 DEF Outside

LEMMA ProceedGood ==
  ASSUME ReqOK, NEW s \in Slots, ~Idle(s), ~req[s].saving, Head(req[s].todo) # "lock",
         Proceed(s)
  PROVE  ReqOK' /\ KeepsOutside(s)
  <1>1. Good(req[s])
    BY DEF ReqOK, Good
  <1>2. Outside([req[s] EXCEPT !.todo = Tail(@)])
    BY <1>1, TailOutside DEF Idle
  <1> QED BY <1>2, BecomeGood DEF Proceed

\* A list of awaits a new handler on a trip driven by d may start with.
StartsWith(todo, d) ==
  /\ todo \in Seq(Stage)
  /\ \A i \in DOMAIN todo : todo[i] \in NamesDriver => d \in Drivers
  /\ \A i \in DOMAIN todo : todo[i] = "commit" => i > 1 /\ todo[i - 1] = "lock"

LEMMA StartsConcat ==
  ASSUME NEW p, NEW q, NEW d, StartsWith(p, d), StartsWith(q, d)
  PROVE  StartsWith(p \o q, d)
  <1> DEFINE u == p \o q
  <1>1. /\ p \in Seq(Stage) /\ q \in Seq(Stage) /\ u \in Seq(Stage)
        /\ Len(p) \in Nat /\ Len(q) \in Nat
        /\ DOMAIN p = 1..Len(p) /\ DOMAIN q = 1..Len(q) /\ DOMAIN u = 1..(Len(p) + Len(q))
    BY DEF StartsWith
  <1>2. \A i \in DOMAIN u :
          \/ i \in DOMAIN p /\ u[i] = p[i]
          \/ i - Len(p) \in DOMAIN q /\ u[i] = q[i - Len(p)]
    BY <1>1
  <1> HIDE DEF u
  <1>3. \A i \in DOMAIN u : u[i] \in NamesDriver => d \in Drivers
    BY <1>2 DEF StartsWith
  <1>4. ASSUME NEW i \in DOMAIN u, u[i] = "commit"
        PROVE  i > 1 /\ u[i - 1] = "lock"
    <2>1. i \in Nat
      BY <1>1, <1>4
    <2>2. CASE i \in DOMAIN p /\ u[i] = p[i]
      <3>1. i > 1 /\ p[i - 1] = "lock"
        BY <1>4, <2>2 DEF StartsWith
      <3>2. u[i - 1] = p[i - 1]
        BY <1>1, <2>1, <2>2, <3>1 DEF u
      <3> QED BY <3>1, <3>2
    <2>3. CASE i - Len(p) \in DOMAIN q /\ u[i] = q[i - Len(p)]
      <3> DEFINE k == i - Len(p)
      <3>1. k \in DOMAIN q /\ q[k] = "commit" /\ k \in Nat
        BY <1>1, <1>4, <2>1, <2>3
      <3>2. k > 1 /\ q[k - 1] = "lock"
        <4> HIDE DEF k
        <4> QED BY <3>1 DEF StartsWith
      <3>3. i > 1 /\ u[i - 1] = q[i - 1 - Len(p)] /\ i - 1 - Len(p) = k - 1
        BY <1>1, <2>1, <3>1, <3>2 DEF u
      <3> QED BY <3>2, <3>3
    <2> QED BY <1>2, <2>2, <2>3
  <1>5. u \in Seq(Stage)
    BY <1>1
  <1> QED BY <1>3, <1>4, <1>5 DEF StartsWith, u

\* A new handler.
LEMMA NewGood ==
  ASSUME NEW r \in Request, StartsWith(r.todo, r.driver), r.trip \in Trips,
         r.saving = FALSE, r.dirty = {}
  PROVE  Outside(r)
  <1>1. Good(r)
    BY DEF Good, LocalsOK, StartsWith
  <1>2. r.todo # <<>> => 1 \in DOMAIN r.todo /\ Head(r.todo) = r.todo[1]
    BY DEF StartsWith
  <1>3. r.todo # <<>> => Head(r.todo) # "commit"
    BY <1>2 DEF StartsWith
  <1> QED BY <1>1, <1>3 DEF Outside

LEMMA EntityOfRow == TripRow \subseteq TripEntity
  BY DEF TripRow, TripEntity

LEMMA HandleGood ==
  ASSUME IInv, NEW s \in Slots, NEW t \in Trips, NEW e \in TripEntity, NEW todo,
         StartsWith(todo, trips[t].driver), Handle(s, t, e, todo)
  PROVE  ReqOK' /\ KeepsOutside(s)
  <1>1. trips[t] \in TripRow /\ ReqOK
    BY DEF IInv, TypeOK, ReqOK
  <1>2. trips[t].driver \in Drivers \cup {NoDriver} /\ trips[t].status \in TripStatus \cup {None}
    BY <1>1 DEF TripRow
  <1> DEFINE new == [NoRequest EXCEPT !.todo = todo, !.trip = t, !.driver = trips[t].driver,
                                      !.mem = e, !.from = trips[t].status]
  <1>3. /\ new.todo = todo /\ new.driver = trips[t].driver /\ new.trip = t
        /\ new.saving = FALSE /\ new.dirty = {}
    BY DEF NoRequest
  <1>4. new \in Request
    BY <1>2, NoRequestGood DEF NoRequest, Request, Good, StartsWith
  <1>5. Outside(new)
    BY <1>3, <1>4, NewGood
  <1> QED BY <1>1, <1>5, BecomeGood DEF Handle
-----------------------------------------------------------------------------
(* The type invariant: every step keeps the tables and the requests good. *)

TablesOK ==
  /\ trips \in [Trips -> TripRow]
  /\ offers \in Seq(OfferRow)
  /\ driverStatus \in [Drivers -> DriverStatus]
  /\ availableSince \in [Drivers -> Clock]
  /\ withVehicle \subseteq Drivers
  /\ payments \subseteq Payment
  /\ commissions \subseteq Commission
  /\ settlements \in [Drivers -> Settlement]
  /\ events \subseteq TripEvent
  /\ audits \subseteq Audit
  /\ ratings \in Seq(RatingRow)

LEMMA Parts == IInv <=> TablesOK /\ ReqOK
  BY DEF IInv, TypeOK, TablesOK, ReqOK

LEMMA PartsNext == IInv' <=> TablesOK' /\ ReqOK'
  BY DEF IInv, TypeOK, TablesOK, ReqOK

LEMMA TablesKept ==
  ASSUME TablesOK, UNCHANGED tables
  PROVE  TablesOK'
  BY DEF TablesOK, tables, profiles, ledger

\* The request in slot s, and what follows from the await it is at.
LEMMA RequestAt ==
  ASSUME ReqOK, NEW s \in Slots, ~Idle(s)
  PROVE  /\ Good(req[s])
         /\ req[s].todo \in Seq(Stage) /\ req[s].todo # <<>>
         /\ req[s].trip \in Trips \cup {NoTrip}
         /\ req[s].driver \in Drivers \cup {NoDriver}
         /\ req[s].mem \in TripEntity
         /\ req[s].from \in TripStatus \cup {None}
         /\ req[s].offer \in Nat /\ req[s].response \in Response \cup {None}
         /\ req[s].queue \in SUBSET Nat
         /\ req[s].trip = NoTrip => req[s].todo \in Tripless
         /\ Head(req[s].todo) \in NamesDriver => req[s].driver \in Drivers
         /\ req[s].saving => Head(req[s].todo) = "save"
  <1>1. Good(req[s]) /\ req[s].todo # <<>>
    BY DEF ReqOK, Good, Idle
  <1>2. req[s].todo \in Seq(Stage)
    BY <1>1 DEF Good, Request
  <1>3. 1 \in DOMAIN req[s].todo /\ Head(req[s].todo) = req[s].todo[1]
    BY <1>1, <1>2
  <1> QED BY <1>1, <1>2, <1>3 DEF Good, Request, LocalsOK

\* A handler is about a trip unless it is the expiry job between two offers or
\* a driver's change of status.
LEMMA TripAt ==
  ASSUME ReqOK, NEW s \in Slots, NEW stage, At(s, stage),
         stage \notin {"next", "compareProfile", "writeProfile"}
  PROVE  req[s].trip \in Trips
  BY RequestAt DEF At, Idle, Tripless

LEMMA ProceedFrom ==
  ASSUME ReqOK, NEW s \in Slots, NEW stage, At(s, stage), stage \notin {"save", "lock"}, Proceed(s)
  PROVE  ReqOK' /\ KeepsOutside(s)
  BY RequestAt, ProceedGood DEF At, Idle, ReqOK, Request

LEMMA StoredRow ==
  ASSUME TablesOK, NEW t \in Trips
  PROVE  /\ trips[t] \in TripRow /\ trips[t] \in TripEntity
         /\ trips[t].category \in ServiceCategory
         /\ trips[t].status \in TripStatus \cup {None}
         /\ trips[t].driver \in Drivers \cup {NoDriver}
         /\ trips[t].quotedFare \in Fares \cup {NoFare}
         /\ trips[t].finalFare \in Amounts \cup {NoFare}
         /\ trips[t].startedAt \in BOOLEAN
  BY EntityOfRow DEF TablesOK, TripRow
-----------------------------------------------------------------------------
(* TripsService. *)

LEMMA CreateStep ==
  ASSUME IInv, NEW s \in Slots, NEW t \in Trips, Create(s, t)
  PROVE  IInv' /\ KeepsOutside(s)
  <1>1. PICK category \in Categories, onBehalf \in Audited :
          LET row == [NoRow EXCEPT !.category = category,
                                   !.status = IF category = "FORANEO"
                                              THEN "PENDING_REVIEW" ELSE "QUOTED"]
          IN  /\ trips' = [trips EXCEPT ![t] = row]
              /\ Handle(s, t, row,
                   (IF onBehalf THEN <<"trip.create_on_behalf">> ELSE <<>>)
                     \o <<"event">>
                     \o (IF category = "FORANEO" THEN <<>> ELSE <<"load">>))
    BY DEF Create
  <1> DEFINE row == [NoRow EXCEPT !.category = category,
                                  !.status = IF category = "FORANEO"
                                             THEN "PENDING_REVIEW" ELSE "QUOTED"]
             todo == (IF onBehalf THEN <<"trip.create_on_behalf">> ELSE <<>>)
                       \o <<"event">>
                       \o (IF category = "FORANEO" THEN <<>> ELSE <<"load">>)
  <1>2. row \in TripRow /\ row \in TripEntity
    BY EntityOfRow DEF NoRow, TripRow, ServiceCategory, TripStatus
  <1>3. /\ StartsWith(<<>>, trips[t].driver) /\ StartsWith(<<"event">>, trips[t].driver)
        /\ StartsWith(<<"trip.create_on_behalf">>, trips[t].driver)
        /\ StartsWith(<<"load">>, trips[t].driver)
    BY DEF StartsWith, Stage, AuditAction, NamesDriver
  <1>4. StartsWith(todo, trips[t].driver)
    <2> DEFINE p == IF onBehalf THEN <<"trip.create_on_behalf">> ELSE <<>>
               q == IF category = "FORANEO" THEN <<>> ELSE <<"load">>
    <2>1. StartsWith(p, trips[t].driver) /\ StartsWith(q, trips[t].driver)
      BY <1>3
    <2> HIDE DEF p, q
    <2>2. StartsWith(p \o <<"event">>, trips[t].driver)
      BY <1>3, <2>1, StartsConcat
    <2>3. StartsWith(p \o <<"event">> \o q, trips[t].driver)
      BY <2>1, <2>2, StartsConcat
    <2> QED BY <2>3 DEF p, q
  <1>5. Handle(s, t, row, todo) /\ trips' = [trips EXCEPT ![t] = row]
    BY <1>1
  <1> HIDE DEF row, todo
  <1>6. ReqOK' /\ KeepsOutside(s)
    BY <1>2, <1>4, <1>5, HandleGood
  <1>7. TablesOK'
    BY <1>2, <1>5, Parts DEF Create, TablesOK, profiles, ledger
  <1> QED BY <1>6, <1>7, PartsNext

LEMMA ReviewStep ==
  ASSUME IInv, NEW s \in Slots, NEW t \in Trips, Review(s, t)
  PROVE  IInv' /\ KeepsOutside(s)
  <1>1. PICK fare \in Fares :
          Handle(s, t, [trips[t] EXCEPT !.quotedFare = fare, !.status = "QUOTED"],
                 <<"save", "event", "trip.foraneo_quoted">>)
    BY DEF Review
  <1>2. [trips[t] EXCEPT !.quotedFare = fare, !.status = "QUOTED"] \in TripEntity
    <2>1. trips[t] \in TripEntity
      BY Parts, StoredRow
    <2>2. "QUOTED" \in TripStatus
      BY DEF TripStatus
    <2> QED BY <2>1, <2>2 DEF TripEntity
  <1>3. StartsWith(<<"save", "event", "trip.foraneo_quoted">>, trips[t].driver)
    BY DEF StartsWith, Stage, AuditAction, NamesDriver
  <1> QED BY <1>1, <1>2, <1>3, HandleGood, Parts, PartsNext, TablesKept DEF Review

LEMMA ArriveStep ==
  ASSUME IInv, NEW s \in Slots, NEW t \in Trips, Arrive(s, t)
  PROVE  IInv' /\ KeepsOutside(s)
  <1>1. [trips[t] EXCEPT !.status = "DRIVER_ARRIVED"] \in TripEntity
    <2>1. trips[t] \in TripEntity
      BY Parts, StoredRow
    <2>2. "DRIVER_ARRIVED" \in TripStatus
      BY DEF TripStatus
    <2> QED BY <2>1, <2>2 DEF TripEntity
  <1>2. StartsWith(<<"save", "event">>, trips[t].driver)
    BY DEF StartsWith, Stage, NamesDriver
  <1> QED BY <1>1, <1>2, HandleGood, Parts, PartsNext, TablesKept DEF Arrive

LEMMA StartStep ==
  ASSUME IInv, NEW s \in Slots, NEW t \in Trips, Start(s, t)
  PROVE  IInv' /\ KeepsOutside(s)
  <1>1. [trips[t] EXCEPT !.status = "TRIP_IN_PROGRESS", !.startedAt = TRUE] \in TripEntity
    <2>1. trips[t] \in TripEntity
      BY Parts, StoredRow
    <2>2. "TRIP_IN_PROGRESS" \in TripStatus
      BY DEF TripStatus
    <2> QED BY <2>1, <2>2 DEF TripEntity
  <1>2. StartsWith(<<"save", "event">>, trips[t].driver)
    BY DEF StartsWith, Stage, NamesDriver
  <1> QED BY <1>1, <1>2, HandleGood, Parts, PartsNext, TablesKept DEF Start

LEMMA CompleteStep ==
  ASSUME IInv, NEW s \in Slots, NEW t \in Trips, Complete(s, t)
  PROVE  IInv' /\ KeepsOutside(s)
  <1>1. PICK fare \in FinalFares(trips[t]) :
          Handle(s, t, [trips[t] EXCEPT !.finalFare = fare, !.status = "PAYMENT_PENDING"],
                 <<"save", "event", "free">>)
    BY DEF Complete
  <1>2. fare \in Amounts
    BY Parts, StoredRow DEF FinalFares, Amounts
  <1>3. [trips[t] EXCEPT !.finalFare = fare, !.status = "PAYMENT_PENDING"] \in TripEntity
    <2>1. trips[t] \in TripEntity
      BY Parts, StoredRow
    <2>2. "PAYMENT_PENDING" \in TripStatus
      BY DEF TripStatus
    <2> QED BY <1>2, <2>1, <2>2 DEF TripEntity
  <1>4. trips[t].driver \in Drivers
    BY Parts, StoredRow DEF Complete, HasAssignedDriver
  <1>5. StartsWith(<<"save", "event", "free">>, trips[t].driver)
    BY <1>4 DEF StartsWith, Stage, NamesDriver
  <1> QED BY <1>1, <1>3, <1>5, HandleGood, Parts, PartsNext, TablesKept DEF Complete

LEMMA CancelStep ==
  ASSUME IInv, NEW s \in Slots, NEW t \in Trips, Cancel(s, t)
  PROVE  IInv' /\ KeepsOutside(s)
  <1> DEFINE todo == <<"save", "event">>
                       \o (IF trips[t].status \in ASSIGNED_STATES /\ HasAssignedDriver(t)
                           THEN <<"free">> ELSE <<>>)
  <1>1. PICK status \in Cancellations :
          Handle(s, t, [trips[t] EXCEPT !.status = status], todo)
    BY DEF Cancel
  <1>2. [trips[t] EXCEPT !.status = status] \in TripEntity
    BY Parts, StoredRow DEF TripEntity, TripStatus
  <1>3. HasAssignedDriver(t) => trips[t].driver \in Drivers
    BY Parts, StoredRow DEF HasAssignedDriver
  <1>4. StartsWith(todo, trips[t].driver)
    <2> DEFINE q == IF trips[t].status \in ASSIGNED_STATES /\ HasAssignedDriver(t)
                    THEN <<"free">> ELSE <<>>
    <2>1. StartsWith(<<"save", "event">>, trips[t].driver)
      BY DEF StartsWith, Stage, NamesDriver
    <2>2. ASSUME HasAssignedDriver(t)
          PROVE  StartsWith(<<"free">>, trips[t].driver)
      BY <1>3, <2>2 DEF StartsWith, Stage, NamesDriver
    <2>3. StartsWith(<<>>, trips[t].driver)
      BY DEF StartsWith
    <2>4. StartsWith(q, trips[t].driver)
      BY <2>2, <2>3
    <2> HIDE DEF q
    <2>5. StartsWith(<<"save", "event">> \o q, trips[t].driver)
      BY <2>1, <2>4, StartsConcat
    <2> QED BY <2>5 DEF q
  <1> HIDE DEF todo
  <1> QED BY <1>1, <1>2, <1>4, HandleGood, Parts, PartsNext, TablesKept DEF Cancel

LEMMA ConfirmPaymentStep ==
  ASSUME IInv, NEW s \in Slots, NEW t \in Trips, ConfirmPayment(s, t)
  PROVE  IInv' /\ KeepsOutside(s)
  <1>1. PICK mismatch \in Audited :
          Handle(s, t, trips[t],
                 (IF mismatch THEN <<"payment.amount_mismatch">> ELSE <<>>)
                   \o <<"lock", "commit">>)
    BY DEF ConfirmPayment
  <1> DEFINE todo == (IF mismatch THEN <<"payment.amount_mismatch">> ELSE <<>>)
                       \o <<"lock", "commit">>
  <1>2. trips[t].driver \in Drivers /\ trips[t] \in TripEntity
    BY Parts, StoredRow DEF ConfirmPayment, HasAssignedDriver
  <1>3. StartsWith(todo, trips[t].driver)
    <2> DEFINE p == IF mismatch THEN <<"payment.amount_mismatch">> ELSE <<>>
    <2>1. StartsWith(<<"lock", "commit">>, trips[t].driver)
      BY <1>2 DEF StartsWith, Stage, NamesDriver
    <2>2. /\ StartsWith(<<"payment.amount_mismatch">>, trips[t].driver)
          /\ StartsWith(<<>>, trips[t].driver)
      BY DEF StartsWith, Stage, NamesDriver, AuditAction
    <2>3. StartsWith(p, trips[t].driver)
      BY <2>2
    <2> HIDE DEF p
    <2>4. StartsWith(p \o <<"lock", "commit">>, trips[t].driver)
      BY <2>1, <2>3, StartsConcat
    <2> QED BY <2>4 DEF p
  <1>4. Handle(s, t, trips[t], todo)
    BY <1>1
  <1> HIDE DEF todo
  <1> QED BY <1>2, <1>3, <1>4, HandleGood, Parts, PartsNext, TablesKept DEF ConfirmPayment

LEMMA CommissionIsNat ==
  ASSUME NEW fare \in Nat
  PROVE  CommissionOf(fare) \in Nat
  <1>1. \A a \in Nat, b \in Nat : a * b \in Nat
    OBVIOUS
  <1>2. fare * CommissionPct \in Nat
    BY <1>1
  <1>3. \A a \in Nat : (a + 50) \div 100 \in Nat
    OBVIOUS
  <1> QED BY <1>2, <1>3 DEF CommissionOf

LEMMA LaterIsClock ==
  ASSUME NEW instant \in Clock
  PROVE  Later(instant) \in Clock
  <1>1. \A a \in Nat, n \in Nat \ {0} : (a + 1) % n \in 0..n-1
    OBVIOUS
  <1> QED BY <1>1, ShiftAssumption DEF Later, Clock

LEMMA FreeDriverStep ==
  ASSUME IInv, NEW s \in Slots, FreeDriver(s)
  PROVE  IInv' /\ KeepsOutside(s)
  <1>1. ReqOK' /\ KeepsOutside(s)
    BY Parts, ProceedFrom DEF FreeDriver
  <1>2. TablesOK'
    BY Parts, LaterIsClock DEF FreeDriver, TablesOK, ledger, DriverStatus
  <1> QED BY <1>1, <1>2, PartsNext

\* Slot s takes the lock of a trip nobody has paid and nobody has locked.
TakesLock(s) ==
  /\ ~Paid(req[s].trip)
  /\ ~Locked(req[s].trip)
  /\ At(s, "commit")' => req'[s].trip = req[s].trip
  /\ \A q \in Slots \ {s} : req'[q] = req[q]

LEMMA LockTripStep ==
  ASSUME IInv, NEW s \in Slots, LockTrip(s)
  PROVE  IInv' /\ (KeepsOutside(s) \/ TakesLock(s))
  <1> DEFINE r == req[s]
             u == [r EXCEPT !.todo = Tail(@)]
  <1>1. Good(r) /\ r.todo # <<>> /\ ~r.saving /\ ReqOK
    BY Parts, RequestAt DEF LockTrip, At, Idle, Good, Request
  <1>2. CASE MayCharge(s)
    <2>1. Good(u) /\ u.trip = r.trip
      BY <1>1, TailGood DEF Good, Request
    <2> HIDE DEF u
    <2>2. Become(s, u)
      BY <1>2 DEF LockTrip, Proceed, u
    <2>3. ReqOK' /\ req' = [req EXCEPT ![s] = Remaining(u)]
      BY <1>1, <2>1, <2>2, BecomeTyped
    <2>4. At(s, "commit")' => req'[s].trip = r.trip
      BY <1>1, <2>1, <2>3 DEF At, Remaining, NoRequest, ReqOK
    <2>5. TakesLock(s)
      BY <1>1, <1>2, <2>3, <2>4 DEF TakesLock, LockTrip, MayCharge, ReqOK
    <2> QED BY <2>3, <2>5, Parts, PartsNext, TablesKept DEF LockTrip
  <1>3. CASE ~MayCharge(s)
    BY <1>1, <1>3, ReturnGood, Parts, PartsNext, TablesKept DEF LockTrip
  <1> QED BY <1>2, <1>3

LEMMA CommitPaymentStep ==
  ASSUME IInv, NEW s \in Slots, CommitPayment(s)
  PROVE  IInv' /\ KeepsOutside(s)
  <1> DEFINE r == req[s]
             gross == IF r.mem.finalFare = NoFare THEN 0 ELSE r.mem.finalFare
             commission == CommissionOf(gross)
  <1>1. ReqOK' /\ KeepsOutside(s) /\ TablesOK /\ ReqOK
    BY Parts, ProceedFrom DEF CommitPayment
  <1>2. r.trip \in Trips /\ r.driver \in Drivers /\ r.mem \in TripEntity
    BY <1>1, RequestAt, TripAt DEF CommitPayment, At, Idle, NamesDriver
  <1>3. gross \in Nat
    <2>1. r.mem.finalFare \in Amounts \cup {NoFare}
      BY <1>2 DEF TripEntity
    <2>2. Amounts \subseteq Nat
      BY DEF Amounts
    <2> QED BY <2>1, <2>2
  <1>4. commission \in Nat
    BY <1>3, CommissionIsNat
  <1>5. trips' \in [Trips -> TripRow]
    <2>1. [trips[r.trip] EXCEPT !.status = "CLOSED"] \in TripRow
      BY <1>1, <1>2, StoredRow DEF TripRow, TripStatus
    <2>2. trips' = [trips EXCEPT ![r.trip] = [trips[r.trip] EXCEPT !.status = "CLOSED"]]
      BY DEF CommitPayment
    <2> QED BY <1>1, <2>1, <2>2 DEF TablesOK
  <1>6. settlements' \in [Drivers -> Settlement]
    <2> HIDE DEF gross, commission
    <2>1. settlements' = [settlements EXCEPT ![r.driver] = Credited(@, gross, commission)]
      BY DEF CommitPayment, gross, commission
    <2> QED BY <1>1, <1>2, <1>3, <1>4, <2>1 DEF TablesOK, Settlement, Credited
  <1>7. payments' \subseteq Payment
    BY <1>1, <1>2 DEF CommitPayment, TablesOK, Payment
  <1>8. commissions' \subseteq Commission
    <2> HIDE DEF gross, commission
    <2>1. commissions' = commissions \cup
            {[trip |-> r.trip, gross |-> gross, commission |-> commission,
              earning |-> gross - commission]}
      BY DEF CommitPayment, gross, commission
    <2> QED BY <1>1, <1>2, <1>3, <1>4, <2>1 DEF TablesOK, Commission
  <1>9. events' \subseteq TripEvent
    BY <1>1, <1>2 DEF CommitPayment, TablesOK, TripEvent, TripStatus
  <1>10. TablesOK'
    BY <1>1, <1>5, <1>6, <1>7, <1>8, <1>9 DEF CommitPayment, TablesOK, profiles
  <1> QED BY <1>1, <1>10, PartsNext
LEMMA RateStep ==
  ASSUME IInv, NEW s \in Slots, NEW t \in Trips, Rate(s, t)
  PROVE  IInv' /\ KeepsOutside(s)
  <1>1. PICK rating \in {"passengerRates", "driverRates"} : Handle(s, t, trips[t], <<rating>>)
    BY DEF Rate
  <1>2. trips[t].driver \in Drivers /\ trips[t] \in TripEntity
    BY Parts, StoredRow DEF Rate, HasAssignedDriver
  <1>3. StartsWith(<<rating>>, trips[t].driver)
    BY <1>2 DEF StartsWith, Stage
  <1> QED BY <1>1, <1>2, <1>3, HandleGood, Parts, PartsNext, TablesKept DEF Rate

LEMMA InsertRatingStep ==
  ASSUME IInv, NEW s \in Slots, InsertRating(s)
  PROVE  IInv' /\ KeepsOutside(s)
  <1> DEFINE row == [trip |-> req[s].trip, driver |-> req[s].driver,
                     byDriver |-> At(s, "driverRates")]
  <1>1. ReqOK' /\ KeepsOutside(s) /\ ReqOK /\ TablesOK
    BY Parts, ProceedFrom DEF InsertRating
  <1>2. req[s].trip \in Trips /\ req[s].driver \in Drivers
    BY <1>1, RequestAt, TripAt DEF InsertRating, At, Idle, NamesDriver
  <1>3. row \in RatingRow
    BY <1>2 DEF RatingRow, At
  <1>4. ratings' = ratings \/ ratings' = Append(ratings, row)
    BY DEF InsertRating
  <1> HIDE DEF row
  <1>5. ratings' \in Seq(RatingRow)
    <2>1. ratings \in Seq(RatingRow)
      BY <1>1 DEF TablesOK
    <2> QED BY <1>3, <1>4, <2>1
  <1>6. TablesOK'
    BY <1>1, <1>5 DEF InsertRating, TablesOK, profiles, ledger
  <1> QED BY <1>1, <1>6, PartsNext
-----------------------------------------------------------------------------
(* DriversController. *)

LEMMA UpdateStatusStep ==
  ASSUME IInv, NEW s \in Slots, NEW d \in Drivers, UpdateStatus(s, d)
  PROVE  IInv' /\ KeepsOutside(s)
  <1> DEFINE todo == <<"compareProfile", "writeProfile">>
  <1>1. PICK status \in Shifts[d], since \in Clock :
          Become(s, [NoRequest EXCEPT !.todo = todo, !.driver = d,
                                      !.profile = [status |-> status, since |-> since]])
    <2>1. availableSince[d] \in Clock /\ Later(availableSince[d]) \in Clock
      BY Parts, LaterIsClock DEF TablesOK
    <2> QED BY <2>1, ShiftAssumption DEF UpdateStatus
  <1> DEFINE new == [NoRequest EXCEPT !.todo = todo, !.driver = d,
                                      !.profile = [status |-> status, since |-> since]]
  <1>2. [status |-> status, since |-> since] \in ProfileCopy
    BY ShiftAssumption DEF ProfileCopy
  <1>3. todo \in Seq(Stage)
    BY DEF Stage
  <1>4. /\ new \in Request /\ new.todo = todo /\ new.driver = d /\ new.trip = NoTrip
        /\ new.saving = FALSE /\ new.dirty = {}
    <2> HIDE DEF todo
    <2> QED BY <1>2, <1>3, NoRequestGood DEF NoRequest, Request, Good
  <1> HIDE DEF new
  <1>5. LocalsOK(new)
    BY <1>4 DEF LocalsOK, Tripless
  <1>6. Outside(new)
    BY <1>4, <1>5 DEF Outside, Good
  <1> QED BY <1>1, <1>6, Parts, BecomeGood, PartsNext, TablesKept DEF UpdateStatus, new

LEMMA CompareProfileStep ==
  ASSUME IInv, NEW s \in Slots, CompareProfile(s)
  PROVE  IInv' /\ KeepsOutside(s)
  <1> DEFINE r == req[s]
             d == r.driver
             copy == [status |-> IF r.profile.status = driverStatus[d] THEN None
                                                                      ELSE r.profile.status,
                      since  |-> IF r.profile.since = availableSince[d] THEN Untouched
                                                                        ELSE r.profile.since]
             v == [r EXCEPT !.profile = copy]
             u == [r EXCEPT !.todo = Tail(@), !.profile = copy]
  <1>1. ReqOK /\ TablesOK
    BY Parts
  <1>2. /\ Good(r) /\ r.todo # <<>> /\ Head(r.todo) = "compareProfile"
        /\ r.saving = FALSE /\ r.profile \in ProfileCopy
    BY <1>1, RequestAt DEF CompareProfile, At, Idle, Good, Request
  <1>3. copy \in ProfileCopy
    BY <1>2 DEF ProfileCopy
  <1> HIDE DEF copy
  <1>4. /\ v \in Request /\ v.todo = r.todo /\ v.trip = r.trip /\ v.driver = r.driver
        /\ v.mem = r.mem /\ v.saving = r.saving /\ v.dirty = r.dirty
    BY <1>2, <1>3 DEF Good, Request
  <1>5. Outside([v EXCEPT !.todo = Tail(@)])
    <2> HIDE DEF v
    <2>1. Good(v)
      BY <1>2, <1>4 DEF Good, LocalsOK
    <2> QED BY <1>2, <1>4, <2>1, TailOutside
  <1>6. u = [v EXCEPT !.todo = Tail(@)]
    BY <1>2 DEF Good, Request
  <1>7. Become(s, u)
    BY <1>2 DEF CompareProfile, copy, Good, Request
  <1>8. ReqOK' /\ KeepsOutside(s)
    BY <1>1, <1>5, <1>6, <1>7, BecomeGood
  <1> QED BY <1>1, <1>8, PartsNext, TablesKept DEF CompareProfile

LEMMA WriteProfileStep ==
  ASSUME IInv, NEW s \in Slots, WriteProfile(s)
  PROVE  IInv' /\ KeepsOutside(s)
  <1>1. ReqOK' /\ KeepsOutside(s) /\ ReqOK /\ TablesOK
    BY Parts, ProceedFrom DEF WriteProfile
  <1>2. req[s].profile \in ProfileCopy
    BY <1>1, RequestAt DEF WriteProfile, At, Idle, Good, Request
  <1>3. TablesOK'
    BY <1>1, <1>2 DEF WriteProfile, TablesOK, ProfileCopy, ledger
  <1> QED BY <1>1, <1>3, PartsNext
-----------------------------------------------------------------------------
(* TaxiStore. *)

LEMMA CompareTripStep ==
  ASSUME IInv, NEW s \in Slots, CompareTrip(s)
  PROVE  IInv' /\ KeepsOutside(s)
  <1> DEFINE r == req[s]
             u == [r EXCEPT !.saving = TRUE, !.dirty = Differing(r.mem, trips[r.trip])]
  <1>1. ReqOK /\ TablesOK
    BY Parts
  <1>2. Good(r) /\ r.todo # <<>> /\ Head(r.todo) = "save"
    BY <1>1, RequestAt DEF CompareTrip, At, Idle
  <1>3. Differing(r.mem, trips[r.trip]) \in SUBSET Column
    BY DEF Differing
  <1>4. "driver" \in Differing(r.mem, trips[r.trip]) => r.mem.driver # Unloaded
    BY DEF Differing
  <1>5. u \in Request
    BY <1>2, <1>3 DEF Good, Request
  <1>6. /\ u.todo = r.todo /\ u.trip = r.trip /\ u.driver = r.driver /\ u.mem = r.mem
        /\ u.saving = TRUE /\ u.dirty = Differing(r.mem, trips[r.trip])
    BY <1>2 DEF Good, Request
  <1>7. LocalsOK(u)
    <2> HIDE DEF u
    <2> QED BY <1>2, <1>4, <1>6 DEF Good, LocalsOK
  <1>8. req' = [req EXCEPT ![s] = u]
    BY <1>1 DEF CompareTrip, ReqOK, Request
  <1>9. ReqOK' /\ KeepsOutside(s)
    <2> HIDE DEF u
    <2>1. req'[s] = u /\ \A q \in Slots \ {s} : req'[q] = req[q]
      BY <1>1, <1>8 DEF ReqOK
    <2>2. ReqOK'
      BY <1>1, <1>5, <1>7, <1>8 DEF ReqOK
    <2>3. ~At(s, "commit")'
      BY <1>2, <1>6, <2>1 DEF At
    <2> QED BY <2>1, <2>2, <2>3 DEF KeepsOutside
  <1> QED BY <1>1, <1>9, PartsNext, TablesKept DEF CompareTrip

LEMMA UpdatedType ==
  ASSUME NEW row \in TripRow, NEW e \in TripEntity, NEW cols,
         "driver" \in cols => e.driver # Unloaded
  PROVE  Updated(row, e, cols) \in TripRow
  BY DEF Updated, TripRow, TripEntity

LEMMA WriteTripStep ==
  ASSUME IInv, NEW s \in Slots, WriteTrip(s)
  PROVE  IInv' /\ KeepsOutside(s)
  <1> DEFINE r == req[s]
             v == [r EXCEPT !.saving = FALSE, !.dirty = {}]
             u == [r EXCEPT !.todo = Tail(@), !.saving = FALSE, !.dirty = {}]
  <1>1. ReqOK /\ TablesOK
    BY Parts
  <1>2. Good(r) /\ r.todo # <<>> /\ Head(r.todo) = "save" /\ r.trip \in Trips
    BY <1>1, RequestAt, TripAt DEF WriteTrip, At, Idle
  <1>3. /\ v \in Request /\ v.todo = r.todo /\ v.trip = r.trip /\ v.driver = r.driver
        /\ v.mem = r.mem /\ v.saving = FALSE /\ v.dirty = {}
    BY <1>2 DEF Good, Request
  <1>4. Good(v)
    <2> HIDE DEF v
    <2> QED BY <1>2, <1>3 DEF Good, LocalsOK
  <1>5. Outside([v EXCEPT !.todo = Tail(@)])
    <2> HIDE DEF v
    <2> QED BY <1>2, <1>3, <1>4, TailOutside
  <1>6. u = [v EXCEPT !.todo = Tail(@)]
    BY <1>2 DEF Good, Request
  <1>7. ReqOK' /\ KeepsOutside(s)
    BY <1>1, <1>5, <1>6, BecomeGood DEF WriteTrip
  <1>8. Updated(trips[r.trip], r.mem, r.dirty) \in TripRow
    BY <1>1, <1>2, StoredRow, UpdatedType DEF Good, LocalsOK, Request
  <1>9. TablesOK'
    BY <1>1, <1>2, <1>8 DEF WriteTrip, TablesOK, profiles, ledger
  <1> QED BY <1>7, <1>9, PartsNext

LEMMA RecordEventStep ==
  ASSUME IInv, NEW s \in Slots, RecordEvent(s)
  PROVE  IInv' /\ KeepsOutside(s)
  <1>1. ReqOK' /\ KeepsOutside(s) /\ ReqOK /\ TablesOK
    BY Parts, ProceedFrom DEF RecordEvent
  <1>2. /\ req[s].trip \in Trips /\ req[s].from \in TripStatus \cup {None}
        /\ req[s].mem.status \in TripStatus \cup {None}
    BY <1>1, RequestAt, TripAt DEF RecordEvent, At, Idle, TripEntity
  <1>3. TablesOK'
    BY <1>1, <1>2 DEF RecordEvent, TablesOK, profiles, ledger, TripEvent
  <1> QED BY <1>1, <1>3, PartsNext

LEMMA RecordAuditStep ==
  ASSUME IInv, NEW s \in Slots, RecordAudit(s)
  PROVE  IInv' /\ KeepsOutside(s)
  <1>1. PICK action \in AuditAction :
          /\ At(s, action)
          /\ audits' = audits \cup {[action |-> action, trip |-> req[s].trip]}
    BY DEF RecordAudit
  <1>2. ReqOK' /\ KeepsOutside(s) /\ ReqOK /\ TablesOK
    BY <1>1, Parts, ProceedFrom DEF RecordAudit, AuditAction
  <1>3. req[s].trip \in Trips
    BY <1>1, <1>2, TripAt DEF AuditAction
  <1>4. TablesOK'
    BY <1>1, <1>2, <1>3 DEF RecordAudit, TablesOK, profiles, ledger, Audit
  <1> QED BY <1>2, <1>4, PartsNext

LEMMA CrashStep ==
  ASSUME IInv, Crash
  PROVE  IInv' /\ \A s \in Slots : ~At(s, "commit")'
  <1>1. ReqOK'
    BY NoRequestGood DEF Crash, ReqOK, Good
  <1>2. \A s \in Slots : ~At(s, "commit")'
    BY DEF Crash, At, NoRequest
  <1> QED BY <1>1, <1>2, Parts, PartsNext, TablesKept DEF Crash
-----------------------------------------------------------------------------
(* DispatchService. *)

LEMMA EntityWithoutDriver ==
  ASSUME NEW row \in TripRow
  PROVE  WithoutDriver(row) \in TripEntity
  BY DEF WithoutDriver, TripRow, TripEntity

LEMMA StoredOffer ==
  ASSUME TablesOK, NEW i \in DOMAIN offers
  PROVE  /\ i \in Nat /\ offers[i] \in OfferRow
         /\ offers[i].trip \in Trips /\ offers[i].driver \in Drivers
  <1>1. offers \in Seq(OfferRow)
    BY DEF TablesOK
  <1>2. i \in Nat /\ offers[i] \in OfferRow
    BY <1>1
  <1> QED BY <1>2 DEF OfferRow

LEMMA LoadForDispatchStep ==
  ASSUME IInv, NEW s \in Slots, LoadForDispatch(s)
  PROVE  IInv' /\ KeepsOutside(s)
  <1> DEFINE r == req[s]
             row == trips[r.trip]
  <1>1. ReqOK /\ TablesOK /\ r.trip \in Trips
    BY Parts, TripAt DEF LoadForDispatch
  <1>2. CASE MayDispatch(row)
    <2> DEFINE u == [r EXCEPT !.todo = <<"rank">> \o Tail(@), !.driver = r.driver,
                              !.mem = WithoutDriver(row), !.from = row.status]
    <2>1. Good(r) /\ r.todo # <<>> /\ Head(r.todo) = "load" /\ ~r.saving
      BY <1>1, RequestAt DEF LoadForDispatch, At, Idle, Good, Request
    <2>2. r.driver \in Drivers \cup {NoDriver}
      BY <2>1 DEF Good, Request
    <2>3. WithoutDriver(row) \in TripEntity /\ row.status \in TripStatus \cup {None}
      BY <1>1, StoredRow, EntityWithoutDriver
    <2>4. /\ <<"rank">> \in Seq(Stage) /\ <<"rank">> # <<>>
          /\ "commit" \notin {<<"rank">>[i] : i \in DOMAIN <<"rank">>}
          /\ \A i \in DOMAIN <<"rank">> : <<"rank">>[i] \notin NamesDriver
      BY DEF Stage, NamesDriver
    <2>5. r.trip # NoTrip
      BY <1>1
    <2> HIDE DEF row
    <2>6. Outside(u)
      BY <2>1, <2>2, <2>3, <2>4, <2>5, PrefixGood
    <2>7. u = [r EXCEPT !.todo = <<"rank">> \o Tail(@), !.from = row.status,
                        !.mem = WithoutDriver(row)]
      BY <2>1 DEF Good, Request
    <2>8. Become(s, u)
      BY <1>2, <2>7 DEF LoadForDispatch, row
    <2> QED BY <1>1, <2>6, <2>8, BecomeGood, PartsNext, TablesKept DEF LoadForDispatch
  <1>3. CASE ~MayDispatch(row)
    BY <1>1, <1>3, ReturnGood, PartsNext, TablesKept DEF LoadForDispatch
  <1> QED BY <1>2, <1>3

LEMMA StartDispatchStep ==
  ASSUME IInv, NEW s \in Slots, NEW t \in Trips, StartDispatch(s, t)
  PROVE  IInv' /\ KeepsOutside(s)
  <1>1. WithoutDriver(trips[t]) \in TripEntity
    BY Parts, StoredRow, EntityWithoutDriver
  <1>2. StartsWith(<<"rank">>, trips[t].driver)
    BY DEF StartsWith, Stage, NamesDriver
  <1> QED BY <1>1, <1>2, HandleGood, Parts, PartsNext, TablesKept DEF StartDispatch

LEMMA RankCandidatesStep ==
  ASSUME IInv, NEW s \in Slots, RankCandidates(s)
  PROVE  IInv' /\ KeepsOutside(s)
  <1> DEFINE r == req[s]
             p == <<"save", "offer", "event">>
  <1>1. ReqOK /\ TablesOK /\ r.trip \in Trips
    BY Parts, TripAt DEF RankCandidates
  <1>2. ASSUME Proceed(s) PROVE ReqOK' /\ KeepsOutside(s)
    BY <1>1, <1>2, ProceedFrom DEF RankCandidates
  <1>3. ASSUME NEW top \in Eligible(r.trip),
               Become(s, [r EXCEPT !.todo = p \o Tail(@), !.driver = top,
                                   !.mem.status = "SEARCHING_DRIVER"])
        PROVE  ReqOK' /\ KeepsOutside(s)
    <2> DEFINE mem == [r.mem EXCEPT !.status = "SEARCHING_DRIVER"]
               u == [r EXCEPT !.todo = p \o Tail(@), !.driver = top, !.mem = mem,
                              !.from = r.from]
    <2>1. Good(r) /\ r.todo # <<>> /\ Head(r.todo) = "rank" /\ ~r.saving
      BY <1>1, RequestAt DEF RankCandidates, At, Idle, Good, Request
    <2>2. top \in Drivers
      BY <1>1 DEF Eligible, TablesOK
    <2>3. mem \in TripEntity /\ r.from \in TripStatus \cup {None}
      BY <2>1 DEF Good, Request, TripEntity, TripStatus
    <2>4. p \in Seq(Stage) /\ p # <<>> /\ "commit" \notin {p[i] : i \in DOMAIN p}
      BY DEF Stage
    <2>5. r.trip # NoTrip
      BY <1>1
    <2>6. u = [r EXCEPT !.todo = p \o Tail(@), !.driver = top,
                        !.mem.status = "SEARCHING_DRIVER"]
      BY <2>1 DEF Good, Request
    <2> HIDE DEF mem, p
    <2>7. Outside(u)
      BY <2>1, <2>2, <2>3, <2>4, <2>5, PrefixGood
    <2>8. Become(s, u)
      BY <1>3, <2>6
    <2> QED BY <1>1, <2>7, <2>8, BecomeGood
  <1>4. ReqOK' /\ KeepsOutside(s)
    BY <1>2, <1>3 DEF RankCandidates
  <1> QED BY <1>1, <1>4, PartsNext, TablesKept DEF RankCandidates

LEMMA AppendOffer ==
  ASSUME TablesOK, NEW o \in OfferRow, offers' = Append(offers, o),
         UNCHANGED <<trips, profiles, ledger, events, audits, ratings>>
  PROVE  TablesOK'
  BY DEF TablesOK, profiles, ledger

LEMMA InsertOfferStep ==
  ASSUME IInv, NEW s \in Slots, InsertOffer(s)
  PROVE  IInv' /\ KeepsOutside(s)
  <1>1. ReqOK' /\ KeepsOutside(s) /\ ReqOK /\ TablesOK
    BY Parts, ProceedFrom DEF InsertOffer
  <1>2. req[s].trip \in Trips /\ req[s].driver \in Drivers
    BY <1>1, RequestAt, TripAt DEF InsertOffer, At, Idle, NamesDriver
  <1>3. [trip |-> req[s].trip, driver |-> req[s].driver, manual |-> FALSE,
         response |-> None] \in OfferRow
    BY <1>2 DEF OfferRow
  <1> QED BY <1>1, <1>3, AppendOffer, PartsNext DEF InsertOffer

LEMMA InsertManualOfferStep ==
  ASSUME IInv, NEW s \in Slots, InsertManualOffer(s)
  PROVE  IInv' /\ KeepsOutside(s)
  <1>1. ReqOK' /\ KeepsOutside(s) /\ ReqOK /\ TablesOK
    BY Parts, ProceedFrom DEF InsertManualOffer
  <1>2. req[s].trip \in Trips /\ req[s].driver \in Drivers
    BY <1>1, RequestAt, TripAt DEF InsertManualOffer, At, Idle, NamesDriver
  <1>3. [trip |-> req[s].trip, driver |-> req[s].driver, manual |-> TRUE,
         response |-> "ACCEPTED"] \in OfferRow
    BY <1>2 DEF OfferRow, Response
  <1> QED BY <1>1, <1>3, AppendOffer, PartsNext DEF InsertManualOffer

LEMMA AcceptStep ==
  ASSUME IInv, NEW s \in Slots, NEW i \in DOMAIN offers, Accept(s, i)
  PROVE  IInv' /\ KeepsOutside(s)
  <1> DEFINE o == offers[i]
             todo == <<"answer", "vehicle", "save", "busy", "event">>
             mem == [trips[o.trip] EXCEPT !.status = "DRIVER_ASSIGNED", !.driver = o.driver]
             new == [NoRequest EXCEPT !.todo = todo, !.trip = o.trip, !.driver = o.driver,
                                      !.offer = i, !.response = "ACCEPTED",
                                      !.from = trips[o.trip].status, !.mem = mem]
  <1>1. ReqOK /\ TablesOK /\ i \in Nat /\ o.trip \in Trips /\ o.driver \in Drivers
    BY Parts, StoredOffer
  <1>2. mem \in TripEntity /\ trips[o.trip].status \in TripStatus \cup {None}
    <2> HIDE DEF o
    <2>1. trips[o.trip] \in TripEntity /\ trips[o.trip].status \in TripStatus \cup {None}
      BY <1>1, StoredRow
    <2> QED BY <1>1, <2>1 DEF TripEntity, TripStatus
  <1>3. StartsWith(todo, o.driver)
    BY <1>1 DEF StartsWith, Stage, NamesDriver
  <1> HIDE DEF mem, todo
  <1>4. new \in Request
    BY <1>1, <1>2, <1>3, NoRequestGood DEF NoRequest, Request, Good, StartsWith, Response
  <1>5. /\ new.todo = todo /\ new.driver = o.driver /\ new.trip = o.trip
        /\ new.saving = FALSE /\ new.dirty = {}
    BY DEF NoRequest
  <1>6. Outside(new)
    BY <1>1, <1>3, <1>4, <1>5, NewGood
  <1>7. Become(s, new)
    BY DEF Accept, mem, todo
  <1> QED BY <1>1, <1>6, <1>7, BecomeGood, PartsNext, TablesKept DEF Accept

LEMMA RejectStep ==
  ASSUME IInv, NEW s \in Slots, NEW i \in DOMAIN offers, Reject(s, i)
  PROVE  IInv' /\ KeepsOutside(s)
  <1> DEFINE o == offers[i]
             todo == <<"answer", "load">>
             new == [NoRequest EXCEPT !.todo = todo, !.trip = o.trip, !.driver = o.driver,
                                      !.offer = i, !.response = "REJECTED"]
  <1>1. ReqOK /\ TablesOK /\ i \in Nat /\ o.trip \in Trips /\ o.driver \in Drivers
    BY Parts, StoredOffer
  <1>2. StartsWith(todo, o.driver)
    BY <1>1 DEF StartsWith, Stage, NamesDriver
  <1> HIDE DEF todo
  <1>3. new \in Request
    BY <1>1, <1>2, NoRequestGood DEF NoRequest, Request, Good, StartsWith, Response
  <1>4. /\ new.todo = todo /\ new.driver = o.driver /\ new.trip = o.trip
        /\ new.saving = FALSE /\ new.dirty = {}
    BY DEF NoRequest
  <1>5. Outside(new)
    BY <1>1, <1>2, <1>3, <1>4, NewGood
  <1>6. Become(s, new)
    BY DEF Reject, todo
  <1> QED BY <1>1, <1>5, <1>6, BecomeGood, PartsNext, TablesKept DEF Reject

LEMMA SaveAnswerStep ==
  ASSUME IInv, NEW s \in Slots, SaveAnswer(s)
  PROVE  IInv' /\ KeepsOutside(s)
  <1>1. ReqOK' /\ KeepsOutside(s) /\ ReqOK /\ TablesOK
    BY Parts, ProceedFrom DEF SaveAnswer
  <1>2. req[s].response \in Response \cup {None}
    BY <1>1, RequestAt DEF SaveAnswer, At, Idle
  <1>3. offers' \in Seq(OfferRow)
    <2> DEFINE i == req[s].offer
    <2>1. CASE i \in DOMAIN offers
      <3>1. [offers[i] EXCEPT !.response = req[s].response] \in OfferRow
        BY <1>1, <1>2, <2>1, StoredOffer DEF OfferRow
      <3>2. offers' = [offers EXCEPT ![i] = [offers[i] EXCEPT !.response = req[s].response]]
        BY DEF SaveAnswer
      <3> HIDE DEF i
      <3> QED BY <1>1, <2>1, <3>1, <3>2 DEF TablesOK
    <2>2. CASE i \notin DOMAIN offers
      <3>1. offers' = [offers EXCEPT ![i] = [offers[i] EXCEPT !.response = req[s].response]]
        BY DEF SaveAnswer
      <3> HIDE DEF i
      <3>2. offers \in [DOMAIN offers -> OfferRow]
        BY <1>1 DEF TablesOK
      <3>3. offers' = offers
        BY <2>2, <3>1, <3>2
      <3> QED BY <1>1, <3>3 DEF TablesOK
    <2> QED BY <2>1, <2>2
  <1>4. TablesOK'
    BY <1>1, <1>3 DEF SaveAnswer, TablesOK, profiles, ledger
  <1> QED BY <1>1, <1>4, PartsNext

LEMMA CheckVehicleStep ==
  ASSUME IInv, NEW s \in Slots, CheckVehicle(s)
  PROVE  IInv' /\ KeepsOutside(s)
  BY Parts, ProceedFrom, ReturnGood, PartsNext, TablesKept DEF CheckVehicle

LEMMA CheckDriverStep ==
  ASSUME IInv, NEW s \in Slots, CheckDriver(s)
  PROVE  IInv' /\ KeepsOutside(s)
  BY Parts, ProceedFrom, ReturnGood, PartsNext, TablesKept DEF CheckDriver

LEMMA OccupyDriverStep ==
  ASSUME IInv, NEW s \in Slots, OccupyDriver(s)
  PROVE  IInv' /\ KeepsOutside(s)
  <1>1. ReqOK' /\ KeepsOutside(s)
    BY Parts, ProceedFrom DEF OccupyDriver
  <1>2. TablesOK'
    BY Parts DEF OccupyDriver, TablesOK, ledger, DriverStatus
  <1> QED BY <1>1, <1>2, PartsNext

LEMMA ManualAssignStep ==
  ASSUME IInv, NEW s \in Slots, NEW t \in Trips, NEW d \in Drivers, ManualAssign(s, t, d)
  PROVE  IInv' /\ KeepsOutside(s)
  <1> DEFINE todo == <<"check", "vehicle", "save", "manualOffer", "busy",
                       "event", "dispatch.manual_assign">>
             mem == [trips[t] EXCEPT !.driver = d, !.status = "DRIVER_ASSIGNED"]
             new == [NoRequest EXCEPT !.todo = todo, !.trip = t, !.driver = d,
                                      !.from = trips[t].status, !.mem = mem]
  <1>1. ReqOK /\ TablesOK
    BY Parts
  <1>2. mem \in TripEntity /\ trips[t].status \in TripStatus \cup {None}
    <2>1. trips[t] \in TripEntity /\ trips[t].status \in TripStatus \cup {None}
      BY <1>1, StoredRow
    <2>2. "DRIVER_ASSIGNED" \in TripStatus
      BY DEF TripStatus
    <2> QED BY <2>1, <2>2 DEF TripEntity
  <1>3. StartsWith(todo, d)
    BY DEF StartsWith, Stage, NamesDriver, AuditAction
  <1> HIDE DEF mem, todo
  <1>4. new \in Request
    BY <1>1, <1>2, <1>3, NoRequestGood DEF NoRequest, Request, Good, StartsWith
  <1>5. /\ new.todo = todo /\ new.driver = d /\ new.trip = t
        /\ new.saving = FALSE /\ new.dirty = {}
    BY DEF NoRequest
  <1>6. Outside(new)
    BY <1>3, <1>4, <1>5, NewGood
  <1>7. Become(s, new)
    BY DEF ManualAssign, mem, todo
  <1> QED BY <1>1, <1>6, <1>7, BecomeGood, PartsNext, TablesKept DEF ManualAssign

LEMMA ExpiryPassStep ==
  ASSUME IInv, NEW s \in Slots, ExpiryPass(s)
  PROVE  IInv' /\ KeepsOutside(s)
  <1> DEFINE q == {i \in DOMAIN offers : Pending(i) /\ ~offers[i].manual}
             new == [NoRequest EXCEPT !.todo = <<"next">>, !.queue = q]
  <1>1. q \in SUBSET Nat
    BY Parts, StoredOffer
  <1> HIDE DEF q
  <1>2. Outside(new)
    BY <1>1, PassGood
  <1>3. Become(s, new)
    BY DEF ExpiryPass, q
  <1> QED BY <1>2, <1>3, Parts, BecomeGood, PartsNext, TablesKept DEF ExpiryPass

\* A shorter list of offers.
LEMMA QueueGood ==
  ASSUME NEW r, Outside(r), NEW q \in SUBSET Nat
  PROVE  Outside([r EXCEPT !.queue = q])
  <1> DEFINE u == [r EXCEPT !.queue = q]
  <1>1. /\ u \in Request /\ u.todo = r.todo /\ u.trip = r.trip /\ u.driver = r.driver
        /\ u.saving = r.saving /\ u.dirty = r.dirty /\ u.mem = r.mem
    BY DEF Outside, Good, Request
  <1> HIDE DEF u
  <1>2. LocalsOK(u)
    BY <1>1 DEF Outside, Good, LocalsOK
  <1> QED BY <1>1, <1>2 DEF Outside, Good, u

LEMMA SkipOfferStep ==
  ASSUME IInv, NEW s \in Slots, NEW i \in req[s].queue, SkipOffer(s, i)
  PROVE  IInv' /\ KeepsOutside(s)
  <1>1. Outside(req[s]) /\ req[s].queue \ {i} \in SUBSET Nat
    BY Parts, RequestAt DEF SkipOffer, At, Idle, Outside
  <1>2. Outside([req[s] EXCEPT !.queue = @ \ {i}])
    BY <1>1, QueueGood
  <1> QED BY <1>2, Parts, BecomeGood, PartsNext, TablesKept DEF SkipOffer

LEMMA ExpireOfferStep ==
  ASSUME IInv, NEW s \in Slots, NEW i \in req[s].queue, ExpireOffer(s, i)
  PROVE  IInv' /\ KeepsOutside(s)
  <1> DEFINE r == req[s]
             todo == <<"answer", "load", "next">>
             new == [NoRequest EXCEPT !.todo = todo, !.queue = r.queue \ {i},
                                      !.trip = offers[i].trip, !.offer = i,
                                      !.response = "EXPIRED"]
  <1>1. ReqOK /\ TablesOK /\ Outside(r) /\ r.queue \ {i} \in SUBSET Nat
    BY Parts, RequestAt DEF ExpireOffer, At, Idle, Outside
  <1>2. CASE i \in DOMAIN offers /\ Pending(i)
    <2>1. i \in Nat /\ offers[i].trip \in Trips
      BY <1>1, <1>2, StoredOffer
    <2>2. StartsWith(todo, NoDriver)
      BY DEF StartsWith, Stage, NamesDriver
    <2> HIDE DEF todo
    <2>3. new \in Request
      BY <1>1, <2>1, <2>2, NoRequestGood DEF NoRequest, Request, Good, StartsWith, Response
    <2>4. /\ new.todo = todo /\ new.driver = NoDriver /\ new.trip = offers[i].trip
          /\ new.saving = FALSE /\ new.dirty = {}
      BY DEF NoRequest
    <2>5. Outside(new)
      BY <2>1, <2>2, <2>3, <2>4, NewGood
    <2>6. Become(s, new)
      BY <1>2 DEF ExpireOffer, todo
    <2> QED BY <1>1, <2>5, <2>6, BecomeGood, PartsNext, TablesKept DEF ExpireOffer
  <1>3. CASE ~(i \in DOMAIN offers /\ Pending(i))
    <2>1. Outside([r EXCEPT !.queue = @ \ {i}])
      BY <1>1, QueueGood
    <2> QED BY <1>1, <1>3, <2>1, BecomeGood, PartsNext, TablesKept DEF ExpireOffer
  <1> QED BY <1>2, <1>3
-----------------------------------------------------------------------------
(* Taxi. *)

LEMMA EndAssignmentTypes ==
  ASSUME IInv, NEW d \in Drivers, EndAssignment(d)
  PROVE  IInv'
  BY DEF IInv, TypeOK, EndAssignment, ledger

LEMMA InitTypes == Init => IInv
  <1> SUFFICES ASSUME Init PROVE TablesOK /\ ReqOK
    BY Parts
  <1>1. NoRow \in TripRow
    BY DEF NoRow, TripRow, ServiceCategory
  <1>2. TablesOK
    BY <1>1, ShiftAssumption DEF Init, TablesOK, DriverStatus, Settlement, Clock
  <1>3. ReqOK
    BY NoRequestGood DEF Init, ReqOK, Good
  <1> QED BY <1>2, <1>3

LEMMA NextTypes == IInv /\ [Next]_vars => IInv'
  <1> SUFFICES ASSUME IInv, [Next]_vars PROVE IInv'
    OBVIOUS
  <1>1. CASE UNCHANGED vars
    BY <1>1 DEF IInv, TypeOK, vars, tables, profiles, ledger
  <1>2. ASSUME NEW s \in Slots, Arrival(s) PROVE IInv'
    <2>1. ASSUME NEW t \in Trips,
                 \/ Create(s, t) \/ Review(s, t) \/ Arrive(s, t) \/ Start(s, t)
                 \/ Complete(s, t) \/ Cancel(s, t) \/ ConfirmPayment(s, t)
                 \/ Rate(s, t) \/ StartDispatch(s, t)
          PROVE  IInv'
      BY <2>1, CreateStep, ReviewStep, ArriveStep, StartStep, CompleteStep,
         CancelStep, ConfirmPaymentStep, RateStep, StartDispatchStep
    <2>2. ASSUME NEW t \in Trips, NEW d \in Drivers, ManualAssign(s, t, d) PROVE IInv'
      BY <2>2, ManualAssignStep
    <2>3. ASSUME NEW i \in DOMAIN offers, Accept(s, i) \/ Reject(s, i) PROVE IInv'
      BY <2>3, AcceptStep, RejectStep
    <2> QED BY <1>2, <2>1, <2>2, <2>3, UpdateStatusStep, ExpiryPassStep DEF Arrival
  <1>3. ASSUME NEW s \in Slots, Step(s) PROVE IInv'
    <2>1. ASSUME NEW i \in req[s].queue, SkipOffer(s, i) \/ ExpireOffer(s, i) PROVE IInv'
      BY <2>1, SkipOfferStep, ExpireOfferStep
    <2> QED
      BY <1>3, <2>1, CompareTripStep, WriteTripStep, RecordEventStep, RecordAuditStep,
         FreeDriverStep, OccupyDriverStep, CheckDriverStep, CheckVehicleStep,
         LockTripStep, CommitPaymentStep, LoadForDispatchStep, RankCandidatesStep,
         InsertOfferStep, InsertManualOfferStep, SaveAnswerStep, InsertRatingStep,
         CompareProfileStep, WriteProfileStep
      DEF Step
  <1> QED
    BY <1>1, <1>2, <1>3, EndAssignmentTypes, CrashStep DEF Next

\* The tables and the locals of every handler stay well typed, a save never
\* writes a relation that was not loaded, and no write is awaited for a trip or
\* a driver the handler does not have. (all handlers)
THEOREM LocalsCorrect == Spec => []IInv
  <1>1. QED
    BY InitTypes, NextTypes, PTL DEF Spec

\* The same for the tables and the handlers' types alone. (all handlers)
THEOREM TypeCorrect == Spec => []TypeOK
  <1>1. IInv => TypeOK
    BY DEF IInv
  <1> QED BY <1>1, LocalsCorrect, PTL
-----------------------------------------------------------------------------
(* Payments. *)

\* No step but the commit of a payment touches the ledger.
LEMMA OnlyPaymentsCharge ==
  ASSUME [Next]_vars
  PROVE  UNCHANGED ledger \/ \E s \in Slots : CommitPayment(s)
  <1>1. CASE UNCHANGED vars
    BY <1>1 DEF vars, tables
  <1>2. ASSUME NEW s \in Slots, Arrival(s) PROVE UNCHANGED ledger
    BY <1>2 DEF Arrival, Create, Review, Arrive, Start, Complete, Cancel, ConfirmPayment,
                StartDispatch, ManualAssign, Accept, Reject, Rate, UpdateStatus, ExpiryPass, tables
  <1>3. ASSUME NEW s \in Slots, Step(s), ~CommitPayment(s) PROVE UNCHANGED ledger
    BY <1>3 DEF Step, CompareTrip, WriteTrip, RecordEvent, RecordAudit, FreeDriver,
                OccupyDriver, CheckDriver, CheckVehicle, LockTrip, LoadForDispatch,
                RankCandidates, InsertOffer, InsertManualOffer, SaveAnswer, SkipOffer,
                ExpireOffer, InsertRating, CompareProfile, WriteProfile, tables
  <1>4. CASE \E d \in Drivers : EndAssignment(d)
    BY <1>4 DEF EndAssignment
  <1>5. CASE Crash
    BY <1>5 DEF Crash, tables
  <1> QED BY <1>1, <1>2, <1>3, <1>4, <1>5 DEF Next

\* An arriving request holds no lock.
LEMMA ArrivalLocks ==
  ASSUME IInv, NEW s \in Slots, Arrival(s)
  PROVE  KeepsOutside(s)
  <1>1. ASSUME NEW t \in Trips,
               \/ Create(s, t) \/ Review(s, t) \/ Arrive(s, t) \/ Start(s, t)
               \/ Complete(s, t) \/ Cancel(s, t) \/ ConfirmPayment(s, t)
               \/ Rate(s, t) \/ StartDispatch(s, t)
        PROVE  KeepsOutside(s)
    BY <1>1, CreateStep, ReviewStep, ArriveStep, StartStep, CompleteStep, CancelStep,
       ConfirmPaymentStep, RateStep, StartDispatchStep
  <1>2. ASSUME NEW t \in Trips, NEW d \in Drivers, ManualAssign(s, t, d)
        PROVE  KeepsOutside(s)
    BY <1>2, ManualAssignStep
  <1>3. ASSUME NEW i \in DOMAIN offers, Accept(s, i) \/ Reject(s, i)
        PROVE  KeepsOutside(s)
    BY <1>3, AcceptStep, RejectStep
  <1> QED BY <1>1, <1>2, <1>3, UpdateStatusStep, ExpiryPassStep DEF Arrival

LEMMA StepLocks ==
  ASSUME IInv, NEW s \in Slots, Step(s)
  PROVE  KeepsOutside(s) \/ (LockTrip(s) /\ TakesLock(s))
  <1>1. ASSUME NEW i \in req[s].queue, SkipOffer(s, i) \/ ExpireOffer(s, i)
        PROVE  KeepsOutside(s)
    BY <1>1, SkipOfferStep, ExpireOfferStep
  <1> QED
    BY <1>1, CompareTripStep, WriteTripStep, RecordEventStep, RecordAuditStep,
       FreeDriverStep, OccupyDriverStep, CheckDriverStep, CheckVehicleStep,
       LockTripStep, CommitPaymentStep, LoadForDispatchStep, RankCandidatesStep,
       InsertOfferStep, InsertManualOfferStep, SaveAnswerStep, InsertRatingStep,
       CompareProfileStep, WriteProfileStep
    DEF Step

\* Every step of the backend: a commit, a lock, or one that only takes
\* requests out of their transactions.
LEMMA LocksOfStep ==
  ASSUME IInv, [Next]_vars
  PROVE  \/ \E s \in Slots : CommitPayment(s) /\ KeepsOutside(s)
         \/ \E s \in Slots : At(s, "lock") /\ TakesLock(s)
         \/ \E s \in Slots : KeepsOutside(s)
         \/ \A s \in Slots : ~At(s, "commit")'
         \/ UNCHANGED req
  <1>1. ASSUME NEW s \in Slots, LockTrip(s) PROVE At(s, "lock")
    BY <1>1 DEF LockTrip
  <1> QED
    BY <1>1, ArrivalLocks, StepLocks, CrashStep DEF Next, vars, EndAssignment

LEMMA PaymentInit == Init => PaymentInv
  BY DEF Init, PaymentInv, PaidOnce, OneLock, At, Idle, NoRequest

LEMMA PaymentNext == IInv /\ PaymentInv /\ [Next]_vars => PaymentInv'
  <1> SUFFICES ASSUME IInv, PaymentInv, [Next]_vars PROVE PaymentInv'
    OBVIOUS
  <1>1. CASE \E s \in Slots : CommitPayment(s)
    <2>1. PICK s \in Slots : CommitPayment(s)
      BY <1>1
    <2>2. KeepsOutside(s)
      BY <2>1, CommitPaymentStep
    <2> DEFINE t == req[s].trip
    <2>3. At(s, "commit") /\ ~Paid(t)
      BY <2>1 DEF CommitPayment, PaymentInv, OneLock
    <2>4. PICK p, c : /\ payments' = payments \cup {p} /\ commissions' = commissions \cup {c}
                      /\ p.trip = t /\ c.trip = t
      <3> DEFINE gross == IF req[s].mem.finalFare = NoFare THEN 0 ELSE req[s].mem.finalFare
                 p == [trip |-> t, confirmedBy |-> req[s].driver]
                 c == [trip |-> t, gross |-> gross, commission |-> CommissionOf(gross),
                       earning |-> gross - CommissionOf(gross)]
      <3>1. payments' = payments \cup {p} /\ commissions' = commissions \cup {c}
        BY <2>1 DEF CommitPayment
      <3>2. p.trip = t /\ c.trip = t
        OBVIOUS
      <3> HIDE DEF p, c
      <3> QED BY <3>1, <3>2
    <2>5. PaidOnce'
      BY <2>3, <2>4 DEF PaymentInv, PaidOnce, Paid
    <2>6. OneLock'
      <3>1. ASSUME NEW q \in Slots, At(q, "commit")'
            PROVE  q # s /\ At(q, "commit") /\ req'[q] = req[q] /\ req[q].trip # t
        BY <2>2, <2>3, <3>1 DEF KeepsOutside, At, PaymentInv, OneLock
      <3> QED BY <2>4, <3>1 DEF PaymentInv, OneLock, Paid, At
    <2> QED BY <2>5, <2>6 DEF PaymentInv
  <1>2. CASE UNCHANGED ledger
    <2>1. PaidOnce' /\ \A t : Paid(t)' <=> Paid(t)
      BY <1>2 DEF ledger, PaymentInv, PaidOnce, Paid
    <2>2. ASSUME NEW s \in Slots, KeepsOutside(s) PROVE OneLock'
      BY <2>1, <2>2 DEF KeepsOutside, At, PaymentInv, OneLock, Paid
    <2>3. ASSUME NEW s \in Slots, TakesLock(s) PROVE OneLock'
      <3>1. ASSUME NEW q \in Slots, At(q, "commit")', q # s
            PROVE  At(q, "commit") /\ req'[q] = req[q] /\ req[q].trip # req[s].trip
        BY <2>3, <3>1 DEF TakesLock, Locked, At
      <3>2. At(s, "commit")' => req'[s].trip = req[s].trip /\ ~Paid(req[s].trip)
        BY <2>3 DEF TakesLock
      <3>3. ASSUME NEW q \in Slots, At(q, "commit")' PROVE ~Paid(req'[q].trip)
        <4>1. CASE q = s
          BY <3>2, <3>3, <4>1
        <4>2. CASE q # s
          <5>1. At(q, "commit") /\ req'[q] = req[q]
            BY <3>1, <3>3, <4>2
          <5>2. ~Paid(req[q].trip)
            BY <5>1 DEF PaymentInv, OneLock
          <5> QED BY <5>1, <5>2
        <4> QED BY <4>1, <4>2
      <3>4. ASSUME NEW q \in Slots, NEW p \in Slots, At(q, "commit")', At(p, "commit")', q # p
            PROVE  req'[q].trip # req'[p].trip
        <4>1. CASE q = s
          BY <3>1, <3>2, <3>4, <4>1
        <4>2. CASE p = s
          BY <3>1, <3>2, <3>4, <4>2
        <4>3. CASE q # s /\ p # s
          BY <3>1, <3>4, <4>3 DEF PaymentInv, OneLock
        <4> QED BY <4>1, <4>2, <4>3
      <3> QED BY <3>3, <3>4, <1>2 DEF OneLock, Paid, ledger
    <2>4. ASSUME \A s \in Slots : ~At(s, "commit")' PROVE OneLock'
      BY <2>4 DEF OneLock, At
    <2>5. ASSUME UNCHANGED req PROVE OneLock'
      BY <2>1, <2>5 DEF PaymentInv, OneLock, Paid, At
    <2> QED BY <2>1, <2>2, <2>3, <2>4, <2>5, LocksOfStep DEF PaymentInv
  <1> QED BY <1>1, <1>2, OnlyPaymentsCharge

\* However many payment requests interleave, with each other and with every
\* other handler, a trip has at most one payment and one commission, and one
\* exactly when it has the other. (TripsService.confirmPayment)
THEOREM NobodyPaysTwice == Spec => []PaidOnce
  <1>1. PaymentInv => PaidOnce
    BY DEF PaymentInv
  <1> QED BY <1>1, LocalsCorrect, PaymentInit, PaymentNext, PTL DEF Spec

\* From the check of a payment to its commit the trip is unpaid and nobody
\* else's to pay: the lock, not the unlocked test before it, is what makes
\* the payment unique. (confirmPayment)
THEOREM OnePayerAtATime == Spec => []OneLock
  <1>1. PaymentInv => OneLock
    BY DEF PaymentInv
  <1> QED BY <1>1, LocalsCorrect, PaymentInit, PaymentNext, PTL DEF Spec

\* The rows a payment commits are one step of the abstract ledger.
LEMMA CommitIsCharge ==
  ASSUME IInv, PaymentInv, NEW s \in Slots, CommitPayment(s)
  PROVE  TheLedger!Next
  <1> DEFINE r == req[s]
             gross == IF r.mem.finalFare = NoFare THEN 0 ELSE r.mem.finalFare
             commission == CommissionOf(gross)
             charged(cs) == {[trip |-> c.trip, fare |-> c.gross] : c \in cs}
  <1>1. ReqOK /\ TablesOK /\ At(s, "commit") /\ ~Paid(r.trip)
    BY Parts DEF CommitPayment, PaymentInv, OneLock
  <1>2. r.trip \in Trips /\ r.driver \in Drivers /\ r.mem \in TripEntity
    BY <1>1, RequestAt, TripAt DEF At, Idle, NamesDriver
  <1>3. gross \in Amounts
    BY <1>2 DEF TripEntity, Amounts
  <1>4. \A c \in commissions : c.trip # r.trip
    BY <1>1 DEF PaymentInv, PaidOnce, Paid
  <1>5. commissions' = commissions \cup
          {[trip |-> r.trip, gross |-> gross, commission |-> commission,
            earning |-> gross - commission]}
    BY DEF CommitPayment
  <1>6. settlements' = [settlements EXCEPT ![r.driver] = Credited(@, gross, commission)]
    BY DEF CommitPayment
  <1>7. settlements \in [Drivers -> Settlement]
    BY <1>1 DEF TablesOK
  <1> HIDE DEF r, gross, commission
  <1>8. charged(commissions') = charged(commissions) \cup {[trip |-> r.trip, fare |-> gross]}
    <2>1. \A cs, c : charged(cs \cup {c}) = charged(cs) \cup {[trip |-> c.trip, fare |-> c.gross]}
      OBVIOUS
    <2> HIDE DEF charged
    <2> QED BY <1>5, <2>1
  <1>9. [d \in Drivers |-> settlements'[d].earnings]
          = [[d \in Drivers |-> settlements[d].earnings] EXCEPT ![r.driver] = @ + gross]
    BY <1>2, <1>6, <1>7 DEF Settlement, Credited
  <1>10. [d \in Drivers |-> settlements'[d].commission]
           = [[d \in Drivers |-> settlements[d].commission]
                EXCEPT ![r.driver] = @ + CommissionOf(gross)]
    BY <1>2, <1>6, <1>7 DEF Settlement, Credited, commission
  <1>11. \A c \in charged(commissions) : c.trip # r.trip
    BY <1>4
  <1>12. PICK t \in Trips, d \in Drivers, fare \in Amounts :
            t = r.trip /\ d = r.driver /\ fare = gross
    BY <1>2, <1>3
  <1>13. TheLedger!Charge(t, d, fare)
    BY <1>8, <1>9, <1>10, <1>11, <1>12 DEF TheLedger!Charge
  <1> QED BY <1>13 DEF TheLedger!Next

\* The commission and settlement tables move as the abstract ledger says:
\* a charge, the credit and the debt it makes come in one step, once a trip.
\* (TripsService.confirmPayment)
THEOREM PaymentsImplementLedger == Spec => ImplementsLedger
  <1>1. Init => TheLedger!Init
    BY DEF Init, TheLedger!Init
  <1>2. IInv /\ PaymentInv /\ [Next]_vars => [TheLedger!Next]_TheLedger!ledgerVars
    <2> SUFFICES ASSUME IInv, PaymentInv, [Next]_vars
                 PROVE  TheLedger!Next \/ UNCHANGED TheLedger!ledgerVars
      OBVIOUS
    <2>1. CASE UNCHANGED ledger
      BY <2>1 DEF ledger, TheLedger!ledgerVars
    <2> QED BY <2>1, CommitIsCharge, OnlyPaymentsCharge
  <1> QED
    BY <1>1, <1>2, LocalsCorrect, PaymentInit, PaymentNext, PTL
    DEF Spec, ImplementsLedger, TheLedger!Spec
-----------------------------------------------------------------------------
(* Settlements. *)

\* What a commission adds to the totals of its driver.
GrossOf == [c \in Commission |-> c.gross]
CommissionIn == [c \in Commission |-> c.commission]

\* The commissions of the trips whose payment d confirmed.
Mine(d) == {c \in commissions : \E p \in payments : p.trip = c.trip /\ p.confirmedBy = d}

\* The inductive form of SettlementsBalance.
LedgerInv ==
  /\ IsFiniteSet(commissions)
  /\ \A d \in Drivers : /\ settlements[d].earnings = Total(GrossOf, Mine(d))
                        /\ settlements[d].commission = Total(CommissionIn, Mine(d))

\* The sum of the library is the sum of the lemmas.
LEMMA SumOfGross ==
  ASSUME NEW S \in SUBSET Commission, IsFiniteSet(S)
  PROVE  MapThenSumSet(LAMBDA c : c.gross, S) = Total(GrossOf, S)
  <1> DEFINE Body(g) == g = [s \in SUBSET S |->
                               IF s = {} THEN 0 ELSE Any(s).gross + g[s \ {Any(s)}]]
             sums == CHOOSE g : Body(g)
  <1>1. MapThenSumSet(LAMBDA c : c.gross, S) = sums[S]
    BY DEF MapThenSumSet, MapThenFoldSet, Any
  <1>2. ASSUME NEW k PROVE SumsUp(GrossOf, S, k) <=> Body(k)
    <2>1. \A s \in SUBSET S : s # {} => GrossOf[Any(s)] = Any(s).gross
      BY AnyIn DEF GrossOf
    <2> QED BY <2>1 DEF SumsUp
  <1>3. \E k : Body(k)
    BY <1>2, SumsExist
  <1>4. Body(sums)
    <2> HIDE DEF Body
    <2> QED BY <1>3, Zenon
  <1> HIDE DEF Body
  <1>5. SumsUp(GrossOf, S, sums)
    BY <1>2, <1>4
  <1> HIDE DEF sums
  <1> QED BY <1>1, <1>5, TotalIs

LEMMA SumOfCommissions ==
  ASSUME NEW S \in SUBSET Commission, IsFiniteSet(S)
  PROVE  MapThenSumSet(LAMBDA c : c.commission, S) = Total(CommissionIn, S)
  <1> DEFINE Body(g) == g = [s \in SUBSET S |->
                               IF s = {} THEN 0 ELSE Any(s).commission + g[s \ {Any(s)}]]
             sums == CHOOSE g : Body(g)
  <1>1. MapThenSumSet(LAMBDA c : c.commission, S) = sums[S]
    BY DEF MapThenSumSet, MapThenFoldSet, Any
  <1>2. ASSUME NEW k PROVE SumsUp(CommissionIn, S, k) <=> Body(k)
    <2>1. \A s \in SUBSET S : s # {} => CommissionIn[Any(s)] = Any(s).commission
      BY AnyIn DEF CommissionIn
    <2> QED BY <2>1 DEF SumsUp
  <1>3. \E k : Body(k)
    BY <1>2, SumsExist
  <1>4. Body(sums)
    <2> HIDE DEF Body
    <2> QED BY <1>3, Zenon
  <1> HIDE DEF Body
  <1>5. SumsUp(CommissionIn, S, sums)
    BY <1>2, <1>4
  <1> HIDE DEF sums
  <1> QED BY <1>1, <1>5, TotalIs

LEMMA LedgerInit == Init => LedgerInv
  <1> SUFFICES ASSUME Init PROVE LedgerInv
    OBVIOUS
  <1>1. commissions = {} /\ \A d \in Drivers : Mine(d) = {}
    BY DEF Init, Mine
  <1> QED BY <1>1, TotalEmpty, FS_EmptySet DEF Init, LedgerInv

\* The commit adds its commission to what its driver confirmed, and to
\* nobody else's.
LEMMA CommitAdds ==
  ASSUME IInv, PaymentInv, NEW s \in Slots, CommitPayment(s)
  PROVE  \E c \in Commission :
           /\ c \notin commissions /\ commissions' = commissions \cup {c}
           /\ settlements' = [settlements EXCEPT ![req[s].driver] =
                                Credited(@, c.gross, c.commission)]
           /\ \A d \in Drivers :
                Mine(d)' = IF d = req[s].driver THEN Mine(d) \cup {c} ELSE Mine(d)
  <1> DEFINE r == req[s]
             gross == IF r.mem.finalFare = NoFare THEN 0 ELSE r.mem.finalFare
             c == [trip |-> r.trip, gross |-> gross, commission |-> CommissionOf(gross),
                   earning |-> gross - CommissionOf(gross)]
             p == [trip |-> r.trip, confirmedBy |-> r.driver]
  <1>1. TablesOK /\ TablesOK' /\ ~Paid(r.trip) /\ PaidOnce
    BY Parts, PartsNext, CommitPaymentStep DEF CommitPayment, PaymentInv, OneLock
  <1>2. commissions' = commissions \cup {c} /\ payments' = payments \cup {p}
    BY DEF CommitPayment
  <1>3. settlements' = [settlements EXCEPT ![r.driver] = Credited(@, c.gross, c.commission)]
    BY DEF CommitPayment
  <1>4. c.trip = r.trip /\ p.trip = r.trip /\ p.confirmedBy = r.driver
    OBVIOUS
  <1> HIDE DEF c, p
  <1>5. \A e \in commissions : e.trip # r.trip
    BY <1>1 DEF PaidOnce, Paid
  <1>6. \A q \in payments : q.trip # r.trip
    BY <1>1 DEF Paid
  <1>7. c \in Commission /\ c \notin commissions
    BY <1>1, <1>2, <1>4, <1>5 DEF TablesOK
  <1>8. ASSUME NEW d \in Drivers
        PROVE  Mine(d)' = IF d = r.driver THEN Mine(d) \cup {c} ELSE Mine(d)
    <2>1. \A e \in commissions :
            (\E q \in payments' : q.trip = e.trip /\ q.confirmedBy = d)
              <=> \E q \in payments : q.trip = e.trip /\ q.confirmedBy = d
      BY <1>2, <1>4, <1>5
    <2>2. (\E q \in payments' : q.trip = c.trip /\ q.confirmedBy = d) <=> d = r.driver
      BY <1>2, <1>4, <1>6
    <2> QED BY <1>2, <2>1, <2>2 DEF Mine
  <1> QED BY <1>2, <1>3, <1>7, <1>8

LEMMA LedgerNext == IInv /\ PaymentInv /\ LedgerInv /\ [Next]_vars => LedgerInv'
  <1> SUFFICES ASSUME IInv, PaymentInv, LedgerInv, [Next]_vars PROVE LedgerInv'
    OBVIOUS
  <1>1. CASE UNCHANGED ledger
    BY <1>1 DEF ledger, LedgerInv, Mine
  <1>2. ASSUME NEW s \in Slots, CommitPayment(s) PROVE LedgerInv'
    <2> DEFINE r == req[s]
    <2>1. PICK c \in Commission :
            /\ c \notin commissions /\ commissions' = commissions \cup {c}
            /\ settlements' = [settlements EXCEPT ![r.driver] = Credited(@, c.gross, c.commission)]
            /\ \A d \in Drivers : Mine(d)' = IF d = r.driver THEN Mine(d) \cup {c} ELSE Mine(d)
      BY <1>2, CommitAdds
    <2>2. TablesOK /\ IsFiniteSet(commissions)
      BY Parts DEF LedgerInv
    <2>3. IsFiniteSet(commissions')
      BY <2>1, <2>2, FS_AddElement
    <2>4. ASSUME NEW d \in Drivers
          PROVE  /\ settlements'[d].earnings = Total(GrossOf, Mine(d)')
                 /\ settlements'[d].commission = Total(CommissionIn, Mine(d)')
      <3>1. IsFiniteSet(Mine(d)) /\ Mine(d) \subseteq Commission /\ c \notin Mine(d)
        BY <2>1, <2>2, FS_Subset DEF Mine, TablesOK
      <3>2. /\ settlements[d].earnings = Total(GrossOf, Mine(d))
            /\ settlements[d].commission = Total(CommissionIn, Mine(d))
        BY DEF LedgerInv
      <3>3. CASE d # r.driver
        BY <2>1, <2>2, <3>2, <3>3 DEF TablesOK
      <3>4. CASE d = r.driver
        <4>1. Mine(d)' = Mine(d) \cup {c} /\ settlements'[d] = Credited(settlements[d], c.gross, c.commission)
          BY <2>1, <2>2, <3>4 DEF TablesOK
        <4>2. \A e \in Mine(d) \cup {c} : GrossOf[e] \in Int /\ CommissionIn[e] \in Int
          BY <3>1 DEF GrossOf, CommissionIn, Commission
        <4>3. /\ Total(GrossOf, Mine(d) \cup {c}) = Total(GrossOf, Mine(d)) + GrossOf[c]
              /\ Total(CommissionIn, Mine(d) \cup {c}) = Total(CommissionIn, Mine(d)) + CommissionIn[c]
          BY <3>1, <4>2, TotalAdd
        <4> QED BY <3>2, <4>1, <4>3 DEF Credited, GrossOf, CommissionIn
      <3> QED BY <3>3, <3>4
    <2> QED BY <2>3, <2>4 DEF LedgerInv
  <1> QED BY <1>1, <1>2, OnlyPaymentsCharge

\* A driver's settlement is the sum of the commissions of the trips whose
\* payment the driver confirmed, whatever arrives together and wherever the
\* process dies. (TripsService.confirmPayment)
THEOREM SettlementsAddUp == Spec => []SettlementsBalance
  <1>1. IInv /\ LedgerInv => SettlementsBalance
    <2> SUFFICES ASSUME IInv, LedgerInv, NEW d \in Drivers
                 PROVE  /\ settlements[d].earnings = MapThenSumSet(LAMBDA c : c.gross, Mine(d))
                        /\ settlements[d].commission = MapThenSumSet(LAMBDA c : c.commission, Mine(d))
      BY DEF SettlementsBalance, Mine
    <2>1. IsFiniteSet(Mine(d)) /\ Mine(d) \in SUBSET Commission
      BY Parts, FS_Subset DEF LedgerInv, TablesOK, Mine
    <2> QED BY <2>1, SumOfGross, SumOfCommissions DEF LedgerInv
  <1> QED BY <1>1, LocalsCorrect, PaymentInit, PaymentNext, LedgerInit, LedgerNext, PTL DEF Spec
-----------------------------------------------------------------------------
(* Ratings. *)

\* No step but an insert touches the ratings.
LEMMA OnlyInsertsRate ==
  ASSUME [Next]_vars
  PROVE  UNCHANGED ratings \/ \E s \in Slots : InsertRating(s)
  <1>1. CASE UNCHANGED vars
    BY <1>1 DEF vars, tables
  <1>2. ASSUME NEW s \in Slots, Arrival(s) PROVE UNCHANGED ratings
    BY <1>2, Zenon DEF Arrival, Create, Review, Arrive, Start, Complete, Cancel, ConfirmPayment,
                StartDispatch, ManualAssign, Accept, Reject, Rate, UpdateStatus, ExpiryPass, tables
  <1>3. ASSUME NEW s \in Slots, Step(s), ~InsertRating(s) PROVE UNCHANGED ratings
    BY <1>3, Zenon DEF Step, CompareTrip, WriteTrip, RecordEvent, RecordAudit, FreeDriver,
                OccupyDriver, CheckDriver, CheckVehicle, LockTrip, CommitPayment,
                LoadForDispatch, RankCandidates, InsertOffer, InsertManualOffer, SaveAnswer,
                SkipOffer, ExpireOffer, CompareProfile, WriteProfile, tables
  <1>4. CASE \E d \in Drivers : EndAssignment(d)
    BY <1>4 DEF EndAssignment
  <1>5. CASE Crash
    BY <1>5 DEF Crash, tables
  <1> QED BY <1>1, <1>2, <1>3, <1>4, <1>5 DEF Next
=============================================================================
