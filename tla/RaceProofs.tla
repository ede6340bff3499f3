----------------------------- MODULE RaceProofs -----------------------------
(***************************************************************************)
(* Proofs about Taxi that ask nothing of its requests: any number of them  *)
(* interleave at every await and the process may die between any two.      *)
(* How often a driver is offered a trip, and that no trip is closed or     *)
(* rated before it is paid.                                                *)
(***************************************************************************)
EXTENDS SerialProofs

USE StoreAssumption DEF None, NoFare
-----------------------------------------------------------------------------
(* Offers. *)

\* Handler r chose a driver to offer its trip to.
Offering(r) == "offer" \in Range(r.todo)

\* The handlers about to offer trip t to driver d.
Offerers(t, d) == {s \in Slots : Offering(req[s]) /\ req[s].trip = t /\ req[s].driver = d}

\* The inductive invariant of OfferedOncePerHandler.  Once a driver had an
\* offer of a trip nobody chooses the driver for it again: what may still come
\* are the offers of those that had, and each of them has one left.
CountInv ==
  \A t \in Trips, d \in Drivers :
    AutomaticOffers(t, d) # {} =>
      Cardinality(AutomaticOffers(t, d)) + Cardinality(Offerers(t, d)) <= Cardinality(Slots)

\* An arriving request has not chosen a driver to offer its trip to.
LEMMA NoneOffered ==
  ASSUME IInv, NEW s \in Slots, Arrival(s)
  PROVE  ~Offering(req'[s]) /\ UNCHANGED offers
  <1> DEFINE n == req'[s]
  <1>1. ASSUME NEW t, Creates(t, n) \/ Moves(t, n) \/ Seeks(t, n)
        PROVE  "offer" \notin Range(n.todo)
    <2>1. Range(<<"rank">>) = {"rank"}
      BY Lists
    <2> HIDE DEF n
    <2> QED BY <1>1, <2>1 DEF Creates, Moves, Seeks
  <1>2. ASSUME NEW t, NEW d, Assigns(t, d, n) PROVE "offer" \notin Range(n.todo)
    BY <1>2 DEF Assigns
  <1>3. ASSUME NEW d, Shifting(d, n) PROVE "offer" \notin Range(n.todo)
    BY <1>3 DEF Shifting
  <1>4. ASSUME Asks(n) PROVE "offer" \notin Range(n.todo)
    BY <1>4 DEF Asks
  <1> HIDE DEF n
  <1> QED BY <1>1, <1>2, <1>3, <1>4, ArrivalKinds DEF n, Offering

\* A handler offers its trip to whom it ranked first, or to whom it had
\* chosen before and has not yet made the offer.
LEMMA OfferingComes ==
  ASSUME IInv, InOrder, NEW s \in Slots, Step(s), Offering(req'[s])
  PROVE  LET r == req[s]
             n == req'[s]
         IN  /\ ~InsertOffer(s)
             /\ n.trip = r.trip
             /\ \/ Offering(r) /\ n.driver = r.driver
                \/ n.driver \in Eligible(r.trip) /\ UNCHANGED offers
  <1> DEFINE r == req[s]
             n == req'[s]
             h == Head(r.todo)
  <1>1. "offer" \in Range(n.todo)
    BY DEF Offering
  <1>2. At(s, h) /\ \A stage : At(s, stage) => stage = h
    BY HandlerAwaits DEF At
  <1>3. InsertOffer(s) => h = "offer" /\ ~UNCHANGED tables
    <2>1. offers \in Seq(OfferRow)
      BY DEF IInv, TypeOK
    <2>2. \A o : Append(offers, o) # offers
      BY <2>1
    <2> QED BY <1>2, <2>2 DEF InsertOffer, tables
  <1> HIDE DEF r, n, h
  <1>4. Unfinished(n) /\ ~(Range(n.todo) \cap Guarded \subseteq {"rank"})
    BY <1>1, Lists DEF Unfinished, Guarded
  <1>5. CASE Stays(r, n) /\ UNCHANGED tables
    BY <1>1, <1>3, <1>5 DEF Stays, SameLocals, Offering, r, n
  <1>6. CASE /\ SameLocals(r, n)
             /\ Range(r.todo) = {h} \cup Range(n.todo)
             /\ \A b \in Range(n.todo) : MayFollow(h, b)
    <2>1. h # "offer" /\ "offer" \in Range(r.todo)
      BY <1>1, <1>6 DEF MayFollow
    <2> QED BY <1>3, <1>6, <2>1 DEF SameLocals, Offering, r, n
  <1>7. CASE h = "rank" /\ n.driver \in Eligible(r.trip) /\ n.trip = r.trip /\ UNCHANGED tables
    BY <1>3, <1>7 DEF tables, r, n
  <1> QED BY <1>4, <1>5, <1>6, <1>7, HandlerAwaits DEF n, r, h

\* The automatic offers when one more offer is inserted.
LEMMA AppendedOffer ==
  ASSUME IInv, NEW o, offers' = Append(offers, o), NEW t, NEW d
  PROVE  LET A == AutomaticOffers(t, d)
             i == Len(offers) + 1
         IN  /\ i \notin A
             /\ ~o.manual /\ o.trip = t /\ o.driver = d => AutomaticOffers(t, d)' = A \cup {i}
             /\ ~(~o.manual /\ o.trip = t /\ o.driver = d) => AutomaticOffers(t, d)' = A
  <1> DEFINE i == Len(offers) + 1
  <1>1. offers \in Seq(OfferRow)
    BY DEF IInv, TypeOK
  <1>2. Len(offers) \in Nat /\ DOMAIN offers = 1..Len(offers)
    BY <1>1
  <1>3. DOMAIN offers' = 1..i /\ offers'[i] = o /\ \A j \in DOMAIN offers : offers'[j] = offers[j]
    BY <1>1, <1>2
  <1>4. i \notin DOMAIN offers /\ DOMAIN offers' = DOMAIN offers \cup {i}
    BY <1>2, <1>3
  <1> HIDE DEF i
  <1> QED BY <1>3, <1>4 DEF AutomaticOffers, i

LEMMA FiniteOffers ==
  ASSUME IInv, NEW t, NEW d
  PROVE  IsFiniteSet(AutomaticOffers(t, d))
  <1>1. DOMAIN offers = 1..Len(offers) /\ Len(offers) \in Nat
    BY DEF IInv, TypeOK
  <1>2. IsFiniteSet(DOMAIN offers)
    BY <1>1, FS_Interval
  <1> QED BY <1>2, FS_Subset DEF AutomaticOffers

\* What a step does to the offers of one trip to one driver: it inserts one
\* that was coming, or leaves them alone.
LEMMA OffersOfStep ==
  ASSUME IInv, NEW s \in Slots, Step(s), NEW t, NEW d
  PROVE  \/ AutomaticOffers(t, d)' = AutomaticOffers(t, d)
         \/ /\ InsertOffer(s) /\ s \in Offerers(t, d)
            /\ Len(offers) + 1 \notin AutomaticOffers(t, d)
            /\ AutomaticOffers(t, d)' = AutomaticOffers(t, d) \cup {Len(offers) + 1}
  <1>1. offers \in Seq(OfferRow)
    BY DEF IInv, TypeOK
  <1>2. CASE offers' = offers
    BY <1>2 DEF AutomaticOffers
  <1>3. CASE SaveAnswer(s)
    <2>1. /\ DOMAIN offers' = DOMAIN offers
          /\ \A i \in DOMAIN offers : /\ offers'[i].trip = offers[i].trip
                                      /\ offers'[i].driver = offers[i].driver
                                      /\ offers'[i].manual = offers[i].manual
      BY <1>1, <1>3 DEF SaveAnswer, OfferRow
    <2> QED BY <2>1 DEF AutomaticOffers
  <1>4. CASE InsertManualOffer(s)
    <2> DEFINE o == [trip |-> req[s].trip, driver |-> req[s].driver, manual |-> TRUE,
                     response |-> "ACCEPTED"]
    <2>1. offers' = Append(offers, o) /\ o.manual
      BY <1>4 DEF InsertManualOffer
    <2> HIDE DEF o
    <2> QED BY <2>1, AppendedOffer
  <1>5. CASE InsertOffer(s)
    <2> DEFINE o == [trip |-> req[s].trip, driver |-> req[s].driver, manual |-> FALSE,
                     response |-> None]
    <2>1. offers' = Append(offers, o) /\ o.trip = req[s].trip /\ o.driver = req[s].driver
      BY <1>5 DEF InsertOffer
    <2> HIDE DEF o
    <2>2. Offering(req[s])
      <3>1. /\ req[s].todo \in Seq(Stage) /\ req[s].todo # <<>> /\ Head(req[s].todo) = "offer"
        BY <1>5 DEF InsertOffer, At, IInv, TypeOK, Request
      <3>2. 1 \in DOMAIN req[s].todo /\ req[s].todo[1] = "offer"
        BY <3>1
      <3> QED BY <3>2 DEF Range, Offering
    <2> QED BY <1>5, <2>1, <2>2, AppendedOffer DEF Offerers
  <1> QED BY <1>2, <1>3, <1>4, <1>5, StepWrites

LEMMA CountStep ==
  ASSUME IsFiniteSet(Slots), IInv, InOrder, CountInv, NEW s \in Slots, Step(s),
         NEW t \in Trips, NEW d \in Drivers, AutomaticOffers(t, d)' # {}
  PROVE  Cardinality(AutomaticOffers(t, d)') + Cardinality(Offerers(t, d)') <= Cardinality(Slots)
  <1> DEFINE A == AutomaticOffers(t, d)
             O == Offerers(t, d)
             i == Len(offers) + 1
  <1>1. \A q \in Slots \ {s} : req'[q] = req[q]
    BY StepLocks DEF KeepsOutside, TakesLock
  <1>2. /\ IsFiniteSet(A) /\ IsFiniteSet(O) /\ IsFiniteSet(O') /\ IsFiniteSet(Slots \ {s})
        /\ Cardinality(Slots \ {s}) = Cardinality(Slots) - 1
        /\ Cardinality(A) \in Nat /\ Cardinality(O) \in Nat /\ Cardinality(O') \in Nat
        /\ Cardinality(Slots) \in Nat
    BY FiniteOffers, FS_Subset, FS_RemoveElement, FS_CardinalityType DEF Offerers
  <1>3. A # {} => Cardinality(A) + Cardinality(O) <= Cardinality(Slots)
    BY DEF CountInv
  <1>4. A' # {}
    OBVIOUS
  <1>5. CASE A' = A
    <2>1. O' \subseteq O
      <3>1. ASSUME s \in O' PROVE s \in O
        <4>1. Offering(req'[s]) /\ req'[s].trip = t /\ req'[s].driver = d
          BY <3>1 DEF Offerers
        <4>2. ~(d \in Eligible(t))
          <5>1. PICK j \in DOMAIN offers : offers[j].trip = t /\ offers[j].driver = d
            BY <1>5 DEF AutomaticOffers
          <5> QED BY <5>1 DEF Eligible
        <4> QED BY <4>1, <4>2, OfferingComes DEF Offerers
      <3> QED BY <1>1, <3>1 DEF Offerers
    <2>2. Cardinality(O') <= Cardinality(O)
      BY <1>2, <2>1, FS_Subset
    <2>3. Cardinality(A') + Cardinality(O') <= Cardinality(Slots)
      <3> HIDE DEF A, O
      <3> QED BY <1>2, <1>3, <1>4, <1>5, <2>2
    <2> QED BY <2>3
  <1>6. CASE InsertOffer(s) /\ s \in O /\ i \notin A /\ A' = A \cup {i}
    <2>1. s \notin O'
      BY <1>6, OfferingComes DEF Offerers
    <2>2. O' \subseteq O \ {s} /\ O' \subseteq Slots \ {s}
      BY <1>1, <2>1 DEF Offerers
    <2>3. IsFiniteSet(O \ {s}) /\ Cardinality(O \ {s}) = Cardinality(O) - 1
      BY <1>2, <1>6, FS_RemoveElement
    <2>4. Cardinality(O') <= Cardinality(O) - 1 /\ Cardinality(O') <= Cardinality(Slots) - 1
      BY <1>2, <2>2, <2>3, FS_Subset
    <2>5. Cardinality(A') = Cardinality(A) + 1
      BY <1>2, <1>6, FS_AddElement
    <2>6. A = {} => Cardinality(A) = 0
      BY FS_EmptySet
    <2>7. Cardinality(A') + Cardinality(O') <= Cardinality(Slots)
      <3> HIDE DEF A, O, i
      <3> QED BY <1>2, <1>3, <2>4, <2>5, <2>6
    <2> QED BY <2>7
  <1> QED BY <1>5, <1>6, OffersOfStep

LEMMA CountNext ==
  ASSUME IsFiniteSet(Slots), IInv, InOrder, CountInv, [Next]_vars
  PROVE  CountInv'
  <1>1. ASSUME UNCHANGED offers, \A s \in Slots : req'[s] = req[s] \/ ~Offering(req'[s])
        PROVE  CountInv'
    <2> SUFFICES ASSUME NEW t \in Trips, NEW d \in Drivers, AutomaticOffers(t, d)' # {}
                 PROVE  Cardinality(AutomaticOffers(t, d)') + Cardinality(Offerers(t, d)')
                          <= Cardinality(Slots)
      BY DEF CountInv
    <2>1. AutomaticOffers(t, d)' = AutomaticOffers(t, d)
      BY <1>1 DEF AutomaticOffers
    <2>2. Offerers(t, d)' \subseteq Offerers(t, d) /\ IsFiniteSet(Offerers(t, d))
      BY <1>1, FS_Subset DEF Offerers
    <2>3. Cardinality(Offerers(t, d)') <= Cardinality(Offerers(t, d))
          /\ IsFiniteSet(Offerers(t, d)')
      BY <2>2, FS_Subset
    <2>4. /\ Cardinality(AutomaticOffers(t, d)) \in Nat /\ Cardinality(Slots) \in Nat
          /\ Cardinality(Offerers(t, d)) \in Nat /\ Cardinality(Offerers(t, d)') \in Nat
      BY <2>2, <2>3, FiniteOffers, FS_CardinalityType
    <2>5. Cardinality(AutomaticOffers(t, d)) + Cardinality(Offerers(t, d)) <= Cardinality(Slots)
      BY <2>1 DEF CountInv
    <2> QED BY <2>1, <2>3, <2>4, <2>5
  <1>2. ASSUME NEW s \in Slots, Step(s) PROVE CountInv'
    BY <1>2, CountStep DEF CountInv
  <1>3. ASSUME NEW s \in Slots, Arrival(s) PROVE CountInv'
    <2>1. \A q \in Slots \ {s} : req'[q] = req[q]
      BY <1>3, ArrivalLocks DEF KeepsOutside
    <2> QED BY <1>1, <1>3, <2>1, NoneOffered
  <1>4. CASE Crash
    <2>1. \A s \in Slots : ~Offering(req'[s])
      BY <1>4, Lists DEF Crash, Offering, NoRequest
    <2> QED BY <1>1, <1>4, <2>1 DEF Crash, tables
  <1>5. CASE UNCHANGED vars \/ \E d \in Drivers : EndAssignment(d)
    BY <1>1, <1>5 DEF vars, tables, EndAssignment
  <1> QED BY <1>2, <1>3, <1>4, <1>5 DEF Next

\* However many handlers look for a driver of one trip together, and wherever
\* the process dies: a driver has at most as many automatic offers of a trip as
\* handlers may be in flight.  (getEligibleCandidates, startDispatch)
THEOREM OffersAreCounted ==
  ASSUME IsFiniteSet(Slots)
  PROVE  Spec => []OfferedOncePerHandler
  <1>1. Init => CountInv
    <2>1. DOMAIN <<>> = {}
      OBVIOUS
    <2> QED BY <2>1 DEF Init, CountInv, AutomaticOffers
  <1>2. IInv /\ CountInv => OfferedOncePerHandler
    <2> SUFFICES ASSUME IInv, CountInv, NEW t \in Trips, NEW d \in Drivers
                 PROVE  Cardinality(AutomaticOffers(t, d)) <= Cardinality(Slots)
      BY DEF OfferedOncePerHandler
    <2>1. IsFiniteSet(Offerers(t, d))
      BY FS_Subset DEF Offerers
    <2>2. /\ Cardinality(AutomaticOffers(t, d)) \in Nat /\ Cardinality(Slots) \in Nat
          /\ Cardinality(Offerers(t, d)) \in Nat
      BY <2>1, FiniteOffers, FS_CardinalityType
    <2>3. AutomaticOffers(t, d) = {} => Cardinality(AutomaticOffers(t, d)) = 0
      BY FS_EmptySet
    <2> QED BY <2>2, <2>3 DEF CountInv
  <1>3. IInv /\ InOrder /\ CountInv /\ [Next]_vars => CountInv'
    BY CountNext
  <1> QED BY <1>1, <1>2, <1>3, LocalsCorrect, OrderInit, OrderNext, PTL DEF Spec
-----------------------------------------------------------------------------
(* Payment before closing, and before rating. *)

PaidFor == {"PAYMENT_CONFIRMED", "CLOSED"}

\* What a handler knows: the copy it has still to save leaves the closing to
\* the payment, and what it is about to rate is paid.
Knows(r) ==
  /\ "save" \in Range(r.todo) => r.mem.status \notin PaidFor
  /\ Rates(r) => Paid(r.trip)

\* The inductive invariant of ClosedOrRatedIsPaid: a stale copy may be saved
\* over a closed trip, but none of them can close one.
PaidInv == ClosedOrRatedIsPaid /\ \A s \in Slots : Knows(req[s])

\* An arriving request does not close its trip, and rates one it found paid.
LEMMA ArrivingKnows ==
  ASSUME IInv, PaidInv, NEW s \in Slots, Arrival(s)
  PROVE  PaidInv'
  <1> DEFINE n == req'[s]
  <1>1. /\ payments' = payments /\ ratings' = ratings
        /\ \A q \in Slots \ {s} : req'[q] = req[q]
    BY ArrivalKinds, ArrivalLocks DEF ledger, KeepsOutside
  <1>2. ASSUME NEW t \in Trips, Creates(t, n)
        PROVE  /\ ~Rates(n) /\ "save" \notin Range(n.todo)
               /\ \A u \in Trips : trips'[u].status \in PaidFor => trips'[u] = trips[u]
    BY <1>2 DEF Creates, Rates, PaidFor, IInv, TypeOK
  <1>3. ASSUME NEW t \in Trips, Moves(t, n)
        PROVE  ~Rates(n) /\ n.mem.status \notin PaidFor /\ UNCHANGED trips
    BY <1>3 DEF Moves, Rates, PaidFor, CANCELLED_STATES
  <1>4. ASSUME NEW t \in Trips, Seeks(t, n)
        PROVE  ~Rates(n) /\ "save" \notin Range(n.todo) /\ UNCHANGED trips
    <2>1. Range(<<"rank">>) = {"rank"}
      BY Lists
    <2> HIDE DEF n
    <2> QED BY <1>4, <2>1 DEF Seeks, Rates
  <1>5. ASSUME NEW t, NEW d, Assigns(t, d, n)
        PROVE  ~Rates(n) /\ n.mem.status \notin PaidFor /\ UNCHANGED trips
    BY <1>5 DEF Assigns, Rates, PaidFor
  <1>6. ASSUME NEW d, Shifting(d, n)
        PROVE  ~Rates(n) /\ "save" \notin Range(n.todo) /\ UNCHANGED trips
    BY <1>6 DEF Shifting, Rates
  <1>7. ASSUME Asks(n)
        PROVE  /\ "save" \notin Range(n.todo) /\ UNCHANGED trips
               /\ Rates(n) => Paid(n.trip)
    BY <1>7 DEF Asks, PaidInv, ClosedOrRatedIsPaid
  <1> HIDE DEF n
  <1>8. /\ "save" \in Range(n.todo) => n.mem.status \notin PaidFor
        /\ Rates(n) => Paid(n.trip)
        /\ \A u \in Trips : trips'[u].status \in PaidFor => trips'[u] = trips[u]
    BY <1>2, <1>3, <1>4, <1>5, <1>6, <1>7, ArrivalKinds DEF n
  <1>9. \A u : Paid(u)' <=> Paid(u)
    BY <1>1 DEF Paid
  <1>10. Knows(req[s])'
    BY <1>8, <1>9 DEF Knows, n, Rates
  <1>11. \A q \in Slots : Knows(req[q])'
    BY <1>1, <1>9, <1>10 DEF PaidInv, Knows, Rates
  <1>12. ClosedOrRatedIsPaid'
    BY <1>1, <1>8, <1>9 DEF PaidInv, ClosedOrRatedIsPaid, PaidFor
  <1> QED BY <1>11, <1>12 DEF PaidInv

\* What a handler knows it knows after its next await.
LEMMA StillKnows ==
  ASSUME IInv, InOrder, NEW s \in Slots, Step(s), Knows(req[s])
  PROVE  LET n == req'[s]
         IN  /\ "save" \in Range(n.todo) => n.mem.status \notin PaidFor
             /\ Rates(n) => Rates(req[s]) /\ n.trip = req[s].trip
  <1> DEFINE r == req[s]
             n == req'[s]
             h == Head(r.todo)
  <1>1. CASE ~Unfinished(n)
    BY <1>1, Lists DEF Unfinished, Rates
  <1>2. CASE Stays(r, n)
    BY <1>2 DEF Stays, SameLocals, Knows, Rates
  <1>3. CASE SameLocals(r, n) /\ Range(r.todo) = {h} \cup Range(n.todo)
    BY <1>3 DEF SameLocals, Knows, Rates
  <1>4. CASE /\ Range(n.todo) \cap Guarded = {"save", "offer", "event"}
             /\ n.mem = [r.mem EXCEPT !.status = "SEARCHING_DRIVER"]
    <2>1. r.mem \in TripEntity
      BY DEF IInv, TypeOK, Request
    <2>2. n.mem.status = "SEARCHING_DRIVER"
      BY <1>4, <2>1 DEF TripEntity
    <2>3. ~Rates(n)
      BY <1>4 DEF Guarded, Rates
    <2> QED BY <2>2, <2>3 DEF PaidFor
  <1>5. CASE Range(n.todo) \cap Guarded \subseteq {"rank"}
    BY <1>5 DEF Guarded, Rates
  <1> HIDE DEF r, n, h
  <1> QED BY <1>1, <1>2, <1>3, <1>4, <1>5, HandlerAwaits DEF r, n, h

\* A step closes a trip only by paying it.
LEMMA ClosingPays ==
  ASSUME IInv, NEW s \in Slots, Step(s), Knows(req[s]),
         NEW t \in Trips, trips'[t].status \in PaidFor
  PROVE  trips[t].status \in PaidFor \/ Paid(t)'
  <1>1. CASE trips' = trips
    BY <1>1
  <1>2. CASE WriteTrip(s)
    <2>1. "save" \in Range(req[s].todo)
      <3>1. req[s].todo \in Seq(Stage) /\ req[s].todo # <<>> /\ Head(req[s].todo) = "save"
        BY <1>2 DEF WriteTrip, At, IInv, TypeOK, Request
      <3>2. 1 \in DOMAIN req[s].todo /\ req[s].todo[1] = "save"
        BY <3>1
      <3> QED BY <3>2 DEF Range
    <2>2. trips'[t] = trips[t] \/ trips'[t].status \in {req[s].mem.status, trips[t].status}
      BY <1>2 DEF WriteTrip, Updated, IInv, TypeOK
    <2> QED BY <2>1, <2>2 DEF Knows
  <1>3. CASE CommitPayment(s)
    <2>1. [trip |-> req[s].trip, confirmedBy |-> req[s].driver] \in payments'
      BY <1>3 DEF CommitPayment
    <2>2. t = req[s].trip => Paid(t)'
      BY <2>1 DEF Paid
    <2>3. t # req[s].trip => trips'[t] = trips[t]
      BY <1>3 DEF CommitPayment, IInv, TypeOK
    <2> QED BY <2>2, <2>3
  <1> QED BY <1>1, <1>2, <1>3, StepWrites

LEMMA PaidStep ==
  ASSUME IInv, InOrder, PaidInv, NEW s \in Slots, Step(s)
  PROVE  PaidInv'
  <1> DEFINE paid(u) == \E p \in payments' : p.trip = u
  <1>1. \A u : Paid(u) => paid(u)
    BY PaymentsStay DEF Paid, Next
  <1>2. \A q \in Slots \ {s} : req'[q] = req[q]
    BY StepLocks DEF KeepsOutside, TakesLock
  <1>3. Knows(req[s])
    BY DEF PaidInv
  <1>4. Knows(req[s])'
    <2> DEFINE n == req'[s]
    <2>1. /\ "save" \in Range(n.todo) => n.mem.status \notin PaidFor
          /\ Rates(n) => Rates(req[s]) /\ n.trip = req[s].trip
      BY <1>3, StillKnows
    <2>2. Rates(n) => paid(n.trip)
      BY <1>1, <1>3, <2>1 DEF Knows
    <2> QED BY <2>1, <2>2 DEF Knows, Rates, Paid
  <1>5. \A q \in Slots : Knows(req[q])'
    BY <1>1, <1>2, <1>4 DEF PaidInv, Knows, Rates, Paid
  <1>6. \A t \in Trips : trips'[t].status \in PaidFor => paid(t)
    BY <1>1, <1>3, ClosingPays DEF PaidInv, ClosedOrRatedIsPaid, PaidFor, Paid
  <1>7. \A i \in DOMAIN ratings' : paid(ratings'[i].trip)
    <2>1. CASE UNCHANGED ratings
      BY <1>1, <2>1 DEF PaidInv, ClosedOrRatedIsPaid
    <2>2. ASSUME NEW q \in Slots, InsertRating(q)
          PROVE  \A i \in DOMAIN ratings' : paid(ratings'[i].trip)
      <3> DEFINE row == [trip |-> req[q].trip, driver |-> req[q].driver,
                         byDriver |-> At(q, "driverRates")]
      <3>1. row.trip = req[q].trip /\ ratings' \in {ratings, Append(ratings, row)}
        BY <2>2 DEF InsertRating
      <3>2. Paid(req[q].trip)
        <4>1. /\ req[q].todo \in Seq(Stage) /\ req[q].todo # <<>>
              /\ Head(req[q].todo) \in {"passengerRates", "driverRates"}
          BY <2>2 DEF InsertRating, At, IInv, TypeOK, Request
        <4>2. 1 \in DOMAIN req[q].todo /\ req[q].todo[1] \in {"passengerRates", "driverRates"}
          BY <4>1
        <4> QED BY <4>2 DEF Range, Rates, PaidInv, Knows
      <3>3. ratings \in Seq(RatingRow)
        BY DEF IInv, TypeOK
      <3> HIDE DEF row
      <3>4. \A i \in DOMAIN ratings' :
              ratings'[i] = row \/ (i \in DOMAIN ratings /\ ratings'[i] = ratings[i])
        BY <3>1, <3>3
      <3> QED BY <1>1, <3>1, <3>2, <3>4 DEF PaidInv, ClosedOrRatedIsPaid
    <2> QED BY <2>1, <2>2, OnlyInsertsRate DEF Next
  <1> QED BY <1>5, <1>6, <1>7 DEF PaidInv, ClosedOrRatedIsPaid, PaidFor, Paid

LEMMA PaidNext ==
  ASSUME IInv, InOrder, PaidInv, [Next]_vars
  PROVE  PaidInv'
  <1>1. ASSUME UNCHANGED <<trips, payments, ratings, req>> PROVE PaidInv'
    BY <1>1 DEF PaidInv, ClosedOrRatedIsPaid, Paid, Knows, Rates
  <1>2. CASE Crash
    <2>1. \A s \in Slots : req'[s].todo = <<>>
      BY <1>2 DEF Crash, NoRequest
    <2>2. UNCHANGED <<trips, payments, ratings>>
      BY <1>2 DEF Crash, tables, ledger
    <2> QED BY <2>1, <2>2, Lists DEF PaidInv, ClosedOrRatedIsPaid, Paid, Knows, Rates
  <1>3. CASE UNCHANGED vars \/ \E d \in Drivers : EndAssignment(d)
    BY <1>1, <1>3 DEF vars, tables, EndAssignment, ledger
  <1> QED BY <1>2, <1>3, PaidStep, ArrivingKnows DEF Next

\* Whatever interleaves with the payment and wherever the process dies, a trip
\* is closed, and rated, only once its payment stands.  (confirmPayment, rate)
THEOREM ClosedAndRatedArePaid == Spec => []ClosedOrRatedIsPaid
  <1>1. Init => PaidInv
    <2> SUFFICES ASSUME Init PROVE PaidInv
      OBVIOUS
    <2>1. \A t \in Trips : trips[t].status = None
      BY DEF Init, NoRow
    <2>2. \A s \in Slots : req[s].todo = <<>>
      BY DEF Init, NoRequest
    <2>3. ratings = <<>> /\ DOMAIN <<>> = {}
      BY DEF Init
    <2> QED BY <2>1, <2>2, <2>3, Lists DEF PaidInv, ClosedOrRatedIsPaid, Knows, Rates
  <1>2. PaidInv => ClosedOrRatedIsPaid
    BY DEF PaidInv
  <1> QED BY <1>1, <1>2, LocalsCorrect, OrderInit, OrderNext, PaidNext, PTL DEF Spec
=============================================================================
