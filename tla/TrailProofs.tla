----------------------------- MODULE TrailProofs ----------------------------
(***************************************************************************)
(* Proofs about the log of a trip, for any number of handlers in flight,   *)
(* in a process that does not die: an event and the row it is about are    *)
(* written by two statements of no transaction, and a crash between them   *)
(* is what breaks the trail.  Stale copies do not: a handler logs the      *)
(* state it loaded and the state it saved, whatever others did meanwhile.  *)
(***************************************************************************)
EXTENDS SerialProofs

USE StoreAssumption DEF None, NoFare

\* Handler r has saved a move of trip t, and is yet to log it.
Logging(r, t) ==
  "event" \in Range(r.todo) /\ "save" \notin Range(r.todo) /\ r.trip = t

\* The states the log es says trip t reached, or a handler of rq is to say.
Told(es, rq, t) ==
  {e.to : e \in {e \in es : e.trip = t}}
    \cup {rq[s].mem.status : s \in {s \in Slots : Logging(rq[s], t)}}

\* Whoever may save a trip logs it afterwards; what a handler is to log, or to
\* look for, leaves a state that was told, and so does the payment.
Departs(r) ==
  /\ {"event", "rank"} \cap Range(r.todo) # {} =>
       r.from = None \/ r.from \in Told(events, req, r.trip)
  /\ {"check", "vehicle", "save"} \cap Range(r.todo) # {} =>
       {"save", "event"} \subseteq Range(r.todo)

\* The inductive invariant of TrailUnbroken.
TrailInv ==
  /\ \A e \in events : e.from = None \/ e.from \in Told(events, req, e.trip)
  /\ \A s \in Slots : Departs(req[s])
  /\ \A s \in Slots : At(s, "commit") => "PAYMENT_PENDING" \in Told(events, req, req[s].trip)
  /\ \A t \in Trips : trips[t].status = None \/ trips[t].status \in Told(events, req, t)

\* What was told stays told if the log grows, and every handler that was to
\* log something still is, or has.
LEMMA TellingGrows ==
  ASSUME events \subseteq events', NEW s \in Slots, \A q \in Slots \ {s} : req'[q] = req[q],
         \A t : Logging(req[s], t) =>
            \/ Logging(req'[s], t) /\ req'[s].mem = req[s].mem
            \/ \E e \in events' : e.trip = t /\ e.to = req[s].mem.status
  PROVE  \A t : Told(events, req, t) \subseteq Told(events', req', t)
  <1> SUFFICES ASSUME NEW t, NEW to \in Told(events, req, t) PROVE to \in Told(events', req', t)
    OBVIOUS
  <1>1. CASE \E e \in events : e.trip = t /\ e.to = to
    BY <1>1 DEF Told
  <1>2. CASE \E q \in Slots : Logging(req[q], t) /\ req[q].mem.status = to
    <2>1. PICK q \in Slots : Logging(req[q], t) /\ req[q].mem.status = to
      BY <1>2
    <2>2. CASE Logging(req'[q], t) /\ req'[q].mem = req[q].mem
      BY <2>1, <2>2 DEF Told, Logging
    <2>3. CASE \E e \in events' : e.trip = t /\ e.to = to
      BY <2>3 DEF Told
    <2> QED BY <2>1, <2>2, <2>3
  <1> QED BY <1>1, <1>2 DEF Told

\* The trail survives a step that takes nothing back, if what it adds leaves a
\* state that was told.
LEMMA TrailKept ==
  ASSUME TrailInv, NEW s \in Slots, \A q \in Slots \ {s} : req'[q] = req[q],
         \A t : Told(events, req, t) \subseteq Told(events', req', t),
         \A e \in events' \ events : e.from = None \/ e.from \in Told(events', req', e.trip),
         Departs(req[s])',
         At(s, "commit")' => "PAYMENT_PENDING" \in Told(events', req', req'[s].trip),
         \A t \in Trips : trips'[t].status \in {trips[t].status, None} \cup Told(events', req', t)
  PROVE  TrailInv'
  <1>1. \A e \in events' : e.from = None \/ e.from \in Told(events', req', e.trip)
    BY DEF TrailInv
  <1>2. ASSUME NEW q \in Slots, q # s
        PROVE  /\ Departs(req[q])'
               /\ (At(q, "commit")' => "PAYMENT_PENDING" \in Told(events', req', req'[q].trip))
    <2>1. req'[q] = req[q] /\ Departs(req[q])
          /\ (At(q, "commit") => "PAYMENT_PENDING" \in Told(events, req, req[q].trip))
      BY <1>2 DEF TrailInv
    <2> QED BY <2>1 DEF Departs, At
  <1>3. \A t \in Trips : trips'[t].status = None \/ trips'[t].status \in Told(events', req', t)
    BY DEF TrailInv
  <1> QED BY <1>1, <1>2, <1>3 DEF TrailInv
-----------------------------------------------------------------------------
(* The steps. *)

LEMMA TrailArrival ==
  ASSUME IInv, TrailInv, NEW s \in Slots, Arrival(s)
  PROVE  TrailInv'
  <1> DEFINE n == req'[s]
  <1>1. Idle(s) /\ events' = events
    BY ArrivalKinds
  <1>2. ~At(s, "commit")' /\ \A q \in Slots \ {s} : req'[q] = req[q]
    BY ArrivalLocks DEF KeepsOutside
  <1>3. \A t : Told(events, req, t) \subseteq Told(events', req', t)
    <2>1. Range(req[s].todo) = {}
      BY <1>1, Lists DEF Idle
    <2>2. \A t : ~Logging(req[s], t)
      BY <2>1 DEF Logging
    <2> QED BY <1>1, <1>2, <2>2, TellingGrows
  <1>4. \/ /\ UNCHANGED trips
           /\ {"event", "rank"} \cap Range(n.todo) # {} =>
                n.trip \in Trips /\ n.from = trips[n.trip].status
           /\ {"check", "vehicle", "save"} \cap Range(n.todo) # {} =>
                {"save", "event"} \subseteq Range(n.todo)
        \/ \E t \in Trips : Creates(t, n)
    <2>1. ASSUME NEW t \in Trips, Moves(t, n)
          PROVE  /\ UNCHANGED trips /\ n.trip \in Trips /\ n.from = trips[n.trip].status
                 /\ {"save", "event"} \subseteq Range(n.todo)
      BY <2>1 DEF Moves
    <2>2. ASSUME NEW t \in Trips, NEW d, Assigns(t, d, n)
          PROVE  /\ UNCHANGED trips /\ n.trip \in Trips /\ n.from = trips[n.trip].status
                 /\ {"save", "event"} \subseteq Range(n.todo)
      BY <2>2 DEF Assigns
    <2>3. ASSUME NEW t \in Trips, Seeks(t, n)
          PROVE  /\ UNCHANGED trips /\ n.trip \in Trips /\ n.from = trips[n.trip].status
                 /\ {"check", "vehicle", "save"} \cap Range(n.todo) = {}
      BY <2>3, Lists DEF Seeks
    <2>4. ASSUME NEW d, Shifting(d, n)
          PROVE  /\ UNCHANGED trips
                 /\ Range(n.todo) \cap {"event", "rank", "check", "vehicle", "save"} = {}
      BY <2>4 DEF Shifting
    <2>5. ASSUME Asks(n)
          PROVE  /\ UNCHANGED trips
                 /\ Range(n.todo) \cap {"event", "rank", "check", "vehicle", "save"} = {}
      BY <2>5 DEF Asks
    <2> HIDE DEF n
    <2> QED BY <2>1, <2>2, <2>3, <2>4, <2>5, ArrivalKinds DEF n
  <1>5. CASE /\ UNCHANGED trips
             /\ {"event", "rank"} \cap Range(n.todo) # {} =>
                  n.trip \in Trips /\ n.from = trips[n.trip].status
             /\ {"check", "vehicle", "save"} \cap Range(n.todo) # {} =>
                  {"save", "event"} \subseteq Range(n.todo)
    <2>1. Departs(req[s])'
      BY <1>3, <1>5 DEF Departs, TrailInv
    <2> QED BY <1>1, <1>2, <1>3, <1>5, <2>1, TrailKept
  <1>6. ASSUME NEW t \in Trips, Creates(t, n) PROVE TrailInv'
    <2>1. /\ n.trip = t /\ n.from = None /\ trips' = [trips EXCEPT ![t] = n.mem]
          /\ "event" \in Range(n.todo)
          /\ {"check", "vehicle", "save"} \cap Range(n.todo) = {}
      BY <1>6 DEF Creates
    <2>2. trips'[t] = n.mem /\ \A u \in Trips \ {t} : trips'[u] = trips[u]
      BY <2>1 DEF IInv, TypeOK
    <2>3. Departs(req[s])'
      BY <2>1 DEF Departs
    <2>4. n.mem.status \in Told(events', req', t)
      <3>1. Logging(n, t)
        BY <2>1 DEF Logging
      <3> QED BY <3>1 DEF Told, Logging
    <2> QED BY <1>1, <1>2, <1>3, <2>2, <2>3, <2>4, TrailKept
  <1> QED BY <1>4, <1>5, <1>6

\* A move that was saved stays to be logged until it is.
LEMMA StillLogging ==
  ASSUME IInv, InOrder, TrailInv, NEW s \in Slots, Step(s), ~RecordEvent(s),
         "event" \in Range(req[s].todo), WriteTrip(s) \/ "save" \notin Range(req[s].todo)
  PROVE  Logging(req'[s], req[s].trip) /\ SameLocals(req[s], req'[s])
  <1>1. /\ At(s, Head(req[s].todo)) /\ \A stage : At(s, stage) => stage \in Range(req[s].todo)
    BY HandlerAwaits DEF At
  <1>2. ~At(s, "event")
    BY StepAt
  <1>3. WriteTrip(s) => At(s, "save")
    BY DEF WriteTrip
  <1>4. ~At(s, "check") /\ ~At(s, "vehicle")
    BY <1>1, <1>3 DEF At, TrailInv, Departs
  <1> QED BY <1>2, <1>3, <1>4, StillAwaits DEF Logging, SameLocals

\* No step takes back what was told.
LEMMA ToldStays ==
  ASSUME IInv, InOrder, TrailInv, NEW s \in Slots, Step(s)
  PROVE  \A t : Told(events, req, t) \subseteq Told(events', req', t)
  <1>1. events \subseteq events'
    BY StepWrites DEF RecordEvent, CommitPayment
  <1>2. \A q \in Slots \ {s} : req'[q] = req[q]
    BY StepLocks DEF KeepsOutside, TakesLock
  <1>3. ASSUME NEW t, Logging(req[s], t)
        PROVE  \/ Logging(req'[s], t) /\ req'[s].mem = req[s].mem
               \/ \E e \in events' : e.trip = t /\ e.to = req[s].mem.status
    <2>1. CASE RecordEvent(s)
      <3> DEFINE e == [trip |-> req[s].trip, from |-> req[s].from, to |-> req[s].mem.status]
      <3>1. e \in events' /\ e.trip = t /\ e.to = req[s].mem.status
        BY <1>3, <2>1 DEF RecordEvent, Logging
      <3> HIDE DEF e
      <3> QED BY <3>1
    <2>2. CASE ~RecordEvent(s)
      BY <1>3, <2>2, StillLogging DEF Logging, SameLocals
    <2> QED BY <2>1, <2>2
  <1> QED BY <1>1, <1>2, <1>3, TellingGrows

\* What a step adds to the log leaves a state that was told.
LEMMA EventsLinked ==
  ASSUME IInv, InOrder, TrailInv, NEW s \in Slots, Step(s)
  PROVE  /\ \A e \in events' \ events : e.from = None \/ e.from \in Told(events', req', e.trip)
         /\ CommitPayment(s) => "CLOSED" \in Told(events', req', req[s].trip)
  <1> DEFINE r == req[s]
  <1>1. \A t : Told(events, req, t) \subseteq Told(events', req', t)
    BY ToldStays
  <1>2. \A stage : At(s, stage) => stage \in Range(r.todo)
    BY HandlerAwaits DEF At
  <1>3. ASSUME RecordEvent(s)
        PROVE  \A e \in events' \ events : e.from = None \/ e.from \in Told(events', req', e.trip)
    <2> DEFINE e == [trip |-> r.trip, from |-> r.from, to |-> r.mem.status]
    <2>1. events' = events \cup {e} /\ e.trip = r.trip /\ e.from = r.from
      BY <1>3 DEF RecordEvent
    <2>2. "event" \in Range(r.todo)
      BY <1>2, <1>3 DEF RecordEvent
    <2>3. r.from = None \/ r.from \in Told(events', req', r.trip)
      BY <1>1, <2>2 DEF TrailInv, Departs
    <2> HIDE DEF e, r
    <2> QED BY <2>1, <2>3
  <1>4. ASSUME CommitPayment(s)
        PROVE  /\ \A e \in events' \ events :
                    e.from = None \/ e.from \in Told(events', req', e.trip)
               /\ "CLOSED" \in Told(events', req', r.trip)
    <2> DEFINE e == [trip |-> r.trip, from |-> "PAYMENT_PENDING", to |-> "PAYMENT_CONFIRMED"]
               f == [trip |-> r.trip, from |-> "PAYMENT_CONFIRMED", to |-> "CLOSED"]
    <2>1. /\ events' = events \cup {e, f}
          /\ e.trip = r.trip /\ e.from = "PAYMENT_PENDING" /\ e.to = "PAYMENT_CONFIRMED"
          /\ f.trip = r.trip /\ f.from = "PAYMENT_CONFIRMED" /\ f.to = "CLOSED"
      BY <1>4 DEF CommitPayment
    <2>2. "PAYMENT_PENDING" \in Told(events', req', r.trip)
      BY <1>1, <1>4 DEF CommitPayment, TrailInv
    <2> HIDE DEF e, f, r
    <2>3. {"PAYMENT_CONFIRMED", "CLOSED"} \subseteq Told(events', req', r.trip)
      <3>1. e \in events' /\ f \in events'
        BY <2>1
      <3> QED BY <2>1, <3>1 DEF Told
    <2> QED BY <2>1, <2>2, <2>3
  <1> QED BY <1>3, <1>4, StepWrites

LEMMA DepartsStep ==
  ASSUME IInv, InOrder, TrailInv, NEW s \in Slots, Step(s)
  PROVE  Departs(req[s])'
  <1> DEFINE r == req[s]
             n == req'[s]
             h == Head(r.todo)
             Leaves == {"event", "rank"} \cap Range(n.todo) # {} =>
                         n.from = None \/ n.from \in Told(events', req', n.trip)
             Logs == {"check", "vehicle", "save"} \cap Range(n.todo) # {} =>
                       {"save", "event"} \subseteq Range(n.todo)
  <1>1. Departs(r) /\ \A t : Told(events, req, t) \subseteq Told(events', req', t)
    BY ToldStays DEF TrailInv
  <1>2. \A t \in Trips : trips[t].status = None \/ trips[t].status \in Told(events', req', t)
    BY <1>1 DEF TrailInv
  <1>3. Leaves /\ Logs
    <2>1. CASE ~Unfinished(n)
      BY <2>1, Lists DEF Unfinished
    <2>2. CASE Stays(r, n)
      BY <1>1, <2>2 DEF Stays, SameLocals, Departs
    <2>3. CASE /\ SameLocals(r, n)
               /\ Range(r.todo) = {h} \cup Range(n.todo)
               /\ \A b \in Range(n.todo) : MayFollow(h, b)
      BY <1>1, <2>3 DEF SameLocals, Departs, MayFollow
    <2>4. CASE /\ h = "rank"
               /\ Range(n.todo) \cap Guarded = {"save", "offer", "event"}
               /\ Range(r.todo) \cap Guarded = {"rank"}
               /\ n.trip = r.trip /\ n.from = r.from
      BY <1>1, <2>4 DEF Departs, Guarded
    <2>5. CASE /\ Range(n.todo) \cap Guarded \subseteq {"rank"}
               /\ "rank" \in Range(n.todo) =>
                    At(s, "load") /\ n.trip = r.trip /\ n.from = trips[r.trip].status
      <3>1. At(s, "load") => r.trip \in Trips
        BY Parts, TripAt
      <3> QED BY <1>2, <2>5, <3>1 DEF Guarded
    <2> HIDE DEF Leaves, Logs, r, n, h
    <2> QED BY <2>1, <2>2, <2>3, <2>4, <2>5, HandlerAwaits DEF r, n, h
  <1> QED BY <1>3 DEF Departs

\* A save makes the state its handler is about to log, a payment one it logs.
LEMMA SavesAreTold ==
  ASSUME IInv, InOrder, TrailInv, NEW s \in Slots, Step(s), NEW t \in Trips
  PROVE  trips'[t].status \in {trips[t].status} \cup Told(events', req', t)
  <1> DEFINE r == req[s]
             n == req'[s]
  <1>1. CASE WriteTrip(s)
    <2>1. "save" \in Range(r.todo)
      BY <1>1, HandlerAwaits DEF WriteTrip, At
    <2>2. "event" \in Range(r.todo) /\ ~RecordEvent(s)
      BY <1>1, <2>1 DEF TrailInv, Departs, WriteTrip, RecordEvent, At
    <2>3. Logging(n, r.trip) /\ n.mem = r.mem
      BY <1>1, <2>2, StillLogging DEF SameLocals
    <2>4. r.mem.status \in Told(events', req', r.trip)
      BY <2>3 DEF Told, Logging
    <2>5. trips' = [trips EXCEPT ![r.trip] = Updated(@, r.mem, r.dirty)]
      BY <1>1 DEF WriteTrip
    <2>6. CASE t = r.trip
      BY <2>4, <2>5, <2>6 DEF IInv, TypeOK, Updated
    <2>7. CASE t # r.trip
      BY <2>5, <2>7
    <2> QED BY <2>6, <2>7
  <1>2. CASE CommitPayment(s)
    <2>1. /\ "CLOSED" \in Told(events', req', r.trip)
          /\ trips' = [trips EXCEPT ![r.trip].status = "CLOSED"]
      BY <1>2, EventsLinked DEF CommitPayment
    <2> QED BY <2>1 DEF IInv, TypeOK, TripRow
  <1> QED BY <1>1, <1>2, StepWrites

\* The lock of a payment is taken on a trip that is to be paid.
LEMMA LockedWasPending ==
  ASSUME IInv, InOrder, TrailInv, NEW s \in Slots, Step(s), At(s, "commit")'
  PROVE  "PAYMENT_PENDING" \in Told(events', req', req'[s].trip)
  <1>1. LockTrip(s) /\ req'[s].trip = req[s].trip
    BY StepLocks DEF KeepsOutside, TakesLock
  <1>2. req[s].trip \in Trips
    BY <1>1, Parts, TripAt DEF LockTrip
  <1>3. MayCharge(s)
    <2> SUFFICES ASSUME Return(s) PROVE FALSE
      BY <1>1 DEF LockTrip
    <2>1. NoRequest.todo = <<>>
      BY DEF NoRequest
    <2>2. req'[s].todo = <<>>
      <3>1. Remaining(NoRequest) = NoRequest
        BY <2>1 DEF Remaining
      <3> QED BY <2>1, <3>1 DEF Return, Become, IInv, TypeOK
    <2> QED BY <2>2 DEF At
  <1>4. trips[req[s].trip].status = "PAYMENT_PENDING"
    BY <1>3 DEF MayCharge
  <1>5. "PAYMENT_PENDING" \in Told(events, req, req[s].trip)
    BY <1>2, <1>4 DEF TrailInv
  <1> QED BY <1>1, <1>5, ToldStays

LEMMA TrailNext ==
  ASSUME ~MayCrash, IInv, InOrder, TrailInv, [Next]_vars
  PROVE  TrailInv'
  <1>1. CASE UNCHANGED <<trips, events, req>>
    <2>1. trips' = trips /\ events' = events /\ req' = req
      BY <1>1
    <2>2. \A s \in Slots : Departs(req[s])' /\ At(s, "commit")' = At(s, "commit")
      BY <2>1 DEF Departs, At, TrailInv
    <2> QED BY <2>1, <2>2 DEF TrailInv
  <1>2. UNCHANGED vars \/ (\E d \in Drivers : EndAssignment(d)) =>
          UNCHANGED <<trips, events, req>>
    BY DEF EndAssignment, vars, tables
  <1>3. ~Crash
    BY DEF Crash
  <1>4. ASSUME NEW s \in Slots, Step(s) PROVE TrailInv'
    <2>1. \A q \in Slots \ {s} : req'[q] = req[q]
      BY <1>4, StepLocks DEF KeepsOutside, TakesLock
    <2>2. At(s, "commit")' => "PAYMENT_PENDING" \in Told(events', req', req'[s].trip)
      BY <1>4, LockedWasPending
    <2> QED BY <1>4, <2>1, <2>2, ToldStays, EventsLinked, DepartsStep, SavesAreTold, TrailKept
  <1> QED BY <1>1, <1>2, <1>3, <1>4, TrailArrival DEF Next

LEMMA TrailInit == Init => TrailInv
  <1> SUFFICES ASSUME Init PROVE TrailInv
    OBVIOUS
  <1>1. events = {} /\ \A t \in Trips : trips[t].status = None
    BY DEF Init, NoRow
  <1>2. \A s \in Slots : Range(req[s].todo) = {} /\ ~At(s, "commit")
    BY Lists DEF Init, NoRequest, At
  <1> QED BY <1>1, <1>2 DEF TrailInv, Departs

LEMMA TrailIsUnbroken ==
  ASSUME TrailInv
  PROVE  TrailUnbroken
  <1> SUFFICES ASSUME Quiet, NEW t \in Trips, Exists(t)
               PROVE  LET trail == {e \in events : e.trip = t} IN
                      /\ trips[t].status \in {e.to : e \in trail}
                      /\ {e.from : e \in trail} \ {None} \subseteq {e.to : e \in trail}
    BY DEF TrailUnbroken
  <1>1. \A s \in Slots : ~Logging(req[s], t)
    BY Lists DEF Quiet, Idle, Logging
  <1>2. Told(events, req, t) = {e.to : e \in {e \in events : e.trip = t}}
    BY <1>1 DEF Told
  <1> QED BY <1>2 DEF TrailInv, Exists

\* However many handlers interleave, in a process that does not die, when all
\* have returned the log of every trip ends in its present state, and every
\* logged departure is from a state the log says was reached.
\* (recordEvent and the inserts of DispatchService)
THEOREM TrailsAreUnbroken ==
  ASSUME ~MayCrash
  PROVE  Spec => []TrailUnbroken
  <1>1. TrailInv => TrailUnbroken
    BY TrailIsUnbroken
  <1>2. IInv /\ InOrder /\ TrailInv /\ [Next]_vars => TrailInv'
    BY TrailNext
  <1> QED BY <1>1, <1>2, TrailInit, OrderInit, OrderNext, LocalsCorrect, PTL DEF Spec
=============================================================================
