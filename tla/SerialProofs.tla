---------------------------- MODULE SerialProofs ----------------------------
(***************************************************************************)
(* Proofs about Taxi for any number of trips, drivers and handlers in      *)
(* flight: what the handlers guarantee as long as nobody is about to write *)
(* a trip of which another handler holds a copy (NoRace).  The process may *)
(* die at any await.  Requests served one at a time never race.            *)
(***************************************************************************)
EXTENDS DispatchProofs

USE StoreAssumption DEF None, NoFare

\* One handler at a time.
OneHandler == \A s, q \in Slots : s = q
-----------------------------------------------------------------------------
(* The order of the awaits of a handler. *)

\* Await b may come after await a: a handler saves its copy once, after what
\* can still make it return, and records the move after the save.
MayFollow(a, b) ==
  /\ b \in {"check", "vehicle"} => a \in {"answer", "check"}
  /\ b = "save" => a \in {"answer", "check", "vehicle"}
  /\ b = "offer" => a = "save"
  /\ b = "busy" => a \in {"answer", "check", "vehicle", "save", "manualOffer"}
  /\ b = "event" => a \in {"trip.create_on_behalf", "answer", "check", "vehicle", "save",
                           "offer", "manualOffer", "busy"}
  /\ b = "free" => a \in {"save", "event"}
  /\ b = "commit" => a \in {"payment.amount_mismatch", "lock"}
  /\ b = "writeProfile" => a = "compareProfile"
  /\ b \notin {"rank", "passengerRates", "driverRates", "compareProfile"}

Ordered(todo) == \A i, j \in DOMAIN todo : i < j => MayFollow(todo[i], todo[j])

LEMMA TailOrdered ==
  ASSUME NEW todo \in Seq(Stage), todo # <<>>, Ordered(todo)
  PROVE  /\ Ordered(Tail(todo))
         /\ Range(Tail(todo)) \subseteq Range(todo)
         /\ Range(todo) = {Head(todo)} \cup Range(Tail(todo))
         /\ \A b \in Range(Tail(todo)) : MayFollow(Head(todo), b)
  <1> DEFINE u == Tail(todo)
  <1>1. /\ Len(todo) \in Nat \ {0} /\ DOMAIN todo = 1..Len(todo) /\ Head(todo) = todo[1]
        /\ DOMAIN u = 1..(Len(todo) - 1)
        /\ \A i \in DOMAIN u : u[i] = todo[i + 1]
    OBVIOUS
  <1> HIDE DEF u
  <1>2. \A i \in DOMAIN u : i + 1 \in DOMAIN todo /\ i \in Int /\ 1 < i + 1
    BY <1>1
  <1>3. ASSUME NEW i \in DOMAIN u, NEW j \in DOMAIN u, i < j
        PROVE  MayFollow(u[i], u[j])
    <2>1. i + 1 < j + 1 /\ i + 1 \in DOMAIN todo /\ j + 1 \in DOMAIN todo
      BY <1>2, <1>3
    <2>2. MayFollow(todo[i + 1], todo[j + 1])
      BY <2>1 DEF Ordered
    <2> QED BY <1>1, <2>2
  <1>4. Range(u) \subseteq Range(todo)
    BY <1>1, <1>2 DEF Range
  <1>5. \A b \in Range(u) : MayFollow(Head(todo), b)
    <2> SUFFICES ASSUME NEW i \in DOMAIN u PROVE MayFollow(todo[1], u[i])
      BY <1>1 DEF Range
    <2>1. 1 \in DOMAIN todo /\ i + 1 \in DOMAIN todo /\ 1 < i + 1
      BY <1>1, <1>2
    <2> QED BY <1>1, <2>1 DEF Ordered
  <1>6. Range(todo) \subseteq {Head(todo)} \cup Range(u)
    <2> SUFFICES ASSUME NEW i \in DOMAIN todo PROVE todo[i] \in {Head(todo)} \cup Range(u)
      BY DEF Range
    <2>1. CASE i = 1
      BY <1>1, <2>1
    <2>2. CASE i # 1
      <3>1. i - 1 \in DOMAIN u /\ i - 1 + 1 = i
        BY <1>1, <2>2
      <3>2. u[i - 1] = todo[i]
        BY <1>1, <3>1
      <3> QED BY <3>1, <3>2 DEF Range
    <2> QED BY <2>1, <2>2
  <1>7. Head(todo) \in Range(todo)
    BY <1>1 DEF Range
  <1> QED BY <1>3, <1>4, <1>5, <1>6, <1>7 DEF Ordered, u

LEMMA ConcatRange ==
  ASSUME NEW p \in Seq(Stage), NEW q \in Seq(Stage)
  PROVE  Range(p \o q) = Range(p) \cup Range(q) /\ p \o q \in Seq(Stage)
  <1> DEFINE u == p \o q
  <1>1. /\ Len(p) \in Nat /\ Len(q) \in Nat /\ u \in Seq(Stage)
        /\ DOMAIN p = 1..Len(p) /\ DOMAIN q = 1..Len(q) /\ DOMAIN u = 1..(Len(p) + Len(q))
        /\ \A i \in DOMAIN p : u[i] = p[i]
        /\ \A i \in DOMAIN q : u[i + Len(p)] = q[i]
    OBVIOUS
  <1> HIDE DEF u
  <1>2. ASSUME NEW i \in DOMAIN u PROVE u[i] \in Range(p) \cup Range(q)
    <2>1. CASE i <= Len(p)
      BY <1>1, <2>1 DEF Range
    <2>2. CASE i > Len(p)
      <3>1. i - Len(p) \in DOMAIN q /\ i - Len(p) + Len(p) = i
        BY <1>1, <2>2
      <3> QED BY <1>1, <3>1 DEF Range
    <2> QED BY <1>1, <2>1, <2>2
  <1>3. \A i \in DOMAIN p : i \in DOMAIN u
    BY <1>1
  <1>4. \A i \in DOMAIN q : i + Len(p) \in DOMAIN u
    BY <1>1
  <1>5. Range(u) \subseteq Range(p) \cup Range(q)
    BY <1>2, Zenon DEF Range
  <1>6. Range(p) \subseteq Range(u)
    BY <1>1, <1>3 DEF Range
  <1>7. Range(q) \subseteq Range(u)
    BY <1>1, <1>4 DEF Range
  <1>8. Range(u) = Range(p) \cup Range(q)
    BY <1>5, <1>6, <1>7
  <1> QED BY <1>1, <1>8 DEF u

LEMMA ConcatOrdered ==
  ASSUME NEW p \in Seq(Stage), NEW q \in Seq(Stage), Ordered(p), Ordered(q),
         \A a \in Range(p), b \in Range(q) : MayFollow(a, b)
  PROVE  Ordered(p \o q) /\ Range(p \o q) = Range(p) \cup Range(q) /\ p \o q \in Seq(Stage)
  <1> DEFINE u == p \o q
  <1>1. /\ Len(p) \in Nat /\ Len(q) \in Nat /\ u \in Seq(Stage)
        /\ DOMAIN p = 1..Len(p) /\ DOMAIN q = 1..Len(q) /\ DOMAIN u = 1..(Len(p) + Len(q))
        /\ \A i \in DOMAIN p : u[i] = p[i]
        /\ \A i \in DOMAIN q : u[i + Len(p)] = q[i]
    OBVIOUS
  <1> HIDE DEF u
  <1>2. ASSUME NEW i \in DOMAIN u
        PROVE  \/ i \in DOMAIN p /\ u[i] = p[i] /\ i <= Len(p)
               \/ i - Len(p) \in DOMAIN q /\ u[i] = q[i - Len(p)] /\ i > Len(p)
    <2>1. CASE i <= Len(p)
      BY <1>1, <2>1
    <2>2. CASE i > Len(p)
      <3>1. i - Len(p) \in DOMAIN q /\ i - Len(p) + Len(p) = i
        BY <1>1, <2>2
      <3> QED BY <1>1, <2>2, <3>1
    <2> QED BY <1>1, <2>1, <2>2
  <1>3. ASSUME NEW i \in DOMAIN u, NEW j \in DOMAIN u, i < j PROVE MayFollow(u[i], u[j])
    <2>1. CASE i \in DOMAIN p /\ u[i] = p[i] /\ j \in DOMAIN p /\ u[j] = p[j]
      BY <1>3, <2>1 DEF Ordered
    <2>2. CASE /\ i \in DOMAIN p /\ u[i] = p[i]
               /\ j - Len(p) \in DOMAIN q /\ u[j] = q[j - Len(p)]
      BY <2>2 DEF Range
    <2>3. CASE /\ i - Len(p) \in DOMAIN q /\ u[i] = q[i - Len(p)]
               /\ j - Len(p) \in DOMAIN q /\ u[j] = q[j - Len(p)]
      <3>1. i - Len(p) < j - Len(p)
        BY <1>1, <1>3
      <3> QED BY <2>3, <3>1 DEF Ordered
    <2>4. ~(i > Len(p) /\ j <= Len(p))
      BY <1>1, <1>3
    <2> QED BY <1>2, <2>1, <2>2, <2>3, <2>4
  <1> QED BY <1>1, <1>3, ConcatRange DEF Ordered, u

\* The lists handlers start with.
LEMMA Lists ==
  /\ \A a : Range(<<a>>) = {a} /\ Ordered(<<a>>)
  /\ Range(<<>>) = {} /\ Ordered(<<>>)
  /\ \A a, b : Range(<<a, b>>) = {a, b} /\ (Ordered(<<a, b>>) <=> MayFollow(a, b))
  /\ \A a, b, c : /\ Range(<<a, b, c>>) = {a, b, c}
                  /\ Ordered(<<a, b, c>>) <=>
                       MayFollow(a, b) /\ MayFollow(a, c) /\ MayFollow(b, c)
  <1>1. \A a : Range(<<a>>) = {a} /\ Ordered(<<a>>)
    BY DEF Range, Ordered
  <1>2. Range(<<>>) = {} /\ Ordered(<<>>)
    BY DEF Range, Ordered
  <1>3. \A a, b : Range(<<a, b>>) = {a, b} /\ (Ordered(<<a, b>>) <=> MayFollow(a, b))
    <2> TAKE a, b
    <2>1. DOMAIN <<a, b>> = {1, 2} /\ <<a, b>>[1] = a /\ <<a, b>>[2] = b
      OBVIOUS
    <2> QED BY <2>1 DEF Range, Ordered
  <1>4. \A a, b, c : /\ Range(<<a, b, c>>) = {a, b, c}
                     /\ Ordered(<<a, b, c>>) <=>
                          MayFollow(a, b) /\ MayFollow(a, c) /\ MayFollow(b, c)
    <2> TAKE a, b, c
    <2> DEFINE u == <<a, b, c>>
    <2>1. DOMAIN u = {1, 2, 3} /\ u[1] = a /\ u[2] = b /\ u[3] = c
      OBVIOUS
    <2> HIDE DEF u
    <2>2. Range(u) = {a, b, c}
      BY <2>1 DEF Range
    <2>3. Ordered(u) <=> MayFollow(a, b) /\ MayFollow(a, c) /\ MayFollow(b, c)
      BY <2>1 DEF Ordered
    <2> QED BY <2>2, <2>3 DEF u
  <1> QED BY <1>1, <1>2, <1>3, <1>4

\* An await a handler has under a condition.
LEMMA OptionalAwait ==
  ASSUME NEW c, NEW a \in Stage
  PROVE  LET p == IF c THEN <<a>> ELSE <<>>
         IN  p \in Seq(Stage) /\ Ordered(p) /\ Range(p) \subseteq {a}
  <1>1. <<a>> \in Seq(Stage) /\ <<>> \in Seq(Stage)
    OBVIOUS
  <1>2. CASE c
    BY <1>1, <1>2, Lists
  <1>3. CASE ~c
    BY <1>1, <1>3, Lists
  <1> QED BY <1>2, <1>3

LEMMA AcceptList ==
  LET todo == <<"answer", "vehicle", "save", "busy", "event">>
  IN  Range(todo) = {"answer", "vehicle", "save", "busy", "event"} /\ Ordered(todo)
  <1> DEFINE u == <<"answer", "vehicle", "save", "busy", "event">>
  <1>1. /\ DOMAIN u = {1, 2, 3, 4, 5}
        /\ u[1] = "answer" /\ u[2] = "vehicle" /\ u[3] = "save" /\ u[4] = "busy" /\ u[5] = "event"
    OBVIOUS
  <1> HIDE DEF u
  <1>2. Range(u) = {"answer", "vehicle", "save", "busy", "event"}
    BY <1>1 DEF Range
  <1>3. Ordered(u)
    BY <1>1 DEF Ordered, MayFollow
  <1> QED BY <1>2, <1>3 DEF u

LEMMA ManualList ==
  LET todo == <<"check", "vehicle", "save", "manualOffer", "busy", "event",
                "dispatch.manual_assign">>
  IN  /\ Range(todo) = {"check", "vehicle", "save", "manualOffer", "busy", "event",
                        "dispatch.manual_assign"}
      /\ Ordered(todo)
  <1> DEFINE u == <<"check", "vehicle", "save", "manualOffer", "busy", "event",
                    "dispatch.manual_assign">>
  <1>1. /\ DOMAIN u = {1, 2, 3, 4, 5, 6, 7}
        /\ u[1] = "check" /\ u[2] = "vehicle" /\ u[3] = "save" /\ u[4] = "manualOffer"
        /\ u[5] = "busy" /\ u[6] = "event" /\ u[7] = "dispatch.manual_assign"
    OBVIOUS
  <1> HIDE DEF u
  <1>2. Range(u) = {"check", "vehicle", "save", "manualOffer", "busy", "event",
                    "dispatch.manual_assign"}
    BY <1>1 DEF Range
  <1>3. Ordered(u)
    BY <1>1 DEF Ordered, MayFollow
  <1> QED BY <1>2, <1>3 DEF u
-----------------------------------------------------------------------------
(* What a handler in flight knows of the rows it read. *)

\* What a trip's columns say of one another, whoever wrote them.
Fits(row) ==
  /\ row.status \in DRIVEN_STATES => row.driver \in Drivers
  /\ row.status # "PAYMENT_CONFIRMED"
  /\ row.status = "PAYMENT_PENDING" => row.finalFare # NoFare
  /\ row.status \in {None, "PENDING_REVIEW"} => row.finalFare = NoFare
  /\ row.category = "FORANEO" =>
       /\ row.status \notin {None, "PENDING_REVIEW"} \cup CANCELLED_STATES
            => row.quotedFare # NoFare
       /\ row.finalFare \in {NoFare, row.quotedFare}

\* The copy e a handler may come to save of the row it read.
Draft(e, row, accepted) ==
  /\ row.status # None
  /\ e.category = row.category
  /\ e.status \notin {None, "CLOSED"}
  /\ Fits(e)
  /\ \/ e.status = row.status
     \/ <<row.status, e.status>> \in DocumentedMoves
     \/ e.status = "DRIVER_ASSIGNED" /\ accepted

\* With trips ts and payments ps: the row a handler read is still the one in
\* the table at every await where it counts on it.
Fresh(r, ts, ps) ==
  /\ Ordered(r.todo)
  /\ "save" \in Range(r.todo) =>
       /\ r.from = ts[r.trip].status
       /\ Draft(r.mem, ts[r.trip], r.response = "ACCEPTED")
       /\ r.saving => r.dirty = Differing(r.mem, ts[r.trip])
  /\ "rank" \in Range(r.todo) =>
       /\ r.from = ts[r.trip].status
       /\ MayDispatch(ts[r.trip]) /\ r.mem = WithoutDriver(ts[r.trip])
  /\ "commit" \in Range(r.todo) =>
       /\ ts[r.trip].status = "PAYMENT_PENDING"
       /\ r.mem = ts[r.trip] /\ r.driver = ts[r.trip].driver
  /\ {"passengerRates", "driverRates"} \cap Range(r.todo) # {} =>
       \E p \in ps : p.trip = r.trip /\ p.confirmedBy = r.driver

\* An offer made by hand is born accepted.
ManualAnswered == \A i \in DOMAIN offers : offers[i].manual => ~Pending(i)

\* The inductive invariant of the theorems on rows.
FreshInv ==
  /\ \A s \in Slots : Fresh(req[s], trips, payments)
  /\ \A t \in Trips : Fits(trips[t])
  /\ ManualAnswered
  /\ ClosedIsPaid
  /\ RatedWasPaid

\* Awaits at which a handler counts on nothing it read.
Carefree == Stage \ {"save", "rank", "commit", "passengerRates", "driverRates"}

LEMMA FreshCarefree ==
  ASSUME NEW r, NEW ts, NEW ps, Ordered(r.todo), Range(r.todo) \subseteq Carefree
  PROVE  Fresh(r, ts, ps)
  BY DEF Fresh, Carefree

LEMMA FreshRemaining ==
  ASSUME NEW r, NEW ts, NEW ps, Fresh(r, ts, ps)
  PROVE  Fresh(Remaining(r), ts, ps)
  <1>1. Fresh(NoRequest, ts, ps)
    BY Lists, FreshCarefree DEF NoRequest
  <1>2. Fresh([NoRequest EXCEPT !.todo = <<"next">>, !.queue = r.queue], ts, ps)
    <2>1. Range(<<"next">>) \subseteq Carefree /\ Ordered(<<"next">>)
      BY Lists DEF Carefree, Stage
    <2>2. [NoRequest EXCEPT !.todo = <<"next">>, !.queue = r.queue].todo = <<"next">>
      BY DEF NoRequest
    <2> HIDE DEF NoRequest
    <2> QED BY <2>1, <2>2, FreshCarefree
  <1> QED BY <1>1, <1>2 DEF Remaining

LEMMA FreshSame ==
  ASSUME NEW r, NEW u, NEW ts, NEW ps, Fresh(r, ts, ps),
         u.todo = r.todo, u.trip = r.trip, u.mem = r.mem, u.driver = r.driver,
         u.from = r.from, u.response = r.response,
         (u.saving = r.saving /\ u.dirty = r.dirty) \/ ~u.saving
  PROVE  Fresh(u, ts, ps)
  BY DEF Fresh

\* The next await is done: what is left counts on no more than before.
LEMMA FreshTail ==
  ASSUME NEW r \in Request, NEW ts, NEW ps, Fresh(r, ts, ps), r.todo # <<>>, ~r.saving
  PROVE  Fresh([r EXCEPT !.todo = Tail(@)], ts, ps)
  <1> DEFINE u == [r EXCEPT !.todo = Tail(@)]
  <1>1. /\ u.todo = Tail(r.todo) /\ u.trip = r.trip /\ u.mem = r.mem /\ u.driver = r.driver
        /\ u.from = r.from /\ u.response = r.response /\ u.saving = r.saving
        /\ r.todo \in Seq(Stage)
    BY DEF Request
  <1> HIDE DEF u
  <1>2. Ordered(u.todo) /\ Range(u.todo) \subseteq Range(r.todo)
    BY <1>1, TailOrdered DEF Fresh
  <1> QED BY <1>1, <1>2 DEF Fresh, u

\* What follows the step of slot s that ends one of these awaits.
LEMMA AfterCritical ==
  ASSUME NEW r \in Request, Ordered(r.todo), r.todo # <<>>,
         Head(r.todo) \in {"save", "commit", "passengerRates", "driverRates", "load"}
  PROVE  Ordered(Tail(r.todo)) /\ Range(Tail(r.todo)) \subseteq Carefree
  <1>1. r.todo \in Seq(Stage) /\ Tail(r.todo) \in Seq(Stage)
    BY DEF Request
  <1>2. /\ Ordered(Tail(r.todo))
        /\ \A b \in Range(Tail(r.todo)) : MayFollow(Head(r.todo), b)
    BY <1>1, TailOrdered
  <1>3. \A b : MayFollow(Head(r.todo), b) =>
          b \notin {"save", "rank", "commit", "passengerRates", "driverRates"}
    BY DEF MayFollow
  <1>4. Range(Tail(r.todo)) \subseteq Stage
    BY <1>1, SeqElements DEF Range
  <1> QED BY <1>2, <1>3, <1>4 DEF Carefree
-----------------------------------------------------------------------------
(* One step of a slot: what it leaves of its own handler and of the rows. *)

OwnFresh(s) ==
  /\ Fresh(req[s], trips, payments)
  /\ \A t \in Trips : Fits(trips[t])
  /\ ManualAnswered
  /\ ClosedIsPaid
  /\ RatedWasPaid

LEMMA FreshStep ==
  ASSUME NEW s \in Slots, Fresh(req'[s], trips', payments'),
         \A t \in Trips : Fits(trips'[t]), ManualAnswered', ClosedIsPaid', RatedWasPaid'
  PROVE  OwnFresh(s)'
  BY DEF OwnFresh

\* The tables FreshInv is about, but for the offers.
Rows == <<trips, payments, commissions, ratings>>

LEMMA RowsStand ==
  ASSUME FreshInv, NEW s \in Slots, UNCHANGED Rows,
         Fresh(req'[s], trips, payments), ManualAnswered'
  PROVE  OwnFresh(s)'
  <1>1. ClosedIsPaid' /\ RatedWasPaid' /\ \A t \in Trips : Fits(trips'[t])
    BY DEF Rows, FreshInv, ClosedIsPaid, RatedWasPaid
  <1> QED BY <1>1, FreshStep DEF Rows

LEMMA FreshBecome ==
  ASSUME IInv, FreshInv, NEW s \in Slots, NEW r, Become(s, r),
         Fresh(r, trips, payments), UNCHANGED Rows, ManualAnswered'
  PROVE  OwnFresh(s)'
  <1>1. req'[s] = Remaining(r)
    BY DEF Become, IInv, TypeOK
  <1> QED BY <1>1, FreshRemaining, RowsStand

\* An awaited step after which the handler goes on, or gives up.
LEMMA FreshProceed ==
  ASSUME IInv, FreshInv, NEW s \in Slots, NEW stage, At(s, stage), stage # "save",
         Proceed(s) \/ Return(s), UNCHANGED Rows, ManualAnswered'
  PROVE  OwnFresh(s)'
  <1>1. /\ req[s] \in Request /\ Fresh(req[s], trips, payments)
        /\ req[s].todo # <<>> /\ ~req[s].saving
    BY DEF IInv, TypeOK, LocalsOK, FreshInv, At
  <1>2. CASE Proceed(s)
    <2>1. Fresh([req[s] EXCEPT !.todo = Tail(@)], trips, payments)
      BY <1>1, FreshTail
    <2> QED BY <1>2, <2>1, FreshBecome DEF Proceed
  <1>3. CASE Return(s)
    <2>1. Fresh(NoRequest, trips, payments)
      BY Lists, FreshCarefree DEF NoRequest
    <2> QED BY <1>3, <2>1, FreshBecome DEF Return
  <1> QED BY <1>2, <1>3

LEMMA AnswersStand ==
  ASSUME ManualAnswered, UNCHANGED offers
  PROVE  ManualAnswered'
  BY DEF ManualAnswered, Pending
-----------------------------------------------------------------------------
(* New handlers. *)

\* A handler that loads a row and will save a draft of it.
LEMMA FreshHandle ==
  ASSUME IInv, FreshInv, NEW s \in Slots, NEW t \in Trips, NEW e, NEW todo,
         Handle(s, t, e, todo), Ordered(todo),
         Range(todo) \subseteq Carefree \cup {"save"},
         "save" \in Range(todo) => Draft(e, trips[t], FALSE),
         UNCHANGED tables
  PROVE  OwnFresh(s)'
  <1> DEFINE r == [NoRequest EXCEPT !.todo = todo, !.trip = t, !.driver = trips[t].driver,
                                    !.mem = e, !.from = trips[t].status]
  <1>1. /\ r.todo = todo /\ r.trip = t /\ r.mem = e /\ r.from = trips[t].status
        /\ r.saving = FALSE /\ r.response # "ACCEPTED"
    BY DEF NoRequest
  <1>2. Become(s, r)
    BY DEF Handle
  <1> HIDE DEF r
  <1>3. Fresh(r, trips, payments)
    BY <1>1 DEF Fresh, Carefree
  <1>4. UNCHANGED Rows /\ ManualAnswered'
    BY AnswersStand DEF FreshInv, Rows, tables, ledger
  <1> QED BY <1>2, <1>3, <1>4, FreshBecome

LEMMA CarefreeAwaits ==
  {"event", "free", "load", "busy", "answer", "vehicle", "check", "next", "lock", "offer",
   "manualOffer", "compareProfile", "writeProfile", "trip.foraneo_quoted",
   "trip.create_on_behalf", "payment.amount_mismatch", "dispatch.manual_assign"}
    \subseteq Carefree
  BY DEF Carefree, Stage, AuditAction

\* The list of awaits a creation starts with.
LEMMA CreateList ==
  ASSUME NEW onBehalf, NEW outside
  PROVE  LET todo == (IF onBehalf THEN <<"trip.create_on_behalf">> ELSE <<>>)
                       \o <<"event">>
                       \o (IF outside THEN <<>> ELSE <<"load">>)
         IN  Ordered(todo) /\ Range(todo) \subseteq Carefree
  <1> DEFINE p == IF onBehalf THEN <<"trip.create_on_behalf">> ELSE <<>>
             q == IF outside THEN <<>> ELSE <<"load">>
  <1>1. /\ p \in Seq(Stage) /\ Ordered(p) /\ Range(p) \subseteq {"trip.create_on_behalf"}
        /\ q \in Seq(Stage) /\ Ordered(q) /\ Range(q) \subseteq {"load"}
        /\ <<"event">> \in Seq(Stage) /\ Ordered(<<"event">>) /\ Range(<<"event">>) = {"event"}
    <2>1. {"trip.create_on_behalf", "event", "load"} \subseteq Stage
      BY DEF Stage, AuditAction
    <2>2. p \in Seq(Stage) /\ Ordered(p) /\ Range(p) \subseteq {"trip.create_on_behalf"}
      BY <2>1, OptionalAwait
    <2>3. q \in Seq(Stage) /\ Ordered(q) /\ Range(q) \subseteq {"load"}
      BY <2>1, Lists
    <2>4. <<"event">> \in Seq(Stage)
      BY <2>1
    <2> HIDE DEF p, q
    <2> QED BY <2>2, <2>3, <2>4, Lists
  <1> HIDE DEF p, q
  <1>2. MayFollow("trip.create_on_behalf", "event") /\ MayFollow("trip.create_on_behalf", "load")
        /\ MayFollow("event", "load")
    BY DEF MayFollow
  <1>3. /\ Ordered(p \o <<"event">>) /\ p \o <<"event">> \in Seq(Stage)
        /\ Range(p \o <<"event">>) = Range(p) \cup Range(<<"event">>)
    BY <1>1, <1>2, ConcatOrdered
  <1>4. \A a \in Range(p \o <<"event">>), b \in Range(q) : MayFollow(a, b)
    BY <1>1, <1>2, <1>3
  <1>5. /\ Ordered(p \o <<"event">> \o q)
        /\ Range(p \o <<"event">> \o q) = Range(p \o <<"event">>) \cup Range(q)
    BY <1>1, <1>3, <1>4, ConcatOrdered
  <1> QED BY <1>1, <1>3, <1>5, CarefreeAwaits DEF p, q

\* The lists of the handlers that move a trip.
LEMMA MoveLists ==
  /\ Ordered(<<"save", "event">>) /\ Ordered(<<"save", "event", "free">>)
  /\ Ordered(<<"save", "event", "trip.foraneo_quoted">>)
  /\ Range(<<"save", "event">>) \subseteq Carefree \cup {"save"}
  /\ Range(<<"save", "event", "free">>) \subseteq Carefree \cup {"save"}
  /\ Range(<<"save", "event", "trip.foraneo_quoted">>) \subseteq Carefree \cup {"save"}
  <1>1. /\ MayFollow("save", "event") /\ MayFollow("save", "free") /\ MayFollow("event", "free")
        /\ MayFollow("save", "trip.foraneo_quoted") /\ MayFollow("event", "trip.foraneo_quoted")
    BY DEF MayFollow
  <1> QED BY <1>1, Lists, CarefreeAwaits

LEMMA CancelList ==
  ASSUME NEW assigned
  PROVE  LET todo == <<"save", "event">> \o (IF assigned THEN <<"free">> ELSE <<>>)
         IN  Ordered(todo) /\ Range(todo) \subseteq Carefree \cup {"save"}
  <1> DEFINE q == IF assigned THEN <<"free">> ELSE <<>>
  <1>1. q \in Seq(Stage) /\ Ordered(q) /\ Range(q) \subseteq {"free"}
    BY OptionalAwait DEF Stage
  <1>2. <<"save", "event">> \in Seq(Stage) /\ Range(<<"save", "event">>) = {"save", "event"}
    BY Lists DEF Stage
  <1>3. MayFollow("save", "free") /\ MayFollow("event", "free")
    BY DEF MayFollow
  <1> HIDE DEF q
  <1>4. \A a \in Range(<<"save", "event">>), b \in Range(q) : MayFollow(a, b)
    BY <1>1, <1>2, <1>3
  <1>5. /\ Ordered(<<"save", "event">> \o q)
        /\ Range(<<"save", "event">> \o q) = Range(<<"save", "event">>) \cup Range(q)
    BY <1>1, <1>2, <1>4, MoveLists, ConcatOrdered
  <1> QED BY <1>1, <1>2, <1>5, CarefreeAwaits DEF q

\* The list of a payment.
LEMMA PaymentList ==
  ASSUME NEW mismatch
  PROVE  LET todo == (IF mismatch THEN <<"payment.amount_mismatch">> ELSE <<>>)
                       \o <<"lock", "commit">>
         IN  Ordered(todo) /\ Range(todo) \subseteq Carefree \cup {"commit"}
  <1> DEFINE p == IF mismatch THEN <<"payment.amount_mismatch">> ELSE <<>>
  <1>1. /\ MayFollow("payment.amount_mismatch", "lock") /\ MayFollow("lock", "commit")
        /\ MayFollow("payment.amount_mismatch", "commit")
    BY DEF MayFollow
  <1>2. /\ <<"lock", "commit">> \in Seq(Stage) /\ Ordered(<<"lock", "commit">>)
        /\ Range(<<"lock", "commit">>) = {"lock", "commit"}
    BY <1>1, Lists DEF Stage
  <1>3. p \in Seq(Stage) /\ Ordered(p) /\ Range(p) \subseteq {"payment.amount_mismatch"}
    BY OptionalAwait DEF Stage, AuditAction
  <1> HIDE DEF p
  <1>4. \A a \in Range(p), b \in Range(<<"lock", "commit">>) : MayFollow(a, b)
    BY <1>1, <1>2, <1>3
  <1>5. /\ Ordered(p \o <<"lock", "commit">>)
        /\ Range(p \o <<"lock", "commit">>) = Range(p) \cup Range(<<"lock", "commit">>)
    BY <1>2, <1>3, <1>4, ConcatOrdered
  <1> QED BY <1>2, <1>3, <1>5, CarefreeAwaits DEF p

\* The row an entity was made from.
LEMMA RowFits ==
  ASSUME IInv, FreshInv, NEW t \in Trips
  PROVE  /\ trips[t] \in TripRow /\ Fits(trips[t])
         /\ trips[t].driver # NoDriver => trips[t].driver \in Drivers
  BY DEF IInv, TypeOK, TripRow, FreshInv

LEMMA CreateFresh ==
  ASSUME IInv, FreshInv, NEW s \in Slots, NEW t \in Trips, Create(s, t)
  PROVE  OwnFresh(s)'
  <1>1. PICK category \in Categories, onBehalf \in Audited :
          LET row == [NoRow EXCEPT !.category = category,
                                   !.status = IF category = "FORANEO"
                                              THEN "PENDING_REVIEW" ELSE "QUOTED"]
          IN  /\ trips' = [trips EXCEPT ![t] = row]
              /\ Handle(s, t, row,
                   (IF onBehalf THEN <<"trip.create_on_behalf">> ELSE <<>>)
                     \o <<"event">>
                     \o (IF category = "FORANEO" THEN <<>> ELSE <<"load">>))
    BY DEF Create
  <1> DEFINE row == [NoRow EXCEPT !.category = category,
                                  !.status = IF category = "FORANEO"
                                             THEN "PENDING_REVIEW" ELSE "QUOTED"]
             p == IF onBehalf THEN <<"trip.create_on_behalf">> ELSE <<>>
             q == IF category = "FORANEO" THEN <<>> ELSE <<"load">>
             r == [NoRequest EXCEPT !.todo = p \o <<"event">> \o q, !.trip = t,
                                    !.driver = trips[t].driver, !.mem = row,
                                    !.from = trips[t].status]
  <1>2. Become(s, r) /\ trips' = [trips EXCEPT ![t] = row] /\ r.todo = p \o <<"event">> \o q
    BY <1>1 DEF Handle, NoRequest
  <1>3. Ordered(p \o <<"event">> \o q) /\ Range(p \o <<"event">> \o q) \subseteq Carefree
    BY CreateList
  <1>4. /\ row.status \in {"PENDING_REVIEW", "QUOTED"}
        /\ row.status = "QUOTED" => row.category # "FORANEO"
        /\ row.finalFare = NoFare
    BY DEF NoRow
  <1> HIDE DEF p, q, r, row
  <1>5. req'[s] = Remaining(r)
    BY <1>2 DEF Become, IInv, TypeOK
  <1>6. Fresh(req'[s], trips', payments')
    <2>1. Fresh(r, trips', payments')
      BY <1>2, <1>3, FreshCarefree
    <2> QED BY <1>5, <2>1, FreshRemaining
  <1>7. Fits(row)
    BY <1>4 DEF Fits, DRIVEN_STATES, ASSIGNED_STATES
  <1>8. /\ trips'[t] = row /\ \A u \in Trips \ {t} : trips'[u] = trips[u]
        /\ UNCHANGED <<payments, commissions, ratings, offers>>
    BY <1>2 DEF IInv, TypeOK, Create, ledger
  <1>9. ClosedIsPaid'
    BY <1>4, <1>8 DEF ClosedIsPaid, FreshInv
  <1>10. RatedWasPaid' /\ ManualAnswered' /\ \A u \in Trips : Fits(trips'[u])
    BY <1>7, <1>8, AnswersStand DEF RatedWasPaid, FreshInv
  <1> QED BY <1>6, <1>9, <1>10, FreshStep

\* The drafts of the handlers of TripsService.
LEMMA TripDrafts ==
  ASSUME NEW row \in TripRow, Fits(row), row.status # None
  PROVE  /\ row.status = "PENDING_REVIEW" =>
              \A fare \in Fares :
                Draft([row EXCEPT !.quotedFare = fare, !.status = "QUOTED"], row, FALSE)
         /\ row.driver # NoDriver /\ row.status \in {"DRIVER_ASSIGNED", "DRIVER_EN_ROUTE"} =>
              Draft([row EXCEPT !.status = "DRIVER_ARRIVED"], row, FALSE)
         /\ row.driver # NoDriver /\ row.status = "DRIVER_ARRIVED" =>
              Draft([row EXCEPT !.status = "TRIP_IN_PROGRESS", !.startedAt = TRUE], row, FALSE)
         /\ row.driver # NoDriver /\ row.status = "TRIP_IN_PROGRESS" =>
              \A fare \in FinalFares(row) :
                Draft([row EXCEPT !.finalFare = fare, !.status = "PAYMENT_PENDING"], row, FALSE)
         /\ row.status \in CANCELLABLE_STATES =>
              \A status \in Cancellations : Draft([row EXCEPT !.status = status], row, FALSE)
  <1>1. /\ row.driver # NoDriver => row.driver \in Drivers
        /\ row.quotedFare \in Fares \cup {NoFare}
        /\ \A fare \in Fares : fare # NoFare
        /\ \A fare \in FinalFares(row) : fare # NoFare
    BY DEF TripRow, FinalFares
  <1>2. ASSUME NEW fare \in Fares, row.status = "PENDING_REVIEW"
        PROVE  Draft([row EXCEPT !.quotedFare = fare, !.status = "QUOTED"], row, FALSE)
    <2> DEFINE e == [row EXCEPT !.quotedFare = fare, !.status = "QUOTED"]
    <2>1. /\ e.category = row.category /\ e.status = "QUOTED" /\ e.quotedFare = fare
          /\ e.finalFare = row.finalFare /\ e.driver = row.driver
      BY DEF TripRow
    <2> HIDE DEF e
    <2>2. Draft(e, row, FALSE)
      BY <1>1, <1>2, <2>1 DEF Draft, Fits, DocumentedMoves, DRIVEN_STATES, ASSIGNED_STATES
    <2> QED BY <2>2 DEF e
  <1>3. ASSUME row.driver # NoDriver, row.status \in {"DRIVER_ASSIGNED", "DRIVER_EN_ROUTE"}
        PROVE  Draft([row EXCEPT !.status = "DRIVER_ARRIVED"], row, FALSE)
    <2> DEFINE e == [row EXCEPT !.status = "DRIVER_ARRIVED"]
    <2>1. /\ e.category = row.category /\ e.status = "DRIVER_ARRIVED"
          /\ e.quotedFare = row.quotedFare
          /\ e.finalFare = row.finalFare /\ e.driver = row.driver
      BY DEF TripRow
    <2> HIDE DEF e
    <2>2. Draft(e, row, FALSE)
      BY <1>1, <1>3, <2>1 DEF Draft, Fits, DocumentedMoves, CANCELLED_STATES
    <2> QED BY <2>2 DEF e
  <1>4. ASSUME row.driver # NoDriver, row.status = "DRIVER_ARRIVED"
        PROVE  Draft([row EXCEPT !.status = "TRIP_IN_PROGRESS", !.startedAt = TRUE], row, FALSE)
    <2> DEFINE e == [row EXCEPT !.status = "TRIP_IN_PROGRESS", !.startedAt = TRUE]
    <2>1. /\ e.category = row.category /\ e.status = "TRIP_IN_PROGRESS"
          /\ e.quotedFare = row.quotedFare
          /\ e.finalFare = row.finalFare /\ e.driver = row.driver
      BY DEF TripRow
    <2> HIDE DEF e
    <2>2. Draft(e, row, FALSE)
      BY <1>1, <1>4, <2>1 DEF Draft, Fits, DocumentedMoves, CANCELLED_STATES
    <2> QED BY <2>2 DEF e
  <1>5. ASSUME NEW fare \in FinalFares(row), row.driver # NoDriver,
               row.status = "TRIP_IN_PROGRESS"
        PROVE  Draft([row EXCEPT !.finalFare = fare, !.status = "PAYMENT_PENDING"], row, FALSE)
    <2> DEFINE e == [row EXCEPT !.finalFare = fare, !.status = "PAYMENT_PENDING"]
    <2>1. /\ e.category = row.category /\ e.status = "PAYMENT_PENDING"
          /\ e.quotedFare = row.quotedFare
          /\ e.finalFare = fare /\ e.driver = row.driver
      BY DEF TripRow
    <2>2. row.category = "FORANEO" => row.quotedFare # NoFare /\ fare = row.quotedFare
      BY <1>5 DEF Fits, FinalFares, CANCELLED_STATES
    <2> HIDE DEF e
    <2>3. Draft(e, row, FALSE)
      BY <1>1, <1>5, <2>1, <2>2 DEF Draft, Fits, DocumentedMoves
    <2> QED BY <2>3 DEF e
  <1>6. ASSUME NEW status \in Cancellations, row.status \in CANCELLABLE_STATES
        PROVE  Draft([row EXCEPT !.status = status], row, FALSE)
    <2> DEFINE e == [row EXCEPT !.status = status]
    <2>1. /\ e.category = row.category /\ e.status = status /\ e.status \in CANCELLED_STATES
          /\ e.quotedFare = row.quotedFare
          /\ e.finalFare = row.finalFare /\ e.driver = row.driver
      BY DEF TripRow
    <2> HIDE DEF e
    <2>2. <<row.status, e.status>> \in DocumentedMoves
      BY <1>6, <2>1 DEF DocumentedMoves, CANCELLABLE_STATES, ASSIGNABLE_STATES, ASSIGNED_STATES
    <2>3. Fits(e)
      BY <2>1 DEF Fits, DRIVEN_STATES, ASSIGNED_STATES, CANCELLED_STATES
    <2> QED BY <2>1, <2>2, <2>3 DEF Draft, e, CANCELLED_STATES
  <1> QED BY <1>2, <1>3, <1>4, <1>5, <1>6

\* The handlers of TripsService that save a draft.
LEMMA TripRequestFresh ==
  ASSUME IInv, FreshInv, NEW s \in Slots, NEW t \in Trips,
         Review(s, t) \/ Arrive(s, t) \/ Start(s, t) \/ Complete(s, t) \/ Cancel(s, t)
  PROVE  OwnFresh(s)'
  <1>1. trips[t] \in TripRow /\ Fits(trips[t])
    BY RowFits
  <1>2. trips[t].status # None
    BY DEF Review, Arrive, Start, Complete, Cancel, CANCELLABLE_STATES, ASSIGNABLE_STATES,
           ASSIGNED_STATES
  <1>3. UNCHANGED tables
    BY DEF Review, Arrive, Start, Complete, Cancel
  <1>4. CASE Review(s, t)
    <2>1. PICK fare \in Fares :
            Handle(s, t, [trips[t] EXCEPT !.quotedFare = fare, !.status = "QUOTED"],
                   <<"save", "event", "trip.foraneo_quoted">>)
      BY <1>4 DEF Review
    <2>2. Draft([trips[t] EXCEPT !.quotedFare = fare, !.status = "QUOTED"], trips[t], FALSE)
      BY <1>1, <1>2, <1>4, TripDrafts DEF Review
    <2> QED BY <1>3, MoveLists, <2>1, <2>2, FreshHandle
  <1>5. CASE Arrive(s, t)
    <2>1. Draft([trips[t] EXCEPT !.status = "DRIVER_ARRIVED"], trips[t], FALSE)
      BY <1>1, <1>2, <1>5, TripDrafts DEF Arrive, HasAssignedDriver
    <2> QED BY <1>3, MoveLists, <1>5, <2>1, FreshHandle DEF Arrive
  <1>6. CASE Start(s, t)
    <2>1. Draft([trips[t] EXCEPT !.status = "TRIP_IN_PROGRESS", !.startedAt = TRUE],
                trips[t], FALSE)
      BY <1>1, <1>2, <1>6, TripDrafts DEF Start, HasAssignedDriver
    <2> QED BY <1>3, MoveLists, <1>6, <2>1, FreshHandle DEF Start
  <1>7. CASE Complete(s, t)
    <2>1. PICK fare \in FinalFares(trips[t]) :
            Handle(s, t, [trips[t] EXCEPT !.finalFare = fare, !.status = "PAYMENT_PENDING"],
                   <<"save", "event", "free">>)
      BY <1>7 DEF Complete
    <2>2. Draft([trips[t] EXCEPT !.finalFare = fare, !.status = "PAYMENT_PENDING"],
                trips[t], FALSE)
      BY <1>1, <1>2, <1>7, TripDrafts DEF Complete, HasAssignedDriver
    <2> QED BY <1>3, MoveLists, <2>1, <2>2, FreshHandle
  <1>8. CASE Cancel(s, t)
    <2> DEFINE q == IF trips[t].status \in ASSIGNED_STATES /\ HasAssignedDriver(t)
                    THEN <<"free">> ELSE <<>>
    <2>1. PICK status \in Cancellations :
            Handle(s, t, [trips[t] EXCEPT !.status = status], <<"save", "event">> \o q)
      BY <1>8 DEF Cancel
    <2>2. Draft([trips[t] EXCEPT !.status = status], trips[t], FALSE)
      BY <1>1, <1>2, <1>8, TripDrafts DEF Cancel
    <2>3. /\ Ordered(<<"save", "event">> \o q)
          /\ Range(<<"save", "event">> \o q) \subseteq Carefree \cup {"save"}
      BY CancelList
    <2> HIDE DEF q
    <2> QED BY <1>3, <2>1, <2>2, <2>3, FreshHandle
  <1> QED BY <1>4, <1>5, <1>6, <1>7, <1>8

LEMMA ConfirmPaymentFresh ==
  ASSUME IInv, FreshInv, NEW s \in Slots, NEW t \in Trips, ConfirmPayment(s, t)
  PROVE  OwnFresh(s)'
  <1>1. PICK mismatch \in Audited :
          Handle(s, t, trips[t],
                 (IF mismatch THEN <<"payment.amount_mismatch">> ELSE <<>>)
                   \o <<"lock", "commit">>)
    BY DEF ConfirmPayment
  <1> DEFINE p == IF mismatch THEN <<"payment.amount_mismatch">> ELSE <<>>
             r == [NoRequest EXCEPT !.todo = p \o <<"lock", "commit">>, !.trip = t,
                                    !.driver = trips[t].driver, !.mem = trips[t],
                                    !.from = trips[t].status]
  <1>2. /\ Become(s, r) /\ r.todo = p \o <<"lock", "commit">> /\ r.trip = t
        /\ r.driver = trips[t].driver /\ r.mem = trips[t]
    BY <1>1 DEF Handle, NoRequest
  <1>3. /\ Ordered(p \o <<"lock", "commit">>)
        /\ Range(p \o <<"lock", "commit">>) \subseteq Carefree \cup {"commit"}
    BY PaymentList
  <1> HIDE DEF p, r
  <1>4. Fresh(r, trips, payments)
    BY <1>2, <1>3 DEF Fresh, Carefree, ConfirmPayment
  <1>5. UNCHANGED Rows /\ ManualAnswered'
    BY AnswersStand DEF FreshInv, Rows, tables, ledger, ConfirmPayment
  <1> QED BY <1>2, <1>4, <1>5, FreshBecome

LEMMA RateFresh ==
  ASSUME IInv, FreshInv, NEW s \in Slots, NEW t \in Trips, Rate(s, t)
  PROVE  OwnFresh(s)'
  <1>1. PICK rating \in {"passengerRates", "driverRates"} : Handle(s, t, trips[t], <<rating>>)
    BY DEF Rate
  <1> DEFINE r == [NoRequest EXCEPT !.todo = <<rating>>, !.trip = t,
                                    !.driver = trips[t].driver, !.mem = trips[t],
                                    !.from = trips[t].status]
  <1>2. Become(s, r) /\ r.todo = <<rating>> /\ r.trip = t /\ r.driver = trips[t].driver
    BY <1>1 DEF Handle, NoRequest
  <1> HIDE DEF r
  <1>3. trips[t].status = "CLOSED"
    BY RowFits DEF Rate, Fits
  <1>4. \E p \in payments : p.trip = t /\ p.confirmedBy = trips[t].driver
    BY <1>3 DEF FreshInv, ClosedIsPaid
  <1>5. Ordered(r.todo) /\ Range(r.todo) = {rating}
    BY <1>2, Lists
  <1>6. Fresh(r, trips, payments)
    BY <1>2, <1>4, <1>5 DEF Fresh
  <1>7. UNCHANGED Rows /\ ManualAnswered'
    BY AnswersStand DEF FreshInv, Rows, tables, ledger, Rate
  <1> QED BY <1>2, <1>6, <1>7, FreshBecome

LEMMA StartDispatchFresh ==
  ASSUME IInv, FreshInv, NEW s \in Slots, NEW t \in Trips, StartDispatch(s, t)
  PROVE  OwnFresh(s)'
  <1> DEFINE r == [NoRequest EXCEPT !.todo = <<"rank">>, !.trip = t,
                                    !.driver = trips[t].driver,
                                    !.mem = WithoutDriver(trips[t]),
                                    !.from = trips[t].status]
  <1>1. /\ Become(s, r) /\ r.todo = <<"rank">> /\ r.trip = t /\ r.from = trips[t].status
        /\ r.mem = WithoutDriver(trips[t])
    BY DEF StartDispatch, Handle, NoRequest
  <1> HIDE DEF r
  <1>2. Ordered(r.todo) /\ Range(r.todo) = {"rank"}
    BY <1>1, Lists
  <1>3. Fresh(r, trips, payments)
    BY <1>1, <1>2 DEF Fresh, StartDispatch
  <1>4. UNCHANGED Rows /\ ManualAnswered'
    BY AnswersStand DEF FreshInv, Rows, tables, ledger, StartDispatch
  <1> QED BY <1>1, <1>3, <1>4, FreshBecome

\* A driver is put into the trip, by an operator or by its own answer.
LEMMA AssignDraft ==
  ASSUME NEW row \in TripRow, Fits(row), row.status # None, NEW d \in Drivers, NEW accepted,
         (accepted /\ row.category # "FORANEO") \/ row.status \in ASSIGNABLE_STATES
  PROVE  Draft([row EXCEPT !.status = "DRIVER_ASSIGNED", !.driver = d], row, accepted)
  <1> DEFINE e == [row EXCEPT !.status = "DRIVER_ASSIGNED", !.driver = d]
  <1>1. /\ e.category = row.category /\ e.status = "DRIVER_ASSIGNED" /\ e.driver = d
        /\ e.quotedFare = row.quotedFare /\ e.finalFare = row.finalFare
    BY DEF TripRow
  <1> HIDE DEF e
  <1>2. e.category = "FORANEO" => e.quotedFare # NoFare /\ e.finalFare \in {NoFare, e.quotedFare}
    BY <1>1 DEF Fits, ASSIGNABLE_STATES, CANCELLED_STATES
  <1>3. Fits(e)
    BY <1>1, <1>2 DEF Fits
  <1>4. accepted \/ <<row.status, e.status>> \in DocumentedMoves
    BY <1>1 DEF DocumentedMoves, ASSIGNABLE_STATES
  <1>5. Draft(e, row, accepted)
    BY <1>1, <1>3, <1>4 DEF Draft
  <1> QED BY <1>5 DEF e

LEMMA ManualAssignFresh ==
  ASSUME IInv, FreshInv, NEW s \in Slots, NEW t \in Trips, NEW d \in Drivers,
         ManualAssign(s, t, d)
  PROVE  OwnFresh(s)'
  <1> DEFINE todo == <<"check", "vehicle", "save", "manualOffer", "busy", "event",
                       "dispatch.manual_assign">>
             e == [trips[t] EXCEPT !.driver = d, !.status = "DRIVER_ASSIGNED"]
             r == [NoRequest EXCEPT !.todo = todo, !.trip = t, !.driver = d,
                                    !.from = trips[t].status, !.mem = e]
  <1>1. /\ Become(s, r) /\ r.todo = todo /\ r.trip = t /\ r.from = trips[t].status /\ r.mem = e
        /\ r.saving = FALSE
    BY DEF ManualAssign, NoRequest
  <1>2. e = [trips[t] EXCEPT !.status = "DRIVER_ASSIGNED", !.driver = d]
    BY RowFits DEF TripRow
  <1>3. Draft(e, trips[t], r.response = "ACCEPTED")
    <2>1. trips[t].status \in ASSIGNABLE_STATES /\ trips[t].status # None
      BY DEF ManualAssign, ASSIGNABLE_STATES
    <2> HIDE DEF e
    <2> QED BY <1>2, <2>1, RowFits, AssignDraft
  <1>4. Ordered(todo) /\ Range(todo) \subseteq Carefree \cup {"save"}
    BY ManualList, CarefreeAwaits
  <1> HIDE DEF todo, e, r
  <1>5. Fresh(r, trips, payments)
    BY <1>1, <1>3, <1>4 DEF Fresh, Carefree
  <1>6. UNCHANGED Rows /\ ManualAnswered'
    BY AnswersStand DEF FreshInv, Rows, tables, ledger, ManualAssign
  <1> QED BY <1>1, <1>5, <1>6, FreshBecome

\* An offer that may still be accepted was not made by hand, so its trip is
\* not FORANEO.
LEMMA AcceptFresh ==
  ASSUME IInv, OfferInv, FreshInv, NEW s \in Slots, NEW i \in DOMAIN offers,
         Accept(s, i)
  PROVE  OwnFresh(s)'
  <1> DEFINE o == offers[i]
             todo == <<"answer", "vehicle", "save", "busy", "event">>
             e == [trips[o.trip] EXCEPT !.status = "DRIVER_ASSIGNED", !.driver = o.driver]
             r == [NoRequest EXCEPT !.todo = todo, !.trip = o.trip, !.driver = o.driver,
                                    !.offer = i, !.response = "ACCEPTED",
                                    !.from = trips[o.trip].status, !.mem = e]
  <1>1. /\ Become(s, r) /\ r.todo = todo /\ r.trip = o.trip /\ r.from = trips[o.trip].status
        /\ r.mem = e /\ r.saving = FALSE /\ r.response = "ACCEPTED"
    BY DEF Accept, NoRequest
  <1>2. o.trip \in Trips /\ o.driver \in Drivers
    BY Parts, StoredOffer
  <1>3. trips[o.trip].status # None /\ trips[o.trip].category # "FORANEO"
    BY DEF OfferInv, TablesAgree, Accept, FreshInv, ManualAnswered
  <1>4. trips[o.trip] \in TripRow /\ Fits(trips[o.trip])
    BY <1>2, RowFits
  <1>5. Draft(e, trips[o.trip], r.response = "ACCEPTED")
    <2> HIDE DEF o, r
    <2> QED BY <1>1, <1>2, <1>3, <1>4, AssignDraft
  <1>6. Ordered(todo) /\ Range(todo) \subseteq Carefree \cup {"save"}
    BY AcceptList, CarefreeAwaits
  <1> HIDE DEF o, todo, e, r
  <1>7. Fresh(r, trips, payments)
    BY <1>1, <1>5, <1>6 DEF Fresh, Carefree
  <1>8. UNCHANGED Rows /\ ManualAnswered'
    BY AnswersStand DEF FreshInv, Rows, tables, ledger, Accept
  <1> QED BY <1>1, <1>7, <1>8, FreshBecome

\* Handlers that count on no row until a later await.
LEMMA OtherArrivalFresh ==
  ASSUME IInv, FreshInv, NEW s \in Slots,
         \/ \E i \in DOMAIN offers : Reject(s, i)
         \/ \E d \in Drivers : UpdateStatus(s, d)
         \/ ExpiryPass(s)
  PROVE  OwnFresh(s)'
  <1>1. PICK r : /\ Become(s, r)
                 /\ r.todo \in {<<"answer", "load">>, <<"compareProfile", "writeProfile">>,
                                <<"next">>}
    <2>1. ASSUME NEW i \in DOMAIN offers, Reject(s, i)
          PROVE  \E r : Become(s, r) /\ r.todo = <<"answer", "load">>
      <3> WITNESS [NoRequest EXCEPT !.todo = <<"answer", "load">>, !.trip = offers[i].trip,
                                    !.driver = offers[i].driver, !.offer = i,
                                    !.response = "REJECTED"]
      <3> QED BY <2>1 DEF Reject, NoRequest
    <2>2. ASSUME NEW d \in Drivers, UpdateStatus(s, d)
          PROVE  \E r : Become(s, r) /\ r.todo = <<"compareProfile", "writeProfile">>
      <3>1. PICK profile :
              Become(s, [NoRequest EXCEPT !.todo = <<"compareProfile", "writeProfile">>,
                                          !.driver = d, !.profile = profile])
        BY <2>2 DEF UpdateStatus
      <3> WITNESS [NoRequest EXCEPT !.todo = <<"compareProfile", "writeProfile">>,
                                    !.driver = d, !.profile = profile]
      <3> QED BY <3>1 DEF NoRequest
    <2>3. ASSUME ExpiryPass(s)
          PROVE  \E r : Become(s, r) /\ r.todo = <<"next">>
      <3> WITNESS [NoRequest EXCEPT
                     !.todo = <<"next">>,
                     !.queue = {i \in DOMAIN offers : Pending(i) /\ ~offers[i].manual}]
      <3> QED BY <2>3 DEF ExpiryPass, NoRequest
    <2> QED BY <2>1, <2>2, <2>3
  <1>2. Ordered(r.todo) /\ Range(r.todo) \subseteq Carefree
    <2>1. MayFollow("answer", "load") /\ MayFollow("compareProfile", "writeProfile")
      BY DEF MayFollow
    <2> QED BY <1>1, <2>1, Lists, CarefreeAwaits
  <1>3. UNCHANGED Rows /\ ManualAnswered'
    BY AnswersStand DEF FreshInv, Rows, tables, ledger, Reject, UpdateStatus, ExpiryPass
  <1> QED BY <1>1, <1>2, <1>3, FreshCarefree, FreshBecome
-----------------------------------------------------------------------------
(* Awaited steps. *)

LEMMA QuietStepFresh ==
  ASSUME IInv, FreshInv, NEW s \in Slots,
         \/ RecordEvent(s) \/ RecordAudit(s) \/ FreeDriver(s) \/ OccupyDriver(s)
         \/ CheckDriver(s) \/ CheckVehicle(s) \/ LockTrip(s) \/ WriteProfile(s)
  PROVE  OwnFresh(s)'
  <1>1. PICK stage : At(s, stage) /\ stage # "save" /\ (Proceed(s) \/ Return(s))
    BY DEF RecordEvent, RecordAudit, FreeDriver, OccupyDriver, CheckDriver, CheckVehicle,
           LockTrip, WriteProfile, AuditAction
  <1>2. UNCHANGED <<Rows, offers>>
    BY DEF RecordEvent, RecordAudit, FreeDriver, OccupyDriver, CheckDriver, CheckVehicle,
           LockTrip, WriteProfile, Rows, tables, ledger
  <1>3. ManualAnswered'
    BY <1>2, AnswersStand DEF FreshInv
  <1> QED BY <1>1, <1>2, <1>3, FreshProceed

LEMMA OfferStepFresh ==
  ASSUME IInv, OfferInv, FreshInv, NEW s \in Slots,
         InsertOffer(s) \/ InsertManualOffer(s) \/ SaveAnswer(s)
  PROVE  OwnFresh(s)'
  <1>1. PICK stage : At(s, stage) /\ stage # "save" /\ Proceed(s)
    BY DEF InsertOffer, InsertManualOffer, SaveAnswer
  <1>2. UNCHANGED Rows /\ offers \in Seq(OfferRow)
    BY DEF InsertOffer, InsertManualOffer, SaveAnswer, Rows, ledger, IInv, TypeOK
  <1>3. ASSUME NEW o, offers' = Append(offers, o), o.manual => o.response # None
        PROVE  ManualAnswered'
    <2>1. \A i \in DOMAIN offers' :
            (i \in DOMAIN offers /\ offers'[i] = offers[i]) \/ offers'[i] = o
      BY <1>2, <1>3
    <2> QED BY <1>3, <2>1 DEF ManualAnswered, Pending, FreshInv
  <1>4. CASE InsertOffer(s)
    <2> DEFINE o == [trip |-> req[s].trip, driver |-> req[s].driver, manual |-> FALSE,
                     response |-> None]
    <2>1. offers' = Append(offers, o) /\ ~o.manual
      BY <1>4 DEF InsertOffer
    <2> HIDE DEF o
    <2> QED BY <1>1, <1>2, <1>3, <2>1, FreshProceed
  <1>5. CASE InsertManualOffer(s)
    <2> DEFINE o == [trip |-> req[s].trip, driver |-> req[s].driver, manual |-> TRUE,
                     response |-> "ACCEPTED"]
    <2>1. offers' = Append(offers, o) /\ o.response # None
      BY <1>5 DEF InsertManualOffer
    <2> HIDE DEF o
    <2> QED BY <1>1, <1>2, <1>3, <2>1, FreshProceed
  <1>6. CASE SaveAnswer(s)
    <2>1. req[s].response # None
      <3>1. req[s].todo \in Seq(Stage) /\ req[s].todo # <<>> /\ Head(req[s].todo) = "answer"
        BY <1>6, Parts, RequestAt DEF SaveAnswer, At, Idle
      <3>2. 1 \in DOMAIN req[s].todo /\ req[s].todo[1] = "answer"
        BY <3>1
      <3> QED BY <3>2 DEF OfferInv, Known, KnownAt
    <2>2. \A i \in DOMAIN offers' :
            /\ i \in DOMAIN offers /\ offers'[i].manual = offers[i].manual
            /\ offers'[i].response \in {offers[i].response, req[s].response}
      BY <1>2, <1>6 DEF SaveAnswer, OfferRow
    <2>3. ManualAnswered'
      BY <2>1, <2>2 DEF ManualAnswered, Pending, FreshInv
    <2> QED BY <1>1, <1>2, <2>3, FreshProceed
  <1> QED BY <1>4, <1>5, <1>6

LEMMA CompareProfileFresh ==
  ASSUME IInv, FreshInv, NEW s \in Slots, CompareProfile(s)
  PROVE  OwnFresh(s)'
  <1> DEFINE v == [req[s] EXCEPT !.todo = Tail(@)]
  <1>1. PICK profile :
          Become(s, [req[s] EXCEPT !.todo = Tail(@), !.profile = profile])
    BY DEF CompareProfile
  <1> DEFINE u == [req[s] EXCEPT !.todo = Tail(@), !.profile = profile]
  <1>2. /\ req[s] \in Request /\ req[s].todo # <<>> /\ ~req[s].saving
        /\ Fresh(req[s], trips, payments)
    BY DEF CompareProfile, At, IInv, TypeOK, LocalsOK, FreshInv
  <1>3. Fresh(v, trips, payments)
    BY <1>2, FreshTail
  <1>4. /\ u.todo = v.todo /\ u.trip = v.trip /\ u.mem = v.mem /\ u.driver = v.driver
        /\ u.from = v.from /\ u.response = v.response /\ u.saving = v.saving /\ u.dirty = v.dirty
    BY <1>2 DEF Request
  <1>5. Become(s, u) /\ UNCHANGED Rows /\ ManualAnswered'
    BY <1>1, AnswersStand DEF FreshInv, Rows, tables, ledger, CompareProfile
  <1> HIDE DEF u, v
  <1>6. Fresh(u, trips, payments)
    BY <1>3, <1>4, FreshSame
  <1> QED BY <1>5, <1>6, FreshBecome

LEMMA NextOfferFresh ==
  ASSUME IInv, FreshInv, NEW s \in Slots, NEW i \in req[s].queue,
         SkipOffer(s, i) \/ ExpireOffer(s, i)
  PROVE  OwnFresh(s)'
  <1>1. /\ req[s] \in Request /\ Fresh(req[s], trips, payments)
        /\ req[s].todo # <<>> /\ Head(req[s].todo) = "next"
    BY DEF SkipOffer, ExpireOffer, At, IInv, TypeOK, FreshInv
  <1>2. UNCHANGED Rows /\ ManualAnswered'
    BY AnswersStand DEF FreshInv, Rows, tables, ledger, SkipOffer, ExpireOffer
  <1> DEFINE v == [req[s] EXCEPT !.queue = @ \ {i}]
             w == [NoRequest EXCEPT !.todo = <<"answer", "load", "next">>,
                                    !.queue = req[s].queue \ {i}, !.trip = offers[i].trip,
                                    !.offer = i, !.response = "EXPIRED"]
  <1>3. Become(s, v) \/ Become(s, w)
    BY DEF SkipOffer, ExpireOffer
  <1>4. /\ v.todo = req[s].todo /\ v.trip = req[s].trip /\ v.mem = req[s].mem
        /\ v.driver = req[s].driver /\ v.from = req[s].from /\ v.response = req[s].response
        /\ v.saving = req[s].saving /\ v.dirty = req[s].dirty
        /\ w.todo = <<"answer", "load", "next">>
    BY <1>1 DEF Request, NoRequest
  <1> HIDE DEF v, w
  <1>5. Fresh(v, trips, payments)
    BY <1>1, <1>4, FreshSame
  <1>6. Ordered(w.todo) /\ Range(w.todo) \subseteq Carefree
    <2>1. MayFollow("answer", "load") /\ MayFollow("answer", "next") /\ MayFollow("load", "next")
      BY DEF MayFollow
    <2> QED BY <1>4, <2>1, Lists, CarefreeAwaits
  <1>7. Fresh(w, trips, payments)
    BY <1>6, FreshCarefree
  <1> QED BY <1>2, <1>3, <1>5, <1>7, FreshBecome

\* A new rating repeats what its handler knew of a payment.
LEMMA InsertRatingFresh ==
  ASSUME IInv, FreshInv, NEW s \in Slots, InsertRating(s)
  PROVE  OwnFresh(s)'
  <1> DEFINE row == [trip |-> req[s].trip, driver |-> req[s].driver,
                     byDriver |-> At(s, "driverRates")]
  <1>1. /\ req[s] \in Request /\ Fresh(req[s], trips, payments)
        /\ req[s].todo # <<>> /\ Head(req[s].todo) \in {"passengerRates", "driverRates"}
        /\ req[s].todo \in Seq(Stage)
    BY DEF InsertRating, At, IInv, TypeOK, FreshInv, Request
  <1>2. \E p \in payments : p.trip = row.trip /\ p.confirmedBy = row.driver
    <2>1. Head(req[s].todo) \in Range(req[s].todo)
      BY <1>1, TailOrdered DEF Fresh
    <2> QED BY <1>1, <2>1 DEF Fresh
  <1>3. ratings' = ratings \/ ratings' = Append(ratings, row)
    BY DEF InsertRating
  <1>4. UNCHANGED <<trips, payments, commissions, offers>> /\ ratings \in Seq(RatingRow)
    BY DEF InsertRating, ledger, IInv, TypeOK
  <1> HIDE DEF row
  <1>5. RatedWasPaid'
    <2>1. \A i \in DOMAIN ratings' :
            (i \in DOMAIN ratings /\ ratings'[i] = ratings[i]) \/ ratings'[i] = row
      BY <1>3, <1>4
    <2>2. RatedWasPaid
      BY DEF FreshInv
    <2> QED BY <1>2, <1>4, <2>1, <2>2 DEF RatedWasPaid
  <1>6. Fresh(req'[s], trips', payments')
    <2> DEFINE u == [req[s] EXCEPT !.todo = Tail(@)]
    <2>1. req'[s] = Remaining(u) /\ u.todo = Tail(req[s].todo)
      BY <1>1 DEF InsertRating, Proceed, Become, IInv, TypeOK, Request
    <2> HIDE DEF u
    <2>2. Ordered(u.todo) /\ Range(u.todo) \subseteq Carefree
      BY <1>1, <2>1, AfterCritical DEF Fresh
    <2>3. Fresh(u, trips', payments')
      BY <2>2, FreshCarefree
    <2> QED BY <2>1, <2>3, FreshRemaining
  <1>7. ClosedIsPaid' /\ ManualAnswered' /\ \A t \in Trips : Fits(trips'[t])
    BY <1>4, AnswersStand DEF FreshInv, ClosedIsPaid
  <1> QED BY <1>5, <1>6, <1>7, FreshStep

LEMMA CompareTripFresh ==
  ASSUME IInv, FreshInv, NEW s \in Slots, CompareTrip(s)
  PROVE  OwnFresh(s)'
  <1> DEFINE u == req'[s]
  <1>1. /\ u.saving = TRUE /\ u.dirty = Differing(req[s].mem, trips[req[s].trip])
        /\ u.todo = req[s].todo /\ u.trip = req[s].trip /\ u.mem = req[s].mem
        /\ u.driver = req[s].driver /\ u.from = req[s].from /\ u.response = req[s].response
    BY DEF CompareTrip, IInv, TypeOK, Request
  <1>2. Fresh(req[s], trips, payments)
    BY DEF FreshInv
  <1> HIDE DEF u
  <1>3. Fresh(u, trips, payments)
    BY <1>1, <1>2 DEF Fresh
  <1>4. UNCHANGED Rows /\ ManualAnswered'
    BY AnswersStand DEF FreshInv, Rows, tables, ledger, CompareTrip
  <1> QED BY <1>3, <1>4, RowsStand DEF u

\* A save stores its copy, but for a relation that was not loaded.
LEMMA SavedRow ==
  ASSUME NEW row \in TripRow, NEW e \in TripEntity, e.category = row.category
  PROVE  LET saved == Updated(row, e, Differing(e, row)) IN
         /\ saved.category = e.category /\ saved.status = e.status
         /\ saved.quotedFare = e.quotedFare /\ saved.finalFare = e.finalFare
         /\ saved.driver = IF e.driver = Unloaded THEN row.driver ELSE e.driver
  <1> DEFINE cols == Differing(e, row)
  <1>1. /\ "status" \in cols <=> e.status # row.status
        /\ "driver" \in cols <=> e.driver # Unloaded /\ e.driver # row.driver
        /\ "quotedFare" \in cols <=> e.quotedFare # row.quotedFare
        /\ "finalFare" \in cols <=> e.finalFare # row.finalFare
    BY DEF Differing, Column
  <1> HIDE DEF cols
  <1>2. LET saved == Updated(row, e, cols) IN
         /\ saved.category = e.category /\ saved.status = e.status
         /\ saved.quotedFare = e.quotedFare /\ saved.finalFare = e.finalFare
         /\ saved.driver = IF e.driver = Unloaded THEN row.driver ELSE e.driver
    BY <1>1 DEF Updated
  <1> QED BY <1>2 DEF cols

\* What the one handler writes is its draft of the row that is still there.
LEMMA DraftWritten ==
  ASSUME IInv, FreshInv, NEW s \in Slots, WriteTrip(s)
  PROVE  LET t == req[s].trip
             e == req[s].mem
         IN  /\ t \in Trips
             /\ Draft(e, trips[t], req[s].response = "ACCEPTED")
             /\ trips'[t].category = e.category /\ trips'[t].status = e.status
             /\ trips'[t].quotedFare = e.quotedFare /\ trips'[t].finalFare = e.finalFare
             /\ trips'[t].driver = IF e.driver = Unloaded THEN trips[t].driver ELSE e.driver
             /\ \A u \in Trips \ {t} : trips'[u] = trips[u]
  <1> DEFINE t == req[s].trip
             e == req[s].mem
  <1>1. /\ t \in Trips /\ e \in TripEntity /\ req[s].todo \in Seq(Stage) /\ req[s].todo # <<>>
        /\ Head(req[s].todo) = "save" /\ req[s].saving
    BY Parts, TripAt, RequestAt DEF WriteTrip, At, Idle
  <1>2. Fresh(req[s], trips, payments)
    BY DEF FreshInv
  <1>3. "save" \in Range(req[s].todo)
    BY <1>1, <1>2, TailOrdered DEF Fresh
  <1>4. Draft(e, trips[t], req[s].response = "ACCEPTED") /\ req[s].dirty = Differing(e, trips[t])
    BY <1>1, <1>2, <1>3 DEF Fresh
  <1>5. trips \in [Trips -> TripRow] /\ trips[t] \in TripRow /\ e.category = trips[t].category
    BY <1>1, <1>4 DEF IInv, TypeOK, Draft
  <1>6. trips' = [trips EXCEPT ![t] = Updated(trips[t], e, Differing(e, trips[t]))]
    BY <1>4 DEF WriteTrip
  <1> HIDE DEF t, e
  <1>7. /\ trips'[t] = Updated(trips[t], e, Differing(e, trips[t]))
        /\ \A u \in Trips \ {t} : trips'[u] = trips[u]
    BY <1>1, <1>5, <1>6
  <1> QED BY <1>1, <1>4, <1>5, <1>7, SavedRow DEF t, e

LEMMA WriteTripFresh ==
  ASSUME IInv, FreshInv, NEW s \in Slots, WriteTrip(s)
  PROVE  OwnFresh(s)'
  <1> DEFINE t == req[s].trip
             e == req[s].mem
             v == [req[s] EXCEPT !.todo = Tail(@), !.saving = FALSE, !.dirty = {}]
  <1>1. /\ t \in Trips /\ Draft(e, trips[t], req[s].response = "ACCEPTED")
        /\ trips'[t].category = e.category /\ trips'[t].status = e.status
        /\ trips'[t].quotedFare = e.quotedFare /\ trips'[t].finalFare = e.finalFare
        /\ trips'[t].driver = IF e.driver = Unloaded THEN trips[t].driver ELSE e.driver
        /\ \A u \in Trips \ {t} : trips'[u] = trips[u]
    BY DraftWritten
  <1>2. UNCHANGED <<payments, commissions, ratings, offers>>
    BY DEF WriteTrip, ledger
  <1>3. Fresh(req'[s], trips', payments')
    <2>1. /\ req[s] \in Request /\ Fresh(req[s], trips, payments)
          /\ req[s].todo # <<>> /\ Head(req[s].todo) = "save"
      BY DEF WriteTrip, At, IInv, TypeOK, FreshInv
    <2>2. req'[s] = Remaining(v) /\ v.todo = Tail(req[s].todo)
      BY <2>1 DEF WriteTrip, Become, IInv, TypeOK, Request
    <2> HIDE DEF v
    <2>3. Ordered(v.todo) /\ Range(v.todo) \subseteq Carefree
      BY <2>1, <2>2, AfterCritical DEF Fresh
    <2>4. Fresh(v, trips', payments')
      BY <2>3, FreshCarefree
    <2> QED BY <2>2, <2>4, FreshRemaining
  <1> HIDE DEF t, e
  <1>4. Fits(trips'[t])
    <2>1. e.driver \in Drivers => e.driver # Unloaded
      OBVIOUS
    <2> QED BY <1>1, <2>1 DEF Draft, Fits
  <1>5. \A u \in Trips : Fits(trips'[u])
    BY <1>1, <1>4 DEF FreshInv
  <1>6. ClosedIsPaid'
    <2>1. trips'[t].status # "CLOSED"
      BY <1>1 DEF Draft
    <2> QED BY <1>1, <1>2, <2>1 DEF ClosedIsPaid, FreshInv
  <1>7. RatedWasPaid' /\ ManualAnswered'
    BY <1>2, AnswersStand DEF FreshInv, RatedWasPaid
  <1> QED BY <1>3, <1>5, <1>6, <1>7, FreshStep

LEMMA CommitPaymentFresh ==
  ASSUME IInv, FreshInv, NEW s \in Slots, CommitPayment(s)
  PROVE  OwnFresh(s)'
  <1> DEFINE r == req[s]
             t == r.trip
             gross == IF r.mem.finalFare = NoFare THEN 0 ELSE r.mem.finalFare
             p == [trip |-> r.trip, confirmedBy |-> r.driver]
             c == [trip |-> r.trip, gross |-> gross, commission |-> CommissionOf(gross),
                   earning |-> gross - CommissionOf(gross)]
             v == [r EXCEPT !.todo = Tail(@)]
  <1>1. /\ payments' = payments \cup {p} /\ commissions' = commissions \cup {c}
        /\ trips' = [trips EXCEPT ![t].status = "CLOSED"]
        /\ UNCHANGED <<offers, ratings>>
    BY DEF CommitPayment
  <1>2. /\ r \in Request /\ Fresh(r, trips, payments) /\ r.todo # <<>> /\ Head(r.todo) = "commit"
        /\ r.todo \in Seq(Stage)
    BY DEF CommitPayment, At, IInv, TypeOK, FreshInv, Request
  <1>3. t \in Trips /\ trips \in [Trips -> TripRow] /\ Fits(trips[t])
    BY Parts, TripAt DEF CommitPayment, IInv, TypeOK, FreshInv
  <1>4. trips[t].status = "PAYMENT_PENDING" /\ r.mem = trips[t] /\ r.driver = trips[t].driver
    <2>1. "commit" \in Range(r.todo)
      BY <1>2, TailOrdered DEF Fresh
    <2> QED BY <1>2, <2>1 DEF Fresh
  <1>5. Fresh(req'[s], trips', payments')
    <2>1. req'[s] = Remaining(v) /\ v.todo = Tail(r.todo)
      BY <1>2 DEF CommitPayment, Proceed, Become, IInv, TypeOK, Request
    <2> HIDE DEF v, r
    <2>2. Ordered(v.todo) /\ Range(v.todo) \subseteq Carefree
      BY <1>2, <2>1, AfterCritical DEF Fresh
    <2>3. Fresh(v, trips', payments')
      BY <2>2, FreshCarefree
    <2> QED BY <2>1, <2>3, FreshRemaining
  <1>6. /\ trips'[t].status = "CLOSED" /\ trips'[t].driver = trips[t].driver
        /\ trips'[t].finalFare = trips[t].finalFare /\ trips'[t].quotedFare = trips[t].quotedFare
        /\ trips'[t].category = trips[t].category
        /\ \A u \in Trips \ {t} : trips'[u] = trips[u]
    BY <1>1, <1>3 DEF TripRow
  <1>7. p.trip = t /\ p.confirmedBy = r.driver /\ c.trip = t /\ c.gross = gross
    OBVIOUS
  <1>8. gross = trips[t].finalFare
    BY <1>3, <1>4 DEF Fits
  <1> HIDE DEF r, t, p, c, gross, v
  <1>9. ClosedIsPaid'
    <2> SUFFICES ASSUME NEW u \in Trips, trips'[u].status = "CLOSED"
                 PROVE  /\ \E x \in payments' : x.trip = u /\ x.confirmedBy = trips'[u].driver
                        /\ \E x \in commissions' : x.trip = u /\ x.gross = trips'[u].finalFare
      BY DEF ClosedIsPaid
    <2>1. CASE u = t
      BY <1>1, <1>4, <1>6, <1>7, <1>8, <2>1
    <2>2. CASE u # t
      <3>1. trips'[u] = trips[u]
        BY <1>6, <2>2
      <3>2. /\ \E x \in payments : x.trip = u /\ x.confirmedBy = trips[u].driver
            /\ \E x \in commissions : x.trip = u /\ x.gross = trips[u].finalFare
        BY <3>1 DEF FreshInv, ClosedIsPaid
      <3> QED BY <1>1, <3>1, <3>2
    <2> QED BY <2>1, <2>2
  <1>10. Fits(trips'[t])
    BY <1>3, <1>4, <1>6 DEF Fits, DRIVEN_STATES, CANCELLED_STATES
  <1>11. RatedWasPaid' /\ ManualAnswered' /\ \A u \in Trips : Fits(trips'[u])
    BY <1>1, <1>6, <1>10, AnswersStand DEF FreshInv, RatedWasPaid
  <1> QED BY <1>5, <1>9, <1>11, FreshStep

\* What may follow the awaits of startDispatch may follow any other.
LEMMA FollowsDispatch ==
  ASSUME NEW a, NEW b, NEW stage \in {"load", "rank"}, MayFollow(stage, b)
  PROVE  MayFollow(a, b) /\ b \notin {"save", "commit", "rank", "passengerRates", "driverRates"}
  BY DEF MayFollow

LEMMA LoadForDispatchFresh ==
  ASSUME IInv, FreshInv, NEW s \in Slots, LoadForDispatch(s)
  PROVE  OwnFresh(s)'
  <1> DEFINE r == req[s]
             row == trips[r.trip]
             v == [r EXCEPT !.todo = <<"rank">> \o Tail(@), !.from = row.status,
                            !.mem = WithoutDriver(row)]
  <1>1. UNCHANGED Rows /\ ManualAnswered'
    BY AnswersStand DEF FreshInv, Rows, tables, ledger, LoadForDispatch
  <1>2. CASE Return(s)
    BY <1>1, <1>2, FreshProceed DEF LoadForDispatch
  <1>3. CASE Become(s, v) /\ MayDispatch(row)
    <2>1. /\ r \in Request /\ r.todo \in Seq(Stage) /\ r.todo # <<>> /\ Head(r.todo) = "load"
          /\ Ordered(r.todo)
      BY DEF LoadForDispatch, At, IInv, TypeOK, FreshInv, Request, Fresh
    <2>2. /\ v.todo = <<"rank">> \o Tail(r.todo) /\ v.trip = r.trip /\ v.from = row.status
          /\ v.mem = WithoutDriver(row)
      BY <2>1 DEF Request
    <2>3. /\ Ordered(Tail(r.todo)) /\ Tail(r.todo) \in Seq(Stage)
          /\ \A b \in Range(Tail(r.todo)) : MayFollow("load", b)
      BY <2>1, TailOrdered
    <2>4. <<"rank">> \in Seq(Stage) /\ Range(<<"rank">>) = {"rank"} /\ Ordered(<<"rank">>)
      BY Lists DEF Stage
    <2>5. Ordered(v.todo) /\ Range(v.todo) = {"rank"} \cup Range(Tail(r.todo))
      <3>1. \A a \in Range(<<"rank">>), b \in Range(Tail(r.todo)) : MayFollow(a, b)
        BY <2>3, FollowsDispatch
      <3> QED BY <2>2, <2>3, <2>4, <3>1, ConcatOrdered
    <2> HIDE DEF v, row, r
    <2>6. Fresh(v, trips, payments)
      <3>1. /\ "save" \notin Range(v.todo) /\ "commit" \notin Range(v.todo)
            /\ "passengerRates" \notin Range(v.todo) /\ "driverRates" \notin Range(v.todo)
        BY <2>3, <2>5, FollowsDispatch
      <3> QED BY <1>3, <2>2, <2>5, <3>1 DEF Fresh, row
    <2> QED BY <1>1, <1>3, <2>6, FreshBecome
  <1> QED BY <1>2, <1>3 DEF LoadForDispatch

LEMMA RankCandidatesFresh ==
  ASSUME IInv, FreshInv, NEW s \in Slots, RankCandidates(s)
  PROVE  OwnFresh(s)'
  <1> DEFINE r == req[s]
             row == trips[r.trip]
  <1>1. UNCHANGED Rows /\ ManualAnswered'
    BY AnswersStand DEF FreshInv, Rows, tables, ledger, RankCandidates
  <1>2. CASE Proceed(s)
    BY <1>1, <1>2, FreshProceed DEF RankCandidates
  <1>3. ASSUME NEW top,
               Become(s, [r EXCEPT !.todo = <<"save", "offer", "event">> \o Tail(@),
                                   !.driver = top, !.mem.status = "SEARCHING_DRIVER"])
        PROVE  OwnFresh(s)'
    <2> DEFINE v == [r EXCEPT !.todo = <<"save", "offer", "event">> \o Tail(@),
                              !.driver = top, !.mem.status = "SEARCHING_DRIVER"]
    <2>1. /\ r \in Request /\ r.todo \in Seq(Stage) /\ r.todo # <<>> /\ Head(r.todo) = "rank"
          /\ Fresh(r, trips, payments) /\ ~r.saving /\ r.trip \in Trips
      BY Parts, TripAt
      DEF RankCandidates, At, IInv, TypeOK, FreshInv, Request, LocalsOK
    <2>2. r.from = row.status /\ MayDispatch(row) /\ r.mem = WithoutDriver(row) /\ row \in TripRow
      <3>1. "rank" \in Range(r.todo)
        BY <2>1, TailOrdered DEF Fresh
      <3> QED BY <2>1, <3>1 DEF Fresh, IInv, TypeOK
    <2>3. /\ v.todo = <<"save", "offer", "event">> \o Tail(r.todo) /\ v.trip = r.trip
          /\ v.from = r.from /\ v.mem = [r.mem EXCEPT !.status = "SEARCHING_DRIVER"] /\ ~v.saving
      BY <2>1 DEF Request
    <2>4. /\ Ordered(Tail(r.todo)) /\ Tail(r.todo) \in Seq(Stage)
          /\ \A b \in Range(Tail(r.todo)) : MayFollow("rank", b)
      BY <2>1, TailOrdered DEF Fresh
    <2>5. /\ <<"save", "offer", "event">> \in Seq(Stage)
          /\ Range(<<"save", "offer", "event">>) = {"save", "offer", "event"}
          /\ Ordered(<<"save", "offer", "event">>)
      <3>1. MayFollow("save", "offer") /\ MayFollow("save", "event") /\ MayFollow("offer", "event")
        BY DEF MayFollow
      <3> QED BY <3>1, Lists DEF Stage
    <2>6. /\ Ordered(v.todo)
          /\ Range(v.todo) = {"save", "offer", "event"} \cup Range(Tail(r.todo))
      <3>1. \A a \in Range(<<"save", "offer", "event">>), b \in Range(Tail(r.todo)) : MayFollow(a, b)
        BY <2>4, FollowsDispatch
      <3> DEFINE p == <<"save", "offer", "event">>
                 q == Tail(r.todo)
      <3>2. /\ p \in Seq(Stage) /\ q \in Seq(Stage) /\ Ordered(p) /\ Ordered(q)
            /\ \A a \in Range(p), b \in Range(q) : MayFollow(a, b)
            /\ v.todo = p \o q /\ Range(p) = {"save", "offer", "event"}
        BY <2>3, <2>4, <2>5, <3>1
      <3> HIDE DEF p, q, v
      <3>3. Ordered(p \o q) /\ Range(p \o q) = Range(p) \cup Range(q)
        BY <3>2, ConcatOrdered
      <3> QED BY <3>2, <3>3 DEF q
    <2>7. Draft(v.mem, row, v.response = "ACCEPTED")
      <3>1. /\ v.mem.category = row.category /\ v.mem.status = "SEARCHING_DRIVER"
            /\ v.mem.finalFare = row.finalFare
        BY <2>2, <2>3 DEF WithoutDriver, TripRow
      <3>2. row.status = "SEARCHING_DRIVER" \/ <<row.status, "SEARCHING_DRIVER">> \in DocumentedMoves
        BY <2>2 DEF MayDispatch, ASSIGNABLE_STATES, DocumentedMoves
      <3>3. row.status # None
        BY <2>2 DEF MayDispatch, ASSIGNABLE_STATES
      <3> HIDE DEF v, row
      <3>4. Fits(v.mem)
        BY <2>2, <3>1 DEF Fits, DRIVEN_STATES, ASSIGNED_STATES, MayDispatch
      <3> QED BY <3>1, <3>2, <3>3, <3>4 DEF Draft
    <2> HIDE DEF v, row, r
    <2>8. Fresh(v, trips, payments)
      <3>1. /\ "rank" \notin Range(v.todo) /\ "commit" \notin Range(v.todo)
            /\ "passengerRates" \notin Range(v.todo) /\ "driverRates" \notin Range(v.todo)
        BY <2>4, <2>6, FollowsDispatch
      <3> QED BY <2>2, <2>3, <2>6, <2>7, <3>1 DEF Fresh, row
    <2>9. Become(s, v)
      BY <1>3 DEF v, r
    <2> QED BY <1>1, <2>8, <2>9, FreshBecome
  <1> QED BY <1>2, <1>3 DEF RankCandidates
-----------------------------------------------------------------------------
(* The other slots. *)

\* A handler that holds a copy of a row it counts on, and one that will write
\* what it holds.
Holds(r) == {"save", "rank", "commit"} \cap Range(r.todo) # {}
Writes(r) == {"save", "commit"} \cap Range(r.todo) # {}

\* Nobody is about to write a trip of which another handler holds a copy.
NoRace ==
  \A s, q \in Slots :
    s # q /\ req[s].trip = req[q].trip => ~(Writes(req[s]) /\ Holds(req[q]))

\* The steps that move a trip: its creation, a save, a payment.
LEMMA MovingSteps ==
  ASSUME NEW s \in Slots, Arrival(s) \/ Step(s), trips' # trips
  PROVE  (\E t \in Trips : Create(s, t)) \/ WriteTrip(s) \/ CommitPayment(s)
  <1>1. ASSUME Arrival(s), \A t \in Trips : ~Create(s, t)
        PROVE  UNCHANGED trips
    BY <1>1 DEF Arrival, Review, Arrive, Start, Complete, Cancel, ConfirmPayment, Rate,
                StartDispatch, ManualAssign, Accept, Reject, UpdateStatus, ExpiryPass, tables
  <1>2. ASSUME Step(s), ~WriteTrip(s), ~CommitPayment(s)
        PROVE  UNCHANGED trips
    BY <1>2 DEF Step, CompareTrip, RecordEvent, RecordAudit, FreeDriver, OccupyDriver,
                CheckDriver, CheckVehicle, LockTrip, InsertRating, LoadForDispatch,
                RankCandidates, InsertOffer, InsertManualOffer, SaveAnswer, CompareProfile,
                WriteProfile, SkipOffer, ExpireOffer, tables
  <1> QED BY <1>1, <1>2

\* A row moves when its trip is created, or by a handler that held it.
LEMMA HeldRowsMove ==
  ASSUME IInv, FreshInv, NEW s \in Slots, Arrival(s) \/ Step(s), NEW t \in Trips,
         trips'[t] # trips[t]
  PROVE  trips[t].status = None \/ (req[s].trip = t /\ Writes(req[s]))
  <1>1. trips \in [Trips -> TripRow]
    BY DEF IInv, TypeOK
  <1>2. CASE \E u \in Trips : Create(s, u)
    BY <1>1, <1>2 DEF Create, Exists
  <1>3. CASE WriteTrip(s) \/ CommitPayment(s)
    <2>1. /\ req[s].todo \in Seq(Stage) /\ req[s].todo # <<>> /\ Ordered(req[s].todo)
          /\ Head(req[s].todo) \in {"save", "commit"}
      BY <1>3 DEF WriteTrip, CommitPayment, At, IInv, TypeOK, FreshInv, Request, Fresh
    <2>2. Writes(req[s])
      <3>1. Head(req[s].todo) \in Range(req[s].todo)
        BY <2>1, TailOrdered
      <3> QED BY <2>1, <3>1 DEF Writes
    <2>3. t = req[s].trip
      BY <1>1, <1>3 DEF WriteTrip, CommitPayment
    <2> QED BY <2>2, <2>3
  <1> QED BY <1>2, <1>3, MovingSteps

LEMMA PaymentsStay ==
  ASSUME [Next]_vars
  PROVE  payments \subseteq payments'
  <1>1. ASSUME NEW s \in Slots, CommitPayment(s) PROVE payments \subseteq payments'
    BY <1>1 DEF CommitPayment
  <1> QED BY <1>1, OnlyPaymentsCharge DEF ledger

\* Without a race, what another handler knows of its row stays true.
LEMMA OthersFresh ==
  ASSUME IInv, FreshInv, NoRace, NEW s \in Slots, Arrival(s) \/ Step(s),
         NEW q \in Slots \ {s}
  PROVE  Fresh(req'[q], trips', payments')
  <1>1. req'[q] = req[q]
    BY ArrivalLocks, StepLocks DEF KeepsOutside, TakesLock
  <1>2. payments \subseteq payments'
    BY PaymentsStay DEF Next
  <1> DEFINE r == req[q]
  <1>3. Fresh(r, trips, payments) /\ r \in Request
    BY DEF FreshInv, IInv, TypeOK
  <1>4. CASE Holds(r)
    <2>1. r.trip \in Trips
      <3>1. r.todo # <<>> /\ r.trip \in Trips \cup {NoTrip}
        BY <1>3, <1>4, Lists DEF Request, Holds
      <3>2. r.trip = NoTrip => r.todo \in Tripless
        BY DEF IInv, LocalsOK
      <3>3. \A todo \in Tripless : {"save", "rank", "commit"} \cap Range(todo) = {}
        BY Lists DEF Tripless
      <3> QED BY <1>4, <3>1, <3>2, <3>3 DEF Holds
    <2>2. trips[r.trip].status # None
      BY <1>3, <1>4 DEF Holds, Fresh, Draft, MayDispatch, ASSIGNABLE_STATES
    <2>3. trips'[r.trip] = trips[r.trip]
      BY <1>4, <2>1, <2>2, HeldRowsMove DEF NoRace
    <2> HIDE DEF r
    <2>4. Fresh(r, trips', payments')
      BY <1>2, <1>3, <2>3 DEF Fresh
    <2> QED BY <1>1, <2>4 DEF r
  <1>5. CASE ~Holds(r)
    <2>1. Fresh(r, trips', payments')
      <3> HIDE DEF r
      <3> QED BY <1>2, <1>3, <1>5 DEF Fresh, Holds
    <2> QED BY <1>1, <2>1
  <1> QED BY <1>4, <1>5
-----------------------------------------------------------------------------
(* The theorems on rows. *)

LEMMA FreshInit == Init => FreshInv
  <1> SUFFICES ASSUME Init PROVE FreshInv
    OBVIOUS
  <1>1. \A s \in Slots : Fresh(req[s], trips, payments)
    BY Lists, FreshCarefree DEF Init, NoRequest
  <1>2. \A t \in Trips : trips[t] = NoRow
    BY DEF Init
  <1>3. Fits(NoRow) /\ NoRow.status = None
    BY DEF Fits, NoRow, DRIVEN_STATES, ASSIGNED_STATES
  <1>4. ClosedIsPaid /\ RatedWasPaid /\ ManualAnswered
    BY <1>2, <1>3 DEF ClosedIsPaid, RatedWasPaid, ManualAnswered, Init
  <1> QED BY <1>1, <1>2, <1>3, <1>4 DEF FreshInv

LEMMA FreshNext ==
  ASSUME IInv, OfferInv, FreshInv, NoRace, [Next]_vars
  PROVE  FreshInv'
  <1>1. CASE UNCHANGED <<Rows, offers, req>>
    BY <1>1, AnswersStand DEF FreshInv, Rows, ClosedIsPaid, RatedWasPaid
  <1>2. CASE UNCHANGED vars
    BY <1>1, <1>2 DEF vars, tables, Rows, ledger
  <1>3. CASE \E d \in Drivers : EndAssignment(d)
    BY <1>1, <1>3 DEF EndAssignment, Rows, ledger
  <1>4. CASE Crash
    <2>1. /\ req' = [s \in Slots |-> NoRequest] /\ UNCHANGED <<Rows, offers>>
      BY <1>4 DEF Crash, tables, Rows, ledger
    <2>2. \A s \in Slots : Fresh(req'[s], trips', payments')
      BY <2>1, Lists, FreshCarefree DEF NoRequest
    <2>3. ManualAnswered' /\ ClosedIsPaid' /\ RatedWasPaid' /\ \A t \in Trips : Fits(trips'[t])
      BY <2>1, AnswersStand DEF Rows, FreshInv, ClosedIsPaid, RatedWasPaid
    <2> QED BY <2>2, <2>3 DEF FreshInv
  <1>5. ASSUME NEW s \in Slots, Arrival(s) PROVE OwnFresh(s)'
    <2>1. ASSUME NEW t \in Trips,
                 \/ Create(s, t) \/ Review(s, t) \/ Arrive(s, t) \/ Start(s, t)
                 \/ Complete(s, t) \/ Cancel(s, t) \/ ConfirmPayment(s, t)
                 \/ Rate(s, t) \/ StartDispatch(s, t)
          PROVE  OwnFresh(s)'
      BY <2>1, CreateFresh, TripRequestFresh, ConfirmPaymentFresh, RateFresh, StartDispatchFresh
    <2>2. ASSUME NEW t \in Trips, NEW d \in Drivers, ManualAssign(s, t, d) PROVE OwnFresh(s)'
      BY <2>2, ManualAssignFresh
    <2>3. ASSUME NEW i \in DOMAIN offers, Accept(s, i) PROVE OwnFresh(s)'
      BY <2>3, AcceptFresh
    <2> QED BY <1>5, <2>1, <2>2, <2>3, OtherArrivalFresh DEF Arrival
  <1>6. ASSUME NEW s \in Slots, Step(s) PROVE OwnFresh(s)'
    BY <1>6, QuietStepFresh, OfferStepFresh, CompareProfileFresh, NextOfferFresh,
       InsertRatingFresh, CompareTripFresh, WriteTripFresh, CommitPaymentFresh,
       LoadForDispatchFresh, RankCandidatesFresh
    DEF Step
  <1>7. ASSUME NEW s \in Slots, Arrival(s) \/ Step(s) PROVE FreshInv'
    <2>1. OwnFresh(s)'
      BY <1>5, <1>6, <1>7
    <2>2. \A q \in Slots \ {s} : Fresh(req'[q], trips', payments')
      BY <1>7, OthersFresh
    <2> QED BY <2>1, <2>2 DEF OwnFresh, FreshInv
  <1> QED BY <1>2, <1>3, <1>4, <1>7 DEF Next

\* What holds in every reachable state of a service that takes one request at
\* a time.
\* What holds in every reachable state as long as nobody races.
LEMMA RaceFreeInvariant == Spec /\ []NoRace => [](IInv /\ OfferInv /\ FreshInv)
  <1>1. IInv /\ OfferInv /\ FreshInv /\ NoRace /\ [Next]_vars => FreshInv'
    BY FreshNext
  <1> QED BY <1>1, FreshInit, LocalsCorrect, OfferInit, OfferNext, PTL DEF Spec

\* One request at a time never races.
LEMMA OneHandlerNoRace ==
  ASSUME OneHandler
  PROVE  NoRace
  BY DEF OneHandler, NoRace

\* What holds in every reachable state of a service that takes one request at
\* a time.
LEMMA SerialInvariant ==
  ASSUME OneHandler
  PROVE  Spec => [](IInv /\ OfferInv /\ FreshInv)
  BY OneHandlerNoRace, RaceFreeInvariant, PTL

\* Without races, with crashes anywhere, a trip has a driver from its
\* assignment to its closing.  (every handler that saves a trip)
THEOREM AssignedTripsHaveDrivers == Spec /\ []NoRace => []AssignedHasDriver
  <1>1. FreshInv => AssignedHasDriver
    BY DEF FreshInv, Fits, AssignedHasDriver
  <1> QED BY <1>1, RaceFreeInvariant, PTL

\* Without races, with crashes anywhere, a trip is CLOSED only when its own
\* driver confirmed a payment of exactly its final fare, even when a late
\* acceptance reopened it.  (complete, confirmPayment, respondToOffer)
THEOREM ClosedTripsArePaid == Spec /\ []NoRace => []ClosedIsPaid
  <1>1. FreshInv => ClosedIsPaid
    BY DEF FreshInv
  <1> QED BY <1>1, RaceFreeInvariant, PTL

\* Without races, with crashes anywhere, every rating names the driver who was
\* paid for the trip.  (rate, confirmPayment)
THEOREM RatingsArePaidFor == Spec /\ []NoRace => []RatedWasPaid
  <1>1. FreshInv => RatedWasPaid
    BY DEF FreshInv
  <1> QED BY <1>1, RaceFreeInvariant, PTL

\* Without races, with crashes anywhere, what a FORANEO trip costs is the fare
\* an operator set: no handler saves it past its review without one, and none
\* meters it.  (review, complete, respondToOffer)
THEOREM ForaneoFaresStand == Spec /\ []NoRace => []ForaneoFareStands
  <1>1. FreshInv => ForaneoFareStands
    BY DEF FreshInv, Fits, ForaneoFareStands
  <1> QED BY <1>1, RaceFreeInvariant, PTL

LEMMA MovesGuarded ==
  ASSUME IInv, FreshInv, [Next]_vars
  PROVE  [\A t \in Trips :
            \/ trips'[t].status = trips[t].status
            \/ <<trips[t].status, trips'[t].status>> \in DocumentedMoves
            \/ /\ trips'[t].status = "DRIVER_ASSIGNED"
               /\ \E s \in Slots : req[s].response = "ACCEPTED"]_trips
  <1> SUFFICES ASSUME trips' # trips, NEW t \in Trips, trips'[t].status # trips[t].status
               PROVE  \/ <<trips[t].status, trips'[t].status>> \in DocumentedMoves
                      \/ /\ trips'[t].status = "DRIVER_ASSIGNED"
                         /\ \E s \in Slots : req[s].response = "ACCEPTED"
    OBVIOUS
  <1>1. trips \in [Trips -> TripRow]
    BY DEF IInv, TypeOK
  <1>2. ASSUME NEW s \in Slots, NEW u \in Trips, Create(s, u)
        PROVE  <<trips[t].status, trips'[t].status>> \in DocumentedMoves
    <2>1. u = t /\ trips[t].status = None
      BY <1>1, <1>2 DEF Create, Exists
    <2>2. trips'[t].status \in {"PENDING_REVIEW", "QUOTED"}
      BY <1>1, <1>2, <2>1 DEF Create, NoRow
    <2> QED BY <2>1, <2>2 DEF DocumentedMoves
  <1>3. ASSUME NEW s \in Slots, WriteTrip(s)
        PROVE  \/ <<trips[t].status, trips'[t].status>> \in DocumentedMoves
               \/ trips'[t].status = "DRIVER_ASSIGNED" /\ req[s].response = "ACCEPTED"
    <2>1. /\ req[s].trip = t
          /\ Draft(req[s].mem, trips[t], req[s].response = "ACCEPTED")
          /\ trips'[t].status = req[s].mem.status
      BY <1>3, DraftWritten
    <2> QED BY <2>1 DEF Draft
  <1>4. ASSUME NEW s \in Slots, CommitPayment(s)
        PROVE  <<trips[t].status, trips'[t].status>> \in DocumentedMoves
    <2>1. /\ Fresh(req[s], trips, payments) /\ req[s].todo \in Seq(Stage)
          /\ req[s].todo # <<>> /\ Head(req[s].todo) = "commit"
      BY <1>4 DEF CommitPayment, At, IInv, TypeOK, FreshInv, Request
    <2>2. "commit" \in Range(req[s].todo)
      BY <2>1, TailOrdered DEF Fresh
    <2>3. trips[req[s].trip].status = "PAYMENT_PENDING"
      BY <2>1, <2>2 DEF Fresh
    <2>4. t = req[s].trip /\ trips'[t].status = "CLOSED"
      BY <1>1, <1>4 DEF CommitPayment, TripRow
    <2> QED BY <2>3, <2>4 DEF DocumentedMoves
  <1>5. ~UNCHANGED vars /\ ~Crash /\ \A d \in Drivers : ~EndAssignment(d)
    BY DEF vars, tables, Crash, EndAssignment
  <1>6. PICK s \in Slots : Arrival(s) \/ Step(s)
    BY <1>5 DEF Next
  <1> QED BY <1>2, <1>3, <1>4, <1>6, MovingSteps

\* Without races, with crashes anywhere, a trip moves only as the
\* documented table says, but for the acceptance of an offer.
\* (assertTransition in every handler; respondToOffer)
THEOREM MovesAreDocumented == Spec /\ []NoRace => GuardedMoves
  <1> QED BY MovesGuarded, RaceFreeInvariant, PTL DEF Spec, GuardedMoves
-----------------------------------------------------------------------------
(* What is left of a handler after its step, for the proofs of other        *)
(* modules.                                                                 *)

Unfinished(r) == r.todo \notin {<<>>, <<"next">>}

\* Handler n is handler r with the same awaits, or one fewer.
SameLocals(r, n) ==
  n.trip = r.trip /\ n.driver = r.driver /\ n.mem = r.mem /\ n.from = r.from

Stays(r, n) == n.todo = r.todo /\ SameLocals(r, n)

Passes(r, n) == n.todo = Tail(r.todo) /\ SameLocals(r, n)

LEMMA BecomesWhole ==
  ASSUME IInv, NEW s \in Slots, NEW r, Become(s, r)
  PROVE  /\ req'[s] = r \/ ~Unfinished(req'[s])
         /\ Unfinished(r) => req'[s] = r
  <1>1. req'[s] = Remaining(r)
    BY DEF Become, IInv, TypeOK
  <1>2. NoRequest.todo = <<>>
    BY DEF NoRequest
  <1>3. [NoRequest EXCEPT !.todo = <<"next">>, !.queue = r.queue].todo = <<"next">>
    BY DEF NoRequest
  <1> HIDE DEF NoRequest
  <1> QED BY <1>1, <1>2, <1>3 DEF Remaining, Unfinished

LEMMA ProceedsOrEnds ==
  ASSUME IInv, NEW s \in Slots, Proceed(s) \/ Return(s), req[s].todo # <<>>
  PROVE  ~Unfinished(req'[s]) \/ Passes(req[s], req'[s])
  <1> DEFINE u == [req[s] EXCEPT !.todo = Tail(@)]
  <1>1. Passes(req[s], u)
    BY DEF IInv, TypeOK, Request, Passes, SameLocals
  <1>2. ~Unfinished(NoRequest)
    BY DEF Unfinished, NoRequest
  <1> HIDE DEF NoRequest, u
  <1>3. CASE Become(s, u)
    BY <1>1, <1>3, BecomesWhole
  <1>4. CASE Become(s, NoRequest)
    BY <1>2, <1>4, BecomesWhole
  <1> QED BY <1>3, <1>4 DEF Proceed, Return, u

\* The steps of a handler in flight.
LEMMA HandlerSteps ==
  ASSUME IInv, NEW s \in Slots, Step(s)
  PROVE  LET r == req[s]
             n == req'[s]
         IN  \/ ~Unfinished(n)
             \/ Stays(r, n) /\ UNCHANGED tables
             \/ Passes(r, n)
             \/ /\ At(s, "rank") /\ UNCHANGED tables
                /\ n.todo = <<"save", "offer", "event">> \o Tail(r.todo)
                /\ n.trip = r.trip /\ n.from = r.from
                /\ n.driver \in Eligible(r.trip)
                /\ n.mem = [r.mem EXCEPT !.status = "SEARCHING_DRIVER"]
             \/ /\ At(s, "load") /\ UNCHANGED tables
                /\ n.todo = <<"rank">> \o Tail(r.todo) /\ n.trip = r.trip
                /\ n.from = trips[r.trip].status
             \/ /\ At(s, "next") /\ UNCHANGED tables
                /\ n.todo = <<"answer", "load", "next">>
  <1> DEFINE r == req[s]
             n == req'[s]
  <1>1. /\ r \in Request /\ r.todo # <<>>
        /\ req \in [Slots -> Request]
    BY DEF Step, CompareTrip, WriteTrip, RecordEvent, RecordAudit, FreeDriver, OccupyDriver,
           CheckDriver, CheckVehicle, LockTrip, CommitPayment, InsertRating, LoadForDispatch,
           RankCandidates, InsertOffer, InsertManualOffer, SaveAnswer, CompareProfile,
           WriteProfile, SkipOffer, ExpireOffer, At, IInv, TypeOK
  <1>2. CASE CompareTrip(s)
    BY <1>1, <1>2 DEF CompareTrip, Stays, SameLocals, Request
  <1>3. CASE WriteTrip(s)
    <2> DEFINE u == [r EXCEPT !.todo = Tail(@), !.saving = FALSE, !.dirty = {}]
    <2>1. Passes(r, u) /\ Become(s, u)
      BY <1>1, <1>3 DEF WriteTrip, Passes, SameLocals, Request
    <2> HIDE DEF u
    <2> QED BY <2>1, BecomesWhole
  <1>4. CASE CompareProfile(s)
    <2>1. PICK profile : Become(s, [r EXCEPT !.todo = Tail(@), !.profile = profile])
      BY <1>4 DEF CompareProfile
    <2> DEFINE u == [r EXCEPT !.todo = Tail(@), !.profile = profile]
    <2>2. Passes(r, u) /\ Become(s, u)
      BY <1>1, <2>1 DEF Passes, SameLocals, Request
    <2> HIDE DEF u
    <2> QED BY <2>2, BecomesWhole
  <1>5. CASE LoadForDispatch(s)
    <2> DEFINE u == [r EXCEPT !.todo = <<"rank">> \o Tail(@),
                              !.from = trips[r.trip].status,
                              !.mem = WithoutDriver(trips[r.trip])]
    <2>1. Become(s, u) \/ Return(s)
      BY <1>5 DEF LoadForDispatch
    <2>2. /\ u.todo = <<"rank">> \o Tail(r.todo) /\ u.trip = r.trip
          /\ u.from = trips[r.trip].status
      BY <1>1 DEF Request
    <2>3. At(s, "load") /\ UNCHANGED tables
      BY <1>5 DEF LoadForDispatch
    <2> HIDE DEF u
    <2> QED BY <1>1, <2>1, <2>2, <2>3, BecomesWhole, ProceedsOrEnds
  <1>6. CASE RankCandidates(s)
    <2>1. CASE Proceed(s)
      BY <1>1, <2>1, ProceedsOrEnds
    <2>2. ASSUME NEW top \in Eligible(r.trip),
                 Become(s, [r EXCEPT !.todo = <<"save", "offer", "event">> \o Tail(@),
                                     !.driver = top, !.mem.status = "SEARCHING_DRIVER"])
          PROVE  \/ ~Unfinished(n)
                 \/ /\ n.todo = <<"save", "offer", "event">> \o Tail(r.todo)
                    /\ n.trip = r.trip /\ n.from = r.from
                    /\ n.driver \in Eligible(r.trip)
                    /\ n.mem = [r.mem EXCEPT !.status = "SEARCHING_DRIVER"]
      <3> DEFINE u == [r EXCEPT !.todo = <<"save", "offer", "event">> \o Tail(@),
                                !.driver = top, !.mem.status = "SEARCHING_DRIVER"]
      <3>1. /\ u.todo = <<"save", "offer", "event">> \o Tail(r.todo) /\ u.trip = r.trip
            /\ u.from = r.from /\ u.driver = top
            /\ u.mem = [r.mem EXCEPT !.status = "SEARCHING_DRIVER"]
        BY <1>1 DEF Request
      <3>2. Become(s, u)
        BY <2>2
      <3> HIDE DEF u
      <3> QED BY <3>1, <3>2, BecomesWhole
    <2> QED BY <1>6, <2>1, <2>2 DEF RankCandidates
  <1>7. ASSUME NEW i \in r.queue, SkipOffer(s, i) \/ ExpireOffer(s, i)
        PROVE  \/ ~Unfinished(n)
               \/ Stays(r, n) /\ UNCHANGED tables
               \/ n.todo = <<"answer", "load", "next">> /\ UNCHANGED tables
    <2> DEFINE v == [r EXCEPT !.queue = @ \ {i}]
               w == [NoRequest EXCEPT !.todo = <<"answer", "load", "next">>,
                                      !.queue = r.queue \ {i}, !.trip = offers[i].trip,
                                      !.offer = i, !.response = "EXPIRED"]
    <2>1. (Become(s, v) \/ Become(s, w)) /\ UNCHANGED tables
      BY <1>7 DEF SkipOffer, ExpireOffer
    <2>2. Stays(r, v) /\ w.todo = <<"answer", "load", "next">>
      BY <1>1 DEF Stays, SameLocals, Request, NoRequest
    <2> HIDE DEF v, w
    <2> QED BY <2>1, <2>2, BecomesWhole
  <1>8. CASE \/ RecordEvent(s) \/ RecordAudit(s) \/ FreeDriver(s) \/ OccupyDriver(s)
             \/ CheckDriver(s) \/ CheckVehicle(s) \/ LockTrip(s) \/ CommitPayment(s)
             \/ InsertRating(s) \/ InsertOffer(s) \/ InsertManualOffer(s) \/ SaveAnswer(s)
             \/ WriteProfile(s)
    <2>1. Proceed(s) \/ Return(s)
      BY <1>8 DEF RecordEvent, RecordAudit, FreeDriver, OccupyDriver, CheckDriver,
                  CheckVehicle, LockTrip, CommitPayment, InsertRating, InsertOffer,
                  InsertManualOffer, SaveAnswer, WriteProfile
    <2> QED BY <1>1, <2>1, ProceedsOrEnds
  <1>9. /\ RankCandidates(s) => At(s, "rank") /\ UNCHANGED tables
        /\ \A i \in r.queue : SkipOffer(s, i) \/ ExpireOffer(s, i) => At(s, "next")
    BY DEF RankCandidates, SkipOffer, ExpireOffer
  <1> QED BY <1>2, <1>3, <1>4, <1>5, <1>6, <1>7, <1>8, <1>9 DEF Step

\* What an arriving request n leaves of a trip t it creates.
Creates(t, n) ==
  /\ trips[t].status = None
  /\ trips' = [trips EXCEPT ![t] = n.mem]
  /\ n.trip = t /\ n.from = None
  /\ n.mem.driver = NoDriver
  /\ n.mem.status \in {"PENDING_REVIEW", "QUOTED"}
  /\ "event" \in Range(n.todo)
  /\ Range(n.todo) \subseteq {"trip.create_on_behalf", "event", "load"}

\* Request n is about to move trip t and to record it.
Moves(t, n) ==
  /\ UNCHANGED trips
  /\ n.trip = t /\ n.from = trips[t].status
  /\ n.driver = trips[t].driver /\ n.mem.driver = trips[t].driver
  /\ {"save", "event"} \subseteq Range(n.todo)
  /\ Range(n.todo) \subseteq {"save", "event", "free", "trip.foraneo_quoted"}
  /\ \/ /\ trips[t].status = "PENDING_REVIEW" /\ n.mem.status = "QUOTED"
        /\ "free" \notin Range(n.todo)
     \/ /\ trips[t].status \in ASSIGNED_STATES
        /\ n.mem.status \in {"DRIVER_ARRIVED", "TRIP_IN_PROGRESS"}
        /\ "free" \notin Range(n.todo)
     \/ /\ trips[t].status = "TRIP_IN_PROGRESS" /\ n.mem.status = "PAYMENT_PENDING"
        /\ "free" \in Range(n.todo)
     \/ /\ trips[t].status \in CANCELLABLE_STATES /\ n.mem.status \in CANCELLED_STATES
        /\ "free" \in Range(n.todo) <=>
             trips[t].status \in ASSIGNED_STATES /\ trips[t].driver # NoDriver

\* Request n is about to put driver d into trip t.
Assigns(t, d, n) ==
  /\ UNCHANGED trips
  /\ n.trip = t /\ n.from = trips[t].status
  /\ n.driver = d /\ n.mem.driver = d
  /\ n.mem.status = "DRIVER_ASSIGNED"
  /\ {"save", "busy", "event"} \subseteq Range(n.todo)
  /\ Range(n.todo) \subseteq {"answer", "check", "vehicle", "save", "manualOffer", "busy",
                              "event", "dispatch.manual_assign"}

\* Request n is about to look for a driver of trip t.
Seeks(t, n) ==
  /\ UNCHANGED trips
  /\ n.todo = <<"rank">>
  /\ n.trip = t /\ n.from = trips[t].status
  /\ n.mem = WithoutDriver(trips[t])

\* Request n is about to set the status of driver d.
Shifting(d, n) ==
  /\ UNCHANGED trips
  /\ Range(n.todo) = {"compareProfile", "writeProfile"}
  /\ n.driver = d
  /\ \E status \in Shifts[d] :
       n.profile = [status |-> status,
                    since  |-> IF status = "AVAILABLE" /\ driverStatus[d] # "AVAILABLE"
                               THEN Later(availableSince[d]) ELSE availableSince[d]]

\* Request n is about to rate its trip.
Rates(n) == {"passengerRates", "driverRates"} \cap Range(n.todo) # {}

\* Request n moves no trip and no driver before it has read a row again.
Asks(n) ==
  /\ UNCHANGED trips
  /\ Range(n.todo) \subseteq {"payment.amount_mismatch", "lock", "commit", "passengerRates",
                              "driverRates", "answer", "load", "next"}
  /\ Rates(n) => n.trip \in Trips /\ trips[n.trip].status \in {"PAYMENT_CONFIRMED", "CLOSED"}

LEMMA HandleWhole ==
  ASSUME IInv, NEW s \in Slots, NEW t \in Trips, NEW e, NEW todo, Handle(s, t, e, todo),
         todo \notin {<<>>, <<"next">>}
  PROVE  LET n == req'[s]
         IN  /\ n.todo = todo /\ n.trip = t /\ n.mem = e
             /\ n.driver = trips[t].driver /\ n.from = trips[t].status
  <1> DEFINE r == [NoRequest EXCEPT !.todo = todo, !.trip = t, !.driver = trips[t].driver,
                                    !.mem = e, !.from = trips[t].status]
  <1>1. /\ Become(s, r) /\ r.todo = todo /\ r.trip = t /\ r.mem = e
        /\ r.driver = trips[t].driver /\ r.from = trips[t].status
    BY DEF Handle, NoRequest
  <1> HIDE DEF r
  <1>2. req'[s] = r
    BY <1>1, BecomesWhole DEF Unfinished
  <1> QED BY <1>1, <1>2

\* A list that does something but wait for the next offer.
LEMMA Whole ==
  ASSUME NEW todo, NEW a, a \in Range(todo), a # "next"
  PROVE  todo \notin {<<>>, <<"next">>}
  BY Lists

LEMMA CreateKind ==
  ASSUME IInv, NEW s \in Slots, NEW t \in Trips, Create(s, t)
  PROVE  Creates(t, req'[s])
  <1>1. PICK category \in Categories, onBehalf \in Audited :
          LET row == [NoRow EXCEPT !.category = category,
                                   !.status = IF category = "FORANEO" THEN "PENDING_REVIEW"
                                                                      ELSE "QUOTED"]
          IN  /\ trips' = [trips EXCEPT ![t] = row]
              /\ Handle(s, t, row,
                   (IF onBehalf THEN <<"trip.create_on_behalf">> ELSE <<>>)
                     \o <<"event">>
                     \o (IF category = "FORANEO" THEN <<>> ELSE <<"load">>))
    BY DEF Create
  <1> DEFINE row == [NoRow EXCEPT !.category = category,
                                  !.status = IF category = "FORANEO" THEN "PENDING_REVIEW"
                                                                     ELSE "QUOTED"]
             p == IF onBehalf THEN <<"trip.create_on_behalf">> ELSE <<>>
             c == category # "FORANEO"
             q == IF c THEN <<"load">> ELSE <<>>
             todo == p \o <<"event">> \o q
  <1>2. /\ row.driver = NoDriver /\ row.status \in {"PENDING_REVIEW", "QUOTED"}
        /\ trips' = [trips EXCEPT ![t] = row] /\ trips[t].status = None
    BY <1>1 DEF NoRow, Create, Exists
  <1>3. Handle(s, t, row, todo)
    BY <1>1
  <1>4. "event" \in Range(todo) /\ Range(todo) \subseteq {"trip.create_on_behalf", "event", "load"}
    <2>1. p \in Seq(Stage) /\ Range(p) \subseteq {"trip.create_on_behalf"}
      BY OptionalAwait DEF Stage, AuditAction
    <2>2. q \in Seq(Stage) /\ Range(q) \subseteq {"load"}
      <3> HIDE DEF c
      <3> QED BY OptionalAwait DEF Stage
    <2>3. <<"event">> \in Seq(Stage) /\ Range(<<"event">>) = {"event"}
      BY Lists DEF Stage
    <2> HIDE DEF p, q
    <2>4. p \o <<"event">> \in Seq(Stage) /\ Range(p \o <<"event">>) = Range(p) \cup {"event"}
      BY <2>1, <2>3, ConcatRange
    <2>5. Range(todo) = Range(p \o <<"event">>) \cup Range(q)
      BY <2>2, <2>4, ConcatRange
    <2> QED BY <2>1, <2>2, <2>4, <2>5
  <1> HIDE DEF todo, row
  <1>5. todo \notin {<<>>, <<"next">>}
    BY <1>4, Whole
  <1>6. /\ req'[s].todo = todo /\ req'[s].trip = t /\ req'[s].mem = row
        /\ req'[s].from = trips[t].status
    BY <1>3, <1>5, HandleWhole
  <1> QED BY <1>2, <1>4, <1>6 DEF Creates

LEMMA MoveKinds ==
  ASSUME IInv, NEW s \in Slots, NEW t \in Trips,
         Review(s, t) \/ Arrive(s, t) \/ Start(s, t) \/ Complete(s, t) \/ Cancel(s, t)
  PROVE  Moves(t, req'[s])
  <1> DEFINE n == req'[s]
             row == trips[t]
  <1>1. UNCHANGED trips /\ row \in TripRow
    BY DEF Review, Arrive, Start, Complete, Cancel, tables, IInv, TypeOK
  <1>2. /\ Range(<<"save", "event">>) = {"save", "event"}
        /\ Range(<<"save", "event", "free">>) = {"save", "event", "free"}
        /\ Range(<<"save", "event", "trip.foraneo_quoted">>)
             = {"save", "event", "trip.foraneo_quoted"}
    BY Lists
  <1>3. ASSUME NEW e, NEW todo, "save" \in Range(todo), Handle(s, t, e, todo)
        PROVE  /\ n.todo = todo /\ n.trip = t /\ n.mem = e
               /\ n.driver = row.driver /\ n.from = row.status
    <2>1. todo \notin {<<>>, <<"next">>}
      BY <1>3, Whole
    <2> QED BY <1>3, <2>1, HandleWhole
  <1>4. CASE Review(s, t)
    <2>1. PICK fare \in Fares :
            Handle(s, t, [row EXCEPT !.quotedFare = fare, !.status = "QUOTED"],
                   <<"save", "event", "trip.foraneo_quoted">>)
      BY <1>4 DEF Review
    <2> DEFINE e == [row EXCEPT !.quotedFare = fare, !.status = "QUOTED"]
    <2>2. e.status = "QUOTED" /\ e.driver = row.driver /\ row.status = "PENDING_REVIEW"
      BY <1>1, <1>4 DEF TripRow, Review
    <2> HIDE DEF e
    <2>3. /\ n.todo = <<"save", "event", "trip.foraneo_quoted">> /\ n.trip = t /\ n.mem = e
          /\ n.driver = row.driver /\ n.from = row.status
      BY <1>2, <1>3, <2>1 DEF e
    <2> QED BY <1>1, <1>2, <2>2, <2>3 DEF Moves
  <1>5. CASE Arrive(s, t)
    <2> DEFINE e == [row EXCEPT !.status = "DRIVER_ARRIVED"]
    <2>1. /\ e.status = "DRIVER_ARRIVED" /\ e.driver = row.driver
          /\ row.status \in ASSIGNED_STATES
      BY <1>1, <1>5 DEF TripRow, Arrive, ASSIGNED_STATES
    <2>2. Handle(s, t, e, <<"save", "event">>)
      BY <1>5 DEF Arrive
    <2> HIDE DEF e
    <2>3. /\ n.todo = <<"save", "event">> /\ n.trip = t /\ n.mem = e
          /\ n.driver = row.driver /\ n.from = row.status
      BY <1>2, <1>3, <2>2
    <2> QED BY <1>1, <1>2, <2>1, <2>3 DEF Moves
  <1>6. CASE Start(s, t)
    <2> DEFINE e == [row EXCEPT !.status = "TRIP_IN_PROGRESS", !.startedAt = TRUE]
    <2>1. /\ e.status = "TRIP_IN_PROGRESS" /\ e.driver = row.driver
          /\ row.status \in ASSIGNED_STATES
      BY <1>1, <1>6 DEF TripRow, Start, ASSIGNED_STATES
    <2>2. Handle(s, t, e, <<"save", "event">>)
      BY <1>6 DEF Start
    <2> HIDE DEF e
    <2>3. /\ n.todo = <<"save", "event">> /\ n.trip = t /\ n.mem = e
          /\ n.driver = row.driver /\ n.from = row.status
      BY <1>2, <1>3, <2>2
    <2> QED BY <1>1, <1>2, <2>1, <2>3 DEF Moves
  <1>7. CASE Complete(s, t)
    <2>1. PICK fare \in FinalFares(row) :
            Handle(s, t, [row EXCEPT !.finalFare = fare, !.status = "PAYMENT_PENDING"],
                   <<"save", "event", "free">>)
      BY <1>7 DEF Complete
    <2> DEFINE e == [row EXCEPT !.finalFare = fare, !.status = "PAYMENT_PENDING"]
    <2>2. e.status = "PAYMENT_PENDING" /\ e.driver = row.driver /\ row.status = "TRIP_IN_PROGRESS"
      BY <1>1, <1>7 DEF TripRow, Complete
    <2> HIDE DEF e
    <2>3. /\ n.todo = <<"save", "event", "free">> /\ n.trip = t /\ n.mem = e
          /\ n.driver = row.driver /\ n.from = row.status
      BY <1>2, <1>3, <2>1 DEF e
    <2> QED BY <1>1, <1>2, <2>2, <2>3 DEF Moves
  <1>8. CASE Cancel(s, t)
    <2> DEFINE freed == row.status \in ASSIGNED_STATES /\ HasAssignedDriver(t)
               q == IF freed THEN <<"free">> ELSE <<>>
               todo == <<"save", "event">> \o q
    <2>1. PICK status \in Cancellations : Handle(s, t, [row EXCEPT !.status = status], todo)
      BY <1>8 DEF Cancel
    <2> DEFINE e == [row EXCEPT !.status = status]
    <2>2. /\ e.status \in CANCELLED_STATES /\ e.driver = row.driver
          /\ row.status \in CANCELLABLE_STATES
      BY <1>1, <1>8 DEF TripRow, Cancel
    <2>3. Range(todo) = {"save", "event"} \cup (IF freed THEN {"free"} ELSE {})
      <3>1. q \in Seq(Stage) /\ Range(q) = IF freed THEN {"free"} ELSE {}
        BY OptionalAwait, Lists DEF Stage
      <3>2. <<"save", "event">> \in Seq(Stage)
        BY DEF Stage
      <3>3. Range(<<"save", "event">>) = {"save", "event"}
        BY Lists DEF Stage
      <3> HIDE DEF q
      <3>4. Range(todo) = Range(<<"save", "event">>) \cup Range(q)
        BY <3>1, <3>2, ConcatRange
      <3> QED BY <3>1, <3>3, <3>4
    <2> HIDE DEF e, todo
    <2>4. /\ n.todo = todo /\ n.trip = t /\ n.mem = e
          /\ n.driver = row.driver /\ n.from = row.status
      BY <1>3, <2>1, <2>3 DEF e
    <2> QED BY <1>1, <2>2, <2>3, <2>4 DEF Moves, HasAssignedDriver
  <1> QED BY <1>4, <1>5, <1>6, <1>7, <1>8

LEMMA AcceptKind ==
  ASSUME IInv, NEW s \in Slots, NEW i \in DOMAIN offers, Accept(s, i)
  PROVE  Assigns(offers[i].trip, offers[i].driver, req'[s])
  <1> DEFINE o == offers[i]
             todo == <<"answer", "vehicle", "save", "busy", "event">>
             e == [trips[o.trip] EXCEPT !.status = "DRIVER_ASSIGNED", !.driver = o.driver]
             r == [NoRequest EXCEPT !.todo = todo, !.trip = o.trip, !.driver = o.driver,
                                    !.offer = i, !.response = "ACCEPTED",
                                    !.from = trips[o.trip].status, !.mem = e]
  <1>1. /\ Become(s, r) /\ r.todo = todo /\ r.trip = o.trip /\ r.from = trips[o.trip].status
        /\ r.mem = e /\ r.driver = o.driver /\ UNCHANGED trips
    BY DEF Accept, NoRequest, tables
  <1>2. e.driver = o.driver /\ e.status = "DRIVER_ASSIGNED"
    <2>1. o.trip \in Trips
      BY Parts, StoredOffer
    <2>2. trips[o.trip] \in TripRow
      BY <2>1 DEF IInv, TypeOK
    <2> QED BY <2>2 DEF TripRow
  <1>3. Range(todo) = {"answer", "vehicle", "save", "busy", "event"}
    BY AcceptList
  <1> HIDE DEF todo, e, r
  <1>4. req'[s] = r
    <2>1. Unfinished(r)
      BY <1>1, <1>3, Whole DEF Unfinished
    <2> QED BY <1>1, <2>1, BecomesWhole
  <1> QED BY <1>1, <1>2, <1>3, <1>4 DEF Assigns

LEMMA ManualAssignKind ==
  ASSUME IInv, NEW s \in Slots, NEW t \in Trips, NEW d \in Drivers, ManualAssign(s, t, d)
  PROVE  Assigns(t, d, req'[s])
  <1> DEFINE todo == <<"check", "vehicle", "save", "manualOffer", "busy", "event",
                       "dispatch.manual_assign">>
             e == [trips[t] EXCEPT !.driver = d, !.status = "DRIVER_ASSIGNED"]
             r == [NoRequest EXCEPT !.todo = todo, !.trip = t, !.driver = d,
                                    !.from = trips[t].status, !.mem = e]
  <1>1. /\ Become(s, r) /\ r.todo = todo /\ r.trip = t /\ r.from = trips[t].status
        /\ r.mem = e /\ r.driver = d /\ UNCHANGED trips
    BY DEF ManualAssign, NoRequest, tables
  <1>2. e.driver = d /\ e.status = "DRIVER_ASSIGNED"
    BY DEF IInv, TypeOK, TripRow
  <1>3. Range(todo) = {"check", "vehicle", "save", "manualOffer", "busy", "event",
                       "dispatch.manual_assign"}
    BY ManualList
  <1> HIDE DEF todo, e, r
  <1>4. req'[s] = r
    <2>1. Unfinished(r)
      BY <1>1, <1>3, Whole DEF Unfinished
    <2> QED BY <1>1, <2>1, BecomesWhole
  <1> QED BY <1>1, <1>2, <1>3, <1>4 DEF Assigns

LEMMA StartDispatchKind ==
  ASSUME IInv, NEW s \in Slots, NEW t \in Trips, StartDispatch(s, t)
  PROVE  Seeks(t, req'[s])
  <1>1. Handle(s, t, WithoutDriver(trips[t]), <<"rank">>) /\ UNCHANGED trips
    BY DEF StartDispatch, tables
  <1>2. <<"rank">> \notin {<<>>, <<"next">>}
    BY Lists, Whole
  <1> QED BY <1>1, <1>2, HandleWhole DEF Seeks

LEMMA ShiftKind ==
  ASSUME IInv, NEW s \in Slots, NEW d \in Drivers, UpdateStatus(s, d)
  PROVE  Shifting(d, req'[s])
  <1> DEFINE since(status) ==
        IF status = "AVAILABLE" /\ driverStatus[d] # "AVAILABLE"
        THEN Later(availableSince[d]) ELSE availableSince[d]
             r(status) ==
        [NoRequest EXCEPT !.todo = <<"compareProfile", "writeProfile">>, !.driver = d,
                          !.profile = [status |-> status, since |-> since(status)]]
  <1>1. PICK status \in Shifts[d] : Become(s, r(status))
    BY DEF UpdateStatus
  <1>2. /\ r(status).todo = <<"compareProfile", "writeProfile">> /\ r(status).driver = d
        /\ r(status).profile = [status |-> status, since |-> since(status)]
    BY DEF NoRequest
  <1>3. Range(<<"compareProfile", "writeProfile">>) = {"compareProfile", "writeProfile"}
    BY Lists
  <1>4. req'[s] = r(status)
    <2> HIDE DEF r
    <2>1. Unfinished(r(status))
      BY <1>2, <1>3, Whole DEF Unfinished
    <2> QED BY <1>1, <2>1, BecomesWhole
  <1>5. UNCHANGED trips
    BY DEF UpdateStatus, tables
  <1> HIDE DEF r
  <1> QED BY <1>2, <1>3, <1>4, <1>5 DEF Shifting

LEMMA AskKinds ==
  ASSUME IInv, NEW s \in Slots,
         \/ \E t \in Trips : ConfirmPayment(s, t) \/ Rate(s, t)
         \/ \E i \in DOMAIN offers : Reject(s, i)
         \/ ExpiryPass(s)
  PROVE  Asks(req'[s])
  <1>1. UNCHANGED trips
    BY DEF ConfirmPayment, Rate, Reject, ExpiryPass, tables
  <1> DEFINE asked == {"payment.amount_mismatch", "lock", "commit", "answer", "load", "next"}
  <1>2. ASSUME NEW r, Become(s, r), Range(r.todo) \subseteq asked PROVE Asks(req'[s])
    <2>1. req'[s] = r \/ req'[s].todo \in {<<>>, <<"next">>}
      BY <1>2, BecomesWhole DEF Unfinished
    <2> QED BY <1>1, <1>2, <2>1, Lists DEF Asks, Rates
  <1>3. ASSUME NEW t \in Trips, NEW e, NEW todo, Handle(s, t, e, todo),
               Range(todo) \subseteq asked
        PROVE  Asks(req'[s])
    <2> DEFINE r == [NoRequest EXCEPT !.todo = todo, !.trip = t, !.driver = trips[t].driver,
                                      !.mem = e, !.from = trips[t].status]
    <2>1. Become(s, r) /\ r.todo = todo
      BY <1>3 DEF Handle, NoRequest
    <2> HIDE DEF r
    <2> QED BY <1>2, <1>3, <2>1
  <1>4. ASSUME NEW t \in Trips, ConfirmPayment(s, t) PROVE Asks(req'[s])
    <2>1. PICK mismatch \in Audited :
            Handle(s, t, trips[t],
                   (IF mismatch THEN <<"payment.amount_mismatch">> ELSE <<>>)
                     \o <<"lock", "commit">>)
      BY <1>4 DEF ConfirmPayment
    <2> DEFINE p == IF mismatch THEN <<"payment.amount_mismatch">> ELSE <<>>
    <2>2. p \in Seq(Stage) /\ Range(p) \subseteq {"payment.amount_mismatch"}
      BY OptionalAwait DEF Stage, AuditAction
    <2>3. <<"lock", "commit">> \in Seq(Stage) /\ Range(<<"lock", "commit">>) = {"lock", "commit"}
      BY Lists DEF Stage
    <2> HIDE DEF p
    <2>4. Range(p \o <<"lock", "commit">>) = Range(p) \cup Range(<<"lock", "commit">>)
      BY <2>2, <2>3, ConcatRange
    <2>5. Range(p \o <<"lock", "commit">>) \subseteq asked
      BY <2>2, <2>3, <2>4
    <2> HIDE DEF asked
    <2> QED BY <1>3, <2>1, <2>5 DEF p
  <1>5. ASSUME NEW t \in Trips, Rate(s, t) PROVE Asks(req'[s])
    <2>1. PICK rating \in {"passengerRates", "driverRates"} : Handle(s, t, trips[t], <<rating>>)
      BY <1>5 DEF Rate
    <2>2. Range(<<rating>>) = {rating}
      BY Lists
    <2>3. <<rating>> \notin {<<>>, <<"next">>}
      BY <2>1, <2>2, Whole
    <2>4. req'[s].todo = <<rating>> /\ req'[s].trip = t
      BY <2>1, <2>3, HandleWhole
    <2>5. trips[t].status \in {"PAYMENT_CONFIRMED", "CLOSED"}
      BY <1>5 DEF Rate
    <2> QED BY <1>1, <2>1, <2>2, <2>4, <2>5 DEF Asks
  <1>6. ASSUME NEW i \in DOMAIN offers, Reject(s, i) PROVE Asks(req'[s])
    <2> DEFINE r == [NoRequest EXCEPT !.todo = <<"answer", "load">>, !.trip = offers[i].trip,
                                      !.driver = offers[i].driver, !.offer = i,
                                      !.response = "REJECTED"]
    <2>1. Become(s, r) /\ r.todo = <<"answer", "load">>
      BY <1>6 DEF Reject, NoRequest
    <2> HIDE DEF r
    <2>2. Range(r.todo) \subseteq asked
      BY <2>1, Lists
    <2> HIDE DEF asked
    <2> QED BY <1>2, <2>1, <2>2
  <1>7. ASSUME ExpiryPass(s) PROVE Asks(req'[s])
    <2> DEFINE r == [NoRequest EXCEPT
                       !.todo = <<"next">>,
                       !.queue = {i \in DOMAIN offers : Pending(i) /\ ~offers[i].manual}]
    <2>1. Become(s, r) /\ r.todo = <<"next">>
      BY <1>7 DEF ExpiryPass, NoRequest
    <2> HIDE DEF r
    <2>2. Range(r.todo) \subseteq asked
      BY <2>1, Lists
    <2> HIDE DEF asked
    <2> QED BY <1>2, <2>1, <2>2
  <1> QED BY <1>4, <1>5, <1>6, <1>7

\* What an arriving request may be.
LEMMA ArrivalKinds ==
  ASSUME IInv, NEW s \in Slots, Arrival(s)
  PROVE  LET n == req'[s]
         IN  /\ Idle(s)
             /\ UNCHANGED <<offers, profiles, ledger, events, audits, ratings>>
             /\ \/ \E t \in Trips : Creates(t, n) \/ Moves(t, n) \/ Seeks(t, n)
                \/ \E t \in Trips, d \in Drivers : Assigns(t, d, n)
                \/ \E d \in Drivers : Shifting(d, n)
                \/ Asks(n)
  <1>1. ASSUME NEW t \in Trips,
               \/ Create(s, t) \/ Review(s, t) \/ Arrive(s, t) \/ Start(s, t)
               \/ Complete(s, t) \/ Cancel(s, t) \/ StartDispatch(s, t)
        PROVE  Creates(t, req'[s]) \/ Moves(t, req'[s]) \/ Seeks(t, req'[s])
    BY <1>1, CreateKind, MoveKinds, StartDispatchKind
  <1>2. ASSUME NEW i \in DOMAIN offers, Accept(s, i)
        PROVE  \E t \in Trips, d \in Drivers : Assigns(t, d, req'[s])
    BY <1>2, AcceptKind, Parts, StoredOffer
  <1>3. UNCHANGED <<offers, profiles, ledger, events, audits, ratings>>
    BY DEF Arrival, Create, Review, Arrive, Start, Complete, Cancel, ConfirmPayment, Rate,
           StartDispatch, ManualAssign, Accept, Reject, UpdateStatus, ExpiryPass, tables
  <1>4. Idle(s)
    BY DEF Arrival, Create, Review, Arrive, Start, Complete, Cancel, ConfirmPayment, Rate,
           StartDispatch, ManualAssign, Accept, Reject, UpdateStatus, ExpiryPass, Accepts
  <1> QED BY <1>1, <1>2, <1>3, <1>4, ManualAssignKind, ShiftKind, AskKinds DEF Arrival

(* The order of the awaits, for any number of handlers. *)

InOrder == \A s \in Slots : Ordered(req[s].todo)

LEMMA BecomesOrdered ==
  ASSUME IInv, NEW s \in Slots, NEW r, Become(s, r), Ordered(r.todo)
  PROVE  Ordered(req'[s].todo)
  <1>1. CASE req'[s] = r
    BY <1>1
  <1>2. CASE ~Unfinished(req'[s])
    BY <1>2, Lists DEF Unfinished
  <1> QED BY <1>1, <1>2, BecomesWhole

LEMMA HandleOrdered ==
  ASSUME IInv, NEW s \in Slots, NEW t, NEW e, NEW todo, Handle(s, t, e, todo), Ordered(todo)
  PROVE  Ordered(req'[s].todo)
  <1> DEFINE r == [NoRequest EXCEPT !.todo = todo, !.trip = t, !.driver = trips[t].driver,
                                    !.mem = e, !.from = trips[t].status]
  <1>1. Become(s, r) /\ r.todo = todo
    BY DEF Handle, NoRequest
  <1> HIDE DEF r
  <1> QED BY <1>1, BecomesOrdered

\* Every request starts with its awaits in order.
LEMMA ArrivalOrdered ==
  ASSUME IInv, NEW s \in Slots, Arrival(s)
  PROVE  Ordered(req'[s].todo)
  <1>1. ASSUME NEW t \in Trips, Create(s, t) PROVE Ordered(req'[s].todo)
    <2>1. PICK category, onBehalf, row :
            Handle(s, t, row,
                   (IF onBehalf THEN <<"trip.create_on_behalf">> ELSE <<>>)
                     \o <<"event">>
                     \o (IF category = "FORANEO" THEN <<>> ELSE <<"load">>))
      BY <1>1 DEF Create
    <2> QED BY <2>1, CreateList, HandleOrdered
  <1>2. ASSUME NEW t \in Trips, Review(s, t) \/ Arrive(s, t) \/ Start(s, t) \/ Complete(s, t)
        PROVE  Ordered(req'[s].todo)
    <2>1. PICK e : \/ Handle(s, t, e, <<"save", "event">>)
                   \/ Handle(s, t, e, <<"save", "event", "free">>)
                   \/ Handle(s, t, e, <<"save", "event", "trip.foraneo_quoted">>)
      BY <1>2 DEF Review, Arrive, Start, Complete
    <2> QED BY <2>1, MoveLists, HandleOrdered
  <1>3. ASSUME NEW t \in Trips, Cancel(s, t) PROVE Ordered(req'[s].todo)
    <2>1. PICK e : Handle(s, t, e, <<"save", "event">>
                     \o (IF trips[t].status \in ASSIGNED_STATES /\ HasAssignedDriver(t)
                         THEN <<"free">> ELSE <<>>))
      BY <1>3 DEF Cancel
    <2> QED BY <2>1, CancelList, HandleOrdered
  <1>4. ASSUME NEW t \in Trips, ConfirmPayment(s, t) PROVE Ordered(req'[s].todo)
    <2>1. PICK mismatch \in Audited :
            Handle(s, t, trips[t],
                   (IF mismatch THEN <<"payment.amount_mismatch">> ELSE <<>>)
                     \o <<"lock", "commit">>)
      BY <1>4 DEF ConfirmPayment
    <2> QED BY <2>1, PaymentList, HandleOrdered
  <1>5. ASSUME NEW t \in Trips, Rate(s, t) \/ StartDispatch(s, t) PROVE Ordered(req'[s].todo)
    <2>1. PICK e, a : Handle(s, t, e, <<a>>)
      BY <1>5 DEF Rate, StartDispatch
    <2> QED BY <2>1, Lists, HandleOrdered
  <1>6. ASSUME NEW t \in Trips, NEW d \in Drivers, ManualAssign(s, t, d)
        PROVE  Ordered(req'[s].todo)
    <2> DEFINE r == [NoRequest EXCEPT
                       !.todo = <<"check", "vehicle", "save", "manualOffer", "busy",
                                  "event", "dispatch.manual_assign">>,
                       !.trip = t, !.driver = d, !.from = trips[t].status,
                       !.mem = [trips[t] EXCEPT !.status = "DRIVER_ASSIGNED", !.driver = d]]
    <2>1. /\ Become(s, r)
          /\ r.todo = <<"check", "vehicle", "save", "manualOffer", "busy", "event",
                        "dispatch.manual_assign">>
      BY <1>6 DEF ManualAssign, NoRequest
    <2> HIDE DEF r
    <2> QED BY <2>1, ManualList, BecomesOrdered
  <1>7. ASSUME NEW i \in DOMAIN offers, Accept(s, i) PROVE Ordered(req'[s].todo)
    <2> DEFINE o == offers[i]
               r == [NoRequest EXCEPT
                       !.todo = <<"answer", "vehicle", "save", "busy", "event">>,
                       !.trip = o.trip, !.driver = o.driver, !.offer = i,
                       !.response = "ACCEPTED", !.from = trips[o.trip].status,
                       !.mem = [trips[o.trip] EXCEPT !.status = "DRIVER_ASSIGNED",
                                                     !.driver = o.driver]]
    <2>1. Become(s, r) /\ r.todo = <<"answer", "vehicle", "save", "busy", "event">>
      BY <1>7 DEF Accept, NoRequest
    <2> HIDE DEF r
    <2> QED BY <2>1, AcceptList, BecomesOrdered
  <1>8. /\ Ordered(<<"answer", "load">>) /\ Ordered(<<"compareProfile", "writeProfile">>)
        /\ Ordered(<<"next">>)
    <2>1. MayFollow("answer", "load") /\ MayFollow("compareProfile", "writeProfile")
      BY DEF MayFollow
    <2> QED BY <2>1, Lists
  <1>9. ASSUME NEW i \in DOMAIN offers, Reject(s, i) PROVE Ordered(req'[s].todo)
    <2> DEFINE o == offers[i]
               r == [NoRequest EXCEPT !.todo = <<"answer", "load">>, !.trip = o.trip,
                                      !.driver = o.driver, !.offer = i,
                                      !.response = "REJECTED"]
    <2>1. Become(s, r) /\ r.todo = <<"answer", "load">>
      BY <1>9 DEF Reject, NoRequest
    <2> HIDE DEF r
    <2> QED BY <1>8, <2>1, BecomesOrdered
  <1>10. ASSUME NEW d \in Drivers, UpdateStatus(s, d) PROVE Ordered(req'[s].todo)
    <2>1. PICK profile :
            Become(s, [NoRequest EXCEPT !.todo = <<"compareProfile", "writeProfile">>,
                                        !.driver = d, !.profile = profile])
      BY <1>10 DEF UpdateStatus
    <2> DEFINE r == [NoRequest EXCEPT !.todo = <<"compareProfile", "writeProfile">>,
                                      !.driver = d, !.profile = profile]
    <2>2. Become(s, r) /\ r.todo = <<"compareProfile", "writeProfile">>
      BY <2>1 DEF NoRequest
    <2> HIDE DEF r
    <2> QED BY <1>8, <2>2, BecomesOrdered
  <1>11. ASSUME ExpiryPass(s) PROVE Ordered(req'[s].todo)
    <2>1. PICK queue : Become(s, [NoRequest EXCEPT !.todo = <<"next">>, !.queue = queue])
      BY <1>11 DEF ExpiryPass
    <2> DEFINE r == [NoRequest EXCEPT !.todo = <<"next">>, !.queue = queue]
    <2>2. Become(s, r) /\ r.todo = <<"next">>
      BY <2>1 DEF NoRequest
    <2> HIDE DEF r
    <2> QED BY <1>8, <2>2, BecomesOrdered
  <1> QED BY <1>1, <1>2, <1>3, <1>4, <1>5, <1>6, <1>7, <1>9, <1>10, <1>11
    DEF Arrival

\* A step leaves the awaits of its handler in order.
LEMMA StepOrdered ==
  ASSUME IInv, InOrder, NEW s \in Slots, Step(s)
  PROVE  Ordered(req'[s].todo)
  <1> DEFINE r == req[s]
             n == req'[s]
  <1>1. r \in Request /\ r.todo \in Seq(Stage) /\ Ordered(r.todo)
    BY DEF IInv, TypeOK, Request, InOrder
  <1>2. CASE ~Unfinished(n)
    BY <1>2, Lists DEF Unfinished
  <1>3. CASE Stays(r, n)
    BY <1>1, <1>3 DEF Stays
  <1>4. r.todo # <<>>
    BY DEF Step, CompareTrip, WriteTrip, RecordEvent, RecordAudit, FreeDriver, OccupyDriver,
           CheckDriver, CheckVehicle, LockTrip, CommitPayment, InsertRating, LoadForDispatch,
           RankCandidates, InsertOffer, InsertManualOffer, SaveAnswer, CompareProfile,
           WriteProfile, SkipOffer, ExpireOffer, At
  <1>5. CASE Passes(r, n)
    BY <1>1, <1>4, <1>5, TailOrdered DEF Passes
  <1>6. ASSUME NEW stage \in {"load", "rank"}, At(s, stage), NEW p \in Seq(Stage), Ordered(p),
               n.todo = p \o Tail(r.todo)
        PROVE  Ordered(n.todo)
    <2>1. /\ Ordered(Tail(r.todo)) /\ Tail(r.todo) \in Seq(Stage)
          /\ \A b \in Range(Tail(r.todo)) : MayFollow(stage, b)
      BY <1>1, <1>4, <1>6, TailOrdered DEF At
    <2>2. \A a \in Range(p), b \in Range(Tail(r.todo)) : MayFollow(a, b)
      BY <2>1, FollowsDispatch
    <2> QED BY <1>6, <2>1, <2>2, ConcatOrdered
  <1>7. /\ <<"rank">> \in Seq(Stage) /\ <<"save", "offer", "event">> \in Seq(Stage)
        /\ Ordered(<<"rank">>) /\ Ordered(<<"save", "offer", "event">>)
        /\ Ordered(<<"answer", "load", "next">>)
    <2>1. /\ MayFollow("save", "offer") /\ MayFollow("save", "event")
          /\ MayFollow("offer", "event") /\ MayFollow("answer", "load")
          /\ MayFollow("answer", "next") /\ MayFollow("load", "next")
      BY DEF MayFollow
    <2> QED BY <2>1, Lists DEF Stage
  <1>8. \/ ~Unfinished(n) \/ Stays(r, n) \/ Passes(r, n)
        \/ At(s, "rank") /\ n.todo = <<"save", "offer", "event">> \o Tail(r.todo)
        \/ At(s, "load") /\ n.todo = <<"rank">> \o Tail(r.todo)
        \/ n.todo = <<"answer", "load", "next">>
    BY HandlerSteps
  <1> HIDE DEF r, n
  <1> QED BY <1>2, <1>3, <1>5, <1>6, <1>7, <1>8 DEF n

LEMMA OrderInit == Init => InOrder
  BY Lists DEF Init, InOrder, NoRequest

\* However handlers interleave, each keeps to its order.
LEMMA OrderNext == IInv /\ InOrder /\ [Next]_vars => InOrder'
  <1> SUFFICES ASSUME IInv, InOrder, [Next]_vars PROVE InOrder'
    OBVIOUS
  <1>1. CASE UNCHANGED req
    BY <1>1 DEF InOrder
  <1>2. UNCHANGED vars \/ (\E d \in Drivers : EndAssignment(d)) => UNCHANGED req
    BY DEF EndAssignment, vars
  <1>3. CASE Crash
    <2>1. \A s \in Slots : req'[s] = NoRequest
      BY <1>3 DEF Crash
    <2> QED BY <2>1, Lists DEF InOrder, NoRequest
  <1>4. ASSUME NEW s \in Slots, Arrival(s) \/ Step(s) PROVE InOrder'
    <2>1. \A q \in Slots \ {s} : req'[q] = req[q]
      BY <1>4, ArrivalLocks, StepLocks DEF KeepsOutside, TakesLock
    <2> QED BY <1>4, <2>1, ArrivalOrdered, StepOrdered DEF InOrder
  <1> QED BY <1>1, <1>2, <1>3, <1>4 DEF Next

LEMMA FreshOrdered == FreshInv => InOrder
  BY DEF FreshInv, Fresh, InOrder
-----------------------------------------------------------------------------
\* Awaits none of which a dispatch leaves behind it.
Guarded == {"check", "vehicle", "save", "offer", "busy", "event", "free", "commit", "rank",
            "passengerRates", "driverRates", "compareProfile", "writeProfile"}

\* The awaits left after a step, for a handler that lists them in order.
LEMMA HandlerAwaits ==
  ASSUME IInv, InOrder, NEW s \in Slots, Step(s)
  PROVE  LET r == req[s]
             n == req'[s]
             h == Head(r.todo)
         IN  /\ r \in Request /\ r.todo # <<>> /\ h \in Range(r.todo) /\ At(s, h)
             /\ \/ ~Unfinished(n)
                \/ Stays(r, n) /\ UNCHANGED tables
                \/ /\ SameLocals(r, n)
                   /\ Range(r.todo) = {h} \cup Range(n.todo)
                   /\ \A b \in Range(n.todo) : MayFollow(h, b)
                \/ /\ h = "rank" /\ UNCHANGED tables
                   /\ {"save", "offer", "event"} \subseteq Range(n.todo)
                   /\ Range(n.todo) \cap Guarded = {"save", "offer", "event"}
                   /\ Range(r.todo) \cap Guarded = {"rank"}
                   /\ n.trip = r.trip /\ n.from = r.from
                   /\ n.driver \in Eligible(r.trip)
                   /\ n.mem = [r.mem EXCEPT !.status = "SEARCHING_DRIVER"]
                \/ /\ UNCHANGED tables
                   /\ Range(n.todo) \cap Guarded \subseteq {"rank"}
                   /\ Range(r.todo) \cap Guarded = {}
                   /\ "rank" \in Range(n.todo) =>
                        At(s, "load") /\ n.trip = r.trip /\ n.from = trips[r.trip].status
  <1> DEFINE r == req[s]
             n == req'[s]
             h == Head(r.todo)
  <1>1. /\ r \in Request /\ r.todo # <<>> /\ r.todo \in Seq(Stage) /\ Ordered(r.todo)
    BY DEF Step, CompareTrip, WriteTrip, RecordEvent, RecordAudit, FreeDriver, OccupyDriver,
           CheckDriver, CheckVehicle, LockTrip, CommitPayment, InsertRating, LoadForDispatch,
           RankCandidates, InsertOffer, InsertManualOffer, SaveAnswer, CompareProfile,
           WriteProfile, SkipOffer, ExpireOffer, At, IInv, TypeOK, InOrder, Request
  <1>2. /\ Range(r.todo) = {h} \cup Range(Tail(r.todo))
        /\ \A b \in Range(Tail(r.todo)) : MayFollow(h, b)
        /\ Tail(r.todo) \in Seq(Stage)
    BY <1>1, TailOrdered
  <1>3. ASSUME h \in {"rank", "load", "next"}
        PROVE  Range(Tail(r.todo)) \cap Guarded = {}
    BY <1>2, <1>3 DEF MayFollow, Guarded
  <1>4. ASSUME h = "rank", n.todo = <<"save", "offer", "event">> \o Tail(r.todo)
        PROVE  /\ {"save", "offer", "event"} \subseteq Range(n.todo)
               /\ Range(n.todo) \cap Guarded = {"save", "offer", "event"}
               /\ Range(r.todo) \cap Guarded = {"rank"}
    <2>1. /\ <<"save", "offer", "event">> \in Seq(Stage)
          /\ Range(<<"save", "offer", "event">>) = {"save", "offer", "event"}
      BY Lists DEF Stage
    <2>2. Range(n.todo) = {"save", "offer", "event"} \cup Range(Tail(r.todo))
      BY <1>2, <1>4, <2>1, ConcatRange
    <2>3. {"save", "offer", "event", "rank"} \subseteq Guarded
      BY DEF Guarded
    <2> QED BY <1>2, <1>3, <1>4, <2>2, <2>3
  <1>5. ASSUME h = "load", n.todo = <<"rank">> \o Tail(r.todo)
        PROVE  /\ Range(n.todo) \cap Guarded \subseteq {"rank"}
               /\ Range(r.todo) \cap Guarded = {}
    <2>1. <<"rank">> \in Seq(Stage) /\ Range(<<"rank">>) = {"rank"}
      BY Lists DEF Stage
    <2>2. Range(n.todo) = {"rank"} \cup Range(Tail(r.todo))
      BY <1>2, <1>5, <2>1, ConcatRange
    <2>3. "load" \notin Guarded
      BY DEF Guarded
    <2> QED BY <1>2, <1>3, <1>5, <2>2, <2>3
  <1>6. ASSUME h = "next", n.todo = <<"answer", "load", "next">>
        PROVE  /\ Range(n.todo) \cap Guarded \subseteq {"rank"}
               /\ "rank" \notin Range(n.todo)
               /\ Range(r.todo) \cap Guarded = {}
    <2>1. Range(n.todo) = {"answer", "load", "next"}
      BY <1>6, Lists
    <2>2. {"answer", "load", "next"} \cap Guarded = {}
      BY DEF Guarded
    <2> QED BY <1>2, <1>3, <1>6, <2>1, <2>2
  <1>7. At(s, h) /\ \A stage : At(s, stage) => stage = h
    BY <1>1 DEF At
  <1> HIDE DEF r, n, h
  <1>8. \/ ~Unfinished(n)
        \/ Stays(r, n) /\ UNCHANGED tables
        \/ Passes(r, n)
        \/ /\ h = "rank" /\ UNCHANGED tables
           /\ n.todo = <<"save", "offer", "event">> \o Tail(r.todo)
           /\ n.trip = r.trip /\ n.from = r.from
           /\ n.driver \in Eligible(r.trip)
           /\ n.mem = [r.mem EXCEPT !.status = "SEARCHING_DRIVER"]
        \/ /\ h = "load" /\ UNCHANGED tables
           /\ n.todo = <<"rank">> \o Tail(r.todo) /\ n.trip = r.trip
           /\ n.from = trips[r.trip].status
        \/ /\ h = "next" /\ UNCHANGED tables
           /\ n.todo = <<"answer", "load", "next">>
    BY <1>7, HandlerSteps DEF r, n
  <1> QED BY <1>1, <1>2, <1>4, <1>5, <1>6, <1>7, <1>8 DEF Passes, r, n, h

\* How a handler comes to its end: after its last await, or early.
LEMMA HandlerEnds ==
  ASSUME IInv, NEW s \in Slots, Step(s), ~Unfinished(req'[s])
  PROVE  \/ At(s, "check") \/ At(s, "vehicle") \/ At(s, "lock") \/ At(s, "load") \/ At(s, "next")
         \/ Tail(req[s].todo) \in {<<>>, <<"next">>}
  <1> DEFINE r == req[s]
  <1>1. r \in Request /\ req \in [Slots -> Request]
    BY DEF IInv, TypeOK
  <1>2. ASSUME NEW u, Become(s, u), u.todo = Tail(r.todo)
        PROVE  Tail(r.todo) \in {<<>>, <<"next">>}
    BY <1>2, BecomesWhole DEF Unfinished
  <1>3. Proceed(s) => Tail(r.todo) \in {<<>>, <<"next">>}
    <2> DEFINE u == [r EXCEPT !.todo = Tail(@)]
    <2>1. u.todo = Tail(r.todo)
      BY <1>1 DEF Request
    <2> HIDE DEF u
    <2> QED BY <1>2, <2>1 DEF Proceed, u
  <1>4. ~CompareTrip(s)
    <2> SUFFICES ASSUME CompareTrip(s) PROVE FALSE
      OBVIOUS
    <2>1. req'[s].todo = r.todo
      BY <1>1 DEF CompareTrip, Request
    <2>2. Head(r.todo) = "save" /\ r.todo # <<>> /\ Head(<<"next">>) = "next"
      BY DEF CompareTrip, At
    <2> QED BY <2>1, <2>2 DEF Unfinished
  <1>5. CASE WriteTrip(s)
    <2> DEFINE u == [r EXCEPT !.todo = Tail(@), !.saving = FALSE, !.dirty = {}]
    <2>1. u.todo = Tail(r.todo) /\ Become(s, u)
      BY <1>1, <1>5 DEF WriteTrip, Request
    <2> HIDE DEF u
    <2> QED BY <1>2, <2>1
  <1>6. CASE CompareProfile(s)
    <2>1. PICK profile : Become(s, [r EXCEPT !.todo = Tail(@), !.profile = profile])
      BY <1>6 DEF CompareProfile
    <2> DEFINE u == [r EXCEPT !.todo = Tail(@), !.profile = profile]
    <2>2. u.todo = Tail(r.todo) /\ Become(s, u)
      BY <1>1, <2>1 DEF Request
    <2> HIDE DEF u
    <2> QED BY <1>2, <2>2
  <1>7. CASE RankCandidates(s)
    <2>1. ASSUME NEW top \in Eligible(r.trip),
                 Become(s, [r EXCEPT !.todo = <<"save", "offer", "event">> \o Tail(@),
                                     !.driver = top, !.mem.status = "SEARCHING_DRIVER"])
          PROVE  FALSE
      <3> DEFINE todo == <<"save", "offer", "event">> \o Tail(r.todo)
                 u == [r EXCEPT !.todo = <<"save", "offer", "event">> \o Tail(@),
                                !.driver = top, !.mem.status = "SEARCHING_DRIVER"]
      <3>1. u.todo = todo /\ Become(s, u)
        BY <1>1, <2>1 DEF Request
      <3>2. "save" \in Range(todo)
        <4>1. Tail(r.todo) \in Seq(Stage)
          <5>1. r.todo \in Seq(Stage) /\ r.todo # <<>>
            BY <1>1, <1>7 DEF Request, RankCandidates, At
          <5> QED BY <5>1
        <4>2. /\ <<"save", "offer", "event">> \in Seq(Stage)
              /\ "save" \in Range(<<"save", "offer", "event">>)
          BY Lists DEF Stage
        <4> QED BY <4>1, <4>2, ConcatRange
      <3> HIDE DEF u, todo
      <3>3. Unfinished(u)
        <4>1. todo \notin {<<>>, <<"next">>}
          BY <3>2, Whole
        <4> QED BY <3>1, <4>1 DEF Unfinished
      <3> QED BY <3>1, <3>3, BecomesWhole
    <2> QED BY <1>3, <1>7, <2>1 DEF RankCandidates
  <1>8. CASE \/ RecordEvent(s) \/ RecordAudit(s) \/ FreeDriver(s) \/ OccupyDriver(s)
             \/ CommitPayment(s) \/ InsertRating(s) \/ InsertOffer(s) \/ InsertManualOffer(s)
             \/ SaveAnswer(s) \/ WriteProfile(s)
    BY <1>3, <1>8 DEF RecordEvent, RecordAudit, FreeDriver, OccupyDriver, CommitPayment,
                      InsertRating, InsertOffer, InsertManualOffer, SaveAnswer, WriteProfile
  <1>9. ~(CheckDriver(s) /\ ~At(s, "check")) /\ ~(CheckVehicle(s) /\ ~At(s, "vehicle"))
        /\ ~(LockTrip(s) /\ ~At(s, "lock")) /\ ~(LoadForDispatch(s) /\ ~At(s, "load"))
        /\ \A i \in r.queue : SkipOffer(s, i) \/ ExpireOffer(s, i) => At(s, "next")
    BY DEF CheckDriver, CheckVehicle, LockTrip, LoadForDispatch, SkipOffer, ExpireOffer
  <1> QED BY <1>3, <1>4, <1>5, <1>6, <1>7, <1>8, <1>9 DEF Step

\* Which awaits write which tables.
LEMMA StepWrites ==
  ASSUME NEW s \in Slots, Step(s)
  PROVE  /\ trips' = trips \/ WriteTrip(s) \/ CommitPayment(s)
         /\ UNCHANGED <<driverStatus, availableSince>>
              \/ FreeDriver(s) \/ OccupyDriver(s) \/ WriteProfile(s)
         /\ offers' = offers \/ InsertOffer(s) \/ InsertManualOffer(s) \/ SaveAnswer(s)
         /\ events' = events \/ RecordEvent(s) \/ CommitPayment(s)
  BY DEF Step, CompareTrip, WriteTrip, RecordEvent, RecordAudit, FreeDriver, OccupyDriver,
         CheckDriver, CheckVehicle, LockTrip, CommitPayment, InsertRating, LoadForDispatch,
         RankCandidates, InsertOffer, InsertManualOffer, SaveAnswer, CompareProfile,
         WriteProfile, SkipOffer, ExpireOffer, tables, profiles

\* Whose step the next await of a handler is.
LEMMA StepAt ==
  ASSUME NEW s \in Slots, Step(s)
  PROVE  /\ At(s, "save") => CompareTrip(s) \/ WriteTrip(s)
         /\ At(s, "event") => RecordEvent(s)
         /\ At(s, "free") => FreeDriver(s)
         /\ At(s, "busy") => OccupyDriver(s)
  BY DEF Step, At, CompareTrip, WriteTrip, RecordEvent, RecordAudit, FreeDriver, OccupyDriver,
         CheckDriver, CheckVehicle, LockTrip, CommitPayment, InsertRating, LoadForDispatch,
         RankCandidates, InsertOffer, InsertManualOffer, SaveAnswer, CompareProfile,
         WriteProfile, SkipOffer, ExpireOffer, AuditAction

\* What a handler has still to record or to tell of a driver stays to be done
\* until its await comes, unless the handler returns early.
LEMMA StillAwaits ==
  ASSUME IInv, InOrder, NEW s \in Slots, Step(s), NEW a \in {"event", "busy", "free"},
         a \in Range(req[s].todo), ~At(s, a), ~At(s, "check"), ~At(s, "vehicle")
  PROVE  /\ a \in Range(req'[s].todo)
         /\ Range(req'[s].todo) \subseteq Range(req[s].todo)
         /\ WriteTrip(s) => "save" \notin Range(req'[s].todo)
         /\ SameLocals(req[s], req'[s])
  <1> DEFINE r == req[s]
             n == req'[s]
             h == Head(r.todo)
  <1>1. /\ At(s, h) /\ \A stage : At(s, stage) => stage = h
        /\ r.todo \in Seq(Stage) /\ r.todo # <<>> /\ Ordered(r.todo)
    BY HandlerAwaits DEF At, Request, InOrder
  <1>2. /\ Range(r.todo) = {h} \cup Range(Tail(r.todo))
        /\ \A b \in Range(Tail(r.todo)) : MayFollow(h, b)
    BY <1>1, TailOrdered
  <1>3. h # a
    BY <1>1 DEF At
  <1>4. a \in Range(Tail(r.todo)) /\ MayFollow(h, a)
    BY <1>2, <1>3
  <1>5. h \notin {"rank", "lock", "load", "next", "check", "vehicle"}
    <2>1. h \notin {"check", "vehicle"}
      BY <1>1
    <2> HIDE DEF h
    <2> QED BY <1>4, <2>1 DEF MayFollow
  <1> HIDE DEF r, n, h
  <1>6. Unfinished(n)
    <2>1. Tail(r.todo) \notin {<<>>, <<"next">>}
      BY <1>4, Whole
    <2>2. ~(\/ At(s, "check") \/ At(s, "vehicle") \/ At(s, "lock") \/ At(s, "load")
            \/ At(s, "next") \/ Tail(req[s].todo) \in {<<>>, <<"next">>})
      BY <1>1, <1>5, <2>1 DEF r
    <2> QED BY <2>2, HandlerEnds DEF n
  <1>7. WriteTrip(s) => "save" \notin Range(n.todo)
    <2> SUFFICES ASSUME WriteTrip(s) PROVE "save" \notin Range(n.todo)
      OBVIOUS
    <2> DEFINE u == [r EXCEPT !.todo = Tail(@), !.saving = FALSE, !.dirty = {}]
    <2>1. Become(s, u) /\ u.todo = Tail(r.todo) /\ h = "save"
      <3>1. r \in Request
        BY DEF IInv, TypeOK, r
      <3>2. At(s, "save") /\ Become(s, [req[s] EXCEPT !.todo = Tail(@), !.saving = FALSE, !.dirty = {}])
        BY DEF WriteTrip
      <3> QED BY <1>1, <3>1, <3>2 DEF Request, r
    <2> HIDE DEF u
    <2>2. n.todo = Tail(r.todo)
      BY <1>6, <2>1, BecomesWhole DEF n
    <2> QED BY <1>2, <2>1, <2>2 DEF MayFollow
  <1>8. CASE Stays(r, n) /\ UNCHANGED tables
    BY <1>7, <1>8 DEF Stays, SameLocals, r, n
  <1>9. CASE /\ SameLocals(r, n)
             /\ Range(r.todo) = {h} \cup Range(n.todo)
             /\ \A b \in Range(n.todo) : MayFollow(h, b)
    BY <1>3, <1>7, <1>9 DEF r, n
  <1>10. a \in Range(r.todo) \cap Guarded
    BY DEF Guarded, r
  <1> QED BY <1>5, <1>6, <1>8, <1>9, <1>10, HandlerAwaits DEF r, n, h
=============================================================================
