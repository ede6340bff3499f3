------------------------------ MODULE Metering ------------------------------
(***************************************************************************)
(* From the quote of a trip to its final fare: the phone of the driver     *)
(* reports positions through a network that loses, repeats and reorders    *)
(* them, and TripsService.complete measures what it finds of the ride and  *)
(* prices it with the rule of the quote.                                   *)
(***************************************************************************)
EXTENDS Fares, FiniteSetsExt

CONSTANTS
  Straight,    \* straight line from origin to destination
  Skews,       \* how far the phone's clock may be from the server's
  Moves,       \* how far the driver gets between two positions, in this instance
  PhoneFrom,   \* bound: from this instant on, a position for every instant at most
  MaxPings,    \* bound: positions the phone takes
  MaxRows      \* bound: requests of the phone that arrive, repeats included

ASSUME MeteringAssumption ==
  /\ Straight \in Nat /\ Skews \subseteq Int
  /\ Moves \subseteq Int /\ PhoneFrom \in Nat /\ MaxPings \in Nat /\ MaxRows \in Nat

VARIABLES
  taken,     \* the positions the phone took, one after the other
  location,  \* table driver_locations, the row of the driver if there is one
  posted,    \* pings between their two writes
  history,   \* table driver_location_history, in order of insertion
  rides      \* per request: the columns of its ride

gps == <<taken, location, posted, history>>
meteringVars == <<now, tariffs, quotes, gps, rides>>

\* A position, dated by the phone: recordedAt is stored as it was sent.
Ping == [at: Int, pos: Int]

Gap(a, b) == IF a < b THEN b - a ELSE a - b
-----------------------------------------------------------------------------
(* The phone and GpsController.ping. *)

\* The phone takes a position and dates it by its own clock, which may be ahead,
\* behind, or set back between two positions.
Take ==
  /\ Len(taken) < MaxPings /\ Len(taken) <= now - PhoneFrom
  /\ LET last == IF taken = <<>> THEN 0 ELSE taken[Len(taken)].pos IN
     \E move \in Moves, skew \in Skews :
       taken' = Append(taken, [at |-> now + skew, pos |-> last + move])
  /\ UNCHANGED <<now, tariffs, quotes, location, posted, history, rides>>

\* A position arrives, the first time or again, and overwrites the last known.
Upsert(p) ==
  /\ p \in Range(taken) \ posted
  /\ Len(history) + Cardinality(posted) < MaxRows
  /\ location' = {p}
  /\ posted' = posted \cup {p}
  /\ UNCHANGED <<now, tariffs, quotes, taken, history, rides>>

\* history.save
InsertPing(p) ==
  /\ p \in posted
  /\ history' = Append(history, p)
  /\ posted' = posted \ {p}
  /\ UNCHANGED <<now, tariffs, quotes, taken, location, rides>>
-----------------------------------------------------------------------------
(* The ride. *)

Ride == [phase: {"waiting", "riding", "completing", "completed"}, startedAt: Nat,
         minutes: Nat, distance: Nat, finalFare: Nat]

NoRide == [phase |-> "waiting", startedAt |-> 0, minutes |-> 0, distance |-> 0,
           finalFare |-> 0]

\* Mutant of Tracks: the rows as they were inserted.
TracksAsInserted(startedAt) == {SelectSeq(history, LAMBDA p : p.at \in startedAt..now)}

\* The rows of the ride, ORDER BY recorded_at: those of one date in any order.
Tracks(startedAt) ==
  LET rows == {i \in DOMAIN history : history[i].at \in startedAt..now} IN
  {[i \in DOMAIN order |-> history[order[i]]] :
     order \in {f \in Bijection(1..Cardinality(rows), rows) :
                  \A i, j \in DOMAIN f : i < j => history[f[i]].at <= history[f[j]].at}}

TrackLength(track) ==
  MapThenSumSet(LAMBDA i : Gap(track[i].pos, track[i+1].pos), 1..(Len(track) - 1))

\* With less than two rows, the straight line and a road factor of 1.35.
DistanceKm(track) ==
  IF Len(track) >= 2 THEN TrackLength(track) ELSE (Straight * 135 + 50) \div 100

\* Mutant of Minutes: the wrong way round.
MinutesBack(startedAt) == startedAt - now

\* The whole minutes since the start.
Minutes(startedAt) == IF now > startedAt THEN now - startedAt ELSE 0

\* Mutant of RateOf: the tariff is resolved again.
RateToday(t) ==
  LET rows == Candidates(quotes[t].category, quotes[t].zone) IN
  rules[CHOOSE i \in FirstRows(rows) : TRUE].rate

\* The rule stored in the trip.
RateOf(t) == rules[quotes[t].rule].rate

FareFor(rate, distance, minutes) ==
  rate.base + rate.perKm * distance + rate.perMinute * minutes

\* The ride starts, some time after the request.  What happens in between, and
\* trips that are FORANEO and not metered, are in TripsService.
StartRide(t) ==
  /\ quotes[t].phase = "saved" /\ quotes[t].category # "FORANEO"
  /\ rides[t].phase = "waiting"
  /\ rides' = [rides EXCEPT ![t].phase = "riding", ![t].startedAt = now]
  /\ UNCHANGED <<now, tariffs, quotes, gps>>

\* complete: the trip is loaded with its rule, and its minutes counted.
LoadRide(t) ==
  /\ rides[t].phase = "riding"
  /\ rides' = [rides EXCEPT ![t].phase = "completing",
                            ![t].minutes = Minutes(rides[t].startedAt)]
  /\ UNCHANGED <<now, tariffs, quotes, gps>>

\* The positions are read and the fare computed and saved.
Meter(t) ==
  /\ rides[t].phase = "completing"
  /\ \E track \in Tracks(rides[t].startedAt) :
       LET distance == DistanceKm(track) IN
       rides' = [rides EXCEPT ![t].phase = "completed", ![t].distance = distance,
                              ![t].finalFare = FareFor(RateOf(t), distance, rides[t].minutes)]
  /\ UNCHANGED <<now, tariffs, quotes, gps>>

\* The process dies: pings are left half written, a quote is not made, a ride
\* is still to be completed.
Die ==
  /\ posted' = {}
  /\ quotes' = [t \in Requests |->
                 IF quotes[t].phase \in {"located", "categorized", "priced"}
                 THEN NoQuote ELSE quotes[t]]
  /\ rides' = [t \in Requests |->
                IF rides[t].phase = "completing"
                THEN [rides[t] EXCEPT !.phase = "riding", !.minutes = 0] ELSE rides[t]]
  /\ <<posted, quotes, rides>> # <<posted', quotes', rides'>>
  /\ UNCHANGED <<now, tariffs, taken, location, history>>
-----------------------------------------------------------------------------
MeteringInit ==
  /\ FaresInit
  /\ taken = <<>> /\ location = {} /\ posted = {} /\ history = <<>>
  /\ rides = [t \in Requests |-> NoRide]

MeteringNext ==
  \/ (FaresNext \/ Tick) /\ UNCHANGED <<gps, rides>>
  \/ Take
  \/ \E p \in Range(taken) : Upsert(p) \/ InsertPing(p)
  \/ \E t \in Requests : StartRide(t) \/ LoadRide(t) \/ Meter(t)
  \/ Die

MeteringSpec == MeteringInit /\ [][MeteringNext]_meteringVars
-----------------------------------------------------------------------------
\* The tables and the handlers in flight hold what schema and code say.
MeteringTypeOK ==
  /\ now \in Nat
  /\ schedules \in [Schedules -> Schedule]
  /\ rules \in Seq(Rule)
  /\ quotes \in [Requests -> Quote]
  /\ \A t \in Requests :
       quotes[t].phase \in {"priced", "saved"} /\ quotes[t].category # "FORANEO"
         => quotes[t].rule \in DOMAIN rules
  /\ taken \in Seq(Ping) /\ history \in Seq(Ping)
  /\ location \subseteq Ping /\ posted \subseteq Ping
  /\ rides \in [Requests -> Ride]

\* Every tariff has a version still open, and both categories have a default.
OpenVersions ==
  /\ \A i \in DOMAIN rules :
       /\ rules[i].from <= now
       /\ \E j \in DOMAIN rules : /\ rules[j].category = rules[i].category
                                  /\ rules[j].zone = rules[i].zone
                                  /\ rules[j].to = Open
  /\ \A category \in {"NORMAL", "NOCTURNO"} :
       \E j \in DOMAIN rules : rules[j].category = category /\ rules[j].zone = NoZone

\* A quote keeps a rule of its category, no younger than its trip.
QuoteOK(q) ==
  /\ q.phase \in {"located", "categorized"} => q.zone \in Zones
  /\ q.phase = "categorized" => q.category # "FORANEO"
  /\ q.phase \in {"priced", "saved"} /\ q.category # "FORANEO" =>
       /\ q.rule \in DOMAIN rules
       /\ rules[q.rule].category = q.category
       /\ q.phase = "saved" => rules[q.rule].from <= q.requestedAt

\* Only a saved trip with a rule is driven, and it pays by that rule.
RideOK(t) ==
  /\ rides[t].phase # "waiting" => quotes[t].phase = "saved" /\ quotes[t].category # "FORANEO"
  /\ rides[t].phase = "completed" =>
       rides[t].finalFare = FareFor(RateOf(t), rides[t].distance, rides[t].minutes)

\* The inductive form of NeverRefused, ZoneTariffWins and NoLaterTariff.
TariffInv ==
  /\ OpenVersions
  /\ NeverRefused
  /\ ZoneTariffWins
  /\ \A t \in Requests : QuoteOK(quotes[t]) /\ RideOK(t)

\* A tariff republished in the course of an afternoon changes the price of no
\* trip that was asked for before it.  (quote, complete)
NoLaterTariff ==
  \A t \in Requests : rides[t].phase = "completed" =>
    \E r \in Range(rules) :
      /\ r.category = quotes[t].category /\ r.from <= quotes[t].requestedAt
      /\ rides[t].finalFare = FareFor(r.rate, rides[t].distance, rides[t].minutes)

\* The phone never gave a position the date of an earlier one, or before it.
ClockNotSetBack == \A i, j \in DOMAIN taken : i < j => taken[i].at < taken[j].at

\* When all positions the phone dated within the ride have arrived, late,
\* repeated or in any order, the distance charged is the one the phone has
\* travelled between them, however far its clock is from the server's, as long
\* as it was not set back.  (GpsController.ping, computeActualTrip)
MeterIsRight ==
  [][\A t \in Requests :
       LET ride == {i \in DOMAIN taken : taken[i].at \in rides[t].startedAt..now} IN
       /\ rides[t].phase = "completing" /\ rides'[t].phase = "completed"
       /\ ClockNotSetBack
       /\ Cardinality(ride) >= 2
       /\ \A i \in ride : taken[i] \in Range(history)
       => rides'[t].distance =
            MapThenSumSet(LAMBDA i : Gap(taken[i].pos, taken[i+1].pos),
                          {i \in ride : i + 1 \in ride})]_rides
=============================================================================
