----------------------------- MODULE MCMetering -----------------------------
(***************************************************************************)
(* A short day for Metering: four minutes, two night schedules of which    *)
(* one crosses midnight, two price lists.                                  *)
(***************************************************************************)
EXTENDS Metering

CONSTANTS t1, k1, k2, z1

Nights == {<<3, 1>>, <<1, 2>>}

TwoRates == {[base |-> 2, perKm |-> 1, perMinute |-> 1],
             [base |-> 3, perKm |-> 2, perMinute |-> 1]}

FirstRate == [base |-> 2, perKm |-> 1, perMinute |-> 1]

\* The phone's clock is a minute behind the server's, or a minute ahead, and may
\* jump from the one to the other between two positions.
ClockErrors == {-1, 1}

\* The tariffs are those of the seed: the default rules, the night across midnight;
\* every trip was asked for at once and will be metered, and its ride starts long
\* before the first position of the phone, about then, or never.
AsSeeded ==
  /\ \A k \in Schedules : schedules[k].override = None /\ schedules[k].start = 3
  /\ Len(rules) = 2
  /\ \A t \in Requests : /\ quotes[t].phase = "saved" /\ quotes[t].requestedAt = 0
                          /\ quotes[t].category # "FORANEO"
                          /\ rides[t].startedAt \in {0, PhoneFrom}

\* Bound: either the centre changes tariffs or the phone reports positions; the
\* one is read by quotes and prices only, the other by the meter only.
Apart == MeteringInit /\ [][MeteringNext /\ (AsSeeded' \/ taken' = <<>>)]_meteringVars
=============================================================================
