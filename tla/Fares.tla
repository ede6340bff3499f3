------------------------------- MODULE Fares --------------------------------
(***************************************************************************)
(* FareCalculationService: a request gets its category from the place and  *)
(* the hour, and its fare rule from the tariffs in force, while the        *)
(* monitoring centre forces the night tariff on or off and publishes new   *)
(* versions of the rules.  A quote is three queries, an await each, and    *)
(* then the insert of the trip.                                            *)
(***************************************************************************)
EXTENDS Integers, Sequences, FiniteSets, Functions, TripStates

CONSTANTS
  Requests,     \* trips asked for
  Day,          \* minutes in a day
  Schedules,    \* rows of fare_schedules for NOCTURNO
  Windows,      \* the <<start, end>> a schedule may have in this instance
  Zones,        \* active rows of service_zones
  NoZone,       \* the null zone of a default rule
  Rates,        \* [base, perKm, perMinute] of rules, in this instance
  SeedRate,     \* the one of the rules the seed publishes
  MaxRules,     \* bound: versions of rules
  LastInstant,  \* bound: the instance ends here
  ChangesUntil  \* bound: the centre changes nothing from this instant on

ASSUME FaresAssumption ==
  /\ Day \in Nat \ {0}
  /\ IsFiniteSet(Schedules)
  /\ Windows \subseteq (0..Day-1) \X (0..Day-1)
  /\ IsFiniteSet(Zones) /\ NoZone \notin Zones
  /\ Rates \subseteq [base: Nat, perKm: Nat, perMinute: Nat]
  /\ SeedRate \in Rates /\ MaxRules \in Nat
  /\ LastInstant \in Nat /\ ChangesUntil \in Nat

VARIABLES
  now,       \* minutes since the first midnight
  schedules, \* table fare_schedules
  rules,     \* table fare_rules, the PUBLISHED rows
  quotes     \* per request: its quote in the making, then the row of its trip

tariffs == <<schedules, rules>>
-----------------------------------------------------------------------------
(* The night. *)

Override == {None, "FORCE_ON", "FORCE_OFF"}

Schedule == [start: 0..Day-1, end: 0..Day-1, override: Override, active: BOOLEAN]

\* Mutant of Within: a window that ends tomorrow is taken for an empty one.
WithinDay(s, minute) == minute >= s.start /\ minute < s.end

\* Minute lies in the window of schedule s, which may cross midnight.
Within(s, minute) ==
  IF s.start > s.end THEN minute >= s.start \/ minute < s.end
                     ELSE minute >= s.start /\ minute < s.end

\* The loop over the schedules: the first row that is forced, or whose window
\* holds, decides.
Nocturno(rows, minute) ==
  \E i \in DOMAIN rows :
    /\ rows[i].override # "FORCE_OFF"
    /\ rows[i].override = "FORCE_ON" \/ Within(rows[i], minute)
    /\ \A j \in 1..(i-1) : rows[j].override = None /\ ~Within(rows[j], minute)

\* The active schedules, in whatever order the query returns them.
ActiveRows ==
  LET active == {k \in Schedules : schedules[k].active} IN
  {[i \in DOMAIN order |-> schedules[order[i]]] :
     order \in Bijection(1..Cardinality(active), active)}
-----------------------------------------------------------------------------
(* The tariffs. *)

Open == -1   \* valid_to IS NULL

Rule == [category: {"NORMAL", "NOCTURNO"}, zone: Zones \cup {NoZone}, rate: Rates,
         from: Nat, to: Nat \cup {Open}]

\* Mutant of InForce: the rule published this very minute does not count yet.
InForceLater(r) == r.from < now /\ (r.to = Open \/ r.to > now)

InForce(r) == r.from <= now /\ (r.to = Open \/ r.to > now)

\* The rules the query selects for a category and a zone.
Candidates(category, zone) ==
  {i \in DOMAIN rules : /\ rules[i].category = category
                        /\ InForce(rules[i])
                        /\ rules[i].zone \in {zone, NoZone}}

\* Mutant of FirstRows: NULLS FIRST.
DefaultFirst(rows) ==
  {i \in rows : rules[i].zone = NoZone \/ \A j \in rows : rules[j].zone # NoZone}

\* Any of the rows ORDER BY zone_id NULLS LAST may put first.
FirstRows(rows) ==
  {i \in rows : rules[i].zone # NoZone \/ \A j \in rows : rules[j].zone = NoZone}

\* The monitoring centre forces a schedule, or lets it go again.
SetOverride(k) ==
  /\ now < ChangesUntil
  /\ \E override \in Override : schedules' = [schedules EXCEPT ![k].override = override]
  /\ UNCHANGED <<now, rules, quotes>>

\* A published rule is never updated: a new version is inserted and the old
\* one closed, in one transaction.
Republish(i) ==
  /\ now < ChangesUntil
  /\ rules[i].to = Open /\ Len(rules) < MaxRules
  /\ \E rate \in Rates \ {rules[i].rate} :
       rules' = Append([rules EXCEPT ![i].to = now],
                       [rules[i] EXCEPT !.from = now, !.rate = rate])
  /\ UNCHANGED <<now, schedules, quotes>>
-----------------------------------------------------------------------------
(* A quote. *)

\* "new": not asked for; "located", "categorized", "priced": the queries made;
\* "saved": the row of the trip exists; "refused": no rule was found.
Phase == {"new", "located", "categorized", "priced", "saved", "refused"}

Quote == [phase: Phase, zone: Zones \cup {NoZone}, category: ServiceCategory,
          rule: Nat, requestedAt: Nat]

NoQuote == [phase |-> "new", zone |-> NoZone, category |-> "NORMAL", rule |-> 0,
            requestedAt |-> 0]

\* The zone of the origin, one of them if zones overlap; outside of all the
\* trip is FORANEO and has no rule and no price.
Locate(t) ==
  /\ quotes[t].phase = "new"
  /\ \/ quotes' = [quotes EXCEPT ![t] = [NoQuote EXCEPT !.phase = "priced",
                                                        !.category = "FORANEO"]]
     \/ \E z \in Zones :
          quotes' = [quotes EXCEPT ![t] = [NoQuote EXCEPT !.phase = "located", !.zone = z]]
  /\ UNCHANGED <<now, tariffs>>

\* The schedules are read and the clock looked at.
Categorize(t) ==
  /\ quotes[t].phase = "located"
  /\ \E rows \in ActiveRows :
       quotes' = [quotes EXCEPT ![t].phase = "categorized",
                                ![t].category = IF Nocturno(rows, now % Day)
                                                THEN "NOCTURNO" ELSE "NORMAL"]
  /\ UNCHANGED <<now, tariffs>>

\* The rule is looked for; without one the request is refused.
FindRule(t) ==
  LET rows == Candidates(quotes[t].category, quotes[t].zone) IN
  /\ quotes[t].phase = "categorized"
  /\ \/ /\ rows = {}
        /\ quotes' = [quotes EXCEPT ![t].phase = "refused"]
     \/ \E i \in FirstRows(rows) :
          quotes' = [quotes EXCEPT ![t].phase = "priced", ![t].rule = i]
  /\ UNCHANGED <<now, tariffs>>

\* The trip is inserted.
SaveTrip(t) ==
  /\ quotes[t].phase = "priced"
  /\ quotes' = [quotes EXCEPT ![t].phase = "saved", ![t].requestedAt = now]
  /\ UNCHANGED <<now, tariffs>>
-----------------------------------------------------------------------------
\* The tariffs the seed leaves, a default rule per category, and any rules of
\* single zones besides.
FaresInit ==
  /\ now = 0
  /\ schedules \in [Schedules -> {[start |-> w[1], end |-> w[2], override |-> None,
                                   active |-> TRUE] : w \in Windows}]
  /\ \E special \in SUBSET ({"NORMAL", "NOCTURNO"} \X Zones) :
       LET tariff == special \cup ({"NORMAL", "NOCTURNO"} \X {NoZone})
           row == CHOOSE f \in Bijection(1..Cardinality(tariff), tariff) : TRUE
       IN  rules = [i \in DOMAIN row |-> [category |-> row[i][1], zone |-> row[i][2],
                                          rate |-> SeedRate, from |-> 0, to |-> Open]]
  /\ quotes = [t \in Requests |-> NoQuote]

FaresNext ==
  \/ \E t \in Requests : Locate(t) \/ Categorize(t) \/ FindRule(t) \/ SaveTrip(t)
  \/ \E k \in Schedules : SetOverride(k)
  \/ \E i \in DOMAIN rules : Republish(i)

Tick ==
  /\ now < LastInstant
  /\ now' = now + 1
  /\ UNCHANGED <<tariffs, quotes>>
-----------------------------------------------------------------------------
\* Going forward from the start of its window, minute by minute and around
\* midnight, one meets the given minute before the end.
OnTheWay(s, minute) ==
  \E k \in 0..(Day-1) :
    /\ minute \in {s.start + k, s.start + k - Day}
    /\ k < (IF s.end < s.start THEN s.end - s.start + Day ELSE s.end - s.start)

\* A trip is quoted the night tariff exactly when the monitoring centre forces
\* it, or does not and some window is open around the clock; a schedule forced
\* off next to others that are not leaves it to the order of the rows.
\* (determineServiceCategory, evaluateNocturnoSchedules)
NightAsScheduled ==
  [][LET active == {schedules[k] : k \in {j \in Schedules : schedules[j].active}}
         forced == {s.override : s \in active}
     IN \A t \in Requests : quotes[t].phase = "located" /\ quotes'[t].phase = "categorized" =>
          /\ forced \subseteq {None, "FORCE_ON"} =>
               (quotes'[t].category = "NOCTURNO" <=>
                  \/ "FORCE_ON" \in forced
                  \/ \E s \in active : OnTheWay(s, now % Day))
          /\ forced = {"FORCE_OFF"} => quotes'[t].category = "NORMAL"]_quotes

\* While rules are republished, every instant has a rule in force: no request
\* is refused for want of one.  (quote; fare_rules in db/schema.sql)
NeverRefused == \A t \in Requests : quotes[t].phase # "refused"

\* A zone with a tariff of its own is never quoted the default one.  (quote)
ZoneTariffWins ==
  \A t \in Requests : quotes[t].phase \in {"priced", "saved"} =>
    \A i \in DOMAIN rules :
      rules[i].category = quotes[t].category /\ rules[i].zone = quotes[t].zone
        => rules[quotes[t].rule].zone = quotes[t].zone
=============================================================================
