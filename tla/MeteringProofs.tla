--------------------------- MODULE MeteringProofs ---------------------------
(***************************************************************************)
(* Proofs about Fares and Metering, for a day of any length and any number *)
(* of schedules, zones, rules, requests and positions: which tariff a quote *)
(* finds, when it is night, and what a ride is charged for.                *)
(***************************************************************************)
EXTENDS Metering, SumLemmas

USE FaresAssumption, MeteringAssumption DEF None
-----------------------------------------------------------------------------
(* The night. *)

\* The comparison the code makes is membership in the window walked minute by
\* minute around midnight.
LEMMA NightWindow ==
  ASSUME NEW s \in Schedule, NEW minute \in 0..(Day-1)
  PROVE  Within(s, minute) <=> OnTheWay(s, minute)
  <1> DEFINE span == IF s.end < s.start THEN s.end - s.start + Day ELSE s.end - s.start
             k == IF minute < s.start THEN minute - s.start + Day ELSE minute - s.start
  <1>1. /\ s.start \in 0..(Day-1) /\ s.end \in 0..(Day-1)
        /\ minute \in Int /\ Day \in Int
    BY DEF Schedule
  <1>2. k \in 0..(Day-1) /\ minute \in {s.start + k, s.start + k - Day}
    BY <1>1
  <1>3. \A j \in 0..(Day-1) : minute \in {s.start + j, s.start + j - Day} => j = k
    BY <1>1
  <1>4. OnTheWay(s, minute) <=> k < span
    <2> HIDE DEF k
    <2> QED BY <1>2, <1>3 DEF OnTheWay
  <1>5. Within(s, minute) <=> k < span
    BY <1>1 DEF Within
  <1> QED BY <1>4, <1>5
-----------------------------------------------------------------------------
(* The tariffs.                                                            *)

\* What the steps need to know of the kinds of values: MeteringTypeOK but for
\* the positions, and with the distance of a ride left open.
Shape ==
  /\ now \in Nat
  /\ schedules \in [Schedules -> Schedule]
  /\ rules \in Seq(Rule)
  /\ quotes \in [Requests -> Quote]
  /\ DOMAIN rides = Requests
  /\ \A t \in Requests : DOMAIN rides[t] = DOMAIN NoRide

\* Rules numbered by a bijection, as the seed leaves them.
LEMMA SeedRules ==
  ASSUME NEW special \in SUBSET ({"NORMAL", "NOCTURNO"} \X Zones)
  PROVE  LET tariff == special \cup ({"NORMAL", "NOCTURNO"} \X {NoZone})
             row == CHOOSE f \in Bijection(1..Cardinality(tariff), tariff) : TRUE
         IN  /\ Cardinality(tariff) \in Nat
             /\ row \in [1..Cardinality(tariff) -> tariff]
             /\ \A x \in tariff : \E i \in 1..Cardinality(tariff) : row[i] = x
  <1> DEFINE tariff == special \cup ({"NORMAL", "NOCTURNO"} \X {NoZone})
             row == CHOOSE f \in Bijection(1..Cardinality(tariff), tariff) : TRUE
  <1>1. IsFiniteSet({"NORMAL", "NOCTURNO"}) /\ IsFiniteSet({NoZone})
    <2>1. IsFiniteSet({"NORMAL"}) /\ IsFiniteSet({"NOCTURNO"}) /\ IsFiniteSet({NoZone})
      BY FS_Singleton
    <2>2. IsFiniteSet({"NORMAL"} \cup {"NOCTURNO"})
      BY <2>1, FS_Union
    <2>3. {"NORMAL", "NOCTURNO"} = {"NORMAL"} \cup {"NOCTURNO"}
      OBVIOUS
    <2> QED BY ONLY <2>1, <2>2, <2>3
  <1>2. IsFiniteSet({"NORMAL", "NOCTURNO"} \X Zones)
    BY <1>1, FS_Product
  <1>3. IsFiniteSet({"NORMAL", "NOCTURNO"} \X {NoZone})
    BY <1>1, FS_Product
  <1>4. IsFiniteSet(tariff)
    BY <1>2, <1>3, FS_Subset, FS_Union
  <1> HIDE DEF tariff
  <1>5. Cardinality(tariff) \in Nat /\ ExistsBijection(1..Cardinality(tariff), tariff)
    BY <1>4, FS_CardinalityType
  <1>6. row \in Bijection(1..Cardinality(tariff), tariff)
    BY <1>5 DEF ExistsBijection
  <1> QED BY <1>5, <1>6 DEF Bijection, Injection, Surjection, tariff

LEMMA TariffInit == MeteringInit => Shape /\ TariffInv
  <1> SUFFICES ASSUME MeteringInit PROVE Shape /\ TariffInv
    OBVIOUS
  <1>0. FaresInit /\ rides = [t \in Requests |-> NoRide]
    BY DEF MeteringInit
  <1>1. PICK special \in SUBSET ({"NORMAL", "NOCTURNO"} \X Zones) :
          LET tariff == special \cup ({"NORMAL", "NOCTURNO"} \X {NoZone})
              row == CHOOSE f \in Bijection(1..Cardinality(tariff), tariff) : TRUE
          IN  rules = [i \in DOMAIN row |-> [category |-> row[i][1], zone |-> row[i][2],
                                             rate |-> SeedRate, from |-> 0, to |-> Open]]
    BY <1>0 DEF FaresInit
  <1> DEFINE tariff == special \cup ({"NORMAL", "NOCTURNO"} \X {NoZone})
             row == CHOOSE f \in Bijection(1..Cardinality(tariff), tariff) : TRUE
             n == Cardinality(tariff)
  <1>2. /\ n \in Nat /\ row \in [1..n -> tariff]
        /\ \A x \in tariff : \E i \in 1..n : row[i] = x
    BY SeedRules
  <1>3. rules = [i \in 1..n |-> [category |-> row[i][1], zone |-> row[i][2],
                                 rate |-> SeedRate, from |-> 0, to |-> Open]]
    BY <1>1, <1>2
  <1>4. tariff \subseteq {"NORMAL", "NOCTURNO"} \X (Zones \cup {NoZone})
    OBVIOUS
  <1>4a. \A c \in {"NORMAL", "NOCTURNO"} : <<c, NoZone>> \in tariff
    OBVIOUS
  <1> HIDE DEF tariff, row, n
  <1>5. DOMAIN rules = 1..n /\ rules \in Seq(Rule)
    <2>1. \A i \in 1..n : rules[i] \in Rule
      BY <1>2, <1>3, <1>4 DEF Rule, Open
    <2> QED BY <2>1, <1>2, <1>3
  <1>6. now = 0 /\ quotes = [t \in Requests |-> NoQuote]
    BY <1>0 DEF FaresInit
  <1>7. schedules \in [Schedules -> Schedule]
    <2>1. \A w \in Windows : [start |-> w[1], end |-> w[2], override |-> None,
                             active |-> TRUE] \in Schedule
      BY DEF Schedule, Override
    <2>2. schedules \in [Schedules -> {[start |-> w[1], end |-> w[2], override |-> None,
                                       active |-> TRUE] : w \in Windows}]
      BY <1>0 DEF FaresInit
    <2> QED BY <2>1, <2>2
  <1>8. OpenVersions
    <2>1. \A i \in DOMAIN rules : rules[i].from <= now /\ rules[i].to = Open
      BY <1>3, <1>5, <1>6
    <2>2. ASSUME NEW category \in {"NORMAL", "NOCTURNO"}
          PROVE  \E j \in DOMAIN rules : rules[j].category = category /\ rules[j].zone = NoZone
      <3>1. PICK j \in 1..n : row[j] = <<category, NoZone>>
        BY <1>2, <1>4a
      <3>2. rules[j].category = row[j][1] /\ rules[j].zone = row[j][2]
        BY <1>3
      <3>3. row[j][1] = category /\ row[j][2] = NoZone
        BY <3>1
      <3>4. j \in DOMAIN rules
        BY <1>5
      <3> QED BY ONLY <3>2, <3>3, <3>4
    <2> QED BY <2>1, <2>2 DEF OpenVersions
  <1>9. Shape
    BY <1>0, <1>5, <1>6, <1>7 DEF Shape, Quote, NoQuote, Phase, ServiceCategory
  <1>10. NeverRefused /\ ZoneTariffWins /\ \A t \in Requests : QuoteOK(quotes[t]) /\ RideOK(t)
    BY <1>0, <1>6 DEF NeverRefused, ZoneTariffWins, QuoteOK, RideOK, NoQuote, NoRide
  <1> QED BY <1>8, <1>9, <1>10 DEF TariffInv

\* A step that leaves tariffs and rides alone and moves one quote along.
LEMMA QuoteStep ==
  ASSUME Shape, TariffInv, NEW t \in Requests, NEW q \in Quote,
         quotes[t].phase # "saved", QuoteOK(q), q.phase # "refused",
         q.phase \in {"priced", "saved"} =>
           \A i \in DOMAIN rules :
             rules[i].category = q.category /\ rules[i].zone = q.zone
               => rules[q.rule].zone = q.zone,
         quotes' = [quotes EXCEPT ![t] = q],
         UNCHANGED <<now, tariffs, rides>>
  PROVE  Shape' /\ TariffInv'
  <1>1. quotes'[t] = q /\ \A u \in Requests \ {t} : quotes'[u] = quotes[u]
    BY DEF Shape
  <1>2. now' = now /\ schedules' = schedules /\ rules' = rules /\ rides' = rides
    BY DEF tariffs
  <1>3. Shape'
    BY <1>2 DEF Shape
  <1>4. OpenVersions'
    BY <1>2 DEF TariffInv, OpenVersions
  <1>5. NeverRefused'
    BY <1>1 DEF TariffInv, NeverRefused
  <1>6. ZoneTariffWins'
    BY <1>1, <1>2 DEF TariffInv, ZoneTariffWins
  <1>7. ASSUME NEW u \in Requests
        PROVE  QuoteOK(quotes[u])'
    BY <1>1, <1>2 DEF TariffInv, QuoteOK
  <1>8. ASSUME NEW u \in Requests
        PROVE  RideOK(u)'
    <2>1. CASE u = t
      <3>1. rides'[u].phase = "waiting"
        BY <2>1, <1>2 DEF TariffInv, RideOK
      <3> QED BY <3>1 DEF RideOK
    <2>2. CASE u # t
      BY <2>2, <1>1, <1>2 DEF TariffInv, RideOK, RateOf
    <2> QED BY <2>1, <2>2
  <1> QED BY <1>3, <1>4, <1>5, <1>6, <1>7, <1>8 DEF TariffInv

LEMMA LocateStep ==
  ASSUME Shape, TariffInv, NEW t \in Requests, Locate(t), UNCHANGED rides
  PROVE  Shape' /\ TariffInv'
  <1> DEFINE outside == [NoQuote EXCEPT !.phase = "priced", !.category = "FORANEO"]
             inside(z) == [NoQuote EXCEPT !.phase = "located", !.zone = z]
  <1>1. quotes[t].phase = "new" /\ UNCHANGED <<now, tariffs>>
    BY DEF Locate
  <1>2. \/ quotes' = [quotes EXCEPT ![t] = outside]
        \/ \E z \in Zones : quotes' = [quotes EXCEPT ![t] = inside(z)]
    BY DEF Locate
  <1>3. CASE quotes' = [quotes EXCEPT ![t] = outside]
    <2>1. outside \in Quote /\ QuoteOK(outside)
      BY DEF Quote, NoQuote, Phase, ServiceCategory, QuoteOK
    <2>2. \A i \in DOMAIN rules : rules[i].category # outside.category
      <3>1. outside.category = "FORANEO"
        BY DEF NoQuote
      <3>2. \A i \in DOMAIN rules : rules[i] \in Rule
        BY DEF Shape
      <3>3. \A r \in Rule : r.category # "FORANEO"
        BY DEF Rule
      <3> QED BY <3>1, <3>2, <3>3
    <2>3. outside.phase # "refused"
      BY DEF NoQuote
    <2> HIDE DEF outside
    <2> QED BY <1>1, <1>3, <2>1, <2>2, <2>3, QuoteStep
  <1>4. ASSUME NEW z \in Zones, quotes' = [quotes EXCEPT ![t] = inside(z)]
        PROVE  Shape' /\ TariffInv'
    <2>1. inside(z) \in Quote /\ QuoteOK(inside(z)) /\ inside(z).phase = "located"
      BY DEF Quote, NoQuote, Phase, ServiceCategory, QuoteOK
    <2> HIDE DEF inside
    <2> QED BY <1>1, <1>4, <2>1, QuoteStep
  <1> QED BY <1>2, <1>3, <1>4

LEMMA CategorizeStep ==
  ASSUME Shape, TariffInv, NEW t \in Requests, Categorize(t), UNCHANGED rides
  PROVE  Shape' /\ TariffInv'
  <1> DEFINE q(c) == [quotes[t] EXCEPT !.phase = "categorized", !.category = c]
  <1>1. quotes[t].phase = "located" /\ UNCHANGED <<now, tariffs>>
    BY DEF Categorize
  <1>2. PICK c \in {"NORMAL", "NOCTURNO"} : quotes' = [quotes EXCEPT ![t] = q(c)]
    BY DEF Categorize, Shape
  <1>3. quotes[t].zone \in Zones
    BY <1>1 DEF TariffInv, QuoteOK
  <1>4. q(c) \in Quote /\ q(c).phase = "categorized" /\ QuoteOK(q(c))
    <2>1. quotes[t] \in Quote
      BY DEF Shape
    <2>2. q(c) \in Quote
      BY <2>1 DEF Quote, Phase, ServiceCategory
    <2>3. q(c).phase = "categorized" /\ q(c).category = c /\ q(c).zone = quotes[t].zone
      BY <2>1 DEF Quote
    <2> HIDE DEF q
    <2> QED BY <1>3, <2>2, <2>3 DEF QuoteOK
  <1> HIDE DEF q
  <1> QED BY <1>1, <1>2, <1>4, QuoteStep

LEMMA FindRuleStep ==
  ASSUME Shape, TariffInv, NEW t \in Requests, FindRule(t), UNCHANGED rides
  PROVE  Shape' /\ TariffInv'
  <1> DEFINE c == quotes[t].category
             z == quotes[t].zone
             rows == Candidates(c, z)
             q(i) == [quotes[t] EXCEPT !.phase = "priced", !.rule = i]
  <1>1. quotes[t].phase = "categorized" /\ UNCHANGED <<now, tariffs>>
    BY DEF FindRule
  <1>2. quotes[t] \in Quote /\ z \in Zones /\ c \in {"NORMAL", "NOCTURNO"}
    BY <1>1 DEF Shape, Quote, ServiceCategory, TariffInv, QuoteOK
  <1>3. \A i \in DOMAIN rules : rules[i] \in Rule /\ i \in Nat
    BY DEF Shape
  \* The open version of a tariff is one of the candidates.
  <1>4. ASSUME NEW i \in DOMAIN rules, rules[i].category = c, rules[i].zone \in {z, NoZone}
        PROVE  \E j \in rows : rules[j].zone = rules[i].zone
    <2>1. PICK j \in DOMAIN rules : /\ rules[j].category = rules[i].category
                                    /\ rules[j].zone = rules[i].zone
                                    /\ rules[j].to = Open
      BY DEF TariffInv, OpenVersions
    <2>2. rules[j].from <= now
      BY DEF TariffInv, OpenVersions
    <2> QED BY <2>1, <2>2, <1>4 DEF Candidates, InForce
  <1>5. rows # {}
    <2>1. PICK i \in DOMAIN rules : rules[i].category = c /\ rules[i].zone = NoZone
      BY <1>2 DEF TariffInv, OpenVersions
    <2> QED BY <2>1, <1>4
  <1>6. PICK i \in FirstRows(rows) : quotes' = [quotes EXCEPT ![t] = q(i)]
    BY <1>5 DEF FindRule
  <1>7. i \in DOMAIN rules /\ rules[i].category = c
    BY <1>6 DEF FirstRows, Candidates
  <1>8. q(i) \in Quote /\ q(i).phase = "priced" /\ q(i).category = c /\ q(i).zone = z
        /\ q(i).rule = i
    BY <1>2, <1>3, <1>7 DEF Quote, Phase
  <1>9. ASSUME NEW k \in DOMAIN rules, rules[k].category = c, rules[k].zone = z
        PROVE  rules[i].zone = z
    <2>1. PICK j \in rows : rules[j].zone = z
      BY <1>4, <1>9
    <2>2. rules[j].zone # NoZone
      BY <2>1, <1>2
    <2>3. rules[i].zone # NoZone
      BY <2>1, <2>2, <1>6 DEF FirstRows
    <2>4. rules[i].zone \in {z, NoZone}
      BY <1>6 DEF FirstRows, Candidates
    <2> QED BY <2>3, <2>4
  <1>10. QuoteOK(q(i))
    BY <1>7, <1>8 DEF QuoteOK
  <1> HIDE DEF q, c, z, rows
  <1> QED BY <1>1, <1>6, <1>8, <1>9, <1>10, QuoteStep

LEMMA SaveTripStep ==
  ASSUME Shape, TariffInv, NEW t \in Requests, SaveTrip(t), UNCHANGED rides
  PROVE  Shape' /\ TariffInv'
  <1> DEFINE q == [quotes[t] EXCEPT !.phase = "saved", !.requestedAt = now]
  <1>1. /\ quotes[t].phase = "priced" /\ UNCHANGED <<now, tariffs>>
        /\ quotes' = [quotes EXCEPT ![t] = q]
    BY DEF SaveTrip
  <1>2. quotes[t] \in Quote /\ now \in Nat
    BY DEF Shape
  <1>3. /\ q \in Quote /\ q.phase = "saved" /\ q.category = quotes[t].category
        /\ q.zone = quotes[t].zone /\ q.rule = quotes[t].rule /\ q.requestedAt = now
    BY <1>2 DEF Quote, Phase
  <1>4. \A i \in DOMAIN rules : rules[i].from <= now
    BY DEF TariffInv, OpenVersions
  <1>5. QuoteOK(q)
    BY <1>1, <1>3, <1>4 DEF TariffInv, QuoteOK
  <1>6. \A i \in DOMAIN rules :
          rules[i].category = q.category /\ rules[i].zone = q.zone
            => rules[q.rule].zone = q.zone
    BY <1>1, <1>3 DEF TariffInv, ZoneTariffWins
  <1> HIDE DEF q
  <1> QED BY <1>1, <1>3, <1>5, <1>6, QuoteStep

\* Appending the new version of a tariff and closing the old one.
LEMMA RepublishStep ==
  ASSUME Shape, TariffInv, NEW k \in DOMAIN rules, Republish(k), UNCHANGED rides
  PROVE  Shape' /\ TariffInv'
  <1> DEFINE n == Len(rules)
  <1>1. now' = now /\ schedules' = schedules /\ quotes' = quotes /\ rides' = rides
    BY DEF Republish
  <1>2. PICK rate \in Rates :
          rules' = Append([rules EXCEPT ![k].to = now],
                          [rules[k] EXCEPT !.from = now, !.rate = rate])
    BY DEF Republish
  <1>3. n \in Nat /\ DOMAIN rules = 1..n /\ now \in Nat /\ rules[k].to = Open
        /\ \A i \in 1..n : rules[i] \in Rule
    BY DEF Shape, Republish
  <1> DEFINE closed == [rules[k] EXCEPT !.to = now]
             opened == [rules[k] EXCEPT !.from = now, !.rate = rate]
             old == [rules EXCEPT ![k].to = now]
  <1>4. /\ closed \in Rule /\ closed.category = rules[k].category
        /\ closed.zone = rules[k].zone /\ closed.rate = rules[k].rate
        /\ closed.from = rules[k].from
    BY <1>3 DEF Rule
  <1>5. /\ opened \in Rule /\ opened.category = rules[k].category
        /\ opened.zone = rules[k].zone /\ opened.from = now /\ opened.to = Open
    BY <1>3 DEF Rule
  <1>6. old \in Seq(Rule) /\ Len(old) = n /\ \A i \in 1..n : old[i] = IF i = k THEN closed ELSE rules[i]
    <2>1. old = [i \in 1..n |-> IF i = k THEN closed ELSE rules[i]]
      BY <1>3
    <2> HIDE DEF closed, old
    <2>2. \A i \in 1..n : old[i] \in Rule
      BY <2>1, <1>3, <1>4
    <2> QED BY <2>1, <2>2, <1>3
  <1>7. /\ rules' \in Seq(Rule) /\ DOMAIN rules' = 1..(n+1)
        /\ \A i \in 1..n : rules'[i] = IF i = k THEN closed ELSE rules[i]
        /\ rules'[n+1] = opened
    <2>1. rules' = Append(old, opened)
      BY <1>2
    <2> HIDE DEF old, opened, closed, n
    <2>2. rules' \in Seq(Rule) /\ Len(rules') = n + 1
      <3>1. old \in Seq(Rule) /\ opened \in Rule /\ Len(old) = n
        BY <1>5, <1>6
      <3> QED BY ONLY <2>1, <3>1
    <2>3. \A i \in 1..n : rules'[i] = old[i]
      BY <2>1, <1>3, <1>5, <1>6
    <2>4. rules'[n+1] = opened
      BY <2>1, <1>3, <1>5, <1>6
    <2>5. DOMAIN rules' = 1..(n+1)
      BY <2>2
    <2> QED BY <2>2, <2>3, <2>4, <2>5, <1>6, Zenon
  <1> HIDE DEF closed, opened, old
  \* What the rows there were keep.
  <1>8. \A i \in 1..n : /\ rules'[i].category = rules[i].category
                        /\ rules'[i].zone = rules[i].zone
                        /\ rules'[i].rate = rules[i].rate
                        /\ rules'[i].from = rules[i].from
                        /\ i # k => rules'[i].to = rules[i].to
    BY <1>4, <1>7
  <1>9. Shape'
    BY <1>1, <1>7 DEF Shape
  <1>10. OpenVersions'
    <2>1. ASSUME NEW i \in 1..n
          PROVE  /\ rules'[i].from <= now
                 /\ \E j \in 1..(n+1) : /\ rules'[j].category = rules'[i].category
                                        /\ rules'[j].zone = rules'[i].zone
                                        /\ rules'[j].to = Open
      <3>1. PICK j \in 1..n : /\ rules[j].category = rules[i].category
                              /\ rules[j].zone = rules[i].zone
                              /\ rules[j].to = Open
        BY <1>3 DEF TariffInv, OpenVersions
      <3>2. rules[i].from <= now
        BY <1>3 DEF TariffInv, OpenVersions
      <3>3. CASE j = k
        <4>1. n + 1 \in 1..(n+1)
          BY <1>3
        <4> QED BY <4>1, <3>1, <3>2, <3>3, <1>5, <1>7, <1>8
      <3>4. CASE j # k
        <4>1. j \in 1..(n+1)
          BY <1>3
        <4> QED BY <4>1, <3>1, <3>2, <3>4, <1>8
      <3> QED BY <3>3, <3>4
    <2>2. \A i \in 1..(n+1) : i \in 1..n \/ i = n + 1
      BY <1>3
    <2>3. \A i \in 1..(n+1) :
            /\ rules'[i].from <= now
            /\ \E j \in 1..(n+1) : /\ rules'[j].category = rules'[i].category
                                   /\ rules'[j].zone = rules'[i].zone
                                   /\ rules'[j].to = Open
      <3>1. n + 1 \in 1..(n+1) /\ \A j \in 1..n : j \in 1..(n+1)
        BY <1>3
      <3>2. rules'[n+1].from <= now
        BY <1>3, <1>5, <1>7
      <3>3. rules'[n+1].to = Open
        BY <1>5, <1>7
      <3> QED BY ONLY <2>1, <2>2, <3>1, <3>2, <3>3, Zenon
    <2>4. \A category \in {"NORMAL", "NOCTURNO"} :
            \E j \in 1..(n+1) : rules'[j].category = category /\ rules'[j].zone = NoZone
      <3>1. \A category \in {"NORMAL", "NOCTURNO"} :
              \E j \in 1..n : rules[j].category = category /\ rules[j].zone = NoZone
        BY <1>3 DEF TariffInv, OpenVersions
      <3>2. \A j \in 1..n : j \in 1..(n+1)
        BY <1>3
      <3> QED BY ONLY <3>1, <3>2, <1>8, Zenon
    <2>5. now' = now /\ DOMAIN rules' = 1..(n+1)
      BY <1>1, <1>7
    <2> QED BY <2>3, <2>4, <2>5, Zenon DEF OpenVersions
  <1>11. NeverRefused'
    BY <1>1 DEF TariffInv, NeverRefused
  <1>12. ASSUME NEW t \in Requests
         PROVE  QuoteOK(quotes[t])'
    <2>1. QuoteOK(quotes[t])
      BY DEF TariffInv
    <2>2. \A i \in 1..n : i \in DOMAIN rules' /\ i \in DOMAIN rules
      BY <1>3, <1>7
    <2>3. DOMAIN rules = 1..n
      BY <1>3
    <2> QED BY ONLY <2>1, <2>2, <2>3, <1>1, <1>8 DEF QuoteOK
  <1>13. ZoneTariffWins'
    <2> SUFFICES ASSUME NEW t \in Requests, quotes[t].phase \in {"priced", "saved"},
                        NEW i \in 1..(n+1),
                        rules'[i].category = quotes[t].category,
                        rules'[i].zone = quotes[t].zone
                 PROVE  rules'[quotes[t].rule].zone = quotes[t].zone
      BY <1>1, <1>7 DEF ZoneTariffWins
    <2>1. PICK j \in 1..n : rules'[i].category = rules[j].category /\ rules'[i].zone = rules[j].zone
      BY <1>3, <1>5, <1>7, <1>8
    <2>2. rules[quotes[t].rule].zone = quotes[t].zone
      BY <2>1, <1>3 DEF TariffInv, ZoneTariffWins
    <2>3. quotes[t].category # "FORANEO"
      BY <2>1, <1>3 DEF Rule
    <2>4. quotes[t].rule \in 1..n
      BY <2>3, <1>3 DEF TariffInv, QuoteOK
    <2> QED BY <2>2, <2>4, <1>8
  <1>14. ASSUME NEW t \in Requests
         PROVE  RideOK(t)'
    <2>1. RideOK(t) /\ QuoteOK(quotes[t])
      BY DEF TariffInv
    <2>2. CASE rides[t].phase = "waiting"
      BY <2>2, <1>1 DEF RideOK
    <2>3. CASE rides[t].phase # "waiting"
      <3>1. quotes[t].phase = "saved" /\ quotes[t].rule \in 1..n
        BY <2>1, <2>3, <1>3 DEF RideOK, QuoteOK
      <3>2. RateOf(t)' = RateOf(t)
        BY <3>1, <1>1, <1>8 DEF RateOf
      <3> QED BY <2>1, <3>2, <1>1 DEF RideOK, FareFor
    <2> QED BY <2>2, <2>3
  <1> QED BY <1>9, <1>10, <1>11, <1>12, <1>13, <1>14 DEF TariffInv

LEMMA SetOverrideStep ==
  ASSUME Shape, TariffInv, NEW k \in Schedules, SetOverride(k), UNCHANGED rides
  PROVE  Shape' /\ TariffInv'
  <1>1. now' = now /\ rules' = rules /\ quotes' = quotes /\ rides' = rides
    BY DEF SetOverride
  <1>2. schedules' \in [Schedules -> Schedule]
    <2>1. PICK override \in Override :
            schedules' = [schedules EXCEPT ![k].override = override]
      BY DEF SetOverride
    <2>2. [schedules[k] EXCEPT !.override = override] \in Schedule
      BY DEF Shape, Schedule
    <2> QED BY <2>1, <2>2 DEF Shape
  <1>3. Shape'
    BY <1>1, <1>2 DEF Shape
  <1>4. OpenVersions' /\ NeverRefused' /\ ZoneTariffWins'
    BY <1>1 DEF TariffInv, OpenVersions, NeverRefused, ZoneTariffWins
  <1>5. ASSUME NEW t \in Requests
        PROVE  QuoteOK(quotes[t])' /\ RideOK(t)'
    <2>1. QuoteOK(quotes[t])'
      BY <1>1 DEF TariffInv, QuoteOK
    <2>2. RateOf(t)' = RateOf(t)
      BY <1>1 DEF RateOf
    <2> QED BY <2>1, <2>2, <1>1 DEF TariffInv, RideOK, FareFor
  <1> QED BY <1>3, <1>4, <1>5 DEF TariffInv

\* A step that leaves the tariffs and quotes alone and moves one ride along.
LEMMA RideStep ==
  ASSUME Shape, TariffInv, NEW t \in Requests, NEW r, DOMAIN r = DOMAIN NoRide,
         r.phase # "waiting" =>
           quotes[t].phase = "saved" /\ quotes[t].category # "FORANEO",
         r.phase = "completed" => r.finalFare = FareFor(RateOf(t), r.distance, r.minutes),
         rides' = [rides EXCEPT ![t] = r],
         UNCHANGED <<now, tariffs, quotes>>
  PROVE  Shape' /\ TariffInv'
  <1>1. now' = now /\ schedules' = schedules /\ rules' = rules /\ quotes' = quotes
    BY DEF tariffs
  <1>2. rides'[t] = r /\ \A u \in Requests \ {t} : rides'[u] = rides[u]
    BY DEF Shape
  <1>3. Shape'
    BY <1>1, <1>2 DEF Shape
  <1>4. OpenVersions' /\ NeverRefused' /\ ZoneTariffWins'
    BY <1>1 DEF TariffInv, OpenVersions, NeverRefused, ZoneTariffWins
  <1>5. ASSUME NEW u \in Requests
        PROVE  QuoteOK(quotes[u])' /\ RideOK(u)'
    <2>1. QuoteOK(quotes[u])'
      BY <1>1 DEF TariffInv, QuoteOK
    <2>2. RateOf(u)' = RateOf(u)
      BY <1>1 DEF RateOf
    <2>3. RideOK(u)'
      BY <1>1, <1>2, <2>2 DEF TariffInv, RideOK, FareFor
    <2> QED BY <2>1, <2>3
  <1> QED BY <1>3, <1>4, <1>5 DEF TariffInv

LEMMA StartRideStep ==
  ASSUME Shape, TariffInv, NEW t \in Requests, StartRide(t)
  PROVE  Shape' /\ TariffInv'
  <1> DEFINE r == [rides[t] EXCEPT !.phase = "riding", !.startedAt = now]
  <1>1. DOMAIN r = DOMAIN NoRide
    BY DEF Shape
  <1>2. r.phase = "riding"
    BY DEF Shape, NoRide
  <1>3. /\ rides' = [rides EXCEPT ![t] = r] /\ UNCHANGED <<now, tariffs, quotes>>
        /\ quotes[t].phase = "saved" /\ quotes[t].category # "FORANEO"
    BY DEF StartRide
  <1> HIDE DEF r
  <1> QED BY <1>1, <1>2, <1>3, RideStep

LEMMA LoadRideStep ==
  ASSUME Shape, TariffInv, NEW t \in Requests, LoadRide(t)
  PROVE  Shape' /\ TariffInv'
  <1> DEFINE r == [rides[t] EXCEPT !.phase = "completing",
                                   !.minutes = Minutes(rides[t].startedAt)]
  <1>1. DOMAIN r = DOMAIN NoRide
    BY DEF Shape
  <1>2. r.phase = "completing"
    BY DEF Shape, NoRide
  <1>3. /\ rides' = [rides EXCEPT ![t] = r] /\ UNCHANGED <<now, tariffs, quotes>>
        /\ quotes[t].phase = "saved" /\ quotes[t].category # "FORANEO"
    BY DEF LoadRide, TariffInv, RideOK
  <1> HIDE DEF r
  <1> QED BY <1>1, <1>2, <1>3, RideStep

LEMMA MeterStep ==
  ASSUME Shape, TariffInv, NEW t \in Requests, Meter(t)
  PROVE  Shape' /\ TariffInv'
  <1> DEFINE fare(d) == FareFor(RateOf(t), d, rides[t].minutes)
             r(d) == [rides[t] EXCEPT !.phase = "completed", !.distance = d, !.finalFare = fare(d)]
  <1>1. PICK track \in Tracks(rides[t].startedAt) : rides' = [rides EXCEPT ![t] = r(DistanceKm(track))]
    BY DEF Meter
  <1> DEFINE d == DistanceKm(track)
  <1>2. /\ UNCHANGED <<now, tariffs, quotes>>
        /\ quotes[t].phase = "saved" /\ quotes[t].category # "FORANEO"
    BY DEF Meter, TariffInv, RideOK
  <1>3. DOMAIN r(d) = DOMAIN NoRide
    BY DEF Shape
  <1>4. r(d).distance = d /\ r(d).finalFare = fare(d) /\ r(d).minutes = rides[t].minutes
    BY DEF Shape, NoRide
  <1>5. r(d).finalFare = FareFor(RateOf(t), r(d).distance, r(d).minutes)
    BY <1>4
  <1>6. rides' = [rides EXCEPT ![t] = r(d)]
    BY <1>1
  <1> HIDE DEF r, d
  <1> QED BY <1>2, <1>3, <1>5, <1>6, RideStep

LEMMA DieStep ==
  ASSUME Shape, TariffInv, Die
  PROVE  Shape' /\ TariffInv'
  <1>1. now' = now /\ schedules' = schedules /\ rules' = rules
    BY DEF Die, tariffs
  <1>2. ASSUME NEW t \in Requests
        PROVE  /\ quotes'[t] = IF quotes[t].phase \in {"located", "categorized", "priced"}
                               THEN NoQuote ELSE quotes[t]
               /\ rides'[t] = IF rides[t].phase = "completing"
                              THEN [rides[t] EXCEPT !.phase = "riding", !.minutes = 0]
                              ELSE rides[t]
    BY DEF Die
  <1>3. ASSUME NEW t \in Requests
        PROVE  rides[t].phase # "waiting" => quotes'[t] = quotes[t]
    BY <1>2 DEF TariffInv, RideOK
  <1>4. Shape'
    <2>1. NoQuote \in Quote
      BY DEF NoQuote, Quote, Phase, ServiceCategory
    <2>2. quotes' \in [Requests -> Quote]
      BY <2>1 DEF Die, Shape
    <2>3. DOMAIN rides' = Requests
      BY DEF Die
    <2>4. \A t \in Requests : DOMAIN rides'[t] = DOMAIN NoRide
      BY <1>2 DEF Shape
    <2> QED BY <1>1, <2>2, <2>3, <2>4 DEF Shape
  <1>5. OpenVersions'
    BY <1>1 DEF TariffInv, OpenVersions
  <1>6. ASSUME NEW t \in Requests
        PROVE  quotes'[t] = quotes[t] \/ quotes'[t].phase = "new"
    <2>1. NoQuote.phase = "new"
      BY DEF NoQuote
    <2> QED BY <1>2, <2>1, Zenon
  <1>6a. NeverRefused' /\ ZoneTariffWins'
    <2>1. NeverRefused'
      BY <1>6 DEF TariffInv, NeverRefused
    <2>2. ZoneTariffWins'
      BY <1>1, <1>6 DEF TariffInv, ZoneTariffWins
    <2> QED BY <2>1, <2>2
  <1>7. ASSUME NEW t \in Requests
        PROVE  QuoteOK(quotes[t])'
    <2>1. CASE quotes'[t] = quotes[t]
      BY <2>1, <1>1 DEF TariffInv, QuoteOK
    <2>2. CASE quotes'[t].phase = "new"
      BY <2>2 DEF QuoteOK
    <2> QED BY <1>6, <2>1, <2>2
  <1>8. ASSUME NEW t \in Requests
        PROVE  RideOK(t)'
    <2>1. CASE rides[t].phase = "completing"
      <3>1. rides'[t].phase = "riding"
        BY <2>1, <1>2 DEF Shape, NoRide
      <3> QED BY <2>1, <3>1, <1>3 DEF TariffInv, RideOK
    <2>2. CASE rides[t].phase = "waiting"
      BY <2>2, <1>2 DEF RideOK
    <2>3. CASE rides[t].phase \notin {"completing", "waiting"}
      <3>1. rides'[t] = rides[t] /\ quotes'[t] = quotes[t]
        BY <2>3, <1>2, <1>3
      <3>2. RateOf(t)' = RateOf(t)
        BY <3>1, <1>1 DEF RateOf
      <3> QED BY <3>1, <3>2 DEF TariffInv, RideOK, FareFor
    <2> QED BY <2>1, <2>2, <2>3
  <1> QED BY <1>4, <1>5, <1>6a, <1>7, <1>8 DEF TariffInv

\* Time passes, or the phone and its positions move.
LEMMA OtherStep ==
  ASSUME Shape, TariffInv, UNCHANGED <<tariffs, quotes, rides>>, now' \in {now, now + 1}
  PROVE  Shape' /\ TariffInv'
  <1>1. schedules' = schedules /\ rules' = rules /\ quotes' = quotes /\ rides' = rides
    BY DEF tariffs
  <1>2. now' \in Nat /\ now \in Nat /\ now <= now'
    BY DEF Shape
  <1>3. Shape'
    BY <1>1, <1>2 DEF Shape
  <1>4. OpenVersions'
    <2>1. \A i \in DOMAIN rules : rules[i].from \in Nat /\ rules[i].from <= now
      <3>1. \A i \in DOMAIN rules : rules[i] \in Rule
        BY DEF Shape
      <3> QED BY <3>1 DEF TariffInv, OpenVersions, Rule
    <2>2. \A i \in DOMAIN rules : rules[i].from <= now'
      BY <2>1, <1>2
    <2> QED BY <2>2, <1>1 DEF TariffInv, OpenVersions
  <1>5. NeverRefused' /\ ZoneTariffWins'
    BY <1>1 DEF TariffInv, NeverRefused, ZoneTariffWins
  <1>6. ASSUME NEW t \in Requests
        PROVE  QuoteOK(quotes[t])' /\ RideOK(t)'
    <2>1. QuoteOK(quotes[t])'
      BY <1>1 DEF TariffInv, QuoteOK
    <2>2. RateOf(t)' = RateOf(t)
      BY <1>1 DEF RateOf
    <2> QED BY <2>1, <2>2, <1>1 DEF TariffInv, RideOK, FareFor
  <1> QED BY <1>3, <1>4, <1>5, <1>6 DEF TariffInv

LEMMA TariffStep ==
  ASSUME Shape, TariffInv, [MeteringNext]_meteringVars
  PROVE  Shape' /\ TariffInv'
  <1>1. ASSUME UNCHANGED rides, NEW t \in Requests,
               Locate(t) \/ Categorize(t) \/ FindRule(t) \/ SaveTrip(t)
        PROVE  Shape' /\ TariffInv'
    BY <1>1, LocateStep, CategorizeStep, FindRuleStep, SaveTripStep
  <1>2. ASSUME UNCHANGED rides, NEW k \in Schedules, SetOverride(k)
        PROVE  Shape' /\ TariffInv'
    BY <1>2, SetOverrideStep
  <1>3. ASSUME UNCHANGED rides, NEW i \in DOMAIN rules, Republish(i)
        PROVE  Shape' /\ TariffInv'
    BY <1>3, RepublishStep
  <1>4. CASE Tick /\ UNCHANGED rides
    BY <1>4, OtherStep DEF Tick
  <1>5. CASE Take
    BY <1>5, OtherStep DEF Take
  <1>6. ASSUME NEW p \in Range(taken), Upsert(p) \/ InsertPing(p)
        PROVE  Shape' /\ TariffInv'
    BY <1>6, OtherStep DEF Upsert, InsertPing
  <1>7. ASSUME NEW t \in Requests, StartRide(t) \/ LoadRide(t) \/ Meter(t)
        PROVE  Shape' /\ TariffInv'
    BY <1>7, StartRideStep, LoadRideStep, MeterStep
  <1>8. CASE Die
    BY <1>8, DieStep
  <1>9. CASE UNCHANGED meteringVars
    BY <1>9, OtherStep DEF meteringVars
  <1> QED
    BY <1>1, <1>2, <1>3, <1>4, <1>5, <1>6, <1>7, <1>8, <1>9 DEF MeteringNext, FaresNext

LEMMA TariffsHold == MeteringSpec => [](Shape /\ TariffInv)
  <1>1. MeteringInit => Shape /\ TariffInv
    BY TariffInit
  <1>2. Shape /\ TariffInv /\ [MeteringNext]_meteringVars => Shape' /\ TariffInv'
    BY TariffStep
  <1> QED BY <1>1, <1>2, PTL DEF MeteringSpec

\* However the monitoring centre republishes the rules and whatever the zones,
\* no request inside the coverage is refused for want of a rule.
THEOREM NeverRefusedHolds == MeteringSpec => []NeverRefused
  <1>1. TariffInv => NeverRefused
    BY DEF TariffInv
  <1> QED BY <1>1, TariffsHold, PTL

\* The quote of a trip in a zone with a rule of its own is by such a rule.
THEOREM ZoneTariffHolds == MeteringSpec => []ZoneTariffWins
  <1>1. TariffInv => ZoneTariffWins
    BY DEF TariffInv
  <1> QED BY <1>1, TariffsHold, PTL

\* The price of a completed ride comes from a rule published before the trip
\* was asked for, whatever has been published since.
THEOREM NoLaterTariffHolds == MeteringSpec => []NoLaterTariff
  <1>1. TariffInv => NoLaterTariff
    <2> SUFFICES ASSUME TariffInv, NEW t \in Requests, rides[t].phase = "completed"
                 PROVE  \E r \in Range(rules) :
                          /\ r.category = quotes[t].category
                          /\ r.from <= quotes[t].requestedAt
                          /\ rides[t].finalFare =
                               FareFor(r.rate, rides[t].distance, rides[t].minutes)
      BY DEF NoLaterTariff
    <2> DEFINE r == rules[quotes[t].rule]
    <2>1. quotes[t].phase = "saved" /\ quotes[t].category # "FORANEO"
      BY DEF TariffInv, RideOK
    <2>2. /\ r \in Range(rules)
          /\ r.category = quotes[t].category /\ r.from <= quotes[t].requestedAt
      BY <2>1 DEF TariffInv, QuoteOK, Range
    <2>3. rides[t].finalFare = FareFor(r.rate, rides[t].distance, rides[t].minutes)
      BY DEF TariffInv, RideOK, RateOf
    <2> HIDE DEF r
    <2> QED BY <2>2, <2>3
  <1> QED BY <1>1, TariffsHold, PTL
-----------------------------------------------------------------------------
(* The category of a quote. *)

\* The loop over the rows answers the question of NightAsScheduled, in every
\* order of the rows.
LEMMA NightOfRows ==
  ASSUME schedules \in [Schedules -> Schedule], NEW minute \in 0..(Day-1),
         NEW rows \in ActiveRows
  PROVE  LET active == {schedules[k] : k \in {j \in Schedules : schedules[j].active}}
             forced == {s.override : s \in active}
         IN  /\ forced \subseteq {None, "FORCE_ON"} =>
                  (Nocturno(rows, minute) <=>
                     \/ "FORCE_ON" \in forced
                     \/ \E s \in active : OnTheWay(s, minute))
             /\ forced = {"FORCE_OFF"} => ~Nocturno(rows, minute)
  <1> DEFINE open == {k \in Schedules : schedules[k].active}
             n == Cardinality(open)
             active == {schedules[k] : k \in open}
             forced == {s.override : s \in active}
             Holds(s) == s.override = "FORCE_ON" \/ Within(s, minute)
  <1>1. PICK order \in Bijection(1..n, open) :
          rows = [i \in DOMAIN order |-> schedules[order[i]]]
    BY DEF ActiveRows
  <1>2. /\ order \in [1..n -> open]
        /\ \A k \in open : \E i \in 1..n : order[i] = k
    BY <1>1 DEF Bijection, Injection, Surjection
  <1>3. n \in Nat
    BY FS_Subset, FS_CardinalityType
  <1> HIDE DEF n, open
  <1>4. DOMAIN rows = 1..n /\ \A i \in 1..n : rows[i] = schedules[order[i]]
    BY <1>1, <1>2
  <1>5. \A i \in 1..n : rows[i] \in active
    BY <1>2, <1>4
  <1>6. \A s \in active : \E i \in 1..n : rows[i] = s
    BY <1>2, <1>4
  <1>7. \A s \in active : s \in Schedule
    BY DEF open
  <1>8. \A s \in active : Within(s, minute) <=> OnTheWay(s, minute)
    BY <1>7, NightWindow
  <1> HIDE DEF active
  <1>9. ASSUME forced \subseteq {None, "FORCE_ON"}
        PROVE  Nocturno(rows, minute) <=> \E s \in active : Holds(s)
    <2>1. \A s \in active : s.override \in {None, "FORCE_ON"}
      BY <1>9
    <2>2. ASSUME Nocturno(rows, minute)
          PROVE  \E s \in active : Holds(s)
      <3>1. PICK i \in 1..n : rows[i].override = "FORCE_ON" \/ Within(rows[i], minute)
        BY <2>2, <1>4 DEF Nocturno
      <3> QED BY <3>1, <1>5
    <2>3. ASSUME NEW s \in active, Holds(s)
          PROVE  Nocturno(rows, minute)
      <3> DEFINE T == {i \in 1..n : Holds(rows[i])}
      <3>1. T \subseteq Nat /\ T # {}
        <4>1. T \subseteq Nat
          BY <1>3
        <4>2. PICK i \in 1..n : rows[i] = s
          BY <1>6
        <4> QED BY <4>1, <4>2, <2>3
      <3>2. PICK i \in T : \A j \in T : i <= j
        BY <3>1, LeastNumber
      <3>3. ASSUME NEW j \in 1..(i-1)
            PROVE  rows[j].override = None /\ ~Within(rows[j], minute)
        <4>1. j \in 1..n /\ ~(i <= j)
          BY <3>1, <3>2, <1>3
        <4>2. ~Holds(rows[j])
          BY <4>1, <3>2
        <4>3. rows[j].override \in {None, "FORCE_ON"}
          BY <4>1, <2>1, <1>5
        <4> QED BY <4>2, <4>3
      <3>4. i \in 1..n /\ Holds(rows[i]) /\ rows[i].override # "FORCE_OFF"
        BY <3>2, <2>1, <1>5
      <3> HIDE DEF T
      <3> QED BY <3>3, <3>4, <1>4 DEF Nocturno
    <2> QED BY <2>2, <2>3
  <1>10. "FORCE_ON" \in forced <=> \E s \in active : s.override = "FORCE_ON"
    OBVIOUS
  <1>11. ASSUME forced = {"FORCE_OFF"}
         PROVE  ~Nocturno(rows, minute)
    <2>1. \A s \in active : s.override = "FORCE_OFF"
      BY <1>11
    <2>2. \A i \in DOMAIN rows : rows[i].override = "FORCE_OFF"
      BY <2>1, <1>4, <1>5
    <2> QED BY <2>2 DEF Nocturno
  <1>12. (\E s \in active : Holds(s)) <=>
           "FORCE_ON" \in forced \/ \E s \in active : OnTheWay(s, minute)
    BY <1>8, <1>10
  <1> HIDE DEF forced, Holds
  <1>13. /\ forced \subseteq {None, "FORCE_ON"} =>
              (Nocturno(rows, minute) <=>
                 "FORCE_ON" \in forced \/ \E s \in active : OnTheWay(s, minute))
         /\ forced = {"FORCE_OFF"} => ~Nocturno(rows, minute)
    BY <1>9, <1>11, <1>12
  <1> QED BY <1>13 DEF active, forced, open

\* The only step into "categorized".
LEMMA OnlyCategorize ==
  ASSUME Shape, TariffInv, MeteringNext, NEW t \in Requests,
         quotes[t].phase = "located", quotes'[t].phase = "categorized"
  PROVE  Categorize(t)
  <1> USE DEF Shape
  <1>1. ASSUME NEW u \in Requests, Locate(u) PROVE FALSE
    BY <1>1 DEF Locate, NoQuote
  <1>2. ASSUME NEW u \in Requests, Categorize(u) PROVE u = t
    BY <1>2 DEF Categorize
  <1>3. ASSUME NEW u \in Requests, FindRule(u) PROVE FALSE
    <2>1. quotes[u].phase = "categorized" /\ quotes'[t] = quotes[t]
      BY <1>3 DEF FindRule
    <2> QED BY <2>1
  <1>4. ASSUME NEW u \in Requests, SaveTrip(u) PROVE FALSE
    <2>1. quotes'[t] = quotes[t]
      BY <1>4 DEF SaveTrip
    <2> QED BY <2>1
  <1>5. CASE Die
    <2>1. quotes'[t] = NoQuote
      BY <1>5 DEF Die
    <2> QED BY <2>1 DEF NoQuote
  <1>6. CASE quotes' = quotes
    BY <1>6
  <1>7. \/ \E u \in Requests : Locate(u) \/ Categorize(u) \/ FindRule(u) \/ SaveTrip(u)
        \/ Die
        \/ quotes' = quotes
    BY DEF MeteringNext, FaresNext, SetOverride, Republish, Tick, Take, Upsert,
           InsertPing, StartRide, LoadRide, Meter
  <1> QED BY <1>1, <1>2, <1>3, <1>4, <1>5, <1>6, <1>7

\* A trip is quoted the night tariff exactly when it is forced on, or not forced
\* at all and some window is open around the clock, for windows of any length
\* and any number of schedules.
THEOREM NightHolds == MeteringSpec => NightAsScheduled
  <1>1. ASSUME Shape, TariffInv, [MeteringNext]_meteringVars, NEW t \in Requests,
               quotes[t].phase = "located", quotes'[t].phase = "categorized"
        PROVE  LET active == {schedules[k] : k \in {j \in Schedules : schedules[j].active}}
                   forced == {s.override : s \in active}
               IN  /\ forced \subseteq {None, "FORCE_ON"} =>
                        (quotes'[t].category = "NOCTURNO" <=>
                           \/ "FORCE_ON" \in forced
                           \/ \E s \in active : OnTheWay(s, now % Day))
                   /\ forced = {"FORCE_OFF"} => quotes'[t].category = "NORMAL"
    <2>1. MeteringNext
      BY <1>1 DEF meteringVars
    <2>2. Categorize(t)
      BY <1>1, <2>1, OnlyCategorize
    <2>3. PICK rows \in ActiveRows :
            quotes'[t].category = IF Nocturno(rows, now % Day) THEN "NOCTURNO" ELSE "NORMAL"
      BY <1>1, <2>2 DEF Categorize, Shape, Quote
    <2>4. now % Day \in 0..(Day-1) /\ schedules \in [Schedules -> Schedule]
      BY <1>1 DEF Shape
    <2> QED BY <2>3, <2>4, NightOfRows
  <1>2. Shape /\ TariffInv /\ [MeteringNext]_meteringVars =>
          [LET active == {schedules[k] : k \in {j \in Schedules : schedules[j].active}}
               forced == {s.override : s \in active}
           IN \A t \in Requests : quotes[t].phase = "located" /\ quotes'[t].phase = "categorized" =>
                /\ forced \subseteq {None, "FORCE_ON"} =>
                     (quotes'[t].category = "NOCTURNO" <=>
                        \/ "FORCE_ON" \in forced
                        \/ \E s \in active : OnTheWay(s, now % Day))
                /\ forced = {"FORCE_OFF"} => quotes'[t].category = "NORMAL"]_quotes
    BY <1>1, Zenon
  <1> QED BY <1>2, TariffsHold, PTL DEF MeteringSpec, NightAsScheduled
-----------------------------------------------------------------------------
(* The rows of a ride.                                                      *)

\* A track holds the rows of the ride, all of them, in the order of their dates.
LEMMA TrackRows ==
  ASSUME history \in Seq(Ping), NEW startedAt, NEW q \in Tracks(startedAt)
  PROVE  /\ q \in Seq(Ping)
         /\ \A i, j \in 1..Len(q) : i < j => q[i].at <= q[j].at
         /\ \A i \in 1..Len(q) : q[i] \in Range(history) /\ q[i].at \in startedAt..now
         /\ \A i \in DOMAIN history :
              history[i].at \in startedAt..now => \E k \in 1..Len(q) : q[k] = history[i]
  <1> DEFINE rows == {i \in DOMAIN history : history[i].at \in startedAt..now}
             n == Cardinality(rows)
  <1>1. \A i \in DOMAIN history : history[i] \in Ping
    OBVIOUS
  <1>2. n \in Nat
    <2>1. DOMAIN history = 1..Len(history) /\ Len(history) \in Nat
      OBVIOUS
    <2>2. IsFiniteSet(DOMAIN history)
      BY <2>1, FS_Interval
    <2>3. IsFiniteSet(rows)
      BY <2>2, FS_Subset
    <2> QED BY <2>3, FS_CardinalityType
  <1>3. PICK order \in Bijection(1..n, rows) :
          /\ q = [i \in DOMAIN order |-> history[order[i]]]
          /\ \A i, j \in DOMAIN order : i < j => history[order[i]].at <= history[order[j]].at
    BY DEF Tracks
  <1> HIDE DEF n
  <1>4. /\ order \in [1..n -> rows]
        /\ \A x \in rows : \E i \in 1..n : order[i] = x
    BY DEF Bijection, Injection, Surjection
  <1>5. q = [i \in 1..n |-> history[order[i]]]
    BY <1>3, <1>4
  <1>6. \A i \in 1..n : order[i] \in DOMAIN history
    BY <1>4
  <1>7. q \in Seq(Ping) /\ Len(q) = n
    BY <1>1, <1>2, <1>5, <1>6
  <1>8. \A i \in 1..n : q[i] \in Range(history) /\ q[i].at \in startedAt..now
    BY <1>4, <1>5, <1>6 DEF Range
  <1>9. \A i \in DOMAIN history :
          history[i].at \in startedAt..now => \E k \in 1..n : q[k] = history[i]
    BY <1>4, <1>5
  <1>10. \A i, j \in 1..n : i < j => q[i].at <= q[j].at
    BY <1>3, <1>4, <1>5
  <1> QED BY <1>7, <1>8, <1>9, <1>10

\* The hops from a position to the next.
Hops(q) == [i \in 1..(Len(q) - 1) |-> Gap(q[i].pos, q[i+1].pos)]

\* The sum of the library is the sum of the lemmas.
LEMMA SumOfHops ==
  ASSUME NEW q, NEW S, S \subseteq 1..(Len(q) - 1), IsFiniteSet(S)
  PROVE  MapThenSumSet(LAMBDA i : Gap(q[i].pos, q[i+1].pos), S) = Total(Hops(q), S)
  <1> DEFINE Hop(i) == Gap(q[i].pos, q[i+1].pos)
             Body(g) == g = [s \in SUBSET S |->
                               IF s = {} THEN 0 ELSE Hop(Any(s)) + g[s \ {Any(s)}]]
             sums == CHOOSE g : Body(g)
  <1>1. MapThenSumSet(LAMBDA i : Gap(q[i].pos, q[i+1].pos), S) = sums[S]
    BY DEF MapThenSumSet, MapThenFoldSet, Any
  <1>2. ASSUME NEW k PROVE SumsUp(Hops(q), S, k) <=> Body(k)
    <2> HIDE DEF Hop
    <2>1. \A s \in SUBSET S : s # {} => Hops(q)[Any(s)] = Hop(Any(s))
      BY AnyIn DEF Hops, Hop
    <2> QED BY <2>1 DEF SumsUp
  <1>3. \E k : Body(k)
    <2> HIDE DEF Body
    <2> QED BY <1>2, SumsExist
  <1>4. Body(sums)
    <2> HIDE DEF Body
    <2> QED BY <1>3, Zenon
  <1> HIDE DEF Body
  <1>5. SumsUp(Hops(q), S, sums)
    BY <1>2, <1>4
  <1> HIDE DEF sums
  <1> QED BY <1>1, <1>5, TotalIs

LEMMA HopsAreNat ==
  ASSUME NEW q \in Seq(Ping)
  PROVE  \A i \in 1..(Len(q) - 1) : Hops(q)[i] \in Nat
  <1>1. \A i \in 1..Len(q) : q[i] \in Ping
    OBVIOUS
  <1>2. \A i \in 1..(Len(q) - 1) : i \in 1..Len(q) /\ i + 1 \in 1..Len(q)
    OBVIOUS
  <1>3. \A i \in 1..(Len(q) - 1) : q[i].pos \in Int /\ q[i+1].pos \in Int
    BY <1>1, <1>2 DEF Ping
  <1>4. \A x, y \in Int : Gap(x, y) \in Nat
    BY DEF Gap
  <1>5. \A i \in 1..(Len(q) - 1) : Hops(q)[i] = Gap(q[i].pos, q[i+1].pos)
    BY DEF Hops
  <1> QED BY ONLY <1>3, <1>4, <1>5, Zenon

\* The length of a track.
LEMMA TrackSum ==
  ASSUME NEW q \in Seq(Ping)
  PROVE  TrackLength(q) = Total(Hops(q), 1..(Len(q) - 1)) /\ TrackLength(q) \in Nat
  <1>1. IsFiniteSet(1..(Len(q) - 1))
    <2>1. Len(q) \in Nat
      OBVIOUS
    <2> QED BY <2>1, FS_Interval
  <1>2. TrackLength(q) = Total(Hops(q), 1..(Len(q) - 1))
    BY <1>1, SumOfHops DEF TrackLength
  <1>3. Total(Hops(q), 1..(Len(q) - 1)) \in Nat
    BY <1>1, HopsAreNat, TotalNat
  <1> QED BY <1>2, <1>3

\* What the phone travelled from the first to the last of two of its positions.
Travelled(a, b) == Total(Hops(taken), a..(b - 1))

LEMMA TravelledOn ==
  ASSUME taken \in Seq(Ping), NEW a \in DOMAIN taken, NEW b \in DOMAIN taken, a <= b,
         b + 1 \in DOMAIN taken
  PROVE  /\ Travelled(a, a) = 0
         /\ Travelled(a, b + 1) = Travelled(a, b) + Gap(taken[b].pos, taken[b + 1].pos)
  <1>1. a \in Nat /\ b \in Nat /\ a..(a - 1) = {} /\ DOMAIN taken = 1..Len(taken)
    OBVIOUS
  <1>2. Travelled(a, a) = 0
    BY <1>1, TotalEmpty DEF Travelled
  <1>3. /\ a..((b + 1) - 1) = (a..(b - 1)) \cup {b} /\ b \notin a..(b - 1)
        /\ (a..(b - 1)) \cup {b} \subseteq 1..(Len(taken) - 1)
    BY <1>1
  <1>4. IsFiniteSet(a..(b - 1))
    BY <1>1, FS_Interval
  <1>5. Total(Hops(taken), (a..(b - 1)) \cup {b}) = Travelled(a, b) + Hops(taken)[b]
    <2>1. \A y \in (a..(b - 1)) \cup {b} : Hops(taken)[y] \in Int
      BY <1>3, HopsAreNat
    <2> QED BY <1>3, <1>4, <2>1, TotalAdd DEF Travelled
  <1>6. Hops(taken)[b] = Gap(taken[b].pos, taken[b + 1].pos)
    BY <1>3 DEF Hops
  <1> QED BY <1>2, <1>3, <1>5, <1>6 DEF Travelled

\* Rows that repeat the positions of a stretch of the ride in the order of time
\* are as long as the stretch.
LEMMA RowsOfStretch ==
  ASSUME taken \in Seq(Ping), NEW q \in Seq(Ping), NEW index \in [1..Len(q) -> DOMAIN taken],
         \A k \in 1..Len(q) : q[k] = taken[index[k]],
         \A k \in 1..(Len(q) - 1) : index[k + 1] \in {index[k], index[k] + 1}
  PROVE  \A k \in 1..Len(q) :
           index[1] <= index[k] /\ Total(Hops(q), 1..(k - 1)) = Travelled(index[1], index[k])
  <1> DEFINE Right(k) ==
               index[1] <= index[k] /\ Total(Hops(q), 1..(k - 1)) = Travelled(index[1], index[k])
             Bad == {k \in 1..Len(q) : ~Right(k)}
  <1> SUFFICES ASSUME Bad # {} PROVE FALSE
    OBVIOUS
  <1>1. Bad \subseteq Nat
    OBVIOUS
  <1> HIDE DEF Bad, Right
  <1>2. PICK k \in Bad : \A j \in Bad : k <= j
    BY <1>1, LeastNumber
  <1>3. k \in 1..Len(q) /\ ~Right(k) /\ Len(q) \in Nat
    BY DEF Bad
  <1>4. \A j \in 1..Len(q) : index[j] \in DOMAIN taken /\ index[j] \in Nat
    OBVIOUS
  <1>5. k # 1
    <2> SUFFICES ASSUME k = 1 PROVE FALSE
      OBVIOUS
    <2>1. 1..(1 - 1) = {} /\ index[1]..(index[1] - 1) = {}
      BY <1>3, <1>4
    <2>2. Right(1)
      BY <1>3, <1>4, <2>1, TotalEmpty DEF Right, Travelled
    <2> QED BY <1>3, <2>2
  <1> DEFINE j == k - 1
  <1>6. j \in 1..(Len(q) - 1) /\ j \in 1..Len(q) /\ 1 \in 1..Len(q) /\ k = j + 1 /\ k - 1 = j
    BY <1>3, <1>5
  <1>7. Right(j)
    BY <1>2, <1>3, <1>6 DEF Bad
  <1> HIDE DEF j
  <1>8. Total(Hops(q), 1..j) = Total(Hops(q), 1..(j - 1)) + Gap(q[j].pos, q[k].pos)
    <2>1. /\ 1..j = (1..(j - 1)) \cup {j} /\ j \notin 1..(j - 1)
          /\ (1..(j - 1)) \cup {j} \subseteq 1..(Len(q) - 1)
      BY <1>3, <1>6
    <2>2. IsFiniteSet(1..(j - 1))
      <3>1. 1 \in Int /\ j - 1 \in Int
        BY <1>6
      <3> QED BY <3>1, FS_Interval
    <2>3. \A y \in (1..(j - 1)) \cup {j} : Hops(q)[y] \in Int
      BY <2>1, HopsAreNat
    <2>4. Hops(q)[j] = Gap(q[j].pos, q[k].pos)
      BY <1>6 DEF Hops
    <2>5. Total(Hops(q), (1..(j - 1)) \cup {j}) = Total(Hops(q), 1..(j - 1)) + Hops(q)[j]
      BY ONLY <2>1, <2>2, <2>3, TotalAdd
    <2> QED BY <2>1, <2>4, <2>5
  <1>9. q[j] = taken[index[j]] /\ q[k] = taken[index[k]]
    BY <1>3, <1>6
  <1>10. Total(Hops(q), 1..(k - 1)) =
           Travelled(index[1], index[j]) + Gap(taken[index[j]].pos, taken[index[k]].pos)
    BY <1>6, <1>7, <1>8, <1>9 DEF Right
  <1>11. index[1] <= index[j] /\ index[k] \in {index[j], index[j] + 1}
    BY <1>6, <1>7 DEF Right
  <1>12. CASE index[k] = index[j]
    <2>1. Total(Hops(q), 1..(j - 1)) \in Int
      <3>1. 1..(j - 1) \subseteq 1..(Len(q) - 1) /\ j - 1 \in Int /\ 1 \in Int
        BY <1>3, <1>6
      <3>2. IsFiniteSet(1..(j - 1))
        BY <3>1, FS_Interval
      <3>3. \A y \in 1..(j - 1) : Hops(q)[y] \in Nat
        BY <3>1, HopsAreNat
      <3>4. Total(Hops(q), 1..(j - 1)) \in Nat
        BY ONLY <3>2, <3>3, TotalNat
      <3> QED BY <3>4
    <2>2. taken[index[j]].pos \in Int
      <3>1. taken[index[j]] \in Ping
        BY <1>4, <1>6
      <3> QED BY <3>1 DEF Ping
    <2>3. Gap(taken[index[j]].pos, taken[index[k]].pos) = 0
      BY <1>12, <2>2 DEF Gap
    <2> QED BY <1>3, <1>7, <1>10, <1>11, <1>12, <2>1, <2>3 DEF Right
  <1>13. CASE index[k] = index[j] + 1
    <2>1. Travelled(index[1], index[j] + 1) =
            Travelled(index[1], index[j]) + Gap(taken[index[j]].pos, taken[index[j] + 1].pos)
      BY <1>3, <1>4, <1>6, <1>11, <1>13, TravelledOn
    <2> QED BY <1>3, <1>4, <1>6, <1>10, <1>11, <1>13, <2>1 DEF Right
  <1> QED BY <1>11, <1>12, <1>13
-----------------------------------------------------------------------------
(* The positions. *)

\* Whatever the network makes of the order, the row of a driver and the history
\* hold positions the phone took.
PositionInv ==
  /\ taken \in Seq(Ping) /\ history \in Seq(Ping)
  /\ location \subseteq Range(taken) /\ posted \subseteq Range(taken)
  /\ Range(history) \subseteq Range(taken)

LEMMA TakeStep ==
  ASSUME now \in Nat, PositionInv, Take
  PROVE  PositionInv'
  <1> DEFINE last == IF taken = <<>> THEN 0 ELSE taken[Len(taken)].pos
  <1>1. PICK move \in Moves, skew \in Skews :
          taken' = Append(taken, [at |-> now + skew, pos |-> last + move])
    BY DEF Take
  <1>2. last \in Int
    <2>1. taken # <<>> => taken[Len(taken)] \in Ping
      BY DEF PositionInv
    <2> QED BY <2>1 DEF Ping
  <1> HIDE DEF last
  <1> DEFINE p == [at |-> now + skew, pos |-> last + move]
             n == Len(taken)
  <1>3. p \in Ping
    BY <1>2 DEF Ping
  <1> HIDE DEF p
  <1>4. /\ taken' \in Seq(Ping) /\ n \in Nat /\ DOMAIN taken = 1..n /\ DOMAIN taken' = 1..(n + 1)
        /\ \A i \in 1..n : taken'[i] = taken[i]
    BY <1>1, <1>3 DEF PositionInv, p
  <1> HIDE DEF n
  <1>5. UNCHANGED <<location, posted, history>>
    BY DEF Take
  <1>6. \A i \in 1..n : i \in 1..(n + 1)
    BY <1>4
  <1>7. Range(taken) \subseteq Range(taken')
    BY <1>4, <1>6 DEF Range
  <1> QED BY <1>4, <1>5, <1>7 DEF PositionInv

LEMMA UpsertStep ==
  ASSUME PositionInv, NEW p \in Range(taken), Upsert(p)
  PROVE  PositionInv'
  <1>1. taken' = taken /\ history' = history /\ location' = {p} /\ posted' = posted \cup {p}
    BY DEF Upsert
  <1> QED BY <1>1 DEF PositionInv

LEMMA InsertPingStep ==
  ASSUME PositionInv, NEW p \in Range(taken), InsertPing(p)
  PROVE  PositionInv'
  <1>1. /\ taken' = taken /\ location' = location /\ history' = Append(history, p)
        /\ posted' \subseteq posted
    BY DEF InsertPing
  <1>2. p \in Ping
    BY DEF PositionInv, Range
  <1>3. history' \in Seq(Ping) /\ Range(history') = Range(history) \cup {p}
    <2> DEFINE n == Len(history)
    <2>1. /\ history' \in Seq(Ping) /\ n \in Nat /\ DOMAIN history = 1..n
          /\ DOMAIN history' = 1..(n + 1) /\ history'[n + 1] = p
          /\ \A i \in 1..n : history'[i] = history[i]
      BY <1>1, <1>2 DEF PositionInv
    <2> HIDE DEF n
    <2>2. \A i : i \in 1..(n + 1) <=> i \in 1..n \/ i = n + 1
      BY <2>1
    <2> QED BY <2>1, <2>2 DEF Range
  <1> QED BY <1>1, <1>3 DEF PositionInv

LEMMA PositionStep ==
  ASSUME Shape, PositionInv, [MeteringNext]_meteringVars
  PROVE  PositionInv'
  <1>1. CASE Take
    BY <1>1, TakeStep DEF Shape
  <1>2. ASSUME NEW p \in Range(taken), Upsert(p) \/ InsertPing(p)
        PROVE  PositionInv'
    BY <1>2, UpsertStep, InsertPingStep
  <1>3. CASE UNCHANGED <<taken, location, history>> /\ posted' \subseteq posted
    BY <1>3 DEF PositionInv
  <1> QED
    BY <1>1, <1>2, <1>3 DEF MeteringNext, meteringVars, gps, StartRide, LoadRide, Meter, Die

LEMMA PositionsHold == MeteringSpec => []PositionInv
  <1>1. MeteringInit => PositionInv
    BY DEF MeteringInit, PositionInv, Range
  <1> QED BY <1>1, PositionStep, TariffsHold, PTL DEF MeteringSpec

\* The distance charged is the one travelled from the first to the last of the
\* positions of the ride.
LEMMA RideMeasured ==
  ASSUME PositionInv, ClockNotSetBack, NEW startedAt, NEW ride, NEW q \in Tracks(startedAt),
         ride = {i \in DOMAIN taken : taken[i].at \in startedAt..now}, now \in Nat,
         startedAt \in Nat, Cardinality(ride) >= 2, \A i \in ride : taken[i] \in Range(history)
  PROVE  DistanceKm(q) =
           MapThenSumSet(LAMBDA i : Gap(taken[i].pos, taken[i+1].pos), {i \in ride : i + 1 \in ride})
  <1> DEFINE n == Len(q)
             index == [k \in 1..n |-> CHOOSE i \in DOMAIN taken : taken[i] = q[k]]
  <1>1. taken \in Seq(Ping) /\ history \in Seq(Ping) /\ DOMAIN taken = 1..Len(taken)
    BY DEF PositionInv
  <1>2. /\ q \in Seq(Ping) /\ n \in Nat
        /\ \A i, j \in 1..n : i < j => q[i].at <= q[j].at
        /\ \A i \in 1..n : q[i] \in Range(history) /\ q[i].at \in startedAt..now
        /\ \A i \in DOMAIN history :
             history[i].at \in startedAt..now => \E k \in 1..n : q[k] = history[i]
    BY <1>1, TrackRows
  <1>3. DistanceKm(q) = IF n >= 2 THEN TrackLength(q)
                        ELSE (Straight * 135 + 50) \div 100
    BY DEF DistanceKm
  <1>4. TrackLength(q) = Total(Hops(q), 1..(n - 1))
    BY <1>2, TrackSum
  <1> HIDE DEF n
  <1>5. /\ index \in [1..n -> DOMAIN taken]
        /\ \A k \in 1..n : q[k] = taken[index[k]] /\ index[k] \in ride
    <2>1. \A k \in 1..n : \E i \in DOMAIN taken : taken[i] = q[k]
      <3>1. \A k \in 1..n : q[k] \in Range(taken)
        BY <1>2 DEF PositionInv
      <3> QED BY <3>1, Zenon DEF Range
    <2>2. ASSUME NEW k \in 1..n
          PROVE  index[k] \in DOMAIN taken /\ q[k] = taken[index[k]]
      <3>1. index[k] = CHOOSE i \in DOMAIN taken : taken[i] = q[k]
        OBVIOUS
      <3> HIDE DEF index
      <3> QED BY <2>1, <3>1, Zenon
    <2>3. DOMAIN index = 1..n
      OBVIOUS
    <2> HIDE DEF index
    <2>4. \A k \in 1..n : index[k] \in ride
      BY <1>2, <2>2
    <2>5. index \in [1..n -> DOMAIN taken]
      <3>1. index = [k \in 1..n |-> index[k]]
        BY DEF index
      <3> QED BY <2>2, <3>1, Zenon
    <2> QED BY <2>2, <2>4, <2>5
  <1> HIDE DEF index
  <1>6. \A i, j \in DOMAIN taken :
          /\ i \in Nat /\ taken[i].at \in Int
          /\ (taken[i].at <= taken[j].at => i <= j)
          /\ (i <= j => taken[i].at <= taken[j].at)
    <2>1. \A i \in DOMAIN taken : i \in Nat /\ taken[i] \in Ping
      BY <1>1
    <2>2. \A i \in DOMAIN taken : taken[i].at \in Int
      BY <2>1 DEF Ping
    <2>3. ASSUME NEW i \in DOMAIN taken, NEW j \in DOMAIN taken
          PROVE  /\ (taken[i].at <= taken[j].at => i <= j)
                 /\ (i <= j => taken[i].at <= taken[j].at)
      <3>1. i < j \/ i = j \/ j < i
        BY <2>1
      <3>2. /\ (i < j => taken[i].at < taken[j].at)
            /\ (j < i => taken[j].at < taken[i].at)
        BY DEF ClockNotSetBack
      <3> QED BY <2>1, <2>2, <3>1, <3>2
    <2> QED BY <2>1, <2>2, <2>3
  \* The indices of the rows rise,
  <1>7. \A k, l \in 1..n : k <= l => index[k] <= index[l]
    <2> SUFFICES ASSUME NEW k \in 1..n, NEW l \in 1..n, k <= l PROVE index[k] <= index[l]
      OBVIOUS
    <2>1. CASE k = l
      BY <2>1, <1>5, <1>6
    <2>2. CASE k # l
      <3>1. k < l
        BY <1>2, <2>2
      <3>2. q[k].at <= q[l].at /\ q[k] = taken[index[k]] /\ q[l] = taken[index[l]]
        BY <3>1, <1>2, <1>5
      <3>3. index[k] \in DOMAIN taken /\ index[l] \in DOMAIN taken
        BY <1>5
      <3> QED BY ONLY <3>2, <3>3, <1>6, Zenon
    <2> QED BY <2>1, <2>2
  \* and reach every position of the ride.
  <1>8. \A i \in ride : \E k \in 1..n : index[k] = i
    <2> SUFFICES ASSUME NEW i \in ride PROVE \E k \in 1..n : index[k] = i
      OBVIOUS
    <2>1. PICK r \in DOMAIN history : history[r] = taken[i]
      BY DEF Range
    <2>2. PICK k \in 1..n : q[k] = taken[i]
      BY <1>2, <2>1
    <2>3. i \in DOMAIN taken /\ index[k] \in DOMAIN taken /\ taken[index[k]].at = taken[i].at
      BY <1>5, <2>2
    <2> QED BY <1>6, <2>3
  <1>9. n >= 2
    <2>1. IsFiniteSet(ride)
      <3>1. IsFiniteSet(DOMAIN taken)
        BY <1>1, FS_Interval
      <3> QED BY <3>1, FS_Subset
    <2>2. ride # {} /\ ~\E x : ride = {x}
      <3>1. Cardinality({}) = 0 /\ \A x : Cardinality({x}) = 1
        BY FS_EmptySet, FS_Singleton
      <3>2. Cardinality(ride) # 0 /\ Cardinality(ride) # 1
        BY <2>1, FS_CardinalityType
      <3> QED BY ONLY <3>1, <3>2
    <2>3. n # 0
      BY <1>8, <2>2
    <2>4. n # 1
      <3> SUFFICES ASSUME n = 1 PROVE FALSE
        OBVIOUS
      <3>1. \A k \in 1..1 : k = 1
        OBVIOUS
      <3>2. \A i \in ride : \E k \in 1..1 : index[k] = i
        BY <1>8
      <3>3. \A i \in ride : index[1] = i
        BY ONLY <3>1, <3>2, Zenon
      <3> QED BY ONLY <2>2, <3>3
    <2> QED BY <1>2, <2>3, <2>4
  <1> DEFINE a == index[1]
             b == index[n]
  <1>10. a \in ride /\ b \in ride /\ a \in DOMAIN taken /\ b \in DOMAIN taken /\ a <= b
         /\ \A i \in ride : a <= i /\ i <= b
    <2>1. 1 \in 1..n /\ n \in 1..n /\ \A k \in 1..n : 1 <= k /\ k <= n
      BY <1>2, <1>9
    <2> QED BY <1>5, <1>7, <1>8, <2>1
  \* The ride is a stretch of what the phone took.
  <1>11. \A i \in DOMAIN taken : a <= i /\ i <= b => i \in ride
    <2> SUFFICES ASSUME NEW i \in DOMAIN taken, a <= i, i <= b PROVE i \in ride
      OBVIOUS
    <2>1. taken[a].at <= taken[i].at /\ taken[i].at <= taken[b].at
      BY <1>6, <1>10
    <2>2. startedAt <= taken[a].at /\ taken[b].at <= now
      BY <1>10
    <2>3. taken[i].at \in Int /\ taken[a].at \in Int /\ taken[b].at \in Int
      BY <1>6, <1>10
    <2>4. startedAt <= taken[i].at /\ taken[i].at <= now
      BY <2>1, <2>2, <2>3
    <2> QED BY <2>3, <2>4
  <1>12. \A k \in 1..(n - 1) : index[k + 1] \in {index[k], index[k] + 1}
    <2> SUFFICES ASSUME NEW k \in 1..(n - 1), index[k + 1] # index[k], index[k + 1] # index[k] + 1
                 PROVE  FALSE
      OBVIOUS
    <2>1. k \in 1..n /\ k + 1 \in 1..n /\ k <= k + 1
      BY <1>2
    <2> DEFINE i == index[k] + 1
    <2>2. /\ index[k] \in DOMAIN taken /\ index[k + 1] \in DOMAIN taken
          /\ index[k] \in Nat /\ index[k + 1] \in Nat /\ index[k] \in ride
          /\ index[k] <= index[k + 1] /\ index[k + 1] \in ride
      BY <1>5, <1>6, <1>7, <2>1
    <2>3. index[k] < i /\ i < index[k + 1]
      BY <2>2
    <2>4. i \in DOMAIN taken
      <3>1. index[k] \in 1..Len(taken) /\ index[k + 1] \in 1..Len(taken) /\ Len(taken) \in Nat
        BY <1>1, <2>2
      <3>2. i \in 1..Len(taken)
        BY ONLY <2>3, <3>1
      <3> QED BY <1>1, <3>2
    <2>5. i \in ride
      <3>1. a <= index[k] /\ index[k + 1] <= b
        BY <1>10, <2>2
      <3> QED BY <1>6, <1>10, <1>11, <2>2, <2>3, <2>4, <3>1
    <2>6. PICK l \in 1..n : index[l] = i
      BY <1>8, <2>5
    <2>7. l <= k \/ k + 1 <= l
      BY <1>2
    <2> HIDE DEF i
    <2>8. index[l] <= index[k] \/ index[k + 1] <= index[l]
      BY <1>7, <2>1, <2>7
    <2> QED BY <2>2, <2>3, <2>6, <2>8 DEF i
  <1>13. Total(Hops(q), 1..(n - 1)) = Travelled(a, b)
    <2>1. \A k \in 1..n :
            index[1] <= index[k] /\ Total(Hops(q), 1..(k - 1)) = Travelled(index[1], index[k])
      <3>1. /\ index \in [1..Len(q) -> DOMAIN taken] /\ \A k \in 1..Len(q) : q[k] = taken[index[k]]
            /\ \A k \in 1..(Len(q) - 1) : index[k + 1] \in {index[k], index[k] + 1}
        BY <1>5, <1>12 DEF n
      <3> QED BY <1>1, <1>2, <3>1, RowsOfStretch DEF n
    <2>2. n \in 1..n
      BY <1>2, <1>9
    <2> QED BY <2>1, <2>2
  <1>14. {i \in ride : i + 1 \in ride} = a..(b - 1)
    <2>1. ASSUME NEW i \in ride, i + 1 \in ride PROVE i \in a..(b - 1)
      BY <1>6, <1>10, <2>1
    <2>2. ASSUME NEW i \in a..(b - 1) PROVE i \in ride /\ i + 1 \in ride
      <3>1. a \in Nat /\ b \in 1..Len(taken) /\ a \in 1..Len(taken)
        BY <1>1, <1>10
      <3>2. i \in DOMAIN taken /\ i + 1 \in DOMAIN taken /\ a <= i /\ i + 1 <= b
            /\ a <= i + 1 /\ i <= b
        <4>1. Len(taken) \in Nat
          BY <1>1
        <4>2. i \in a..(b - 1)
          BY <2>2
        <4> HIDE DEF a, b
        <4>3. i \in Nat /\ a <= i /\ i + 1 <= b /\ a <= i + 1 /\ i <= b
          BY <3>1, <4>2
        <4>4. i \in 1..Len(taken) /\ i + 1 \in 1..Len(taken)
          BY ONLY <3>1, <4>1, <4>3
        <4> QED BY <1>1, <4>3, <4>4
      <3> QED BY <1>11, <3>2
    <2> QED BY <2>1, <2>2
  <1>15. MapThenSumSet(LAMBDA i : Gap(taken[i].pos, taken[i+1].pos), a..(b - 1)) = Travelled(a, b)
    <2>1. a \in 1..Len(taken) /\ b \in 1..Len(taken) /\ Len(taken) \in Nat
      BY <1>1, <1>10
    <2>2. a..(b - 1) \subseteq 1..(Len(taken) - 1)
      BY <2>1
    <2> HIDE DEF a, b
    <2>3. IsFiniteSet(a..(b - 1))
      <3>1. a \in Int /\ b - 1 \in Int
        BY <2>1
      <3> QED BY <3>1, FS_Interval
    <2> QED BY <2>2, <2>3, SumOfHops DEF Travelled
  <1> QED BY <1>3, <1>4, <1>9, <1>13, <1>14, <1>15
-----------------------------------------------------------------------------
(* The rides. *)

RideTypes == rides \in [Requests -> Ride]

\* The fare of a ride of natural numbers is one.
LEMMA FareNat ==
  ASSUME NEW rate \in Rates, NEW distance \in Nat, NEW minutes \in Nat
  PROVE  FareFor(rate, distance, minutes) \in Nat
  <1>1. rate.base \in Nat /\ rate.perKm \in Nat /\ rate.perMinute \in Nat
    OBVIOUS
  <1>2. \A x, y \in Nat : x * y \in Nat
    OBVIOUS
  <1>3. rate.perKm * distance \in Nat /\ rate.perMinute * minutes \in Nat
    BY <1>1, <1>2
  <1> QED BY <1>1, <1>3 DEF FareFor

LEMMA DistanceNat ==
  ASSUME history \in Seq(Ping), NEW startedAt, NEW track \in Tracks(startedAt)
  PROVE  DistanceKm(track) \in Nat
  <1>1. TrackLength(track) \in Nat
    BY TrackRows, TrackSum
  <1>2. (Straight * 135 + 50) \div 100 \in Nat
    OBVIOUS
  <1> QED BY <1>1, <1>2 DEF DistanceKm

LEMMA RideTypesStep ==
  ASSUME Shape, TariffInv, PositionInv, RideTypes, [MeteringNext]_meteringVars
  PROVE  RideTypes'
  <1>1. now \in Nat /\ \A t \in Requests : rides[t] \in Ride
    BY DEF Shape, RideTypes
  <1>2. ASSUME NEW t \in Requests, StartRide(t)
        PROVE  RideTypes'
    <2>1. [rides[t] EXCEPT !.phase = "riding", !.startedAt = now] \in Ride
      BY <1>1 DEF Ride
    <2> QED BY <1>2, <2>1 DEF StartRide, RideTypes
  <1>3. ASSUME NEW t \in Requests, LoadRide(t)
        PROVE  RideTypes'
    <2>1. rides[t].startedAt \in Nat
      BY <1>1 DEF Ride
    <2>2. Minutes(rides[t].startedAt) \in Nat
      BY <1>1, <2>1 DEF Minutes
    <2>3. [rides[t] EXCEPT !.phase = "completing", !.minutes = Minutes(rides[t].startedAt)] \in Ride
      BY <1>1, <2>2 DEF Ride
    <2> QED BY <1>3, <2>3 DEF LoadRide, RideTypes
  <1>4. ASSUME NEW t \in Requests, Meter(t)
        PROVE  RideTypes'
    <2>0. PICK track \in Tracks(rides[t].startedAt) :
            rides' = [rides EXCEPT ![t] = [rides[t] EXCEPT
                        !.phase = "completed", !.distance = DistanceKm(track),
                        !.finalFare = FareFor(RateOf(t), DistanceKm(track), rides[t].minutes)]]
      BY <1>4 DEF Meter
    <2> DEFINE distance == DistanceKm(track)
               fare == FareFor(RateOf(t), distance, rides[t].minutes)
    <2>1. rides' = [rides EXCEPT ![t] = [rides[t] EXCEPT !.phase = "completed", !.distance = distance,
                                                         !.finalFare = fare]]
      BY <2>0
    <2>2. distance \in Nat
      BY DistanceNat DEF PositionInv
    <2>3. RateOf(t) \in Rates
      <3>1. quotes[t].rule \in DOMAIN rules
        BY <1>4 DEF Meter, TariffInv, RideOK, QuoteOK
      <3>2. rules[quotes[t].rule] \in Rule
        BY <3>1 DEF Shape
      <3> QED BY <3>2 DEF RateOf, Rule
    <2> HIDE DEF distance
    <2>4. fare \in Nat
      BY <1>1, <2>2, <2>3, FareNat DEF Ride
    <2> HIDE DEF fare
    <2>5. [rides[t] EXCEPT !.phase = "completed", !.distance = distance, !.finalFare = fare] \in Ride
      BY <1>1, <2>2, <2>4 DEF Ride
    <2> QED BY <2>1, <2>5 DEF RideTypes
  <1>5. CASE Die
    <2>1. \A t \in Requests : [rides[t] EXCEPT !.phase = "riding", !.minutes = 0] \in Ride
      BY <1>1 DEF Ride
    <2> QED BY <1>1, <1>5, <2>1 DEF Die, RideTypes
  <1>6. CASE UNCHANGED rides
    BY <1>6 DEF RideTypes
  <1> QED
    BY <1>2, <1>3, <1>4, <1>5, <1>6
    DEF MeteringNext, meteringVars, Take, Upsert, InsertPing

LEMMA RideTypesHold == MeteringSpec => []RideTypes
  <1>1. MeteringInit => RideTypes
    BY DEF MeteringInit, RideTypes, Ride, NoRide
  <1> QED BY <1>1, RideTypesStep, TariffsHold, PositionsHold, PTL DEF MeteringSpec

\* The tables and the requests in flight of a day hold what schema and code say.
\* (fare_rules, fare_schedules, trips, driver_locations)
THEOREM MeteringTypeCorrect == MeteringSpec => []MeteringTypeOK
  <1>1. Shape /\ TariffInv /\ PositionInv /\ RideTypes => MeteringTypeOK
    <2> SUFFICES ASSUME Shape, TariffInv, PositionInv, RideTypes PROVE MeteringTypeOK
      OBVIOUS
    <2>1. \A t \in Requests :
            quotes[t].phase \in {"priced", "saved"} /\ quotes[t].category # "FORANEO"
              => quotes[t].rule \in DOMAIN rules
      BY DEF TariffInv, QuoteOK
    <2>2. \A i \in DOMAIN taken : taken[i] \in Ping
      BY DEF PositionInv
    <2>3. location \subseteq Ping /\ posted \subseteq Ping
      BY <2>2 DEF PositionInv, Range
    <2> QED BY <2>1, <2>3 DEF Shape, PositionInv, RideTypes, MeteringTypeOK
  <1> QED BY <1>1, TariffsHold, PositionsHold, RideTypesHold, PTL

\* A ride is completed by its meter only.
LEMMA OnlyMeter ==
  ASSUME Shape, RideTypes, NEW t \in Requests, rides[t].phase = "completing",
         rides'[t].phase = "completed", MeteringNext
  PROVE  Meter(t)
  <1>1. \A u \in Requests : rides[u] \in Ride
    BY DEF RideTypes
  <1>2. CASE UNCHANGED rides
    BY <1>2
  <1>3. CASE Die
    <2>1. rides'[t] = [rides[t] EXCEPT !.phase = "riding", !.minutes = 0]
      BY <1>3 DEF Die
    <2> QED BY <1>1, <2>1 DEF Ride
  <1>4. ASSUME NEW u \in Requests, StartRide(u) \/ LoadRide(u) \/ Meter(u)
        PROVE  Meter(t)
    <2>1. u = t
      BY <1>4 DEF StartRide, LoadRide, Meter, RideTypes
    <2>2. ~StartRide(t)
      BY DEF StartRide
    <2>3. ~LoadRide(t)
      BY DEF LoadRide
    <2> QED BY <1>4, <2>1, <2>2, <2>3
  <1> QED BY <1>2, <1>3, <1>4 DEF MeteringNext, Take, Upsert, InsertPing

\* However late, often and disorderly the positions of a ride arrive, and however
\* far the phone's clock is from the server's: once they are there, the passenger is
\* charged the way between them, if that clock was not set back.
\* (GpsController.ping, computeActualTrip)
THEOREM MeterHolds == MeteringSpec => MeterIsRight
  <1> DEFINE Right(t) ==
               LET ride == {i \in DOMAIN taken : taken[i].at \in rides[t].startedAt..now} IN
               /\ rides[t].phase = "completing" /\ rides'[t].phase = "completed"
               /\ ClockNotSetBack
               /\ Cardinality(ride) >= 2
               /\ \A i \in ride : taken[i] \in Range(history)
               => rides'[t].distance =
                    MapThenSumSet(LAMBDA i : Gap(taken[i].pos, taken[i+1].pos),
                                  {i \in ride : i + 1 \in ride})
  <1>1. ASSUME Shape, RideTypes, PositionInv, MeteringNext, NEW t \in Requests
        PROVE  Right(t)
    <2> DEFINE startedAt == rides[t].startedAt
               ride == {i \in DOMAIN taken : taken[i].at \in startedAt..now}
    <2> SUFFICES ASSUME rides[t].phase = "completing", rides'[t].phase = "completed", ClockNotSetBack,
                        Cardinality(ride) >= 2, \A i \in ride : taken[i] \in Range(history)
                 PROVE  rides'[t].distance =
                          MapThenSumSet(LAMBDA i : Gap(taken[i].pos, taken[i+1].pos),
                                        {i \in ride : i + 1 \in ride})
      OBVIOUS
    <2>1. rides[t] \in Ride /\ startedAt \in Nat /\ now \in Nat
      BY <1>1 DEF RideTypes, Ride, Shape
    <2>2. Meter(t)
      BY <1>1, OnlyMeter
    <2>3. PICK track \in Tracks(startedAt) :
            rides' = [rides EXCEPT ![t] = [rides[t] EXCEPT
                        !.phase = "completed", !.distance = DistanceKm(track),
                        !.finalFare = FareFor(RateOf(t), DistanceKm(track), rides[t].minutes)]]
      BY <2>2 DEF Meter
    <2>4. rides'[t].distance = DistanceKm(track)
      <3> DEFINE d == DistanceKm(track)
                 fare == FareFor(RateOf(t), d, rides[t].minutes)
      <3>1. rides'[t] = [rides[t] EXCEPT !.phase = "completed", !.distance = d, !.finalFare = fare]
        BY <1>1, <2>3 DEF RideTypes
      <3> HIDE DEF d, fare
      <3>2. rides'[t].distance = d
        BY <2>1, <3>1 DEF Ride
      <3> QED BY <3>2 DEF d
    <2> HIDE DEF startedAt
    <2> QED BY <1>1, <2>1, <2>4, RideMeasured
  <1>2. Shape /\ RideTypes /\ PositionInv /\ [MeteringNext]_meteringVars =>
          [\A t \in Requests : Right(t)]_rides
    <2> HIDE DEF Right
    <2> QED BY <1>1 DEF meteringVars
  <1> QED BY <1>2, TariffsHold, RideTypesHold, PositionsHold, PTL DEF MeteringSpec, MeterIsRight
=============================================================================
