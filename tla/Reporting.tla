------------------------------ MODULE Reporting -----------------------------
(***************************************************************************)
(* A driver's phone reports its position at the configured interval, and   *)
(* every report passes the rate limit AppModule puts before all routes.    *)
(* The positions that get through are what the dispatch looks for; what    *)
(* the network and the two writes of a ping do to them is in Metering.     *)
(* The unit of time is the interval.                                       *)
(***************************************************************************)
EXTENDS Integers, FiniteSets

CONSTANTS
  Window,      \* ThrottlerModule: ttl
  Limit,       \* ThrottlerModule: limit
  Freshness,   \* how old a position the dispatch still takes: two minutes
  LastInstant  \* bound: the clock stops

VARIABLES
  now,
  phone,     \* since when the phone has been on
  reported,  \* the phone's last report
  hits,      \* reports the guard let through, as the instants of them
  location   \* table driver_locations: recorded_at of the row of the driver

reportingVars == <<now, phone, reported, hits, location>>

Never == -1

\* ThrottlerGuard, as AppModule configures it: so many requests of a client to
\* a route within the window.
LetThrough == Cardinality({hit \in hits : now < hit + Window}) < Limit

\* POST /drivers/{id}/locations: a report let through becomes the last known
\* position, any other is answered 429 and nothing is kept of it.
Report ==
  /\ phone # Never /\ reported < now
  /\ reported' = now
  /\ hits' = IF LetThrough THEN hits \cup {now} ELSE hits
  /\ location' = IF LetThrough THEN now ELSE location
  /\ UNCHANGED <<now, phone>>

\* What the eligibility query asks of the position of a driver.
Reachable == location # Never /\ now < location + Freshness

\* The phone goes on and is not turned off in this instance.
TurnOn ==
  /\ phone = Never
  /\ phone' = now
  /\ UNCHANGED <<now, reported, hits, location>>

\* An interval passes; a phone that is on has reported in it.
Tick ==
  /\ now < LastInstant
  /\ phone # Never => reported = now
  /\ now' = now + 1
  /\ UNCHANGED <<phone, reported, hits, location>>

ReportingInit ==
  /\ now = 0 /\ phone = Never /\ reported = Never /\ hits = {} /\ location = Never

ReportingNext == Report \/ TurnOn \/ Tick

ReportingSpec == ReportingInit /\ [][ReportingNext]_reportingVars
-----------------------------------------------------------------------------
\* Only a phone that is off or an application that is closed makes the dispatch
\* pass over a driver for its position.  (ping, getEligibleCandidates)
OnlySilenceHides == phone # Never /\ reported = now => Reachable
=============================================================================
