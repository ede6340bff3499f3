----------------------------- MODULE TripStates -----------------------------
(***************************************************************************)
(* The enumerations the taxi backend stores in its tables, and the named   *)
(* groups of trip states its services test against.                        *)
(***************************************************************************)

\* No value: a null column, or a trip id that has no row yet.
None == "NONE"

CANCELLED_STATES ==
  {"CANCELLED_BY_PASSENGER", "CANCELLED_BY_DRIVER", "CANCELLED_BY_SYSTEM"}

TripStatus ==
  {"REQUESTED", "PENDING_REVIEW", "QUOTED", "SEARCHING_DRIVER",
   "DRIVER_ASSIGNED", "DRIVER_EN_ROUTE", "DRIVER_ARRIVED",
   "TRIP_STARTED", "TRIP_IN_PROGRESS", "TRIP_COMPLETED",
   "PAYMENT_PENDING", "PAYMENT_CONFIRMED", "CLOSED",
   "NO_SHOW", "DISPUTED"} \cup CANCELLED_STATES

ServiceCategory == {"NORMAL", "NOCTURNO", "FORANEO"}

DriverStatus ==
  {"OFFLINE", "AVAILABLE", "ON_SHIFT", "BUSY", "PAUSED", "BLOCKED", "EMERGENCY"}

\* A driver is on the way or waiting at the origin.
ASSIGNED_STATES == {"DRIVER_ASSIGNED", "DRIVER_EN_ROUTE", "DRIVER_ARRIVED"}

\* A driver may still be looked for.
ASSIGNABLE_STATES == {"QUOTED", "SEARCHING_DRIVER"}

\* What TripsService.cancel accepts.
CANCELLABLE_STATES ==
  {"REQUESTED", "PENDING_REVIEW"} \cup ASSIGNABLE_STATES \cup ASSIGNED_STATES

\* From the assignment on, the trip is somebody's.
DRIVEN_STATES ==
  ASSIGNED_STATES \cup {"TRIP_IN_PROGRESS", "PAYMENT_PENDING", "PAYMENT_CONFIRMED", "CLOSED"}
=============================================================================
