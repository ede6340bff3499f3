--------------------------- MODULE PaymentLedger ----------------------------
(***************************************************************************)
(* What confirming payments promises, whoever confirms them and however    *)
(* the requests interleave or die: a trip is charged at most once, and the *)
(* charge, the driver's credited earnings and the commission the driver    *)
(* owes for it appear together or not at all.                              *)
(***************************************************************************)
EXTENDS Integers

CONSTANTS
  Trips, Drivers,
  Amounts,          \* what a trip may cost
  CommissionOf(_)   \* the part of a fare the driver owes

VARIABLES
  charges,  \* set of [trip, fare]: what each trip was charged
  credit,   \* credit[d]: what driver d has collected
  debt      \* debt[d]: what driver d owes of it

ledgerVars == <<charges, credit, debt>>

Init ==
  /\ charges = {}
  /\ credit = [d \in Drivers |-> 0]
  /\ debt = [d \in Drivers |-> 0]

\* Driver d collects the fare of trip t, which nobody has been charged for.
Charge(t, d, fare) ==
  /\ \A c \in charges : c.trip # t
  /\ charges' = charges \cup {[trip |-> t, fare |-> fare]}
  /\ credit' = [credit EXCEPT ![d] = @ + fare]
  /\ debt' = [debt EXCEPT ![d] = @ + CommissionOf(fare)]

Next == \E t \in Trips, d \in Drivers, fare \in Amounts : Charge(t, d, fare)

Spec == Init /\ [][Next]_ledgerVars
=============================================================================
