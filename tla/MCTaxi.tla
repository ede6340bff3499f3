------------------------------- MODULE MCTaxi -------------------------------
(***************************************************************************)
(* Instances of Taxi for TLC: what each slot may be asked for.             *)
(***************************************************************************)
EXTENDS Taxi, TLC

CONSTANTS d1, d2, t1, t2, s1, s2

AllOps == {"create", "review", "arrive", "start", "complete", "pay", "cancel",
           "rate", "dispatch", "accept", "reject", "manual", "expire"}

\* Drivers change status through their trips alone.
NoShifts == [d \in Drivers |-> {}]

\* One of them also pauses and comes back, whatever it is doing.
OneShifts == [NoShifts EXCEPT ![d1] = {"AVAILABLE", "PAUSED"}]

\* One request, or cron pass, at a time.
OneAtATime == s1 :> AllOps

\* Rides of either kind while the process keeps dying.
CrashedRides == s1 :> {"create", "review", "arrive", "start", "complete", "pay", "cancel",
                       "accept", "manual", "shift"}

\* Rides from the request to the payment, dispatched automatically.
Rides == s1 :> {"create", "arrive", "start", "complete", "pay", "dispatch", "accept",
                "expire"}

\* One slot takes a trip to its payment; the other repeats the last requests, or
\* rates it.
PaymentRace ==
  s1 :> {"create", "manual", "arrive", "start", "complete", "pay"} @@
  s2 :> {"complete", "pay", "rate"}

\* Clients dispatch, answer and cancel while passes of the expiry job run, one
\* or two at a time: nothing keeps the timer from starting a pass while another
\* is under way.
ExpiryJob ==
  s1 :> {"create", "dispatch", "reject", "cancel", "expire"} @@ s2 :> {"expire"}

\* A cancellation against the driver who starts the ride.
CancelRace ==
  s1 :> {"create", "manual", "arrive", "start"} @@ s2 :> {"cancel"}

\* A driver's answer against the expiry job.
AnswerRace == s1 :> {"create", "accept"} @@ s2 :> {"expire"}

\* A client dispatches a trip that its creation is dispatching.
DispatchRace == s1 :> {"create"} @@ s2 :> {"dispatch"}

\* As many offers as these instances ever make: by OfferedOncePerHandler, one of
\* the trip to each driver by each slot.
LastOffer == 4

PaymentSpec == Spec /\ HandlerFairness

ExpirySpec == Spec /\ HandlerFairness /\ TimerFairness(LastOffer)

EveryOfferAnswered == \A i \in 1..LastOffer : OfferAnswered(i)
=============================================================================
