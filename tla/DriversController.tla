-------------------------- MODULE DriversController -------------------------
(***************************************************************************)
(* DriversController: a driver sets a status of its own.  Nothing asks     *)
(* what the driver is doing; entering AVAILABLE restarts the availability  *)
(* clock, which the score of the dispatch rewards.                         *)
(***************************************************************************)
EXTENDS TaxiStore

\* Mutant of UpdateStatus: every change of status restarts the clock.
UpdateClockToo(s, d) ==
  /\ Accepts(s, "shift")
  /\ \E status \in Shifts[d] :
       Become(s, [NoRequest EXCEPT
                    !.todo = <<"compareProfile", "writeProfile">>, !.driver = d,
                    !.profile = [status |-> status, since |-> Later(availableSince[d])]])
  /\ UNCHANGED tables

\* PATCH /drivers/{id}/status, up to the save: the profile is loaded, and the
\* clock of the copy restarted if the copy was not AVAILABLE.
UpdateStatus(s, d) ==
  /\ Accepts(s, "shift")
  /\ \E status \in Shifts[d] :
       LET becomingAvailable == status = "AVAILABLE" /\ driverStatus[d] # "AVAILABLE" IN
       Become(s, [NoRequest EXCEPT
                    !.todo = <<"compareProfile", "writeProfile">>, !.driver = d,
                    !.profile = [status |-> status,
                                 since  |-> IF becomingAvailable THEN Later(availableSince[d])
                                                                 ELSE availableSince[d]]])
  /\ UNCHANGED tables

\* drivers.save, first half: read the row and keep the columns that differ.
CompareProfile(s) ==
  LET r == req[s]
      d == r.driver
  IN
  /\ At(s, "compareProfile")
  /\ Become(s, [r EXCEPT
                  !.todo = Tail(@),
                  !.profile = [status |-> IF @.status = driverStatus[d] THEN None ELSE @.status,
                               since  |-> IF @.since = availableSince[d] THEN Untouched
                                                                         ELSE @.since]])
  /\ UNCHANGED tables

\* drivers.save, second half: update them.
WriteProfile(s) ==
  LET r == req[s] IN
  /\ At(s, "writeProfile")
  /\ driverStatus' = [driverStatus EXCEPT
       ![r.driver] = IF r.profile.status = None THEN @ ELSE r.profile.status]
  /\ availableSince' = [availableSince EXCEPT
       ![r.driver] = IF r.profile.since = Untouched THEN @ ELSE r.profile.since]
  /\ Proceed(s)
  /\ UNCHANGED <<trips, offers, withVehicle, ledger, events, audits, ratings>>
=============================================================================
