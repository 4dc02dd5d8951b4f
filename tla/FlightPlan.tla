------------------------------ MODULE FlightPlan ------------------------------
(***************************************************************************)
(* The waits of a run of MavsdkExecutor.execute, in the order in which it  *)
(* comes to them: the vocabulary of Flight, and of the flights that        *)
(* AcceptanceHarness starts.                                               *)
(***************************************************************************)
EXTENDS Integers

\* The calls have no timer, the other waits have one.  "arm" includes the call
\* that sets the takeoff altitude.
Calls == {"connect", "arm", "takeoff", "land"}
Timed == {"begin", "connection", "home", "armed", "postHome", "climb", "hold", "descent",
          "recovery"}

\* What may come after a wait that ends well.
Follows == [begin |-> {"connect"}, connect |-> {"connection"}, connection |-> {"home"},
            home |-> {"arm"}, arm |-> {"armed"}, armed |-> {"postHome"},
            postHome |-> {"takeoff"}, takeoff |-> {"climb"},
            climb |-> {"hold", "land"}, hold |-> {"hold", "land"},
            land |-> {"descent"}, descent |-> {"landed"}]

\* Where an exception leads: from the arm call on to the recovery.
Leaves(w) ==
    IF w \in {"connect", "connection", "home"} THEN {"closing"}
    ELSE IF w = "arm" THEN {"closing", "recovery"} ELSE {"recovery"}

\* How a recovery may end.
Cleanups == {"landing_confirmed", "disarm_accepted", "failed"}
=============================================================================
