--------------------------------- MODULE Flight ---------------------------------
(***************************************************************************)
(* What one run of MavsdkExecutor.execute promises to the vehicle and to   *)
(* its caller, without the link, the telemetry and the audit file between  *)
(* them: which commands it sends in which order, what becomes of it when   *)
(* something fails on the way, and what it may report.                     *)
(***************************************************************************)
EXTENDS FlightPlan

CONSTANTS Errors, Interruptible

VARIABLES
    wait,     \* what the run waits for; "landed", "closing", "none", or "gone"
    calls,    \* the commands it has sent
    cause,    \* what ended its mission, or "none"
    status    \* what it says of its recovery

vars == <<wait, calls, cause, status>>

Init == wait = "begin" /\ calls = {} /\ cause = "none" /\ status = "none"

Blames == cause' \in Errors \ {"none"}

\* Not approved, not paid for, or no system to fly with.
Refuse ==
    /\ wait = "begin" /\ wait' = "none" /\ Blames
    /\ UNCHANGED <<calls, status>>

Send(c) ==
    /\ wait = c /\ c \in {"arm", "land"}
    /\ calls' = calls \cup {c}
    /\ UNCHANGED <<wait, cause, status>>

\* A wait ends well; the wait for home after arming is followed by the takeoff call.
Arrive ==
    /\ wait \in DOMAIN Follows /\ wait' \in Follows[wait]
    /\ wait \in {"arm", "takeoff", "land"} => wait \in calls
    /\ calls' = calls \cup (IF wait' = "takeoff" THEN {"takeoff"} ELSE {})
    /\ UNCHANGED <<cause, status>>

\* A wait ends badly: the run recovers from its arm call on, and only then.
Raise ==
    /\ wait \in DOMAIN Follows \ {"begin"} /\ wait' \in Leaves(wait) /\ Blames
    /\ IF "arm" \in calls THEN wait' = "recovery" /\ UNCHANGED status
                          ELSE wait' = "closing" /\ status' = "not_required"
    /\ UNCHANGED calls

\* A recovery lands what was sent up, and disarms only what was armed and no more.
Clean(c) ==
    /\ wait = "recovery"
    /\ c = "land" => "disarm" \notin calls
    /\ c = "disarm" => calls = {"arm"}
    /\ calls' = calls \cup {c}
    /\ UNCHANGED <<wait, cause, status>>

\* It ends in nothing it has not sent, and not before it has sent a land after a takeoff.
Settle ==
    /\ wait = "recovery" /\ wait' = "closing"
    /\ status' \in Cleanups
    /\ status' = "disarm_accepted" => "disarm" \in calls
    /\ status' = "landing_confirmed" \/ "takeoff" \in calls => "land" \in calls
    /\ UNCHANGED <<calls, cause>>

\* The run ends; a cancellation may still arrive after the landing.
Close ==
    /\ \/ wait = "closing" /\ UNCHANGED cause
       \/ wait = "landed" /\ cause' \in {cause, "CancelledError"}
    /\ wait' = "none"
    /\ UNCHANGED <<calls, status>>

\* A KeyboardInterrupt inside the event loop keeps no promise on what is still due.
Interrupted ==
    /\ Interruptible
    /\ \/ wait \in {"recovery", "landed", "closing"} /\ wait' = "none"
          /\ Blames /\ UNCHANGED status
       \/ wait = "landed" /\ wait' = "closing" /\ Blames /\ status' = "not_required"
       \/ wait = "recovery" /\ wait' = "closing" /\ status' = "failed" /\ UNCHANGED cause
    /\ UNCHANGED calls

Die == wait' = "gone" /\ UNCHANGED <<calls, cause, status>>

Next ==
    \/ Refuse \/ Arrive \/ Raise \/ Settle \/ Close \/ Interrupted \/ Die
    \/ \E c \in {"arm", "land", "disarm"} : Send(c) \/ Clean(c)

Spec == Init /\ [][Next]_vars

-----------------------------------------------------------------------------
\* A disarm is the last command and follows nothing but an arm; a run that ends
\* without an error has flown and landed, one that ends with one has sent a land
\* after its takeoff, unless a KeyboardInterrupt cut it short.
Promise ==
    /\ "takeoff" \in calls => "arm" \in calls
    /\ "disarm" \in calls => calls = {"arm", "disarm"}
    /\ wait = "none" /\ cause = "none" => calls = {"arm", "takeoff", "land"}
    /\ wait = "none" /\ "takeoff" \in calls /\ ~Interruptible => "land" \in calls
=============================================================================
