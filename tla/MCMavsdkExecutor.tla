--------------------------- MODULE MCMavsdkExecutor ---------------------------
(* Small instances of MavsdkExecutor for TLC. *)
EXTENDS MavsdkExecutorProofs

\* The shortest flight, a flight with a hold, an approved mission this executor
\* cannot translate, and one the policy rejects.
MCMissions == {<<"takeoff", "land">>, <<"takeoff", "hold", "land">>,
               <<"takeoff", "return_home">>, <<"hold", "land">>}
MCApproved == MCMissions \ {<<"hold", "land">>}

\* One flight only, for the liveness runs and for the faults.
OneMission == {<<"takeoff", "land">>}

\* A telemetry stream that tells the truth, and one that may hold no value.
Honest    == {}
Invalid   == {"invalid"}
=============================================================================
