----------------------------- MODULE MissionModel -----------------------------
(***************************************************************************)
(* The mission vocabulary (src/nightjar/models.py) and the two shapes of a *)
(* mission the components rely on.  A mission is here the sequence of the  *)
(* types of its actions.                                                   *)
(***************************************************************************)
EXTENDS Sequences, Naturals

ActionTypes == {"takeoff", "hold", "goto", "return_home", "land"}

\* Actions the MAVSDK executor can translate; anything else is refused up front.
Supported(m) == \A i \in DOMAIN m : m[i] \in {"takeoff", "hold", "land"}

\* What the policy engine leaves of a mission without goto and return_home.
TakeoffHoldLand(m) ==
    /\ Len(m) >= 2
    /\ m[1] = "takeoff"
    /\ m[Len(m)] = "land"
    /\ \A i \in 2..(Len(m) - 1) : m[i] = "hold"
=============================================================================
