-------------------------------- MODULE Policy --------------------------------
(***************************************************************************)
(* PolicyEngine.evaluate (src/nightjar/policy.py): one pass over a mission *)
(* that the schema (models.py) has accepted, one action of the mission per *)
(* step, collecting the reasons to reject it.  It is the one decision the  *)
(* CLI, the validation service and the MAVSDK executor all ask for.        *)
(*                                                                         *)
(* Altitudes, durations and distances are naturals in units of the model's *)
(* choice, and hypot is the constant Distance, so that the sums are exact  *)
(* where the code's floats round.                                          *)
(***************************************************************************)
EXTENDS MissionModel, FiniteSetsExt

CONSTANTS
    Missions,          \* the missions to evaluate, all accepted by the schema
    Altitudes,         \* altitude_m of a takeoff or a goto
    Durations,         \* duration_seconds of a hold
    Places,            \* (north_m, east_m) of a goto
    Home,              \* (0, 0), where the mission starts
    Distance(_, _),    \* Distance(p, q): hypot of the difference of two places
    MaxAltitude, MaxDistance, MaxHold, MaxActions,
    MaxTotalHold, MaxTotalDistance, MaxGotos

\* One record per class of models.py: MissionAction.
MissionAction ==
    [type : {"takeoff"}, altitude : Altitudes]
      \cup [type : {"hold"}, duration : Durations]
      \cup [type : {"goto"}, place : Places, altitude : Altitudes]
      \cup [type : {"return_home", "land"}]

\* What Mission and requires_safe_termination accept, whatever the length bound.
Schema(m) ==
    /\ m \in Seq(MissionAction)
    /\ Len(m) >= 1
    /\ m[Len(m)].type \in {"return_home", "land"}

Types(m) == [i \in DOMAIN m |-> m[i].type]

ASSUME MissionsAssumption == \A m \in Missions : Schema(m)
ASSUME DataAssumption ==
    /\ Altitudes \subseteq Nat /\ Durations \subseteq Nat
    /\ Home \in Places
    /\ \A p, q \in Places : Distance(p, q) \in Nat
    /\ \A p \in Places : Distance(p, p) = 0
ASSUME LimitsAssumption ==
    {MaxAltitude, MaxDistance, MaxHold, MaxActions, MaxTotalHold, MaxTotalDistance,
     MaxGotos} \subseteq Nat

VARIABLES
    mission,
    index,            \* number of actions the loop has passed
    state,            \* the FlightState after them
    total_hold, total_distance, goto_actions,
    current,          \* current_north_m, current_east_m
    reasons,          \* the reasons collected: <<what, action number>>
    verdict           \* "pending", then the approved of the PolicyDecision

vars == <<mission, index, state, total_hold, total_distance, goto_actions, current,
          reasons, verdict>>

FlightStates == {"disarmed", "airborne", "returning", "landed"}

\* Kinds of reasons that name an action, and those about the whole mission.
ActionReasons == {"state", "altitude", "duration", "distance", "after_landing",
                  "after_return_home"}
MissionReasons == {"actions", "total_hold", "total_distance", "gotos", "first_action"}

TypeOK ==
    /\ Schema(mission)
    /\ index \in 0..Len(mission)
    /\ state \in FlightStates
    /\ total_hold \in Nat /\ total_distance \in Nat /\ goto_actions \in Nat
    /\ current \in Places
    /\ reasons \subseteq (ActionReasons \X (1..Len(mission))) \cup (MissionReasons \X {0})
    /\ verdict \in {"pending", "approved", "rejected"}

\* The reason itself if the condition holds, nothing otherwise.
When(condition, reason) == IF condition THEN {reason} ELSE {}

Init ==
    /\ mission \in Missions
    /\ index = 0
    /\ state = "disarmed"
    /\ total_hold = 0 /\ total_distance = 0 /\ goto_actions = 0
    /\ current = Home
    /\ reasons = When(Len(mission) > MaxActions, <<"actions", 0>>)
    /\ verdict = "pending"

-----------------------------------------------------------------------------
(* One turn of the loop. *)

\* The action the turn is about.
Here == mission[index + 1]

\* Mutant: nothing may follow return_home, not even land.
RemainingNothing(next) ==
    When(next \in {"returning", "landed"} /\ index + 1 < Len(mission),
         <<"after_return_home", index + 1>>)

\* The check at the end of the turn, on the state the action leads to.
Remaining(next) ==
    LET n    == index + 1
        rest == (n + 1)..Len(mission)
    IN  When(next = "landed" /\ rest # {}, <<"after_landing", n>>)
          \cup When(next = "returning" /\ \E i \in rest : mission[i].type # "land",
                    <<"after_return_home", n>>)

\* The turn of an action of the given type that leads to the state next.
Turn(type, next, found) ==
    /\ verdict = "pending"
    /\ index < Len(mission)
    /\ Here.type = type
    /\ index' = index + 1
    /\ state' = next
    /\ reasons' = reasons \cup found \cup Remaining(next)
    /\ UNCHANGED <<mission, verdict>>

\* Mutant: a takeoff is allowed in the air.
TakeoffAgain ==
    /\ Turn("takeoff", "airborne",
            When(Here.altitude > MaxAltitude, <<"altitude", index + 1>>))
    /\ UNCHANGED <<total_hold, total_distance, goto_actions, current>>

Takeoff ==
    /\ Turn("takeoff", "airborne",
            When(state # "disarmed", <<"state", index + 1>>)
              \cup When(Here.altitude > MaxAltitude, <<"altitude", index + 1>>))
    /\ UNCHANGED <<total_hold, total_distance, goto_actions, current>>

Hold ==
    /\ Turn("hold", state,
            When(state # "airborne", <<"state", index + 1>>)
              \cup When(Here.duration > MaxHold, <<"duration", index + 1>>))
    /\ total_hold' = total_hold + Here.duration
    /\ UNCHANGED <<total_distance, goto_actions, current>>

Goto ==
    /\ Turn("goto", state,
            When(state # "airborne", <<"state", index + 1>>)
              \cup When(Here.altitude > MaxAltitude, <<"altitude", index + 1>>)
              \cup When(Distance(Home, Here.place) > MaxDistance, <<"distance", index + 1>>))
    /\ goto_actions' = goto_actions + 1
    /\ total_distance' = total_distance + Distance(current, Here.place)
    /\ current' = Here.place
    /\ UNCHANGED total_hold

\* Mutant: the way home is not flown.
ReturnHomeUncounted ==
    /\ Turn("return_home", "returning",
            When(state # "airborne", <<"state", index + 1>>))
    /\ current' = Home
    /\ UNCHANGED <<total_hold, total_distance, goto_actions>>

ReturnHome ==
    /\ Turn("return_home", "returning",
            When(state # "airborne", <<"state", index + 1>>))
    /\ total_distance' = total_distance + Distance(current, Home)
    /\ current' = Home
    /\ UNCHANGED <<total_hold, goto_actions>>

\* Mutant: landing leaves the state as it is.
LandAirborne ==
    /\ Turn("land", state,
            When(state \notin {"airborne", "returning"}, <<"state", index + 1>>))
    /\ UNCHANGED <<total_hold, total_distance, goto_actions, current>>

Land ==
    /\ Turn("land", "landed",
            When(state \notin {"airborne", "returning"}, <<"state", index + 1>>))
    /\ UNCHANGED <<total_hold, total_distance, goto_actions, current>>

\* The aggregate limits, the first action, and the decision.
Conclude ==
    /\ verdict = "pending" /\ index = Len(mission)
    /\ reasons' = reasons
         \cup When(total_hold > MaxTotalHold, <<"total_hold", 0>>)
         \cup When(total_distance > MaxTotalDistance, <<"total_distance", 0>>)
         \cup When(goto_actions > MaxGotos, <<"gotos", 0>>)
         \cup When(mission[1].type # "takeoff", <<"first_action", 0>>)
    /\ verdict' = IF reasons' = {} THEN "approved" ELSE "rejected"
    /\ UNCHANGED <<mission, index, state, total_hold, total_distance, goto_actions, current>>

Next == Takeoff \/ Hold \/ Goto \/ ReturnHome \/ Land \/ Conclude

Spec == Init /\ [][Next]_vars

-----------------------------------------------------------------------------
(* What a safe mission is, said of the whole mission at once. *)

Indices(type) == {i \in DOMAIN mission : mission[i].type = type}

\* One takeoff, first; one ending, last; a return_home only right before it.
SafeOrder ==
    /\ Indices("takeoff") = {1}
    /\ Indices("land") \subseteq {Len(mission)}
    /\ \A i \in Indices("return_home") :
          i = Len(mission) \/ (i = Len(mission) - 1 /\ mission[i + 1].type = "land")

\* No action by itself exceeds a limit.
SafeActions ==
    /\ \A i \in Indices("takeoff") \cup Indices("goto") : mission[i].altitude <= MaxAltitude
    /\ \A i \in Indices("hold") : mission[i].duration <= MaxHold
    /\ \A i \in Indices("goto") : Distance(Home, mission[i].place) <= MaxDistance

\* Where the vehicle is after the first i actions.
PlaceAfter(i) ==
    LET moves == {j \in 1..i : mission[j].type \in {"goto", "return_home"}}
    IN  IF moves = {} \/ mission[Max(moves)].type = "return_home"
        THEN Home ELSE mission[Max(moves)].place

\* No more actions than allowed.
SafeCounts ==
    /\ Len(mission) <= MaxActions
    /\ Cardinality(Indices("goto")) <= MaxGotos

\* The time each hold takes, and the way each action leads.
HoldTimes == [i \in Indices("hold") |-> mission[i].duration]
Legs == [i \in DOMAIN mission |-> Distance(PlaceAfter(i - 1), PlaceAfter(i))]

\* All actions together take no longer and lead no further than allowed.
SafeTotals ==
    /\ SumFunction(HoldTimes) <= MaxTotalHold
    /\ SumFunction(Legs) <= MaxTotalDistance

-----------------------------------------------------------------------------
(* Properties. *)

\* An approved mission has one takeoff, first, and one ending, last; none of its
\* actions exceeds a limit, and it has no more of them than allowed.
ApprovedIsSafe == verdict = "approved" => SafeOrder /\ SafeActions /\ SafeCounts

\* The sums the pass keeps are those of the whole flight: an approved mission
\* stays within the budgets of time and distance, the way home included.
ApprovedWithinTotals == verdict = "approved" => SafeTotals

\* Every reason the engine gives is one: it rejects no safe mission.
SafeIsApproved ==
    verdict = "rejected" => ~(SafeOrder /\ SafeActions /\ SafeCounts /\ SafeTotals)

\* The shape the MAVSDK executor's loop relies on, whose land is the only thing
\* that ends recovery_required: takeoff first, holds, one land, last.
ApprovedForExecutor ==
    verdict = "approved" /\ Supported(Types(mission)) => TakeoffHoldLand(Types(mission))
=============================================================================
