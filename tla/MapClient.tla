------------------------------- MODULE MapClient -------------------------------
(***************************************************************************)
(* The Phase 0 map client (clients/phase0-map/index.html): an operator     *)
(* picks a home, a destination and an altitude, and asks the validation    *)
(* service (service.py) for a decision.  The handlers run to completion;   *)
(* only submit() waits, and a click on the map gives the button back while *)
(* it does, so that several requests may be under way and their answers    *)
(* may come in any order.                                                  *)
(*                                                                         *)
(* Places are numbers on a line, in the centimetres a mission is rounded   *)
(* to, so that the conversions to NED and back are exact: whatever goes    *)
(* wrong here is not the geodesy.                                          *)
(***************************************************************************)
EXTENDS Integers, Sequences

CONSTANTS
    Places,       \* where the operator can click
    Altitudes,    \* what the slider can say
    Nothing,      \* null
    MaxIds,       \* bound: number of mission ids drawn
    MaxRequests   \* bound: number of requests sent

ASSUME PlacesAssumption == Places \subseteq Int /\ Nothing \notin Places
ASSUME AltitudesAssumption == Altitudes # {}
ASSUME BoundsAssumption == MaxIds \in Nat /\ MaxRequests \in Nat

VARIABLES
    home, dest, altitude,
    missionId,    \* UUIDs are numbered in the order they are drawn
    send,         \* the button "Validate mission" is enabled
    sent,         \* every mission sent, in order
    pending,      \* the requests that submit() still waits for
    result,       \* what the panel shows: [kind, mission]
    normalized    \* the dashed track: [id, origin, goto], or Nothing

vars == <<home, dest, altitude, missionId, send, sent, pending, result, normalized>>

toNED(origin, point) == point - origin
toWGS84(origin, ned) == origin + ned

\* What buildMission returns; it throws unless both points are set.
Mission == [id |-> missionId, ned |-> toNED(home, dest), altitude |-> altitude]

Missions == [id : Nat, ned : Int, altitude : Altitudes]

Complete == home # Nothing /\ dest # Nothing

Kinds == {"empty", "unreachable", "malformed", "decision"}

TypeOK ==
    /\ home \in Places \cup {Nothing} /\ dest \in Places \cup {Nothing}
    /\ altitude \in Altitudes
    /\ missionId \in Nat
    /\ send \in BOOLEAN
    /\ sent \in Seq(Missions)
    /\ pending \subseteq DOMAIN sent
    /\ result \in [kind : Kinds, mission : {Nothing} \cup Missions]
    /\ normalized \in {Nothing} \cup [id : Nat, origin : Places, goto : Int]

Empty == [kind |-> "empty", mission |-> Nothing]

Init ==
    /\ home = Nothing /\ dest = Nothing
    /\ altitude \in Altitudes
    /\ missionId = 0
    /\ send = FALSE
    /\ sent = <<>> /\ pending = {}
    /\ result = Empty
    /\ normalized = Nothing

-----------------------------------------------------------------------------
(* The operator. *)

\* crypto.randomUUID().
NewId == missionId < MaxIds /\ missionId' = missionId + 1

\* The first click on the map.
SetHome ==
    /\ home = Nothing
    /\ home' \in Places
    /\ UNCHANGED <<dest, altitude, missionId, send, sent, pending, result, normalized>>

\* Every other click.  A decision that is shown stays, and so does its track.
SetDestination ==
    /\ home # Nothing
    /\ dest' \in Places
    /\ NewId
    /\ send' = TRUE
    /\ UNCHANGED <<home, altitude, sent, pending, result, normalized>>

\* Mutant: the slider keeps the id.
SlideKeepingId ==
    /\ altitude' \in Altitudes
    /\ UNCHANGED <<home, dest, missionId, send, sent, pending, result, normalized>>

Slide ==
    /\ altitude' \in Altitudes
    /\ NewId
    /\ UNCHANGED <<home, dest, send, sent, pending, result, normalized>>

Reset ==
    /\ home' = Nothing /\ dest' = Nothing
    /\ NewId
    /\ send' = FALSE
    /\ result' = Empty
    /\ normalized' = Nothing
    /\ UNCHANGED <<altitude, sent, pending>>

\* Mutant: a request counts as under way before buildMission can throw.
SubmitCountingFirst ==
    /\ send
    /\ Len(sent) < MaxRequests
    /\ pending' = pending \cup {Len(sent) + 1}
    /\ IF Complete
       THEN sent' = Append(sent, Mission) /\ send' = FALSE /\ UNCHANGED result
       ELSE /\ result' = [kind |-> "unreachable", mission |-> Nothing]
            /\ UNCHANGED <<send, sent>>
    /\ UNCHANGED <<home, dest, altitude, missionId, normalized>>

\* submit() up to its await.  buildMission runs inside the try: without a
\* destination its TypeError is handled like a service that does not answer.
Submit ==
    /\ send
    /\ IF Complete
       THEN /\ Len(sent) < MaxRequests
            /\ sent' = Append(sent, Mission)
            /\ pending' = pending \cup {Len(sent) + 1}
            /\ send' = FALSE
            /\ UNCHANGED result
       ELSE /\ result' = [kind |-> "unreachable", mission |-> Nothing]
            /\ UNCHANGED <<send, sent, pending>>
    /\ UNCHANGED <<home, dest, altitude, missionId, normalized>>

-----------------------------------------------------------------------------
(* The rest of submit(), for request r. *)

Resume(r, kind) ==
    /\ r \in pending
    /\ pending' = pending \ {r}
    /\ result' = [kind |-> kind, mission |-> sent[r]]
    /\ UNCHANGED <<home, dest, altitude, missionId, sent>>

\* Mutant: the early return forgets the button.
NoAnswerForgetful(r) ==
    /\ Resume(r, "unreachable")
    /\ UNCHANGED <<send, normalized>>

\* fetch or json() fails.
NoAnswer(r) ==
    /\ Resume(r, "unreachable")
    /\ send' = TRUE
    /\ UNCHANGED normalized

\* The service reports an error; render returns before it draws.
Malformed(r) ==
    /\ Resume(r, "malformed")
    /\ send' = TRUE
    /\ UNCHANGED normalized

\* Mutant: the track is labelled as the current mission's.
DecisionRelabelled(r) ==
    /\ Resume(r, "decision")
    /\ IF home # Nothing
       THEN /\ normalized' = [id |-> missionId, origin |-> home,
                              goto |-> toWGS84(home, sent[r].ned)]
            /\ send' = TRUE
       ELSE UNCHANGED <<send, normalized>>

\* A decision on the mission that was sent.  drawNormalized takes the home of the
\* moment, and without one throws before the button is given back.
Decision(r) ==
    /\ Resume(r, "decision")
    /\ IF home # Nothing
       THEN /\ normalized' = [id |-> sent[r].id, origin |-> home,
                              goto |-> toWGS84(home, sent[r].ned)]
            /\ send' = TRUE
       ELSE UNCHANGED <<send, normalized>>

Answer == \E r \in pending : NoAnswer(r) \/ Malformed(r) \/ Decision(r)

Next == SetHome \/ SetDestination \/ Slide \/ Reset \/ Submit \/ Answer

Spec == Init /\ [][Next]_vars

-----------------------------------------------------------------------------
(* Properties. *)

\* "Mission IDs are stable for retries of the same proposal, but rotate whenever the
\* operator changes the proposal": two requests with one id sent the same mission.
IdNamesOneMission ==
    \A i, j \in DOMAIN sent : sent[i].id = sent[j].id => sent[i] = sent[j]

\* In whatever order answers come, and whatever was moved or reset meanwhile: a
\* decision, or a track, that carries the current id is about what is on the map.
CurrentIdIsCurrent ==
    /\ result.kind = "decision" /\ result.mission.id = missionId =>
          Complete /\ result.mission = Mission
    /\ normalized # Nothing /\ normalized.id = missionId =>
          Complete /\ normalized.origin = home /\ normalized.goto = dest

\* A proposal can always be submitted, now or once a request that is under way ends.
NeverStuck == dest # Nothing /\ ~send => pending # {}

\* "Divergence between the two lines means the conversion is wrong": as the
\* conversion is right, two lines that are drawn are one.
DivergenceIsConversion ==
    normalized # Nothing /\ Complete => normalized.origin = home /\ normalized.goto = dest

\* "The validation service did not answer at that address": it was asked.
UnreachableWasAsked ==
    result.kind = "unreachable" => \E i \in DOMAIN sent : result.mission = sent[i]
=============================================================================
