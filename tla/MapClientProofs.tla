---------------------------- MODULE MapClientProofs ----------------------------
(***************************************************************************)
(* Proofs about MapClient, for any places, altitudes and bounds.           *)
(***************************************************************************)
EXTENDS MapClient, TLAPS

\* There is no destination without a home.
PointsInv == dest # Nothing => home # Nothing

\* No id is newer than the current one, and the current one has named nothing but the
\* mission on the map.
IdInv ==
    /\ \A i \in DOMAIN sent :
          /\ sent[i].id <= missionId
          /\ sent[i].id = missionId => Complete /\ sent[i] = Mission
    /\ result.kind = "decision" => result.mission \in Missions /\ result.mission.id <= missionId
    /\ normalized # Nothing => normalized.id <= missionId

ClientInv ==
    TypeOK /\ PointsInv /\ IdInv /\ IdNamesOneMission /\ CurrentIdIsCurrent /\ NeverStuck

-----------------------------------------------------------------------------
(* Type correctness. *)

LEMMA MissionType == TypeOK /\ Complete => Mission \in Missions
  BY PlacesAssumption DEF TypeOK, Complete, Mission, Missions, toNED

\* A request that resumes leaves all but the button and the track of the right type.
LEMMA ResumeType ==
    ASSUME TypeOK, NEW r \in pending, NEW kind \in Kinds, Resume(r, kind)
    PROVE  /\ pending' \subseteq DOMAIN sent' /\ sent[r] \in Missions
           /\ result' \in [kind : Kinds, mission : {Nothing} \cup Missions]
  <1>1. sent[r] \in Missions
    BY DEF TypeOK
  <1> QED
    BY <1>1 DEF TypeOK, Resume

LEMMA StepType == TypeOK /\ [Next]_vars => TypeOK'
  <1> SUFFICES ASSUME TypeOK, [Next]_vars PROVE TypeOK'
    OBVIOUS
  <1>1. CASE SetHome \/ SetDestination \/ Slide \/ Reset \/ UNCHANGED vars
    <2>1. /\ home' \in Places \cup {Nothing} /\ dest' \in Places \cup {Nothing}
          /\ altitude' \in Altitudes /\ send' \in BOOLEAN
          /\ UNCHANGED <<sent, pending>>
      <3>1. CASE SetHome
        BY <3>1 DEF TypeOK, SetHome
      <3>2. CASE SetDestination \/ Slide
        BY <3>2 DEF TypeOK, SetDestination, Slide
      <3>3. CASE Reset
        BY <3>3 DEF TypeOK, Reset
      <3>4. CASE UNCHANGED vars
        BY <3>4 DEF TypeOK, vars
      <3> QED
        BY <1>1, <3>1, <3>2, <3>3, <3>4
    <2>2. result' = result \/ result' = Empty
      BY <1>1 DEF SetHome, SetDestination, Slide, Reset, vars
    <2>3. result' \in [kind : Kinds, mission : {Nothing} \cup Missions]
      BY <2>2 DEF TypeOK, Empty, Kinds
    <2>4. normalized' = normalized \/ normalized' = Nothing
      BY <1>1 DEF SetHome, SetDestination, Slide, Reset, vars
    <2>5. missionId' = missionId \/ missionId' = missionId + 1
      BY <1>1 DEF SetHome, SetDestination, Slide, Reset, NewId, vars
    <2>6. missionId' \in Nat
      BY <2>5 DEF TypeOK
    <2> QED
      BY <2>1, <2>3, <2>4, <2>6 DEF TypeOK
  <1>2. CASE Submit
    <2>1. CASE Complete
      <3>1. Mission \in Missions /\ sent \in Seq(Missions) /\ pending \subseteq DOMAIN sent
        BY <2>1, MissionType DEF TypeOK
      <3>2. sent' = Append(sent, Mission) /\ pending' = pending \cup {Len(sent) + 1}
        BY <1>2, <2>1 DEF Submit
      <3>3. sent' \in Seq(Missions) /\ pending' \subseteq DOMAIN sent'
        BY <3>1, <3>2
      <3> QED
        BY <1>2, <2>1, <3>3 DEF TypeOK, Submit, Missions
    <2>2. CASE ~Complete
      BY <1>2, <2>2 DEF TypeOK, Submit, Missions, Kinds
    <2> QED
      BY <2>1, <2>2
  <1>3. ASSUME NEW r \in pending, NoAnswer(r) \/ Malformed(r) PROVE TypeOK'
    <2>1. PICK kind \in Kinds : Resume(r, kind)
      BY <1>3 DEF NoAnswer, Malformed, Kinds
    <2> QED
      BY <1>3, <2>1, ResumeType DEF TypeOK, NoAnswer, Malformed, Resume, Missions
  <1>4. ASSUME NEW r \in pending, Decision(r) PROVE TypeOK'
    <2>1. Resume(r, "decision") /\ "decision" \in Kinds
      BY <1>4 DEF Decision, Kinds
    <2>2. sent[r] \in Missions
      BY <2>1, ResumeType
    <2>3. /\ send' \in BOOLEAN
          /\ normalized' \in {Nothing} \cup [id : Nat, origin : Places, goto : Int]
      <3>1. CASE home # Nothing
        <4>1. /\ send' = TRUE
              /\ normalized' = [id |-> sent[r].id, origin |-> home,
                                goto |-> toWGS84(home, sent[r].ned)]
          BY <1>4, <3>1 DEF Decision
        <4>2. home \in Places /\ sent[r].id \in Nat
          BY <2>2, <3>1 DEF TypeOK, Missions
        <4>3. toWGS84(home, sent[r].ned) \in Int
          BY <2>2, <4>2, PlacesAssumption DEF toWGS84, Missions
        <4> QED
          BY <4>1, <4>2, <4>3
      <3>2. CASE home = Nothing
        BY <1>4, <3>2 DEF Decision, TypeOK
      <3> QED
        BY <3>1, <3>2
    <2> QED
      BY <2>1, <2>3, ResumeType DEF TypeOK, Resume, Missions
  <1> QED
    BY <1>1, <1>2, <1>3, <1>4 DEF Next, Answer

-----------------------------------------------------------------------------
(* Ids and the missions they name. *)

\* What a change of the proposal does: its new id names nothing yet.
LEMMA FreshId ==
    ASSUME ClientInv, NewId, UNCHANGED sent,
           result' = result \/ result'.kind = "empty",
           normalized' = normalized \/ normalized' = Nothing
    PROVE  IdInv' /\ IdNamesOneMission' /\ CurrentIdIsCurrent'
  <1> USE DEF ClientInv
  <1>1. missionId \in Nat /\ missionId' = missionId + 1
    BY DEF NewId, TypeOK
  <1>2. \A i \in DOMAIN sent : sent[i].id \in Nat /\ sent[i].id <= missionId
    <2>1. \A i \in DOMAIN sent : sent[i] \in Missions
      BY DEF TypeOK
    <2> QED
      BY <2>1 DEF IdInv, Missions
  <1>3. result.kind = "decision" => result.mission \in Missions /\ result.mission.id \in Nat
                                       /\ result.mission.id <= missionId
    BY DEF IdInv, Missions
  <1>4. normalized # Nothing => normalized.id \in Nat /\ normalized.id <= missionId
    BY DEF TypeOK, IdInv
  <1>5. \A i \in DOMAIN sent' : sent'[i].id <= missionId' /\ sent'[i].id # missionId'
    BY <1>1, <1>2
  <1>6. result'.kind = "decision" => result'.mission \in Missions /\ result'.mission.id <= missionId'
                                        /\ result'.mission.id # missionId'
    BY <1>1, <1>3
  <1>7. normalized' # Nothing => normalized'.id <= missionId' /\ normalized'.id # missionId'
    BY <1>1, <1>4
  <1>8. IdNamesOneMission'
    BY DEF IdNamesOneMission
  <1> QED
    BY <1>5, <1>6, <1>7, <1>8 DEF IdInv, CurrentIdIsCurrent

\* What an answer does: it may only show, or draw, the mission that was sent.
LEMMA ShowSent ==
    ASSUME ClientInv, NEW r \in pending, NEW kind \in Kinds, Resume(r, kind),
           \/ normalized' = normalized
           \/ /\ home # Nothing
              /\ normalized' = [id |-> sent[r].id, origin |-> home,
                                goto |-> toWGS84(home, sent[r].ned)]
    PROVE  IdInv' /\ IdNamesOneMission' /\ CurrentIdIsCurrent'
  <1> USE DEF ClientInv
  <1>1. /\ sent[r] \in Missions /\ sent[r].id <= missionId
        /\ sent[r].id = missionId => Complete /\ sent[r] = Mission
    BY ResumeType DEF TypeOK, IdInv
  <1>3. UNCHANGED <<home, dest, altitude, missionId, sent>> /\ result'.mission = sent[r]
    BY DEF Resume
  <1>4. Mission' = Mission /\ Complete' = Complete
    BY <1>3 DEF Mission, Complete
  <1>5. IdNamesOneMission'
    BY <1>3 DEF IdNamesOneMission
  <1>6. normalized' # Nothing =>
          /\ normalized'.id <= missionId
          /\ normalized'.id = missionId => Complete /\ normalized'.origin = home
                                             /\ normalized'.goto = dest
    <2>1. CASE normalized' = normalized
      BY <2>1 DEF IdInv, CurrentIdIsCurrent
    <2>2. CASE /\ home # Nothing
               /\ normalized' = [id |-> sent[r].id, origin |-> home,
                                 goto |-> toWGS84(home, sent[r].ned)]
      <3>1. sent[r].id = missionId =>
              home \in Int /\ dest \in Int /\ sent[r].ned = dest - home
        BY <1>1, PlacesAssumption DEF TypeOK, Complete, Mission, toNED
      <3> QED
        BY <1>1, <2>2, <3>1 DEF toWGS84
    <2> QED
      BY <2>1, <2>2
  <1>7. CurrentIdIsCurrent'
    BY <1>1, <1>3, <1>4, <1>6 DEF CurrentIdIsCurrent
  <1>8. IdInv'
    <2>1. \A i \in DOMAIN sent' :
             /\ sent'[i].id <= missionId'
             /\ sent'[i].id = missionId' => Complete' /\ sent'[i] = Mission'
      BY <1>3, <1>4 DEF IdInv
    <2>2. Missions' = Missions
      BY DEF Missions
    <2> QED
      BY <1>1, <1>3, <1>6, <2>1, <2>2 DEF IdInv
  <1> QED
    BY <1>5, <1>7, <1>8

\* A request sent names the mission on the map, as every other with its id does.
LEMMA SendCurrent ==
    ASSUME ClientInv, Submit
    PROVE  IdInv' /\ IdNamesOneMission' /\ CurrentIdIsCurrent'
  <1> USE DEF ClientInv
  <1>1. /\ UNCHANGED <<home, dest, altitude, missionId, normalized>>
        /\ Mission' = Mission /\ Complete' = Complete
        /\ missionId \in Nat /\ Mission.id = missionId
    BY DEF Submit, Mission, Complete, TypeOK
  <1>2. result' = result \/ result'.kind = "unreachable"
    <2>1. result' = result \/ result' = [kind |-> "unreachable", mission |-> Nothing]
      BY DEF Submit
    <2> QED
      BY <2>1
  <1>3. ASSUME NEW i \in DOMAIN sent'
        PROVE  \/ Complete /\ sent'[i] = Mission
               \/ i \in DOMAIN sent /\ sent'[i] = sent[i]
    <2>1. CASE Complete
      <3>1. sent \in Seq(Missions) /\ sent' = Append(sent, Mission)
        BY <2>1 DEF Submit, TypeOK
      <3>2. /\ DOMAIN sent = 1..Len(sent) /\ Len(sent) \in Nat
            /\ DOMAIN sent' = 1..(Len(sent) + 1)
            /\ \A k \in 1..Len(sent) : sent'[k] = sent[k]
            /\ sent'[Len(sent) + 1] = Mission
        BY <3>1
      <3>3. CASE i = Len(sent) + 1
        <4>1. sent'[i] = Mission
          BY <3>2, <3>3
        <4> QED
          BY <2>1, <4>1
      <3>4. CASE i # Len(sent) + 1
        <4>1. i \in 1..Len(sent)
          BY <1>3, <3>2, <3>4
        <4> QED
          BY <3>2, <4>1
      <3> QED
        BY <3>3, <3>4
    <2>2. CASE ~Complete
      BY <1>3, <2>2 DEF Submit
    <2> QED
      BY <2>1, <2>2
  <1>4. \A i \in DOMAIN sent' :
           /\ sent'[i].id <= missionId
           /\ sent'[i].id = missionId => Complete /\ sent'[i] = Mission
    BY <1>1, <1>3 DEF IdInv
  <1>5. IdNamesOneMission'
    <2> SUFFICES ASSUME NEW i \in DOMAIN sent', NEW j \in DOMAIN sent',
                        sent'[i].id = sent'[j].id
                 PROVE  sent'[i] = sent'[j]
      BY DEF IdNamesOneMission
    <2>1. CASE sent'[i].id = missionId
      BY <1>4, <2>1
    <2>2. CASE sent'[i].id # missionId
      <3>1. i \in DOMAIN sent /\ sent'[i] = sent[i] /\ j \in DOMAIN sent /\ sent'[j] = sent[j]
        BY <1>1, <1>3, <2>2
      <3> QED
        BY <3>1 DEF IdNamesOneMission
    <2> QED
      BY <2>1, <2>2
  <1>6. Missions' = Missions
    BY DEF Missions
  <1>7. IdInv'
    BY <1>1, <1>2, <1>4, <1>6 DEF IdInv
  <1>8. CurrentIdIsCurrent'
    BY <1>1, <1>2 DEF CurrentIdIsCurrent
  <1> QED
    BY <1>5, <1>7, <1>8

-----------------------------------------------------------------------------
(* The inductive invariant. *)

LEMMA StepClient == ClientInv /\ [Next]_vars => ClientInv'
  <1> SUFFICES ASSUME ClientInv, [Next]_vars PROVE ClientInv'
    OBVIOUS
  <1>1. TypeOK'
    BY StepType DEF ClientInv
  <1>2. PointsInv' /\ NeverStuck'
    <2>1. CASE SetHome \/ SetDestination \/ Slide \/ Reset \/ Submit \/ UNCHANGED vars
      BY <2>1, PlacesAssumption DEF ClientInv, PointsInv, NeverStuck, SetHome, SetDestination,
         Slide, Reset, Submit, Complete, vars
    <2>2. ASSUME NEW r \in pending, NoAnswer(r) \/ Malformed(r) \/ Decision(r)
          PROVE  PointsInv' /\ NeverStuck'
      BY <2>2 DEF ClientInv, PointsInv, NeverStuck, NoAnswer, Malformed, Decision, Resume
    <2> QED
      BY <2>1, <2>2 DEF Next, Answer
  <1>3. IdInv' /\ IdNamesOneMission' /\ CurrentIdIsCurrent'
    <2>1. CASE SetDestination \/ Slide \/ Reset
      BY <2>1, FreshId DEF SetDestination, Slide, Reset, Empty
    <2>2. CASE SetHome
      <3>1. /\ UNCHANGED <<dest, altitude, missionId, sent, result, normalized>>
            /\ home = Nothing /\ ~Complete
        BY <2>2 DEF SetHome, Complete
      <3>2. \A i \in DOMAIN sent : sent[i].id # missionId
        BY <3>1 DEF ClientInv, IdInv
      <3>3. Missions' = Missions
        BY DEF Missions
      <3>4. IdInv'
        BY <3>1, <3>2, <3>3 DEF ClientInv, IdInv
      <3>5. IdNamesOneMission'
        BY <3>1 DEF ClientInv, IdNamesOneMission
      <3>6. CurrentIdIsCurrent'
        BY <3>1 DEF ClientInv, CurrentIdIsCurrent
      <3> QED
        BY <3>4, <3>5, <3>6
    <2>3. CASE Submit
      BY <2>3, SendCurrent
    <2>4. ASSUME NEW r \in pending, NoAnswer(r) \/ Malformed(r) \/ Decision(r)
          PROVE  IdInv' /\ IdNamesOneMission' /\ CurrentIdIsCurrent'
      <3>1. CASE NoAnswer(r) \/ Malformed(r)
        <4>1. PICK kind \in Kinds : Resume(r, kind)
          BY <3>1 DEF NoAnswer, Malformed, Kinds
        <4>2. normalized' = normalized
          BY <3>1 DEF NoAnswer, Malformed
        <4> QED
          BY <4>1, <4>2, ShowSent
      <3>2. CASE Decision(r)
        <4>1. Resume(r, "decision") /\ "decision" \in Kinds
          BY <3>2 DEF Decision, Kinds
        <4>2. \/ normalized' = normalized
              \/ /\ home # Nothing
                 /\ normalized' = [id |-> sent[r].id, origin |-> home,
                                   goto |-> toWGS84(home, sent[r].ned)]
          BY <3>2 DEF Decision
        <4> QED
          BY <4>1, <4>2, ShowSent
      <3> QED
        BY <2>4, <3>1, <3>2
    <2>5. CASE UNCHANGED vars
      BY <2>5 DEF vars, ClientInv, IdInv, IdNamesOneMission, CurrentIdIsCurrent, Mission,
                  Missions, Complete
    <2> QED
      BY <2>1, <2>2, <2>3, <2>4, <2>5 DEF Next, Answer
  <1> QED
    BY <1>1, <1>2, <1>3 DEF ClientInv

LEMMA ClientInvariant == Spec => []ClientInv
  <1>1. Init => ClientInv
    <2> SUFFICES ASSUME Init PROVE ClientInv
      OBVIOUS
    <2>1. /\ sent = <<>> /\ DOMAIN sent = {} /\ sent \in Seq(Missions) /\ pending = {}
          /\ normalized = Nothing /\ result = Empty /\ result.kind = "empty"
      BY DEF Init, Empty
    <2>2. result \in [kind : Kinds, mission : {Nothing} \cup Missions]
      BY <2>1 DEF Empty, Kinds
    <2>3. TypeOK
      BY <2>1, <2>2 DEF Init, TypeOK
    <2>4. PointsInv /\ NeverStuck
      BY DEF Init, PointsInv, NeverStuck
    <2>5. IdInv /\ IdNamesOneMission /\ CurrentIdIsCurrent
      BY <2>1 DEF IdInv, IdNamesOneMission, CurrentIdIsCurrent
    <2> QED
      BY <2>3, <2>4, <2>5 DEF ClientInv
  <1> QED
    BY <1>1, StepClient, PTL DEF Spec

-----------------------------------------------------------------------------
(* The theorems. *)

\* The page keeps its variables' types, whatever the operator and the service do.
THEOREM TypeCorrect == Spec => []TypeOK
  <1>1. ClientInv => TypeOK
    BY DEF ClientInv
  <1> QED
    BY <1>1, ClientInvariant, PTL

\* Two requests with one id sent the same mission: a hash of one can be compared with
\* a hash of the other.
THEOREM IdsIdentify == Spec => []IdNamesOneMission
  <1>1. ClientInv => IdNamesOneMission
    BY DEF ClientInv
  <1> QED
    BY <1>1, ClientInvariant, PTL

\* A decision or a track that carries the current id is about the proposal on the map,
\* however late its answer came and whatever was moved or reset meanwhile.
THEOREM CurrentDecisionIsCurrent == Spec => []CurrentIdIsCurrent
  <1>1. ClientInv => CurrentIdIsCurrent
    BY DEF ClientInv
  <1> QED
    BY <1>1, ClientInvariant, PTL

\* The button is only out of reach while a request is under way or a point is missing.
THEOREM ButtonComesBack == Spec => []NeverStuck
  <1>1. ClientInv => NeverStuck
    BY DEF ClientInv
  <1> QED
    BY <1>1, ClientInvariant, PTL
=============================================================================
