------------------------- MODULE MavsdkExecutorProofs -------------------------
(***************************************************************************)
(* Proofs about MavsdkExecutor, for every value of its constants.          *)
(***************************************************************************)
EXTENDS MavsdkExecutor, TLAPS

-----------------------------------------------------------------------------
(* The link as a sequence: what Issue and Consume do to the commands in it. *)

\* Issuing adds one command and forgets none.
LEMMA IssuePending ==
    ASSUME NEW c \in Commands, NEW d \in Commands, link \in Seq(Commands), Issue(c)
    PROVE  Pending(d)' <=> Pending(d) \/ d = c
  BY DEF Issue, Pending

\* Whatever the vehicle does with the head of the link, no command appears.
LEMMA ConsumePending ==
    ASSUME NEW d \in Commands, NEW acks, link \in Seq(Commands), link # <<>>,
           Consume(acks)
    PROVE  Pending(d)' => Pending(d)
  BY DEF Consume, Pending

-----------------------------------------------------------------------------
(* Type correctness. *)

\* Taking the head off the link keeps the types of the link's variables.
LEMMA ConsumeType ==
    ASSUME VehicleTypeOK, link # <<>>, NEW acks \in SUBSET BOOLEAN, Consume(acks)
    PROVE  link' \in Seq(Commands) /\ acked' \in BOOLEAN /\ calls' \in SUBSET Commands
  <1>1. link' \in Seq(Commands) /\ calls' \in SUBSET Commands
    BY DEF VehicleTypeOK, Consume
  <1>2. CASE Len(link) = 1
    BY <1>2 DEF VehicleTypeOK, Consume
  <1>3. CASE Len(link) # 1
    BY <1>3 DEF VehicleTypeOK, Consume
  <1> QED
    BY <1>1, <1>2, <1>3

\* The vehicle's steps keep the types of the vehicle's variables.
LEMMA VehicleType == VehicleTypeOK /\ VehicleNext => VehicleTypeOK'
  <1> SUFFICES ASSUME VehicleTypeOK, VehicleNext PROVE VehicleTypeOK'
    OBVIOUS
  <1>1. CASE Drop
    <2>1. PICK acks \in SUBSET BOOLEAN : Consume(acks)
      BY <1>1 DEF Drop, VehicleTypeOK
    <2> QED
      BY <1>1, <2>1, ConsumeType DEF Drop, VehicleTypeOK
  <1>2. CASE ExecuteArm
    BY <1>2, ConsumeType DEF ExecuteArm, VehicleTypeOK
  <1>3. CASE ExecuteTakeoff
    BY <1>3, ConsumeType DEF ExecuteTakeoff, VehicleTypeOK, Modes
  <1>4. CASE ExecuteLand
    BY <1>4, ConsumeType DEF ExecuteLand, VehicleTypeOK, Modes
  <1>5. CASE ExecuteDisarm
    BY <1>5, ConsumeType DEF ExecuteDisarm, VehicleTypeOK, Modes
  <1>6. CASE Liftoff \/ Touchdown \/ AutoDisarm \/ Failsafe
    BY <1>6 DEF Liftoff, Touchdown, AutoDisarm, Failsafe, VehicleTypeOK, Modes
  <1> QED
    BY <1>1, <1>2, <1>3, <1>4, <1>5, <1>6 DEF VehicleNext

\* Issuing a command keeps them too.
LEMMA IssueType ==
    ASSUME NEW c \in Commands, VehicleTypeOK, Issue(c)
    PROVE  VehicleTypeOK'
  <1>1. link' \in Seq(Commands)
    BY DEF VehicleTypeOK, Issue
  <1>2. calls' \in SUBSET Commands
    BY DEF VehicleTypeOK, Issue
  <1>3. acked' \in BOOLEAN
    BY DEF Issue
  <1> QED
    BY <1>1, <1>2, <1>3 DEF VehicleTypeOK, Issue

LEMMA VehicleStutters == VehicleTypeOK /\ UNCHANGED vehicle => VehicleTypeOK'
  BY DEF VehicleTypeOK, vehicle

LEMMA MissionType == \A m \in Missions : m \in Seq(ActionTypes) /\ Len(m) \in Nat
  BY MissionsAssumption

\* Where an exception can lead, whatever it is.
LEMMA FailType ==
    ASSUME TypeOK, NEW e \in Errors, Fail(e)
    PROVE  pc' \in PCs /\ error' \in Errors \cup {"none"}
             /\ recovery' \in Statuses /\ recovery_error' \in RecoveryErrors \cup {"none"}
  BY DEF Fail, TypeOK, PCs, RecoveryPcs, Statuses

LEMMA RecoveredType ==
    ASSUME TypeOK, NEW s \in Statuses, NEW e \in RecoveryErrors \cup {"none"}, Recovered(s, e)
    PROVE  pc' \in PCs /\ error' \in Errors \cup {"none"}
             /\ recovery' \in Statuses /\ recovery_error' \in RecoveryErrors \cup {"none"}
  BY DEF Recovered, TypeOK, PCs

LEMMA RecordType ==
    ASSUME TypeOK, NEW e \in Events, NEW n \in Nat, Record(e, n) \/ UNCHANGED log
    PROVE  log' \in SUBSET (Events \X Nat)
  BY DEF Record, TypeOK

\* Every step keeps every type: one step of the proof per kind of action.
LEMMA TypeStep == TypeOK /\ [Next]_vars => TypeOK'
  <1> SUFFICES ASSUME TypeOK, [Next]_vars PROVE TypeOK'
    OBVIOUS
  <1> USE MissionType DEF TypeOK, rest, context, setup, flags, outcome, faults
  <1>stutter. CASE UNCHANGED vars
    BY <1>stutter, VehicleStutters DEF vars
  <1>environment. CASE Environment
    BY <1>environment, VehicleType DEF Environment
  <1>crash. CASE Crash
    BY <1>crash, VehicleStutters DEF Crash, PCs, EndedPcs
  <1>start. CASE Validate \/ Authorize \/ CreateSystem
    BY <1>start, VehicleStutters
       DEF Validate, Authorize, CreateSystem, PCs, Before, EndedPcs, Errors
  <1>log. CASE OpenLog
    BY <1>log, VehicleStutters, RecordType
       DEF OpenLog, PCs, MissionPcs, Errors, Events
  <1>quiet. CASE \/ Connected \/ ConnectionSeen \/ ArmAcknowledged \/ ArmedSeen
                 \/ AltitudeReached \/ HoldElapsed \/ LandAcknowledged \/ LoopEnds
                 \/ RecoveryLandAcknowledged
    BY <1>quiet, VehicleStutters
       DEF Connected, ConnectionSeen, ArmAcknowledged, ArmedSeen, AltitudeReached,
           HoldElapsed, LandAcknowledged, LoopEnds, RecoveryLandAcknowledged, Goto,
           PCs, MissionPcs, WaitPcs, StepPcs, RecoveryPcs
  <1>pre. CASE HomePreArm
    BY <1>pre, VehicleStutters, FailType, RecordType
       DEF HomePreArm, VerifyHome, AuditRaises, PCs, MissionPcs, StepPcs, Errors, Events
  <1>action. CASE StartAction
    BY <1>action, VehicleStutters, IssueType, FailType, RecordType
       DEF StartAction, AuditRaises, Audited, BestEffort, PCs, MissionPcs, CallPcs,
           Commands, Errors, Events
  <1>altitude. CASE AltitudeSet
    BY <1>altitude, IssueType DEF AltitudeSet, Goto, PCs, MissionPcs, CallPcs, Commands
  <1>post. CASE HomePostArm
    BY <1>post, VehicleStutters, IssueType, FailType, RecordType
       DEF HomePostArm, VerifyHome, AuditRaises, PCs, MissionPcs, CallPcs, Commands,
           Errors, Events
  <1>takeoff. CASE TakeoffAcknowledged \/ LandedSeen
    BY <1>takeoff, VehicleStutters
       DEF TakeoffAcknowledged, LandedSeen, Goto, PCs, MissionPcs, WaitPcs, StepPcs
  <1>complete. CASE CompleteAction
    BY <1>complete, VehicleStutters, FailType, RecordType
       DEF CompleteAction, AuditRaises, Audited, BestEffort, PCs, MissionPcs, StepPcs,
           Errors, Events
  <1>finish. CASE Finish
    BY <1>finish, VehicleStutters, RecordType, BoundsAssumption
       DEF Finish, Goto, BestEffort, PCs, Errors, Events
  <1>raises. CASE CallRaises \/ WaitRaises
    BY <1>raises, VehicleStutters, FailType DEF CallRaises, WaitRaises, WaitErrors, Errors
  <1>choose. CASE RecoverFlight \/ RecoverArm
    BY <1>choose, VehicleStutters, IssueType, RecoveredType
       DEF RecoverFlight, RecoverArm, Goto, PCs, RecoveryPcs, Commands, Statuses,
           RecoveryErrors
  <1>recovered. CASE \/ DisarmAcknowledged \/ RecoveryLandedSeen
                     \/ RecoveryTimesOut \/ RecoveryRaises
    BY <1>recovered, VehicleStutters, RecoveredType
       DEF DisarmAcknowledged, RecoveryLandedSeen, RecoveryTimesOut, RecoveryRaises,
           Statuses, RecoveryErrors
  <1>failed. CASE LogFailure
    BY <1>failed, VehicleStutters, RecordType DEF LogFailure, Goto, BestEffort, PCs, Events
  <1>stop. CASE StopServer
    BY <1>stop, VehicleStutters DEF StopServer, PCs, EndedPcs
  <1>cancel. CASE Cancel
    BY <1>cancel, VehicleStutters, FailType, BoundsAssumption DEF Cancel, Errors
  <1>interrupt. CASE Interrupt
    BY <1>interrupt, VehicleStutters, FailType, RecoveredType, BoundsAssumption
       DEF Interrupt, Errors, Statuses, RecoveryErrors, PCs
  <1> QED
    BY <1>stutter, <1>environment, <1>crash, <1>start, <1>log, <1>quiet, <1>pre,
       <1>action, <1>altitude, <1>post, <1>takeoff, <1>complete, <1>finish, <1>raises,
       <1>choose, <1>recovered, <1>failed, <1>stop, <1>cancel, <1>interrupt
    DEF Next, Execute, Mission, Recovery

LEMMA InitialType == Init => TypeOK
  <1> SUFFICES ASSUME Init PROVE TypeOK
    OBVIOUS
  <1>1. VehicleTypeOK
    <2>1. armed \in BOOLEAN /\ air \in BOOLEAN /\ acked \in BOOLEAN
      BY DEF Init, VehicleInit
    <2>2. link \in Seq(Commands)
      BY DEF Init, VehicleInit
    <2> QED
      BY <2>1, <2>2 DEF Init, VehicleInit, VehicleTypeOK, Modes
  <1>2. seq \in 0..Len(mission) /\ cancels \in 0..MaxCancels /\ interrupts \in 0..MaxInterrupts
    BY MissionType, BoundsAssumption DEF Init
  <1>3. /\ consumed \in BOOLEAN /\ server \in BOOLEAN /\ flight_committed \in BOOLEAN
        /\ recovery_required \in BOOLEAN /\ takeoff_attempted \in BOOLEAN
    BY DEF Init
  <1> QED
    BY <1>1, <1>2, <1>3 DEF Init, TypeOK, PCs, Before, Statuses

\* Type correctness of the executor, for every mission set, every set of homes, every
\* telemetry noise and every number of cancellations and interrupts.
THEOREM TypeCorrect == Spec => []TypeOK
  BY InitialType, TypeStep, PTL DEF Spec

-----------------------------------------------------------------------------
(* The inductive invariant, in named parts. *)

\* Commands in the link were issued, an acknowledgment empties the link (only the
\* last command can be acknowledged, and the link keeps its order), and only a
\* takeoff that was issued makes the vehicle take off.
LinkInv ==
    /\ \A c \in Commands : Pending(c) => c \in calls
    /\ acked => link = <<>>
    /\ mode = "takeoff" => "takeoff" \in calls

\* The command whose acknowledgment is awaited is the last one in the link, if it
\* is still there at all.
LastIs(c) == link = <<>> \/ link[Len(link)] = c
AwaitedInv ==
    /\ pc = "arming" => LastIs("arm")
    /\ pc = "taking_off" => LastIs("takeoff")
    /\ pc \in {"landing", "rec_landing"} => LastIs("land")
    /\ pc = "disarming" => LastIs("disarm")

\* What the flags and the position in the mission say about the commands issued.
TakeoffPcs == {"arming", "await_armed", "home_post", "taking_off", "await_altitude"}
ProtocolInv ==
    /\ takeoff_attempted <=> "takeoff" \in calls
    /\ pc \in Before \cup {"connect", "await_connected", "home_pre"} => calls = {} /\ seq = 0
    /\ pc = "set_takeoff_altitude" => calls = {}
    /\ pc \in TakeoffPcs \cup {"set_takeoff_altitude"} => seq = 1
    /\ pc \in TakeoffPcs \cup RecoveryPcs => recovery_required
    /\ pc \in {"arming", "await_armed", "home_post"} => "takeoff" \notin calls
    /\ calls # {} \/ recovery_required => seq >= 1
    /\ pc \in {"authorize", "create", "open_log"} \cup MissionPcs =>
          mission \in Approved /\ Supported(mission)
    /\ pc \in Before \cup MissionPcs => error = "none"
    /\ pc \in RecoveryPcs \cup {"log_failure"} => error # "none"
    /\ pc \in Before \cup MissionPcs \cup RecoveryPcs => recovery = "none"

\* From the acknowledgment of arm on no arm is on its way, so the home that was
\* read after it is the home the takeoff starts from.
HomeInv ==
    /\ pc \in {"await_armed", "home_post"} => link = <<>>
    /\ "takeoff" \in calls => home \in Near /\ ~Pending("arm")

\* An acknowledged disarm was executed, and nothing is behind it.
DisarmInv ==
    /\ pc = "disarming" /\ acked => ~armed
    /\ recovery = "disarm_accepted" => link = <<>> /\ ~armed

\* An acknowledged land was executed, so the vehicle no longer takes off.
LandInv ==
    /\ pc \in {"landing", "rec_landing"} /\ acked => mode # "takeoff"
    /\ pc \in {"await_landed", "rec_await_landed"} => link = <<>> /\ mode # "takeoff"

\* With telemetry that never calls a flying vehicle landed: recovery is not required,
\* or the run has seen its land action through, only when the vehicle is grounded.
LandingSeen ==
    \/ pc \in {"complete", "next"} /\ seq > 0 /\ mission[seq] = "land"
    \/ pc \in {"finish", "returned"}
    \/ pc = "stop" /\ error = "none"
    \/ recovery = "landing_confirmed"
    \/ recovery = "not_required" /\ "arm" \in calls
    \/ ~recovery_required /\ "arm" \in calls
GroundInv ==
    /\ LandingSeen => Grounded
    /\ pc = "hold" => seq >= 1 /\ mission[seq] = "hold"

\* With telemetry that never calls a flying vehicle landed: a disarm is sent to a
\* grounded vehicle, and the run sends nothing after it.
DisarmGroundedInv ==
    "disarm" \in calls =>
        /\ Grounded
        /\ pc \notin Before \cup MissionPcs /\ pc # "recover"

\* While a takeoff has been sent and recovery is still required, the run is in the try
\* block or in the recovery; otherwise a land has been sent too.
FlightInv ==
    /\ pc \in TakeoffPcs \/ "takeoff" \in calls => "arm" \in calls
    /\ pc \in {"landing", "await_landed", "rec_landing", "rec_await_landed"} =>
          "land" \in calls
    /\ pc = "disarming" \/ recovery = "disarm_accepted" => "takeoff" \notin calls
    /\ pc \in {"complete", "next"} /\ seq > 0 /\ mission[seq] = "land" => ~recovery_required
    /\ "takeoff" \in calls =>
        /\ ~recovery_required \/ recovery \in {"failed", "landing_confirmed"} =>
              "land" \in calls
        /\ recovery = "not_required" => ~recovery_required
        /\ recovery = "none" /\ pc \in {"finish", "stop", "returned", "raised", "log_failure"}
              => ~recovery_required

\* The invariant of a run without a KeyboardInterrupt inside the event loop.
InductiveInvariant ==
    /\ TypeOK /\ LinkInv /\ AwaitedInv /\ ProtocolInv /\ HomeInv /\ DisarmInv
    /\ LandInv /\ GroundInv /\ DisarmGroundedInv /\ FlightInv

-----------------------------------------------------------------------------
(* What a step of the vehicle can and cannot do. *)

\* No command appears in the link, and an empty link stays empty.
LEMMA VehiclePending ==
    ASSUME VehicleTypeOK, VehicleNext
    PROVE  /\ \A c \in Commands : Pending(c)' => Pending(c)
           /\ link = <<>> => link' = <<>>
           /\ calls' = calls
  <1>1. CASE link' = link /\ calls' = calls
    BY <1>1 DEF Pending
  <1>2. ASSUME NEW acks, link # <<>>, Consume(acks)
        PROVE  calls' = calls /\ \A c \in Commands : Pending(c)' => Pending(c)
    BY <1>2, ConsumePending DEF VehicleTypeOK, Consume
  <1>3. CASE Drop \/ ExecuteArm \/ ExecuteTakeoff \/ ExecuteLand \/ ExecuteDisarm
    BY <1>2, <1>3 DEF Drop, ExecuteArm, ExecuteTakeoff, ExecuteLand, ExecuteDisarm
  <1> QED
    BY <1>1, <1>3 DEF VehicleNext, Liftoff, Touchdown, AutoDisarm, Failsafe

\* Only an arm in the link arms the vehicle or moves its home, and only a takeoff in
\* the link makes it take off.
LEMMA VehicleCause ==
    ASSUME VehicleTypeOK, VehicleNext
    PROVE  /\ armed' /\ ~armed => Pending("arm")
           /\ home' # home => Pending("arm")
           /\ mode' = "takeoff" => mode = "takeoff" \/ Pending("takeoff")
           /\ air' /\ ~air => mode = "takeoff"
  <1>1. ASSUME link # <<>> PROVE Pending(Head(link))
    BY <1>1 DEF Pending, VehicleTypeOK
  <1>2. CASE Drop
    BY <1>2 DEF Drop
  <1>3. CASE ExecuteArm
    BY <1>1, <1>3 DEF ExecuteArm
  <1>4. CASE ExecuteTakeoff
    BY <1>1, <1>4 DEF ExecuteTakeoff
  <1>5. CASE ExecuteLand \/ ExecuteDisarm
    BY <1>5 DEF ExecuteLand, ExecuteDisarm
  <1>6. CASE Liftoff \/ Touchdown \/ AutoDisarm \/ Failsafe
    BY <1>6 DEF Liftoff, Touchdown, AutoDisarm, Failsafe
  <1> QED
    BY <1>2, <1>3, <1>4, <1>5, <1>6 DEF VehicleNext

\* A vehicle that cannot leave the ground still cannot after a step of its own.
LEMMA VehicleGrounded ==
    ASSUME VehicleTypeOK, VehicleNext, Grounded
    PROVE  Grounded'
  BY VehicleCause, VehiclePending DEF Grounded, VehicleTypeOK, Commands

\* The last command of the link stays the last while it is there.
LEMMA VehicleLast ==
    ASSUME VehicleTypeOK, VehicleNext, NEW c \in Commands, LastIs(c)
    PROVE  LastIs(c)'
  <1>1. ASSUME NEW acks, link # <<>>, Consume(acks) PROVE LastIs(c)'
    BY <1>1 DEF Consume, LastIs, VehicleTypeOK
  <1>2. CASE link' = link
    BY <1>2 DEF LastIs
  <1>3. CASE Drop \/ ExecuteArm \/ ExecuteTakeoff \/ ExecuteLand \/ ExecuteDisarm
    BY <1>1, <1>3 DEF Drop, ExecuteArm, ExecuteTakeoff, ExecuteLand, ExecuteDisarm
  <1> QED
    BY <1>2, <1>3 DEF VehicleNext, Liftoff, Touchdown, AutoDisarm, Failsafe

\* When a command is acknowledged the link is empty.
LEMMA VehicleAcknowledges ==
    ASSUME VehicleTypeOK, VehicleNext, acked => link = <<>>
    PROVE  acked' => link' = <<>>
  <1>1. ASSUME NEW acks, link # <<>>, Consume(acks), acked'
        PROVE  link' = <<>>
    <2>1. CASE Len(link) = 1
      BY <1>1, <2>1 DEF Consume, VehicleTypeOK
    <2>2. CASE Len(link) # 1
      <3>1. acked' = acked
        BY <1>1, <2>2 DEF Consume
      <3> QED
        BY <1>1, <3>1
    <2> QED
      BY <2>1, <2>2
  <1>2. CASE link' = link /\ acked' = acked
    BY <1>2
  <1>3. CASE Drop \/ ExecuteArm \/ ExecuteTakeoff \/ ExecuteLand \/ ExecuteDisarm
    BY <1>1, <1>3 DEF Drop, ExecuteArm, ExecuteTakeoff, ExecuteLand, ExecuteDisarm
  <1> QED
    BY <1>2, <1>3 DEF VehicleNext, Liftoff, Touchdown, AutoDisarm, Failsafe

\* What acknowledgment proves of the last command: a land was executed, and so was a
\* disarm.
LEMMA VehicleObeys ==
    ASSUME VehicleTypeOK, VehicleNext, ~acked, acked'
    PROVE  /\ LastIs("land") => mode' = "land"
           /\ LastIs("disarm") => ~armed'
  <1>1. ASSUME NEW acks, link # <<>>, Consume(acks)
        PROVE  Len(link) = 1 /\ (\A c \in Commands : LastIs(c) => Head(link) = c)
    <2>1. Len(link) = 1
      BY <1>1 DEF Consume
    <2> QED
      BY <1>1, <2>1 DEF LastIs, VehicleTypeOK
  <1>2. CASE Drop
    <2>1. CASE Head(link) = "arm"
      BY <1>1, <1>2, <2>1 DEF Drop, Commands
    <2>2. CASE Head(link) # "arm"
      <3>1. acked' \in {acked}
        BY <1>2, <2>2 DEF Drop, Consume
      <3> QED
        BY <3>1
    <2> QED
      BY <2>1, <2>2
  <1>3. CASE ExecuteArm \/ ExecuteTakeoff \/ ExecuteLand \/ ExecuteDisarm
    BY <1>1, <1>3 DEF ExecuteArm, ExecuteTakeoff, ExecuteLand, ExecuteDisarm, Commands
  <1>4. CASE Liftoff \/ Touchdown \/ AutoDisarm \/ Failsafe
    BY <1>4 DEF Liftoff, Touchdown, AutoDisarm, Failsafe
  <1> QED
    BY <1>2, <1>3, <1>4 DEF VehicleNext

-----------------------------------------------------------------------------
(* The invariant is inductive. *)

\* A step is the vehicle's, or issues one command, or leaves the vehicle alone.
LEMMA WhoSteps ==
    ASSUME TypeOK, [Next]_vars
    PROVE  \/ VehicleNext \/ UNCHANGED vehicle \/ \E c \in Commands : Issue(c)
  <1>1. CASE HomePostArm
    BY <1>1 DEF HomePostArm, Commands
  <1>2. CASE StartAction \/ AltitudeSet \/ RecoverFlight \/ RecoverArm
    BY <1>2 DEF StartAction, AltitudeSet, RecoverFlight, RecoverArm, Commands
  <1>3. CASE Mission /\ ~(StartAction \/ AltitudeSet \/ HomePostArm)
    BY <1>3 DEF Mission, Connected, ConnectionSeen, HomePreArm, ArmAcknowledged, ArmedSeen,
        TakeoffAcknowledged, AltitudeReached, HoldElapsed, LandAcknowledged, LandedSeen,
        CompleteAction, LoopEnds, Finish, CallRaises, WaitRaises, rest, context
  <1>4. CASE Recovery /\ ~(RecoverFlight \/ RecoverArm)
    BY <1>4 DEF Recovery, DisarmAcknowledged, RecoveryLandAcknowledged, RecoveryLandedSeen,
        RecoveryTimesOut, RecoveryRaises, rest, context
  <1>5. CASE \/ Validate \/ Authorize \/ CreateSystem \/ OpenLog \/ LogFailure \/ StopServer
             \/ Cancel \/ Interrupt \/ Crash \/ Environment \/ UNCHANGED vars
    BY <1>5 DEF Validate, Authorize, CreateSystem, OpenLog, LogFailure, StopServer, Cancel,
        Interrupt, Crash, Environment, rest, context, vars
  <1> QED
    BY <1>1, <1>2, <1>3, <1>4, <1>5 DEF Next, Execute

LEMMA LinkStep == TypeOK /\ LinkInv /\ [Next]_vars => LinkInv'
  <1> SUFFICES ASSUME TypeOK, LinkInv, [Next]_vars PROVE LinkInv'
    OBVIOUS
  <1>0. VehicleTypeOK
    BY DEF TypeOK
  <1>1. CASE VehicleNext
    <2>1. acked' => link' = <<>>
      BY <1>0, <1>1, VehicleAcknowledges DEF LinkInv
    <2>2. \A c \in Commands : Pending(c)' => c \in calls'
      BY <1>0, <1>1, VehiclePending DEF LinkInv
    <2>3. mode' = "takeoff" => "takeoff" \in calls'
      BY <1>0, <1>1, VehiclePending, VehicleCause DEF LinkInv, Commands
    <2> QED
      BY <2>1, <2>2, <2>3 DEF LinkInv
  <1>2. CASE UNCHANGED vehicle
    BY <1>2 DEF vehicle, LinkInv, Pending
  <1>3. ASSUME NEW c \in Commands, Issue(c) PROVE LinkInv'
    <2>1. \A d \in Commands : Pending(d)' => d \in calls'
      BY <1>0, <1>3, IssuePending DEF LinkInv, Issue, VehicleTypeOK
    <2> QED
      BY <1>3, <2>1 DEF LinkInv, Issue
  <1> QED
    BY <1>1, <1>2, <1>3, WhoSteps

LEMMA IssueLast ==
    ASSUME VehicleTypeOK, NEW c \in Commands, Issue(c)
    PROVE  LastIs(c)'
  BY DEF VehicleTypeOK, Issue, LastIs

\* Fail leads out of the try block, and only there.
LEMMA FailLeads ==
    ASSUME NEW e \in Errors, Fail(e)
    PROVE  /\ pc' \in {"recover", "log_failure"}
           /\ pc' = "recover" <=> recovery_required
           /\ error' = e /\ e # "none"
           /\ pc' = "recover" => recovery' = recovery
           /\ pc' = "log_failure" => recovery' = "not_required"
  BY DEF Fail, Errors

LEMMA AwaitedStep == TypeOK /\ AwaitedInv /\ [Next]_vars => AwaitedInv'
  <1> SUFFICES ASSUME TypeOK, AwaitedInv, [Next]_vars PROVE AwaitedInv'
    OBVIOUS
  <1>0. VehicleTypeOK
    BY DEF TypeOK
  <1>1. CASE Environment
    BY <1>0, <1>1, VehicleLast DEF Environment, AwaitedInv, Commands
  <1>2. CASE UNCHANGED <<pc, vehicle>>
    BY <1>2 DEF AwaitedInv, LastIs, vehicle
  <1>3. CASE pc' \notin {"arming", "taking_off", "landing", "rec_landing", "disarming"}
    BY <1>3 DEF AwaitedInv
  <1>4. CASE StartAction
    BY <1>0, <1>3, <1>4, IssueLast, FailLeads
       DEF StartAction, AuditRaises, AwaitedInv, Commands, Errors
  <1>5. CASE AltitudeSet
    BY <1>0, <1>5, IssueLast DEF AltitudeSet, Goto, AwaitedInv, Commands
  <1>6. CASE HomePostArm
    BY <1>0, <1>3, <1>6, IssueLast, FailLeads
       DEF HomePostArm, VerifyHome, AuditRaises, AwaitedInv, Commands, Errors
  <1>7. CASE RecoverFlight \/ RecoverArm
    BY <1>0, <1>3, <1>7, IssueLast
       DEF RecoverFlight, RecoverArm, Recovered, Goto, AwaitedInv, Commands
  <1>8. CASE Mission /\ ~(StartAction \/ AltitudeSet \/ HomePostArm)
    BY <1>3, <1>8, FailLeads
       DEF Mission, Connected, ConnectionSeen, HomePreArm, VerifyHome, AuditRaises,
           ArmAcknowledged, ArmedSeen, TakeoffAcknowledged, AltitudeReached, HoldElapsed,
           LandAcknowledged, LandedSeen, CompleteAction, LoopEnds, Finish, CallRaises,
           WaitRaises, WaitErrors, Goto, Errors
  <1>9. CASE Recovery /\ ~(RecoverFlight \/ RecoverArm)
    BY <1>3, <1>9
       DEF Recovery, DisarmAcknowledged, RecoveryLandAcknowledged, RecoveryLandedSeen,
           RecoveryTimesOut, RecoveryRaises, Recovered, Goto
  <1>10. CASE Validate \/ Authorize \/ CreateSystem \/ OpenLog \/ LogFailure \/ StopServer \/ Crash
    BY <1>3, <1>10
       DEF Validate, Authorize, CreateSystem, OpenLog, LogFailure, StopServer, Crash, Goto
  <1>11. CASE Cancel \/ Interrupt
    BY <1>2, <1>3, <1>11, FailLeads
       DEF Cancel, Interrupt, Recovered, context, vehicle, Errors
  <1>12. CASE UNCHANGED vars
    BY <1>2, <1>12 DEF vars
  <1> QED
    BY <1>1, <1>4, <1>5, <1>6, <1>7, <1>8, <1>9, <1>10, <1>11, <1>12 DEF Next, Execute

\* An approved mission this executor supports takes off first, and only then.
LEMMA TakeoffIsFirst ==
    ASSUME NEW m \in Approved, Supported(m), NEW i \in 1..Len(m), m[i] = "takeoff"
    PROVE  i = 1
  <1>1. TakeoffHoldLand(m) /\ Len(m) \in Nat
    BY ApprovedAssumption, MissionType
  <1> QED
    BY <1>1 DEF TakeoffHoldLand

LEMMA ProtocolStep == TypeOK /\ ProtocolInv /\ [Next]_vars => ProtocolInv'
  <1> SUFFICES ASSUME TypeOK, ProtocolInv, [Next]_vars PROVE ProtocolInv'
    OBVIOUS
  <1>0. /\ seq \in Nat /\ Len(mission) \in Nat
        /\ takeoff_attempted \in BOOLEAN /\ recovery_required \in BOOLEAN
        /\ takeoff_attempted' \in BOOLEAN /\ recovery_required' \in BOOLEAN
    BY MissionType, TypeStep DEF TypeOK
  <1> USE <1>0 DEF ProtocolInv, TakeoffPcs, Before, MissionPcs, RecoveryPcs, CallPcs, WaitPcs,
                   StepPcs, setup, flags, outcome, faults
  <1>1. CASE UNCHANGED <<pc, calls, setup, seq, flags, outcome>>
    BY <1>1
  <1>2. CASE Environment
    BY <1>1, <1>2, VehiclePending DEF Environment, TypeOK
  <1>3. CASE Crash
    BY <1>3 DEF Crash, rest, context, vehicle
  <1>3a. CASE UNCHANGED vars
    BY <1>1, <1>3a DEF vars, vehicle
  <1>4. CASE Validate
    BY <1>4 DEF Validate, vehicle
  <1>5. CASE Authorize
    BY <1>5 DEF Authorize, vehicle
  <1>5a. CASE CreateSystem
    BY <1>5a DEF CreateSystem, vehicle
  <1>5b. CASE OpenLog
    BY <1>5b DEF OpenLog, vehicle
  <1>6. CASE HomePreArm \/ CompleteAction \/ CallRaises \/ WaitRaises
    BY <1>6, FailLeads
       DEF HomePreArm, VerifyHome, CompleteAction, AuditRaises, CallRaises, WaitRaises,
           WaitErrors, context, vehicle, Errors
  <1>7. CASE StartAction
    BY <1>7, FailLeads, TakeoffIsFirst
       DEF StartAction, AuditRaises, Issue, vehicle, Errors
  <1>8. CASE AltitudeSet
    BY <1>8 DEF AltitudeSet, Goto, Issue
  <1>9. CASE HomePostArm
    BY <1>9, FailLeads DEF HomePostArm, VerifyHome, AuditRaises, Issue, vehicle, Errors
  <1>10. CASE \/ Connected \/ ConnectionSeen \/ ArmAcknowledged \/ ArmedSeen \/ AltitudeReached
              \/ HoldElapsed \/ LandAcknowledged \/ LoopEnds \/ TakeoffAcknowledged \/ LandedSeen
    BY <1>10
       DEF Connected, ConnectionSeen, ArmAcknowledged, ArmedSeen, AltitudeReached, HoldElapsed,
           LandAcknowledged, LoopEnds, TakeoffAcknowledged, LandedSeen, Goto, rest, context,
           vehicle
  <1>11. CASE Finish
    BY <1>11 DEF Finish, Goto, vehicle
  <1>11a. CASE LogFailure
    BY <1>11a DEF LogFailure, Goto, vehicle
  <1>11b. CASE StopServer
    BY <1>11b DEF StopServer, vehicle
  <1>12. CASE RecoverFlight
    BY <1>12 DEF RecoverFlight, Goto, Issue
  <1>12a. CASE RecoverArm
    BY <1>12a DEF RecoverArm, Recovered, Issue, vehicle
  <1>13. CASE \/ DisarmAcknowledged \/ RecoveryLandAcknowledged \/ RecoveryLandedSeen
              \/ RecoveryTimesOut \/ RecoveryRaises
    BY <1>13
       DEF DisarmAcknowledged, RecoveryLandAcknowledged, RecoveryLandedSeen, RecoveryTimesOut,
           RecoveryRaises, Recovered, Goto, rest, context, vehicle
  <1>14. CASE Cancel \/ Interrupt
    BY <1>14, FailLeads DEF Cancel, Interrupt, Recovered, context, vehicle, Errors
  <1> QED
    BY <1>2, <1>3, <1>3a, <1>4, <1>5, <1>5a, <1>5b, <1>6, <1>7, <1>8, <1>9, <1>10, <1>11, <1>11a,
       <1>11b, <1>12, <1>12a, <1>13, <1>14
    DEF Next, Execute, Mission, Recovery

\* The steps of the run that leave the vehicle alone: everything except the five that
\* issue a command and the vehicle's own.
LEMMA Commanding ==
    ASSUME TypeOK, [Next]_vars
    PROVE  \/ Environment \/ AltitudeSet \/ StartAction \/ HomePostArm
           \/ RecoverFlight \/ RecoverArm \/ UNCHANGED vehicle
  <1>1. CASE Mission
    BY <1>1 DEF Mission, Connected, ConnectionSeen, HomePreArm, ArmAcknowledged, ArmedSeen,
        TakeoffAcknowledged, AltitudeReached, HoldElapsed, LandAcknowledged, LandedSeen,
        CompleteAction, LoopEnds, Finish, CallRaises, WaitRaises, rest, context
  <1>2. CASE Recovery
    BY <1>2 DEF Recovery, DisarmAcknowledged, RecoveryLandAcknowledged, RecoveryLandedSeen,
        RecoveryTimesOut, RecoveryRaises, rest, context
  <1>3. CASE \/ Validate \/ Authorize \/ CreateSystem \/ OpenLog \/ LogFailure \/ StopServer
             \/ Cancel \/ Interrupt \/ Crash \/ UNCHANGED vars
    BY <1>3 DEF Validate, Authorize, CreateSystem, OpenLog, LogFailure, StopServer, Cancel,
        Interrupt, Crash, rest, context, vars
  <1> QED
    BY <1>1, <1>2, <1>3 DEF Next, Execute

\* A wait is entered by one action only.
LEMMA Entering ==
    ASSUME TypeOK, [Next]_vars
    PROVE  /\ pc' = "await_armed" => ArmAcknowledged \/ pc = "await_armed"
           /\ pc' = "home_post" => ArmedSeen \/ pc = "home_post"
           /\ pc' = "disarming" => RecoverArm \/ pc = "disarming"
           /\ pc' = "await_landed" => LandAcknowledged \/ pc = "await_landed"
           /\ pc' = "rec_await_landed" =>
                 RecoveryLandAcknowledged \/ pc = "rec_await_landed"
           /\ pc' = "landing" => StartAction \/ pc = "landing"
           /\ pc' = "rec_landing" => RecoverFlight \/ RecoverArm \/ pc = "rec_landing"
           /\ pc' = "finish" => LoopEnds \/ pc = "finish"
           /\ pc' = "hold" => StartAction \/ pc = "hold"
  <1>1. CASE \/ Validate \/ Authorize \/ CreateSystem \/ OpenLog \/ LogFailure \/ StopServer
             \/ Crash \/ Environment \/ UNCHANGED vars
    BY <1>1 DEF Validate, Authorize, CreateSystem, OpenLog, LogFailure, StopServer, Crash,
        Environment, Goto, vars
  <1>2. CASE Cancel \/ Interrupt
    BY <1>2, FailLeads DEF Cancel, Interrupt, Recovered, Errors
  <1>3. CASE Recovery
    <2>1. CASE RecoverArm
      BY <2>1 DEF RecoverArm, Recovered
    <2>2. CASE Recovery /\ ~RecoverArm
      BY <2>2 DEF Recovery, RecoverFlight, DisarmAcknowledged, RecoveryLandAcknowledged,
          RecoveryLandedSeen, RecoveryTimesOut, RecoveryRaises, Recovered, Goto
    <2> QED
      BY <1>3, <2>1, <2>2
  <1>4. CASE \/ HomePreArm \/ HomePostArm \/ CompleteAction \/ CallRaises \/ WaitRaises
    BY <1>4, FailLeads DEF HomePreArm, HomePostArm, VerifyHome, AuditRaises, CompleteAction,
        CallRaises, WaitRaises, WaitErrors, Errors
  <1>5. CASE StartAction
    BY <1>5, FailLeads DEF StartAction, AuditRaises, Errors
  <1>6. CASE Mission /\ ~(HomePreArm \/ HomePostArm \/ CompleteAction \/ CallRaises
                            \/ WaitRaises \/ StartAction)
    BY <1>6 DEF Mission, Connected, ConnectionSeen, AltitudeSet, ArmAcknowledged, ArmedSeen,
        TakeoffAcknowledged, AltitudeReached, HoldElapsed, LandAcknowledged, LandedSeen,
        LoopEnds, Finish, Goto
  <1> QED
    BY <1>1, <1>2, <1>3, <1>4, <1>5, <1>6 DEF Next, Execute

LEMMA HomeStep ==
    ASSUME TypeOK, LinkInv, ProtocolInv, HomeInv, [Next]_vars
    PROVE  HomeInv'
  <1>0. VehicleTypeOK
    BY DEF TypeOK
  <1>1. pc' \in {"await_armed", "home_post"} => link' = <<>>
    <2>1. CASE Environment
      BY <1>0, <2>1, VehiclePending DEF Environment, HomeInv
    <2>2. CASE ArmAcknowledged \/ ArmedSeen
      BY <2>2 DEF ArmAcknowledged, ArmedSeen, Goto, rest, context, vehicle, LinkInv, HomeInv
    <2>3. CASE pc \in {"await_armed", "home_post"} /\ ~Environment
      BY <2>3, Commanding, FailLeads
         DEF HomeInv, AltitudeSet, StartAction, HomePostArm, VerifyHome, AuditRaises,
             RecoverFlight, RecoverArm, Goto, vehicle, Errors
    <2> QED
      BY <2>1, <2>2, <2>3, Entering
  <1>2. "takeoff" \in calls' => home' \in Near /\ ~Pending("arm")'
    <2>1. CASE Environment
      BY <1>0, <2>1, VehiclePending, VehicleCause DEF Environment, HomeInv, Commands
    <2>2. CASE AltitudeSet
      BY <2>2 DEF AltitudeSet, Goto, Issue, ProtocolInv
    <2>3. CASE HomePostArm
      <3>1. CASE Issue("takeoff") /\ home \in Near
        BY <1>0, <2>3, <3>1, IssuePending
           DEF HomePostArm, HomeInv, Issue, Pending, Commands, VehicleTypeOK
      <3>2. CASE UNCHANGED vehicle
        BY <3>2 DEF vehicle, HomeInv, Pending
      <3> QED
        BY <2>3, <3>1, <3>2, FailLeads DEF HomePostArm, VerifyHome, AuditRaises, Errors
    <2>4. ASSUME NEW c \in {"land", "disarm"}, Issue(c)
          PROVE  "takeoff" \in calls' => home' \in Near /\ ~Pending("arm")'
      <3>1. Pending("arm")' <=> Pending("arm")
        BY <1>0, <2>4, IssuePending DEF Commands, VehicleTypeOK
      <3> QED
        BY <2>4, <3>1 DEF Issue, HomeInv
    <2>5. CASE UNCHANGED vehicle
      BY <2>5 DEF vehicle, HomeInv, Pending
    <2> QED
      BY <2>1, <2>2, <2>3, <2>4, <2>5, Commanding
         DEF StartAction, RecoverFlight, RecoverArm
  <1> QED
    BY <1>1, <1>2 DEF HomeInv

\* What a recovery status was written by.
LEMMA Concluding ==
    ASSUME TypeOK, [Next]_vars
    PROVE  \/ recovery' = recovery
           \/ recovery' = "disarm_accepted" /\ DisarmAcknowledged
           \/ recovery' = "landing_confirmed" /\ RecoveryLandedSeen
           \/ recovery' = "not_required" /\ ~recovery_required /\ UNCHANGED <<vehicle, flags>>
           \/ recovery' = "failed" /\ (RecoverArm \/ RecoveryTimesOut \/ RecoveryRaises
                                         \/ Interrupt)
  <1>1. CASE Recovery
    <2>1. CASE RecoverFlight \/ RecoveryLandAcknowledged \/ RecoverArm
      BY <2>1 DEF RecoverFlight, RecoveryLandAcknowledged, RecoverArm, Recovered, rest, outcome
    <2>2. CASE DisarmAcknowledged \/ RecoveryLandedSeen
      BY <2>2 DEF DisarmAcknowledged, RecoveryLandedSeen, Recovered
    <2>3. CASE RecoveryTimesOut \/ RecoveryRaises
      BY <2>3 DEF RecoveryTimesOut, RecoveryRaises, Recovered
    <2> QED
      BY <1>1, <2>1, <2>2, <2>3 DEF Recovery
  <1>2. CASE Mission
    <2>1. CASE HomePreArm \/ HomePostArm \/ CompleteAction \/ StartAction
      BY <2>1, FailLeads DEF HomePreArm, HomePostArm, VerifyHome, AuditRaises, CompleteAction,
          StartAction, Fail, outcome, flags
    <2>2. CASE CallRaises \/ WaitRaises
      BY <2>2 DEF CallRaises, WaitRaises, Fail, context
    <2>3. CASE Mission /\ ~(\/ HomePreArm \/ HomePostArm \/ CompleteAction \/ StartAction
                            \/ CallRaises \/ WaitRaises)
      BY <2>3 DEF Mission, Connected, ConnectionSeen, AltitudeSet, ArmAcknowledged,
          ArmedSeen, TakeoffAcknowledged, AltitudeReached, HoldElapsed, LandAcknowledged,
          LandedSeen, LoopEnds, Finish, rest, outcome
    <2> QED
      BY <1>2, <2>1, <2>2, <2>3
  <1>3. CASE \/ Validate \/ Authorize \/ CreateSystem \/ OpenLog \/ LogFailure
             \/ StopServer \/ Crash \/ Environment \/ UNCHANGED vars
    BY <1>3 DEF Validate, Authorize, CreateSystem, OpenLog, LogFailure, StopServer, Crash,
        Environment, rest, outcome, vars
  <1>4. CASE Cancel \/ Interrupt
    BY <1>4 DEF Cancel, Interrupt, Fail, Recovered, outcome, context
  <1> QED
    BY <1>1, <1>2, <1>3, <1>4 DEF Next, Execute

LEMMA DisarmStep ==
    ASSUME TypeOK, LinkInv, AwaitedInv, ProtocolInv, DisarmInv, [Next]_vars
    PROVE  DisarmInv'
  <1>0. VehicleTypeOK
    BY DEF TypeOK
  <1>1. pc' = "disarming" /\ acked' => ~armed'
    <2>1. CASE Environment
      <3> SUFFICES ASSUME pc = "disarming", acked' PROVE ~armed'
        BY <2>1 DEF Environment
      <3>1. CASE acked
        BY <1>0, <2>1, <3>1, VehicleCause
           DEF Environment, DisarmInv, LinkInv, Pending, VehicleTypeOK
      <3>2. CASE ~acked
        BY <1>0, <2>1, <3>2, VehicleObeys DEF Environment, AwaitedInv
      <3> QED
        BY <3>1, <3>2
    <2>2. CASE RecoverArm
      BY <2>2 DEF RecoverArm, Recovered, Issue
    <2>3. CASE pc = "disarming" /\ ~Environment
      BY <2>3, Commanding, FailLeads
         DEF DisarmInv, AltitudeSet, StartAction, HomePostArm, RecoverFlight, RecoverArm,
             Goto, vehicle
    <2> QED
      BY <2>1, <2>2, <2>3, Entering
  <1>2. recovery' = "disarm_accepted" => link' = <<>> /\ ~armed'
    <2>1. CASE recovery = "disarm_accepted"
      <3>1. link = <<>> /\ ~armed
        BY <2>1 DEF DisarmInv
      <3>2. pc \notin Before \cup MissionPcs \cup RecoveryPcs
        BY <2>1 DEF ProtocolInv
      <3>3. CASE Environment
        BY <1>0, <3>1, <3>3, VehiclePending, VehicleCause
           DEF Environment, Pending, VehicleTypeOK
      <3>4. CASE UNCHANGED vehicle
        BY <3>1, <3>4 DEF vehicle
      <3> QED
        BY <3>2, <3>3, <3>4, Commanding
           DEF AltitudeSet, StartAction, HomePostArm, RecoverFlight, RecoverArm, Goto,
               MissionPcs, CallPcs, WaitPcs, StepPcs, RecoveryPcs
    <2>2. CASE DisarmAcknowledged
      BY <2>2 DEF DisarmAcknowledged, DisarmInv, LinkInv, context, vehicle
    <2> QED
      BY <2>1, <2>2, Concluding
  <1> QED
    BY <1>1, <1>2 DEF DisarmInv

LEMMA LandStep ==
    ASSUME TypeOK, LinkInv, AwaitedInv, LandInv, [Next]_vars
    PROVE  LandInv'
  <1>0. VehicleTypeOK
    BY DEF TypeOK
  <1>1. CASE Environment
    <2>1. ASSUME pc \in {"landing", "rec_landing"}, acked' PROVE mode' # "takeoff"
      <3>1. CASE acked
        BY <1>0, <1>1, <2>1, <3>1, VehicleCause
           DEF Environment, LandInv, LinkInv, Pending, VehicleTypeOK
      <3>2. CASE ~acked
        BY <1>0, <1>1, <2>1, <3>2, VehicleObeys DEF Environment, AwaitedInv
      <3> QED
        BY <3>1, <3>2
    <2>2. ASSUME pc \in {"await_landed", "rec_await_landed"}
          PROVE  link' = <<>> /\ mode' # "takeoff"
      BY <1>0, <1>1, <2>2, VehicleCause, VehiclePending
         DEF Environment, LandInv, Pending, VehicleTypeOK
    <2> QED
      BY <1>1, <2>1, <2>2 DEF Environment, LandInv
  <1>2. CASE LandAcknowledged \/ RecoveryLandAcknowledged
    BY <1>2 DEF LandAcknowledged, RecoveryLandAcknowledged, Goto, rest, context, vehicle,
        LandInv, LinkInv
  <1>3. CASE StartAction \/ RecoverFlight \/ RecoverArm
    BY <1>3, FailLeads DEF StartAction, AuditRaises, RecoverFlight, RecoverArm, Recovered,
        Goto, Issue, LandInv, Errors
  <1>4. CASE UNCHANGED vehicle
    BY <1>2, <1>3, <1>4, Entering DEF vehicle, LandInv
  <1>5. CASE AltitudeSet \/ HomePostArm
    BY <1>5, <1>4, FailLeads
       DEF AltitudeSet, HomePostArm, VerifyHome, AuditRaises, Goto, LandInv, Errors
  <1> QED
    BY <1>1, <1>3, <1>4, <1>5, Commanding

\* Only a takeoff command can undo Grounded.
LEMMA StaysGrounded ==
    ASSUME TypeOK, Grounded, [Next]_vars, ~HomePostArm
    PROVE  Grounded'
  <1>0. VehicleTypeOK
    BY DEF TypeOK
  <1>1. CASE Environment
    BY <1>0, <1>1, VehicleGrounded DEF Environment
  <1>2. CASE UNCHANGED vehicle
    BY <1>2 DEF vehicle, Grounded, Pending
  <1>3. ASSUME NEW c \in {"arm", "land", "disarm"}, Issue(c) PROVE Grounded'
    <2>1. ~Pending("takeoff")'
      BY <1>0, <1>3, IssuePending DEF Grounded, Commands, VehicleTypeOK
    <2> QED
      BY <1>3, <2>1 DEF Grounded, Issue
  <1> QED
    BY <1>1, <1>2, <1>3, Commanding DEF AltitudeSet, StartAction, RecoverFlight, RecoverArm

\* The telemetry that may err does not call a flying vehicle landed.
Cautious == InAirNoise \subseteq {"in_air"}

\* It may also yield samples that are no booleans: recovery rejects those, the landing
\* wait does not.
NeverFalse == "on_ground" \notin InAirNoise

\* The end of a landing wait finds the vehicle grounded.
LEMMA LandingGrounds ==
    ASSUME Cautious, LandInv, TypeOK, LandedSeen \/ RecoveryLandedSeen
    PROVE  Grounded'
  <1>1. ~air /\ link = <<>> /\ mode # "takeoff"
    BY DEF Cautious, LandInv, LandedSeen, RecoveryLandedSeen, Goto, InAirSample
  <1>2. UNCHANGED vehicle
    BY DEF LandedSeen, RecoveryLandedSeen, context
  <1> QED
    BY <1>1, <1>2 DEF vehicle, Grounded, Pending

\* The positions LandingSeen talks about, and the way into each.
LEMMA EnteringLanded ==
    ASSUME TypeOK, ProtocolInv, [Next]_vars
    PROVE  /\ pc' \in {"complete", "next"} =>
                \/ pc \in {"complete", "next"} /\ seq' = seq
                \/ pc \in {"hold", "await_altitude", "home_pre"} /\ seq' = seq
                \/ LandedSeen
           /\ pc' = "finish" => pc = "finish" \/ (LoopEnds /\ UNCHANGED seq)
           /\ pc' = "stop" /\ error' = "none" =>
                pc = "finish" \/ (pc = "stop" /\ error = "none")
           /\ pc' = "returned" => pc = "returned" \/ (pc = "stop" /\ error = "none")
           /\ mission' = mission
           /\ ~recovery_required' => ~recovery_required \/ LandedSeen
  <1> USE DEF setup, flags, outcome
  <1>1. CASE \/ Validate \/ Authorize \/ CreateSystem \/ OpenLog
    BY <1>1 DEF Validate, Authorize, CreateSystem, OpenLog
  <1>2. CASE LogFailure \/ StopServer \/ Crash \/ Environment \/ UNCHANGED vars
    BY <1>2 DEF LogFailure, StopServer, Crash, Environment, Goto, rest, context, vars,
        ProtocolInv
  <1>3. CASE Cancel \/ Interrupt
    BY <1>3, FailLeads DEF Cancel, Interrupt, Recovered, context, Errors, MissionPcs,
        CallPcs, WaitPcs, StepPcs, RecoveryPcs
  <1>4. CASE Recovery
    BY <1>4 DEF Recovery, RecoverFlight, RecoverArm, DisarmAcknowledged,
        RecoveryLandAcknowledged, RecoveryLandedSeen, RecoveryTimesOut, RecoveryRaises,
        Recovered, Goto, rest, context
  <1>5. CASE \/ HomePreArm \/ HomePostArm \/ CompleteAction \/ StartAction
             \/ CallRaises \/ WaitRaises
    BY <1>5, FailLeads DEF HomePreArm, HomePostArm, VerifyHome, AuditRaises, CompleteAction,
        StartAction, CallRaises, WaitRaises, WaitErrors, context, Errors
  <1>6. CASE Mission /\ ~(\/ HomePreArm \/ HomePostArm \/ CompleteAction \/ StartAction
                          \/ CallRaises \/ WaitRaises \/ LandedSeen)
    BY <1>6 DEF Mission, Connected, ConnectionSeen, AltitudeSet, ArmAcknowledged, ArmedSeen,
        TakeoffAcknowledged, AltitudeReached, HoldElapsed, LandAcknowledged, LoopEnds,
        Finish, Goto, rest, context
  <1>7. CASE LandedSeen
    BY <1>7 DEF LandedSeen, Goto
  <1> QED
    BY <1>1, <1>2, <1>3, <1>4, <1>5, <1>6, <1>7 DEF Next, Execute, Mission

\* The actions that send commands, seen from the set of commands sent.
LEMMA Sending ==
    ASSUME TypeOK, [Next]_vars
    PROVE  /\ calls' = calls \/ AltitudeSet \/ StartAction \/ HomePostArm
                \/ RecoverFlight \/ RecoverArm
           /\ StartAction => calls' \in {calls, calls \cup {"land"}}
           /\ RecoverFlight => calls' = calls \cup {"land"}
           /\ RecoverArm => calls' \in {calls, calls \cup {"land"}, calls \cup {"disarm"}}
           /\ RecoverArm /\ calls' = calls \cup {"disarm"} => "disarm" \in calls \/ ~air \/ ~NeverFalse
           /\ AltitudeSet => calls' = calls \cup {"arm"} /\ recovery_required'
           /\ HomePostArm => calls' \in {calls, calls \cup {"takeoff"}}
  <1>1. calls' = calls \/ AltitudeSet \/ StartAction \/ HomePostArm \/ RecoverFlight \/ RecoverArm
    BY Commanding, VehiclePending DEF Environment, vehicle, TypeOK
  <1>2. /\ StartAction => calls' \in {calls, calls \cup {"land"}}
        /\ RecoverFlight => calls' = calls \cup {"land"}
        /\ AltitudeSet => calls' = calls \cup {"arm"} /\ recovery_required'
        /\ HomePostArm => calls' \in {calls, calls \cup {"takeoff"}}
    BY DEF StartAction, RecoverFlight, AltitudeSet, HomePostArm, Issue, vehicle
  <1>3. RecoverArm => calls' \in {calls, calls \cup {"land"}, calls \cup {"disarm"}}
    BY DEF RecoverArm, Issue, vehicle
  <1>4. RecoverArm /\ calls' = calls \cup {"disarm"} => "disarm" \in calls \/ ~air \/ ~NeverFalse
    BY DEF RecoverArm, Issue, vehicle, InAirSample, NeverFalse
  <1> QED
    BY <1>1, <1>2, <1>3, <1>4

LEMMA GroundStep ==
    ASSUME Cautious, TypeOK, ProtocolInv, LandInv, GroundInv, [Next]_vars
    PROVE  GroundInv'
  <1>1. LandingSeen' => Grounded'
    <2>1. CASE LandedSeen \/ RecoveryLandedSeen
      BY <2>1, LandingGrounds
    <2>2. CASE HomePostArm
      <3>1. CASE pc' = "taking_off"
        BY <2>2, <3>1 DEF HomePostArm, LandingSeen, VerifyHome, outcome, ProtocolInv,
           TakeoffPcs, MissionPcs, CallPcs, WaitPcs, AuditRaises, Fail
      <3>2. CASE pc' # "taking_off"
        BY <2>2, <3>2, FailLeads DEF HomePostArm, VerifyHome, AuditRaises, LandingSeen,
           ProtocolInv, TakeoffPcs, Errors, MissionPcs, WaitPcs
      <3> QED
        BY <3>1, <3>2
    <2>3. CASE ~LandedSeen /\ ~RecoveryLandedSeen /\ ~HomePostArm
      <3> SUFFICES ASSUME LandingSeen' PROVE LandingSeen
        BY <2>3, StaysGrounded DEF GroundInv
      <3>1. CASE (pc \in {"complete", "next"} /\ seq > 0 /\ mission[seq] = "land")'
        <4>1. CASE pc \in {"complete", "next"} /\ seq' = seq
          BY <2>3, <3>1, <4>1, EnteringLanded DEF LandingSeen
        <4>2. CASE pc \in {"hold", "await_altitude", "home_pre"} /\ seq' = seq
          <5>1. mission' = mission
            BY EnteringLanded
          <5>2. CASE pc = "await_altitude"
            <6>1. mission[1] = "takeoff" /\ seq = 1
              BY <5>2, ApprovedAssumption DEF ProtocolInv, TakeoffPcs, MissionPcs, WaitPcs,
                 TakeoffHoldLand
            <6> QED
              BY <3>1, <4>2, <5>1, <6>1
          <5> QED
            BY <3>1, <4>2, <5>1, <5>2 DEF GroundInv, ProtocolInv, Before
        <4> QED
          BY <2>3, <3>1, <4>1, <4>2, EnteringLanded
      <3>2. CASE pc' = "finish"
        <4>1. CASE pc = "finish"
          BY <4>1 DEF LandingSeen
        <4>2. CASE LoopEnds
          <5>1. TakeoffHoldLand(mission) /\ seq = Len(mission) /\ pc = "next"
            BY <4>2, ApprovedAssumption DEF LoopEnds, Goto, ProtocolInv, MissionPcs, StepPcs
          <5>2. Len(mission) \in Nat
            BY MissionType DEF TypeOK
          <5> QED
            BY <5>1, <5>2 DEF TakeoffHoldLand, LandingSeen
        <4> QED
          BY <3>2, <4>1, <4>2, EnteringLanded
      <3>3. CASE pc' = "returned" \/ (pc' = "stop" /\ error' = "none")
        BY <3>3, EnteringLanded DEF LandingSeen
      <3>4. CASE recovery' = "landing_confirmed"
        BY <2>3, <3>4, Concluding DEF LandingSeen
      <3>5. CASE ~recovery_required' /\ "arm" \in calls'
        BY <2>3, <3>5, Sending, EnteringLanded DEF LandingSeen
      <3>6. CASE recovery' = "not_required" /\ "arm" \in calls'
        <4>1. CASE recovery = "not_required"
          <5>1. pc \notin MissionPcs \cup RecoveryPcs
            BY <4>1 DEF ProtocolInv
          <5>2. calls' = calls
            BY <5>1, Sending DEF AltitudeSet, StartAction, HomePostArm, RecoverFlight, RecoverArm,
               Goto, MissionPcs, RecoveryPcs, CallPcs, WaitPcs, StepPcs
          <5> QED
            BY <3>6, <4>1, <5>2 DEF LandingSeen
        <4>2. CASE recovery # "not_required"
          BY <3>6, <4>2, Concluding DEF LandingSeen, vehicle
        <4> QED
          BY <4>1, <4>2
      <3> QED
        BY <3>1, <3>2, <3>3, <3>4, <3>5, <3>6 DEF LandingSeen
    <2> QED
      BY <2>1, <2>2, <2>3
  <1>2. pc' = "hold" => seq' >= 1 /\ mission'[seq'] = "hold"
    <2>1. CASE StartAction
      BY <2>1, FailLeads DEF StartAction, AuditRaises, setup, Errors, TypeOK
    <2>2. CASE pc = "hold" /\ seq' = seq
      BY <2>2, EnteringLanded DEF GroundInv
    <2>3. pc = "hold" /\ pc' = "hold" => seq' = seq
      BY DEF Next, Execute, Mission, Recovery, vars, Validate, Authorize, CreateSystem, OpenLog,
         LogFailure, StopServer, Cancel, Interrupt, Crash, Environment, Connected,
         ConnectionSeen, HomePreArm, StartAction, AltitudeSet, ArmAcknowledged, ArmedSeen,
         HomePostArm, TakeoffAcknowledged, AltitudeReached, HoldElapsed, LandAcknowledged,
         LandedSeen, CompleteAction, LoopEnds, Finish, CallRaises, WaitRaises, RecoverFlight,
         RecoverArm, DisarmAcknowledged, RecoveryLandAcknowledged, RecoveryLandedSeen,
         RecoveryTimesOut, RecoveryRaises, Goto, rest, context
    <2> QED
      BY <2>1, <2>2, <2>3, Entering
  <1> QED
    BY <1>1, <1>2 DEF GroundInv

\* A run that has left the try block does not come back to it.
LEMMA NoWayBack ==
    ASSUME [Next]_vars, pc \notin Before \cup MissionPcs, pc # "recover"
    PROVE  pc' \notin Before \cup MissionPcs /\ pc' # "recover"
  <1> USE DEF Before, MissionPcs, CallPcs, WaitPcs, StepPcs
  <1>1. CASE Mission
    BY <1>1 DEF Mission, Connected, ConnectionSeen, HomePreArm, StartAction, AltitudeSet,
        ArmAcknowledged, ArmedSeen, HomePostArm, TakeoffAcknowledged, AltitudeReached,
        HoldElapsed, LandAcknowledged, LandedSeen, CompleteAction, LoopEnds, Finish,
        CallRaises, WaitRaises, Goto
  <1>2. CASE Recovery
    BY <1>2 DEF Recovery, RecoverFlight, RecoverArm, DisarmAcknowledged,
        RecoveryLandAcknowledged, RecoveryLandedSeen, RecoveryTimesOut, RecoveryRaises,
        Recovered, Goto
  <1>3. CASE \/ Validate \/ Authorize \/ CreateSystem \/ OpenLog \/ LogFailure \/ StopServer
             \/ Crash \/ Environment \/ UNCHANGED vars
    BY <1>3 DEF Validate, Authorize, CreateSystem, OpenLog, LogFailure, StopServer, Crash,
        Environment, Goto, vars
  <1>4. CASE Cancel \/ Interrupt
    BY <1>4 DEF Cancel, Interrupt, Recovered
  <1> QED
    BY <1>1, <1>2, <1>3, <1>4 DEF Next, Execute

LEMMA DisarmGroundedStep ==
    ASSUME NeverFalse, TypeOK, LinkInv, ProtocolInv, DisarmGroundedInv, [Next]_vars
    PROVE  DisarmGroundedInv'
  <1> SUFFICES ASSUME "disarm" \in calls' PROVE DisarmGroundedInv'
    BY DEF DisarmGroundedInv
  <1>1. CASE "disarm" \in calls
    <2>1. Grounded /\ pc \notin Before \cup MissionPcs /\ pc # "recover"
      BY <1>1 DEF DisarmGroundedInv
    <2>2. ~HomePostArm
      BY <2>1 DEF HomePostArm, MissionPcs, WaitPcs
    <2> QED
      BY <2>1, <2>2, NoWayBack, StaysGrounded DEF DisarmGroundedInv
  <1>2. CASE "disarm" \notin calls
    <2>1. RecoverArm /\ calls' = calls \cup {"disarm"}
      BY <1>2, Sending
    <2>2. ~air
      BY <1>2, <2>1, Sending
    <2>3. "takeoff" \notin calls
      BY <2>1 DEF RecoverArm, ProtocolInv
    <2>4. Grounded
      BY <2>2, <2>3 DEF Grounded, LinkInv, Commands
    <2>5. ~HomePostArm
      BY <2>1 DEF RecoverArm, HomePostArm
    <2>6. Grounded'
      BY <2>4, <2>5, StaysGrounded
    <2>7. pc' \notin Before \cup MissionPcs /\ pc' # "recover"
      BY <2>1 DEF RecoverArm, Recovered, Before, MissionPcs, CallPcs, WaitPcs, StepPcs
    <2> QED
      BY <2>6, <2>7 DEF DisarmGroundedInv
  <1> QED
    BY <1>1, <1>2

LEMMA FlightStep ==
    ASSUME MaxInterrupts = 0, Cautious, TypeOK, ProtocolInv, GroundInv, FlightInv, [Next]_vars
    PROVE  FlightInv'
  <1>0. /\ seq \in Nat /\ Len(mission) \in Nat
        /\ takeoff_attempted \in BOOLEAN /\ recovery_required \in BOOLEAN
        /\ recovery_required' \in BOOLEAN
    BY MissionType, TypeStep DEF TypeOK
  <1> USE <1>0 DEF FlightInv, ProtocolInv, TakeoffPcs, Before, MissionPcs, RecoveryPcs, CallPcs,
                   WaitPcs, StepPcs, setup, flags, outcome
  <1>1. CASE UNCHANGED <<pc, calls, setup, seq, flags, outcome>>
    BY <1>1
  <1>2. CASE Environment
    BY <1>1, <1>2, VehiclePending DEF Environment, TypeOK
  <1>3. CASE Crash
    BY <1>3 DEF Crash, rest, context, vehicle
  <1>4. CASE UNCHANGED vars
    BY <1>1, <1>4 DEF vars, vehicle
  <1>5. CASE Validate \/ Authorize
    BY <1>5 DEF Validate, Authorize, vehicle
  <1>6. CASE CreateSystem \/ OpenLog
    BY <1>6 DEF CreateSystem, OpenLog, vehicle
  <1>7. CASE HomePreArm \/ CompleteAction
    BY <1>7, FailLeads DEF HomePreArm, VerifyHome, CompleteAction, AuditRaises, vehicle, Errors
  <1>8. CASE CallRaises \/ WaitRaises
    BY <1>8, FailLeads DEF CallRaises, WaitRaises, WaitErrors, context, vehicle, Errors
  <1>9. CASE StartAction
    BY <1>9, FailLeads DEF StartAction, AuditRaises, Issue, vehicle, Errors
  <1>10. CASE AltitudeSet
    BY <1>10 DEF AltitudeSet, Goto, Issue
  <1>11. CASE HomePostArm
    BY <1>11, FailLeads DEF HomePostArm, VerifyHome, AuditRaises, Issue, vehicle, Errors
  <1>12. CASE AltitudeReached
    <2>1. mission[seq] = "takeoff"
      BY <1>12, ApprovedAssumption DEF AltitudeReached, Goto, TakeoffHoldLand
    <2> QED
      BY <1>12, <2>1 DEF AltitudeReached, Goto, rest, context, vehicle
  <1>13. CASE HoldElapsed
    BY <1>13 DEF HoldElapsed, Goto, rest, context, vehicle, GroundInv
  <1>14. CASE \/ Connected \/ ConnectionSeen \/ ArmAcknowledged \/ ArmedSeen
              \/ LandAcknowledged \/ TakeoffAcknowledged \/ LandedSeen
    BY <1>14
       DEF Connected, ConnectionSeen, ArmAcknowledged, ArmedSeen, LandAcknowledged,
           TakeoffAcknowledged, LandedSeen, Goto, rest, context, vehicle
  <1>15. CASE LoopEnds
    <2>1. TakeoffHoldLand(mission)
      BY <1>15, ApprovedAssumption DEF LoopEnds, Goto
    <2> QED
      BY <1>15, <2>1 DEF LoopEnds, Goto, rest, context, vehicle, TakeoffHoldLand
  <1>16. CASE Finish
    BY <1>16 DEF Finish, Goto, vehicle
  <1>17. CASE LogFailure
    BY <1>17 DEF LogFailure, Goto, vehicle
  <1>18. CASE StopServer
    BY <1>18 DEF StopServer, vehicle
  <1>19. CASE RecoverFlight
    BY <1>19 DEF RecoverFlight, Goto, Issue
  <1>20. CASE RecoverArm
    BY <1>20 DEF RecoverArm, Recovered, Issue, vehicle
  <1>21. CASE \/ DisarmAcknowledged \/ RecoveryLandAcknowledged \/ RecoveryLandedSeen
    BY <1>21
       DEF DisarmAcknowledged, RecoveryLandAcknowledged, RecoveryLandedSeen, Recovered, Goto,
           rest, context, vehicle
  <1>22. CASE RecoveryTimesOut \/ RecoveryRaises
    BY <1>22 DEF RecoveryTimesOut, RecoveryRaises, Recovered, context, vehicle
  <1>23. CASE Cancel
    BY <1>23, FailLeads DEF Cancel, context, vehicle, Errors
  <1>24. ~Interrupt
    BY DEF Interrupt, TypeOK
  <1> QED
    BY <1>2, <1>3, <1>4, <1>5, <1>6, <1>7, <1>8, <1>9, <1>10, <1>11, <1>12, <1>13, <1>14,
       <1>15, <1>16, <1>17, <1>18, <1>19, <1>20, <1>21, <1>22, <1>23, <1>24
    DEF Next, Execute, Mission, Recovery

-----------------------------------------------------------------------------
(* The audit file: what its records say of the run, whatever ends it. *)

\* Every record the strict writer owes is there by the time the run is this far.
RecordsInv ==
    /\ pc \in MissionPcs => <<"mission_started", 0>> \in log
    /\ pc \in MissionPcs \ {"connect", "await_connected", "home_pre"} =>
          <<"home_check_pre_arm", 0>> \in log
    /\ pc \in TakeoffPcs \cup {"set_takeoff_altitude"} => <<"action_started", 1>> \in log
    /\ AuditBeforeCommand
    /\ pc \in {"taking_off", "await_altitude"} => "takeoff" \in calls
    /\ flight_committed => "takeoff" \in calls
    /\ AuditNeverGroundsFlight

\* The approval is paid for before anything is contacted.
PaidInv ==
    /\ pc \in {"create", "open_log"} \cup MissionPcs \cup RecoveryPcs =>
          consumed /\ mission \in Approved /\ Supported(mission)
    /\ AuthorizedContact

\* A verdict is written on the way out, and it is about the run that is ending.
VerdictInv ==
    /\ pc = "hold" => seq >= 1 /\ mission[seq] = "hold"
    /\ pc \in {"landing", "await_landed"} => "land" \in calls
    /\ pc \in {"complete", "next"} /\ seq > 0 /\ mission[seq] = "land" => "land" \in calls
    /\ pc = "finish" => seq = Len(mission) /\ "land" \in calls
    /\ pc = "log_failure" => recovery # "none"
    /\ <<"mission_completed", 0>> \in log \/ <<"mission_failed", 0>> \in log =>
          pc \in {"stop"} \cup EndedPcs
    /\ OneVerdict

\* No record is ever lost, no command is ever unsent, and no mission is exchanged.
LEMMA NothingForgotten ==
    ASSUME TypeOK, [Next]_vars
    PROVE  log \subseteq log' /\ calls \subseteq calls' /\ mission' = mission
  <1>1. CASE Environment
    BY <1>1, VehiclePending DEF Environment, TypeOK, setup
  <1>2. CASE Mission
    BY <1>2 DEF Mission, Connected, ConnectionSeen, HomePreArm, StartAction, AltitudeSet,
        ArmAcknowledged, ArmedSeen, HomePostArm, TakeoffAcknowledged, AltitudeReached,
        HoldElapsed, LandAcknowledged, LandedSeen, CompleteAction, LoopEnds, Finish,
        CallRaises, WaitRaises, VerifyHome, AuditRaises, Audited, BestEffort, Record, Issue,
        rest, context, setup, vehicle
  <1>3. CASE Recovery
    BY <1>3 DEF Recovery, RecoverFlight, RecoverArm, DisarmAcknowledged,
        RecoveryLandAcknowledged, RecoveryLandedSeen, RecoveryTimesOut, RecoveryRaises, Issue,
        rest, context, setup, vehicle
  <1>4. CASE \/ Validate \/ Authorize \/ CreateSystem \/ OpenLog \/ LogFailure \/ StopServer
             \/ Cancel \/ Interrupt \/ Crash \/ UNCHANGED vars
    BY <1>4 DEF Validate, Authorize, CreateSystem, OpenLog, LogFailure, StopServer, Cancel,
        Interrupt, Crash, BestEffort, Record, rest, context, setup, vehicle, vars
  <1> QED
    BY <1>1, <1>2, <1>3, <1>4 DEF Next, Execute

LEMMA RecordsStep == TypeOK /\ ProtocolInv /\ RecordsInv /\ [Next]_vars => RecordsInv'
  <1> SUFFICES ASSUME TypeOK, ProtocolInv, RecordsInv, [Next]_vars PROVE RecordsInv'
    OBVIOUS
  <1>0. seq \in Nat /\ flight_committed \in BOOLEAN
    BY MissionType DEF TypeOK
  <1>g. log \subseteq log' /\ calls \subseteq calls'
    BY NothingForgotten
  <1> USE <1>0, <1>g DEF RecordsInv, AuditBeforeCommand, AuditNeverGroundsFlight, TakeoffPcs,
          MissionPcs, CallPcs, WaitPcs, StepPcs, flags, outcome
  <1>1. CASE UNCHANGED <<pc, calls, flags, outcome>>
    BY <1>1
  <1>2. CASE Environment
    BY <1>1, <1>2, VehiclePending DEF Environment, TypeOK
  <1>3. CASE Crash
    BY <1>3 DEF Crash, rest, context, vehicle, EndedPcs
  <1>4. CASE UNCHANGED vars
    BY <1>1, <1>4 DEF vars, vehicle
  <1>5. CASE Validate \/ Authorize \/ CreateSystem \/ OpenLog
    BY <1>5 DEF Validate, Authorize, CreateSystem, OpenLog, Record, vehicle, ProtocolInv, Before
  <1>6. CASE HomePreArm
    BY <1>6, FailLeads
       DEF HomePreArm, VerifyHome, AuditRaises, Record, vehicle, Errors, Fail
  <1>7. CASE CompleteAction \/ CallRaises \/ WaitRaises
    BY <1>7, FailLeads
       DEF CompleteAction, AuditRaises, CallRaises, WaitRaises, WaitErrors, context, vehicle,
           Errors, Fail, ProtocolInv
  <1>8. CASE StartAction
    <2>1. CASE seq = 0
      <3>1. calls = {} /\ ~flight_committed
        BY <1>8, <2>1 DEF StartAction, ProtocolInv
      <3> QED
        BY <1>8, <2>1, <3>1, FailLeads
           DEF StartAction, Audited, AuditRaises, Record, Issue, vehicle, Errors, ProtocolInv
    <2>2. CASE seq # 0
      <3>1. /\ pc' # "set_takeoff_altitude"
            /\ calls' \in {calls, calls \cup {"land"}}
        <4>1. mission \in Approved /\ Supported(mission) /\ seq + 1 \in 1..Len(mission)
                /\ seq + 1 # 1
          BY <1>8, <2>2, MissionType DEF StartAction, ProtocolInv, TypeOK
        <4>2. mission[seq + 1] # "takeoff"
          BY <4>1, TakeoffIsFirst
        <4> QED
          BY <1>8, <4>2, FailLeads DEF StartAction, AuditRaises, Issue, vehicle, Errors
      <3> QED
        BY <1>8, <3>1, FailLeads DEF StartAction, AuditRaises, Errors, ProtocolInv
    <2> QED
      BY <2>1, <2>2
  <1>9. CASE AltitudeSet
    BY <1>9 DEF AltitudeSet, Goto, Issue, ProtocolInv
  <1>10. CASE HomePostArm
    BY <1>10, FailLeads
       DEF HomePostArm, VerifyHome, AuditRaises, Record, Issue, vehicle, Errors, ProtocolInv
  <1>11. CASE \/ Connected \/ ConnectionSeen \/ ArmAcknowledged \/ ArmedSeen
              \/ AltitudeReached \/ HoldElapsed \/ LandAcknowledged \/ LoopEnds
              \/ TakeoffAcknowledged \/ LandedSeen
    BY <1>11
       DEF Connected, ConnectionSeen, ArmAcknowledged, ArmedSeen, AltitudeReached, HoldElapsed,
           LandAcknowledged, LoopEnds, TakeoffAcknowledged, LandedSeen, Goto, rest, context,
           vehicle, ProtocolInv
  <1>12. CASE Finish
    BY <1>12 DEF Finish, Goto, vehicle
  <1>12a. CASE LogFailure
    BY <1>12a DEF LogFailure, Goto, vehicle
  <1>12b. CASE StopServer
    BY <1>12b DEF StopServer, vehicle
  <1>13. CASE RecoverFlight \/ RecoverArm
    BY <1>13 DEF RecoverFlight, RecoverArm, Recovered, Goto, Issue, vehicle
  <1>14. CASE \/ DisarmAcknowledged \/ RecoveryLandAcknowledged \/ RecoveryLandedSeen
              \/ RecoveryTimesOut \/ RecoveryRaises
    BY <1>14
       DEF DisarmAcknowledged, RecoveryLandAcknowledged, RecoveryLandedSeen, RecoveryTimesOut,
           RecoveryRaises, Recovered, Goto, rest, context, vehicle
  <1>15. CASE Cancel \/ Interrupt
    BY <1>15, FailLeads DEF Cancel, Interrupt, Recovered, context, vehicle, Errors
  <1> QED
    BY <1>2, <1>3, <1>4, <1>5, <1>6, <1>7, <1>8, <1>9, <1>10, <1>11, <1>12, <1>12a, <1>12b,
       <1>13, <1>14, <1>15
    DEF Next, Execute, Mission, Recovery
LEMMA PaidStep == TypeOK /\ ProtocolInv /\ PaidInv /\ [Next]_vars => PaidInv'
  <1> SUFFICES ASSUME TypeOK, ProtocolInv, PaidInv, [Next]_vars PROVE PaidInv'
    OBVIOUS
  <1>0. consumed \in BOOLEAN /\ consumed' \in BOOLEAN /\ server \in BOOLEAN
    BY TypeStep DEF TypeOK
  <1>g. mission' = mission
    BY NothingForgotten
  <1> USE <1>0, <1>g DEF PaidInv, AuthorizedContact, MissionPcs, CallPcs, WaitPcs, StepPcs,
                         RecoveryPcs, setup
  <1>1. CASE UNCHANGED <<pc, calls, setup>>
    BY <1>1
  <1>2. CASE Environment
    BY <1>1, <1>2, VehiclePending DEF Environment, TypeOK
  <1>3. CASE UNCHANGED vars
    BY <1>1, <1>3 DEF vars, vehicle
  <1>4. CASE Validate \/ Authorize
    BY <1>4 DEF Validate, Authorize, vehicle, ProtocolInv, Before
  <1>5. CASE CreateSystem \/ OpenLog
    BY <1>5 DEF CreateSystem, OpenLog, vehicle, ProtocolInv
  <1>6. CASE StartAction \/ AltitudeSet
    BY <1>6, FailLeads DEF StartAction, AltitudeSet, AuditRaises, Goto, Issue, vehicle, Errors,
                           ProtocolInv
  <1>7. CASE HomePostArm
    BY <1>7, FailLeads DEF HomePostArm, VerifyHome, AuditRaises, Issue, vehicle, Errors,
                           ProtocolInv
  <1>8. CASE HomePreArm \/ CompleteAction \/ CallRaises \/ WaitRaises
    BY <1>8, FailLeads
       DEF HomePreArm, VerifyHome, CompleteAction, AuditRaises, CallRaises, WaitRaises,
           WaitErrors, context, vehicle, Errors
  <1>9. CASE \/ Connected \/ ConnectionSeen \/ ArmAcknowledged \/ ArmedSeen
             \/ AltitudeReached \/ HoldElapsed \/ LandAcknowledged \/ LoopEnds
             \/ TakeoffAcknowledged \/ LandedSeen
    BY <1>9
       DEF Connected, ConnectionSeen, ArmAcknowledged, ArmedSeen, AltitudeReached, HoldElapsed,
           LandAcknowledged, LoopEnds, TakeoffAcknowledged, LandedSeen, Goto, rest, context,
           vehicle
  <1>10. CASE RecoverFlight \/ RecoverArm
    BY <1>10 DEF RecoverFlight, RecoverArm, Recovered, Goto, Issue, vehicle
  <1>11. CASE \/ DisarmAcknowledged \/ RecoveryLandAcknowledged \/ RecoveryLandedSeen
              \/ RecoveryTimesOut \/ RecoveryRaises
    BY <1>11
       DEF DisarmAcknowledged, RecoveryLandAcknowledged, RecoveryLandedSeen, RecoveryTimesOut,
           RecoveryRaises, Recovered, Goto, rest, context, vehicle
  <1>12. CASE Finish \/ LogFailure \/ Crash
    BY <1>12 DEF Finish, LogFailure, Crash, Goto, rest, context, vehicle
  <1>12a. CASE StopServer
    <2>1. pc' \in {"returned", "raised"} /\ calls' = calls /\ consumed' = consumed
      BY <1>12a DEF StopServer, vehicle
    <2>2. server' = FALSE \/ server' = server
      BY <1>12a DEF StopServer
    <2> QED
      BY <2>1, <2>2
  <1>13. CASE Cancel \/ Interrupt
    BY <1>13, FailLeads DEF Cancel, Interrupt, Recovered, context, vehicle, Errors
  <1> QED
    BY <1>2, <1>3, <1>4, <1>5, <1>6, <1>7, <1>8, <1>9, <1>10, <1>11, <1>12, <1>12a,
       <1>13
    DEF Next, Execute, Mission, Recovery

\* The two verdicts are the business of two actions.
LEMMA WhoRecords ==
    ASSUME TypeOK, [Next]_vars
    PROVE  /\ <<"mission_completed", 0>> \in log' => Finish \/ <<"mission_completed", 0>> \in log
           /\ <<"mission_failed", 0>> \in log' => LogFailure \/ <<"mission_failed", 0>> \in log
  <1>1. CASE UNCHANGED log
    BY <1>1
  <1>2. CASE Mission /\ ~Finish
    BY <1>2 DEF Mission, Connected, ConnectionSeen, HomePreArm, StartAction, AltitudeSet,
        ArmAcknowledged, ArmedSeen, HomePostArm, TakeoffAcknowledged, AltitudeReached,
        HoldElapsed, LandAcknowledged, LandedSeen, CompleteAction, LoopEnds,
        CallRaises, WaitRaises, VerifyHome, AuditRaises, Audited, BestEffort, Record,
        rest, context
  <1>3. CASE Finish \/ LogFailure \/ OpenLog
    BY <1>3 DEF Finish, LogFailure, OpenLog, BestEffort, Record
  <1>4. CASE Recovery
    BY <1>1, <1>4 DEF Recovery, RecoverFlight, RecoverArm, DisarmAcknowledged,
        RecoveryLandAcknowledged, RecoveryLandedSeen, RecoveryTimesOut, RecoveryRaises,
        rest, context
  <1>5. CASE \/ Validate \/ Authorize \/ CreateSystem \/ StopServer
             \/ Cancel \/ Interrupt \/ Crash \/ Environment \/ UNCHANGED vars
    BY <1>1, <1>5 DEF Validate, Authorize, CreateSystem, StopServer, Cancel, Interrupt, Crash,
        Environment, rest, context, vars
  <1> QED
    BY <1>2, <1>3, <1>4, <1>5 DEF Next, Execute

\* What a run that is on its way out can still change: where it is, and who is told.
LEMMA OnTheWayOut ==
    ASSUME TypeOK, [Next]_vars, pc \in {"stop"} \cup EndedPcs
    PROVE  /\ pc' \in {"stop"} \cup EndedPcs
           /\ UNCHANGED <<log, seq, error, recovery>>
  <1> USE DEF EndedPcs
  <1>1. CASE Environment \/ UNCHANGED vars
    BY <1>1 DEF Environment, outcome, vars
  <1>2. CASE StopServer \/ Crash
    BY <1>2 DEF StopServer, Crash, outcome, rest, context
  <1>3. ~Mission
    BY DEF Mission, Connected, ConnectionSeen, HomePreArm, StartAction, AltitudeSet,
        ArmAcknowledged, ArmedSeen, HomePostArm, TakeoffAcknowledged, AltitudeReached,
        HoldElapsed, LandAcknowledged, LandedSeen, CompleteAction, LoopEnds, Finish,
        CallRaises, WaitRaises, Goto, CallPcs, WaitPcs
  <1>4. ~Recovery
    BY DEF Recovery, RecoverFlight, RecoverArm, DisarmAcknowledged, RecoveryLandAcknowledged,
        RecoveryLandedSeen, RecoveryTimesOut, RecoveryRaises, RecoveryPcs, Goto
  <1>5. ~(Validate \/ Authorize \/ CreateSystem \/ OpenLog \/ LogFailure)
    BY DEF Validate, Authorize, CreateSystem, OpenLog, LogFailure, Goto
  <1>6. ~(Cancel \/ Interrupt)
    BY DEF Cancel, Interrupt, MissionPcs, CallPcs, WaitPcs, StepPcs, RecoveryPcs
  <1> QED
    BY <1>1, <1>2, <1>3, <1>4, <1>5, <1>6 DEF Next, Execute
\* Where the run's last stretch is entered from.
LEMMA EnteringVerdict ==
    ASSUME TypeOK, ProtocolInv, VerdictInv, [Next]_vars
    PROVE  /\ pc' = "hold" => seq' >= 1 /\ mission'[seq'] = "hold"
           /\ pc' \in {"landing", "await_landed"} => "land" \in calls'
           /\ pc' \in {"complete", "next"} /\ seq' > 0 /\ mission'[seq'] = "land" =>
                 "land" \in calls'
           /\ pc' = "finish" => seq' = Len(mission') /\ "land" \in calls'
           /\ pc' = "log_failure" => recovery' # "none"
  <1>0. seq \in Nat /\ Len(mission) \in Nat
    BY MissionType DEF TypeOK
  <1>g. calls \subseteq calls' /\ mission' = mission
    BY NothingForgotten
  <1> USE <1>0, <1>g DEF VerdictInv, StepPcs, setup, outcome
  <1>1. CASE Environment \/ UNCHANGED vars
    BY <1>1 DEF Environment, vars
  <1>2. CASE StartAction
    BY <1>2, FailLeads DEF StartAction, AuditRaises, Issue, Errors
  <1>3. CASE AltitudeReached
    <2>1. mission[seq] = "takeoff"
      BY <1>3, ApprovedAssumption
      DEF AltitudeReached, Goto, TakeoffHoldLand, ProtocolInv, TakeoffPcs, MissionPcs, WaitPcs
    <2> QED
      BY <1>3, <2>1 DEF AltitudeReached, Goto, rest, context
  <1>4. CASE LoopEnds
    <2>1. TakeoffHoldLand(mission)
      BY <1>4, ApprovedAssumption DEF LoopEnds, Goto, ProtocolInv, MissionPcs
    <2>2. seq = Len(mission) /\ seq > 0 /\ mission[seq] = "land"
      BY <1>4, <2>1 DEF LoopEnds, TakeoffHoldLand
    <2> QED
      BY <1>4, <2>2 DEF LoopEnds, Goto, rest, context
  <1>5. CASE \/ Connected \/ ConnectionSeen \/ ArmAcknowledged \/ ArmedSeen
             \/ HoldElapsed \/ LandAcknowledged \/ TakeoffAcknowledged \/ LandedSeen
             \/ AltitudeSet
    BY <1>5
       DEF Connected, ConnectionSeen, ArmAcknowledged, ArmedSeen, HoldElapsed, LandAcknowledged,
           TakeoffAcknowledged, LandedSeen, AltitudeSet, Goto, rest, context
  <1>6. CASE CompleteAction \/ CallRaises \/ WaitRaises
    BY <1>6, FailLeads DEF CompleteAction, AuditRaises, CallRaises, WaitRaises, WaitErrors, Errors
  <1>7. CASE HomePreArm \/ HomePostArm
    BY <1>7, FailLeads DEF HomePreArm, HomePostArm, VerifyHome, AuditRaises, Errors,
                           ProtocolInv
  <1>8. CASE \/ Finish \/ LogFailure \/ StopServer \/ Crash
             \/ Validate \/ Authorize \/ CreateSystem \/ OpenLog
    BY <1>8 DEF Finish, LogFailure, StopServer, Crash, Validate, Authorize, CreateSystem,
                OpenLog, Goto
  <1>9. CASE Recovery
    <2>1. \/ pc' \in {"disarming", "rec_landing", "rec_await_landed"}
          \/ (pc' = "log_failure" /\ recovery' # "none")
      BY <1>9 DEF Recovery, RecoverFlight, RecoverArm, DisarmAcknowledged, Recovered, Goto,
          RecoveryLandAcknowledged, RecoveryLandedSeen, RecoveryTimesOut, RecoveryRaises
    <2> QED
      BY <2>1
  <1>10. CASE Cancel \/ Interrupt
    <2>1. \/ (pc' = pc /\ pc \in RecoveryPcs)
          \/ pc' \in {"recover", "stop"}
          \/ (pc' = "log_failure" /\ recovery' # "none")
      <3>1. CASE Cancel
        BY <1>10, <3>1, FailLeads DEF Cancel, Errors
      <3>2. CASE Interrupt
        BY <1>10, <3>2, FailLeads DEF Interrupt, Recovered, Errors
      <3> QED
        BY <1>10, <3>1, <3>2
    <2> QED
      BY <2>1 DEF RecoveryPcs
  <1> QED
    BY <1>1, <1>2, <1>3, <1>4, <1>5, <1>6, <1>7, <1>8, <1>9, <1>10
    DEF Next, Execute, Mission

LEMMA VerdictStep == TypeOK /\ ProtocolInv /\ VerdictInv /\ [Next]_vars => VerdictInv'
  <1> SUFFICES ASSUME TypeOK, ProtocolInv, VerdictInv, [Next]_vars PROVE VerdictInv'
    OBVIOUS
  <1> DEFINE Completed == <<"mission_completed", 0>> \in log
             Failed    == <<"mission_failed", 0>> \in log
  <1>g. calls \subseteq calls' /\ mission' = mission
    BY NothingForgotten
  <1>1. CASE Completed \/ Failed
    <2>1. pc \in {"stop"} \cup EndedPcs
      BY <1>1 DEF VerdictInv
    <2>2. pc' \in {"stop"} \cup EndedPcs /\ UNCHANGED <<log, seq, error, recovery>>
      BY <2>1, OnTheWayOut
    <2>3. OneVerdict'
      BY <1>g, <2>2 DEF VerdictInv, OneVerdict
    <2> QED
      BY <2>2, <2>3, EnteringVerdict DEF VerdictInv
  <1>2. CASE ~Completed /\ ~Failed /\ Finish
    <2>1. ~Failed'
      <3>1. ~LogFailure
        BY <1>2 DEF Finish, LogFailure, Goto
      <3> QED
        BY <1>2, <3>1, WhoRecords
    <2>2. pc' = "stop" /\ seq' = Len(mission') /\ "land" \in calls'
      BY <1>2, <1>g DEF Finish, Goto, VerdictInv
    <2> QED
      BY <2>1, <2>2, EnteringVerdict DEF VerdictInv, OneVerdict
  <1>3. CASE ~Completed /\ ~Failed /\ LogFailure
    <2>1. ~Completed'
      <3>1. ~Finish
        BY <1>3 DEF Finish, LogFailure, Goto
      <3> QED
        BY <1>3, <3>1, WhoRecords
    <2>2. pc' = "stop" /\ error' # "none" /\ recovery' # "none"
      BY <1>3 DEF LogFailure, Goto, VerdictInv, ProtocolInv, outcome
    <2> QED
      BY <2>1, <2>2, EnteringVerdict DEF VerdictInv, OneVerdict
  <1>4. CASE ~Completed /\ ~Failed /\ ~Finish /\ ~LogFailure
    <2>1. ~Completed' /\ ~Failed'
      BY <1>4, WhoRecords
    <2> QED
      BY <2>1, EnteringVerdict DEF VerdictInv, OneVerdict
  <1> QED
    BY <1>1, <1>2, <1>3, <1>4
-----------------------------------------------------------------------------
(* The plan: which commands have been sent at each place of the try block. *)

\* What has been sent, and what the flags say of it, by how far the mission is.
PlanInv ==
    /\ \/ pc \in Before \cup {"connect", "await_connected", "home_pre", "set_takeoff_altitude"}
       \/ pc = "next" /\ seq = 0
       => calls = {} /\ ~recovery_required
    /\ pc \in {"arming", "await_armed", "home_post"} => calls = {"arm"}
    /\ pc \in {"taking_off", "await_altitude"} => calls = {"arm", "takeoff"}
    /\ pc \in {"await_altitude", "hold", "complete", "landing", "await_landed"} =>
          flight_committed
    /\ pc = "hold" => 1 < seq /\ seq < Len(mission)
    /\ pc = "complete" => 1 <= seq
    /\ pc \in {"hold"} \cup StepPcs /\ 1 <= seq /\ seq < Len(mission) =>
          calls = {"arm", "takeoff"} /\ recovery_required /\ flight_committed
    /\ pc \in {"landing", "await_landed"} =>
          seq = Len(mission) /\ calls = {"arm", "takeoff", "land"} /\ recovery_required
    /\ pc = "finish" \/ (pc \in StepPcs /\ 1 <= seq /\ seq = Len(mission)) =>
          calls = {"arm", "takeoff", "land"} /\ ~recovery_required /\ flight_committed
    /\ pc = "recover" => "arm" \in calls /\ "disarm" \notin calls
                            /\ ("takeoff" \notin calls => calls = {"arm"})
    /\ pc = "disarming" => calls = {"arm", "disarm"}
    /\ pc \in {"rec_landing", "rec_await_landed"} => "land" \in calls

\* The mission of a run that is in the try block.
LEMMA MissionShape ==
    ASSUME TypeOK, ProtocolInv, pc \in MissionPcs
    PROVE  /\ TakeoffHoldLand(mission)
           /\ Len(mission) \in Nat /\ Len(mission) >= 2
           /\ \A i \in 1..Len(mission) :
                 /\ mission[i] = "takeoff" => i = 1
                 /\ mission[i] = "hold" => 1 < i /\ i < Len(mission)
                 /\ mission[i] = "land" => i = Len(mission)
                 /\ mission[i] \in {"takeoff", "hold", "land"}
  <1>1. TakeoffHoldLand(mission)
    BY ApprovedAssumption DEF ProtocolInv
  <1>2. Len(mission) \in Nat
    BY MissionType DEF TypeOK
  <1> QED
    BY <1>1, <1>2 DEF TakeoffHoldLand

\* In the try block recovery is required from the arm call on, until the landing.
LEMMA WhatIsDue ==
    ASSUME TypeOK, ProtocolInv, PlanInv, pc \in MissionPcs
    PROVE  /\ recovery_required <=> "arm" \in calls /\ ~(pc \in StepPcs /\ seq = Len(mission))
           /\ recovery_required => "disarm" \notin calls
                                    /\ ("takeoff" \notin calls => calls = {"arm"})
  <1>0. /\ seq \in 0..Len(mission) /\ Len(mission) \in Nat /\ Len(mission) >= 2
        /\ recovery_required \in BOOLEAN
    BY MissionShape DEF TypeOK
  <1> USE <1>0 DEF PlanInv, ProtocolInv, TakeoffPcs, Before, CallPcs, WaitPcs
  <1>1. CASE pc \in StepPcs
    <2>1. seq = 0 \/ (1 <= seq /\ seq < Len(mission)) \/ (1 <= seq /\ seq = Len(mission))
      OBVIOUS
    <2>2. seq = 0 => pc = "next" /\ Len(mission) # 0
      BY <1>1 DEF StepPcs
    <2> QED
      BY <1>1, <2>1, <2>2
  <1>2. CASE pc \notin StepPcs
    BY <1>2 DEF MissionPcs
  <1> QED
    BY <1>1, <1>2

LEMMA PlanInvStep == TypeOK /\ ProtocolInv /\ PlanInv /\ [Next]_vars => PlanInv'
  <1> SUFFICES ASSUME TypeOK, ProtocolInv, PlanInv, [Next]_vars PROVE PlanInv'
    OBVIOUS
  <1>0. /\ seq \in Nat /\ Len(mission) \in Nat
        /\ takeoff_attempted \in BOOLEAN /\ recovery_required \in BOOLEAN
        /\ flight_committed \in BOOLEAN /\ recovery_required' \in BOOLEAN
    BY MissionType, TypeStep DEF TypeOK
  <1> USE <1>0 DEF PlanInv, Before, MissionPcs, RecoveryPcs, CallPcs,
                   WaitPcs, StepPcs, setup, flags, outcome
  <1>1. CASE UNCHANGED <<pc, calls, setup, seq, flags>>
    BY <1>1
  <1>2. CASE Environment
    BY <1>1, <1>2, VehiclePending DEF Environment, TypeOK
  <1>3. CASE Crash
    BY <1>3 DEF Crash, rest, context, vehicle
  <1>4. CASE UNCHANGED vars
    BY <1>1, <1>4 DEF vars, vehicle
  <1>5. CASE Validate \/ Authorize
    BY <1>5 DEF Validate, Authorize, vehicle
  <1>6. CASE CreateSystem \/ OpenLog
    BY <1>6 DEF CreateSystem, OpenLog, vehicle
  <1>7. CASE HomePreArm
    BY <1>7, FailLeads DEF HomePreArm, VerifyHome, AuditRaises, vehicle, Errors, ProtocolInv
  <1>8. CASE CallRaises \/ WaitRaises
    BY <1>8, FailLeads DEF CallRaises, WaitRaises, WaitErrors, context, vehicle, Errors,
                           ProtocolInv, TakeoffPcs
  <1>9. CASE StartAction
    BY <1>9, FailLeads, MissionShape DEF StartAction, AuditRaises, Issue, vehicle, Errors
  <1>10. CASE AltitudeSet
    BY <1>10 DEF AltitudeSet, Goto, Issue
  <1>11. CASE HomePostArm
    BY <1>11, FailLeads DEF HomePostArm, VerifyHome, AuditRaises, Issue, vehicle, Errors
  <1>12. CASE CompleteAction
    BY <1>12 DEF CompleteAction, AuditRaises, vehicle
  <1>13. CASE AltitudeReached \/ HoldElapsed
    BY <1>13, MissionShape DEF AltitudeReached, HoldElapsed, Goto, rest, context, vehicle,
                               ProtocolInv, TakeoffPcs
  <1>14. CASE \/ Connected \/ ConnectionSeen \/ ArmAcknowledged \/ ArmedSeen
              \/ LandAcknowledged \/ TakeoffAcknowledged
    BY <1>14
       DEF Connected, ConnectionSeen, ArmAcknowledged, ArmedSeen, LandAcknowledged,
           TakeoffAcknowledged, Goto, rest, context, vehicle
  <1>15. CASE LandedSeen \/ LoopEnds
    BY <1>15, MissionShape DEF LandedSeen, LoopEnds, Goto, rest, context, vehicle
  <1>16. CASE Finish \/ LogFailure
    BY <1>16 DEF Finish, LogFailure, Goto, vehicle
  <1>18. CASE StopServer
    BY <1>18 DEF StopServer, vehicle
  <1>19. CASE RecoverFlight
    BY <1>19 DEF RecoverFlight, Goto, Issue
  <1>20. CASE RecoverArm
    BY <1>20 DEF RecoverArm, Recovered, Issue, vehicle, ProtocolInv
  <1>21. CASE \/ DisarmAcknowledged \/ RecoveryLandAcknowledged \/ RecoveryLandedSeen
    BY <1>21
       DEF DisarmAcknowledged, RecoveryLandAcknowledged, RecoveryLandedSeen, Recovered, Goto,
           rest, context, vehicle
  <1>22. CASE RecoveryTimesOut \/ RecoveryRaises
    BY <1>22 DEF RecoveryTimesOut, RecoveryRaises, Recovered, context, vehicle
  <1>23. CASE Cancel \/ Interrupt
    BY <1>23, FailLeads, WhatIsDue DEF Cancel, Interrupt, Recovered, context, vehicle, Errors
  <1> QED
    BY <1>2, <1>3, <1>4, <1>5, <1>6, <1>7, <1>8, <1>9, <1>10, <1>11, <1>12, <1>13, <1>14,
       <1>15, <1>16, <1>18, <1>19, <1>20, <1>21, <1>22, <1>23
    DEF Next, Execute, Mission, Recovery

-----------------------------------------------------------------------------
(* The refinement: every step of a run is a step of the flight planned, or none. *)

\* The wait of the plan, place by place.
WaitIs ==
    /\ pc \in Before => Waits[pc] = "begin"
    /\ pc = "connect" => Waits[pc] = "connect"
    /\ pc = "await_connected" => Waits[pc] = "connection"
    /\ pc = "home_pre" => Waits[pc] = "home"
    /\ pc \in {"set_takeoff_altitude", "arming"} => Waits[pc] = "arm"
    /\ pc = "await_armed" => Waits[pc] = "armed"
    /\ pc = "home_post" => Waits[pc] = "postHome"
    /\ pc = "taking_off" => Waits[pc] = "takeoff"
    /\ pc = "await_altitude" => Waits[pc] = "climb"
    /\ pc = "hold" => Waits[pc] = "hold"
    /\ pc = "landing" => Waits[pc] = "land"
    /\ pc = "await_landed" => Waits[pc] = "descent"
    /\ pc \in StepPcs => Waits[pc] = Upcoming
    /\ pc = "finish" => Waits[pc] = "landed"
    /\ pc \in RecoveryPcs => Waits[pc] = "recovery"
    /\ pc = "log_failure" => Waits[pc] = "closing"
    /\ pc \in {"stop", "returned", "raised"} => Waits[pc] = "none"
    /\ pc = "crashed" => Waits[pc] = "gone"

LEMMA WaitFacts == TypeOK => WaitIs
  <1> SUFFICES ASSUME TypeOK PROVE WaitIs
    OBVIOUS
  <1>1. pc \in PCs
    BY DEF TypeOK
  <1> HIDE DEF Upcoming
  <1> QED
    BY <1>1 DEF WaitIs, Waits, PCs, Before, MissionPcs, RecoveryPcs, EndedPcs, CallPcs,
        WaitPcs, StepPcs

LEMMA WaitFactsNext == TypeOK' => WaitIs'
  BY WaitFacts, PTL

\* What the head of the loop leads to.
LEMMA UpcomingIs ==
    ASSUME TypeOK, ProtocolInv, pc \in MissionPcs
    PROVE  /\ seq = 0 => Upcoming = "arm"
           /\ seq = Len(mission) => Upcoming = "landed"
           /\ 1 <= seq /\ seq < Len(mission) =>
                 Upcoming = mission[seq + 1] /\ Upcoming \in {"hold", "land"}
  <1>1. /\ TakeoffHoldLand(mission) /\ Len(mission) \in Nat /\ Len(mission) >= 2
        /\ \A i \in 1..Len(mission) :
              (mission[i] = "takeoff" => i = 1) /\ mission[i] \in {"takeoff", "hold", "land"}
    BY MissionShape
  <1>2. seq \in 0..Len(mission)
    BY DEF TypeOK
  <1>3. mission[1] = "takeoff"
    BY <1>1 DEF TakeoffHoldLand
  <1>4. ASSUME 1 <= seq, seq < Len(mission)
        PROVE  mission[seq + 1] \in {"hold", "land"}
    <2>1. seq + 1 \in 1..Len(mission) /\ seq + 1 # 1
      BY <1>1, <1>2, <1>4
    <2> QED
      BY <1>1, <2>1
  <1> QED
    BY <1>1, <1>2, <1>3, <1>4 DEF Upcoming

\* The waits an exception of the mission can leave, and where to.
LEMMA RaisesAsPlanned ==
    ASSUME TypeOK, TypeOK', ProtocolInv, PlanInv, NEW e \in Errors, Fail(e), calls' = calls,
           pc \in MissionPcs, ~(pc \in StepPcs /\ seq = Len(mission))
    PROVE  Plan!Raise
  <1>1. WaitIs /\ WaitIs'
    BY WaitFacts, WaitFactsNext
  <1>2. /\ recovery_required <=> "arm" \in calls
        /\ recovery_required \in BOOLEAN
    BY WhatIsDue DEF TypeOK
  <1>3. IF "arm" \in calls
        THEN Waits[pc]' = "recovery" /\ UNCHANGED recovery
        ELSE Waits[pc]' = "closing" /\ recovery' = "not_required"
    BY <1>1, <1>2, FailLeads DEF WaitIs, RecoveryPcs
  <1>4. /\ Waits[pc] \in {"connect", "connection", "home"} => calls = {}
        /\ Waits[pc] \in {"armed", "postHome", "takeoff", "climb", "hold", "land", "descent"} =>
              "arm" \in calls
        /\ Waits[pc] \in {"connect", "connection", "home", "arm", "armed", "postHome", "takeoff",
                          "climb", "hold", "land", "descent"}
    <2>1. CASE pc \in StepPcs
      <3>0. seq \in 0..Len(mission) /\ Len(mission) \in Nat
        BY MissionShape DEF TypeOK
      <3>1. CASE seq = 0
        BY <1>1, <2>1, <3>1, UpcomingIs DEF WaitIs, PlanInv
      <3>2. CASE 1 <= seq /\ seq < Len(mission)
        BY <1>1, <2>1, <3>2, UpcomingIs DEF WaitIs, PlanInv
      <3> QED
        BY <2>1, <3>0, <3>1, <3>2
    <2>2. CASE pc \notin StepPcs
      <3>1. pc \in {"connect", "await_connected", "home_pre"} =>
              Waits[pc] \in {"connect", "connection", "home"} /\ calls = {}
        BY <1>1 DEF WaitIs, PlanInv
      <3>2. pc \in {"set_takeoff_altitude", "arming"} => Waits[pc] = "arm"
        BY <1>1 DEF WaitIs
      <3>3. pc \in {"await_armed", "home_post", "taking_off", "await_altitude", "hold", "landing",
                  "await_landed"} => "arm" \in calls
        <4>1. pc = "hold" => 1 <= seq /\ seq < Len(mission)
          BY MissionShape DEF PlanInv, TypeOK
        <4> QED
          BY <4>1 DEF PlanInv
      <3>4. pc \in {"await_armed", "home_post", "taking_off", "await_altitude", "hold", "landing",
                  "await_landed"} =>
              Waits[pc] \in {"armed", "postHome", "takeoff", "climb", "hold", "land", "descent"}
        BY <1>1 DEF WaitIs
      <3>5. \/ pc \in {"connect", "await_connected", "home_pre", "set_takeoff_altitude", "arming"}
            \/ pc \in {"await_armed", "home_post", "taking_off", "await_altitude", "hold",
                       "landing", "await_landed"}
        BY <2>2 DEF MissionPcs, CallPcs, WaitPcs
      <3> QED
        BY <3>1, <3>2, <3>3, <3>4, <3>5
    <2> QED
      BY <2>1, <2>2
  <1>5. Plan!Blames
    BY FailLeads DEF Plan!Blames
  <1> HIDE DEF Plan!Blames
  <1> QED
    BY <1>3, <1>4, <1>5 DEF Plan!Raise, Plan!Follows, Plan!Leaves

\* Each step of the run, and the step of the plan it takes.
LEMMA StepAsPlanned ==
    ASSUME TypeOK, TypeOK', ProtocolInv, PlanInv, PlanInv', [Next]_vars
    PROVE  [Plan!Next]_(Plan!vars)
  <1> DEFINE Same == UNCHANGED <<Waits[pc], calls, error, recovery>>
  <1>w. WaitIs /\ WaitIs'
    BY WaitFacts, WaitFactsNext
  <1>0. seq \in 0..Len(mission) /\ Len(mission) \in Nat
    BY MissionType DEF TypeOK
  <1>s. Same => [Plan!Next]_(Plan!vars)
    BY DEF Plan!vars
  <1>n. Plan!Next => [Plan!Next]_(Plan!vars)
    OBVIOUS
  <1> USE <1>0 DEF setup, flags, outcome
  <1>1. CASE Environment \/ UNCHANGED vars
    <2>1. UNCHANGED <<pc, seq, mission, calls, error, recovery>>
      BY <1>1, VehiclePending DEF Environment, vars, vehicle, TypeOK
    <2>2. Waits' = Waits
      BY <2>1 DEF Waits, Upcoming
    <2> QED
      BY <1>s, <2>1, <2>2
  <1>2. CASE Crash
    <2>1. Plan!Die
      BY <1>2, <1>w DEF Crash, WaitIs, Plan!Die, rest, context, vehicle
    <2> QED
      BY <2>1 DEF Plan!Next
  <1>3. CASE Validate \/ Authorize \/ CreateSystem
    <2>1. Same \/ Plan!Refuse
      BY <1>3, <1>w DEF Validate, Authorize, CreateSystem, WaitIs, Before, Errors, vehicle,
                        Plan!Refuse, Plan!Blames
    <2> QED
      BY <1>s, <2>1 DEF Plan!Next
  <1>4. CASE OpenLog
    <2>1. Plan!Arrive \/ Plan!Refuse
      BY <1>4, <1>w DEF OpenLog, WaitIs, Before, Errors, vehicle,
                        Plan!Refuse, Plan!Blames, Plan!Arrive, Plan!Follows
    <2> QED
      BY <2>1 DEF Plan!Next
  <1>5. CASE Connected \/ ConnectionSeen \/ ArmedSeen \/ TakeoffAcknowledged
    <2>1. Plan!Arrive
      BY <1>5, <1>w DEF Connected, ConnectionSeen, ArmedSeen, TakeoffAcknowledged, Goto, WaitIs,
                        PlanInv, rest, context, vehicle, Plan!Arrive, Plan!Follows
    <2> QED
      BY <2>1 DEF Plan!Next
  <1>6. CASE ArmAcknowledged \/ LandAcknowledged
    <2>1. Plan!Arrive
      BY <1>6, <1>w DEF ArmAcknowledged, LandAcknowledged, Goto, WaitIs, PlanInv, rest, context,
                        vehicle, Plan!Arrive, Plan!Follows
    <2> QED
      BY <2>1 DEF Plan!Next
  <1>7. CASE AltitudeSet
    <2>1. Plan!Send("arm")
      BY <1>7, <1>w DEF AltitudeSet, Goto, Issue, WaitIs, Plan!Send
    <2> QED
      BY <2>1 DEF Plan!Next
  <1>8. CASE HomePreArm
    <2>1. pc \in MissionPcs /\ pc \notin StepPcs /\ calls' = calls /\ seq = 0
            /\ UNCHANGED <<mission, seq>>
      BY <1>8 DEF HomePreArm, MissionPcs, WaitPcs, StepPcs, ProtocolInv, vehicle
    <2>2. Upcoming' = "arm"
      BY <2>1, UpcomingIs DEF Upcoming
    <2>3. CASE pc' = "next" /\ UNCHANGED outcome
      <3>1. Plan!Arrive
        BY <1>8, <1>w, <2>1, <2>2, <2>3 DEF HomePreArm, WaitIs, StepPcs, Plan!Arrive, Plan!Follows
      <3> QED
        BY <3>1 DEF Plan!Next
    <2>4. CASE Fail("OSError") \/ Fail("HomeMismatchError")
      <3>1. Plan!Raise
        BY <2>1, <2>4, RaisesAsPlanned DEF Errors
      <3> QED
        BY <3>1 DEF Plan!Next
    <2> QED
      BY <1>8, <2>3, <2>4 DEF HomePreArm, VerifyHome, AuditRaises
  <1>9. CASE HomePostArm
    <2>1. pc \in MissionPcs /\ pc \notin StepPcs
      BY <1>9 DEF HomePostArm, MissionPcs, WaitPcs, StepPcs
    <2>2. CASE pc' = "taking_off" /\ UNCHANGED outcome
      <3>1. Plan!Arrive
        BY <1>9, <1>w, <2>2 DEF HomePostArm, Issue, WaitIs, Plan!Arrive, Plan!Follows
      <3> QED
        BY <3>1 DEF Plan!Next
    <2>3. ASSUME NEW e \in Errors, Fail(e) PROVE Plan!Next
      <3>1. calls' = calls
        BY <1>9, <2>3, FailLeads DEF HomePostArm, vehicle
      <3>2. Plan!Raise
        BY <2>1, <2>3, <3>1, RaisesAsPlanned
      <3> QED
        BY <3>2 DEF Plan!Next
    <2> QED
      BY <1>9, <2>2, <2>3 DEF HomePostArm, VerifyHome, AuditRaises, Errors, Plan!Next
  <1>10. CASE AltitudeReached \/ HoldElapsed
    <2>1. /\ pc \in MissionPcs /\ pc' = "complete" /\ Waits[pc] \in {"climb", "hold"}
          /\ UNCHANGED <<mission, seq, calls, error, recovery>>
      BY <1>10, <1>w DEF AltitudeReached, HoldElapsed, Goto, WaitIs, MissionPcs, WaitPcs, rest,
                         context, vehicle
    <2>2. 1 <= seq /\ seq < Len(mission)
      BY <1>10, <2>1, MissionShape DEF AltitudeReached, HoldElapsed, Goto, PlanInv, ProtocolInv,
                                       TakeoffPcs
    <2>3. Upcoming' \in {"hold", "land"}
      <3>1. Upcoming' = Upcoming
        BY <2>1 DEF Upcoming
      <3> QED
        BY <2>1, <2>2, <3>1, UpcomingIs
    <2>4. Plan!Arrive
      BY <1>w, <2>1, <2>3 DEF WaitIs, StepPcs, Plan!Arrive, Plan!Follows
    <2> QED
      BY <2>4 DEF Plan!Next
  <1>11. CASE LandedSeen
    <2>1. /\ pc = "await_landed" /\ pc' = "complete" /\ seq = Len(mission)
          /\ UNCHANGED <<mission, seq, calls, error, recovery>>
      BY <1>11 DEF LandedSeen, Goto, PlanInv, vehicle
    <2>2. Upcoming' = "landed"
      BY <2>1 DEF Upcoming
    <2>3. Plan!Arrive
      BY <1>w, <2>1, <2>2 DEF WaitIs, StepPcs, Plan!Arrive, Plan!Follows
    <2> QED
      BY <2>3 DEF Plan!Next
  <1>12. CASE CompleteAction \/ LoopEnds
    <2>1. /\ pc \in StepPcs
          /\ \/ pc' \in StepPcs
             \/ pc' = "finish" /\ seq = Len(mission)
          /\ UNCHANGED <<mission, seq, calls, error, recovery>>
      BY <1>12 DEF CompleteAction, LoopEnds, AuditRaises, Goto, StepPcs, PlanInv, rest, context,
                   vehicle
    <2>2. Upcoming' = Upcoming /\ (seq = Len(mission) => Upcoming = "landed")
      BY <2>1 DEF Upcoming
    <2>3. Same
      BY <1>w, <2>1, <2>2 DEF WaitIs
    <2> QED
      BY <1>s, <2>3
  <1>13. CASE StartAction
    <2>1. /\ pc = "next" /\ pc \in MissionPcs /\ seq < Len(mission) /\ UNCHANGED mission
          /\ Waits[pc] = Upcoming
      BY <1>13, <1>w DEF StartAction, MissionPcs, StepPcs, WaitIs
    <2>2. CASE AuditRaises /\ UNCHANGED vehicle
      <3>1. Plan!Raise
        BY <2>1, <2>2, RaisesAsPlanned DEF AuditRaises, vehicle, Errors
      <3> QED
        BY <3>1 DEF Plan!Next
    <2>3. CASE /\ pc' \in {"set_takeoff_altitude", "hold"} /\ UNCHANGED <<vehicle, outcome>>
               /\ pc' = "hold" => mission[seq + 1] = "hold"
               /\ pc' = "set_takeoff_altitude" => mission[seq + 1] = "takeoff"
      <3>1. Same
        BY <1>w, <2>1, <2>3 DEF WaitIs, Upcoming, vehicle
      <3> QED
        BY <1>s, <3>1
    <2>4. CASE mission[seq + 1] = "land" /\ pc' = "landing" /\ Issue("land") /\ UNCHANGED outcome
      <3>1. Plan!Send("land")
        BY <1>w, <2>1, <2>4 DEF WaitIs, Upcoming, Issue, Plan!Send
      <3> QED
        BY <3>1 DEF Plan!Next
    <2> QED
      BY <1>13, <2>2, <2>3, <2>4 DEF StartAction
  <1>14. CASE Finish \/ LogFailure
    <2>1. Plan!Close
      BY <1>14, <1>w DEF Finish, LogFailure, Goto, WaitIs, Plan!Close, vehicle
    <2> QED
      BY <2>1 DEF Plan!Next
  <1>15. CASE StopServer
    <2>1. Same
      BY <1>15, <1>w DEF StopServer, WaitIs, vehicle
    <2> QED
      BY <1>s, <2>1
  <1>16. CASE CallRaises \/ WaitRaises
    <2>1. pc \in MissionPcs /\ pc \notin StepPcs /\ calls' = calls
      BY <1>16 DEF CallRaises, WaitRaises, MissionPcs, CallPcs, WaitPcs, StepPcs, context, vehicle
    <2>2. PICK e \in Errors : Fail(e)
      BY <1>16 DEF CallRaises, WaitRaises, WaitErrors, Errors
    <2>3. Plan!Raise
      BY <2>1, <2>2, RaisesAsPlanned
    <2> QED
      BY <2>3 DEF Plan!Next
  <1>17. CASE RecoverFlight \/ RecoverArm
    <2>1. CASE pc' = "rec_landing"
      <3>1. Plan!Clean("land")
        BY <1>17, <1>w, <2>1 DEF RecoverFlight, RecoverArm, Goto, Recovered, Issue, WaitIs,
                                 RecoveryPcs, PlanInv, Plan!Clean
      <3> QED
        BY <3>1 DEF Plan!Next
    <2>2. CASE pc' = "disarming"
      <3>1. Plan!Clean("disarm")
        BY <1>17, <1>w, <2>2 DEF RecoverFlight, RecoverArm, Goto, Recovered, Issue, WaitIs,
                                 RecoveryPcs, PlanInv, ProtocolInv, Plan!Clean
      <3> QED
        BY <3>1 DEF Plan!Next
    <2>3. CASE pc' \notin {"rec_landing", "disarming"}
      <3>1. Plan!Settle
        BY <1>17, <1>w, <2>3 DEF RecoverFlight, RecoverArm, Goto, Recovered, vehicle, WaitIs,
                                 RecoveryPcs, ProtocolInv, Plan!Settle, Plan!Cleanups
      <3> QED
        BY <3>1 DEF Plan!Next
    <2> QED
      BY <2>1, <2>2, <2>3
  <1>18. CASE RecoveryLandAcknowledged
    <2>1. Same
      BY <1>18, <1>w DEF RecoveryLandAcknowledged, Goto, WaitIs, RecoveryPcs, rest, context, vehicle
    <2> QED
      BY <1>s, <2>1
  <1>19. CASE DisarmAcknowledged \/ RecoveryLandedSeen \/ RecoveryTimesOut \/ RecoveryRaises
    <2>1. Plan!Settle
      BY <1>19, <1>w DEF DisarmAcknowledged, RecoveryLandedSeen, RecoveryTimesOut, RecoveryRaises,
                         Recovered, WaitIs, RecoveryPcs, context, vehicle, PlanInv, ProtocolInv,
                         Plan!Settle, Plan!Cleanups
    <2> QED
      BY <2>1 DEF Plan!Next
  <1>20. CASE Cancel
    <2>1. CASE pc \in MissionPcs \ StepPcs /\ Fail("CancelledError")
      <3>1. Plan!Raise
        BY <1>20, <2>1, RaisesAsPlanned DEF Cancel, vehicle, Errors
      <3> QED
        BY <3>1 DEF Plan!Next
    <2>2. CASE pc \in RecoveryPcs /\ UNCHANGED <<pc, outcome>>
      <3>1. Same
        BY <1>20, <1>w, <2>2 DEF Cancel, WaitIs, vehicle
      <3> QED
        BY <1>s, <3>1
    <2> QED
      BY <1>20, <2>1, <2>2 DEF Cancel
  <1>21. CASE Interrupt
    <2>1. MaxInterrupts > 0 /\ calls' = calls
      BY <1>21, BoundsAssumption DEF Interrupt, TypeOK, vehicle
    <2>2. CASE pc \in MissionPcs /\ Fail("KeyboardInterrupt")
      <3>1. CASE pc \in StepPcs /\ seq = Len(mission)
        <4>1. ~recovery_required
          BY <2>2, <3>1, WhatIsDue
        <4>2. Upcoming = "landed"
          BY <3>1 DEF Upcoming
        <4>3. Plan!Interrupted
          BY <1>w, <2>1, <2>2, <3>1, <4>1, <4>2
             DEF Fail, WaitIs, Errors, Plan!Interrupted, Plan!Blames
        <4> QED
          BY <4>3 DEF Plan!Next
      <3>2. CASE ~(pc \in StepPcs /\ seq = Len(mission))
        <4>1. Plan!Raise
          BY <2>1, <2>2, <3>2, RaisesAsPlanned DEF Errors
        <4> QED
          BY <4>1 DEF Plan!Next
      <3> QED
        BY <3>1, <3>2
    <2>3. CASE pc \in RecoveryPcs /\ Recovered("failed", "CancelledError")
      <3>1. Plan!Interrupted
        BY <1>w, <2>1, <2>3 DEF Recovered, WaitIs, Plan!Interrupted
      <3> QED
        BY <3>1 DEF Plan!Next
    <2>4. CASE /\ pc \in RecoveryPcs \cup {"create", "open_log", "finish", "log_failure"}
               /\ error' = "KeyboardInterrupt" /\ pc' = "stop" /\ UNCHANGED recovery
      <3>1. Waits[pc]' = "none" /\ Waits[pc] \in {"begin", "recovery", "landed", "closing"}
        BY <1>w, <2>4 DEF WaitIs, Before
      <3>2. Plan!Interrupted \/ Plan!Refuse
        BY <2>1, <2>4, <3>1 DEF Errors, Plan!Interrupted, Plan!Refuse, Plan!Blames
      <3> QED
        BY <3>2 DEF Plan!Next
    <2> QED
      BY <1>21, <2>2, <2>3, <2>4 DEF Interrupt
  <1> QED
    BY <1>1, <1>2, <1>3, <1>4, <1>5, <1>6, <1>7, <1>8, <1>9, <1>10, <1>11, <1>12, <1>13, <1>14,
       <1>15, <1>16, <1>17, <1>18, <1>19, <1>20, <1>21
    DEF Next, Execute, Mission, Recovery

\* What a flight as planned has sent by each of its waits, and what it owes after them.
PromiseInv ==
    /\ Waits[pc] \in {"begin", "connect", "connection", "home"} => calls = {}
    /\ Waits[pc] = "arm" => calls \subseteq {"arm"}
    /\ Waits[pc] \in {"armed", "postHome"} => calls = {"arm"}
    /\ Waits[pc] \in {"takeoff", "climb", "hold"} => calls = {"arm", "takeoff"}
    /\ Waits[pc] = "land" => calls \in {{"arm", "takeoff"}, {"arm", "takeoff", "land"}}
    /\ Waits[pc] \in {"descent", "landed"} => calls = {"arm", "takeoff", "land"}
    /\ Waits[pc] = "recovery" => "arm" \in calls
    /\ Waits[pc] \in {"recovery", "closing"} => error # "none"
    /\ Waits[pc] = "closing" /\ "takeoff" \in calls /\ ~(MaxInterrupts > 0) => "land" \in calls
    /\ Plan!Promise

\* The plan alone keeps the promise: nothing of the run is used but that it follows it.
LEMMA PromiseStep == PromiseInv /\ [Plan!Next]_(Plan!vars) => PromiseInv'
  <1> SUFFICES ASSUME PromiseInv, [Plan!Next]_(Plan!vars) PROVE PromiseInv'
    OBVIOUS
  <1> USE DEF PromiseInv, Plan!Promise
  <1>1. CASE UNCHANGED Plan!vars
    BY <1>1 DEF Plan!vars
  <1>2. CASE Plan!Refuse \/ Plan!Die
    BY <1>2 DEF Plan!Refuse, Plan!Die, Plan!Blames
  <1>3. CASE Plan!Arrive
    BY <1>3 DEF Plan!Arrive, Plan!Follows
  <1>4. CASE Plan!Raise
    BY <1>4 DEF Plan!Raise, Plan!Leaves, Plan!Follows, Plan!Blames
  <1>5. CASE Plan!Settle \/ Plan!Close
    BY <1>5 DEF Plan!Settle, Plan!Close
  <1>6. CASE Plan!Interrupted
    BY <1>6 DEF Plan!Interrupted, Plan!Blames
  <1>7. ASSUME NEW c \in {"arm", "land", "disarm"}, Plan!Send(c) \/ Plan!Clean(c)
        PROVE  PromiseInv'
    BY <1>7 DEF Plan!Send, Plan!Clean
  <1> QED
    BY <1>1, <1>2, <1>3, <1>4, <1>5, <1>6, <1>7 DEF Plan!Next

-----------------------------------------------------------------------------
(* The theorems. *)

LEMMA InitialInv ==
    Init => /\ LinkInv /\ AwaitedInv /\ ProtocolInv /\ HomeInv /\ DisarmInv
            /\ LandInv /\ GroundInv /\ DisarmGroundedInv
  <1> SUFFICES ASSUME Init
               PROVE  /\ LinkInv /\ AwaitedInv /\ ProtocolInv /\ HomeInv /\ DisarmInv
                      /\ LandInv /\ GroundInv /\ DisarmGroundedInv
    OBVIOUS
  <1> USE DEF Init, VehicleInit
  <1>1. LinkInv
    BY DEF LinkInv, Pending
  <1>2. AwaitedInv
    BY DEF AwaitedInv
  <1>3. ProtocolInv
    BY DEF ProtocolInv, Before, MissionPcs, CallPcs, WaitPcs, StepPcs, TakeoffPcs, RecoveryPcs
  <1>4. HomeInv /\ DisarmInv /\ LandInv /\ DisarmGroundedInv
    BY DEF HomeInv, DisarmInv, LandInv, DisarmGroundedInv
  <1>5. GroundInv
    BY DEF GroundInv, LandingSeen
  <1> QED
    BY <1>1, <1>2, <1>3, <1>4, <1>5

\* The parts of the invariant that ask nothing of the telemetry.
LEMMA Invariants ==
    Spec => [](TypeOK /\ LinkInv /\ AwaitedInv /\ ProtocolInv /\ HomeInv /\ DisarmInv /\ LandInv)
  <1> DEFINE Inv == LinkInv /\ AwaitedInv /\ ProtocolInv /\ HomeInv /\ DisarmInv /\ LandInv
  <1>1. Init => Inv
    BY InitialInv
  <1>2. TypeOK /\ Inv /\ [Next]_vars => Inv'
    BY LinkStep, AwaitedStep, ProtocolStep, HomeStep, DisarmStep, LandStep
  <1> QED
    BY <1>1, <1>2, TypeCorrect, PTL DEF Spec

\* A takeoff is under way only from a home within tolerance of the signed one, though
\* arming may have moved home, whatever was lost, cancelled, interrupted or mismeasured.
THEOREM TakeoffFromBoundHome == Spec => []TakeoffNearBoundHome
  <1>1. TypeOK /\ LinkInv /\ HomeInv => TakeoffNearBoundHome
    BY DEF LinkInv, HomeInv, TakeoffNearBoundHome, Commands
  <1> QED
    BY <1>1, Invariants, PTL

\* disarm_accepted is final: the doubtful arm cannot overtake the disarm.
THEOREM DisarmIsFinal == Spec => []DisarmFinal
  <1>1. DisarmInv => DisarmFinal
    BY DEF DisarmInv, DisarmFinal, Pending
  <1> QED
    BY <1>1, Invariants, PTL

\* A landing the run reports is a landing, whatever was lost, cancelled or interrupted,
\* if telemetry does not call a flying vehicle landed.
THEOREM LandingIsConfirmed ==
    ASSUME Cautious
    PROVE  Spec => [](LandingConfirmed /\ NotRequiredIsSafe)
  <1>1. GroundInv => LandingConfirmed /\ NotRequiredIsSafe
    BY DEF GroundInv, LandingSeen, LandingConfirmed, NotRequiredIsSafe
  <1>2. TypeOK /\ ProtocolInv /\ LandInv /\ GroundInv /\ [Next]_vars => GroundInv'
    BY GroundStep
  <1>3. Init => GroundInv
    BY InitialInv
  <1> QED
    BY <1>1, <1>2, <1>3, Invariants, PTL DEF Spec

\* A recovery disarms only a vehicle that cannot be flying when the disarm arrives, if
\* telemetry does not call a flying vehicle landed; samples that are no booleans do no harm.
THEOREM DisarmOnlyOnGround ==
    ASSUME NeverFalse
    PROVE  Spec => []NoDisarmInFlight
  <1>1. LinkInv /\ DisarmGroundedInv => NoDisarmInFlight
    BY DEF LinkInv, DisarmGroundedInv, NoDisarmInFlight, Commands
  <1>2. TypeOK /\ LinkInv /\ ProtocolInv /\ DisarmGroundedInv /\ [Next]_vars
            => DisarmGroundedInv'
    BY DisarmGroundedStep
  <1>3. Init => DisarmGroundedInv
    BY InitialInv
  <1> QED
    BY <1>1, <1>2, <1>3, Invariants, PTL DEF Spec

\* A run that is not interrupted by a KeyboardInterrupt never walks away from a vehicle it
\* sent up: it sent a land, and the vehicle is grounded or the run says it failed.
THEOREM FlightIsNotAbandoned ==
    ASSUME Cautious, MaxInterrupts = 0
    PROVE  Spec => []NoFlightAbandoned
  <1>1. TypeOK /\ GroundInv /\ FlightInv => NoFlightAbandoned
    BY DEF TypeOK, Statuses, GroundInv, LandingSeen, FlightInv, NoFlightAbandoned
  <1>2. /\ TypeOK /\ ProtocolInv /\ LandInv /\ GroundInv /\ [Next]_vars => GroundInv'
        /\ TypeOK /\ ProtocolInv /\ GroundInv /\ FlightInv /\ [Next]_vars => FlightInv'
    BY GroundStep, FlightStep
  <1>3. Init => GroundInv /\ FlightInv
    <2>1. Init => FlightInv
      BY DEF Init, VehicleInit, FlightInv, TakeoffPcs
    <2> QED
      BY <2>1, InitialInv
  <1> QED
    BY <1>1, <1>2, <1>3, Invariants, PTL DEF Spec

\* The parts of the invariant about the audit file and the approval.
LEMMA Accounts == Spec => [](RecordsInv /\ PaidInv /\ VerdictInv)
  <1> DEFINE Inv == RecordsInv /\ PaidInv /\ VerdictInv
  <1>1. Init => Inv
    <2> SUFFICES ASSUME Init PROVE Inv
      OBVIOUS
    <2> USE DEF Init, VehicleInit, MissionPcs, CallPcs, WaitPcs, StepPcs, TakeoffPcs
    <2>1. RecordsInv
      BY DEF RecordsInv, AuditBeforeCommand, AuditNeverGroundsFlight
    <2>2. PaidInv
      BY DEF PaidInv, AuthorizedContact, RecoveryPcs
    <2>3. VerdictInv
      BY DEF VerdictInv, OneVerdict
    <2> QED
      BY <2>1, <2>2, <2>3
  <1>2. TypeOK /\ ProtocolInv /\ Inv /\ [Next]_vars => Inv'
    BY RecordsStep, PaidStep, VerdictStep
  <1> QED
    BY <1>1, <1>2, Invariants, PTL DEF Spec

\* No arm and no takeoff that the audit file does not account for, under any fault.
THEOREM CommandsAreOnRecord == Spec => []AuditBeforeCommand
  <1>1. RecordsInv => AuditBeforeCommand
    BY DEF RecordsInv
  <1> QED
    BY <1>1, Accounts, PTL

\* Once takeoff has been accepted no audit failure ends the mission.
THEOREM AuditIsNoHazard == Spec => []AuditNeverGroundsFlight
  <1>1. RecordsInv => AuditNeverGroundsFlight
    BY DEF RecordsInv
  <1> QED
    BY <1>1, Accounts, PTL

\* Nothing is contacted for a mission that is not approved, supported and paid for.
THEOREM ContactIsAuthorized == Spec => []AuthorizedContact
  <1>1. PaidInv => AuthorizedContact
    BY DEF PaidInv
  <1> QED
    BY <1>1, Accounts, PTL

\* The audit file tells one story, under cancellations, KeyboardInterrupts and crashes.
THEOREM VerdictIsOne == Spec => []OneVerdict
  <1>1. VerdictInv => OneVerdict
    BY DEF VerdictInv
  <1> QED
    BY <1>1, Accounts, PTL

\* Recovery is reported not required only when there is nothing to recover, if telemetry
\* does not call a flying vehicle landed.
THEOREM NothingToRecover ==
    ASSUME Cautious
    PROVE  Spec => []NotRequiredIsSafe
  BY LandingIsConfirmed, PTL

\* Without a KeyboardInterrupt no cancellation reaches the recovery, however many there are.
THEOREM CancellationIsShielded ==
    ASSUME MaxInterrupts = 0
    PROVE  Spec => []RecoveryShielded
  <1>1. Init => RecoveryShielded
    BY DEF Init, RecoveryShielded
  <1>2. TypeOK /\ RecoveryShielded /\ [Next]_vars => RecoveryShielded'
    <2> SUFFICES ASSUME TypeOK, RecoveryShielded, [Next]_vars PROVE RecoveryShielded'
      OBVIOUS
    <2>1. ~Interrupt
      BY DEF Interrupt, TypeOK
    <2> USE DEF RecoveryShielded, outcome, rest, context
    <2>2. CASE \/ Validate \/ Authorize \/ CreateSystem \/ OpenLog \/ LogFailure \/ StopServer
               \/ Crash \/ Environment \/ UNCHANGED vars
      BY <2>2 DEF Validate, Authorize, CreateSystem, OpenLog, LogFailure, StopServer, Crash,
          Environment, vars
    <2>3. CASE Mission
      BY <2>3 DEF Mission, Connected, ConnectionSeen, HomePreArm, StartAction, AltitudeSet,
          ArmAcknowledged, ArmedSeen, HomePostArm, TakeoffAcknowledged, AltitudeReached,
          HoldElapsed, LandAcknowledged, LandedSeen, CompleteAction, LoopEnds, Finish,
          CallRaises, WaitRaises, VerifyHome, AuditRaises, Fail
    <2>4. CASE Recovery
      BY <2>4 DEF Recovery, RecoverFlight, RecoverArm, DisarmAcknowledged,
          RecoveryLandAcknowledged, RecoveryLandedSeen, RecoveryTimesOut, RecoveryRaises,
          Recovered
    <2>5. CASE Cancel
      BY <2>5 DEF Cancel, Fail
    <2> QED
      BY <2>1, <2>2, <2>3, <2>4, <2>5 DEF Next, Execute
  <1> QED
    BY <1>1, <1>2, TypeCorrect, PTL DEF Spec

\* Without a KeyboardInterrupt a recovery, failed or not, leaves the exception that ended
\* the mission in its place.
THEOREM OriginalErrorStays ==
    ASSUME MaxInterrupts = 0
    PROVE  Spec => OriginalErrorPreserved
  <1>1. TypeOK /\ [Next]_vars => [(pc \in RecoveryPcs) => (error' = error)]_vars
    <2> SUFFICES ASSUME TypeOK, Next, pc \in RecoveryPcs PROVE error' = error
      OBVIOUS
    <2>1. ~Interrupt
      BY DEF Interrupt, TypeOK
    <2> USE DEF RecoveryPcs, outcome
    <2>2. ~(Validate \/ Authorize \/ CreateSystem \/ OpenLog \/ LogFailure \/ StopServer)
      BY DEF Validate, Authorize, CreateSystem, OpenLog, LogFailure, StopServer, Goto
    <2>3. ~Mission
      BY DEF Mission, Connected, ConnectionSeen, HomePreArm, StartAction, AltitudeSet,
          ArmAcknowledged, ArmedSeen, HomePostArm, TakeoffAcknowledged, AltitudeReached,
          HoldElapsed, LandAcknowledged, LandedSeen, CompleteAction, LoopEnds, Finish,
          CallRaises, WaitRaises, Goto, CallPcs, WaitPcs
    <2>4. CASE Recovery
      BY <2>4 DEF Recovery, RecoverFlight, RecoverArm, DisarmAcknowledged,
          RecoveryLandAcknowledged, RecoveryLandedSeen, RecoveryTimesOut, RecoveryRaises,
          Recovered, Goto, rest
    <2>5. CASE Cancel \/ Crash \/ Environment
      BY <2>5 DEF Cancel, Crash, Environment, rest, MissionPcs, CallPcs, WaitPcs, StepPcs
    <2> QED
      BY <2>1, <2>2, <2>3, <2>4, <2>5 DEF Next, Execute
  <1> QED
    BY <1>1, TypeCorrect, PTL DEF Spec, OriginalErrorPreserved

\* A run is a flight as planned, for every mission, noise and number of cancellations and
\* interrupts: each of its steps is one the plan has, or none the plan can see.
THEOREM RunsAsPlanned == Spec => ImplementsFlight
  <1>1. Init => Plan!Init /\ PlanInv
    <2> SUFFICES ASSUME Init PROVE Plan!Init /\ PlanInv
      OBVIOUS
    <2>1. Waits[pc] = "begin"
      BY InitialType, WaitFacts DEF Init, WaitIs, Before
    <2> QED
      BY <2>1 DEF Init, VehicleInit, PlanInv, Plan!Init, Before, StepPcs
  <1>2. TypeOK /\ ProtocolInv /\ PlanInv /\ [Next]_vars => PlanInv'
    BY PlanInvStep
  <1>3. TypeOK /\ TypeOK' /\ ProtocolInv /\ PlanInv /\ PlanInv' /\ [Next]_vars
            => [Plan!Next]_(Plan!vars)
    BY StepAsPlanned
  <1> QED
    BY <1>1, <1>2, <1>3, Invariants, PTL DEF Spec, ImplementsFlight, Plan!Spec

\* Whatever follows the plan keeps its promise: a disarm is the last command and follows
\* only an arm, a flight without an error has landed, and one with an error has sent a
\* land after its takeoff, unless a KeyboardInterrupt cut it short.
THEOREM PlanKeepsPromise == ImplementsFlight => []Plan!Promise
  <1>1. Plan!Init => PromiseInv
    BY DEF Plan!Init, PromiseInv, Plan!Promise
  <1>2. PromiseInv => Plan!Promise
    BY DEF PromiseInv
  <1> QED
    BY <1>1, <1>2, PromiseStep, PTL DEF ImplementsFlight, Plan!Spec

-----------------------------------------------------------------------------
(***************************************************************************)
(* A run never goes round in circles.  StepsLeft: the most steps that can  *)
(* be left to it, 8 for an action it has not begun.  What Termination and  *)
(* RecoveryBounded add is that a step is never missing.                    *)
(***************************************************************************)
StepsToGo == [
    validate |-> 13, authorize |-> 12, create |-> 11, open_log |-> 10, connect |-> 9,
    await_connected |-> 8, home_pre |-> 7, next |-> 6,
    set_takeoff_altitude |-> 13, arming |-> 12, await_armed |-> 11, home_post |-> 10,
    taking_off |-> 9, await_altitude |-> 8, hold |-> 8, landing |-> 9, await_landed |-> 8,
    complete |-> 7, recover |-> 5, rec_landing |-> 4, disarming |-> 3, rec_await_landed |-> 3,
    finish |-> 2, log_failure |-> 2, stop |-> 1, returned |-> 0, raised |-> 0, crashed |-> 0]

Looping == Before \cup MissionPcs

StepsLeft == StepsToGo[pc] + (IF pc \in Looping THEN 8 * (Len(mission) - seq) ELSE 0)

Bounded == StepsLeft \in 0..(13 + 8 * Len(mission))

\* Whatever fails, is cancelled, interrupted or dies, no step leaves a run with more to do,
\* and each of its own steps leaves it with less.
Advances == [][StepsLeft' <= StepsLeft /\ (Execute => StepsLeft' < StepsLeft)]_vars

LEMMA PcSets ==
    /\ PCs = DOMAIN StepsToGo /\ \A p \in PCs : StepsToGo[p] \in 0..13
    /\ Looping \subseteq PCs /\ \A p \in Looping : StepsToGo[p] >= 6
    /\ \A p \in PCs \ Looping : StepsToGo[p] <= 5
  BY DEF PCs, StepsToGo, Looping, Before, MissionPcs, CallPcs, WaitPcs, StepPcs, RecoveryPcs,
         EndedPcs

LEMMA StepsBounded == TypeOK => Bounded
  <1> SUFFICES ASSUME TypeOK PROVE Bounded
    OBVIOUS
  <1>1. Len(mission) \in Nat /\ seq \in 0..Len(mission)
    BY MissionsAssumption DEF TypeOK
  <1>2. pc \in PCs
    BY DEF TypeOK
  <1>3. StepsToGo[pc] \in 0..13
    BY <1>2, PcSets, Zenon
  <1>4. StepsLeft \in Nat /\ StepsLeft <= 13 + 8 * Len(mission)
    <2>1. \A n \in Nat, t \in 0..13 : \A k \in 0..n :
            t + 8 * (n - k) \in Nat /\ t + 8 * (n - k) <= 13 + 8 * n /\ t + 0 <= 13 + 8 * n
      OBVIOUS
    <2>2. CASE pc \in Looping
      <3>1. StepsLeft = StepsToGo[pc] + 8 * (Len(mission) - seq)
        BY <2>2 DEF StepsLeft
      <3> QED
        BY <3>1, <2>1, <1>1, <1>3, Zenon
    <2>3. CASE pc \notin Looping
      <3>1. StepsLeft = StepsToGo[pc] + 0 /\ StepsToGo[pc] + 0 = StepsToGo[pc]
        BY <2>3, <1>3 DEF StepsLeft
      <3>2. StepsLeft <= 13 + 8 * Len(mission)
        BY <3>1, <2>1, <1>1, <1>3, Zenon
      <3>3. StepsLeft \in Nat
        BY <3>1, <1>3
      <3> QED
        BY <3>2, <3>3
    <2> QED
      BY <2>2, <2>3
  <1> QED
    BY <1>1, <1>4 DEF Bounded

LEMMA StepsBoundedNext == TypeOK' => Bounded'
  BY StepsBounded, PTL

\* A step within an action, or out of the mission.
LEMMA GoesOn ==
    ASSUME TypeOK, TypeOK', mission' = mission, seq' = seq,
           StepsToGo[pc'] < StepsToGo[pc]
    PROVE  StepsLeft' < StepsLeft
  <1>1. pc \in PCs /\ pc' \in PCs /\ Len(mission) - seq \in Nat
    <2>1. mission \in Seq(ActionTypes) /\ seq \in 0..Len(mission)
      BY MissionsAssumption DEF TypeOK
    <2> QED
      BY <2>1 DEF TypeOK
  <1>i. ASSUME NEW p \in PCs
        PROVE  /\ StepsToGo[p] \in Nat
               /\ p \in Looping => StepsToGo[p] >= 6
               /\ p \notin Looping => StepsToGo[p] <= 5
    <2>1. /\ StepsToGo[p] \in 0..13
          /\ p \in Looping => StepsToGo[p] >= 6
          /\ p \notin Looping => StepsToGo[p] <= 5
      BY PcSets, Zenon
    <2> QED
      BY <2>1
  <1>3. StepsToGo[pc] \in Nat /\ StepsToGo[pc'] \in Nat
    BY <1>1, <1>i
  <1>2. pc' \in Looping => pc \in Looping
    <2>1. /\ pc' \in Looping => StepsToGo[pc'] >= 6
          /\ pc \notin Looping => StepsToGo[pc] <= 5
      BY <1>1, <1>i
    <2> QED
      BY <2>1, <1>3
  <1> HIDE DEF StepsToGo, Looping
  <1>4. StepsLeft' = StepsToGo[pc'] + (IF pc' \in Looping THEN 8 * (Len(mission) - seq) ELSE 0)
    BY DEF StepsLeft
  <1>5. CASE pc' \in Looping
    BY <1>1, <1>2, <1>3, <1>4, <1>5 DEF StepsLeft
  <1>6. CASE pc' \notin Looping
    BY <1>1, <1>3, <1>4, <1>6 DEF StepsLeft
  <1> QED
    BY <1>5, <1>6

LEMMA FailAdvances ==
    ASSUME pc \in Looping, NEW e, Fail(e)
    PROVE  StepsToGo[pc'] < StepsToGo[pc]
  <1>1. pc' \in {"recover", "log_failure"}
    BY DEF Fail
  <1>2. StepsToGo[pc'] <= 5
    BY <1>1 DEF StepsToGo
  <1>3. StepsToGo[pc] \in 0..13 /\ StepsToGo[pc] >= 6
    BY PcSets
  <1>4. StepsToGo[pc'] \in Nat
    BY <1>1 DEF StepsToGo
  <1> QED
    BY <1>2, <1>3, <1>4

LEMMA ExecuteAdvances ==
    ASSUME TypeOK, TypeOK', Execute
    PROVE  StepsLeft' < StepsLeft
  <1> USE DEF Goto
  <1>1. CASE StartAction
    <2>1. /\ pc = "next" /\ seq < Len(mission) /\ seq' = seq + 1 /\ mission' = mission
      BY <1>1 DEF StartAction, setup
    <2>2. pc' \in {"recover", "log_failure", "set_takeoff_altitude", "hold", "landing"}
      BY <1>1 DEF StartAction, AuditRaises, Fail
    <2>3. Len(mission) \in Nat /\ seq \in Nat
      BY MissionsAssumption DEF TypeOK
    <2>4. "next" \in Looping /\ StepsToGo["next"] = 6
      BY DEF Looping, MissionPcs, StepPcs, StepsToGo
    <2>5. StepsToGo[pc'] \in Nat /\ (pc' \in Looping => StepsToGo[pc'] <= 13)
          /\ (pc' \notin Looping => StepsToGo[pc'] <= 5)
      BY <2>2 DEF StepsToGo, Looping, MissionPcs, CallPcs
    <2> HIDE DEF StepsToGo, Looping
    <2>6. StepsLeft' = StepsToGo[pc'] + (IF pc' \in Looping THEN 8 * (Len(mission) - (seq + 1)) ELSE 0)
      BY <2>1 DEF StepsLeft
    <2>7. StepsLeft = 6 + 8 * (Len(mission) - seq)
      BY <2>1, <2>4 DEF StepsLeft
    <2>8. CASE pc' \in Looping
      BY <2>1, <2>3, <2>5, <2>6, <2>7, <2>8
    <2>9. CASE pc' \notin Looping
      BY <2>1, <2>3, <2>5, <2>6, <2>7, <2>9
    <2> QED
      BY <2>8, <2>9
  <1>2. CASE Validate \/ Authorize \/ CreateSystem \/ OpenLog \/ LogFailure \/ StopServer
    <2>1. mission' = mission /\ seq' = seq
      BY <1>2 DEF Validate, Authorize, CreateSystem, OpenLog, LogFailure, StopServer, setup
    <2>2. \/ pc = "validate" /\ pc' \in {"authorize", "raised"}
          \/ pc = "authorize" /\ pc' \in {"create", "raised"}
          \/ pc = "create" /\ pc' \in {"open_log", "stop"}
          \/ pc = "open_log" /\ pc' \in {"connect", "stop"}
          \/ pc = "log_failure" /\ pc' = "stop"
          \/ pc = "stop" /\ pc' \in {"returned", "raised"}
      BY <1>2 DEF Validate, Authorize, CreateSystem, OpenLog, LogFailure, StopServer
    <2>3. StepsToGo[pc'] < StepsToGo[pc]
      BY <2>2 DEF StepsToGo
    <2> QED
      BY <2>1, <2>3, GoesOn
  <1>3. CASE Recovery
    <2>1. mission' = mission /\ seq' = seq
      BY <1>3 DEF Recovery, RecoverFlight, RecoverArm, DisarmAcknowledged,
          RecoveryLandAcknowledged, RecoveryLandedSeen, RecoveryTimesOut, RecoveryRaises,
          rest, context, setup
    <2>2. /\ pc \in RecoveryPcs
          /\ \/ pc' = "log_failure"
             \/ pc = "recover" /\ pc' \in {"rec_landing", "disarming"}
             \/ pc = "rec_landing" /\ pc' = "rec_await_landed"
      BY <1>3 DEF Recovery, RecoverFlight, RecoverArm, DisarmAcknowledged,
          RecoveryLandAcknowledged, RecoveryLandedSeen, RecoveryTimesOut, RecoveryRaises,
          Recovered, RecoveryPcs
    <2>3. StepsToGo[pc'] < StepsToGo[pc]
      BY <2>2 DEF RecoveryPcs, StepsToGo
    <2> QED
      BY <2>1, <2>3, GoesOn
  <1>4. CASE CallRaises \/ WaitRaises
    <2>1. mission' = mission /\ seq' = seq
      BY <1>4 DEF CallRaises, WaitRaises, context, setup
    <2>2. pc \in Looping /\ \E e : Fail(e)
      BY <1>4 DEF CallRaises, WaitRaises, Looping, MissionPcs
    <2> QED
      BY <2>1, <2>2, FailAdvances, GoesOn
  <1>5. CASE HomePreArm \/ HomePostArm \/ CompleteAction
    <2>1. mission' = mission /\ seq' = seq
      BY <1>5 DEF HomePreArm, HomePostArm, CompleteAction, setup
    <2>2. pc \in Looping
      BY <1>5 DEF HomePreArm, HomePostArm, CompleteAction, Looping, MissionPcs, WaitPcs, StepPcs
    <2>3. \/ \E e : Fail(e)
          \/ pc = "home_pre" /\ pc' = "next"
          \/ pc = "home_post" /\ pc' = "taking_off"
          \/ pc = "complete" /\ pc' = "next"
      BY <1>5 DEF HomePreArm, HomePostArm, CompleteAction, VerifyHome, AuditRaises
    <2>4. StepsToGo[pc'] < StepsToGo[pc]
      <3>1. CASE \E e : Fail(e)
        BY <2>2, <3>1, FailAdvances
      <3>2. CASE ~\E e : Fail(e)
        BY <2>3, <3>2 DEF StepsToGo
      <3> QED
        BY <3>1, <3>2
    <2> QED
      BY <2>1, <2>4, GoesOn
  <1>6. CASE Connected \/ ConnectionSeen \/ AltitudeSet \/ ArmAcknowledged \/ ArmedSeen
             \/ TakeoffAcknowledged \/ AltitudeReached \/ HoldElapsed \/ LandAcknowledged
             \/ LandedSeen \/ LoopEnds \/ Finish
    <2>1. mission' = mission /\ seq' = seq
      BY <1>6 DEF Connected, ConnectionSeen, AltitudeSet, ArmAcknowledged, ArmedSeen,
          TakeoffAcknowledged, AltitudeReached, HoldElapsed, LandAcknowledged, LandedSeen,
          LoopEnds, Finish, rest, context, setup
    <2>2. StepsToGo[pc'] < StepsToGo[pc]
      BY <1>6 DEF Connected, ConnectionSeen, AltitudeSet, ArmAcknowledged, ArmedSeen,
          TakeoffAcknowledged, AltitudeReached, HoldElapsed, LandAcknowledged, LandedSeen,
          LoopEnds, Finish, StepsToGo
    <2> QED
      BY <2>1, <2>2, GoesOn
  <1> QED
    BY <1>1, <1>2, <1>3, <1>4, <1>5, <1>6 DEF Execute, Mission

\* A run is finite whatever happens around it: nothing takes it back, and it has 13 steps
\* to take and 8 for each action at most (the loop of _execute, lines 184-251, and the
\* recovery, which has five at most).
THEOREM EveryStepCounts ==
    Spec => Advances /\ []Bounded
  <1>1. TypeOK /\ TypeOK' /\ [Next]_vars
            => [StepsLeft' <= StepsLeft /\ (Execute => StepsLeft' < StepsLeft)]_vars
    <2> SUFFICES ASSUME TypeOK, TypeOK', Next
                 PROVE  StepsLeft' <= StepsLeft /\ (Execute => StepsLeft' < StepsLeft)
      OBVIOUS
    <2>0. StepsLeft \in Nat /\ StepsLeft' \in Nat
      BY StepsBounded, StepsBoundedNext DEF Bounded
    <2>1. Execute => StepsLeft' < StepsLeft
      BY ExecuteAdvances
    <2>2. ASSUME Cancel \/ Interrupt \/ Crash PROVE StepsLeft' <= StepsLeft
      <3>1. mission' = mission /\ seq' = seq /\ pc \in PCs
        BY <2>2 DEF Cancel, Interrupt, Crash, rest, context, setup, TypeOK
      <3>2. CASE pc' = pc
        BY <2>0, <3>1, <3>2 DEF StepsLeft
      <3>3. CASE pc' # pc
        <4>1. \/ pc \in Looping /\ \E e : Fail(e)
              \/ pc \in RecoveryPcs /\ pc' = "log_failure"
              \/ pc \in RecoveryPcs \cup {"create", "open_log", "finish", "log_failure"} /\ pc' = "stop"
              \/ pc \notin EndedPcs /\ pc' = "crashed"
          BY <2>2, <3>3 DEF Cancel, Interrupt, Crash, Recovered, Looping
        <4>2. StepsToGo[pc'] < StepsToGo[pc]
          <5>1. CASE pc \in Looping /\ \E e : Fail(e)
            BY <5>1, FailAdvances
          <5>2. CASE ~(pc \in Looping /\ \E e : Fail(e))
            BY <4>1, <5>2, <3>1 DEF StepsToGo, RecoveryPcs, EndedPcs, PCs, Before, MissionPcs,
                                    CallPcs, WaitPcs, StepPcs
          <5> QED
            BY <5>1, <5>2
        <4>3. StepsLeft' < StepsLeft
          BY <3>1, <4>2, GoesOn
        <4> QED
          BY <4>3, <2>0
      <3> QED
        BY <3>2, <3>3
    <2>3. ASSUME Environment PROVE StepsLeft' <= StepsLeft
      BY <2>3, <2>0 DEF Environment, setup, StepsLeft
    <2> QED
      BY <2>0, <2>1, <2>2, <2>3 DEF Next
  <1> QED
    BY <1>1, StepsBounded, TypeCorrect, PTL DEF Spec, Advances
=============================================================================
