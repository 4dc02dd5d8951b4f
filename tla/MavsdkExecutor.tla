---------------------------- MODULE MavsdkExecutor ----------------------------
(***************************************************************************)
(* MavsdkExecutor.execute (src/nightjar/mavsdk_executor.py): one run       *)
(* of one approved mission against one vehicle, from validation to the     *)
(* stop of the mavsdk_server.  The executor is one asyncio task; what      *)
(* interleaves with it is the vehicle and its link (Vehicle), the timers,  *)
(* cancellation of the task, a second Ctrl-C, and a crash of the process.  *)
(*                                                                         *)
(* An await is a pc value: the code up to the next await is one action.    *)
(* The untimed model lets a timeout fire whenever its wait is pending.     *)
(***************************************************************************)
EXTENDS Vehicle, MissionModel

CONSTANTS
    Missions,      \* the missions (sequences of action types) under study
    Approved,      \* those the policy engine approves
    Near,          \* the homes within tolerance of the home that was signed
    InAirNoise,    \* wrong samples the in_air stream may hold
    MaxCancels,    \* bound on the cancellations of the task
    MaxInterrupts  \* bound on the KeyboardInterrupts raised inside the loop

ASSUME MissionsAssumption == \A m \in Missions : m \in Seq(ActionTypes)
ASSUME ApprovedAssumption ==
    /\ Approved \subseteq Missions
    /\ \A m \in Approved : Supported(m) => TakeoffHoldLand(m)
ASSUME NearAssumption == Near \subseteq Homes
ASSUME NoiseAssumption == InAirNoise \subseteq {"in_air", "on_ground", "invalid"}
ASSUME BoundsAssumption == MaxCancels \in Nat /\ MaxInterrupts \in Nat

VARIABLES
    pc,                 \* where the task is
    mission,            \* the mission to execute
    consumed,           \* the approval nonce has been consumed
    server,             \* a mavsdk_server is running for this run
    seq,                \* number of the action being executed, 0 before the first
    flight_committed,
    recovery_required,
    takeoff_attempted,
    error,              \* the exception the run ends with, or "none"
    recovery,           \* recovery_status of the run
    recovery_error,     \* recovery_error_type of the run
    log,                \* the records of this run in the audit file
    cancels,            \* cancellations of the task so far
    interrupts          \* KeyboardInterrupts so far

flags   == <<flight_committed, recovery_required, takeoff_attempted>>
outcome == <<error, recovery, recovery_error>>
setup   == <<mission, consumed, server>>
faults  == <<cancels, interrupts>>
vars    == <<vehicle, pc, setup, seq, flags, outcome, log, faults>>

\* What an await that ends well leaves alone, and what an exception leaves alone.
context == <<vehicle, setup, seq, flags, log, faults>>
rest    == <<context, outcome>>

-----------------------------------------------------------------------------
(* The program counters, by what may happen there. *)

Before    == {"validate", "authorize", "create", "open_log"}
CallPcs   == {"set_takeoff_altitude", "arming", "taking_off", "landing"}
WaitPcs   == {"await_connected", "home_pre", "await_armed", "home_post",
              "await_altitude", "await_landed"}
StepPcs   == {"next", "complete"}
\* Inside the try block of _execute.
MissionPcs  == {"connect", "hold"} \cup CallPcs \cup WaitPcs \cup StepPcs
RecoveryPcs == {"recover", "disarming", "rec_landing", "rec_await_landed"}
EndedPcs    == {"returned", "raised", "crashed"}
PCs == Before \cup MissionPcs \cup RecoveryPcs \cup EndedPcs
         \cup {"finish", "log_failure", "stop"}

Errors == {"MavsdkPolicyRejectedError", "UnsupportedMavsdkActionError",
           "AuthorizationError", "MavsdkExecutorError", "HomeUnavailableError",
           "HomeMismatchError", "SdkError", "OSError", "CancelledError",
           "KeyboardInterrupt"}
RecoveryErrors == {"TimeoutError", "SdkError", "MavsdkExecutorError", "CancelledError"}
Statuses == {"none", "not_required", "disarm_accepted", "landing_confirmed", "failed"}
Events == {"mission_started", "home_check_pre_arm", "home_check_post_arm",
           "action_started", "action_completed", "mission_completed", "mission_failed"}

TypeOK ==
    /\ VehicleTypeOK
    /\ pc \in PCs
    /\ mission \in Missions
    /\ consumed \in BOOLEAN /\ server \in BOOLEAN
    /\ seq \in 0..Len(mission)
    /\ flight_committed \in BOOLEAN
    /\ recovery_required \in BOOLEAN
    /\ takeoff_attempted \in BOOLEAN
    /\ error \in Errors \cup {"none"}
    /\ recovery \in Statuses
    /\ recovery_error \in RecoveryErrors \cup {"none"}
    /\ log \in SUBSET (Events \X Nat)
    /\ cancels \in 0..MaxCancels /\ interrupts \in 0..MaxInterrupts

Init ==
    /\ VehicleInit
    /\ pc = "validate"
    /\ mission \in Missions
    /\ consumed = FALSE /\ server = FALSE
    /\ seq = 0
    /\ flight_committed = FALSE
    /\ recovery_required = FALSE
    /\ takeoff_attempted = FALSE
    /\ error = "none" /\ recovery = "none" /\ recovery_error = "none"
    /\ log = {}
    /\ cancels = 0 /\ interrupts = 0

-----------------------------------------------------------------------------
(* Helpers: one per idea of the code. *)

Goto(a, b) == pc = a /\ pc' = b

\* The except clause of _execute catches e: recovery first, then the record.
Fail(e) ==
    /\ error' = e
    /\ IF recovery_required
       THEN pc' = "recover" /\ UNCHANGED recovery
       ELSE pc' = "log_failure" /\ recovery' = "not_required"
    /\ UNCHANGED recovery_error

\* Mutant: the except clause raises the recovery's exception.
RecoveredRaisingItsOwn(s, e) ==
    /\ recovery' = s
    /\ recovery_error' = e
    /\ pc' = "log_failure"
    /\ error' = IF e = "none" THEN error ELSE "SdkError"

\* recovery_task ends with status s, or with an exception named e.
Recovered(s, e) ==
    /\ recovery' = s
    /\ recovery_error' = e
    /\ pc' = "log_failure"
    /\ UNCHANGED error

Record(event, n) == log' = log \cup {<<event, n>>}

\* write_audit_record_best_effort: the record, or a line on stderr instead.
BestEffort(event, n) == Record(event, n) \/ UNCHANGED log

\* Mutant: best-effort records in every phase.
AuditedLoosely(event, n) == BestEffort(event, n)

\* _audit_writer(flight_committed) as it ends without an exception: the strict
\* writer has written, the best-effort one may not have.
Audited(event, n) == IF flight_committed THEN BestEffort(event, n) ELSE Record(event, n)

\* Mutant: strict records in every phase.
AuditRaisesInFlight == Fail("OSError") /\ UNCHANGED log

\* The strict writer raises OSError and the record is not (wholly) written.
AuditRaises == ~flight_committed /\ Fail("OSError") /\ UNCHANGED log

\* What the in_air stream yields: the truth, or one of its wrong samples.
InAirSample(s) == s \in {IF air THEN "in_air" ELSE "on_ground"} \cup InAirNoise

-----------------------------------------------------------------------------
(* execute(), up to the first await. *)

\* validate_mission: policy first, then the actions this executor knows.
Validate ==
    /\ pc = "validate"
    /\ \/ /\ mission \in Approved /\ Supported(mission)
          /\ pc' = "authorize"
          /\ UNCHANGED error
       \/ /\ mission \notin Approved
          /\ error' = "MavsdkPolicyRejectedError" /\ pc' = "raised"
       \/ /\ mission \in Approved /\ ~Supported(mission)
          /\ error' = "UnsupportedMavsdkActionError" /\ pc' = "raised"
    /\ UNCHANGED <<vehicle, setup, seq, flags, recovery, recovery_error, log, faults>>

\* Mutant: the approval is verified and its nonce is left alone.
AuthorizeWithoutConsuming ==
    /\ pc = "authorize"
    /\ pc' = "create"
    /\ UNCHANGED rest

\* verify_and_consume_approval: it raises, or the nonce is spent for good.
Authorize ==
    /\ pc = "authorize"
    /\ \/ pc' = "create" /\ consumed' = TRUE /\ UNCHANGED error
       \/ pc' = "raised" /\ error' = "AuthorizationError" /\ UNCHANGED consumed
    /\ UNCHANGED <<vehicle, mission, server, seq, flags, recovery, recovery_error,
                   log, faults>>

\* system_factory(): no flight extra installed, or a System with its server.
CreateSystem ==
    /\ pc = "create"
    /\ \/ pc' = "open_log" /\ server' = TRUE /\ UNCHANGED error
       \/ pc' = "stop" /\ error' = "MavsdkExecutorError" /\ UNCHANGED server
    /\ UNCHANGED <<vehicle, mission, consumed, seq, flags, recovery, recovery_error,
                   log, faults>>

\* The strict mission_started record, outside the try block.
OpenLog ==
    /\ pc = "open_log"
    /\ \/ pc' = "connect" /\ Record("mission_started", 0) /\ UNCHANGED error
       \/ pc' = "stop" /\ error' = "OSError" /\ UNCHANGED log
    /\ UNCHANGED <<vehicle, setup, seq, flags, recovery, recovery_error, faults>>

-----------------------------------------------------------------------------
(* The try block of _execute, one action per await that ends well. *)

Connected == Goto("connect", "await_connected") /\ UNCHANGED rest

ConnectionSeen == Goto("await_connected", "home_pre") /\ UNCHANGED rest

\* _verify_home: the strict home_check record comes before the verdict.
VerifyHome(event, next) ==
    \/ AuditRaises
    \/ Record(event, 0) /\ home \notin Near /\ Fail("HomeMismatchError")
    \/ Record(event, 0) /\ home \in Near /\ pc' = next /\ UNCHANGED outcome

HomePreArm ==
    /\ pc = "home_pre"
    /\ VerifyHome("home_check_pre_arm", "next")
    /\ UNCHANGED <<vehicle, setup, seq, flags, faults>>

\* The head of the for loop: the action_started record, then the action's first
\* call, which is the first await of its branch.
StartAction ==
    /\ pc = "next" /\ seq < Len(mission)
    /\ seq' = seq + 1
    /\ \/ AuditRaises /\ UNCHANGED vehicle
       \/ /\ Audited("action_started", seq + 1)
          /\ UNCHANGED outcome
          /\ \/ /\ mission[seq + 1] = "takeoff" /\ pc' = "set_takeoff_altitude"
                /\ UNCHANGED vehicle
             \/ /\ mission[seq + 1] = "hold" /\ pc' = "hold"
                /\ UNCHANGED vehicle
             \/ /\ mission[seq + 1] = "land" /\ pc' = "landing"
                /\ Issue("land")
    /\ UNCHANGED <<setup, flags, faults>>

\* Mutant: recovery is required only once arm has been acknowledged.
AltitudeSetWithoutRecovery ==
    /\ Goto("set_takeoff_altitude", "arming")
    /\ Issue("arm")
    /\ UNCHANGED <<setup, seq, flags, outcome, log, faults>>

\* recovery_required is set before the arm call, so a lost acknowledgment
\* still enters cleanup.
AltitudeSet ==
    /\ Goto("set_takeoff_altitude", "arming")
    /\ takeoff_attempted' = FALSE
    /\ recovery_required' = TRUE
    /\ Issue("arm")
    /\ UNCHANGED <<setup, seq, flight_committed, outcome, log, faults>>

ArmAcknowledged == Goto("arming", "await_armed") /\ acked /\ UNCHANGED rest

ArmedSeen == Goto("await_armed", "home_post") /\ armed /\ UNCHANGED rest

\* Mutant: the takeoff is attempted only once it has been acknowledged.
HomePostArmLateFlag ==
    /\ pc = "home_post"
    /\ VerifyHome("home_check_post_arm", "taking_off")
    /\ IF pc' = "taking_off" THEN Issue("takeoff") ELSE UNCHANGED vehicle
    /\ UNCHANGED <<setup, seq, flags, faults>>

\* Mutant: home is read after arming and compared with nothing.
HomePostArmUnchecked ==
    /\ Goto("home_post", "taking_off")
    /\ Record("home_check_post_arm", 0)
    /\ takeoff_attempted' = TRUE /\ Issue("takeoff")
    /\ UNCHANGED <<setup, seq, flight_committed, recovery_required, outcome, faults>>

\* The second home check, and the takeoff call it guards.
HomePostArm ==
    /\ pc = "home_post"
    /\ VerifyHome("home_check_post_arm", "taking_off")
    /\ IF pc' = "taking_off"
       THEN takeoff_attempted' = TRUE /\ Issue("takeoff")
       ELSE UNCHANGED <<takeoff_attempted, vehicle>>
    /\ UNCHANGED <<setup, seq, flight_committed, recovery_required, faults>>

TakeoffAcknowledged ==
    /\ Goto("taking_off", "await_altitude") /\ acked
    /\ flight_committed' = TRUE
    /\ UNCHANGED <<vehicle, setup, seq, recovery_required, takeoff_attempted, outcome,
                   log, faults>>

AltitudeReached == Goto("await_altitude", "complete") /\ air /\ UNCHANGED rest

HoldElapsed == Goto("hold", "complete") /\ UNCHANGED rest

\* Mutant: recovery is no longer required once land has been acknowledged.
LandAcknowledgedAsLanded ==
    /\ Goto("landing", "await_landed") /\ acked
    /\ recovery_required' = FALSE
    /\ UNCHANGED <<vehicle, setup, seq, flight_committed, takeoff_attempted, outcome,
                   log, faults>>

LandAcknowledged == Goto("landing", "await_landed") /\ acked /\ UNCHANGED rest

\* _wait_until_landed ends at the first sample that is not truthy.
LandedSeen ==
    /\ Goto("await_landed", "complete")
    /\ \E s \in {"on_ground", "invalid"} : InAirSample(s)
    /\ recovery_required' = FALSE
    /\ UNCHANGED <<vehicle, setup, seq, flight_committed, takeoff_attempted, outcome,
                   log, faults>>

CompleteAction ==
    /\ pc = "complete"
    /\ \/ AuditRaises
       \/ pc' = "next" /\ Audited("action_completed", seq) /\ UNCHANGED outcome
    /\ UNCHANGED <<vehicle, setup, seq, flags, faults>>

LoopEnds == Goto("next", "finish") /\ seq = Len(mission) /\ UNCHANGED rest

\* Mutant: the mission_completed record is written inside the try block.
FinishInsideTry ==
    /\ pc = "finish"
    /\ BestEffort("mission_completed", 0)
    /\ \/ pc' = "stop" /\ UNCHANGED <<outcome, cancels>>
       \/ cancels < MaxCancels /\ cancels' = cancels + 1 /\ Fail("CancelledError")
    /\ UNCHANGED <<vehicle, setup, seq, flags, interrupts>>

\* The mission_completed record.  A cancellation that arrives during this last
\* stretch without an await still cancels the task (asyncio.Task.__step).
Finish ==
    /\ Goto("finish", "stop")
    /\ BestEffort("mission_completed", 0)
    /\ \/ UNCHANGED <<error, cancels>>
       \/ cancels < MaxCancels /\ cancels' = cancels + 1 /\ error' = "CancelledError"
    /\ UNCHANGED <<vehicle, setup, seq, flags, recovery, recovery_error, interrupts>>

-----------------------------------------------------------------------------
(* How an await ends badly. *)

\* What a wait can raise by itself, its timeout (converted) included.
\* _bound_home can refuse the approval's home before the first reading.
WaitErrors(l) ==
    IF l \in {"home_pre", "home_post"}
    THEN {"HomeUnavailableError", "SdkError"}
           \cup (IF l = "home_pre" THEN {"HomeMismatchError"} ELSE {})
    ELSE {"MavsdkExecutorError", "SdkError"}

\* A call of the SDK raises; nothing in nightjar bounds how long it may take.
CallRaises ==
    /\ pc \in {"connect"} \cup CallPcs
    /\ Fail("SdkError")
    /\ UNCHANGED context

\* Mutant: the wait for armed telemetry has no timeout.
WaitRaisesExceptArmed ==
    /\ pc \in WaitPcs \ {"await_armed"}
    /\ \E e \in WaitErrors(pc) : Fail(e)
    /\ UNCHANGED context

\* A wait of nightjar's times out, its stream ends, or its stream raises.
WaitRaises ==
    /\ pc \in WaitPcs
    /\ \E e \in WaitErrors(pc) : Fail(e)
    /\ UNCHANGED context

-----------------------------------------------------------------------------
(* _recover_protected and _recover. *)

\* takeoff() was attempted: land, whatever telemetry says.
RecoverFlight ==
    /\ Goto("recover", "rec_landing") /\ takeoff_attempted
    /\ Issue("land")
    /\ UNCHANGED <<setup, seq, flags, outcome, log, faults>>

\* Mutant: any sample that is not truthy is a vehicle on the ground.
RecoverArmFalsy ==
    /\ pc = "recover" /\ ~takeoff_attempted
    /\ \/ /\ InAirSample("on_ground") \/ InAirSample("invalid")
          /\ pc' = "disarming" /\ Issue("disarm")
       \/ /\ InAirSample("in_air")
          /\ pc' = "rec_landing" /\ Issue("land")
    /\ UNCHANGED <<setup, seq, flags, outcome, log, faults>>

\* Only arm() was attempted: the next in_air sample chooses the cleanup.
RecoverArm ==
    /\ pc = "recover" /\ ~takeoff_attempted
    /\ \/ /\ InAirSample("on_ground")
          /\ pc' = "disarming" /\ Issue("disarm") /\ UNCHANGED outcome
       \/ /\ InAirSample("in_air")
          /\ pc' = "rec_landing" /\ Issue("land") /\ UNCHANGED outcome
       \/ /\ InAirSample("invalid")
          /\ Recovered("failed", "MavsdkExecutorError") /\ UNCHANGED vehicle
    /\ UNCHANGED <<setup, seq, flags, log, faults>>

\* Mutant: the disarm call is not awaited.
DisarmUnawaited ==
    /\ pc = "disarming"
    /\ Recovered("disarm_accepted", "none")
    /\ UNCHANGED context

DisarmAcknowledged ==
    /\ pc = "disarming" /\ acked
    /\ Recovered("disarm_accepted", "none")
    /\ UNCHANGED context

\* Mutant: the land call of the recovery is not awaited.
RecoveryLandUnawaited == Goto("rec_landing", "rec_await_landed") /\ UNCHANGED rest

RecoveryLandAcknowledged == Goto("rec_landing", "rec_await_landed") /\ acked /\ UNCHANGED rest

RecoveryLandedSeen ==
    /\ pc = "rec_await_landed"
    /\ \E s \in {"on_ground", "invalid"} : InAirSample(s)
    /\ Recovered("landing_confirmed", "none")
    /\ UNCHANGED context

\* Mutant: the timer covers the wait for landing and not the calls before it.
LandingTimesOut ==
    /\ pc = "rec_await_landed"
    /\ Recovered("failed", "TimeoutError")
    /\ UNCHANGED context

\* Mutant: the recovery returns a status of its own for its timeout.
RecoveryTimesOutAsStatus ==
    /\ pc \in RecoveryPcs
    /\ Recovered("timed_out", "none")
    /\ UNCHANGED context

\* The wait_for around _recover times out.  land() is called before its timer
\* can fire when takeoff was attempted.
RecoveryTimesOut ==
    /\ pc \in RecoveryPcs /\ (pc = "recover" => ~takeoff_attempted)
    /\ Recovered("failed", "TimeoutError")
    /\ UNCHANGED context

\* The SDK raises, or a telemetry stream ends.
RecoveryRaises ==
    /\ pc \in RecoveryPcs /\ (pc = "recover" => ~takeoff_attempted)
    /\ \/ Recovered("failed", "SdkError")
       \/ /\ pc \in {"recover", "rec_await_landed"}
          /\ Recovered("failed", "MavsdkExecutorError")
    /\ UNCHANGED context

\* The mission_failed record, after recovery; then the exception goes on.
LogFailure ==
    /\ Goto("log_failure", "stop")
    /\ BestEffort("mission_failed", 0)
    /\ UNCHANGED <<vehicle, setup, seq, flags, outcome, faults>>

\* The finally clause of execute(): a failed stop changes nothing else.
StopServer ==
    /\ pc = "stop"
    /\ pc' = IF error = "none" THEN "returned" ELSE "raised"
    /\ server' \in {FALSE, server}
    /\ UNCHANGED <<vehicle, mission, consumed, seq, flags, outcome, log, faults>>

-----------------------------------------------------------------------------
(* Cancellation, Ctrl-C and crashes. *)

\* Mutant: the recovery is awaited without a shield.
CancelUnshielded ==
    /\ cancels < MaxCancels /\ cancels' = cancels + 1
    /\ \/ pc \in MissionPcs \ StepPcs /\ Fail("CancelledError")
       \/ pc \in RecoveryPcs /\ Recovered("failed", "CancelledError")
    /\ UNCHANGED <<vehicle, setup, seq, flags, log, interrupts>>

\* task.cancel(), by the caller or by asyncio.run at the first Ctrl-C.  It is
\* delivered at an await, and the shield keeps it away from the recovery task.
Cancel ==
    /\ cancels < MaxCancels /\ cancels' = cancels + 1
    /\ \/ pc \in MissionPcs \ StepPcs /\ Fail("CancelledError")
       \/ pc \in RecoveryPcs /\ UNCHANGED <<pc, outcome>>
    /\ UNCHANGED <<vehicle, setup, seq, flags, log, interrupts>>

\* A KeyboardInterrupt raised in the code or in the event loop: a second Ctrl-C,
\* or any Ctrl-C before Python 3.11.  During recovery it either stops the loop,
\* whose teardown cancels the recovery task, or is what the recovery task raises,
\* which the inner except clause does not catch.
Interrupt ==
    /\ interrupts < MaxInterrupts /\ interrupts' = interrupts + 1
    /\ \/ pc \in MissionPcs /\ Fail("KeyboardInterrupt")
       \/ pc \in RecoveryPcs /\ Recovered("failed", "CancelledError")
       \/ /\ pc \in RecoveryPcs \cup {"create", "open_log", "finish", "log_failure"}
          /\ error' = "KeyboardInterrupt" /\ pc' = "stop"
          /\ UNCHANGED <<recovery, recovery_error>>
    /\ UNCHANGED <<vehicle, setup, seq, flags, log, cancels>>

\* The process dies; the vehicle and its mavsdk_server do not.
Crash ==
    /\ pc \notin EndedPcs
    /\ pc' = "crashed"
    /\ UNCHANGED rest

-----------------------------------------------------------------------------
Mission ==
    \/ Connected \/ ConnectionSeen \/ HomePreArm \/ StartAction
    \/ AltitudeSet \/ ArmAcknowledged \/ ArmedSeen \/ HomePostArm
    \/ TakeoffAcknowledged \/ AltitudeReached \/ HoldElapsed
    \/ LandAcknowledged \/ LandedSeen \/ CompleteAction \/ LoopEnds \/ Finish
    \/ CallRaises \/ WaitRaises

Recovery ==
    \/ RecoverFlight \/ RecoverArm \/ DisarmAcknowledged
    \/ RecoveryLandAcknowledged \/ RecoveryLandedSeen
    \/ RecoveryTimesOut \/ RecoveryRaises

Execute ==
    \/ Validate \/ Authorize \/ CreateSystem \/ OpenLog
    \/ Mission \/ Recovery \/ LogFailure \/ StopServer

Environment ==
    /\ VehicleNext
    /\ UNCHANGED <<pc, setup, seq, flags, outcome, log, faults>>

Next == Execute \/ Cancel \/ Interrupt \/ Crash \/ Environment

Spec == Init /\ [][Next]_vars

\* Steps the code takes by itself or that one of its timers takes for it: it
\* waits neither for the SDK nor for the vehicle.
Unaided ==
    \/ Validate \/ Authorize \/ CreateSystem \/ OpenLog \/ StartAction
    \/ HoldElapsed \/ CompleteAction \/ LoopEnds \/ Finish \/ WaitRaises
    \/ RecoverFlight \/ RecoveryTimesOut \/ LogFailure \/ StopServer

FairSpec == Spec /\ WF_vars(Unaided)

\* The SDK ends every call it is given, with an answer or an exception.
SdkAnswers == Connected \/ AltitudeSet \/ CallRaises

-----------------------------------------------------------------------------
(* Properties. *)

Ended == pc \in EndedPcs

\* The vehicle cannot leave the ground any more unless somebody commands it to.
Grounded == ~air /\ mode # "takeoff" /\ ~Pending("takeoff")

\* Whatever was lost, late or unanswered, a run that reports its vehicle landed
\* (mission_completed, or recovery_status landing_confirmed) leaves a vehicle that
\* is on the ground, and no takeoff of its own is still on the way to it.
LandingConfirmed ==
    recovery = "landing_confirmed" \/ pc \in {"finish", "returned"} => Grounded

\* _recover disarms only a vehicle that is not flying and, whatever commands are
\* still in the link, cannot be flying when the disarm reaches it.
NoDisarmInFlight == Pending("disarm") => Grounded

\* disarm_accepted means that the arm whose acknowledgment was in doubt cannot
\* still arm the vehicle behind the back of the recovery.
DisarmFinal == recovery = "disarm_accepted" => ~armed /\ ~Pending("arm")

\* A process that survives never walks away from a vehicle it sent up: a land call
\* follows the takeoff call however the mission ended, and when the vehicle may
\* still fly the run says so (recovery_status failed).
NoFlightAbandoned ==
    pc \in {"returned", "raised"} /\ "takeoff" \in calls =>
        "land" \in calls /\ (Grounded \/ recovery = "failed")

\* recovery_status not_required is only ever written when there is nothing to
\* recover: no arm was sent, or the flight had already landed.
NotRequiredIsSafe == recovery = "not_required" => "arm" \notin calls \/ Grounded

\* A takeoff is only ever on its way, or under way, from a home position within
\* tolerance of the signed one, although arming may have moved it since the
\* first check.
TakeoffNearBoundHome ==
    Pending("takeoff") \/ (mode = "takeoff" /\ ~air) => home \in Near

\* No command reaches for the vehicle that the audit file does not account for:
\* every record the strict writer owes precedes the command.
AuditBeforeCommand ==
    /\ "arm" \in calls =>
          {<<"mission_started", 0>>, <<"home_check_pre_arm", 0>>, <<"action_started", 1>>}
              \subseteq log
    /\ "takeoff" \in calls => <<"home_check_post_arm", 0>> \in log

\* Nothing is contacted for a mission that was not approved, supported and paid
\* for with a nonce.
AuthorizedContact ==
    server \/ calls # {} => consumed /\ mission \in Approved /\ Supported(mission)

\* The audit file tells one story: a mission is not both failed and completed,
\* and one recorded as completed ran all its actions.
OneVerdict ==
    LET completed == <<"mission_completed", 0>> \in log
        failed    == <<"mission_failed", 0>> \in log
    IN  /\ ~(completed /\ failed)
        /\ completed => seq = Len(mission) /\ "land" \in calls
        /\ failed => error # "none" /\ recovery # "none"

\* Once takeoff has been accepted no audit failure ends the mission.
AuditNeverGroundsFlight == flight_committed => error # "OSError"

\* "Recovery runs before logging, and its failure does not replace the original
\* mission exception": while a recovery runs, and when it ends, what ended the
\* mission stays what the caller will get.
OriginalErrorPreserved == [][(pc \in RecoveryPcs) => (error' = error)]_vars

\* Repeated cancellation of the mission does not reach the recovery.
RecoveryShielded == recovery_error # "CancelledError"

\* A recovery that began ends, though the SDK never answers again: its one timer
\* covers all of it.
RecoveryBounded == pc \in RecoveryPcs ~> Ended

\* A run ends, if the SDK ends every call it is given.
Termination == WF_vars(SdkAnswers) => <>Ended

-----------------------------------------------------------------------------
(* The abstract specification this implements. *)

\* The wait the head of the loop leads to.
Upcoming ==
    IF seq = Len(mission) THEN "landed"
    ELSE IF mission[seq + 1] = "takeoff" THEN "arm" ELSE mission[seq + 1]

\* The wait of the plan that each place in the code belongs to.
Waits == [p \in PCs |->
    CASE p \in Before -> "begin"
      [] p = "connect" -> "connect"
      [] p = "await_connected" -> "connection"
      [] p = "home_pre" -> "home"
      [] p \in {"set_takeoff_altitude", "arming"} -> "arm"
      [] p = "await_armed" -> "armed"
      [] p = "home_post" -> "postHome"
      [] p = "taking_off" -> "takeoff"
      [] p = "await_altitude" -> "climb"
      [] p = "hold" -> "hold"
      [] p = "landing" -> "land"
      [] p = "await_landed" -> "descent"
      [] p \in StepPcs -> Upcoming
      [] p = "finish" -> "landed"
      [] p \in RecoveryPcs -> "recovery"
      [] p = "log_failure" -> "closing"
      [] p \in {"stop", "returned", "raised"} -> "none"
      [] p = "crashed" -> "gone"]

Plan == INSTANCE Flight WITH
    wait <- Waits[pc], cause <- error, status <- recovery, Interruptible <- MaxInterrupts > 0

\* With link, telemetry and audit file left out, a run is a flight as planned: its
\* commands in order, a recovery from the arm call on and not before, and a report
\* that fits what was sent.
ImplementsFlight == Plan!Spec
=============================================================================
