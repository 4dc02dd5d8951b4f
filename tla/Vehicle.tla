------------------------------- MODULE Vehicle -------------------------------
(***************************************************************************)
(* The PX4 vehicle and the MAVSDK link to it, as nightjar's MAVSDK         *)
(* executor uses them (mavsdk_executor.py).  Nothing here is code of the   *)
(* repository: the module is the environment the executor runs against,    *)
(* and it is as hostile as the executor's own comments and tests expect.   *)
(*                                                                         *)
(*   - A command is a call that travels: it is issued, and later it either *)
(*     reaches the vehicle or is lost ("Arm may reach the vehicle even if  *)
(*     its acknowledgment fails").  A caller that stopped waiting does not *)
(*     recall its command: the command may still be executed later.        *)
(*   - The link keeps the order of the commands of its one client.         *)
(*   - A command that takes effect may still never be acknowledged.        *)
(*   - An acknowledged arm need not have armed the vehicle ("An arm call   *)
(*     that does not raise does not prove the vehicle is armed").          *)
(*   - Arming may move the home position ("PX4 can reset home on arming"). *)
(***************************************************************************)
EXTENDS Sequences, FiniteSets

CONSTANT Homes  \* the home positions telemetry can report

VARIABLES
    armed,   \* the motors are armed
    air,     \* the vehicle is off the ground
    mode,    \* what the vehicle is doing: "idle", "pilot", "takeoff", "land"
    home,    \* the home position PX4 currently holds
    link,    \* commands issued and not yet executed, refused or lost
    acked,   \* the last command issued has been acknowledged
    calls    \* every command ever issued to the vehicle in this run

vehicle == <<armed, air, mode, home, link, acked, calls>>

Commands == {"arm", "disarm", "takeoff", "land"}
Modes    == {"idle", "pilot", "takeoff", "land"}

VehicleTypeOK ==
    /\ armed \in BOOLEAN
    /\ air \in BOOLEAN
    /\ mode \in Modes
    /\ home \in Homes
    /\ link \in Seq(Commands)
    /\ acked \in BOOLEAN
    /\ calls \in SUBSET Commands

\* On the ground, armed by somebody else or not, or already flying under a
\* pilot: the executor looks at neither before its first command.
VehicleInit ==
    /\ \/ air = FALSE /\ armed \in BOOLEAN /\ mode = "idle"
       \/ air = TRUE  /\ armed = TRUE      /\ mode = "pilot"
    /\ home \in Homes
    /\ link = <<>>
    /\ acked = FALSE
    /\ calls = {}

-----------------------------------------------------------------------------
(* The client's side of the link. *)

Issue(c) ==
    /\ link' = Append(link, c)
    /\ acked' = FALSE
    /\ calls' = calls \cup {c}
    /\ UNCHANGED <<armed, air, mode, home>>

\* A command in flight that can still lift the vehicle, or arm it.
Pending(c) == \E i \in DOMAIN link : link[i] = c

-----------------------------------------------------------------------------
(* The vehicle's side. *)

\* The head of the link is gone.  Only the last command issued still has a
\* caller, so only it can be acknowledged.
Consume(acks) ==
    /\ link' = Tail(link)
    /\ acked' \in IF Len(link) = 1 THEN acks ELSE {acked}
    /\ UNCHANGED calls

\* A command lost on the way, denied by the vehicle, or acknowledged and then
\* not acted on; arm is the one command whose acknowledgment proves nothing.
Drop ==
    /\ link # <<>>
    /\ Consume(IF Head(link) = "arm" THEN BOOLEAN ELSE {acked})
    /\ UNCHANGED <<armed, air, mode, home>>

ExecuteArm ==
    /\ link # <<>> /\ Head(link) = "arm"
    /\ Consume(BOOLEAN)
    /\ armed' = TRUE
    /\ IF armed THEN UNCHANGED home ELSE home' \in Homes
    /\ UNCHANGED <<air, mode>>

\* PX4 denies a takeoff to a vehicle that is not armed (Drop).
ExecuteTakeoff ==
    /\ link # <<>> /\ Head(link) = "takeoff"
    /\ armed
    /\ Consume(BOOLEAN)
    /\ mode' = "takeoff"
    /\ UNCHANGED <<armed, air, home>>

ExecuteLand ==
    /\ link # <<>> /\ Head(link) = "land"
    /\ Consume(BOOLEAN)
    /\ mode' = "land"
    /\ UNCHANGED <<armed, air, home>>

\* PX4 denies a plain disarm to a vehicle that is flying (Drop).
ExecuteDisarm ==
    /\ link # <<>> /\ Head(link) = "disarm"
    /\ ~air
    /\ Consume(BOOLEAN)
    /\ armed' = FALSE
    /\ mode' = "idle"
    /\ UNCHANGED <<air, home>>

Liftoff ==
    /\ mode = "takeoff" /\ armed /\ ~air
    /\ air' = TRUE
    /\ UNCHANGED <<armed, mode, home, link, acked, calls>>

Touchdown ==
    /\ air /\ mode \in {"land", "pilot"}
    /\ air' = FALSE
    /\ UNCHANGED <<armed, mode, home, link, acked, calls>>

\* PX4 disarms itself after a landing, and when it waits too long to take off.
AutoDisarm ==
    /\ armed /\ ~air
    /\ armed' = FALSE
    /\ mode' = "idle"
    /\ UNCHANGED <<air, home, link, acked, calls>>

\* A PX4 failsafe (lost link, low battery) lands a flying vehicle by itself.
Failsafe ==
    /\ air /\ mode # "land"
    /\ mode' = "land"
    /\ UNCHANGED <<armed, air, home, link, acked, calls>>

VehicleNext ==
    \/ Drop
    \/ ExecuteArm
    \/ ExecuteTakeoff
    \/ ExecuteLand
    \/ ExecuteDisarm
    \/ Liftoff
    \/ Touchdown
    \/ AutoDisarm
    \/ Failsafe
=============================================================================
