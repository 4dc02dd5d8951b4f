--------------------------- MODULE AcceptanceHarness ---------------------------
(***************************************************************************)
(* px4_acceptance_harness.py: three scenarios, each a subprocess with a      *)
(* time budget, judged by the checks of AuditFile: a signed mission, the     *)
(* replay of its approval, and a failure injected during the hold            *)
(* (acceptance_failure_adapter.py).  Before them the operator takes a        *)
(* snapshot of home (HomeSnapshot).                                          *)
(*                                                                          *)
(* A subprocess is the CLI or the adapter, with the waits of                 *)
(* mavsdk_executor.py and their timers, and the mavsdk_server it starts,     *)
(* which shares its pipes.  Time passes in units of ten seconds.             *)
(***************************************************************************)
EXTENDS AuditFile, HomeSnapshot, FlightPlan, FiniteSets

CONSTANTS
  Limit,     \* Limit[w]: the timer of wait w of the executor
  Budget,    \* SCENARIO_TIMEOUT_SECONDS
  Grace,     \* what SIGTERM gets before SIGKILL
  Ttl,       \* ttl_seconds of issue_approval
  Prompt     \* do the SDK's calls, which have no timer, answer at once?

\* What comes after a wait of the flights started here, which have one hold.
After == [begin |-> "connect", connect |-> "connection", connection |-> "home", home |-> "arm",
          arm |-> "armed", armed |-> "postHome", postHome |-> "takeoff", takeoff |-> "climb",
          climb |-> "hold", hold |-> "land", land |-> "descent"]

ASSUME LimitAssumption == Limit \in [Timed -> Nat]
ASSUME TimesAssumption == Budget \in Nat /\ Grace \in Nat /\ Ttl \in Nat /\ Prompt \in BOOLEAN

\* The replay must find its approval still valid.
ASSUME LifetimeAssumption == Budget + Grace + Limit["begin"] < Ttl

VARIABLES
  pc,         \* where the harness is
  scenario,   \* 1: signed mission, 2: replay, 3: controlled failure
  results,    \* results[s]: the judgement of scenario s
  overall,    \* the harness's own
  age,        \* the time since the approval in use was issued, up to Ttl
  spent,      \* the time since the subprocess was started, or terminated
  alive,      \* the processes of its group
  wait,       \* what the CLI waits for
  waited,     \* and how long it has
  error,      \* what ended its mission
  code, out,  \* its exit code (-1: none yet) and what it prints
  file,       \* the audit file in its state home
  used,       \* the approvals consumed in the nonce databases
  contacted, landed, recovered,   \* the scenarios whose flight got that far
  origin      \* origin[s]: the home scenario s took off from

harnessVars == <<pc, scenario, results, overall>>
clock == <<age, spent>>
cli == <<alive, wait, waited, error, code, out, file>>
facts == <<used, contacted, landed, recovered, origin>>
vars == <<harnessVars, clock, cli, facts, snapshotVars>>

Scenarios == 1..3
ApprovalOfItsOwn(s) ==  \* mutant: the replay is issued another approval
  CASE s = 1 -> "success" [] s = 2 -> "replay" [] s = 3 -> "failure"

Approval(s) == IF s = 3 THEN "failure" ELSE "success"

\* Records, as far as the checks read them.
Started == [event |-> "mission_started"]
Acted == [event |-> "action"]
Completed == [event |-> "mission_completed"]
Failed(status, e) == [event |-> "mission_failed", recovery |-> status, error |-> e]

Init ==
  /\ SnapshotInit
  /\ pc = "snapshot" /\ scenario = 1
  /\ results = [s \in Scenarios |-> "none"] /\ overall = "none"
  /\ age = 0 /\ spent = 0
  /\ alive = {} /\ wait = "none" /\ waited = 0 /\ error = "none"
  /\ code = -1 /\ out = {} /\ file = Absent
  /\ used = {} /\ contacted = {} /\ landed = {} /\ recovered = {}
  /\ origin = [s \in Scenarios |-> NoHome]

----------------------------------------------------------------------------

\* The subprocess.

Waits(w) == "cli" \in alive /\ wait = w /\ pc = "running"
Goes(w) == wait' = w /\ waited' = 0

\* The process ends; _stop_mavsdk_server may fail and leave the server.
Exit(c, said) ==
  /\ code' = c /\ out' = said
  /\ alive' \in {{}, alive \ {"cli"}}
  /\ Goes("none") /\ error' = "none"

\* The approval is expired, used, or cannot be checked: nothing is consumed.
Refused ==
  /\ Waits("begin")
  /\ \/ age >= Ttl /\ Exit(4, {"expired"})
     \/ age < Ttl /\ Approval(scenario) \in used /\ Exit(4, {"already used"})
     \/ \E c \in {3, 4} : Exit(c, {"database"})
  /\ UNCHANGED file /\ UNCHANGED <<harnessVars, clock, facts, snapshotVars>>

\* The nonce is consumed and the system created; without its first record the
\* run ends, with it the SDK starts its server.
Begin ==
  /\ Waits("begin")
  /\ age < Ttl /\ Approval(scenario) \notin used
  /\ used' = used \cup {Approval(scenario)}
  /\ \/ /\ file' \in Torn(file, Started)
        /\ Exit(5, {})
        /\ UNCHANGED contacted
     \/ /\ file' = Written(file, Started)
        /\ alive' = alive \cup {"server"}
        /\ contacted' = contacted \cup {scenario}
        /\ Goes("connect")
        /\ UNCHANGED <<code, out, error>>
  /\ UNCHANGED <<harnessVars, clock, landed, recovered, origin, snapshotVars>>

\* The records in between, of which the checks only notice a torn one: strict ones
\* around the home checks, where a failing write ends the mission, best-effort ones
\* in flight.
Progress(f) == IF Readable(f) THEN {f} \cup Torn(f, Acted) ELSE {f}

\* A call is answered, or what the CLI waits for arrives.  Arming may move the
\* home, the second home check comes after it.
Arrives(w) ==
  /\ Waits(w)
  /\ w \in {"home", "postHome"} => px4Home = homeFile
  /\ w = "hold" => scenario # 3
  /\ Goes(After[w])
  /\ file' \in IF w \in {"climb", "hold"} THEN Progress(file) ELSE {file}
  /\ px4Home' \in IF w = "arm" THEN Homes ELSE {px4Home}
  /\ origin' = IF w = "takeoff" THEN [origin EXCEPT ![scenario] = px4Home] ELSE origin
  /\ UNCHANGED <<alive, error, code, out>>
  /\ UNCHANGED <<harnessVars, clock, used, contacted, landed, recovered, command, homeFile>>

Answered == \E w \in Calls : Arrives(w)
Observed == \E w \in Timed \cap DOMAIN After : w # "begin" /\ Arrives(w)

\* From the arm call on a failure is followed by the recovery; the call before
\* it, which sets the takeoff altitude, is part of "arm" too.
Raises(w, e) ==
  /\ Waits(w)
  /\ error' = e
  /\ file' \in IF w \in {"home", "postHome"} THEN Progress(file) ELSE {file}
  /\ \E x \in Leaves(w) : Goes(x)
  /\ UNCHANGED <<alive, code, out>>
  /\ UNCHANGED <<harnessVars, clock, facts, snapshotVars>>

CallRaises == \E w \in Calls : Raises(w, "other")
WaitRaises == \E w \in (Timed \cap DOMAIN After) \cup {"descent"} : w # "begin" /\ Raises(w, "other")

\* _failing_sleep of the adapter.
Inject == scenario = 3 /\ Raises("hold", "injected")

Land ==
  /\ Waits("descent")
  /\ landed' = landed \cup {scenario}
  /\ \E f \in Progress(file) : file' \in {Written(f, Completed)} \cup Torn(f, Completed)
  /\ Exit(0, {"simulation complete"})
  /\ UNCHANGED <<harnessVars, clock, used, contacted, recovered, origin, snapshotVars>>

\* The exit code of a failure: home has codes of its own, but not in the adapter.
FailureCodes == IF scenario = 3 THEN {5} ELSE {5, 6, 7}

\* The recovery ends by itself or by its timer, mission_failed is written or
\* lost, and the error is printed.
Fails(status) ==
  /\ file' \in {Written(file, Failed(status, error))} \cup Torn(file, Failed(status, error))
  /\ \E c \in FailureCodes : Exit(c, {error})

Recovers ==
  /\ Waits("recovery")
  /\ \/ Fails("landing_confirmed") /\ recovered' = recovered \cup {scenario}
     \/ \E status \in {"disarm_accepted", "failed"} : Fails(status) /\ UNCHANGED recovered
  /\ UNCHANGED <<harnessVars, clock, used, contacted, landed, origin, snapshotVars>>

Closes ==
  /\ Waits("closing")
  /\ Fails("not_required")
  /\ UNCHANGED <<harnessVars, clock, facts, snapshotVars>>

Unaided == Refused \/ Begin \/ Observed \/ WaitRaises \/ Inject \/ Land \/ Recovers \/ Closes

Cli == Unaided \/ Answered \/ CallRaises

\* A server that outlives its CLI may still end.
ServerEnds ==
  /\ alive = {"server"}
  /\ alive' = {}
  /\ UNCHANGED <<wait, waited, error, code, out, file>>
  /\ UNCHANGED <<harnessVars, clock, facts, snapshotVars>>

----------------------------------------------------------------------------

\* The harness.

\* Without a snapshot there is nothing to bind an approval to; a broken one is
\* not parsed, and the exception is not caught.
Load ==
  /\ pc = "snapshot" /\ command \in {"connect", "ended"}
  /\ pc' = IF homeFile \in Homes THEN "start" ELSE "aborted"
  /\ UNCHANGED <<scenario, results, overall>>
  /\ UNCHANGED <<clock, cli, facts, snapshotVars>>

\* issue_approval, but for the replay, and Popen, with a state home of its own.
Start ==
  /\ pc = "start"
  /\ pc' = "running"
  /\ age' = IF scenario = 2 THEN age ELSE 0
  /\ alive' = {"cli"} /\ Goes("begin")
  /\ UNCHANGED <<spent, error, code, out, file>>
  /\ UNCHANGED <<scenario, results, overall>> /\ UNCHANGED <<facts, snapshotVars>>

\* communicate() returns once nobody holds the pipes.
Collect ==
  /\ pc \in {"running", "terminating", "killing"} /\ alive = {}
  /\ pc' = "judging"
  /\ UNCHANGED <<scenario, results, overall>>
  /\ UNCHANGED <<clock, cli, facts, snapshotVars>>

\* SIGTERM to the group: the CLI has no handler, the server may take its time.
Terminate ==
  /\ pc = "running" /\ alive # {} /\ spent >= Budget
  /\ pc' = "terminating" /\ spent' = 0
  /\ code' = 124
  /\ alive' \in {{}, alive \ {"cli"}}
  /\ Goes("none") /\ error' = "none"
  /\ file' \in Progress(file)
  /\ UNCHANGED <<out, age>>
  /\ UNCHANGED <<scenario, results, overall>> /\ UNCHANGED <<facts, snapshotVars>>

KillLeader ==  \* mutant: only the process that was started is killed
  /\ pc = "terminating" /\ alive # {} /\ spent >= Grace
  /\ pc' = "killing"
  /\ alive' = alive \ {"cli"}
  /\ UNCHANGED <<wait, waited, error, code, out, file>>
  /\ UNCHANGED <<scenario, results, overall>> /\ UNCHANGED <<clock, facts, snapshotVars>>

GiveUp ==  \* mutant: nobody is killed, and the harness goes on
  /\ pc = "terminating" /\ alive # {} /\ spent >= Grace
  /\ pc' = "judging"
  /\ UNCHANGED <<scenario, results, overall>>
  /\ UNCHANGED <<clock, cli, facts, snapshotVars>>

\* SIGKILL to the group.
Kill ==
  /\ pc = "terminating" /\ alive # {} /\ spent >= Grace
  /\ pc' = "killing"
  /\ alive' = {}
  /\ UNCHANGED <<wait, waited, error, code, out, file>>
  /\ UNCHANGED <<scenario, results, overall>> /\ UNCHANGED <<clock, facts, snapshotVars>>

Check(s) ==
  \/ s = 1 /\ SignedMissionPassed(code, out, file)
  \/ s = 2 /\ ReplayRejected(code, out, file)
  \/ s = 3 /\ ControlledFailureRecovered(code, out, file)

\* The next scenario has a state home, an exit code and an output of its own.
Forgotten == spent' = 0 /\ code' = -1 /\ out' = {} /\ file' = Absent

Judge ==
  /\ pc = "judging"
  /\ results' = [results EXCEPT ![scenario] = IF Check(scenario) /\ code # 124 THEN "pass" ELSE "fail"]
  /\ IF scenario < 3
     THEN /\ scenario' = scenario + 1
          /\ pc' = IF scenario = 2 THEN "restart" ELSE "start"
          /\ UNCHANGED overall
     ELSE /\ pc' = "ended"
          /\ overall' = IF \A s \in Scenarios : results'[s] = "pass" THEN "pass" ELSE "fail"
          /\ UNCHANGED scenario
  /\ Forgotten
  /\ UNCHANGED <<age, alive, wait, waited, error>> /\ UNCHANGED <<facts, snapshotVars>>

\* NIGHTJAR_PX4_RESTART_CMD, if it is set: a restarted PX4 may find another home.
Restart ==
  /\ pc = "restart"
  /\ pc' = "start"
  /\ px4Home' \in Homes
  /\ UNCHANGED <<scenario, results, overall, command, homeFile>> /\ UNCHANGED <<clock, cli, facts>>

Harness == Load \/ Start \/ Collect \/ Terminate \/ Kill \/ Judge

----------------------------------------------------------------------------

\* Ten seconds pass, unless a timer has something to say first.
Tick ==
  /\ pc \in {"running", "terminating"} /\ alive # {}
  /\ pc = "running" => spent < Budget
  /\ pc = "terminating" => spent < Grace
  /\ "cli" \in alive =>
       \/ wait \in Timed /\ waited < Limit[wait]
       \/ wait \in Calls /\ ~Prompt
  /\ age' = IF age < Ttl THEN age + 1 ELSE Ttl
  /\ spent' = spent + 1
  /\ waited' = IF wait \in Timed THEN waited + 1 ELSE 0
  /\ UNCHANGED <<alive, wait, error, code, out, file>>
  /\ UNCHANGED <<harnessVars, facts, snapshotVars>>

Next ==
  \/ pc = "snapshot" /\ Snapshot /\ UNCHANGED <<harnessVars, clock, cli, facts>>
  \/ Cli \/ ServerEnds \/ Harness \/ Restart \/ Tick

Spec == Init /\ [][Next]_vars

\* Time passes, the harness's code runs, and the CLI's own timers fire.  No call
\* need be answered, no server ends by itself, no restart command returns.
FairSpec == Spec /\ WF_vars(Tick) /\ WF_vars(Harness) /\ WF_vars(Unaided)

----------------------------------------------------------------------------

Codes == {-1, 0, 3, 4, 5, 6, 7, 124}
Errors == {"none", "other", "injected"}
Sayings == Errors \cup {"expired", "already used", "database", "simulation complete"}
Statuses == {"landing_confirmed", "disarm_accepted", "failed", "not_required"}
Entries == {Started, Acted, Completed} \cup {Failed(st, e) : st \in Statuses, e \in Errors}
Pieces == {Line(e) : e \in Entries} \cup {Bare(e) : e \in Entries} \cup {Half(e) : e \in Entries}

\* What the variables may hold.
TypeOK ==
  /\ command \in {"connect", "connection", "health", "home", "ended"}
  /\ homeFile \in Homes \cup {NoHome, Broken} /\ px4Home \in Homes
  /\ pc \in {"snapshot", "start", "running", "terminating", "killing", "judging", "restart",
             "ended", "aborted"}
  /\ scenario \in Scenarios
  /\ results \in [Scenarios -> {"none", "pass", "fail"}] /\ overall \in {"none", "pass", "fail"}
  /\ age \in 0..Ttl /\ spent \in Nat
  /\ alive \subseteq {"cli", "server"}
  /\ wait \in Timed \cup Calls \cup {"none", "closing"} /\ waited \in Nat
  /\ error \in Errors /\ code \in Codes /\ out \subseteq Sayings
  /\ file \in [exists : BOOLEAN, text : Seq(Pieces)]
  /\ used \subseteq {"success", "failure"}
  /\ contacted \subseteq Scenarios /\ landed \subseteq Scenarios /\ recovered \subseteq Scenarios
  /\ origin \in [Scenarios -> Homes \cup {NoHome}]

\* An overall PASS is earned: the first flight landed, the replay reached no
\* vehicle, the third was landed by its recovery, and both took off from the home
\* of the snapshot (main, px4_acceptance_harness.py:271-517, and the checks: "a
\* connection failure, failed recovery, missing audit, or unrelated authorization
\* error cannot produce an overall PASS", acceptance_checks.py:3-6).
PassIsEarned ==
  overall = "pass" =>
    /\ 1 \in landed
    /\ 2 \notin contacted
    /\ 3 \in recovered
    /\ origin[1] = homeFile /\ origin[3] = homeFile

\* The replay shows what it is meant to show: an approval whose first run reached
\* the vehicle never reaches it again, it is not refused for its age instead, as
\* long as the first scenario may last (lines 135, 170 and 352), and nothing the
\* first run left behind spoils the judgement (line 353).
ReplayShowsReuse ==
  /\ ~(1 \in contacted /\ 2 \in contacted)
  /\ scenario = 2 => "expired" \notin out
  /\ scenario = 2 /\ pc = "judging" /\ code = 4 /\ "already used" \in out => Check(2)

\* No process of a scenario, and no server of it, is left when it is judged, so
\* none meets the next one at the port (run_command, lines 187-223).
NobodyLeftBehind == pc \notin {"running", "terminating"} => alive = {}

\* Every scenario that starts is judged, whoever hangs: the SDK, the CLI, or a
\* server that ignores SIGTERM (lines 199-223).
EveryScenarioEnds == pc = "running" ~> pc = "judging"

\* "Enough for connection (20s) + arm/takeoff (30s) + hold + land (30s) + recovery
\* window (30s), with margin. Forced cleanup only after this." (lines 168-169): if
\* the SDK answers its calls at once, no timer of the CLI is still running when
\* the harness terminates it.
BudgetSuffices ==
  Prompt => ~(pc = "running" /\ spent = Budget /\ Waits("recovery") /\ waited < Limit["recovery"])
============================================================================
