# A formal model of nightjar

nightjar takes a mission proposal through a schema, a policy engine and a
signed, one-time approval, and then executes it as a dry run or on a PX4
simulator through MAVSDK. The program is small; what makes it hard is what it
talks to: a vehicle whose commands and acknowledgments travel apart, an asyncio
task that may be cancelled anywhere, several processes on one SQLite database
or one audit file, clients that stall on a kept-alive connection, a browser page
whose requests overlap, and subprocesses that outlive their time budget. These modules model those parts,
TLC checks them on small instances, and TLAPS proves the main results for every
value of the constants.

Paths below are relative to the repository.

## 1. Inventory

| Part | State it keeps | Operations | Talks to | Hard about it |
|---|---|---|---|---|
| MAVSDK executor (`src/nightjar/mavsdk_executor.py`) | position in the mission, `recovery_required`, `takeoff_attempted`, `flight_committed`, the original exception, `recovery_status` | `execute`, the action loop, home checks, telemetry waits, recovery task | policy, approval, vehicle, audit | lost and late commands, lost acknowledgments, timeouts, cancellation, Ctrl-C, crash |
| PX4 and the MAVSDK link (external) | armed, in air, mode, home, commands under way | arm, takeoff, land, disarm, telemetry | executor | commands outlive their caller, arming moves home |
| Mission schema and policy (`models.py`, `policy.py`) | one pass: flight state, sums, reasons | `PolicyEngine.evaluate` | CLI, service, executor | order rules and aggregate limits |
| Approval (`approval.py`, `authorization.py`) | none | `verify_approval`, `verify_and_consume_approval` | CLI, executor, nonce store | time windows, what the signature binds |
| Nonce store (`replay.py`) | the table `consumed_approvals` | `consume` | authorization | concurrent processes, lock timeout, crash, SQLite errors |
| CLI (`cli.py`) | exit code | `validate`, `run`, `home snapshot` | all of the above | which exit code says what |
| Dry-run executor (`executor.py`) | none | three kinds of audit records | audit | an audit failure nobody catches |
| Audit writer (`audit.py`) | the JSONL file | strict and best-effort write | executors | failing writes, half-written lines |
| Home (`home.py`) | none | snapshot, tolerance, hash | executor, approval | rounding, stale samples |
| Validation service (`service.py`) | kept-alive connections, a thread each | `do_POST`, the refusals, `serve` | map client | unread bodies, stalled clients |
| Map client (`clients/phase0-map/index.html`) | points, altitude, id, requests under way, panel, tracks | clicks, slider, reset, `submit` | service | answers out of order, reset during a request |
| Acceptance checks (`acceptance_checks.py`) | none | parse an audit file, judge a run | harness, audit file | partial lines |
| Acceptance harness (`scripts/px4_acceptance_harness.py`) | scenario, approvals, subprocess group, verdicts | three scenarios, SIGTERM and SIGKILL, verdicts | CLI, adapter, PX4, checks | time budgets, servers that hold the pipes, a home that moves |
| Failure adapter (`scripts/acceptance_failure_adapter.py`) | none | a flight that fails in its hold | executor, harness | exit codes of its own |
| Hashing, planner, setup, missions, docs | none | pure or textual | | |

What makes each part correct:

- **Executor**: it never abandons a vehicle it sent up, reports a landing only
  when there is one, disarms only on the ground, takes off only from the signed
  home, commands nothing that is not on record, tells one story in its log, and
  ends.
- **Policy**: it approves exactly the missions that are safe as a whole.
- **Authorization and nonce store**: one nonce, one execution, whoever asks and
  whoever dies; a refusal costs nothing; nobody waits for ever.
- **CLI**: an exit code says whether the approval is spent.
- **Audit log**: who is past a strict record has it on file; a file that no
  write was cut in reads back what was written.
- **Validation service**: an answer is about the request it answers; nobody
  waits for somebody else's client.
- **Acceptance harness**: a PASS is earned, every scenario ends, and nothing of
  it meets the next one.
- **Map client**: a decision that is shown as current is about what is on the
  map.

`PROJECT.json` lists every hazard at its line, with the properties that would
catch it, or why none does yet.

## 2. Modules

| Module | What it is |
|---|---|
| `MissionModel` | action types and two mission shapes, shared by policy and executor |
| `Vehicle` | the vehicle and its link: the executor's environment, external |
| `MavsdkExecutor` | one run of `MavsdkExecutor.execute`; extends `Vehicle`, implements `Flight` |
| `FlightPlan` | the waits of a run and what may follow each; shared by `Flight` and the harness |
| `Flight` | abstract: which commands a run sends in which order, what becomes of it when something fails, what it may report |
| `MavsdkExecutorProofs` | the executor's inductive invariant and theorems, its refinement of `Flight`, and a bound on its steps |
| `Policy`, `PolicyProofs` | `PolicyEngine.evaluate` and what an approved mission looks like |
| `OneTimeApproval`, `OneTimeApprovalProofs` | abstract: each request is granted, refused or lost in one step, and a nonce is granted once |
| `Authorization`, `AuthorizationProofs` | `nightjar run` by several processes on one database; refines `OneTimeApproval` |
| `AuditFile` | the JSONL file: its pieces, torn writes, and the acceptance checks that read it |
| `AuditLog`, `AuditLogProofs` | several runs of one mission, dry or flown, on one file |
| `ValidationService`, `ValidationServiceProofs` | the HTTP service and its clients |
| `HomeSnapshot` | `nightjar home snapshot` and the file it leaves |
| `AcceptanceHarness`, `AcceptanceHarnessProofs` | the harness, its subprocesses and PX4's home; extends `AuditFile`, `HomeSnapshot` and `FlightPlan` |
| `MapClient`, `MapClientProofs` | the map page with overlapping requests |
| `MC*` | constants of the small instances |

The components meet in five places. `AcceptanceHarness` composes the snapshot
command, the flights, the audit file and the checks. `AuditLog` has the records
of both executors, which `MavsdkExecutor` keeps as a set. `Policy` proves (`ApprovedFitsExecutor`) the
assumption `ApprovedAssumption` that `MavsdkExecutor` makes of its missions.
`Authorization` treats the executor as one step; the executor treats the
consumption of its nonce as one step (`Authorize`), which `Implements`
justifies. The flights of the harness go by the plan of `FlightPlan`
(`AfterIsPlanned`), which the executor is proved to follow (`RunsAsPlanned`).

### Vehicle and MavsdkExecutor

A command is issued into `link`, in order, and later executed, refused or lost;
`acked` says whether the last command has been acknowledged. A caller that
stops waiting recalls nothing. Arming may move `home`. Each `await` of the code
is a value of `pc`, and the code up to the next `await` is one action with the
name of what was awaited: `ArmAcknowledged` is the code after
`await drone.action.arm()`, `HomePostArm` the second home check with the
takeoff call it leads to. `CallRaises` and `WaitRaises` are the exceptions, and
timeouts, of calls and of telemetry waits; `Fail` is the outer `except`,
`RecoverFlight`, `RecoverArm` and their continuations are `_recover`, and
`RecoveryTimesOut` its single `wait_for`. `Cancel` is `task.cancel()`: in the
mission it raises `CancelledError`, in the recovery it is absorbed by the
shielded wait. `Interrupt` is a `KeyboardInterrupt` raised inside the loop.
`Record` and `BestEffort` are the two audit writers.

`Flight` sees of all this what the run waits for (`Waits[pc]`), the commands it
has sent, what ended its mission and what it says of its recovery. `Send` and
`Arrive` are the mission, `Raise` the outer `except`, `Clean` and `Settle` the
recovery, `Close` the end; `Interrupted` is a Ctrl-C that cuts one of them short.
Link, telemetry, home and audit file are not in it. Its `Promise` follows from
its steps alone.

### Policy

One turn of the loop is one action (`Takeoff`, `Hold`, `Goto`, `ReturnHome`,
`Land`), each with the check at the end of the turn (`Remaining`) inside it;
`Conclude` applies the aggregate limits. Floats are naturals and `hypot` is a
constant function of two places, so sums are exact where the code's round.

### Authorization

Each process is a run of the CLI: `Load` (mission and policy), `Open`
(approval, key, database), `Verify` (capabilities, then the approval at one
reading of the clock), `Begin`/`Busy` (`BEGIN IMMEDIATE`, or the five-second
timeout), `Insert`, `Commit`, `Start` and `Finish` (the executor and its exit
code). `Crash` may hit anywhere; around the COMMIT the row may or may not have
reached the disk. The clock is any value at each reading. A digest stands for
what it digests.

### AuditFile and AuditLog

A file is the sequence of the pieces its writers appended: a record with its
newline (`Line`), one that lost it (`Bare`), or a part of one (`Half`). `Write`
is a `write_audit_record` that returns, `Tear` one that raises or whose process
dies. A dry run's records are all strict; a flight's are strict up to the
accepted takeoff (`WriteStrict`, `StrictRaises`), best effort from then on
(`WriteLoose`, `LooseFails`), and end in `mission_failed` (`LogFailure`) or
`mission_completed`. The three checks of `acceptance_checks.py` are operators
of an exit code, an output and a file.

### ValidationService

A connection has a thread once it is accepted. `TurnAway` is every answer given
without reading the body (404, 405, 204, 501), `TooLarge` the 413 that closes
the connection, `Wait` and `Judge` the read of the body and the rest of
`do_POST`. A body left behind is taken for the next request line: `Refuse` is
http.server's answer to it once somebody asks, `RefuseUnasked` the one it gives
at once if the body has a line break.

### HomeSnapshot and AcceptanceHarness

A subprocess is what its CLI waits for (`wait`), for how long, and who is alive
in its process group. `Begin` is the authorization and the first record,
`Arrives` the awaits of a flight in their order, `Raises` their failures,
`Inject` the adapter's, `Land`, `Recovers` and `Closes` the three ways a flight
ends, each with its last record and exit code. The flight is that of
`MavsdkExecutor` with the vehicle left out, of which the harness sees nothing:
a recovery may end in any way its code has. `Start`, `Collect`, `Terminate`,
`Kill` and `Judge` are `main()` and `run_command()`; `Forgotten` is the state
home of its own each scenario gets. Time passes in units of ten seconds, and a
timer fires before more of it passes (`Tick`).

### MapClient

Handlers run to completion. `Submit` is `submit()` up to its `await`,
`NoAnswer`, `Malformed` and `Decision` the rest of it. A click that moves the
destination enables the button while a request is under way, so `pending` is a
set. Places are whole centimetres on a line, the unit `buildMission` rounds to,
so the conversions there and back are exact.

## 3. Runs

| Run | Question | Bounds |
|---|---|---|
| `executor` | all safety properties of a run with honest telemetry, and that it implements `Flight` | four missions (shortest flight, one with a hold, an untranslatable one, a rejected one), two homes, one near; two cancellations; a crash anywhere |
| `executor_faults` | with samples that are no boolean and an SDK that may never answer: no disarm in flight, a recovery that began ends, and the run ends if the SDK ends its calls | one flight, one cancellation, one interrupt |
| `executor_second_interrupt` | violation: see findings | one flight, one interrupt |
| `policy` | approval is exactly safety of the whole mission | every mission of up to five actions, with data at and just beyond each limit, and flights of six and seven actions around `MaxActions` |
| `authorization` | what an execution rests on, what a refusal costs, what an exit code says; one execution per nonce, refinement, nobody stranded | two processes, ten kinds of requests, clock 0..4 around a skew of 1 and a lifetime of 3 |
| `audit` | strict records stay on file, an uncut file reads back | one dry run of three records and one flight of four (two of them strict), two cut writes, a death anywhere |
| `service` | answers belong to their requests, nobody starves | two connections, ten kinds of requests, two requests each |
| `acceptance` | a PASS is earned, replay shows reuse, nobody is left behind, every scenario ends | three scenarios, two homes, waits of 10 or 20 s, a budget of 40 s, 10 s between SIGTERM and SIGKILL, approvals of 70 s |
| `acceptance_budget` | violation: see findings | the program's own times: 180 s, 300 s, waits of 10 to 30 s |
| `map_client` | ids, currency of decisions, the button | three points, two altitudes, two requests, five ids |
| `map_divergence`, `map_unreachable` | violations: see findings | the same, smaller |

Why the bounds are enough. The executor sends at most six commands and the
loop treats all holds alike, so one hold stands for any number; two homes
suffice because only being near matters; a second cancellation is the first that
finds a recovery already shielded, and a third meets the same state. The policy
compares each datum with one limit, so a value at and one beyond each limit
tell all cases apart, and order rules look at no more than an action, its
predecessors' state and its successors. Two processes already meet in every
pair of steps. Two overlapping requests suffice for answers out of order. A dry
run and a flight have every kind of record, and two cut writes let a torn piece
stand before and after a whole one. One connection stalls while the other one
asks, and a second request is what meets an unread body. The short times of
`acceptance` keep the order of the program's own (each wait is shorter than the
budget, a whole flight is longer, and budget, grace and the wait for the
database together are shorter than the approval lives), so the same timers can
overtake one another. What the theorems prove needs no
bounds at all.

Bounds by name: `MaxCancels`, `MaxInterrupts` (executor), `MaxLength`
(policy), `MaxIds`, `MaxRequests` (map client),
`MaxCuts` (audit log), `MaxRequests` (service). Deadlock is not checked: every
run of these programs ends, and the clients of the service may stop asking.

### Fairness

- `FairSpec` (executor): weak fairness of `Unaided`, what the event loop does
  without anybody's help: code between awaits, its own timers. No vehicle, SDK,
  cancellation or crash is fair. That a recovery ends needs no more.
- `Termination` assumes within itself that the SDK ends `connect`,
  `set_takeoff_altitude` and the other calls that have no timer in the code,
  with an answer or an exception (`WF_vars(SdkAnswers) => <>Ended`); without it
  the run may wait for ever (lines 174, 197, 204, 226, 238).
- `FairSpec` (authorization): weak fairness of each process, which the
  operating system schedules; crashes and the lock timeout are not fair, so
  `NeverStranded` does not lean on the timeout.
- `FairSpec` (service): weak fairness of each thread, which the operating system
  schedules. No client is fair: a body may never come.
- `FairSpec` (harness): weak fairness of time, of the harness's own steps and of
  what the CLI does by its own code and timers. No call of the SDK is answered,
  no server ends by itself, no restart command returns by assumption.

### Properties worth a note

`NoDisarmInFlight` relates a disarm that is on its way to every other command
still in the link. `DisarmFinal` says the arm whose acknowledgment was in doubt
cannot overtake the disarm. `TakeoffNearBoundHome` relates the home at takeoff,
not at the check. `OneVerdict` covers a cancellation in the last stretch of the
run. `SafeIsApproved` with `ApprovedIsSafe` and `ApprovedWithinTotals` compares
the pass with a definition of a safe mission that looks at the whole mission at
once. `ExecutedIsAuthorized` is about the row that stays behind, and fails if
the clock is read a second time. `RefusedSpendsNothing` accounts for every row.
`ImplementsFlight` relates every step of the run to the commands sent so far: a
flag set after its call instead of before is a step `Flight` does not have.
`GatedOnFile` holds although other runs' torn pieces may stand anywhere between
the records. `AnswersTheRequest` names the one way an answer can be about
something else, and excludes it for a request refused for its size.
`PassIsEarned` compares what three checks read in exit codes and logs with what
the flights did, torn logs, killed processes and moving homes included.
`ReplayShowsReuse` relates the lifetime of an approval to the time budget of the
run before. `CurrentIdIsCurrent` holds across late answers, moves and resets, which is why
the id is the thing to compare.

## 4. Proofs

| Theorem | Statement | Assuming |
|---|---|---|
| `MavsdkExecutorProofs!TypeCorrect` | types | |
| `TakeoffFromBoundHome` | takeoff only from a home near the signed one | |
| `DisarmIsFinal` | `disarm_accepted` is final | |
| `LandingIsConfirmed` | a reported landing is one; recovery is not required only when nothing needs it | telemetry never calls a flying vehicle landed |
| `DisarmOnlyOnGround` | disarm only on the ground | telemetry never says `on_ground` of a flying vehicle; other samples may be anything |
| `FlightIsNotAbandoned` | a vehicle sent up is landed or reported failed | telemetry never calls a flying vehicle landed, and no `KeyboardInterrupt` inside the loop |
| `NothingToRecover` | recovery is not required only when nothing needs it | telemetry never calls a flying vehicle landed |
| `CommandsAreOnRecord`, `AuditIsNoHazard`, `ContactIsAuthorized`, `VerdictIsOne` | records precede commands, never end a flight, and tell one story; contact is paid for | |
| `CancellationIsShielded`, `OriginalErrorStays` | no cancellation ends a recovery, and the first error stays | no `KeyboardInterrupt` inside the loop |
| `RunsAsPlanned` | `MavsdkExecutor` implements `Flight` | |
| `PlanKeepsPromise` | what implements `Flight` keeps its `Promise` on the commands sent | |
| `EveryStepCounts` | nothing leaves a run with more to do, and its own steps leave it with less: 13 and 8 for each action at most | |
| `PolicyProofs!TypeCorrect`, `ApprovedMissionsAreSafe`, `ApprovedFitsExecutor` | types; order, per-action limits and counts of an approved mission; the shape the executor relies on | |
| `ApprovedMissionsWithinTotals` | the holds and the legs of an approved mission, the way home included, add up to no more than the limits | |
| `SafeMissionsAreApproved` | whatever is safe is approved | |
| `AuthorizationProofs!TypeCorrect`, `NonceExecutedOnce`, `ExecutionIsAuthorized`, `ExitCodesTell`, `RefusalIsFree` | the safety properties of `authorization` | |
| `LockHasLiveOwner` | a lock on the database is held by a live process inside its transaction | |
| `ConsumptionIsAtomic` | `Authorization` implements `OneTimeApproval` | |
| `OneTimeApprovalProofs!GrantsAreUnique` | the abstract specification grants a nonce once | |
| `AuditLogProofs!TypeCorrect`, `StrictRecordsStand`, `ChecksReadTheLog` | the properties of `audit`, for any runs, records and cut writes | |
| `ValidationServiceProofs!TypeCorrect`, `AnswersAreTheirs` | an answer is about its request, for any connections and requests | |
| `AcceptanceHarnessProofs!TypeCorrect`, `NobodyIsLeftBehind`, `ReplayIsOfReuse`, `AcceptanceIsEarned` | the safety properties of `acceptance`, for any times | an approval outlives budget, grace and the wait for the database (`LifetimeAssumption`) |
| `BudgetWouldSuffice` | no recovery is terminated while its timer runs, if calls are answered at once | a budget of the sum of all timers |
| `MapClientProofs!TypeCorrect`, `IdsIdentify`, `CurrentDecisionIsCurrent`, `ButtonComesBack` | the properties of `map_client` | |

Apart from the last column, which the theorems themselves state where it is no
`ASSUME`, all rest only on the named `ASSUME`s of the modules, which TLC evaluates
in every run.

**Executor.** The invariants are not inductive by themselves: that a disarm
finds the vehicle on the ground depends on which commands are in the link, which
depends on which were acknowledged and where the run is. `InductiveInvariant`
has one part for each of these: `LinkInv` (an acknowledgment empties the
link), `AwaitedInv` (the awaited command is the last one), `ProtocolInv` (what
flags and position say of the commands issued), `HomeInv` and `DisarmInv`,
`LandInv`, `GroundInv`, `DisarmGroundedInv` and `FlightInv`. The first six
need nothing of telemetry; `DisarmGroundedInv` needs that it never says
`on_ground` of a flying vehicle, `GroundInv` that it never says anything else that
passes for a landing either. What the log says needs three more:
`RecordsInv` (how far a run is, by the records it owes), `PaidInv` (what is paid
for before anything is contacted) and `VerdictInv` (a verdict is written on the
way out).

The refinement of `Flight` goes by the same cases, one lemma for what a failure
does in the plan (`RaisesAsPlanned`) and one for each group of steps
(`StepAsPlanned`). It needs `PlanInv`: which commands have been sent at each
`pc`, which status and error go with it, and, from the shape of an approved
mission (`ApprovedAssumption`), what the head of the loop leads to. `Promise` is
then proved of `Flight` alone, with `PromiseInv`, which says what has been sent
by the time of each wait. `EveryStepCounts` needs no invariant but the types: a
measure, `StepsLeft`, bounds the steps that can be left, and every step of the
executor takes from it. With it `Termination` and `RecoveryBounded` come down to
the enabledness that TLC checks.

**Policy.** `LoopInv` says of the actions passed so far what the conclusion
says of all: `OrderInv` (unless a reason was found, the state tells the order
so far), `LimitsInv`, `CountInv` (the counter is the number of gotos) and
`VerdictInv`. For the totals, `SumsInv` says that the sums of the pass are those over
the actions behind it and that `current` is where they lead. The library's sum is a
fold that takes any element first; that it can take the last one instead
(`SumTakeOut`) is proved by a smallest counterexample, since strict inclusion is
well-founded on the subsets of a finite set. `SafeInv` is the other direction: on a
mission that is safe as a whole, no turn and no limit of the conclusion gives a reason.

**Authorization.** `AuthInv`: who writes holds the lock (`LockInv`); a row about
to be committed is still missing (`FreshInv`), because nobody else holds the
lock; what a process has behind it (`PathInv`); what a grant rests on
(`GrantInv`); granted nonces differ (`OnceInv`). The refinement maps the COMMIT
to `Grant`, every other end of a process that asks to `Refuse` or `Lose`, and
all else to a stutter. `ExitCodes` needs in addition that only ended processes
have codes (`ExitInv`).

`LockHasLiveOwner` is what `NeverStranded` rests on besides fairness.

**Audit log.** A file only grows, and a run's strict record goes in with the step
that counts it (`Gated`), so both properties are inductive with the types; the
work is in sequences that gain a piece of any kind.

**Validation service.** `PaceInv`: a connection is ahead of its answers by one
request at most, and who waits for a body owes an answer and has left nothing
unread. `UnreadInv`: an unread body is that of an answered request that may
leave one.

**Acceptance harness.** `RunInv`: what is known of a subprocess that has not
started, has not begun, or is gone. `ContactInv`: an approval is consumed before
its flight contacts anybody. `TimeInv`: how old the first approval can be,
phase by phase, so that the replay is never refused for its age. `HomeInv`: every
`mission_failed` in the file that tells of a landing is backed by one, and who is
past the takeoff took off from the home of the snapshot. `VerdictInv`: a verdict
is about a scenario of which nothing changes any more. `BudgetInv`, for a subprocess
whose calls are answered at once: the time spent is no more than the timers it
has come past (`Due`) and the one it is at, wherever it failed. It turns the finding of
`acceptance_budget` round: `BudgetWouldSuffice` says which budget would do.

**Map client.** `IdInv`: no id is newer than the current one, and the current
one has named nothing but the mission on the map.

Only model-checked: every liveness property (`RecoveryBounded`, `Termination`,
`NeverStranded`, `NobodyStarves`, `EveryScenarioEnds`), since the prover does not
reason about fairness or ENABLED. Every invariant and action property that a
passing run checks, and both refinements, are proved.

## 5. Findings

1. **A second Ctrl-C replaces the mission's exception**
   (`executor_second_interrupt`). The clause around `_recover_protected`
   catches `Exception` and `CancelledError`, not `KeyboardInterrupt`, against
   the comment at `mavsdk_executor.py:267-268`.
2. **The legend of the map is wrong** (`map_divergence`): moving the
   destination keeps the old normalized track, so the two lines part although
   no conversion is.
3. **"The validation service did not answer" when it was never asked**
   (`map_unreachable`): a failing request after a reset enables the button
   without points, and the `TypeError` of `buildMission` is handled like a
   network failure.
4. **The harness's budget is smaller than its comment says**
   (`acceptance_budget`): the executor's own timers add up to 190 s with one
   hold of ten (connection 20, home 20, armed 30, home again 20, altitude 30,
   hold 10, landing 30, recovery 30), so a recovery with time left may be
   terminated after 180 s, against the comment at
   `px4_acceptance_harness.py:168-169`.

Observed, without a run of its own: `if not is_in_air` at
`mavsdk_executor.py:487` takes a sample that is no boolean for a landing, where
`_recover` checks for `False`. `LandingConfirmed` therefore assumes booleans.

## 6. Not modelled, and the plan

Not modelled: numerics (haversine, rounding of the signed home, floating point
sums), canonical JSON and cryptography, the wording of reasons and of the panel,
the planner's constant mission, the setup script, the smoke test, and the
evidence bundle the harness writes.

Abstracted: the harness is not interrupted (a Ctrl-C on it would leave the
subprocess, which has a session of its own, flying); of the vehicle, its flights
keep the home only; a write's pieces do not mix with another's, since a
record is far below the size of one write; http.server is modelled by what it
does with a line that is no request; the clock of an approval and that of the
time budgets is one; all runs of the CLI share one nonce
database (runs with different `--nonce-db` paths do not see one another's nonces).

Planned:

1. Measures like `StepsLeft` for the harness and for the service, so that what is
   left of their liveness to TLC is enabledness alone.
2. The service's answers as the environment of `MapClient`, in place of its own.
3. An interrupted harness, and the clock of a COMMIT that waits for the
   database, if the code comes to promise something about them.
