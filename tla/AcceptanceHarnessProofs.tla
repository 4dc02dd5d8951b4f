------------------------ MODULE AcceptanceHarnessProofs ------------------------
(* What a verdict of the harness rests on, for any budget and any timers. *)
EXTENDS AcceptanceHarness, TLAPS

Files == [exists : BOOLEAN, text : Seq(Pieces)]

LEMMA EntryPieces ==
  ASSUME NEW e \in Entries
  PROVE  {Line(e), Bare(e), Half(e)} \subseteq Pieces
  BY DEF Pieces

LEMMA FailedIsEntry ==
  ASSUME NEW st \in Statuses, NEW e \in Errors
  PROVE  Failed(st, e) \in Entries
  BY DEF Entries

LEMMA WrittenTyped ==
  ASSUME NEW f \in Files, NEW e \in Entries
  PROVE  Written(f, e) \in Files /\ Torn(f, e) \subseteq Files
  <1>1. f.text \in Seq(Pieces) /\ f.exists \in BOOLEAN
    BY DEF Files
  <1>2. \A q \in {Line(e), Bare(e), Half(e)} : Append(f.text, q) \in Seq(Pieces)
    BY <1>1, EntryPieces
  <1>3. \A q \in {Line(e), Bare(e), Half(e)} : [exists |-> TRUE, text |-> Append(f.text, q)] \in Files
    BY <1>2 DEF Files
  <1>4. [f EXCEPT !.exists = TRUE] \in Files
    BY DEF Files
  <1> QED
    BY <1>3, <1>4 DEF Written, Torn

LEMMA ProgressTyped == ASSUME NEW f \in Files PROVE Progress(f) \subseteq Files
  <1>1. Acted \in Entries
    BY DEF Entries
  <1> QED
    BY <1>1, WrittenTyped DEF Progress

LEMMA AbsentTyped == Absent \in Files
  <1>1. << >> \in Seq(Pieces)
    OBVIOUS
  <1> QED
    BY <1>1 DEF Absent, Files

(* The types in three parts, after what the actions touch. *)
HarnessOK ==
  /\ pc \in {"snapshot", "start", "running", "terminating", "killing", "judging", "restart",
             "ended", "aborted"}
  /\ scenario \in Scenarios
  /\ results \in [Scenarios -> {"none", "pass", "fail"}] /\ overall \in {"none", "pass", "fail"}
  /\ age \in 0..Ttl /\ spent \in Nat

CliOK ==
  /\ alive \subseteq {"cli", "server"}
  /\ wait \in Timed \cup Calls \cup {"none", "closing"} /\ waited \in Nat
  /\ error \in Errors /\ code \in Codes /\ out \subseteq Sayings
  /\ file \in Files

FactsOK ==
  /\ command \in {"connect", "connection", "health", "home", "ended"}
  /\ homeFile \in Homes \cup {NoHome, Broken} /\ px4Home \in Homes
  /\ used \subseteq {"success", "failure"}
  /\ contacted \subseteq Scenarios /\ landed \subseteq Scenarios /\ recovered \subseteq Scenarios
  /\ origin \in [Scenarios -> Homes \cup {NoHome}]

LEMMA TypeParts == TypeOK <=> HarnessOK /\ CliOK /\ FactsOK
  BY DEF TypeOK, HarnessOK, CliOK, FactsOK, Files

LEMMA InitTyped == Init => TypeOK
  <1> SUFFICES ASSUME Init PROVE HarnessOK /\ CliOK /\ FactsOK
    BY TypeParts
  <1>1. HarnessOK
    BY TimesAssumption DEF Init, HarnessOK, Scenarios
  <1>2. CliOK
    BY AbsentTyped DEF Init, CliOK, Errors, Codes
  <1>3. FactsOK
    BY DEF Init, SnapshotInit, FactsOK
  <1> QED
    BY <1>1, <1>2, <1>3

LEMMA HarnessTyped == TypeOK /\ [Next]_vars => HarnessOK'
  <1> SUFFICES ASSUME TypeOK, [Next]_vars PROVE HarnessOK'
    OBVIOUS
  <1>t. HarnessOK
    BY TypeParts
  <1>1. CASE UNCHANGED <<harnessVars, clock>>
    BY <1>1, <1>t DEF harnessVars, clock, HarnessOK
  <1>2. CASE Tick
    BY <1>2, <1>t, TimesAssumption DEF Tick, HarnessOK, harnessVars
  <1>3. CASE Load \/ Collect \/ Restart
    BY <1>3, <1>t DEF Load, Collect, Restart, clock, HarnessOK
  <1>4. CASE Start \/ Terminate \/ Kill
    BY <1>4, <1>t, TimesAssumption DEF Start, Terminate, Kill, clock, HarnessOK
  <1>5. CASE Judge
    <2>1. results' \in [Scenarios -> {"none", "pass", "fail"}]
      BY <1>5, <1>t DEF Judge, HarnessOK
    <2>2. scenario' \in Scenarios /\ overall' \in {"none", "pass", "fail"}
          /\ pc' \in {"start", "restart", "ended"}
      BY <1>5, <1>t DEF Judge, HarnessOK, Scenarios
    <2>3. age' = age /\ spent' = 0
      BY <1>5 DEF Judge, Forgotten
    <2> QED
      BY <2>1, <2>2, <2>3, <1>t DEF HarnessOK
  <1> QED
    <2>1. Cli => UNCHANGED <<harnessVars, clock>>
      BY DEF Cli, Unaided, Refused, Begin, Observed, WaitRaises, Inject, Land, Recovers, Closes,
             Answered, CallRaises, Arrives, Raises
    <2>2. ServerEnds => UNCHANGED <<harnessVars, clock>>
      BY DEF ServerEnds
    <2>3. UNCHANGED vars => UNCHANGED <<harnessVars, clock>>
      BY DEF vars
    <2> QED
      BY <1>1, <1>2, <1>3, <1>4, <1>5, <2>1, <2>2, <2>3 DEF Next, Harness

LEMMA ExitTyped ==
  ASSUME CliOK, NEW c \in Codes, NEW said, said \subseteq Sayings, Exit(c, said), file' \in Files
  PROVE  CliOK'
  BY DEF CliOK, Exit, Goes, Errors

LEMMA CliTyped == TypeOK /\ [Next]_vars => CliOK'
  <1> SUFFICES ASSUME TypeOK, [Next]_vars PROVE CliOK'
    OBVIOUS
  <1>t. CliOK /\ file \in Files
    BY TypeParts DEF CliOK
  <1>w. Started \in Entries /\ Completed \in Entries
    BY DEF Entries
  <1>c. {0, 3, 4, 5, 6, 7} \subseteq Codes
    BY DEF Codes
  <1>1. CASE UNCHANGED cli
    BY <1>1, <1>t DEF cli, CliOK
  <1>2. CASE Refused
    <2>1. \E c \in {3, 4}, said \in {{"expired"}, {"already used"}, {"database"}} : Exit(c, said)
      BY <1>2 DEF Refused
    <2>2. file' = file
      BY <1>2 DEF Refused
    <2>3. \A said \in {{"expired"}, {"already used"}, {"database"}} : said \subseteq Sayings
      BY DEF Sayings
    <2> QED
      BY <2>1, <2>2, <2>3, <1>t, <1>c, ExitTyped
  <1>3. CASE Begin
    <2>1. CASE file' \in Torn(file, Started) /\ Exit(5, {})
      <3>1. file' \in Files
        BY <2>1, <1>t, <1>w, WrittenTyped
      <3> QED
        BY <2>1, <3>1, <1>t, <1>c, ExitTyped
    <2>2. CASE /\ file' = Written(file, Started) /\ alive' = alive \cup {"server"}
               /\ Goes("connect") /\ UNCHANGED <<code, out, error>>
      <3>1. file' \in Files
        BY <2>2, <1>t, <1>w, WrittenTyped
      <3> QED
        BY <2>2, <3>1, <1>t DEF CliOK, Goes, Calls
    <2> QED
      BY <1>3, <2>1, <2>2 DEF Begin
  <1>4. ASSUME NEW w \in Calls \cup (Timed \cap DOMAIN After), Arrives(w) PROVE CliOK'
    <2>1. file' \in Files
      BY <1>4, <1>t, ProgressTyped DEF Arrives
    <2>2. After[w] \in Timed \cup Calls
      BY DEF After, Calls, Timed
    <2>3. /\ wait' = After[w] /\ waited' = 0 /\ UNCHANGED <<alive, error, code, out>>
      BY <1>4 DEF Arrives, Goes
    <2> QED
      BY <2>1, <2>2, <2>3, <1>t DEF CliOK
  <1>5. ASSUME NEW w, NEW e \in Errors, Raises(w, e) PROVE CliOK'
    <2>1. file' \in Files
      BY <1>5, <1>t, ProgressTyped DEF Raises
    <2>2. /\ wait' \in {"closing", "recovery"} /\ waited' = 0 /\ error' = e
          /\ UNCHANGED <<alive, code, out>>
      BY <1>5 DEF Raises, Goes, Leaves
    <2> QED
      BY <2>1, <2>2, <1>t DEF CliOK, Timed
  <1>6. CASE Land
    <2>1. PICK f \in Progress(file) : file' \in {Written(f, Completed)} \cup Torn(f, Completed)
      BY <1>6 DEF Land
    <2>2. file' \in Files
      BY <2>1, <1>t, <1>w, ProgressTyped, WrittenTyped
    <2>3. Exit(0, {"simulation complete"}) /\ {"simulation complete"} \subseteq Sayings
      BY <1>6 DEF Land, Sayings
    <2> QED
      BY <2>2, <2>3, <1>t, <1>c, ExitTyped
  <1>7. ASSUME NEW st \in Statuses, Fails(st) PROVE CliOK'
    <2>1. error \in Errors /\ {error} \subseteq Sayings
      BY <1>t DEF CliOK, Sayings
    <2>2. Failed(st, error) \in Entries
      BY <2>1, FailedIsEntry
    <2>3. file' \in Files
      BY <1>7, <2>2, <1>t, WrittenTyped DEF Fails
    <2>4. \E c \in {5, 6, 7} : Exit(c, {error})
      BY <1>7 DEF Fails, FailureCodes
    <2> QED
      BY <2>1, <2>3, <2>4, <1>t, <1>c, ExitTyped
  <1>8. CASE ServerEnds \/ Kill
    BY <1>8, <1>t DEF ServerEnds, Kill, CliOK
  <1>9. CASE Start
    BY <1>9, <1>t DEF Start, Goes, CliOK, Timed
  <1>10. CASE Terminate
    <2>1. file' \in Files
      BY <1>10, <1>t, ProgressTyped DEF Terminate
    <2> QED
      BY <1>10, <2>1, <1>t DEF Terminate, Goes, CliOK, Codes, Errors
  <1>11. CASE Judge
    BY <1>11, <1>t, AbsentTyped DEF Judge, Forgotten, CliOK, Codes
  <1>12. CASE Tick
    BY <1>12, <1>t DEF Tick, CliOK
  <1> QED
    <2>1. Load \/ Collect \/ Restart \/ UNCHANGED vars => UNCHANGED cli
      BY DEF Load, Collect, Restart, vars
    <2>2. Observed \/ Answered => \E w \in Calls \cup (Timed \cap DOMAIN After) : Arrives(w)
      BY DEF Observed, Answered
    <2>3. WaitRaises \/ CallRaises \/ Inject => \E w, e : e \in Errors /\ Raises(w, e)
      BY DEF WaitRaises, CallRaises, Inject, Errors
    <2>4. Recovers \/ Closes => \E st \in Statuses : Fails(st)
      BY DEF Recovers, Closes, Statuses
    <2> QED
      BY <1>1, <1>2, <1>3, <1>4, <1>5, <1>6, <1>7, <1>8, <1>9, <1>10, <1>11, <1>12,
         <2>1, <2>2, <2>3, <2>4 DEF Next, Cli, Unaided, Harness

LEMMA FactsTyped == TypeOK /\ [Next]_vars => FactsOK'
  <1> SUFFICES ASSUME TypeOK, [Next]_vars PROVE FactsOK'
    OBVIOUS
  <1>t. FactsOK /\ scenario \in Scenarios
    BY TypeParts DEF HarnessOK
  <1>1. CASE UNCHANGED <<facts, snapshotVars>>
    BY <1>1, <1>t DEF facts, snapshotVars, FactsOK
  <1>2. CASE Snapshot /\ UNCHANGED facts
    BY <1>2, <1>t DEF Snapshot, SnapshotWaits, SnapshotFails, SnapshotTaken, facts, FactsOK
  <1>3. CASE Begin
    <2>1. used' = used \cup {Approval(scenario)} /\ Approval(scenario) \in {"success", "failure"}
      BY <1>3 DEF Begin, Approval
    <2>2. contacted' = contacted \/ contacted' = contacted \cup {scenario}
      BY <1>3 DEF Begin
    <2>3. UNCHANGED <<landed, recovered, origin, snapshotVars>>
      BY <1>3 DEF Begin
    <2> QED
      BY <2>1, <2>2, <2>3, <1>t DEF snapshotVars, FactsOK
  <1>4. ASSUME NEW w, Arrives(w) PROVE FactsOK'
    <2>1. px4Home' \in Homes
      BY <1>4, <1>t DEF Arrives, FactsOK
    <2>2. origin' \in [Scenarios -> Homes \cup {NoHome}]
      BY <1>4, <1>t DEF Arrives, FactsOK
    <2>3. UNCHANGED <<used, contacted, landed, recovered, command, homeFile>>
      BY <1>4 DEF Arrives
    <2> QED
      BY <2>1, <2>2, <2>3, <1>t DEF FactsOK
  <1>5. CASE Land \/ Recovers
    <2>1. /\ landed' = landed \/ landed' = landed \cup {scenario}
          /\ recovered' = recovered \/ recovered' = recovered \cup {scenario}
          /\ UNCHANGED <<used, contacted, origin, snapshotVars>>
      BY <1>5 DEF Land, Recovers
    <2> QED
      BY <2>1, <1>t DEF snapshotVars, FactsOK
  <1>6. CASE Restart
    BY <1>6, <1>t DEF Restart, facts, FactsOK
  <1> QED
    <2>1. \/ Refused \/ Closes \/ WaitRaises \/ CallRaises \/ Inject \/ ServerEnds \/ Harness
          \/ Tick \/ UNCHANGED vars
          => UNCHANGED <<facts, snapshotVars>>
      BY DEF Refused, Closes, WaitRaises, CallRaises, Inject, Raises, ServerEnds, Tick, vars,
             Harness, Load, Start, Collect, Terminate, Kill, Judge
    <2>2. Observed \/ Answered => \E w : Arrives(w)
      BY DEF Observed, Answered
    <2> QED
      BY <1>1, <1>2, <1>3, <1>4, <1>5, <1>6, <2>1, <2>2 DEF Next, Cli, Unaided

LEMMA TypedStep == TypeOK /\ [Next]_vars => TypeOK'
  <1> SUFFICES ASSUME TypeOK, [Next]_vars PROVE TypeOK'
    OBVIOUS
  <1>1. HarnessOK' /\ CliOK' /\ FactsOK'
    BY HarnessTyped, CliTyped, FactsTyped
  <1> QED
    BY <1>1 DEF TypeOK, HarnessOK, CliOK, FactsOK, Files

(* Type correctness of the harness and its subprocesses. *)
THEOREM TypeCorrect == Spec => []TypeOK
  BY InitTyped, TypedStep, PTL DEF Spec

----------------------------------------------------------------------------
(***************************************************************************)
(* The invariant.  RunInv: what the harness knows of a process it has not   *)
(* started, that has not begun, or that is gone.  ContactInv: an approval   *)
(* is consumed before the vehicle is contacted.  TimeInv: how old the first *)
(* approval can be.  HomeInv: where a flight took off from, and what the    *)
(* audit file may claim of it.  VerdictInv: a verdict outlives the scenario *)
(* it is about, of which nothing changes any more.                          *)
(***************************************************************************)
Idle == pc \in {"snapshot", "start", "restart"}
Asks(w) == "cli" \in alive /\ wait = w

RunInv ==
  /\ NobodyLeftBehind
  /\ "cli" \in alive => pc = "running" /\ code = -1 /\ out = {}
  /\ Idle => code = -1 /\ out = {} /\ file = Absent
  /\ Asks("begin") => file = Absent
  /\ code = 4 => file = Absent

ContactInv ==
  /\ \A s \in contacted : s <= scenario
  /\ Idle \/ Asks("begin") \/ code = 4 => scenario \notin contacted
  /\ 1 \in contacted \/ 2 \in contacted => "success" \in used
  /\ ~(1 \in contacted /\ 2 \in contacted)

TimeInv ==
  /\ pc = "snapshot" => scenario = 1
  /\ pc = "restart" => scenario = 3
  /\ Idle => spent = 0
  /\ pc = "running" => spent <= Budget
  /\ pc = "terminating" => spent <= Grace
  /\ scenario = 1 => /\ pc = "running" => age <= spent
                     /\ pc = "terminating" => age <= Budget + spent
                     /\ pc \in {"killing", "judging"} => age <= Budget + Grace
  /\ scenario = 2 => /\ pc = "start" => age <= Budget + Grace
                     /\ Asks("begin") => waited <= Limit["begin"] /\ age <= Budget + Grace + waited
                     /\ "expired" \notin out

Backed ==
  {r \in Entries : r.event = "mission_failed" /\ r.recovery = "landing_confirmed" =>
                     /\ scenario \in recovered
                     /\ r.error = "injected" => origin[scenario] = homeFile}

HomeInv ==
  /\ Asks("takeoff") => px4Home = homeFile
  /\ \A w \in {"climb", "hold", "land", "descent"} : Asks(w) => origin[scenario] = homeFile
  /\ error = "injected" => "cli" \in alive /\ origin[scenario] = homeFile
  /\ code = 0 => scenario \in landed /\ origin[scenario] = homeFile
  /\ \A i \in DOMAIN file.text : file.text[i].record \in Backed

Earned(s) ==
  /\ s = 1 => 1 \in landed /\ origin[1] = homeFile
  /\ s = 2 => 2 \notin contacted
  /\ s = 3 => 3 \in recovered /\ origin[3] = homeFile

VerdictInv ==
  /\ \A s \in Scenarios : results[s] # "none" => s < scenario \/ pc = "ended"
  /\ \A s \in Scenarios : results[s] = "pass" => Earned(s)
  /\ overall = "pass" => \A s \in Scenarios : results[s] = "pass"

----------------------------------------------------------------------------
(* What the steps of the CLI have in common. *)

LEMMA ExitFacts ==
  ASSUME NEW c, NEW said, Exit(c, said)
  PROVE  /\ code' = c /\ out' = said /\ wait' = "none" /\ error' = "none"
         /\ "cli" \notin alive'
  BY DEF Exit, Goes

LEMMA CliRuns ==
  ASSUME Cli
  PROVE  /\ pc = "running" /\ "cli" \in alive
         /\ UNCHANGED <<harnessVars, clock, command, homeFile>>
  BY DEF Cli, Unaided, Answered, CallRaises, Refused, Begin, Observed, WaitRaises, Inject, Land,
         Recovers, Closes, Arrives, Raises, Waits, snapshotVars

LEMMA CliContinues ==
  ASSUME Observed \/ Answered
  PROVE  \E w \in Calls \cup (Timed \cap DOMAIN After) : w # "begin" /\ Arrives(w)
  BY DEF Observed, Answered, Calls

LEMMA CliFails ==
  ASSUME WaitRaises \/ CallRaises \/ Inject
  PROVE  \E w, e : /\ w # "begin" /\ Raises(w, e)
                   /\ e # "other" => e = "injected" /\ w = "hold"
  BY DEF WaitRaises, CallRaises, Inject, Calls

LEMMA CliStays ==
  ASSUME NEW w, w # "begin", Arrives(w) \/ \E e : Raises(w, e)
  PROVE  /\ UNCHANGED <<alive, code, out>>
         /\ Arrives(w) => wait' = After[w] /\ UNCHANGED <<error, contacted, landed, recovered, used>>
         /\ (\E e : Raises(w, e)) => wait' \in {"closing", "recovery"} /\ UNCHANGED facts
  BY DEF Arrives, Raises, Goes, Leaves, facts

LEMMA CliEnds ==
  ASSUME Land \/ Recovers \/ Closes
  PROVE  "cli" \notin alive' /\ code' \in {0, 5, 6, 7} /\ error' = "none"
  <1>1. \A st : Fails(st) => "cli" \notin alive' /\ code' \in {0, 5, 6, 7} /\ error' = "none"
    BY ExitFacts DEF Fails, FailureCodes
  <1>2. CASE Land
    BY <1>2, ExitFacts DEF Land
  <1>3. CASE Recovers \/ Closes
    BY <1>1, <1>3 DEF Recovers, Closes
  <1> QED
    BY <1>2, <1>3

\* The flights the harness starts go by the plan that a run of the executor implements
\* (Flight, MavsdkExecutorProofs!RunsAsPlanned).
LEMMA AfterIsPlanned == \A w \in DOMAIN After : w \in DOMAIN Follows /\ After[w] \in Follows[w]
  BY DEF After, Follows

LEMMA AfterIsLater ==
  ASSUME NEW w \in Calls \cup (Timed \cap DOMAIN After)
  PROVE  After[w] # "begin"
  BY DEF After, Calls, Timed

LEMMA RunStep == TypeOK /\ RunInv /\ [Next]_vars => RunInv'
  <1> SUFFICES ASSUME TypeOK, RunInv, [Next]_vars PROVE RunInv'
    OBVIOUS
  <1> USE DEF RunInv, Idle, Asks, NobodyLeftBehind
  <1>1. CASE Cli
    <2>p. pc' = "running" /\ "cli" \in alive /\ code = -1 /\ out = {}
      BY <1>1, CliRuns DEF harnessVars
    <2>1. CASE Refused
      <3>1. file' = file /\ file = Absent
        BY <2>1 DEF Refused, Waits
      <3>2. "cli" \notin alive'
        BY <2>1, ExitFacts DEF Refused
      <3> QED
        BY <3>1, <3>2, <2>p
    <2>2. CASE Begin
      <3>1. \/ "cli" \notin alive' /\ code' = 5
            \/ wait' = "connect" /\ UNCHANGED <<code, out>>
        BY <2>2, ExitFacts DEF Begin, Goes
      <3> QED
        BY <3>1, <2>p
    <2>3. CASE Observed \/ Answered
      <3>1. UNCHANGED <<code, out>> /\ wait' # "begin"
        BY <2>3, CliContinues, CliStays, AfterIsLater
      <3> QED
        BY <3>1, <2>p
    <2>4. CASE WaitRaises \/ CallRaises \/ Inject
      <3>1. UNCHANGED <<code, out>> /\ wait' # "begin"
        BY <2>4, CliFails, CliStays
      <3> QED
        BY <3>1, <2>p
    <2>5. CASE Land \/ Recovers \/ Closes
      <3>1. "cli" \notin alive' /\ code' # 4
        BY <2>5, CliEnds
      <3> QED
        BY <3>1, <2>p
    <2> QED
      BY <1>1, <2>1, <2>2, <2>3, <2>4, <2>5 DEF Cli, Unaided
  <1>2. CASE ServerEnds
    BY <1>2 DEF ServerEnds, harnessVars
  <1>3. CASE Load \/ Collect
    BY <1>3 DEF Load, Collect, cli
  <1>4. CASE Start
    BY <1>4 DEF Start, Goes
  <1>5. CASE Terminate
    BY <1>5 DEF Terminate
  <1>6. CASE Kill
    BY <1>6 DEF Kill
  <1>7. CASE Judge
    BY <1>7 DEF Judge, Forgotten
  <1>8. CASE Restart
    BY <1>8 DEF Restart, cli
  <1>9. CASE Tick
    BY <1>9 DEF Tick, harnessVars
  <1>10. CASE UNCHANGED <<harnessVars, clock, cli, facts>>
    BY <1>10 DEF harnessVars, cli
  <1> QED
    BY <1>1, <1>2, <1>3, <1>4, <1>5, <1>6, <1>7, <1>8, <1>9, <1>10 DEF Next, Harness, vars

LEMMA ContactStep == TypeOK /\ RunInv /\ ContactInv /\ [Next]_vars => ContactInv'
  <1> SUFFICES ASSUME TypeOK, RunInv, ContactInv, [Next]_vars PROVE ContactInv'
    OBVIOUS
  <1> USE DEF ContactInv, Idle, Asks
  <1>t. scenario \in 1..3 /\ contacted \subseteq 1..3
    BY TypeParts DEF HarnessOK, FactsOK, Scenarios
  <1>1. CASE Cli
    <2>p. pc' = "running" /\ "cli" \in alive /\ code = -1 /\ scenario' = scenario
      BY <1>1, CliRuns DEF harnessVars, RunInv
    <2>1. CASE Refused
      <3>1. scenario \notin contacted /\ UNCHANGED facts
        BY <2>1 DEF Refused, Waits
      <3> QED
        BY <3>1, <2>p DEF facts
    <2>2. CASE Begin
      <3>1. scenario \notin contacted /\ Approval(scenario) \notin used
            /\ used' = used \cup {Approval(scenario)}
        BY <2>2 DEF Begin, Waits
      <3>2. \/ contacted' = contacted /\ "cli" \notin alive' /\ code' = 5
            \/ /\ contacted' = contacted \cup {scenario}
               /\ wait' = "connect" /\ code' = code
        BY <2>2, ExitFacts DEF Begin, Goes
      <3>3. scenario \in {1, 2} => Approval(scenario) = "success"
        BY DEF Approval
      <3>4. \A s \in contacted' : s <= scenario'
        <4>1. contacted' \subseteq contacted \cup {scenario}
          BY <3>2
        <4> QED
          BY <4>1, <2>p, <1>t
      <3>5. ~(Idle' \/ Asks("begin")') /\ code' # 4
        BY <3>2, <2>p
      <3>6. 1 \in contacted' \/ 2 \in contacted' => "success" \in used'
        BY <3>1, <3>2, <3>3
      <3>7. ~(1 \in contacted' /\ 2 \in contacted')
        BY <3>1, <3>2, <3>3
      <3> QED
        BY <3>4, <3>5, <3>6, <3>7
    <2>3. CASE Observed \/ Answered
      <3>1. code' = code /\ wait' # "begin" /\ UNCHANGED <<contacted, used>>
        BY <2>3, CliContinues, CliStays, AfterIsLater
      <3> QED
        BY <3>1, <2>p
    <2>4. CASE WaitRaises \/ CallRaises \/ Inject
      <3>1. code' = code /\ wait' # "begin" /\ UNCHANGED <<contacted, used>>
        BY <2>4, CliFails, CliStays DEF facts
      <3> QED
        BY <3>1, <2>p
    <2>5. CASE Land \/ Recovers \/ Closes
      <3>1. "cli" \notin alive' /\ code' # 4
        BY <2>5, CliEnds
      <3>2. UNCHANGED <<contacted, used>>
        BY <2>5 DEF Land, Recovers, Closes, facts
      <3> QED
        BY <3>1, <3>2, <2>p
    <2> QED
      BY <1>1, <2>1, <2>2, <2>3, <2>4, <2>5 DEF Cli, Unaided
  <1>2. CASE ServerEnds
    BY <1>2 DEF ServerEnds, harnessVars, facts
  <1>3. CASE Load \/ Collect
    BY <1>3 DEF Load, Collect, cli, facts
  <1>4. CASE Start
    BY <1>4 DEF Start, Goes, facts
  <1>5. CASE Terminate \/ Kill
    BY <1>5 DEF Terminate, Kill, facts, RunInv
  <1>7. CASE Judge
    <2>1. UNCHANGED facts /\ "cli" \notin alive' /\ code' = -1
      BY <1>7 DEF Judge, Forgotten, RunInv
    <2>2. \/ scenario' = scenario + 1
          \/ scenario' = scenario /\ pc' = "ended"
      BY <1>7 DEF Judge
    <2> QED
      BY <2>1, <2>2, <1>t DEF facts
  <1>8. CASE Restart
    BY <1>8 DEF Restart, cli, facts
  <1>9. CASE Tick
    BY <1>9 DEF Tick, harnessVars, facts
  <1>10. CASE UNCHANGED <<harnessVars, clock, cli, facts>>
    BY <1>10 DEF harnessVars, cli, facts
  <1> QED
    BY <1>1, <1>2, <1>3, <1>4, <1>5, <1>7, <1>8, <1>9, <1>10 DEF Next, Harness, vars

LEMMA TimeStep == TypeOK /\ RunInv /\ TimeInv /\ [Next]_vars => TimeInv'
  <1> SUFFICES ASSUME TypeOK, RunInv, TimeInv, [Next]_vars PROVE TimeInv'
    OBVIOUS
  <1> USE DEF Idle, Asks
  <1>t. /\ scenario \in 1..3 /\ age \in Nat /\ age <= Ttl /\ spent \in Nat /\ waited \in Nat
        /\ Budget \in Nat /\ Grace \in Nat /\ Ttl \in Nat
    BY TypeParts, TimesAssumption DEF HarnessOK, CliOK, Scenarios
  <1>l. Limit["begin"] \in Nat /\ Budget + Grace + Limit["begin"] < Ttl
    BY LimitAssumption, LifetimeAssumption DEF Timed
  <1>1. CASE Cli
    <2>p. pc' = "running" /\ pc = "running" /\ UNCHANGED <<scenario, age, spent>>
      BY <1>1, CliRuns DEF harnessVars, clock
    <2>1. scenario = 2 => ~Asks("begin")' /\ "expired" \notin out'
      <3> SUFFICES ASSUME scenario = 2 PROVE ~Asks("begin")' /\ "expired" \notin out'
        OBVIOUS
      <3>o. "expired" \notin out
        BY DEF TimeInv
      <3>1. CASE Refused
        <4>1. age < Ttl
          <5>1. Asks("begin")
            BY <3>1 DEF Refused, Waits
          <5>2. waited <= Limit["begin"] /\ age <= Budget + Grace + waited
            BY <5>1 DEF TimeInv
          <5> QED
            BY <5>2, <1>t, <1>l
        <4>2. ~(age >= Ttl)
          BY <4>1, <1>t
        <4>3. out' \in {{"already used"}, {"database"}} /\ "cli" \notin alive'
          BY <3>1, <4>2 DEF Refused, Exit
        <4> QED
          BY <4>3
      <3>2. CASE Begin
        <4>1. out' \in {{}, out} /\ ("cli" \notin alive' \/ wait' = "connect")
          BY <3>2, ExitFacts DEF Begin, Goes
        <4> QED
          BY <4>1, <3>o
      <3>3. CASE Observed \/ Answered
        <4>1. out' = out /\ wait' # "begin"
          BY <3>3, CliContinues, CliStays, AfterIsLater
        <4> QED
          BY <4>1, <3>o
      <3>4. CASE WaitRaises \/ CallRaises \/ Inject
        <4>1. out' = out /\ wait' # "begin"
          BY <3>4, CliFails, CliStays
        <4> QED
          BY <4>1, <3>o
      <3>5. CASE Land \/ Recovers \/ Closes
        <4>1. "cli" \notin alive'
          BY <3>5, CliEnds
        <4>2. error # "expired"
          BY TypeParts DEF CliOK, Errors
        <4>3. \A st : Fails(st) => out' = {error}
          BY ExitFacts DEF Fails
        <4>4. out' \in {{"simulation complete"}, {error}}
          BY <3>5, <4>3, ExitFacts DEF Land, Recovers, Closes
        <4> QED
          BY <4>1, <4>2, <4>4
      <3> QED
        BY <1>1, <3>1, <3>2, <3>3, <3>4, <3>5 DEF Cli, Unaided
    <2> QED
      BY <2>p, <2>1 DEF TimeInv
  <1>2. CASE ServerEnds
    BY <1>2 DEF ServerEnds, harnessVars, clock, TimeInv
  <1>3. CASE Load
    BY <1>3 DEF Load, cli, clock, TimeInv
  <1>4. CASE Collect
    <2>1. UNCHANGED <<scenario, age, spent, out>> /\ alive' = {} /\ pc' = "judging"
      BY <1>4 DEF Collect, cli, clock
    <2>2. scenario = 1 => age <= Budget + Grace
      BY <1>4, <1>t DEF Collect, TimeInv
    <2> QED
      BY <2>1, <2>2 DEF TimeInv
  <1>5. CASE Start
    <2>1. UNCHANGED <<scenario, spent, out>> /\ pc' = "running" /\ waited' = 0 /\ spent = 0
      BY <1>5 DEF Start, Goes, TimeInv
    <2>2. age' = IF scenario = 2 THEN age ELSE 0
      BY <1>5 DEF Start
    <2>3. scenario = 2 => age <= Budget + Grace /\ "expired" \notin out
      BY <1>5 DEF Start, TimeInv
    <2> QED
      BY <2>1, <2>2, <2>3, <1>t, <1>l DEF TimeInv
  <1>6. CASE Terminate
    <2>1. /\ UNCHANGED <<scenario, age, out>> /\ pc' = "terminating" /\ spent' = 0
          /\ "cli" \notin alive'
      BY <1>6 DEF Terminate
    <2>2. scenario = 1 => age <= Budget + 0
      BY <1>6, <1>t DEF Terminate, TimeInv
    <2> QED
      BY <2>1, <2>2, <1>t DEF TimeInv
  <1>7. CASE Kill
    <2>1. UNCHANGED <<scenario, age, spent, out>> /\ pc' = "killing" /\ alive' = {}
      BY <1>7 DEF Kill, clock
    <2>2. scenario = 1 => age <= Budget + Grace
      BY <1>7, <1>t DEF Kill, TimeInv
    <2> QED
      BY <2>1, <2>2 DEF TimeInv
  <1>8. CASE Judge
    <2>1. spent' = 0 /\ out' = {} /\ age' = age /\ "cli" \notin alive'
      BY <1>8 DEF Judge, Forgotten, RunInv
    <2>2. \/ scenario < 3 /\ scenario' = scenario + 1
             /\ pc' = IF scenario = 2 THEN "restart" ELSE "start"
          \/ scenario' = scenario /\ pc' = "ended"
      BY <1>8 DEF Judge
    <2>3. scenario = 1 => age <= Budget + Grace
      BY <1>8 DEF Judge, TimeInv
    <2> QED
      BY <2>1, <2>2, <2>3, <1>t DEF TimeInv
  <1>9. CASE Restart
    BY <1>9 DEF Restart, cli, clock, TimeInv
  <1>10. CASE Tick
    <2>1. /\ UNCHANGED <<pc, scenario, alive, wait, out>>
          /\ spent' = spent + 1 /\ age' = IF age < Ttl THEN age + 1 ELSE Ttl
          /\ pc = "running" => spent < Budget
          /\ pc = "terminating" => spent < Grace
          /\ pc \in {"running", "terminating"}
      BY <1>10 DEF Tick, harnessVars
    <2>2. Asks("begin") => waited' = waited + 1 /\ waited < Limit["begin"]
      BY <1>10 DEF Tick, Timed, Calls
    <2>3. ~Idle' /\ pc' \in {"running", "terminating"} /\ age' <= age + 1
      BY <2>1, <1>t
    <2>4. pc = "running" => spent' <= Budget
      BY <2>1, <1>t
    <2>5. pc = "terminating" => spent' <= Grace
      BY <2>1, <1>t
    <2>6. scenario = 1 => /\ pc = "running" => age' <= spent'
                          /\ pc = "terminating" => age' <= Budget + spent'
      BY <2>1, <2>3, <1>t DEF TimeInv
    <2>7. scenario = 2 /\ Asks("begin") =>
            waited' <= Limit["begin"] /\ age' <= Budget + Grace + waited'
      BY <2>1, <2>2, <2>3, <1>t, <1>l DEF TimeInv
    <2>8. scenario = 2 => "expired" \notin out'
      BY <2>1 DEF TimeInv
    <2> QED
      BY <2>1, <2>3, <2>4, <2>5, <2>6, <2>7, <2>8 DEF TimeInv
  <1>11. CASE UNCHANGED <<harnessVars, clock, cli>>
    BY <1>11 DEF harnessVars, clock, cli, TimeInv
  <1> QED
    BY <1>1, <1>2, <1>3, <1>4, <1>5, <1>6, <1>7, <1>8, <1>9, <1>10, <1>11 DEF Next, Harness, vars

----------------------------------------------------------------------------
(* The records of a file stay within a set its writers keep to. *)

LEMMA WritesKeep ==
  ASSUME NEW S, NEW f \in Files, NEW e \in Entries \cap S,
         \A i \in DOMAIN f.text : f.text[i].record \in S
  PROVE  \A g \in {Written(f, e)} \cup Torn(f, e) :
            g \in Files /\ \A i \in DOMAIN g.text : g.text[i].record \in S
  <1> SUFFICES ASSUME NEW g \in {Written(f, e)} \cup Torn(f, e)
               PROVE  \A i \in DOMAIN g.text : g.text[i].record \in S
    BY WrittenTyped
  <1>1. \A q \in {Line(e), Bare(e), Half(e)} : q.record = e
    BY DEF Line, Bare, Half
  <1>2. f.text \in Seq(Pieces)
    BY DEF Files
  <1>3. \/ g.text = f.text
        \/ \E q \in {Line(e), Bare(e), Half(e)} : g.text = Append(f.text, q)
    <2>1. CASE g = Written(f, e)
      BY <2>1 DEF Written
    <2>2. CASE g \in {f, [f EXCEPT !.exists = TRUE]}
      BY <2>2 DEF Files
    <2>3. CASE \E q \in {Half(e), Bare(e)} : g = [exists |-> TRUE, text |-> Append(f.text, q)]
      BY <2>3
    <2> QED
      BY <2>1, <2>2, <2>3 DEF Torn
  <1>4. ASSUME NEW q \in {Line(e), Bare(e), Half(e)}, g.text = Append(f.text, q),
               NEW i \in DOMAIN g.text
        PROVE  g.text[i].record \in S
    <2>1. i \in 1..(Len(f.text) + 1) /\ DOMAIN f.text = 1..Len(f.text)
      BY <1>2, <1>4, EntryPieces
    <2>2. g.text[i] = IF i = Len(f.text) + 1 THEN q ELSE f.text[i]
      BY <1>2, <1>4, <2>1
    <2>3. CASE i = Len(f.text) + 1
      BY <2>2, <2>3, <1>1
    <2>4. CASE i # Len(f.text) + 1
      <3>1. i \in DOMAIN f.text
        BY <2>1, <2>4, <1>2
      <3> QED
        BY <3>1, <2>2, <2>4
    <2> QED
      BY <2>3, <2>4
  <1> QED
    BY <1>3, <1>4

LEMMA ProgressKeeps ==
  ASSUME NEW S, NEW f \in Files, Acted \in S, \A i \in DOMAIN f.text : f.text[i].record \in S
  PROVE  \A g \in Progress(f) : g \in Files /\ \A i \in DOMAIN g.text : g.text[i].record \in S
  <1>1. Acted \in Entries \cap S
    BY DEF Entries
  <1>2. \A g \in Torn(f, Acted) : g \in Files /\ \A i \in DOMAIN g.text : g.text[i].record \in S
    BY <1>1, WritesKeep
  <1> QED
    BY <1>2 DEF Progress

LEMMA PlainBacked ==
  ASSUME NEW e \in {Started, Acted, Completed}
  PROVE  e \in Entries \cap Backed /\ e \in Backed'
  BY DEF Started, Acted, Completed, Backed, Entries

(* What a step of the CLI does to the file: it appends, to what was there, records *)
(* that are backed by what has happened. *)
LEMMA FileStep ==
  ASSUME TypeOK, HomeInv, Cli,
         scenario' = scenario, recovered \subseteq recovered',
         origin[scenario] = homeFile => origin'[scenario] = homeFile'
  PROVE  \A i \in DOMAIN file'.text : file'.text[i].record \in Backed'
  <1>t. file \in Files /\ error \in Errors
    BY TypeParts DEF CliOK
  <1>1. \A i \in DOMAIN file.text : file.text[i].record \in Backed'
    <2>1. Backed \subseteq Backed'
      BY DEF Backed
    <2> QED
      BY <2>1 DEF HomeInv
  <1>2. \A e \in {Started, Acted, Completed} : e \in Entries \cap Backed'
    BY PlainBacked
  <1>3. \A g \in Progress(file) :
           g \in Files /\ \A i \in DOMAIN g.text : g.text[i].record \in Backed'
    BY <1>1, <1>2, <1>t, ProgressKeeps
  <1>4. \A i \in DOMAIN file'.text : file'.text[i].record \in Backed'
    <2>1. CASE Refused
      BY <2>1, <1>1 DEF Refused
    <2>2. CASE Begin
      <3>1. file' \in {Written(file, Started)} \cup Torn(file, Started)
        BY <2>2 DEF Begin
      <3>2. Started \in Entries \cap Backed'
        BY <1>2
      <3> QED
        BY <3>1, <3>2, <1>1, <1>t, WritesKeep
    <2>3. CASE Observed \/ Answered
      <3>1. file' \in Progress(file) \cup {file}
        BY <2>3 DEF Observed, Answered, Arrives
      <3> QED
        BY <3>1, <1>1, <1>3
    <2>4. CASE WaitRaises \/ CallRaises \/ Inject
      <3>1. file' \in Progress(file) \cup {file}
        BY <2>4 DEF WaitRaises, CallRaises, Inject, Raises
      <3> QED
        BY <3>1, <1>1, <1>3
    <2>5. CASE Land
      <3>1. PICK f \in Progress(file) : file' \in {Written(f, Completed)} \cup Torn(f, Completed)
        BY <2>5 DEF Land
      <3>2. Completed \in Entries \cap Backed'
        BY <1>2
      <3>3. f \in Files /\ \A i \in DOMAIN f.text : f.text[i].record \in Backed'
        BY <1>3
      <3> QED
        BY <3>1, <3>2, <3>3, WritesKeep
    <2>6. CASE Recovers \/ Closes
      <3>1. PICK st \in Statuses :
               /\ file' \in {Written(file, Failed(st, error))} \cup Torn(file, Failed(st, error))
               /\ st = "landing_confirmed" => scenario \in recovered'
        BY <2>6 DEF Recovers, Closes, Fails, Statuses
      <3>2. error = "injected" => origin'[scenario] = homeFile'
        BY DEF HomeInv
      <3>3. Failed(st, error) \in Entries
        BY <1>t, FailedIsEntry
      <3>4. Failed(st, error) \in Entries \cap Backed'
        BY <3>1, <3>2, <3>3 DEF Backed, Failed
      <3> QED
        BY <3>1, <3>4, <1>1, <1>t, WritesKeep
    <2> QED
      BY <2>1, <2>2, <2>3, <2>4, <2>5, <2>6 DEF Cli, Unaided
  <1> QED
    BY <1>4

LEMMA HomeStep == TypeOK /\ RunInv /\ HomeInv /\ [Next]_vars => HomeInv'
  <1> SUFFICES ASSUME TypeOK, RunInv, HomeInv, [Next]_vars PROVE HomeInv'
    OBVIOUS
  <1> USE DEF Asks
  <1>t. scenario \in Scenarios /\ origin \in [Scenarios -> Homes \cup {NoHome}]
    BY TypeParts DEF HarnessOK, FactsOK
  <1>e. DOMAIN Absent.text = {}
    BY DEF Absent
  <1>1. CASE Cli
    <2>p. /\ scenario' = scenario /\ homeFile' = homeFile /\ code = -1 /\ "cli" \in alive
      BY <1>1, CliRuns DEF harnessVars, RunInv
    <2>1. CASE Refused \/ Begin
      <3>1. UNCHANGED <<origin, recovered, landed>>
        BY <2>1 DEF Refused, Begin, facts
      <3>2. \/ "cli" \notin alive' /\ code' \in {3, 4, 5} /\ error' = "none"
            \/ /\ wait' = "connect" /\ "cli" \in alive'
               /\ UNCHANGED <<code, error>>
        BY <2>1, <2>p, ExitFacts DEF Refused, Begin, Goes
      <3>3. \A i \in DOMAIN file'.text : file'.text[i].record \in Backed'
        BY <1>1, <2>p, <3>1, FileStep
      <3> QED
        BY <3>1, <3>2, <3>3, <2>p DEF HomeInv
    <2>2. ASSUME NEW w \in Calls \cup (Timed \cap DOMAIN After), w # "begin", Arrives(w)
          PROVE  HomeInv'
      <3>1. /\ UNCHANGED <<alive, code, error, recovered, landed>>
            /\ wait = w /\ wait' = After[w]
        BY <2>2, CliStays DEF Arrives, Waits
      <3>2. w = "takeoff" => origin' = [origin EXCEPT ![scenario] = px4Home] /\ px4Home = homeFile
        BY <2>2, <2>p, <3>1 DEF Arrives, HomeInv
      <3>3. w # "takeoff" => origin' = origin
        BY <2>2 DEF Arrives
      <3>4. origin[scenario] = homeFile \/ w = "takeoff" => origin'[scenario] = homeFile
        BY <3>2, <3>3, <1>t
      <3>5. Asks("takeoff")' => px4Home' = homeFile
        <4>1. After[w] = "takeoff" => w = "postHome"
          BY DEF After, Calls, Timed
        <4>2. w = "postHome" => px4Home = homeFile /\ px4Home' = px4Home
          BY <2>2 DEF Arrives
        <4> QED
          BY <3>1, <4>1, <4>2
      <3>6. \A v \in {"climb", "hold", "land", "descent"} : Asks(v)' => origin'[scenario] = homeFile
        <4>1. After[w] \in {"climb", "hold", "land", "descent"} =>
                w \in {"takeoff", "climb", "hold", "land"}
          BY DEF After, Calls, Timed
        <4> QED
          BY <3>1, <3>4, <4>1, <2>p DEF HomeInv
      <3>7. \A i \in DOMAIN file'.text : file'.text[i].record \in Backed'
        BY <1>1, <2>p, <3>1, <3>4, FileStep
      <3> QED
        BY <3>1, <3>4, <3>5, <3>6, <3>7, <2>p DEF HomeInv
    <2>3. ASSUME NEW w, NEW e, w # "begin", Raises(w, e), e # "other" => e = "injected" /\ w = "hold"
          PROVE  HomeInv'
      <3>1. /\ UNCHANGED <<alive, code, recovered, landed, origin>> /\ error' = e
            /\ wait = w /\ wait' \in {"closing", "recovery"}
        BY <2>3, CliStays DEF Raises, Waits, facts
      <3>2. \A i \in DOMAIN file'.text : file'.text[i].record \in Backed'
        BY <1>1, <2>p, <3>1, FileStep
      <3>3. error' = "injected" => "cli" \in alive' /\ origin'[scenario'] = homeFile'
        BY <2>3, <3>1, <2>p DEF HomeInv
      <3> QED
        BY <3>1, <3>2, <3>3, <2>p DEF HomeInv
    <2>4. CASE Land
      <3>1. /\ landed' = landed \cup {scenario} /\ UNCHANGED <<recovered, origin>>
            /\ origin[scenario] = homeFile
        BY <2>4 DEF Land, Waits, HomeInv
      <3>2. "cli" \notin alive' /\ error' = "none"
        BY <2>4, CliEnds
      <3>3. \A i \in DOMAIN file'.text : file'.text[i].record \in Backed'
        BY <1>1, <2>p, <3>1, FileStep
      <3> QED
        BY <3>1, <3>2, <3>3, <2>p DEF HomeInv
    <2>5. CASE Recovers \/ Closes
      <3>1. recovered \subseteq recovered' /\ UNCHANGED <<landed, origin>>
        BY <2>5 DEF Recovers, Closes, facts
      <3>2. "cli" \notin alive' /\ error' = "none"
        BY <2>5, CliEnds
      <3>3. code' # 0
        <4>1. \A st : Fails(st) => code' # 0
          BY ExitFacts DEF Fails, FailureCodes
        <4> QED
          BY <2>5, <4>1 DEF Recovers, Closes
      <3>4. \A i \in DOMAIN file'.text : file'.text[i].record \in Backed'
        BY <1>1, <2>p, <3>1, FileStep
      <3> QED
        BY <3>1, <3>2, <3>3, <3>4, <2>p DEF HomeInv
    <2> QED
      BY <1>1, <2>1, <2>2, <2>3, <2>4, <2>5, CliContinues, CliFails DEF Cli, Unaided
  <1>2. CASE ServerEnds
    BY <1>2 DEF ServerEnds, harnessVars, facts, snapshotVars, HomeInv, Backed
  <1>3. CASE Load \/ Collect
    BY <1>3 DEF Load, Collect, cli, facts, snapshotVars, HomeInv, Backed
  <1>4. CASE Start
    BY <1>4 DEF Start, Goes, facts, snapshotVars, HomeInv, Backed, RunInv, Idle
  <1>5. CASE Terminate
    <2>1. /\ UNCHANGED <<scenario, facts, snapshotVars>> /\ code' = 124 /\ error' = "none"
          /\ "cli" \notin alive' /\ file' \in Progress(file)
      BY <1>5 DEF Terminate
    <2>2. Backed' = Backed /\ Acted \in Backed
      BY <2>1, PlainBacked DEF Backed, facts, snapshotVars
    <2>3. \A i \in DOMAIN file'.text : file'.text[i].record \in Backed'
      <3>1. file \in Files
        BY TypeParts DEF CliOK
      <3> QED
        BY <2>1, <2>2, <3>1, ProgressKeeps DEF HomeInv
    <2> QED
      BY <2>1, <2>3 DEF HomeInv
  <1>6. CASE Kill
    BY <1>6 DEF Kill, facts, snapshotVars, HomeInv, Backed, RunInv
  <1>7. CASE Judge
    <2>1. /\ error' = error /\ code' = -1 /\ file' = Absent /\ "cli" \notin alive /\ alive' = alive
      BY <1>7 DEF Judge, Forgotten, RunInv
    <2> QED
      BY <2>1, <1>e DEF HomeInv
  <1>8. CASE Restart
    <2>1. /\ "cli" \notin alive /\ code = -1 /\ file = Absent /\ UNCHANGED cli
      BY <1>8 DEF Restart, RunInv, Idle
    <2> QED
      BY <2>1, <1>e DEF HomeInv, cli
  <1>9. CASE Tick
    BY <1>9 DEF Tick, harnessVars, facts, snapshotVars, HomeInv, Backed
  <1>10. CASE pc = "snapshot" /\ UNCHANGED <<harnessVars, clock, cli, facts>>
    <2>1. /\ "cli" \notin alive /\ code = -1 /\ file = Absent /\ UNCHANGED cli
      BY <1>10 DEF RunInv, Idle
    <2> QED
      BY <2>1, <1>e DEF HomeInv, cli
  <1>11. CASE UNCHANGED vars
    BY <1>11 DEF vars, harnessVars, clock, cli, facts, snapshotVars, HomeInv, Backed
  <1> QED
    BY <1>1, <1>2, <1>3, <1>4, <1>5, <1>6, <1>7, <1>8, <1>9, <1>10, <1>11 DEF Next, Harness

(* A flight leaves what is known of the other scenarios alone. *)
LEMMA OthersStay ==
  ASSUME TypeOK, Cli, NEW s \in Scenarios, s # scenario
  PROVE  /\ s \in landed' <=> s \in landed
         /\ s \in recovered' <=> s \in recovered
         /\ s \in contacted' <=> s \in contacted
         /\ origin'[s] = origin[s]
  <1>t. origin \in [Scenarios -> Homes \cup {NoHome}]
    BY TypeParts DEF FactsOK
  <1>1. CASE Refused \/ Begin
    BY <1>1 DEF Refused, Begin, facts
  <1>2. ASSUME NEW w, Arrives(w) PROVE origin'[s] = origin[s] /\ UNCHANGED <<landed, recovered, contacted>>
    BY <1>2, <1>t DEF Arrives
  <1>3. ASSUME NEW w, NEW e, Raises(w, e) PROVE UNCHANGED facts
    BY <1>3 DEF Raises
  <1>4. CASE Land \/ Recovers \/ Closes
    BY <1>4 DEF Land, Recovers, Closes, facts
  <1> QED
    BY <1>1, <1>2, <1>3, <1>4, CliContinues, CliFails DEF Cli, Unaided, facts

(* What the checks accept has happened. *)
LEMMA PassMeansEarned ==
  ASSUME TypeOK, ContactInv, HomeInv, Check(scenario)
  PROVE  Earned(scenario)
  <1>s. scenario \in {1, 2, 3}
    BY TypeParts DEF HarnessOK, Scenarios
  <1>1. CASE scenario = 1
    <2>0. SignedMissionPassed(code, out, file)
      BY <1>1 DEF Check
    <2>1. code = 0
      BY <2>0 DEF SignedMissionPassed
    <2>2. scenario \in landed /\ origin[scenario] = homeFile
      BY <2>1 DEF HomeInv
    <2> QED
      BY <2>2, <1>1 DEF Earned
  <1>2. CASE scenario = 2
    <2>0. ReplayRejected(code, out, file)
      BY <1>2 DEF Check
    <2>1. code = 4
      BY <2>0 DEF ReplayRejected
    <2>2. scenario \notin contacted
      BY <2>1 DEF ContactInv
    <2> QED
      BY <2>2, <1>2 DEF Earned
  <1>3. CASE scenario = 3
    <2>1. PICK i \in Failures(file) : /\ file.text[i].record.recovery = "landing_confirmed"
                                      /\ file.text[i].record.error = "injected"
      BY <1>3 DEF Check, ControlledFailureRecovered
    <2>2. i \in DOMAIN file.text /\ file.text[i].record.event = "mission_failed"
      BY DEF Failures
    <2>3. file.text[i].record \in Backed
      BY <2>2 DEF HomeInv
    <2>4. scenario \in recovered /\ origin[scenario] = homeFile
      BY <2>1, <2>2, <2>3 DEF Backed
    <2> QED
      BY <2>4, <1>3 DEF Earned
  <1> QED
    BY <1>s, <1>1, <1>2, <1>3

LEMMA VerdictStep ==
  TypeOK /\ RunInv /\ ContactInv /\ TimeInv /\ HomeInv /\ VerdictInv /\ [Next]_vars => VerdictInv'
  <1> SUFFICES ASSUME TypeOK, RunInv, ContactInv, TimeInv, HomeInv, VerdictInv, [Next]_vars
               PROVE  VerdictInv'
    OBVIOUS
  <1>t. scenario \in Scenarios /\ results \in [Scenarios -> {"none", "pass", "fail"}]
    BY TypeParts DEF HarnessOK
  <1>1. CASE Cli
    <2>1. pc = "running" /\ UNCHANGED <<pc, scenario, results, overall, homeFile>>
      BY <1>1, CliRuns DEF harnessVars
    <2>2. ASSUME NEW s \in Scenarios, results[s] = "pass" PROVE Earned(s)'
      <3>1. s < scenario /\ Earned(s)
        BY <2>1, <2>2 DEF VerdictInv
      <3>2. s # scenario
        BY <3>1, <1>t DEF Scenarios
      <3>3. s \in {1, 2, 3}
        BY DEF Scenarios
      <3>4. /\ s \in landed' <=> s \in landed
            /\ s \in recovered' <=> s \in recovered
            /\ s \in contacted' <=> s \in contacted
            /\ origin'[s] = origin[s]
        BY <1>1, <3>2, OthersStay
      <3> QED
        BY <2>1, <3>1, <3>3, <3>4 DEF Earned
    <2> QED
      BY <2>1, <2>2 DEF VerdictInv
  <1>2. CASE Judge
    <2>1. UNCHANGED <<facts, snapshotVars>>
      BY <1>2 DEF Judge
    <2>2. /\ \A s \in Scenarios \ {scenario} : results'[s] = results[s]
          /\ results'[scenario] = "pass" => Check(scenario)
      BY <1>2, <1>t DEF Judge
    <2>3. \A s \in Scenarios : Earned(s) => Earned(s)'
      BY <2>1 DEF Earned, facts, snapshotVars
    <2>4. \A s \in Scenarios : results'[s] = "pass" => Earned(s)'
      BY <2>2, <2>3, PassMeansEarned DEF VerdictInv
    <2>5. \A s \in Scenarios : results'[s] # "none" => s < scenario' \/ pc' = "ended"
      <3>1. \A s \in Scenarios : results[s] # "none" => s < scenario
        BY <1>2 DEF Judge, VerdictInv
      <3>2. pc' = "ended" \/ scenario' = scenario + 1
        BY <1>2 DEF Judge
      <3> QED
        BY <3>1, <3>2, <2>2, <1>t DEF Scenarios
    <2>6. overall' = "pass" => \A s \in Scenarios : results'[s] = "pass"
      <3>1. CASE scenario < 3
        <4>1. overall' = overall /\ results[scenario] = "none"
          BY <1>2, <3>1, <1>t DEF Judge, VerdictInv, Scenarios
        <4> QED
          BY <4>1, <1>t DEF VerdictInv
      <3>2. CASE ~(scenario < 3)
        BY <1>2, <3>2 DEF Judge
      <3> QED
        BY <3>1, <3>2
    <2> QED
      BY <2>4, <2>5, <2>6 DEF VerdictInv
  <1>3. CASE pc = "snapshot" /\ UNCHANGED <<harnessVars, clock, cli, facts>>
    <2>1. \A s \in Scenarios : results[s] = "none"
      BY <1>3, <1>t DEF TimeInv, VerdictInv, Scenarios
    <2> QED
      BY <2>1, <1>3 DEF harnessVars, VerdictInv, Scenarios
  <1>4. CASE ServerEnds \/ Tick \/ UNCHANGED vars
    BY <1>4 DEF ServerEnds, Tick, vars, harnessVars, facts, snapshotVars, VerdictInv, Earned
  <1>5. CASE Load \/ Start \/ Collect \/ Terminate \/ Kill \/ Restart
    <2>1. UNCHANGED <<scenario, results, overall, facts, homeFile>> /\ pc # "ended"
      BY <1>5 DEF Load, Start, Collect, Terminate, Kill, Restart, snapshotVars
    <2> QED
      BY <2>1 DEF VerdictInv, Earned, facts
  <1> QED
    BY <1>1, <1>2, <1>3, <1>4, <1>5 DEF Next, Harness

----------------------------------------------------------------------------

Inv == TypeOK /\ RunInv /\ ContactInv /\ TimeInv /\ HomeInv /\ VerdictInv

LEMMA InitInv == Init => Inv
  <1> SUFFICES ASSUME Init PROVE Inv
    OBVIOUS
  <1>1. RunInv /\ ContactInv
    BY DEF Init, RunInv, ContactInv, NobodyLeftBehind, Idle, Asks
  <1>2. TimeInv
    BY TimesAssumption DEF Init, TimeInv, Idle, Asks
  <1>3. HomeInv
    BY DEF Init, HomeInv, Asks, Absent
  <1>4. VerdictInv
    BY DEF Init, VerdictInv
  <1> QED
    BY <1>1, <1>2, <1>3, <1>4, InitTyped DEF Inv

LEMMA InvStep == Inv /\ [Next]_vars => Inv'
  BY TypedStep, RunStep, ContactStep, TimeStep, HomeStep, VerdictStep DEF Inv

LEMMA Invariant == Spec => []Inv
  BY InitInv, InvStep, PTL DEF Spec

(* No process of a scenario is left when it is judged: communicate waits for all of *)
(* them, or they are killed. *)
THEOREM NobodyIsLeftBehind == Spec => []NobodyLeftBehind
  <1>1. Inv => NobodyLeftBehind
    BY DEF Inv, RunInv
  <1> QED
    BY <1>1, Invariant, PTL

(* The replay shows reuse, for any timers and as long as LifetimeAssumption holds: *)
(* issue_approval's ttl exceeds what the first scenario may last. *)
THEOREM ReplayIsOfReuse == Spec => []ReplayShowsReuse
  <1>1. Inv => ReplayShowsReuse
    <2> SUFFICES ASSUME Inv PROVE ReplayShowsReuse
      OBVIOUS
    <2>1. ~(1 \in contacted /\ 2 \in contacted)
      BY DEF Inv, ContactInv
    <2>2. scenario = 2 => "expired" \notin out
      BY DEF Inv, TimeInv
    <2>3. code = 4 => ~file.exists
      BY DEF Inv, RunInv, Absent
    <2>4. scenario = 2 /\ pc = "judging" /\ code = 4 /\ "already used" \in out => Check(2)
      BY <2>3 DEF Check, ReplayRejected
    <2> QED
      BY <2>1, <2>2, <2>4 DEF ReplayShowsReuse
  <1> QED
    BY <1>1, Invariant, PTL

(* An overall PASS is earned: every check it rests on speaks of a flight that did *)
(* what the check was meant to see. *)
THEOREM AcceptanceIsEarned == Spec => []PassIsEarned
  <1>1. Inv => PassIsEarned
    <2> SUFFICES ASSUME Inv, overall = "pass" PROVE PassIsEarned
      BY DEF PassIsEarned
    <2>1. \A s \in Scenarios : Earned(s)
      BY DEF Inv, VerdictInv
    <2>2. Earned(1) /\ Earned(2) /\ Earned(3)
      BY <2>1 DEF Scenarios
    <2> QED
      BY <2>2 DEF Earned, PassIsEarned
  <1> QED
    BY <1>1, Invariant, PTL

----------------------------------------------------------------------------
(***************************************************************************)
(* What budget would do.  Due[w]: the longest a CLI whose calls are        *)
(* answered at once can take to get to wait w, the sum of the timers       *)
(* before it.  A failure may come at the end of any of them.               *)
(***************************************************************************)
Due ==
  LET connected == Limit["begin"] + Limit["connection"]
      armed     == connected + Limit["home"] + Limit["armed"]
      up        == armed + Limit["postHome"] + Limit["climb"]
      down      == up + Limit["hold"] + Limit["descent"]
  IN  [begin |-> 0, connect |-> Limit["begin"], connection |-> Limit["begin"],
       home |-> connected, arm |-> connected + Limit["home"], armed |-> connected + Limit["home"],
       postHome |-> armed, takeoff |-> armed + Limit["postHome"],
       climb |-> armed + Limit["postHome"], hold |-> up, land |-> up + Limit["hold"],
       descent |-> up + Limit["hold"], recovery |-> down, closing |-> down]

BudgetInv ==
  pc = "running" /\ "cli" \in alive =>
    /\ wait \in DOMAIN Due /\ spent <= Due[wait] + waited
    /\ waited <= IF wait \in Timed THEN Limit[wait] ELSE 0

LEMMA DueSums ==
  /\ \A w \in Timed : Limit[w] \in Nat
  /\ \A w \in DOMAIN Due : Due[w] \in Nat
  /\ \A w \in DOMAIN After :
        Due[w] + (IF w \in Timed THEN Limit[w] ELSE 0) <= Due[After[w]]
  /\ \A w \in DOMAIN Due \ {"recovery", "closing"} :
        Due[w] + (IF w \in Timed THEN Limit[w] ELSE 0) <= Due["recovery"]
  /\ Due["closing"] = Due["recovery"]
  /\ DOMAIN After \subseteq DOMAIN Due /\ \A w \in DOMAIN After : After[w] \in DOMAIN Due
  <1>1. \A w \in Timed : Limit[w] \in Nat
    BY LimitAssumption
  <1>2. /\ Limit["begin"] \in Nat /\ Limit["connection"] \in Nat /\ Limit["home"] \in Nat
        /\ Limit["armed"] \in Nat /\ Limit["postHome"] \in Nat /\ Limit["climb"] \in Nat
        /\ Limit["hold"] \in Nat /\ Limit["descent"] \in Nat /\ Limit["recovery"] \in Nat
    BY LimitAssumption DEF Timed
  <1>3. DOMAIN Due = (DOMAIN After) \cup {"recovery", "closing", "descent"}
    BY DEF Due, After
  <1> QED
    BY <1>1, <1>2, <1>3 DEF Due, After, Timed

LEMMA BudgetStep ==
  Prompt /\ TypeOK /\ RunInv /\ TimeInv /\ BudgetInv /\ [Next]_vars => BudgetInv'
  <1> SUFFICES ASSUME Prompt, TypeOK, RunInv, TimeInv, BudgetInv, [Next]_vars,
                      pc' = "running", "cli" \in alive'
               PROVE  /\ wait' \in DOMAIN Due /\ spent' <= Due[wait'] + waited'
                      /\ waited' <= IF wait' \in Timed THEN Limit[wait'] ELSE 0
    BY DEF BudgetInv
  <1> HIDE DEF Due
  <1>t. spent \in Nat /\ waited \in Nat /\ \A w \in Timed : Limit[w] \in Nat
    BY TypeParts, DueSums DEF HarnessOK, CliOK
  <1>0. /\ \A w \in Timed : 0 <= Limit[w]
        /\ \A w \in DOMAIN Due : Due[w] \in Nat
    BY <1>t, DueSums
  <1>1. CASE Cli
    <2>p. pc = "running" /\ "cli" \in alive /\ spent' = spent
      BY <1>1, CliRuns DEF clock
    <2>d. ASSUME NEW w \in DOMAIN Due, NEW x \in DOMAIN Due, wait = w, wait' = x, waited' = 0,
                 Due[w] + (IF w \in Timed THEN Limit[w] ELSE 0) <= Due[x]
          PROVE  /\ wait' \in DOMAIN Due /\ spent' <= Due[wait'] + waited'
                 /\ waited' <= IF wait' \in Timed THEN Limit[wait'] ELSE 0
      <3>1. spent <= Due[w] + waited /\ waited <= IF w \in Timed THEN Limit[w] ELSE 0
        BY <2>p, <2>d DEF BudgetInv
      <3>2. Due[w] \in Nat /\ Due[x] \in Nat
        BY <1>0
      <3>3. spent <= Due[x] + 0
        <4>1. CASE w \in Timed
          BY <3>1, <3>2, <4>1, <1>t, <2>d
        <4>2. CASE w \notin Timed
          BY <3>1, <3>2, <4>2, <1>t, <2>d
        <4> QED
          BY <4>1, <4>2
      <3>4. 0 <= IF x \in Timed THEN Limit[x] ELSE 0
        BY <1>0
      <3> QED
        BY <3>3, <3>4, <2>d, <2>p
    <2>1. CASE Begin
      <3>1. wait = "begin" /\ wait' = "connect" /\ waited' = 0
        BY <2>1, ExitFacts DEF Begin, Waits, Goes
      <3>2. "begin" \in DOMAIN After /\ After["begin"] = "connect"
        BY DEF After
      <3> QED
        BY <3>1, <3>2, <2>d, DueSums
    <2>2. CASE Observed \/ Answered
      <3>1. PICK w \in Calls \cup (Timed \cap DOMAIN After) : w # "begin" /\ Arrives(w)
        BY <2>2, CliContinues
      <3>2. wait = w /\ wait' = After[w] /\ waited' = 0
        BY <3>1 DEF Arrives, Waits, Goes
      <3>3. w \in DOMAIN After
        BY DEF After, Calls
      <3> QED
        BY <3>2, <3>3, <2>d, DueSums
    <2>3. CASE WaitRaises \/ CallRaises \/ Inject
      <3>1. PICK w, e : Raises(w, e) /\ w \notin {"recovery", "closing"}
        BY <2>3 DEF WaitRaises, CallRaises, Inject, Calls, After
      <3>2. wait = w /\ wait' \in {"recovery", "closing"} /\ waited' = 0
        BY <3>1 DEF Raises, Waits, Goes, Leaves
      <3>3. w \in DOMAIN Due \ {"recovery", "closing"}
        BY <3>1, <3>2, <2>p DEF BudgetInv
      <3>4. {"recovery", "closing"} \subseteq DOMAIN Due
        BY DEF Due
      <3>5. Due[w] + (IF w \in Timed THEN Limit[w] ELSE 0) <= Due[wait']
        BY <3>2, <3>3, DueSums
      <3> QED
        BY <3>2, <3>3, <3>4, <3>5, <2>d
    <2>4. CASE Refused
      BY <2>4, ExitFacts DEF Refused
    <2>5. CASE Land \/ Recovers \/ Closes
      BY <2>5, CliEnds
    <2> QED
      BY <1>1, <2>1, <2>2, <2>3, <2>4, <2>5 DEF Cli, Unaided
  <1>2. CASE Start
    <2>1. wait' = "begin" /\ waited' = 0 /\ spent' = 0
      BY <1>2 DEF Start, Goes, TimeInv, Idle
    <2>2. "begin" \in DOMAIN Due /\ Due["begin"] = 0 /\ "begin" \in Timed
      BY DEF Due, Timed
    <2> QED
      BY <2>1, <2>2, <1>0
  <1>3. CASE Tick
    <2>1. /\ pc = "running" /\ "cli" \in alive /\ wait' = wait
          /\ spent' = spent + 1
      BY <1>3 DEF Tick, harnessVars
    <2>2. wait \in Timed /\ waited < Limit[wait] /\ waited' = waited + 1
      BY <1>3, <2>1 DEF Tick
    <2>3. wait \in DOMAIN Due /\ spent <= Due[wait] + waited
      BY <2>1 DEF BudgetInv
    <2>4. Due[wait] \in Nat /\ Limit[wait] \in Nat
      BY <2>2, <2>3, <1>0, <1>t
    <2> QED
      BY <2>1, <2>2, <2>3, <2>4, <1>t
  <1>4. CASE UNCHANGED <<pc, spent, alive, wait, waited>>
    BY <1>4 DEF BudgetInv
  <1> QED
    <2>1. "cli" \in alive' =>
            ~(Collect \/ Terminate \/ Kill \/ Restart \/ Judge \/ Load \/ ServerEnds)
      BY DEF Collect, Terminate, Kill, Restart, Judge, Load, ServerEnds, RunInv, cli
    <2>2. UNCHANGED <<harnessVars, clock, cli, facts>> \/ UNCHANGED vars
          => UNCHANGED <<pc, spent, alive, wait, waited>>
      BY DEF vars, harnessVars, clock, cli
    <2> QED
      BY <1>1, <1>2, <1>3, <1>4, <2>1, <2>2 DEF Next, Harness

(* The budget that would suffice: if it is at least the sum of all the timers, those of *)
(* the authorization, the home checks and the descent included, no subprocess whose *)
(* calls are answered is terminated in the middle of a recovery (run_command, lines *)
(* 199-223).  SCENARIO_TIMEOUT_SECONDS is less than that sum: run acceptance_budget. *)
THEOREM BudgetWouldSuffice ==
  ASSUME Budget >= Due["recovery"] + Limit["recovery"]
  PROVE  Spec => []BudgetSuffices
  <1>1. CASE ~Prompt
    <2>1. BudgetSuffices
      BY <1>1 DEF BudgetSuffices
    <2> QED
      BY <2>1, PTL
  <1>2. CASE Prompt
    <2>1. Init => BudgetInv
      BY DEF Init, BudgetInv
    <2>2. Inv /\ BudgetInv /\ [Next]_vars => BudgetInv'
      BY <1>2, BudgetStep DEF Inv
    <2>3. Inv /\ BudgetInv => BudgetSuffices
      <3> SUFFICES ASSUME Inv, BudgetInv, pc = "running", spent = Budget, Waits("recovery"),
                          waited < Limit["recovery"]
                   PROVE  FALSE
        BY DEF BudgetSuffices
      <3>1. spent <= Due["recovery"] + waited
        BY DEF BudgetInv, Waits
      <3>2. /\ Due["recovery"] \in Nat /\ Limit["recovery"] \in Nat /\ waited \in Nat
            /\ Budget \in Nat
        BY DueSums, TypeParts, TimesAssumption DEF Inv, CliOK, Due, Timed
      <3> HIDE DEF Due
      <3> QED
        BY <3>1, <3>2
    <2> QED
      BY <2>1, <2>2, <2>3, Invariant, PTL DEF Spec
  <1> QED
    BY <1>1, <1>2
================================================================================
