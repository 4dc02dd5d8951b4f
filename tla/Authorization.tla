----------------------------- MODULE Authorization -----------------------------
(***************************************************************************)
(* `nightjar run` as several processes that share one replay database: the *)
(* CLI (cli.py), the verification of a signed approval (authorization.py,  *)
(* approval.py) and the SQLite transaction that consumes its nonce         *)
(* (replay.py), up to the end of the executor it starts.  The executor is  *)
(* one step here; MavsdkExecutor models it.                                *)
(*                                                                         *)
(* A SHA-256 digest is modelled by what it digests.  The wall clock may    *)
(* stand anywhere whenever it is read: nothing is assumed of it.           *)
(***************************************************************************)
EXTENDS Integers, FiniteSets

CONSTANTS
    Processes,      \* the runs of the CLI
    Requests,       \* what a run may be asked: [mission, executor, approval]
    PolicyApproved, \* missions the policy engine approves
    Translatable,   \* missions the MAVSDK executor supports
    CurrentPolicy,  \* the limits in force
    Times,          \* readings of the wall clock
    MaxSkew,        \* max_clock_skew_seconds
    MaxLifetime,    \* max_lifetime_seconds
    Nobody          \* holder of a lock that is free

ASSUME RequestsAssumption ==
    \A r \in Requests :
        /\ r.executor \in {"dry-run", "mavsdk"}
        /\ r.approval.issued \in Int /\ r.approval.expires \in Int
        /\ r.approval.issued < r.approval.expires
ASSUME ClockAssumption ==
    Times \subseteq Int /\ Times # {} /\ MaxSkew \in Nat /\ MaxLifetime \in Nat
ASSUME NobodyAssumption == Nobody \notin Processes

VARIABLES
    request,   \* what each process was asked
    pc,        \* where each process is
    read,      \* the current_time each process has read, any before that
    exit,      \* its exit code, NoExit before it ends
    writer,    \* the process whose transaction holds the database
    rows,      \* the committed rows of consumed_approvals
    granted,   \* history: the processes whose consumption returned
    executed   \* history: the processes that started their executor

vars == <<request, pc, read, exit, writer, rows, granted, executed>>

NoExit == -1

Approval(p) == request[p].approval

Nonces == {r.approval.nonce : r \in Requests}

\* Mutant: the first two values of the INSERT are swapped.
RowSwapped(p) == [nonce       |-> Approval(p).mission,
                  mission     |-> Approval(p).nonce,
                  policy      |-> Approval(p).policy,
                  executor    |-> Approval(p).executor,
                  expires     |-> Approval(p).expires,
                  consumed_at |-> read[p]]

\* The row consume() inserts, under the primary key nonce.
Row(p) == [nonce       |-> Approval(p).nonce,
           mission     |-> Approval(p).mission,
           policy      |-> Approval(p).policy,
           executor    |-> Approval(p).executor,
           expires     |-> Approval(p).expires,
           consumed_at |-> read[p]]

Consumed == {row.nonce : row \in rows}

Asking  == {"load", "open", "verify", "begin", "insert", "commit"}
PCs     == Asking \cup {"start", "running", "ended", "crashed"}
Writing == {"insert", "commit"}
Codes   == 0..7 \cup {130, NoExit}

TypeOK ==
    /\ request \in [Processes -> Requests]
    /\ pc \in [Processes -> PCs]
    /\ read \in [Processes -> Times]
    /\ exit \in [Processes -> Codes]
    /\ writer \in Processes \cup {Nobody}
    /\ Consumed \subseteq Nonces
    /\ granted \subseteq Processes /\ executed \subseteq Processes

Init ==
    /\ request \in [Processes -> Requests]
    /\ pc = [p \in Processes |-> "load"]
    /\ read = [p \in Processes |-> CHOOSE t \in Times : TRUE]
    /\ exit = [p \in Processes |-> NoExit]
    /\ writer = Nobody
    /\ rows = {}
    /\ granted = {} /\ executed = {}

-----------------------------------------------------------------------------
Step(p, from, to) ==
    /\ pc[p] = from
    /\ pc' = [pc EXCEPT ![p] = to]
    /\ UNCHANGED <<request, exit>>

End(p, from, code) ==
    /\ pc[p] = from
    /\ pc' = [pc EXCEPT ![p] = "ended"]
    /\ exit' = [exit EXCEPT ![p] = code]
    /\ UNCHANGED request

history == <<granted, executed>>

\* load_mission and print_decision: the policy decides before anything else.  The
\* code is 1 for a rejected mission, and for a file that is no UTF-8, whose
\* UnicodeDecodeError nobody catches.
Load(p) ==
    /\ \/ Step(p, "load", "open") /\ request[p].mission \in PolicyApproved
       \/ \E code \in {1, 2} : End(p, "load", code)
    /\ UNCHANGED <<read, writer, rows, history>>

\* The approval file, the key and the database; creating the table takes no row.
Open(p) ==
    /\ \/ Step(p, "open", "verify")
       \/ End(p, "open", 3)
    /\ UNCHANGED <<read, writer, rows, history>>

\* validate_mission of the MAVSDK executor, before the approval is looked at.
Executable(p) == request[p].executor = "mavsdk" => request[p].mission \in Translatable

\* verify_approval at current_time t.
Valid(p, t) ==
    /\ Approval(p).genuine
    /\ Approval(p).issued <= t + MaxSkew
    /\ t < Approval(p).expires
    /\ Approval(p).expires - Approval(p).issued <= MaxLifetime
    /\ Approval(p).mission = request[p].mission
    /\ Approval(p).policy = CurrentPolicy
    /\ Approval(p).executor = request[p].executor

\* Mutant: consume() reads the clock again, after the approval was found valid.
VerifyReadingTwice(p) ==
    \/ /\ End(p, "verify", 4) /\ ~Executable(p)
       /\ UNCHANGED <<read, writer, rows, history>>
    \/ \E t, u \in Times :
         /\ Executable(p)
         /\ t <= u /\ read' = [read EXCEPT ![p] = u]
         /\ IF Valid(p, t) THEN Step(p, "verify", "begin") ELSE End(p, "verify", 4)
         /\ UNCHANGED <<writer, rows, history>>

\* The clock is read once, for the verification and for the row.
Verify(p) ==
    \/ /\ End(p, "verify", 4) /\ ~Executable(p)
       /\ UNCHANGED <<read, writer, rows, history>>
    \/ \E t \in Times :
         /\ Executable(p)
         /\ read' = [read EXCEPT ![p] = t]
         /\ IF Valid(p, t) THEN Step(p, "verify", "begin") ELSE End(p, "verify", 4)
         /\ UNCHANGED <<writer, rows, history>>

-----------------------------------------------------------------------------
(* SQLiteNonceStore.consume. *)

\* Mutant: a deferred BEGIN, so that two transactions can look the nonce up.
BeginUnlocked(p) ==
    /\ Step(p, "begin", "insert")
    /\ writer' = p
    /\ UNCHANGED <<read, rows, history>>

\* BEGIN IMMEDIATE: one transaction at a time may write.
Begin(p) ==
    /\ Step(p, "begin", "insert")
    /\ writer = Nobody /\ writer' = p
    /\ UNCHANGED <<read, rows, history>>

\* Another transaction has held the database for the whole timeout.
Busy(p) ==
    /\ End(p, "begin", 4)
    /\ writer # Nobody
    /\ UNCHANGED <<read, writer, rows, history>>

\* Mutant: a refused or failed INSERT is never rolled back.
InsertLeavingLock(p) ==
    \/ /\ Step(p, "insert", "commit") /\ Approval(p).nonce \notin Consumed
       /\ UNCHANGED <<read, writer, rows, history>>
    \/ /\ End(p, "insert", 4)
       /\ UNCHANGED <<read, writer, rows, history>>

\* The primary key: the row is inserted, or an IntegrityError, for a nonce that is
\* there, or another error of SQLite, rolls back.
Insert(p) ==
    \/ /\ Step(p, "insert", "commit") /\ Approval(p).nonce \notin Consumed
       /\ UNCHANGED <<read, writer, rows, history>>
    \/ /\ End(p, "insert", 4)
       /\ writer' = Nobody
       /\ UNCHANGED <<read, rows, history>>

\* Mutant: an error of the COMMIT leaves the row behind.
CommitKeepingRow(p) ==
    \/ /\ Step(p, "commit", "start")
       /\ rows' = rows \cup {Row(p)}
       /\ granted' = granted \cup {p}
       /\ writer' = Nobody
       /\ UNCHANGED <<read, executed>>
    \/ /\ End(p, "commit", 4)
       /\ rows' = rows \cup {Row(p)}
       /\ writer' = Nobody
       /\ UNCHANGED <<read, history>>

\* The end of the with block: COMMIT, or an error of SQLite and a rollback.
Commit(p) ==
    \/ /\ Step(p, "commit", "start")
       /\ rows' = rows \cup {Row(p)}
       /\ granted' = granted \cup {p}
       /\ writer' = Nobody
       /\ UNCHANGED <<read, executed>>
    \/ /\ End(p, "commit", 4)
       /\ writer' = Nobody
       /\ UNCHANGED <<read, rows, history>>

-----------------------------------------------------------------------------
(* The executor. *)

Start(p) ==
    /\ Step(p, "start", "running")
    /\ executed' = executed \cup {p}
    /\ UNCHANGED <<read, writer, rows, granted>>

\* Mutant: an audit failure of a dry run is reported as a blocked execution.
FinishAsBlocked(p) ==
    /\ \E code \in IF request[p].executor = "dry-run" THEN {0, 4} ELSE {0, 5, 6, 7, 130} :
          End(p, "running", code)
    /\ UNCHANGED <<read, writer, rows, history>>

\* A dry run ends well or with the OSError of an audit record, which nobody
\* catches; a flight ends as MavsdkExecutor says, or with a KeyboardInterrupt.
Finish(p) ==
    /\ \E code \in IF request[p].executor = "dry-run" THEN {0, 1} ELSE {0, 5, 6, 7, 130} :
          End(p, "running", code)
    /\ UNCHANGED <<read, writer, rows, history>>

\* The process dies.  SQLite drops its locks and rolls back, unless the COMMIT
\* had reached the disk already.
Crash(p) ==
    /\ pc[p] \notin {"ended", "crashed"}
    /\ pc' = [pc EXCEPT ![p] = "crashed"]
    /\ writer' = IF writer = p THEN Nobody ELSE writer
    /\ \/ UNCHANGED rows
       \/ pc[p] = "commit" /\ rows' = rows \cup {Row(p)}
    /\ UNCHANGED <<request, read, exit, history>>

\* What a process does by itself; Busy is the timeout of its wait for the lock.
Proceed(p) == Load(p) \/ Open(p) \/ Verify(p) \/ Begin(p) \/ Insert(p) \/ Commit(p)
                \/ Start(p) \/ Finish(p)

Next == \E p \in Processes : Proceed(p) \/ Busy(p) \/ Crash(p)

Spec == Init /\ [][Next]_vars

\* The operating system runs every process; no timeout need ever fire.
FairSpec == Spec /\ \A p \in Processes : WF_vars(Proceed(p))

-----------------------------------------------------------------------------
(* Properties. *)

\* However many processes present the same nonce, whatever their interleaving, the
\* clock and the crashes, one of them at most gets as far as its executor.
ExecutedOnce ==
    \A p, q \in executed : Approval(p).nonce = Approval(q).nonce => p = q

\* An executor only runs what the policy approved and the key signed, for this
\* executor and under these limits, and the row that stays in the database says so:
\* consumed by this approval, at a time the approval covers.
ExecutedIsAuthorized ==
    \A p \in executed :
        LET signed == Approval(p) IN
        /\ Row(p) \in rows
        /\ signed.genuine
        /\ signed.mission = request[p].mission /\ signed.mission \in PolicyApproved
        /\ signed.policy = CurrentPolicy /\ signed.executor = request[p].executor
        /\ Row(p).consumed_at \in (signed.issued - MaxSkew)..(signed.expires - 1)

\* A row is the work of a process that went on, or died on the way: no process that
\* was refused spent a nonce, its own or anybody else's.
RefusedSpendsNothing ==
    \A row \in rows : \E p \in Processes :
        row = Row(p) /\ (p \in granted \/ pc[p] = "crashed")

\* Exit codes 2, 3 and 4 say that nothing was executed and that the approval can be
\* presented again; 0, 5, 6 and 7 say that it is spent.
ExitCodes ==
    \A p \in Processes :
        /\ exit[p] \in {2, 3, 4} => p \notin granted
        /\ exit[p] \in {0, 5, 6, 7} => p \in executed /\ Approval(p).nonce \in Consumed

\* Nobody waits for the database for ever, though no timeout ever fires: a refused,
\* finished or dead transaction has let go of it.
NeverStranded == \A p \in Processes : pc[p] = "begin" ~> pc[p] # "begin"

-----------------------------------------------------------------------------
(* The abstract specification this implements. *)

outcome == [p \in Processes |->
    IF p \in granted THEN "granted"
    ELSE IF pc[p] = "crashed" THEN "lost"
    ELSE IF pc[p] = "ended" THEN "refused"
    ELSE "asked"]

OneTime == INSTANCE OneTimeApproval WITH
    nonce <- [p \in Processes |-> Approval(p).nonce], spent <- Consumed

\* Verification, transaction and crash together are one atomic consumption.
Implements == OneTime!Spec
=============================================================================
