-------------------------- MODULE AuthorizationProofs --------------------------
(***************************************************************************)
(* Proofs about Authorization, for any number of processes, any requests   *)
(* and any clock.                                                          *)
(***************************************************************************)
EXTENDS Authorization, TLAPS

\* Who holds the database is in a transaction, and the other way round.
LockInv == \A p \in Processes : pc[p] \in Writing <=> writer = p

\* A row about to be committed is still missing: nobody else could add it.
FreshInv == \A p \in Processes : pc[p] = "commit" => Approval(p).nonce \notin Consumed

\* What a process has behind it, by where it is.
PathInv ==
    \A p \in Processes :
        /\ pc[p] \in PCs \ {"load", "ended", "crashed"} => request[p].mission \in PolicyApproved
        /\ pc[p] \in Writing \cup {"begin", "start", "running"} =>
              Valid(p, read[p]) /\ Executable(p)
        /\ pc[p] \in {"start", "running"} => p \in granted
        /\ pc[p] \in Asking => p \notin granted

\* What a process that was granted keeps.
GrantInv ==
    /\ executed \subseteq granted
    /\ \A p \in granted :
          /\ Row(p) \in rows
          /\ Valid(p, read[p]) /\ Executable(p) /\ request[p].mission \in PolicyApproved

\* Granted nonces differ.
OnceInv == \A p, q \in granted : Approval(p).nonce = Approval(q).nonce => p = q

AuthInv == TypeOK /\ LockInv /\ FreshInv /\ PathInv /\ GrantInv /\ OnceInv

-----------------------------------------------------------------------------
(* Type correctness. *)

LEMMA StepType == TypeOK /\ [Next]_vars => TypeOK'
  <1> SUFFICES ASSUME TypeOK, [Next]_vars PROVE TypeOK'
    OBVIOUS
  <1> USE DEF TypeOK, PCs, Asking, Codes
  <1>1. CASE UNCHANGED vars
    BY <1>1 DEF vars, history, Consumed
  <1>2. ASSUME NEW p \in Processes, Load(p) \/ Open(p) \/ Begin(p) \/ Busy(p) \/ Insert(p)
                                      \/ Finish(p)
        PROVE  TypeOK'
    <2>1. /\ pc' \in [Processes -> PCs] /\ exit' \in [Processes -> Codes]
          /\ writer' \in Processes \cup {Nobody}
      BY <1>2 DEF Load, Open, Begin, Busy, Insert, Finish, Step, End
    <2>2. UNCHANGED <<request, read, rows, granted, executed>>
      BY <1>2 DEF Load, Open, Begin, Busy, Insert, Finish, Step, End, history
    <2> QED
      BY <2>1, <2>2 DEF Consumed
  <1>3. ASSUME NEW p \in Processes, Verify(p) PROVE TypeOK'
    BY <1>3 DEF Verify, Step, End, history, Consumed
  <1>4. ASSUME NEW p \in Processes, Commit(p) \/ Start(p) \/ Crash(p) PROVE TypeOK'
    <2>1. /\ pc' \in [Processes -> PCs] /\ exit' \in [Processes -> Codes]
          /\ writer' \in Processes \cup {Nobody}
          /\ granted' \subseteq Processes /\ executed' \subseteq Processes
          /\ UNCHANGED <<request, read>>
      BY <1>4 DEF Commit, Start, Crash, Step, End, history
    <2>2. rows' = rows \/ rows' = rows \cup {Row(p)}
      BY <1>4 DEF Commit, Start, Crash
    <2>3. Row(p).nonce \in Nonces
      BY DEF Row, Approval, Nonces
    <2>4. Consumed' \subseteq Nonces
      BY <2>2, <2>3 DEF Consumed
    <2>5. Nonces' = Nonces
      BY DEF Nonces
    <2> QED
      BY <2>1, <2>4
  <1> QED
    BY <1>1, <1>2, <1>3, <1>4 DEF Next, Proceed

LEMMA InitType == Init => TypeOK
  BY ClockAssumption DEF Init, TypeOK, PCs, Asking, Codes, Consumed

-----------------------------------------------------------------------------
(* What one step of process p does to everybody. *)

\* Nobody else moves, and requests never change.
LEMMA OthersStay ==
    ASSUME TypeOK, NEW p \in Processes, Proceed(p) \/ Busy(p) \/ Crash(p)
    PROVE  /\ request' = request
           /\ \A q \in Processes \ {p} : pc'[q] = pc[q] /\ read'[q] = read[q]
           /\ pc[p] # "verify" => read' = read
           /\ executed' \in {executed, executed \cup {p}}
           /\ executed' # executed => pc[p] = "start"
  <1> USE DEF TypeOK
  <1>1. CASE Load(p) \/ Open(p) \/ Begin(p) \/ Busy(p) \/ Insert(p) \/ Finish(p)
    BY <1>1 DEF Load, Open, Begin, Busy, Insert, Finish, Step, End, history
  <1>2. CASE Verify(p)
    BY <1>2 DEF Verify, Step, End, history
  <1>3. CASE Commit(p) \/ Start(p) \/ Crash(p)
    BY <1>3 DEF Commit, Start, Crash, Step, End, history
  <1> QED
    BY <1>1, <1>2, <1>3 DEF Proceed

\* Rows are only ever added, and only by the COMMIT of p, which alone grants.
LEMMA RowsGrow ==
    ASSUME TypeOK, NEW p \in Processes, Proceed(p) \/ Busy(p) \/ Crash(p)
    PROVE  \/ rows' = rows /\ granted' = granted
           \/ /\ pc[p] = "commit" /\ rows' = rows \cup {Row(p)} /\ pc'[p] = "start"
              /\ granted' = granted \cup {p}
           \/ /\ pc[p] = "commit" /\ rows' = rows \cup {Row(p)} /\ pc'[p] = "crashed"
              /\ granted' = granted
  <1> USE DEF TypeOK
  <1>1. CASE Load(p) \/ Open(p) \/ Verify(p) \/ Begin(p) \/ Busy(p) \/ Insert(p)
             \/ Finish(p) \/ Start(p)
    BY <1>1 DEF Load, Open, Verify, Begin, Busy, Insert, Finish, Start, history
  <1>2. CASE Commit(p)
    BY <1>2 DEF Commit, Step, End, history
  <1>3. CASE Crash(p)
    BY <1>3 DEF Crash, history
  <1> QED
    BY <1>1, <1>2, <1>3 DEF Proceed

\* Where p can come from, and how it takes and drops the database.
LEMMA WriterMoves ==
    ASSUME TypeOK, LockInv, NEW p \in Processes, Proceed(p) \/ Busy(p) \/ Crash(p)
    PROVE  \/ pc'[p] \in Writing /\ writer' = p /\ writer \in {Nobody, p}
           \/ pc'[p] \notin Writing /\ writer = p /\ writer' = Nobody
           \/ pc'[p] \notin Writing /\ writer # p /\ writer' = writer
  <1> USE DEF TypeOK, LockInv, Writing
  <1>1. CASE Load(p) \/ Open(p) \/ Verify(p) \/ Busy(p) \/ Finish(p) \/ Start(p)
    BY <1>1 DEF Load, Open, Verify, Busy, Finish, Start, Step, End, history
  <1>2. CASE Begin(p)
    BY <1>2 DEF Begin, Step
  <1>3. CASE Insert(p) \/ Commit(p)
    BY <1>3 DEF Insert, Commit, Step, End
  <1>4. CASE Crash(p)
    BY <1>4 DEF Crash
  <1> QED
    BY <1>1, <1>2, <1>3, <1>4 DEF Proceed

-----------------------------------------------------------------------------
(* The inductive invariant. *)

LEMMA StepLock ==
    ASSUME AuthInv, NEW p \in Processes, Proceed(p) \/ Busy(p) \/ Crash(p)
    PROVE  LockInv'
  <1> SUFFICES ASSUME NEW q \in Processes PROVE pc'[q] \in Writing <=> writer' = q
    BY DEF LockInv, Writing
  <1>1. CASE q = p
    BY <1>1, WriterMoves, NobodyAssumption DEF AuthInv
  <1>2. CASE q # p
    <2>1. pc'[q] = pc[q]
      BY <1>2, OthersStay DEF AuthInv
    <2>2. pc[q] \in Writing <=> writer = q
      BY DEF AuthInv, LockInv
    <2> QED
      BY <1>2, <2>1, <2>2, WriterMoves, NobodyAssumption DEF AuthInv
  <1> QED
    BY <1>1, <1>2

LEMMA StepFresh ==
    ASSUME AuthInv, NEW p \in Processes, Proceed(p) \/ Busy(p) \/ Crash(p)
    PROVE  FreshInv'
  <1> SUFFICES ASSUME NEW q \in Processes, pc'[q] = "commit"
               PROVE  Approval(q)' \in {Approval(q)} /\ Approval(q).nonce \notin Consumed'
    BY DEF FreshInv
  <1>1. Approval(q)' = Approval(q)
    BY OthersStay DEF AuthInv, Approval
  <1>2. CASE q = p
    <2>1. Insert(p) /\ Approval(p).nonce \notin Consumed /\ rows' = rows
      BY <1>2 DEF AuthInv, TypeOK, Proceed, Load, Open, Verify, Begin, Busy, Insert, Commit,
                  Start, Finish, Crash, Step, End
    <2> QED
      BY <1>1, <1>2, <2>1 DEF Consumed
  <1>3. CASE q # p
    <2>1. pc[q] = "commit"
      BY <1>3, OthersStay DEF AuthInv
    <2>2. Approval(q).nonce \notin Consumed
      BY <2>1 DEF AuthInv, FreshInv
    <2>3. pc[p] # "commit"
      BY <1>3, <2>1, NobodyAssumption DEF AuthInv, LockInv, Writing
    <2>4. rows' = rows
      BY <2>3, RowsGrow DEF AuthInv
    <2> QED
      BY <1>1, <2>2, <2>4 DEF Consumed
  <1> QED
    BY <1>2, <1>3

\* As long as q's reading stands, so does everything said of its approval.
LEMMA ApprovalStays ==
    ASSUME request' = request, NEW q, read'[q] = read[q]
    PROVE  /\ Valid(q, read[q])' <=> Valid(q, read[q])
           /\ Executable(q)' <=> Executable(q)
           /\ Row(q)' = Row(q) /\ Approval(q)' = Approval(q)
           /\ request'[q].mission = request[q].mission
  BY DEF Valid, Executable, Row, Approval

\* The steps of p along its own path.
LEMMA PathMoves ==
    ASSUME AuthInv, NEW p \in Processes, Proceed(p) \/ Busy(p) \/ Crash(p)
    PROVE  /\ pc'[p] \in PCs \ {"load", "ended", "crashed"} =>
                 request[p].mission \in PolicyApproved
           /\ pc'[p] \in Writing \cup {"begin", "start", "running"} =>
                 Valid(p, read[p])' /\ Executable(p)
           /\ pc'[p] \in {"start", "running"} => p \in granted'
           /\ pc'[p] \in Asking => p \notin granted'
           /\ pc[p] = "verify" => p \notin granted
  <1> USE DEF TypeOK, AuthInv, PathInv, PCs, Asking, Writing
  <1>1. CASE Load(p) \/ Open(p) \/ Begin(p) \/ Busy(p) \/ Insert(p)
    <2>1. request' = request /\ read' = read /\ granted' = granted
      BY <1>1 DEF Load, Open, Begin, Busy, Insert, Step, End, history
    <2>2. Valid(p, read[p])' <=> Valid(p, read[p])
      BY <2>1, ApprovalStays
    <2>3. p \notin granted
      BY <1>1 DEF Load, Open, Begin, Busy, Insert, Step, End
    <2> QED
      BY <1>1, <2>1, <2>2, <2>3 DEF Load, Open, Begin, Busy, Insert, Step, End
  <1>2. CASE Verify(p)
    <2>1. request' = request /\ granted' = granted /\ p \notin granted
      BY <1>2 DEF Verify, Step, End, history
    <2>2. request[p].mission \in PolicyApproved
      BY <1>2 DEF Verify, Step, End
    <2>3. pc'[p] = "ended" \/ (pc'[p] = "begin" /\ Valid(p, read[p])' /\ Executable(p))
      <3>1. ASSUME NEW t \in Times, Executable(p), read' = [read EXCEPT ![p] = t],
                   IF Valid(p, t) THEN Step(p, "verify", "begin") ELSE End(p, "verify", 4)
            PROVE  \/ pc'[p] = "ended"
                   \/ pc'[p] = "begin" /\ Valid(p, read[p])' /\ Executable(p)
        <4>1. read'[p] = t
          BY <3>1
        <4>2. CASE Valid(p, t)
          BY <2>1, <3>1, <4>1, <4>2 DEF Step, Valid, Approval
        <4>3. CASE ~Valid(p, t)
          BY <3>1, <4>3 DEF End
        <4> QED
          BY <4>2, <4>3
      <3> QED
        BY <1>2, <3>1 DEF Verify, End
    <2> QED
      BY <2>1, <2>2, <2>3
  <1>3. CASE Commit(p) \/ Start(p) \/ Finish(p)
    <2>1. request' = request /\ read' = read
      BY <1>3 DEF Commit, Start, Finish, Step, End, history
    <2>2. Valid(p, read[p])' <=> Valid(p, read[p])
      BY <2>1, ApprovalStays
    <2>3. pc[p] \in {"commit", "start", "running"} /\ pc'[p] \in {"start", "running", "ended"}
      BY <1>3 DEF Commit, Start, Finish, Step, End
    <2>4. pc'[p] \in {"start", "running"} => p \in granted'
      BY <1>3 DEF Commit, Start, Finish, Step, End
    <2> QED
      BY <2>2, <2>3, <2>4
  <1>4. CASE Crash(p)
    BY <1>4 DEF Crash, history
  <1> QED
    BY <1>1, <1>2, <1>3, <1>4 DEF Proceed

LEMMA StepPath ==
    ASSUME AuthInv, NEW p \in Processes, Proceed(p) \/ Busy(p) \/ Crash(p)
    PROVE  PathInv'
  <1> DEFINE Path(q) ==
        /\ pc[q] \in PCs \ {"load", "ended", "crashed"} => request[q].mission \in PolicyApproved
        /\ pc[q] \in Writing \cup {"begin", "start", "running"} =>
              Valid(q, read[q]) /\ Executable(q)
        /\ pc[q] \in {"start", "running"} => q \in granted
        /\ pc[q] \in Asking => q \notin granted
  <1>1. SUFFICES ASSUME NEW q \in Processes PROVE Path(q)'
    BY DEF PathInv, PCs, Writing, Asking
  <1>2. request' = request
    BY OthersStay DEF AuthInv
  <1>3. CASE q = p
    BY <1>2, <1>3, PathMoves DEF PCs, Writing, Asking, Executable
  <1>4. CASE q # p
    <2>1. Path(q)
      BY DEF AuthInv, PathInv
    <2>2. pc'[q] = pc[q] /\ read'[q] = read[q]
      BY <1>4, OthersStay DEF AuthInv
    <2>3. q \in granted' <=> q \in granted
      BY <1>4, RowsGrow DEF AuthInv
    <2>4. /\ Valid(q, read[q])' <=> Valid(q, read[q])
          /\ Executable(q)' <=> Executable(q)
      BY <1>2, <2>2, ApprovalStays
    <2> QED
      BY <1>2, <2>1, <2>2, <2>3, <2>4 DEF PCs, Writing, Asking
  <1> QED
    BY <1>3, <1>4

LEMMA StepGrant ==
    ASSUME AuthInv, NEW p \in Processes, Proceed(p) \/ Busy(p) \/ Crash(p)
    PROVE  GrantInv'
  <1>0. request' = request /\ granted \subseteq granted'
    BY OthersStay, RowsGrow DEF AuthInv
  <1>1. executed' \subseteq granted'
    <2>1. executed \subseteq granted'
      BY <1>0 DEF AuthInv, GrantInv
    <2>2. CASE executed' = executed
      BY <2>1, <2>2
    <2>3. CASE executed' # executed
      <3>1. pc[p] = "start" /\ executed' = executed \cup {p}
        BY <2>3, OthersStay DEF AuthInv
      <3>2. p \in granted
        BY <3>1 DEF AuthInv, PathInv
      <3> QED
        BY <1>0, <2>1, <3>1, <3>2
    <2> QED
      BY <2>2, <2>3
  <1>2. ASSUME NEW q \in granted'
        PROVE  /\ Row(q)' \in rows'
               /\ Valid(q, read[q])' /\ Executable(q)' /\ request'[q].mission \in PolicyApproved
    <2>1. read'[q] = read[q]
      <3>1. CASE q = p
        BY <3>1, <1>2, OthersStay, PathMoves, RowsGrow DEF AuthInv, TypeOK
      <3>2. CASE q # p
        BY <3>2, <1>2, OthersStay, RowsGrow DEF AuthInv, TypeOK
      <3> QED
        BY <3>1, <3>2
    <2>2. Row(q)' = Row(q)
      BY <1>0, <2>1, ApprovalStays
    <2>3. CASE q \in granted
      <3>1. Row(q) \in rows /\ Valid(q, read[q]) /\ Executable(q)
            /\ request[q].mission \in PolicyApproved
        BY <2>3 DEF AuthInv, GrantInv
      <3>2. rows \subseteq rows'
        BY RowsGrow DEF AuthInv
      <3>3. Valid(q, read[q])' /\ Executable(q)'
        BY <1>0, <2>1, <3>1, ApprovalStays
      <3> QED
        BY <1>0, <2>2, <3>1, <3>2, <3>3
    <2>4. CASE q \notin granted
      <3>1. q = p /\ pc[p] = "commit" /\ rows' = rows \cup {Row(p)}
        BY <1>2, <2>4, RowsGrow DEF AuthInv
      <3>2. Valid(p, read[p]) /\ Executable(p) /\ request[p].mission \in PolicyApproved
        BY <3>1 DEF AuthInv, PathInv, Writing, PCs, Asking
      <3>3. Valid(q, read[q])' /\ Executable(q)'
        BY <1>0, <2>1, <3>1, <3>2, ApprovalStays
      <3> QED
        BY <1>0, <2>2, <3>1, <3>2, <3>3
    <2> QED
      BY <2>3, <2>4
  <1> QED
    BY <1>1, <1>2 DEF GrantInv

LEMMA StepOnce ==
    ASSUME AuthInv, NEW p \in Processes, Proceed(p) \/ Busy(p) \/ Crash(p)
    PROVE  OnceInv'
  <1>0. request' = request
    BY OthersStay DEF AuthInv
  <1>1. CASE granted' = granted
    BY <1>0, <1>1 DEF AuthInv, OnceInv, Approval
  <1>2. CASE granted' # granted
    <2>1. pc[p] = "commit" /\ granted' = granted \cup {p}
      BY <1>2, RowsGrow DEF AuthInv
    <2>2. Approval(p).nonce \notin Consumed
      BY <2>1 DEF AuthInv, FreshInv
    <2>3. \A q \in granted : Approval(q).nonce \in Consumed
      <3>1. \A q \in granted : Row(q) \in rows /\ Row(q).nonce = Approval(q).nonce
        BY DEF AuthInv, GrantInv, Row
      <3> QED
        BY <3>1 DEF Consumed
    <2>4. \A q \in granted : Approval(q).nonce # Approval(p).nonce
      BY <2>2, <2>3
    <2>5. \A q, r \in granted' : Approval(q).nonce = Approval(r).nonce => q = r
      BY <2>1, <2>4 DEF AuthInv, OnceInv
    <2> QED
      BY <1>0, <2>5 DEF OnceInv, Approval
  <1> QED
    BY <1>1, <1>2

LEMMA StutterInv == AuthInv /\ UNCHANGED vars => AuthInv'
  <1> SUFFICES ASSUME AuthInv, UNCHANGED vars PROVE AuthInv'
    OBVIOUS
  <1>1. TypeOK'
    BY StepType DEF AuthInv
  <1>2. UNCHANGED <<request, pc, read, writer, rows, granted, executed>>
    BY DEF vars
  <1>3. LockInv' /\ FreshInv'
    BY <1>2 DEF AuthInv, LockInv, FreshInv, Consumed, Approval
  <1>4. PathInv'
    BY <1>2 DEF AuthInv, PathInv, Valid, Executable, Approval
  <1>5. GrantInv' /\ OnceInv'
    BY <1>2 DEF AuthInv, GrantInv, OnceInv, Valid, Executable, Approval, Row
  <1> QED
    BY <1>1, <1>3, <1>4, <1>5 DEF AuthInv

LEMMA AuthInvariant == Spec => []AuthInv
  <1>1. Init => AuthInv
    <2> SUFFICES ASSUME Init PROVE AuthInv
      OBVIOUS
    <2>1. LockInv /\ FreshInv /\ PathInv
      BY NobodyAssumption DEF Init, LockInv, FreshInv, PathInv, Writing, PCs, Asking
    <2>2. GrantInv /\ OnceInv
      BY DEF Init, GrantInv, OnceInv
    <2> QED
      BY <2>1, <2>2, InitType DEF AuthInv
  <1>2. AuthInv /\ [Next]_vars => AuthInv'
    <2>1. ASSUME AuthInv, NEW p \in Processes, Proceed(p) \/ Busy(p) \/ Crash(p)
          PROVE  AuthInv'
      <3>1. TypeOK'
        BY <2>1, StepType DEF AuthInv, Next
      <3> QED
        BY <2>1, <3>1, StepLock, StepFresh, StepPath, StepGrant, StepOnce DEF AuthInv
    <2> QED
      BY <2>1, StutterInv DEF Next
  <1> QED
    BY <1>1, <1>2, PTL DEF Spec

-----------------------------------------------------------------------------
(* The theorems. *)

\* The CLI, the clock and the database keep their variables' types.
THEOREM TypeCorrect == Spec => []TypeOK
  <1>1. AuthInv => TypeOK
    BY DEF AuthInv
  <1> QED
    BY <1>1, AuthInvariant, PTL

\* Of all processes that present one nonce to one database, at most one starts its
\* executor, whatever their number, their interleaving, the clock and the crashes.
THEOREM NonceExecutedOnce == Spec => []ExecutedOnce
  <1>1. AuthInv => ExecutedOnce
    BY DEF AuthInv, GrantInv, OnceInv, ExecutedOnce
  <1> QED
    BY <1>1, AuthInvariant, PTL

\* A lock on the database always has a live owner, in the middle of its transaction: a
\* refused, failed, finished or dead one has let go of it (replay.py, lines 100-125).
\* NeverStranded rests on this, and on owners that go on.
THEOREM LockHasLiveOwner == Spec => [](writer # Nobody => pc[writer] \in Writing)
  <1>1. AuthInv => (writer # Nobody => pc[writer] \in Writing)
    BY DEF AuthInv, TypeOK, LockInv
  <1> QED
    BY <1>1, AuthInvariant, PTL

\* An executor starts only on a row in the database and on an approval that was valid
\* when it was verified, for this mission, these limits and this executor.
THEOREM ExecutionIsAuthorized == Spec => []ExecutedIsAuthorized
  <1>1. AuthInv => ExecutedIsAuthorized
    <2> SUFFICES ASSUME AuthInv, NEW p \in executed
                 PROVE  LET signed == Approval(p) IN
                        /\ Row(p) \in rows
                        /\ signed.genuine
                        /\ signed.mission = request[p].mission
                        /\ signed.mission \in PolicyApproved
                        /\ signed.policy = CurrentPolicy
                        /\ signed.executor = request[p].executor
                        /\ Row(p).consumed_at \in (signed.issued - MaxSkew)..(signed.expires - 1)
      BY DEF ExecutedIsAuthorized
    <2>1. p \in Processes /\ p \in granted
      BY DEF AuthInv, GrantInv, TypeOK
    <2>2. Row(p) \in rows /\ Valid(p, read[p]) /\ request[p].mission \in PolicyApproved
      BY <2>1 DEF AuthInv, GrantInv
    <2>3. Row(p).consumed_at = read[p]
      BY DEF Row
    <2>4. /\ read[p] \in Int /\ MaxSkew \in Int
          /\ Approval(p).issued \in Int /\ Approval(p).expires \in Int
      <3>1. read[p] \in Times /\ request[p] \in Requests
        BY <2>1 DEF AuthInv, TypeOK
      <3>2. read[p] \in Int /\ MaxSkew \in Int
        BY <3>1, ClockAssumption
      <3>3. request[p].approval.issued \in Int /\ request[p].approval.expires \in Int
        BY <3>1, RequestsAssumption
      <3> QED
        BY <3>2, <3>3 DEF Approval
    <2>5. Approval(p).issued - MaxSkew <= read[p] /\ read[p] <= Approval(p).expires - 1
      BY <2>2, <2>4 DEF Valid
    <2> QED
      BY <2>2, <2>3, <2>4, <2>5 DEF Valid
  <1> QED
    BY <1>1, AuthInvariant, PTL

-----------------------------------------------------------------------------
(* The refinement of OneTimeApproval. *)

\* Where a process is tells what OneTimeApproval says of it.
LEMMA OutcomeByPc ==
    ASSUME AuthInv, NEW q \in Processes
    PROVE  /\ pc[q] \in Asking => outcome[q] = "asked"
           /\ pc[q] \in {"start", "running"} => outcome[q] = "granted"
           /\ q \in granted => outcome[q] = "granted"
           /\ q \notin granted /\ pc[q] = "ended" => outcome[q] = "refused"
           /\ q \notin granted /\ pc[q] = "crashed" => outcome[q] = "lost"
  BY DEF AuthInv, PathInv, Asking, outcome

LEMMA InitRefines == Init => OneTime!Init
  <1> SUFFICES ASSUME Init PROVE OneTime!Init
    OBVIOUS
  <1>1. [p \in Processes |-> Approval(p).nonce] \in [Processes -> Nonces]
    BY DEF Init, Approval, Nonces
  <1>2. outcome = [p \in Processes |-> "asked"]
    BY DEF Init, outcome
  <1>3. Consumed = {}
    BY DEF Init, Consumed
  <1> QED
    BY <1>1, <1>2, <1>3 DEF OneTime!Init

\* A COMMIT grants, the other ends of a process that asks refuse or lose it, and
\* everything else is a stutter.
LEMMA StepRefines ==
    ASSUME AuthInv, AuthInv', [Next]_vars PROVE [OneTime!Next]_(OneTime!vars)
  <1> DEFINE nonces == [p \in Processes |-> Approval(p).nonce]
  <1>1. CASE UNCHANGED vars
    BY <1>1 DEF vars, OneTime!vars, outcome, Consumed, Approval
  <1>2. ASSUME NEW p \in Processes, Proceed(p) \/ Busy(p) \/ Crash(p)
        PROVE  [OneTime!Next]_(OneTime!vars)
    <2>1. request' = request /\ nonces' = nonces /\ nonces[p] = Approval(p).nonce
      BY <1>2, OthersStay DEF AuthInv, Approval
    <2>2. \A q \in Processes \ {p} : outcome'[q] = outcome[q]
      <3> SUFFICES ASSUME NEW q \in Processes \ {p} PROVE outcome'[q] = outcome[q]
        OBVIOUS
      <3>1. pc'[q] = pc[q] /\ (q \in granted' <=> q \in granted)
        BY <1>2, OthersStay, RowsGrow DEF AuthInv
      <3> QED
        BY <3>1 DEF outcome
    <2>3. outcome' = [outcome EXCEPT ![p] = outcome'[p]]
      BY <2>2 DEF outcome
    <2>4. CASE pc[p] \in Asking /\ pc'[p] \in Asking
      <3>1. outcome[p] = "asked" /\ outcome'[p] = "asked" /\ rows' = rows
        BY <1>2, <2>4, OutcomeByPc, RowsGrow DEF AuthInv, PathInv, Asking, outcome
      <3>2. outcome' = outcome /\ Consumed' = Consumed
        BY <2>3, <3>1 DEF outcome, Consumed
      <3> QED
        BY <2>1, <3>2 DEF OneTime!vars
    <2>5. CASE pc[p] \in Asking /\ pc'[p] \notin Asking
      <3>1. outcome[p] = "asked"
        BY <2>5, OutcomeByPc
      <3>2. CASE granted' # granted
        <4>1. /\ pc[p] = "commit" /\ rows' = rows \cup {Row(p)} /\ granted' = granted \cup {p}
          BY <1>2, <3>2, RowsGrow DEF AuthInv
        <4>2. outcome'[p] = "granted"
          BY <4>1 DEF outcome
        <4>3. Approval(p).nonce \notin Consumed
          BY <4>1 DEF AuthInv, FreshInv
        <4>4. Consumed' = Consumed \cup {Approval(p).nonce}
          <5>1. Row(p).nonce = Approval(p).nonce
            BY DEF Row
          <5>2. \A n : n \in Consumed' <=> n \in Consumed \/ n = Row(p).nonce
            BY <4>1 DEF Consumed
          <5> QED
            BY <5>1, <5>2
        <4>5. OneTime!Grant(p)
          BY <2>1, <2>3, <3>1, <4>2, <4>3, <4>4 DEF OneTime!Grant, OneTime!Answer
        <4> QED
          BY <4>5 DEF OneTime!Next
      <3>3. CASE granted' = granted /\ pc'[p] = "crashed"
        <4>1. p \notin granted'
          BY <2>5, <3>3 DEF AuthInv, PathInv
        <4>2. outcome'[p] = "lost"
          BY <3>3, <4>1 DEF outcome
        <4>3. Consumed' \in {Consumed, Consumed \cup {Approval(p).nonce}}
          <5>1. rows' = rows \/ rows' = rows \cup {Row(p)}
            BY <1>2, RowsGrow DEF AuthInv
          <5> QED
            BY <5>1 DEF Consumed, Row
        <4>4. OneTime!Lose(p)
          BY <2>1, <2>3, <3>1, <4>2, <4>3 DEF OneTime!Lose, OneTime!Answer
        <4> QED
          BY <4>4 DEF OneTime!Next
      <3>4. CASE granted' = granted /\ pc'[p] # "crashed"
        <4>0. p \notin granted
          BY <2>5 DEF AuthInv, PathInv
        <4>1. rows' = rows
          BY <1>2, <3>4, <4>0, RowsGrow DEF AuthInv
        <4>2. p \notin granted'
          BY <2>5, <3>4 DEF AuthInv, PathInv
        <4>3. pc'[p] = "ended"
          <5>1. pc'[p] \in PCs /\ pc'[p] \notin {"start", "running"}
            BY <4>2 DEF AuthInv, PathInv, TypeOK
          <5> QED
            BY <2>5, <3>4, <5>1 DEF PCs
        <4>4. outcome'[p] = "refused"
          BY <4>2, <4>3 DEF outcome
        <4>5. Consumed' = Consumed
          BY <4>1 DEF Consumed
        <4>6. OneTime!Refuse(p)
          BY <2>1, <2>3, <3>1, <4>4, <4>5 DEF OneTime!Refuse, OneTime!Answer
        <4> QED
          BY <4>6 DEF OneTime!Next
      <3> QED
        BY <3>2, <3>3, <3>4
    <2>6. CASE pc[p] \notin Asking
      <3>1. rows' = rows /\ granted' = granted
        BY <1>2, <2>6, RowsGrow DEF AuthInv, Asking
      <3>2. pc[p] \in {"start", "running"}
        BY <1>2, <2>6 DEF AuthInv, TypeOK, PCs, Asking, Proceed, Load, Open, Verify, Begin,
                          Busy, Insert, Commit, Start, Finish, Crash, Step, End
      <3>3. p \in granted /\ p \in granted'
        BY <3>1, <3>2 DEF AuthInv, PathInv
      <3>4. outcome'[p] = outcome[p]
        BY <3>3 DEF outcome
      <3>5. outcome' = outcome /\ Consumed' = Consumed
        BY <2>3, <3>1, <3>4 DEF outcome, Consumed
      <3> QED
        BY <2>1, <3>5 DEF OneTime!vars
    <2> QED
      BY <2>4, <2>5, <2>6
  <1> QED
    BY <1>1, <1>2 DEF Next

\* Reading the clock, verifying, the transaction and a crash anywhere in between look
\* from outside like one atomic consumption of the nonce.
THEOREM ConsumptionIsAtomic == Spec => Implements
  <1>1. Spec => OneTime!Init
    BY InitRefines DEF Spec
  <1>2. AuthInv /\ AuthInv' /\ [Next]_vars => [OneTime!Next]_(OneTime!vars)
    BY StepRefines
  <1> QED
    BY <1>1, <1>2, AuthInvariant, PTL DEF Spec, Implements, OneTime!Spec

-----------------------------------------------------------------------------
(* What an exit code, and a row, tell. *)

\* Only a process that has ended has a code, and only one that started runs.
ExitInv ==
    /\ \A p \in Processes :
          /\ pc[p] # "ended" => exit[p] = NoExit
          /\ pc[p] = "running" => p \in executed
    /\ ExitCodes

\* A process that is not p keeps its code.
LEMMA CodesStay ==
    ASSUME TypeOK, NEW p \in Processes, Proceed(p) \/ Busy(p) \/ Crash(p)
    PROVE  /\ \A q \in Processes \ {p} : exit'[q] = exit[q]
           /\ executed \subseteq executed'
           /\ \/ pc[p] \notin {"ended", "crashed"} /\ pc'[p] # "ended" /\ exit'[p] = exit[p]
              \/ /\ pc[p] \in Asking /\ pc'[p] = "ended" /\ exit'[p] \in {1, 2, 3, 4}
                 /\ UNCHANGED <<granted, executed>>
              \/ /\ pc[p] = "running" /\ pc'[p] = "ended"
                 /\ exit'[p] \in {0, 1, 5, 6, 7, 130} /\ UNCHANGED <<granted, executed>>
           /\ pc'[p] = "running" => p \in executed'
  <1> USE DEF TypeOK, Asking
  <1>1. CASE Load(p) \/ Open(p) \/ Begin(p) \/ Busy(p) \/ Insert(p)
    BY <1>1 DEF Load, Open, Begin, Busy, Insert, Step, End, history
  <1>2. CASE Verify(p)
    BY <1>2 DEF Verify, Step, End, history
  <1>3. CASE Commit(p) \/ Start(p)
    BY <1>3 DEF Commit, Start, Step, End, history
  <1>4. CASE Finish(p)
    BY <1>4 DEF Finish, End, history
  <1>5. CASE Crash(p)
    BY <1>5 DEF Crash, history
  <1> QED
    BY <1>1, <1>2, <1>3, <1>4, <1>5 DEF Proceed

LEMMA ConsumedGrows ==
    ASSUME TypeOK, NEW p \in Processes, Proceed(p) \/ Busy(p) \/ Crash(p)
    PROVE  rows \subseteq rows' /\ Consumed \subseteq Consumed'
  <1>1. rows \subseteq rows'
    BY RowsGrow
  <1> QED
    BY <1>1 DEF Consumed

LEMMA StepExit ==
    ASSUME AuthInv, AuthInv', ExitInv,
           NEW p \in Processes, Proceed(p) \/ Busy(p) \/ Crash(p)
    PROVE  ExitInv'
  <1> DEFINE Code(q) ==
        /\ pc[q] # "ended" => exit[q] = NoExit
        /\ pc[q] = "running" => q \in executed
        /\ exit[q] \in {2, 3, 4} => q \notin granted
        /\ exit[q] \in {0, 5, 6, 7} => q \in executed /\ Approval(q).nonce \in Consumed
  <1> SUFFICES ASSUME NEW q \in Processes PROVE Code(q)'
    BY DEF ExitInv, ExitCodes
  <1>1. Code(q) /\ Code(p)
    BY DEF ExitInv, ExitCodes
  <1>2. Approval(q)' = Approval(q)
    BY OthersStay DEF AuthInv, Approval
  <1>3. Consumed \subseteq Consumed' /\ executed \subseteq executed'
    BY ConsumedGrows, CodesStay DEF AuthInv
  <1>4. CASE q # p
    <2>1. /\ pc'[q] = pc[q] /\ exit'[q] = exit[q]
          /\ q \in granted' <=> q \in granted
      BY <1>4, OthersStay, CodesStay, RowsGrow DEF AuthInv
    <2> QED
      BY <1>1, <1>2, <1>3, <2>1
  <1>5. CASE q = p
    <2>1. CASE pc[p] \notin {"ended", "crashed"} /\ pc'[p] # "ended" /\ exit'[p] = exit[p]
      <3>1. exit'[p] = NoExit /\ (pc'[p] = "running" => p \in executed')
        BY <1>1, <2>1, CodesStay DEF AuthInv
      <3> QED
        BY <1>5, <3>1 DEF NoExit
    <2>2. CASE /\ pc[p] \in Asking /\ pc'[p] = "ended" /\ exit'[p] \in {1, 2, 3, 4}
               /\ UNCHANGED <<granted, executed>>
      <3>1. p \notin granted'
        BY <2>2 DEF AuthInv, PathInv
      <3> QED
        BY <1>5, <2>2, <3>1
    <2>3. CASE /\ pc[p] = "running" /\ pc'[p] = "ended"
               /\ exit'[p] \in {0, 1, 5, 6, 7, 130} /\ UNCHANGED <<granted, executed>>
      <3>1. p \in executed' /\ p \in granted'
        BY <1>1, <2>3 DEF AuthInv, GrantInv
      <3>2. Row(p)' \in rows' /\ Row(p)'.nonce = Approval(p)'.nonce
        BY <3>1 DEF AuthInv, GrantInv, Row
      <3>3. Approval(p)'.nonce \in Consumed'
        BY <3>2 DEF Consumed
      <3> QED
        BY <1>5, <2>3, <3>1, <3>3
    <2> QED
      BY <2>1, <2>2, <2>3, CodesStay DEF AuthInv
  <1> QED
    BY <1>4, <1>5

\* Exit codes 2, 3 and 4 leave the nonce of the approval unspent by this process;
\* 0, 5, 6 and 7 come from an execution whose nonce is in the database.
THEOREM ExitCodesTell == Spec => []ExitCodes
  <1>1. Init => ExitInv
    BY DEF Init, ExitInv, ExitCodes, NoExit
  <1>2. AuthInv /\ AuthInv' /\ ExitInv /\ [Next]_vars => ExitInv'
    <2> SUFFICES ASSUME AuthInv, AuthInv', ExitInv, [Next]_vars PROVE ExitInv'
      OBVIOUS
    <2>1. CASE UNCHANGED vars
      BY <2>1 DEF vars, ExitInv, ExitCodes, Consumed, Approval
    <2> QED
      BY <2>1, StepExit DEF Next
  <1>3. ExitInv => ExitCodes
    BY DEF ExitInv
  <1> QED
    BY <1>1, <1>2, <1>3, AuthInvariant, PTL DEF Spec

\* Whoever was refused, at whatever point, has left no row: each row belongs to a
\* process that was granted its nonce or that died around the COMMIT.
THEOREM RefusalIsFree == Spec => []RefusedSpendsNothing
  <1>1. Init => RefusedSpendsNothing
    BY DEF Init, RefusedSpendsNothing
  <1>2. AuthInv /\ RefusedSpendsNothing /\ [Next]_vars => RefusedSpendsNothing'
    <2> SUFFICES ASSUME AuthInv, RefusedSpendsNothing, [Next]_vars, NEW row \in rows'
                 PROVE  \E q \in Processes :
                            row = Row(q)' /\ (q \in granted' \/ pc'[q] = "crashed")
      BY DEF RefusedSpendsNothing
    <2>1. CASE UNCHANGED vars
      BY <2>1 DEF vars, RefusedSpendsNothing, Row, Approval
    <2>2. ASSUME NEW p \in Processes, Proceed(p) \/ Busy(p) \/ Crash(p)
          PROVE  \E q \in Processes :
                     row = Row(q)' /\ (q \in granted' \/ pc'[q] = "crashed")
      <3>1. request' = request
        BY <2>2, OthersStay DEF AuthInv
      <3>2. CASE row \in rows
        <4>1. PICK q \in Processes : row = Row(q) /\ (q \in granted \/ pc[q] = "crashed")
          BY <3>2 DEF RefusedSpendsNothing
        <4>2. read'[q] = read[q] /\ (q \in granted' \/ pc'[q] = "crashed")
          <5>1. granted \subseteq granted'
            BY <2>2, RowsGrow DEF AuthInv
          <5>2. CASE q # p
            BY <2>2, <4>1, <5>1, <5>2, OthersStay DEF AuthInv
          <5>3. CASE q = p
            <6>1. pc[p] # "crashed"
              BY <2>2, CodesStay DEF AuthInv, Asking
            <6>2. q \in granted /\ pc[p] # "verify"
              BY <4>1, <5>3, <6>1 DEF AuthInv, PathInv, Asking
            <6> QED
              BY <2>2, <5>1, <6>2, OthersStay DEF AuthInv
          <5> QED
            BY <5>2, <5>3
        <4>3. Row(q)' = Row(q)
          BY <3>1, <4>2, ApprovalStays
        <4> QED
          BY <4>1, <4>2, <4>3
      <3>3. CASE row \notin rows
        <4>1. /\ pc[p] = "commit" /\ row = Row(p)
              /\ p \in granted' \/ pc'[p] = "crashed"
          BY <2>2, <3>3, RowsGrow DEF AuthInv
        <4>2. Row(p)' = Row(p)
          BY <2>2, <3>1, <4>1, OthersStay, ApprovalStays DEF AuthInv
        <4> QED
          BY <4>1, <4>2
      <3> QED
        BY <3>2, <3>3
    <2> QED
      BY <2>1, <2>2 DEF Next
  <1> QED
    BY <1>1, <1>2, AuthInvariant, PTL DEF Spec
=============================================================================
