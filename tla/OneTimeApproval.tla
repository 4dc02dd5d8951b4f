---------------------------- MODULE OneTimeApproval ----------------------------
(***************************************************************************)
(* What the replay protection promises (README.md: "atomically consumes    *)
(* its nonce"; docs/project-record.md: "An approval can succeed once"):    *)
(* each of a number of requests presents a nonce; a request is granted,    *)
(* refused or lost with its process, and a grant spends the nonce in the   *)
(* same step.  A request that is lost may spend its nonce for nothing; one *)
(* that is refused never does.                                             *)
(***************************************************************************)
CONSTANTS Processes, Nonces

VARIABLES
    nonce,     \* the nonce each process presents
    outcome,   \* what became of each request
    spent      \* the nonces that are spent

vars == <<nonce, outcome, spent>>

Outcomes == {"asked", "granted", "refused", "lost"}

Init ==
    /\ nonce \in [Processes -> Nonces]
    /\ outcome = [p \in Processes |-> "asked"]
    /\ spent = {}

Answer(p, answer) ==
    /\ outcome[p] = "asked"
    /\ outcome' = [outcome EXCEPT ![p] = answer]
    /\ UNCHANGED nonce

Grant(p) == nonce[p] \notin spent /\ spent' = spent \cup {nonce[p]} /\ Answer(p, "granted")

Refuse(p) == Answer(p, "refused") /\ UNCHANGED spent

Lose(p) == Answer(p, "lost") /\ spent' \in {spent, spent \cup {nonce[p]}}

Next == \E p \in Processes : Grant(p) \/ Refuse(p) \/ Lose(p)

Spec == Init /\ [][Next]_vars

-----------------------------------------------------------------------------
\* No nonce is granted to two processes.
GrantedOnce ==
    \A p, q \in Processes :
        outcome[p] = "granted" /\ outcome[q] = "granted" /\ nonce[p] = nonce[q] => p = q
=============================================================================
