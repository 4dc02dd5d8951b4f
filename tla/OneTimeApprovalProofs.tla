------------------------- MODULE OneTimeApprovalProofs -------------------------
(* The abstract specification keeps its own promise. *)
EXTENDS OneTimeApproval, TLAPS

\* A granted nonce is spent, and nobody else holds it.
SpentInv ==
    /\ outcome \in [Processes -> Outcomes]
    /\ \A p \in Processes : outcome[p] = "granted" => nonce[p] \in spent
    /\ GrantedOnce

LEMMA SpentStep == SpentInv /\ [Next]_vars => SpentInv'
  <1> SUFFICES ASSUME SpentInv, [Next]_vars PROVE SpentInv'
    OBVIOUS
  <1>1. CASE UNCHANGED vars
    BY <1>1 DEF vars, SpentInv, GrantedOnce
  <1>2. ASSUME NEW p \in Processes, Grant(p) PROVE SpentInv'
    BY <1>2 DEF Grant, Answer, SpentInv, GrantedOnce, Outcomes
  <1>3. ASSUME NEW p \in Processes, Refuse(p) \/ Lose(p) PROVE SpentInv'
    <2>1. /\ spent \subseteq spent' /\ nonce' = nonce
          /\ outcome' \in [Processes -> Outcomes]
          /\ \A q \in Processes : outcome'[q] = "granted" => outcome[q] = "granted"
      BY <1>3 DEF Refuse, Lose, Answer, SpentInv, Outcomes
    <2> QED
      BY <2>1 DEF SpentInv, GrantedOnce
  <1> QED
    BY <1>1, <1>2, <1>3 DEF Next

\* No two requests that present the same nonce are granted, whatever the number of
\* requests and nonces and the order of answers and losses.
THEOREM GrantsAreUnique == Spec => []GrantedOnce
  <1>1. Init => SpentInv
    BY DEF Init, SpentInv, GrantedOnce, Outcomes
  <1>2. SpentInv => GrantedOnce
    BY DEF SpentInv
  <1> QED
    BY <1>1, <1>2, SpentStep, PTL DEF Spec
=============================================================================
