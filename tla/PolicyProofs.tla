----------------------------- MODULE PolicyProofs -----------------------------
(***************************************************************************)
(* Proofs about Policy: what an approved mission looks like, whatever the  *)
(* limits, the length of the mission and the data of its actions.          *)
(***************************************************************************)
EXTENDS Policy, FiniteSetTheorems, TLAPS

-----------------------------------------------------------------------------
(* Sums over finite sets, and the largest element of one.                    *)

\* The element a fold takes out of a set first.
Chosen(T) == CHOOSE x \in T : TRUE

\* g is the function of the partial sums over the subsets of S.
Sums(f, S, g) ==
    g = [T \in SUBSET S |-> IF T = {} THEN 0 ELSE f[Chosen(T)] + g[T \ {Chosen(T)}]]

\* SumFunctionOnSet of the library, with its recursive function named.
LEMMA TotalDef == ASSUME NEW f, NEW S
                  PROVE SumFunctionOnSet(f, S) = (CHOOSE g : Sums(f, S, g))[S]
  BY DEF SumFunctionOnSet, FoldFunctionOnSet, MapThenFoldSet, Sums, Chosen

\* Induction on a finite set, as a smallest counterexample: strict inclusion is
\* well-founded on its subsets.
LEMMA SmallestSubset ==
    ASSUME NEW S, IsFiniteSet(S), NEW Bad \in SUBSET (SUBSET S), Bad # {}
    PROVE  \E T \in Bad : \A U \in Bad : U \subseteq T => U = T
  <1>1. FiniteSubsetsOf(S) = SUBSET S
    BY FS_FiniteSubsetsOfFinite
  <1>2. IsWellFoundedOn(StrictSubsetOrdering(S), SUBSET S)
    BY <1>1, FS_StrictSubsetOrderingWellFounded
  <1>3. \E T \in Bad : \A U \in Bad : ~ (<<U, T>> \in StrictSubsetOrdering(S))
    BY <1>2, WFMin
  <1> QED
    BY <1>3 DEF StrictSubsetOrdering

LEMMA ChosenIn == ASSUME NEW T, T # {} PROVE Chosen(T) \in T
  BY DEF Chosen

\* Two functions of partial sums agree where both are defined.
LEMMA SumsAgree ==
    ASSUME NEW f, NEW S, IsFiniteSet(S), NEW A \in SUBSET S, NEW B \in SUBSET S,
           NEW g, Sums(f, A, g), NEW h, Sums(f, B, h), NEW T \in SUBSET (A \cap B)
    PROVE  g[T] = h[T]
  <1> DEFINE Bad == {U \in SUBSET (A \cap B) : g[U] # h[U]}
  <1>1. SUFFICES ASSUME Bad # {} PROVE FALSE
    OBVIOUS
  <1>2. PICK U \in Bad : \A V \in Bad : V \subseteq U => V = U
    <2>1. Bad \in SUBSET (SUBSET S)
      OBVIOUS
    <2> HIDE DEF Bad
    <2> QED
      BY <1>1, <2>1, SmallestSubset
  <1>3. U # {}
    BY DEF Sums
  <1>4. Chosen(U) \in U
    BY <1>3, ChosenIn
  <1>5. g[U \ {Chosen(U)}] = h[U \ {Chosen(U)}]
    BY <1>2, <1>4
  <1>6. g[U] = f[Chosen(U)] + g[U \ {Chosen(U)}]
    BY <1>3 DEF Sums
  <1>7. h[U] = f[Chosen(U)] + h[U \ {Chosen(U)}]
    BY <1>3 DEF Sums
  <1> QED
    BY <1>5, <1>6, <1>7

\* The function of the partial sums, if there is one.
SumsOf(f, S) == CHOOSE g : Sums(f, S, g)

\* The recursion has a solution.
LEMMA SumsExist ==
    ASSUME NEW f, NEW S, IsFiniteSet(S)
    PROVE  Sums(f, S, SumsOf(f, S))
  <1> DEFINE Bad == {T \in SUBSET S : ~ \E g : Sums(f, T, g)}
  <1>1. SUFFICES ASSUME Bad # {} PROVE FALSE
    <2>1. \E g : Sums(f, S, g)
      BY <1>1
    <2> QED
      BY <2>1 DEF SumsOf
  <1>2. PICK T \in Bad : \A U \in Bad : U \subseteq T => U = T
    <2>1. Bad \in SUBSET (SUBSET S)
      OBVIOUS
    <2> HIDE DEF Bad
    <2> QED
      BY <1>1, <2>1, SmallestSubset
  <1>3. \A U \in SUBSET T : U # T => Sums(f, U, SumsOf(f, U))
    <2>1. ASSUME NEW U \in SUBSET T, U # T PROVE Sums(f, U, SumsOf(f, U))
      <3>1. \E g : Sums(f, U, g)
        BY <1>2, <2>1
      <3> QED
        BY <3>1 DEF SumsOf
    <2> QED
      BY <2>1
  <1> DEFINE F(U) == IF U = {} THEN 0
                     ELSE f[Chosen(U)] + SumsOf(f, U \ {Chosen(U)})[U \ {Chosen(U)}]
             G == [U \in SUBSET T |-> F(U)]
  <1>4. ASSUME NEW U \in SUBSET T, U # T PROVE F(U) = SumsOf(f, U)[U]
    <2>1. CASE U = {}
      BY <1>3, <1>4, <2>1 DEF Sums
    <2>2. CASE U # {}
      <3> DEFINE V == U \ {Chosen(U)}
      <3>1. Chosen(U) \in U /\ V \in SUBSET U /\ V # T
        BY <2>2, <1>4, ChosenIn
      <3>2. Sums(f, U, SumsOf(f, U)) /\ Sums(f, V, SumsOf(f, V))
        BY <1>3, <1>4, <3>1
      <3>3. SumsOf(f, U)[V] = SumsOf(f, V)[V]
        <4>1. U \in SUBSET S /\ V \in SUBSET S /\ V \in SUBSET (U \cap V)
          BY <3>1
        <4> HIDE DEF V
        <4> QED
          BY <3>2, <4>1, SumsAgree
      <3>4. SumsOf(f, U)[U] = f[Chosen(U)] + SumsOf(f, U)[V]
        BY <2>2, <3>2 DEF Sums
      <3> QED
        BY <2>2, <3>3, <3>4
    <2> QED
      BY <2>1, <2>2
  <1>5. ASSUME NEW U \in SUBSET T
        PROVE  F(U) = IF U = {} THEN 0 ELSE f[Chosen(U)] + G[U \ {Chosen(U)}]
    <2>1. CASE U # {}
      <3> DEFINE V == U \ {Chosen(U)}
      <3>1. Chosen(U) \in U /\ V \in SUBSET T /\ V # T
        BY <2>1, ChosenIn
      <3>2. G[V] = SumsOf(f, V)[V]
        BY <1>4, <3>1
      <3> QED
        BY <2>1, <3>2
    <2> QED
      BY <2>1
  <1>6. Sums(f, T, G)
    <2> HIDE DEF F
    <2> QED
      BY <1>5 DEF Sums
  <1> QED
    BY <1>2, <1>6

\* What a sum is: nothing, or the chosen element and the rest.
LEMMA SumEmpty == ASSUME NEW f PROVE SumFunctionOnSet(f, {}) = 0
  <1>1. Sums(f, {}, SumsOf(f, {}))
    BY SumsExist, FS_EmptySet
  <1>2. SumFunctionOnSet(f, {}) = SumsOf(f, {})[{}]
    BY TotalDef DEF SumsOf
  <1> QED
    BY <1>1, <1>2 DEF Sums

LEMMA SumDef ==
    ASSUME NEW f, NEW S, IsFiniteSet(S), S # {}
    PROVE  SumFunctionOnSet(f, S) = f[Chosen(S)] + SumFunctionOnSet(f, S \ {Chosen(S)})
  <1> DEFINE V == S \ {Chosen(S)}
  <1>1. V \in SUBSET S /\ IsFiniteSet(V)
    BY FS_Subset
  <1>2. Sums(f, S, SumsOf(f, S)) /\ Sums(f, V, SumsOf(f, V))
    <2> HIDE DEF V
    <2> QED
      BY <1>1, SumsExist
  <1>3. SumsOf(f, S)[V] = SumsOf(f, V)[V]
    <2>1. S \in SUBSET S /\ V \in SUBSET (S \cap V)
      BY <1>1
    <2> HIDE DEF V
    <2> QED
      BY <1>1, <1>2, <2>1, SumsAgree
  <1>4. SumsOf(f, S)[S] = f[Chosen(S)] + SumsOf(f, S)[V]
    BY <1>2 DEF Sums
  <1>5. SumFunctionOnSet(f, S) = SumsOf(f, S)[S] /\ SumFunctionOnSet(f, V) = SumsOf(f, V)[V]
    BY TotalDef DEF SumsOf
  <1> QED
    BY <1>3, <1>4, <1>5

\* A sum of naturals is a natural.
LEMMA SumType ==
    ASSUME NEW f, NEW S, IsFiniteSet(S), \A x \in S : f[x] \in Nat
    PROVE  SumFunctionOnSet(f, S) \in Nat
  <1> DEFINE Bad == {T \in SUBSET S : SumFunctionOnSet(f, T) \notin Nat}
  <1>1. SUFFICES ASSUME Bad # {} PROVE FALSE
    OBVIOUS
  <1>2. PICK T \in Bad : \A U \in Bad : U \subseteq T => U = T
    <2>1. Bad \in SUBSET (SUBSET S)
      OBVIOUS
    <2> HIDE DEF Bad
    <2> QED
      BY <1>1, <2>1, SmallestSubset
  <1>3. IsFiniteSet(T)
    BY FS_Subset
  <1>4. T # {}
    <2>1. SumFunctionOnSet(f, {}) \in Nat
      BY SumEmpty
    <2>2. SumFunctionOnSet(f, T) \notin Nat
      OBVIOUS
    <2>3. SUFFICES ASSUME T = {} PROVE FALSE
      OBVIOUS
    <2> HIDE DEF Bad
    <2> QED
      BY <2>1, <2>2, <2>3, Zenon
  <1>5. Chosen(T) \in T /\ f[Chosen(T)] \in Nat
    BY <1>4, ChosenIn
  <1>6. SumFunctionOnSet(f, T \ {Chosen(T)}) \in Nat
    BY <1>2, <1>5
  <1>7. SumFunctionOnSet(f, T) = f[Chosen(T)] + SumFunctionOnSet(f, T \ {Chosen(T)})
    BY <1>3, <1>4, SumDef
  <1> QED
    BY <1>5, <1>6, <1>7

\* Any element may be taken out first.
LEMMA SumTakeOut ==
    ASSUME NEW f, NEW S, IsFiniteSet(S), \A x \in S : f[x] \in Nat, NEW y \in S
    PROVE  SumFunctionOnSet(f, S) = f[y] + SumFunctionOnSet(f, S \ {y})
  <1> DEFINE Total(T) == SumFunctionOnSet(f, T)
             Bad == {T \in SUBSET S : \E z \in T : Total(T) # f[z] + Total(T \ {z})}
  <1>1. SUFFICES ASSUME Bad # {} PROVE FALSE
    OBVIOUS
  <1>2. PICK T \in Bad : \A U \in Bad : U \subseteq T => U = T
    <2>1. Bad \in SUBSET (SUBSET S)
      OBVIOUS
    <2> HIDE DEF Bad
    <2> QED
      BY <1>1, <2>1, SmallestSubset
  <1>3. PICK z \in T : Total(T) # f[z] + Total(T \ {z})
    BY <1>2
  <1> DEFINE c == Chosen(T)
  <1>4. c \in T /\ Total(T) = f[c] + Total(T \ {c})
    BY <1>3, ChosenIn, SumDef, FS_Subset
  <1>5. c # z
    BY <1>3, <1>4
  <1>6. T \ {c} \notin Bad /\ T \ {z} \notin Bad
    BY <1>2, <1>3, <1>4
  <1> HIDE DEF c
  <1>7. Total(T \ {c}) = f[z] + Total((T \ {c}) \ {z})
    BY <1>3, <1>5, <1>6
  <1>8. Total(T \ {z}) = f[c] + Total((T \ {z}) \ {c})
    BY <1>4, <1>5, <1>6
  <1>9. (T \ {c}) \ {z} = (T \ {z}) \ {c}
    OBVIOUS
  <1>10. Total((T \ {c}) \ {z}) \in Nat /\ f[c] \in Nat /\ f[z] \in Nat
    <2>1. IsFiniteSet((T \ {c}) \ {z})
      BY FS_Subset
    <2> QED
      BY <1>4, <2>1, SumType
  <1> QED
    BY <1>3, <1>4, <1>7, <1>8, <1>9, <1>10

\* A finite set of naturals has a largest element, which Max is.
LEMMA FiniteHasLargest ==
    ASSUME NEW S, IsFiniteSet(S)
    PROVE  S \subseteq Nat /\ S # {} => \E m \in S : \A x \in S : m >= x
  <1> DEFINE Bad == {T \in SUBSET S : T \subseteq Nat /\ T # {} /\ ~ \E m \in T : \A x \in T : m >= x}
  <1>1. SUFFICES ASSUME Bad # {} PROVE FALSE
    OBVIOUS
  <1>2. PICK T \in Bad : \A U \in Bad : U \subseteq T => U = T
    <2>1. Bad \in SUBSET (SUBSET S)
      OBVIOUS
    <2> HIDE DEF Bad
    <2> QED
      BY <1>1, <2>1, SmallestSubset
  <1>3. PICK y \in T : TRUE
    OBVIOUS
  <1>4. T \ {y} \notin Bad
    <2>1. T \ {y} \subseteq T /\ T \ {y} # T
      BY <1>3
    <2> HIDE DEF Bad
    <2> QED
      BY <1>2, <2>1
  <1>5. CASE T \ {y} = {}
    BY <1>3, <1>5
  <1>6. CASE T \ {y} # {}
    <2>1. PICK m \in T \ {y} : \A x \in T \ {y} : m >= x
      BY <1>4, <1>6
    <2>2. m \in Nat /\ y \in Nat /\ T \subseteq Nat
      BY <1>3
    <2>3. ~ \E n \in T : \A x \in T : n >= x
      OBVIOUS
    <2> HIDE DEF Bad
    <2>4. CASE m >= y
      BY <2>1, <2>2, <2>3, <2>4
    <2>5. CASE ~(m >= y)
      <3>1. \A x \in T : y >= x
        BY <2>1, <2>2, <2>5
      <3> QED
        BY <2>3, <3>1
    <2> QED
      BY <2>4, <2>5
  <1> QED
    BY <1>5, <1>6

LEMMA MaxIsLargest ==
    ASSUME NEW S, IsFiniteSet(S), S \subseteq Nat, S # {}
    PROVE  Max(S) \in S /\ \A x \in S : Max(S) >= x
  BY FiniteHasLargest DEF Max

-----------------------------------------------------------------------------
\* What the schema gives every step: a sequence, and an action at each index.
LEMMA SchemaFacts ==
    ASSUME NEW m, Schema(m)
    PROVE  /\ m \in Seq(MissionAction) /\ Len(m) \in Nat \ {0}
           /\ DOMAIN m = 1..Len(m)
           /\ \A i \in 1..Len(m) : m[i] \in MissionAction
           /\ m[Len(m)].type \in {"return_home", "land"}
  BY DEF Schema

-----------------------------------------------------------------------------
(* Type correctness. *)

\* A turn adds only reasons about its own action.
LEMMA TurnType ==
    ASSUME TypeOK, NEW type, NEW next \in FlightStates,
           NEW found \in SUBSET (ActionReasons \X {index + 1}), Turn(type, next, found)
    PROVE  /\ Schema(mission)' /\ index' \in 0..Len(mission') /\ state' \in FlightStates
           /\ reasons' \subseteq (ActionReasons \X (1..Len(mission')))
                                   \cup (MissionReasons \X {0})
           /\ verdict' \in {"pending", "approved", "rejected"}
  <1>1. Len(mission) \in Nat /\ index \in Nat /\ index + 1 \in 1..Len(mission)
    BY SchemaFacts DEF TypeOK, Turn
  <1>2. mission' = mission /\ verdict' = verdict /\ index' = index + 1 /\ state' = next
    BY DEF Turn
  <1>3. Remaining(next) \subseteq ActionReasons \X (1..Len(mission))
    BY <1>1 DEF Remaining, When, ActionReasons
  <1>4. found \subseteq ActionReasons \X (1..Len(mission))
    BY <1>1
  <1>5. reasons' = reasons \cup found \cup Remaining(next)
    BY DEF Turn
  <1>6. reasons' \subseteq (ActionReasons \X (1..Len(mission'))) \cup (MissionReasons \X {0})
    BY <1>2, <1>3, <1>4, <1>5 DEF TypeOK
  <1> QED
    BY <1>1, <1>2, <1>6 DEF TypeOK, Schema

LEMMA StepType == TypeOK /\ [Next]_vars => TypeOK'
  <1> SUFFICES ASSUME TypeOK, [Next]_vars PROVE TypeOK'
    OBVIOUS
  <1>1. CASE Takeoff
    <2> DEFINE found == When(state # "disarmed", <<"state", index + 1>>)
                 \cup When(Here.altitude > MaxAltitude, <<"altitude", index + 1>>)
    <2>1. found \in SUBSET (ActionReasons \X {index + 1})
      BY DEF When, ActionReasons
    <2>2. Turn("takeoff", "airborne", found)
      BY <1>1 DEF Takeoff
    <2> HIDE DEF found
    <2> QED
      BY <1>1, <2>1, <2>2, TurnType DEF Takeoff, TypeOK, FlightStates
  <1>2. CASE Hold
    <2> DEFINE found == When(state # "airborne", <<"state", index + 1>>)
                 \cup When(Here.duration > MaxHold, <<"duration", index + 1>>)
    <2>1. found \in SUBSET (ActionReasons \X {index + 1})
      BY DEF When, ActionReasons
    <2>2. Turn("hold", state, found)
      BY <1>2 DEF Hold
    <2>3. Here.duration \in Nat
      <3>1. Here \in MissionAction /\ Here.type = "hold"
        BY <2>2, SchemaFacts DEF Turn, Here, TypeOK
      <3> QED
        BY <3>1, DataAssumption DEF MissionAction
    <2>4. total_hold' \in Nat
      BY <1>2, <2>3 DEF Hold, TypeOK
    <2> HIDE DEF found
    <2> QED
      BY <1>2, <2>1, <2>2, <2>4, TurnType DEF Hold, TypeOK, FlightStates
  <1>3. CASE Goto
    <2> DEFINE found == When(state # "airborne", <<"state", index + 1>>)
                 \cup When(Here.altitude > MaxAltitude, <<"altitude", index + 1>>)
                 \cup When(Distance(Home, Here.place) > MaxDistance, <<"distance", index + 1>>)
    <2>1. found \in SUBSET (ActionReasons \X {index + 1})
      BY DEF When, ActionReasons
    <2>2. Turn("goto", state, found)
      BY <1>3 DEF Goto
    <2>3. Here.place \in Places
      <3>1. Here \in MissionAction /\ Here.type = "goto"
        BY <2>2, SchemaFacts DEF Turn, Here, TypeOK
      <3> QED
        BY <3>1 DEF MissionAction
    <2>4. Distance(current, Here.place) \in Nat
      BY <2>3, DataAssumption DEF TypeOK
    <2>5. total_distance' \in Nat /\ goto_actions' \in Nat /\ current' \in Places
      BY <1>3, <2>3, <2>4 DEF Goto, TypeOK
    <2> HIDE DEF found
    <2> QED
      BY <1>3, <2>1, <2>2, <2>5, TurnType DEF Goto, TypeOK, FlightStates
  <1>4. CASE ReturnHome
    <2> DEFINE found == When(state # "airborne", <<"state", index + 1>>)
    <2>1. found \in SUBSET (ActionReasons \X {index + 1})
      BY DEF When, ActionReasons
    <2>2. Turn("return_home", "returning", found)
      BY <1>4 DEF ReturnHome
    <2>3. Distance(current, Home) \in Nat
      BY DataAssumption DEF TypeOK
    <2>4. total_distance' \in Nat /\ current' \in Places
      BY <1>4, <2>3, DataAssumption DEF ReturnHome, TypeOK
    <2> HIDE DEF found
    <2> QED
      BY <1>4, <2>1, <2>2, <2>4, TurnType DEF ReturnHome, TypeOK, FlightStates
  <1>5. CASE Land
    <2> DEFINE found == When(state \notin {"airborne", "returning"}, <<"state", index + 1>>)
    <2>1. found \in SUBSET (ActionReasons \X {index + 1})
      BY DEF When, ActionReasons
    <2>2. Turn("land", "landed", found)
      BY <1>5 DEF Land
    <2> HIDE DEF found
    <2> QED
      BY <1>5, <2>1, <2>2, TurnType DEF Land, TypeOK, FlightStates
  <1>6. CASE Conclude
    <2>1. reasons' \subseteq reasons \cup (MissionReasons \X {0})
      BY <1>6 DEF Conclude, When, MissionReasons
    <2> QED
      BY <1>6, <2>1 DEF Conclude, TypeOK, Schema
  <1>7. CASE UNCHANGED vars
    BY <1>7 DEF vars, TypeOK, Schema
  <1> QED
    BY <1>1, <1>2, <1>3, <1>4, <1>5, <1>6, <1>7 DEF Next

LEMMA InitType == Init => TypeOK
  BY MissionsAssumption, DataAssumption, SchemaFacts
     DEF Init, TypeOK, FlightStates, When, MissionReasons, Schema

\* The pass keeps its variables' types: a state of the flight, natural sums, and
\* reasons that name an action of the mission or the mission as a whole.
THEOREM TypeCorrect == Spec => []TypeOK
  BY InitType, StepType, PTL DEF Spec

-----------------------------------------------------------------------------
(* The loop invariant: what the pass knows of the actions behind it, as long *)
(* as it has found no reason to reject.                                      *)

\* The first n actions are a takeoff, then holds and gotos.
Cruise(n) ==
    /\ mission[1].type = "takeoff"
    /\ \A i \in 2..n : mission[i].type \in {"hold", "goto"}

\* What the state says of the order of the actions, those still ahead included.
OrderInv == reasons = {} =>
    /\ state = "disarmed" => index = 0
    /\ state = "airborne" => index >= 1 /\ Cruise(index)
    /\ state = "returning" =>
          /\ index >= 2 /\ Cruise(index - 1)
          /\ mission[index].type = "return_home"
          /\ \A i \in (index + 1)..Len(mission) : mission[i].type = "land"
    /\ state = "landed" =>
          /\ index = Len(mission) /\ index >= 2
          /\ mission[index].type = "land"
          /\ \/ Cruise(index - 1)
             \/ /\ index >= 3 /\ Cruise(index - 2)
                /\ mission[index - 1].type = "return_home"

\* No action behind the loop exceeds a limit, and the mission is not too long.
Within(i) ==
    /\ mission[i].type \in {"takeoff", "goto"} => mission[i].altitude <= MaxAltitude
    /\ mission[i].type = "hold" => mission[i].duration <= MaxHold
    /\ mission[i].type = "goto" => Distance(Home, mission[i].place) <= MaxDistance

LimitsInv == reasons = {} =>
    /\ Len(mission) <= MaxActions
    /\ \A i \in 1..index : Within(i)

\* goto_actions counts the gotos behind the loop.
GotosBefore(n) == {i \in 1..n : mission[i].type = "goto"}
CountInv == goto_actions = Cardinality(GotosBefore(index))

\* What the decision adds.
VerdictInv == verdict = "approved" =>
    /\ reasons = {} /\ index = Len(mission)
    /\ mission[1].type = "takeoff"
    /\ goto_actions <= MaxGotos

LoopInv == TypeOK /\ OrderInv /\ LimitsInv /\ CountInv /\ VerdictInv

\* What any turn that finds nothing has established.
LEMMA CleanTurn ==
    ASSUME LoopInv, NEW type, NEW next, NEW found, Turn(type, next, found), reasons' = {}
    PROVE  /\ reasons = {} /\ found = {} /\ Remaining(next) = {}
           /\ index \in Nat /\ Len(mission) \in Nat /\ index + 1 <= Len(mission)
           /\ mission[index + 1].type = type
           /\ mission' = mission /\ index' = index + 1 /\ state' = next
  <1>1. index \in Nat /\ Len(mission) \in Nat /\ index <= Len(mission)
    BY SchemaFacts DEF LoopInv, TypeOK
  <1> QED
    BY <1>1 DEF Turn, Here

\* Nothing remains after a landing; only lands do after a return home.
LEMMA CleanEnd ==
    ASSUME index \in Nat, Len(mission) \in Nat, index + 1 <= Len(mission)
    PROVE  /\ Remaining("landed") = {} => index + 1 = Len(mission)
           /\ Remaining("returning") = {} =>
                 \A i \in (index + 2)..Len(mission) : mission[i].type = "land"
  <1>1. ASSUME Remaining("landed") = {} PROVE index + 1 = Len(mission)
    <2>1. ((index + 1) + 1)..Len(mission) = {}
      BY <1>1 DEF Remaining, When
    <2> QED
      BY <2>1
  <1>2. ASSUME Remaining("returning") = {}, NEW i \in (index + 2)..Len(mission)
        PROVE  mission[i].type = "land"
    <2>1. ~ \E j \in ((index + 1) + 1)..Len(mission) : mission[j].type # "land"
      BY <1>2 DEF Remaining, When
    <2> QED
      BY <2>1, <1>2
  <1> QED
    BY <1>1, <1>2

\* A hold or a goto keeps the cruise going.
LEMMA CruiseGrows ==
    ASSUME index \in Nat, index >= 1, Cruise(index),
           mission[index + 1].type \in {"hold", "goto"}, mission' = mission,
           index' = index + 1
    PROVE  Cruise(index)'
  <1> SUFFICES ASSUME NEW i \in 2..(index + 1)
               PROVE  mission[i].type \in {"hold", "goto"}
    BY DEF Cruise
  <1>1. CASE i = index + 1
    BY <1>1
  <1>2. CASE i # index + 1
    BY <1>2 DEF Cruise
  <1> QED
    BY <1>1, <1>2

LEMMA StepOrder == LoopInv /\ [Next]_vars => OrderInv'
  <1> SUFFICES ASSUME LoopInv, [Next]_vars, reasons' = {} PROVE OrderInv'
    BY DEF OrderInv
  <1>0. reasons = {} => OrderInv
    BY DEF LoopInv
  <1>1. CASE Takeoff
    <2>1. PICK found : Turn("takeoff", "airborne", found)
                       /\ (found = {} => state = "disarmed")
      BY <1>1 DEF Takeoff, When
    <2>2. index = 0 /\ index' = 1 /\ state' = "airborne" /\ mission' = mission
          /\ mission[1].type = "takeoff"
      BY <2>1, CleanTurn DEF LoopInv, OrderInv
    <2>3. Cruise(index)'
      BY <2>2 DEF Cruise
    <2> QED
      BY <2>2, <2>3 DEF OrderInv
  <1>2. CASE Hold \/ Goto
    <2>1. PICK type, found :
             /\ type \in {"hold", "goto"} /\ Turn(type, state, found)
             /\ found = {} => state = "airborne"
      BY <1>2 DEF Hold, Goto, When
    <2>2. /\ reasons = {} /\ state = "airborne" /\ state' = "airborne"
          /\ index \in Nat /\ index' = index + 1 /\ mission' = mission
          /\ mission[index + 1].type \in {"hold", "goto"}
      BY <2>1, CleanTurn
    <2>3. index >= 1 /\ Cruise(index)
      BY <2>2 DEF LoopInv, OrderInv
    <2>4. Cruise(index)'
      BY <2>2, <2>3, CruiseGrows
    <2> QED
      BY <2>2, <2>3, <2>4 DEF OrderInv
  <1>3. CASE ReturnHome
    <2>1. PICK found : Turn("return_home", "returning", found)
                       /\ (found = {} => state = "airborne")
      BY <1>3 DEF ReturnHome, When
    <2>2. /\ reasons = {} /\ state = "airborne" /\ state' = "returning"
          /\ index \in Nat /\ Len(mission) \in Nat /\ index + 1 <= Len(mission)
          /\ index' = index + 1 /\ mission' = mission
          /\ mission[index + 1].type = "return_home"
          /\ Remaining("returning") = {}
      BY <2>1, CleanTurn
    <2>3. index >= 1 /\ Cruise(index)
      BY <2>2 DEF LoopInv, OrderInv
    <2>4. \A i \in (index + 2)..Len(mission) : mission[i].type = "land"
      BY <2>2, CleanEnd
    <2>5. index' >= 2 /\ Cruise(index - 1)'
      BY <2>2, <2>3 DEF Cruise
    <2>6. \A i \in (index' + 1)..Len(mission') : mission'[i].type = "land"
      BY <2>2, <2>4
    <2> QED
      BY <2>2, <2>5, <2>6 DEF OrderInv
  <1>4. CASE Land
    <2>1. PICK found : Turn("land", "landed", found)
                       /\ (found = {} => state \in {"airborne", "returning"})
      BY <1>4 DEF Land, When
    <2>2. /\ reasons = {} /\ state \in {"airborne", "returning"} /\ state' = "landed"
          /\ index \in Nat /\ Len(mission) \in Nat /\ index + 1 <= Len(mission)
          /\ index' = index + 1 /\ mission' = mission
          /\ mission[index + 1].type = "land"
          /\ Remaining("landed") = {}
      BY <2>1, CleanTurn
    <2>3. index + 1 = Len(mission)
      BY <2>2, CleanEnd
    <2>4. CASE state = "airborne"
      <3>1. index >= 1 /\ Cruise(index)
        BY <2>2, <2>4 DEF LoopInv, OrderInv
      <3>2. index' >= 2 /\ Cruise(index - 1)'
        BY <2>2, <3>1 DEF Cruise
      <3> QED
        BY <2>2, <2>3, <3>2 DEF OrderInv
    <2>5. CASE state = "returning"
      <3>1. index >= 2 /\ Cruise(index - 1) /\ mission[index].type = "return_home"
        BY <2>2, <2>5 DEF LoopInv, OrderInv
      <3>2. index' >= 3 /\ Cruise(index - 2)' /\ mission'[index' - 1].type = "return_home"
        BY <2>2, <3>1 DEF Cruise
      <3> QED
        BY <2>2, <2>3, <3>2 DEF OrderInv
    <2> QED
      BY <2>2, <2>4, <2>5
  <1>5. CASE Conclude
    <2>1. reasons = {} /\ UNCHANGED <<mission, index, state>>
      BY <1>5 DEF Conclude
    <2> QED
      BY <1>0, <2>1 DEF OrderInv, Cruise
  <1>6. CASE UNCHANGED vars
    BY <1>0, <1>6 DEF vars, OrderInv, Cruise
  <1> QED
    BY <1>1, <1>2, <1>3, <1>4, <1>5, <1>6 DEF Next

\* A turn that finds nothing has seen an action within its limits.
LEMMA HereWithin ==
    ASSUME TypeOK, index \in Nat, index + 1 \in 1..Len(mission), mission' = mission,
           \/ Takeoff /\ Here.type = "takeoff" /\ ~(Here.altitude > MaxAltitude)
           \/ Hold /\ Here.type = "hold" /\ ~(Here.duration > MaxHold)
           \/ /\ Goto /\ Here.type = "goto" /\ ~(Here.altitude > MaxAltitude)
              /\ ~(Distance(Home, Here.place) > MaxDistance)
           \/ Here.type \in {"return_home", "land"}
    PROVE  Within(index + 1)
  <1>1. Here \in MissionAction /\ Here = mission[index + 1]
    BY SchemaFacts DEF Here, TypeOK
  <1>2. Here.type \in {"takeoff", "goto"} => Here.altitude \in Nat
    BY <1>1, DataAssumption DEF MissionAction
  <1>3. Here.type = "hold" => Here.duration \in Nat
    BY <1>1, DataAssumption DEF MissionAction
  <1>4. Here.type = "goto" => Distance(Home, Here.place) \in Nat
    BY <1>1, DataAssumption DEF MissionAction
  <1>5. MaxAltitude \in Nat /\ MaxHold \in Nat /\ MaxDistance \in Nat
    BY LimitsAssumption
  <1> QED
    BY <1>1, <1>2, <1>3, <1>4, <1>5 DEF Within

LEMMA StepLimits == LoopInv /\ [Next]_vars => LimitsInv'
  <1> SUFFICES ASSUME LoopInv, [Next]_vars, reasons' = {} PROVE LimitsInv'
    BY DEF LimitsInv
  <1>1. CASE Takeoff \/ Hold \/ Goto \/ ReturnHome \/ Land
    <2>1. PICK type, next, found :
             /\ Turn(type, next, found)
             /\ found = {} =>
                  \/ Takeoff /\ type = "takeoff" /\ ~(Here.altitude > MaxAltitude)
                  \/ Hold /\ type = "hold" /\ ~(Here.duration > MaxHold)
                  \/ /\ Goto /\ type = "goto" /\ ~(Here.altitude > MaxAltitude)
                     /\ ~(Distance(Home, Here.place) > MaxDistance)
                  \/ type \in {"return_home", "land"}
      <3>1. CASE Takeoff
        BY <3>1 DEF Takeoff, When
      <3>2. CASE Hold
        BY <3>2 DEF Hold, When
      <3>3. CASE Goto
        BY <3>3 DEF Goto, When
      <3>4. CASE ReturnHome
        BY <3>4 DEF ReturnHome
      <3>5. CASE Land
        BY <3>5 DEF Land
      <3> QED
        BY <1>1, <3>1, <3>2, <3>3, <3>4, <3>5
    <2>2. /\ reasons = {} /\ found = {} /\ index \in Nat /\ Len(mission) \in Nat
          /\ index + 1 <= Len(mission) /\ index' = index + 1 /\ mission' = mission
          /\ Here.type = type
      BY <2>1, CleanTurn DEF Here
    <2>3. Within(index + 1)
      BY <2>1, <2>2, HereWithin DEF LoopInv
    <2>4. \A i \in 1..index : Within(i)
      BY <2>2 DEF LoopInv, LimitsInv
    <2>5. \A i \in 1..(index + 1) : Within(i)
      BY <2>2, <2>3, <2>4
    <2>6. Len(mission) <= MaxActions
      BY <2>2 DEF LoopInv, LimitsInv
    <2> QED
      BY <2>2, <2>5, <2>6 DEF LimitsInv, Within
  <1>2. CASE Conclude \/ UNCHANGED vars
    <2>1. reasons = {} /\ UNCHANGED <<mission, index>>
      BY <1>2 DEF Conclude, vars
    <2> QED
      BY <2>1 DEF LoopInv, LimitsInv, Within
  <1> QED
    BY <1>1, <1>2 DEF Next

\* One index more adds one goto or none.
LEMMA GotosGrow ==
    ASSUME NEW n \in Nat
    PROVE  /\ mission[n + 1].type = "goto" =>
                 Cardinality(GotosBefore(n + 1)) = Cardinality(GotosBefore(n)) + 1
           /\ mission[n + 1].type # "goto" => GotosBefore(n + 1) = GotosBefore(n)
  <1>1. IsFiniteSet(GotosBefore(n))
    <2>1. IsFiniteSet(1..n)
      BY FS_Interval
    <2> QED
      BY <2>1, FS_Subset DEF GotosBefore
  <1>2. n + 1 \notin GotosBefore(n)
    BY DEF GotosBefore
  <1>3. mission[n + 1].type = "goto" => GotosBefore(n + 1) = GotosBefore(n) \cup {n + 1}
    BY DEF GotosBefore
  <1>4. mission[n + 1].type # "goto" => GotosBefore(n + 1) = GotosBefore(n)
    BY DEF GotosBefore
  <1> QED
    BY <1>1, <1>2, <1>3, <1>4, FS_AddElement

LEMMA StepCount == LoopInv /\ [Next]_vars => CountInv'
  <1> SUFFICES ASSUME LoopInv, [Next]_vars PROVE CountInv'
    OBVIOUS
  <1>0. index \in Nat /\ goto_actions = Cardinality(GotosBefore(index))
    BY SchemaFacts DEF LoopInv, TypeOK, CountInv
  <1>1. CASE Goto
    <2>1. mission[index + 1].type = "goto" /\ mission' = mission /\ index' = index + 1
          /\ goto_actions' = goto_actions + 1
      BY <1>1 DEF Goto, Turn, Here
    <2>2. goto_actions' = Cardinality(GotosBefore(index + 1))
      BY <1>0, <2>1, GotosGrow
    <2> QED
      BY <2>1, <2>2 DEF CountInv, GotosBefore
  <1>2. CASE Takeoff \/ Hold \/ ReturnHome \/ Land
    <2>1. mission[index + 1].type # "goto" /\ mission' = mission /\ index' = index + 1
          /\ goto_actions' = goto_actions
      BY <1>2 DEF Takeoff, Hold, ReturnHome, Land, Turn, Here
    <2>2. goto_actions' = Cardinality(GotosBefore(index + 1))
      BY <1>0, <2>1, GotosGrow
    <2> QED
      BY <2>1, <2>2 DEF CountInv, GotosBefore
  <1>3. CASE Conclude \/ UNCHANGED vars
    BY <1>0, <1>3 DEF Conclude, vars, CountInv, GotosBefore
  <1> QED
    BY <1>1, <1>2, <1>3 DEF Next

LEMMA StepVerdict == LoopInv /\ [Next]_vars => VerdictInv'
  <1> SUFFICES ASSUME LoopInv, [Next]_vars, verdict' = "approved" PROVE VerdictInv'
    BY DEF VerdictInv
  <1>1. CASE Conclude
    <2>1. reasons' = {} /\ index = Len(mission)
          /\ UNCHANGED <<mission, index, goto_actions>>
      BY <1>1 DEF Conclude
    <2>2. ~(goto_actions > MaxGotos) /\ mission[1].type = "takeoff"
      BY <1>1, <2>1 DEF Conclude, When
    <2>3. goto_actions \in Nat /\ MaxGotos \in Nat
      BY LimitsAssumption DEF LoopInv, TypeOK
    <2> QED
      BY <2>1, <2>2, <2>3 DEF VerdictInv
  <1>2. CASE Takeoff \/ Hold \/ Goto \/ ReturnHome \/ Land
    BY <1>2 DEF Takeoff, Hold, Goto, ReturnHome, Land, Turn
  <1>3. CASE UNCHANGED vars
    BY <1>3 DEF vars, LoopInv, VerdictInv
  <1> QED
    BY <1>1, <1>2, <1>3 DEF Next

LEMMA InitLoop == Init => LoopInv
  <1> SUFFICES ASSUME Init PROVE LoopInv
    OBVIOUS
  <1>1. Len(mission) \in Nat
    BY InitType, SchemaFacts DEF TypeOK
  <1>2. OrderInv /\ VerdictInv
    BY DEF Init, OrderInv, VerdictInv
  <1>3. LimitsInv
    <2>0. MaxActions \in Nat
      BY LimitsAssumption
    <2>1. ASSUME reasons = {} PROVE Len(mission) <= MaxActions
      <3>1. ~(Len(mission) > MaxActions)
        BY <2>1 DEF Init, When
      <3> QED
        BY <1>1, <2>0, <3>1
    <2> QED
      BY <2>1 DEF Init, LimitsInv
  <1>4. CountInv
    <2>1. GotosBefore(0) = {}
      BY DEF GotosBefore
    <2> QED
      BY <2>1, FS_EmptySet DEF Init, CountInv
  <1> QED
    BY <1>2, <1>3, <1>4, InitType DEF LoopInv

LEMMA StepLoop == LoopInv /\ [Next]_vars => LoopInv'
  BY StepType, StepOrder, StepLimits, StepCount, StepVerdict DEF LoopInv

LEMMA LoopInvariant == Spec => []LoopInv
  BY InitLoop, StepLoop, PTL DEF Spec

-----------------------------------------------------------------------------
(* What an approval promises. *)

\* How an approved mission ends: the schema excludes that it is still in the air.
LEMMA ApprovedOrder ==
    ASSUME LoopInv, verdict = "approved"
    PROVE  /\ Len(mission) \in Nat /\ Len(mission) >= 2
           /\ \A i \in 1..Len(mission) : Within(i)
           /\ \/ /\ Cruise(Len(mission) - 1)
                 /\ mission[Len(mission)].type \in {"return_home", "land"}
              \/ /\ Len(mission) >= 3 /\ Cruise(Len(mission) - 2)
                 /\ mission[Len(mission) - 1].type = "return_home"
                 /\ mission[Len(mission)].type = "land"
  <1>1. reasons = {} /\ index = Len(mission)
    BY DEF LoopInv, VerdictInv
  <1>2. /\ Len(mission) \in Nat /\ Len(mission) >= 1
        /\ mission[Len(mission)].type \in {"return_home", "land"}
    BY SchemaFacts DEF LoopInv, TypeOK
  <1>3. \A i \in 1..Len(mission) : Within(i)
    BY <1>1 DEF LoopInv, LimitsInv
  <1>4. state # "disarmed"
    BY <1>1, <1>2 DEF LoopInv, OrderInv
  <1>5. state # "airborne"
    BY <1>1, <1>2 DEF LoopInv, OrderInv, Cruise
  <1>6. CASE state = "returning"
    BY <1>1, <1>2, <1>3, <1>6 DEF LoopInv, OrderInv
  <1>7. CASE state = "landed"
    BY <1>1, <1>2, <1>3, <1>7 DEF LoopInv, OrderInv
  <1> QED
    BY <1>4, <1>5, <1>6, <1>7 DEF LoopInv, TypeOK, FlightStates

\* PolicyEngine.evaluate approves only missions with one takeoff, first, and one
\* ending, last, within the limits of each action and the number of actions.
THEOREM ApprovedMissionsAreSafe == Spec => []ApprovedIsSafe
  <1>1. ASSUME LoopInv, verdict = "approved" PROVE SafeOrder /\ SafeActions /\ SafeCounts
    <2>1. Len(mission) \in Nat /\ DOMAIN mission = 1..Len(mission)
      BY <1>1, SchemaFacts DEF LoopInv, TypeOK
    <2>2. \A i \in DOMAIN mission : Within(i)
      BY <1>1, <2>1, ApprovedOrder
    <2>3. SafeActions
      BY <2>2 DEF SafeActions, Indices, Within
    <2>4. SafeOrder
      <3>1. CASE /\ Len(mission) >= 2 /\ Cruise(Len(mission) - 1)
                 /\ mission[Len(mission)].type \in {"return_home", "land"}
        BY <2>1, <3>1 DEF SafeOrder, Indices, Cruise
      <3>2. CASE /\ Len(mission) >= 3 /\ Cruise(Len(mission) - 2)
                 /\ mission[Len(mission) - 1].type = "return_home"
                 /\ mission[Len(mission)].type = "land"
        BY <2>1, <3>2 DEF SafeOrder, Indices, Cruise
      <3> QED
        BY <1>1, <3>1, <3>2, ApprovedOrder
    <2>5. SafeCounts
      <3>1. reasons = {} /\ index = Len(mission) /\ goto_actions <= MaxGotos
        BY <1>1 DEF LoopInv, VerdictInv
      <3>2. Len(mission) <= MaxActions
        BY <1>1, <3>1 DEF LoopInv, LimitsInv
      <3>3. GotosBefore(index) = Indices("goto")
        BY <2>1, <3>1 DEF GotosBefore, Indices
      <3> QED
        BY <1>1, <3>1, <3>2, <3>3 DEF SafeCounts, LoopInv, CountInv
    <2> QED
      BY <2>3, <2>4, <2>5
  <1>2. LoopInv => ApprovedIsSafe
    BY <1>1 DEF ApprovedIsSafe
  <1> QED
    BY <1>2, LoopInvariant, PTL

\* An approved mission the MAVSDK executor supports is a takeoff, holds and a land:
\* what ApprovedAssumption of MavsdkExecutor asks of the policy engine.
THEOREM ApprovedFitsExecutor == Spec => []ApprovedForExecutor
  <1>1. ASSUME LoopInv, verdict = "approved", Supported(Types(mission))
        PROVE  TakeoffHoldLand(Types(mission))
    <2>1. mission \in Seq(MissionAction) /\ DOMAIN mission = 1..Len(mission)
      BY <1>1, SchemaFacts DEF LoopInv, TypeOK
    <2>2. Len(mission) \in Nat /\ Len(mission) >= 2
      BY <1>1, ApprovedOrder
    <2>3. \A i \in 1..Len(mission) :
             /\ Types(mission)[i] = mission[i].type
             /\ mission[i].type \in {"takeoff", "hold", "land"}
      BY <1>1, <2>1 DEF Supported, Types
    <2>4. Len(Types(mission)) = Len(mission)
      BY <2>1, <2>2 DEF Types
    <2>5. mission[Len(mission) - 1].type # "return_home"
      BY <2>2, <2>3
    <2>6. /\ Cruise(Len(mission) - 1)
          /\ mission[Len(mission)].type \in {"return_home", "land"}
      BY <1>1, <2>5, ApprovedOrder
    <2>7. mission[1].type = "takeoff" /\ mission[Len(mission)].type = "land"
      BY <2>2, <2>3, <2>6 DEF Cruise
    <2>8. \A i \in 2..(Len(mission) - 1) : mission[i].type = "hold"
      BY <2>2, <2>3, <2>6 DEF Cruise
    <2> QED
      BY <2>2, <2>3, <2>4, <2>7, <2>8 DEF TakeoffHoldLand
  <1>2. LoopInv => ApprovedForExecutor
    BY <1>1 DEF ApprovedForExecutor
  <1> QED
    BY <1>2, LoopInvariant, PTL

-----------------------------------------------------------------------------
(* The sums of the pass are those of the flight behind it.                   *)

HoldsBefore(n) == {i \in 1..n : mission[i].type = "hold"}
MovesBefore(n) == {j \in 1..n : mission[j].type \in {"goto", "return_home"}}

SumsInv ==
    /\ total_hold = SumFunctionOnSet(HoldTimes, HoldsBefore(index))
    /\ total_distance = SumFunctionOnSet(Legs, 1..index)
    /\ current = PlaceAfter(index)

\* One index more adds one hold or none.
LEMMA HoldsGrow ==
    ASSUME NEW n \in Nat
    PROVE  /\ mission[n + 1].type = "hold" => HoldsBefore(n + 1) = HoldsBefore(n) \cup {n + 1}
           /\ mission[n + 1].type # "hold" => HoldsBefore(n + 1) = HoldsBefore(n)
           /\ n + 1 \notin HoldsBefore(n)
           /\ IsFiniteSet(HoldsBefore(n))
  <1>1. IsFiniteSet(1..n)
    BY FS_Interval
  <1>2. IsFiniteSet(HoldsBefore(n))
    BY <1>1, FS_Subset DEF HoldsBefore
  <1> QED
    BY <1>2 DEF HoldsBefore

\* Where the vehicle is after one action more.
LEMMA PlaceGrows ==
    ASSUME NEW n \in Nat
    PROVE  /\ mission[n + 1].type = "goto" => PlaceAfter(n + 1) = mission[n + 1].place
           /\ mission[n + 1].type = "return_home" => PlaceAfter(n + 1) = Home
           /\ mission[n + 1].type \notin {"goto", "return_home"} =>
                 PlaceAfter(n + 1) = PlaceAfter(n)
           /\ PlaceAfter(0) = Home
  <1>1. ASSUME mission[n + 1].type \in {"goto", "return_home"}
        PROVE  MovesBefore(n + 1) # {} /\ Max(MovesBefore(n + 1)) = n + 1
    <2>1. n + 1 \in MovesBefore(n + 1) /\ \A x \in MovesBefore(n + 1) : n + 1 >= x
      BY <1>1 DEF MovesBefore
    <2>2. \A m \in MovesBefore(n + 1) :
             (\A x \in MovesBefore(n + 1) : m >= x) => m = n + 1
      BY <2>1 DEF MovesBefore
    <2> QED
      BY <2>1, <2>2 DEF Max
  <1>2. mission[n + 1].type \notin {"goto", "return_home"} =>
           MovesBefore(n + 1) = MovesBefore(n)
    BY DEF MovesBefore
  <1>3. MovesBefore(0) = {}
    BY DEF MovesBefore
  <1>4. \A k \in Nat : PlaceAfter(k) =
           IF MovesBefore(k) = {} \/ mission[Max(MovesBefore(k))].type = "return_home"
           THEN Home ELSE mission[Max(MovesBefore(k))].place
    BY DEF PlaceAfter, MovesBefore
  <1> QED
    BY <1>1, <1>2, <1>3, <1>4

\* The vehicle is always somewhere.
LEMMA PlaceType ==
    ASSUME TypeOK, NEW n \in 0..Len(mission)
    PROVE  PlaceAfter(n) \in Places
  <1> DEFINE M == MovesBefore(n)
  <1>1. Home \in Places
    BY DataAssumption
  <1>2. Len(mission) \in Nat /\ \A i \in 1..Len(mission) : mission[i] \in MissionAction
    BY SchemaFacts DEF TypeOK
  <1>3. M \subseteq 1..n /\ 1..n \subseteq 1..Len(mission) /\ M \subseteq Nat
    BY <1>2 DEF MovesBefore
  <1>4. IsFiniteSet(M)
    <2>1. IsFiniteSet(1..n)
      BY FS_Interval
    <2> QED
      BY <1>3, <2>1, FS_Subset
  <1>5. CASE M = {}
    BY <1>1, <1>5 DEF PlaceAfter, MovesBefore
  <1>6. CASE M # {}
    <2>1. Max(M) \in M
      <3> HIDE DEF M
      <3> QED
        BY <1>3, <1>4, <1>6, MaxIsLargest
    <2>2. mission[Max(M)] \in MissionAction
          /\ mission[Max(M)].type \in {"goto", "return_home"}
      BY <1>2, <1>3, <2>1 DEF MovesBefore
    <2>3. mission[Max(M)].type = "goto" => mission[Max(M)].place \in Places
      BY <2>2 DEF MissionAction
    <2>4. PlaceAfter(n) = IF M = {} \/ mission[Max(M)].type = "return_home"
                          THEN Home ELSE mission[Max(M)].place
      BY DEF PlaceAfter, MovesBefore
    <2> HIDE DEF M
    <2> QED
      BY <1>1, <2>2, <2>3, <2>4
  <1> QED
    BY <1>5, <1>6

\* The data that is added up are naturals.
LEMMA DataTypes ==
    ASSUME TypeOK
    PROVE  /\ \A i \in 1..Len(mission) : Legs[i] \in Nat
           /\ \A i \in HoldsBefore(Len(mission)) : HoldTimes[i] \in Nat
           /\ HoldsBefore(Len(mission)) = Indices("hold")
           /\ DOMAIN Legs = 1..Len(mission)
  <1>1. /\ Len(mission) \in Nat /\ DOMAIN mission = 1..Len(mission)
        /\ \A i \in 1..Len(mission) : mission[i] \in MissionAction
    BY SchemaFacts DEF TypeOK
  <1>2. HoldsBefore(Len(mission)) = Indices("hold")
    BY <1>1 DEF HoldsBefore, Indices
  <1>3. ASSUME NEW i \in 1..Len(mission) PROVE Legs[i] \in Nat
    <2>1. i - 1 \in 0..Len(mission) /\ i \in 0..Len(mission)
      BY <1>1
    <2>2. PlaceAfter(i - 1) \in Places /\ PlaceAfter(i) \in Places
      BY <2>1, PlaceType
    <2> QED
      BY <1>1, <2>2, DataAssumption DEF Legs
  <1>4. ASSUME NEW i \in HoldsBefore(Len(mission)) PROVE HoldTimes[i] \in Nat
    <2>1. mission[i] \in MissionAction /\ mission[i].type = "hold"
      BY <1>1, <1>4 DEF HoldsBefore
    <2>2. mission[i].duration \in Nat
      BY <2>1, DataAssumption DEF MissionAction
    <2> QED
      BY <1>2, <1>4, <2>2 DEF HoldTimes
  <1> QED
    BY <1>1, <1>2, <1>3, <1>4 DEF Legs

\* Only the index moves: the data stays what it is.
LEMMA SameMission ==
    ASSUME mission' = mission
    PROVE  /\ HoldTimes' = HoldTimes /\ Legs' = Legs
           /\ HoldsBefore(index)' = HoldsBefore(index')
           /\ PlaceAfter(index)' = PlaceAfter(index')
  <1>1. HoldTimes' = HoldTimes
    BY DEF HoldTimes, Indices
  <1>2. Legs' = Legs
    BY DEF Legs, PlaceAfter
  <1>3. HoldsBefore(index)' = HoldsBefore(index')
    BY DEF HoldsBefore
  <1>4. PlaceAfter(index)' = PlaceAfter(index')
    BY DEF PlaceAfter
  <1> QED
    BY <1>1, <1>2, <1>3, <1>4

\* What a turn adds to either sum.
LEMMA SumsGrow ==
    ASSUME TypeOK, index < Len(mission)
    PROVE  /\ mission[index + 1].type = "hold" =>
                 SumFunctionOnSet(HoldTimes, HoldsBefore(index + 1))
                   = SumFunctionOnSet(HoldTimes, HoldsBefore(index)) + mission[index + 1].duration
           /\ SumFunctionOnSet(Legs, 1..(index + 1))
                = SumFunctionOnSet(Legs, 1..index)
                    + Distance(PlaceAfter(index), PlaceAfter(index + 1))
  <1>1. /\ index \in Nat /\ Len(mission) \in Nat /\ index + 1 \in 1..Len(mission)
        /\ DOMAIN mission = 1..Len(mission)
    BY SchemaFacts DEF TypeOK
  <1>2. ASSUME mission[index + 1].type = "hold"
        PROVE  SumFunctionOnSet(HoldTimes, HoldsBefore(index + 1))
                 = SumFunctionOnSet(HoldTimes, HoldsBefore(index)) + mission[index + 1].duration
    <2> DEFINE H == HoldsBefore(index + 1)
    <2>0. index + 1 \in Nat
      BY <1>1
    <2>1. /\ H = HoldsBefore(index) \cup {index + 1} /\ index + 1 \notin HoldsBefore(index)
          /\ IsFiniteSet(H)
      BY <1>1, <1>2, <2>0, HoldsGrow
    <2>2. H \ {index + 1} = HoldsBefore(index) /\ index + 1 \in H
      BY <2>1
    <2>3. H \subseteq HoldsBefore(Len(mission))
      BY <1>1 DEF HoldsBefore
    <2>4. \A x \in H : HoldTimes[x] \in Nat
      BY <2>3, DataTypes
    <2>5. HoldTimes[index + 1] = mission[index + 1].duration
      BY <1>1, <1>2 DEF HoldTimes, Indices
    <2>6. IsFiniteSet(HoldsBefore(index)) /\ \A x \in HoldsBefore(index) : HoldTimes[x] \in Nat
      BY <1>1, <2>1, <2>4, HoldsGrow
    <2> HIDE DEF H
    <2>7. SumFunctionOnSet(HoldTimes, H)
            = HoldTimes[index + 1] + SumFunctionOnSet(HoldTimes, H \ {index + 1})
      BY <2>1, <2>2, <2>4, SumTakeOut
    <2>8. SumFunctionOnSet(HoldTimes, HoldsBefore(index)) \in Nat
      BY <2>6, SumType
    <2>9. HoldTimes[index + 1] \in Nat
      BY <2>2, <2>4
    <2>10. SumFunctionOnSet(HoldTimes, H)
             = HoldTimes[index + 1] + SumFunctionOnSet(HoldTimes, HoldsBefore(index))
      BY <2>2, <2>7, Zenon
    <2>11. SumFunctionOnSet(HoldTimes, H)
             = SumFunctionOnSet(HoldTimes, HoldsBefore(index)) + HoldTimes[index + 1]
      BY <2>8, <2>9, <2>10
    <2> QED
      BY <2>5, <2>11, Zenon DEF H
  <1>3. SumFunctionOnSet(Legs, 1..(index + 1))
          = SumFunctionOnSet(Legs, 1..index) + Distance(PlaceAfter(index), PlaceAfter(index + 1))
    <2> DEFINE L == 1..(index + 1)
    <2>1. L \ {index + 1} = 1..index /\ index + 1 \in L
      BY <1>1
    <2>2. IsFiniteSet(L) /\ IsFiniteSet(1..index)
      BY <1>1, FS_Interval
    <2>3. (\A x \in L : Legs[x] \in Nat) /\ (\A x \in 1..index : Legs[x] \in Nat)
      BY <1>1, DataTypes
    <2>4. Legs[index + 1] = Distance(PlaceAfter(index), PlaceAfter(index + 1))
      BY <1>1 DEF Legs
    <2> HIDE DEF L
    <2>5. SumFunctionOnSet(Legs, L) = Legs[index + 1] + SumFunctionOnSet(Legs, L \ {index + 1})
      BY <2>1, <2>2, <2>3, SumTakeOut
    <2>6. SumFunctionOnSet(Legs, 1..index) \in Nat
      BY <2>2, <2>3, SumType
    <2>7. Legs[index + 1] \in Nat
      BY <2>1, <2>3
    <2>8. SumFunctionOnSet(Legs, L) = Legs[index + 1] + SumFunctionOnSet(Legs, 1..index)
      BY <2>1, <2>5, Zenon
    <2>9. SumFunctionOnSet(Legs, L) = SumFunctionOnSet(Legs, 1..index) + Legs[index + 1]
      BY <2>6, <2>7, <2>8
    <2> QED
      BY <2>4, <2>9, Zenon DEF L
  <1> QED
    BY <1>2, <1>3

LEMMA StepSums == TypeOK /\ SumsInv /\ [Next]_vars => SumsInv'
  <1> SUFFICES ASSUME TypeOK, SumsInv, [Next]_vars PROVE SumsInv'
    OBVIOUS
  <1>1. CASE Takeoff \/ Hold \/ Goto \/ ReturnHome \/ Land
    <2>1. /\ mission' = mission /\ index' = index + 1 /\ index < Len(mission)
          /\ Here = mission[index + 1]
      BY <1>1 DEF Takeoff, Hold, Goto, ReturnHome, Land, Turn, Here
    <2>2. /\ index \in Nat /\ current \in Places /\ Home \in Places
          /\ PlaceAfter(index) = current
      BY DataAssumption DEF TypeOK, SumsInv
    <2>3. /\ HoldTimes' = HoldTimes /\ Legs' = Legs
          /\ HoldsBefore(index)' = HoldsBefore(index + 1)
          /\ PlaceAfter(index)' = PlaceAfter(index + 1)
      BY <2>1, SameMission
    <2>4. current' = PlaceAfter(index + 1)
          /\ total_distance' = total_distance + Distance(current, PlaceAfter(index + 1))
      <3>1. CASE Takeoff \/ Hold \/ Land
        <4>1. Here.type \notin {"goto", "return_home"} /\ current' = current
              /\ total_distance' = total_distance
          BY <3>1 DEF Takeoff, Hold, Land, Turn
        <4>2. PlaceAfter(index + 1) = current
          BY <2>1, <2>2, <4>1, PlaceGrows
        <4>3. Distance(current, current) = 0 /\ total_distance \in Nat
          BY <2>2, DataAssumption DEF TypeOK
        <4> QED
          BY <4>1, <4>2, <4>3
      <3>2. CASE Goto
        BY <2>1, <2>2, <3>2, PlaceGrows DEF Goto, Turn
      <3>3. CASE ReturnHome
        BY <2>1, <2>2, <3>3, PlaceGrows DEF ReturnHome, Turn
      <3> QED
        BY <1>1, <3>1, <3>2, <3>3
    <2>5. total_hold' = SumFunctionOnSet(HoldTimes, HoldsBefore(index + 1))
      <3>1. CASE Hold
        <4>1. Here.type = "hold" /\ total_hold' = total_hold + Here.duration
          BY <3>1 DEF Hold, Turn
        <4> QED
          BY <2>1, <4>1, SumsGrow DEF SumsInv
      <3>2. CASE Takeoff \/ Goto \/ ReturnHome \/ Land
        <4>1. Here.type # "hold" /\ total_hold' = total_hold
          BY <3>2 DEF Takeoff, Goto, ReturnHome, Land, Turn
        <4>2. HoldsBefore(index + 1) = HoldsBefore(index)
          BY <2>1, <2>2, <4>1, HoldsGrow
        <4> QED
          BY <4>1, <4>2 DEF SumsInv
      <3> QED
        BY <1>1, <3>1, <3>2
    <2>6. total_distance' = SumFunctionOnSet(Legs, 1..(index + 1))
      BY <2>1, <2>2, <2>4, SumsGrow DEF SumsInv
    <2> QED
      BY <2>1, <2>3, <2>4, <2>5, <2>6 DEF SumsInv
  <1>2. CASE Conclude \/ UNCHANGED vars
    <2>1. UNCHANGED <<mission, index, total_hold, total_distance, current>>
      BY <1>2 DEF Conclude, vars
    <2>2. /\ HoldTimes' = HoldTimes /\ Legs' = Legs
          /\ HoldsBefore(index)' = HoldsBefore(index)
          /\ PlaceAfter(index)' = PlaceAfter(index)
      BY <2>1, SameMission
    <2> QED
      BY <2>1, <2>2 DEF SumsInv
  <1> QED
    BY <1>1, <1>2 DEF Next

LEMMA InitSums == Init => SumsInv
  <1> SUFFICES ASSUME Init PROVE SumsInv
    OBVIOUS
  <1>1. HoldsBefore(0) = {} /\ 1..0 = {}
    BY DEF HoldsBefore
  <1>2. PlaceAfter(0) = Home
    BY PlaceGrows
  <1>3. \A f : SumFunctionOnSet(f, {}) = 0
    BY SumEmpty
  <1> QED
    BY <1>1, <1>2, <1>3 DEF Init, SumsInv

\* When the pass is over its sums are those of the whole mission.
LEMMA SumsAtEnd ==
    ASSUME TypeOK, SumsInv, index = Len(mission)
    PROVE  total_hold = SumFunction(HoldTimes) /\ total_distance = SumFunction(Legs)
  <1>1. HoldsBefore(index) = DOMAIN HoldTimes /\ 1..index = DOMAIN Legs
    BY DataTypes DEF HoldTimes
  <1> QED
    BY <1>1 DEF SumsInv, SumFunction

\* The mission the pass approves stays within the budgets of time and distance, the
\* way home included: PolicyEngine.evaluate's running sums are those of the flight.
THEOREM ApprovedMissionsWithinTotals == Spec => []ApprovedWithinTotals
  <1> DEFINE Inv == /\ TypeOK /\ SumsInv
                    /\ verdict = "approved" =>
                         /\ index = Len(mission)
                         /\ total_hold <= MaxTotalHold /\ total_distance <= MaxTotalDistance
  <1>1. Init => Inv
    BY InitType, InitSums DEF Init
  <1>2. Inv /\ [Next]_vars => Inv'
    <2> SUFFICES ASSUME Inv, [Next]_vars PROVE Inv'
      OBVIOUS
    <2>1. TypeOK' /\ SumsInv'
      BY StepType, StepSums
    <2>2. ASSUME verdict' = "approved"
          PROVE  /\ index' = Len(mission')
                 /\ total_hold' <= MaxTotalHold /\ total_distance' <= MaxTotalDistance
      <3>1. CASE Conclude
        <4>1. /\ reasons' = {} /\ index = Len(mission)
              /\ UNCHANGED <<mission, index, total_hold, total_distance>>
          BY <2>2, <3>1 DEF Conclude
        <4>2. ~(total_hold > MaxTotalHold) /\ ~(total_distance > MaxTotalDistance)
          BY <3>1, <4>1 DEF Conclude, When
        <4>3. {total_hold, total_distance, MaxTotalHold, MaxTotalDistance} \subseteq Nat
          BY LimitsAssumption DEF TypeOK
        <4> QED
          BY <4>1, <4>2, <4>3
      <3>2. CASE Takeoff \/ Hold \/ Goto \/ ReturnHome \/ Land
        BY <2>2, <3>2 DEF Takeoff, Hold, Goto, ReturnHome, Land, Turn
      <3>3. CASE UNCHANGED vars
        BY <2>2, <3>3 DEF vars
      <3> QED
        BY <3>1, <3>2, <3>3 DEF Next
    <2> QED
      BY <2>1, <2>2
  <1>3. Inv => ApprovedWithinTotals
    BY SumsAtEnd DEF ApprovedWithinTotals, SafeTotals
  <1> QED
    BY <1>1, <1>2, <1>3, PTL DEF Spec

-----------------------------------------------------------------------------
(* The other direction: the pass finds no reason to reject a safe mission.   *)

Safe == SafeOrder /\ SafeActions /\ SafeCounts /\ SafeTotals

\* On a safe mission the state is that of the action just passed, and no reason
\* has been found.
SafeInv == Safe =>
    /\ reasons = {} /\ verdict # "rejected"
    /\ index = 0 => state = "disarmed"
    /\ index >= 1 =>
         /\ mission[index].type \in {"takeoff", "hold", "goto"} => state = "airborne"
         /\ mission[index].type = "return_home" => state = "returning"
         /\ mission[index].type = "land" => state = "landed"

\* Whether a mission is safe does not change during the pass.
LEMMA SafeStays == ASSUME mission' = mission PROVE Safe' = Safe
  <1>1. SafeOrder' = SafeOrder /\ SafeActions' = SafeActions
    BY DEF SafeOrder, SafeActions, Indices
  <1>2. SafeCounts' = SafeCounts
    BY DEF SafeCounts, Indices
  <1>3. SafeTotals' = SafeTotals
    BY SameMission DEF SafeTotals
  <1> QED
    BY <1>1, <1>2, <1>3 DEF Safe

\* What a safe order says of the next action of the pass, given the last one.
LEMMA SafeHere ==
    ASSUME TypeOK, SafeInv, Safe, index < Len(mission)
    PROVE  /\ Here.type = "takeoff" => state = "disarmed"
           /\ Here.type \in {"hold", "goto", "return_home"} => state = "airborne"
           /\ Here.type = "land" => state \in {"airborne", "returning"}
           /\ Here.type = "land" => Remaining("landed") = {}
           /\ Here.type = "return_home" => Remaining("returning") = {}
           /\ Here.type \in {"takeoff", "hold", "goto"} => Remaining("airborne") = {}
  <1>0. index \in Nat /\ Len(mission) \in Nat /\ index + 1 <= Len(mission)
    BY SchemaFacts DEF TypeOK
  <1>1. DOMAIN mission = 1..Len(mission) /\ Here = mission[index + 1]
    BY SchemaFacts DEF TypeOK, Here
  <1>2. /\ \A i \in 1..Len(mission) : mission[i].type = "takeoff" <=> i = 1
        /\ \A i \in 1..Len(mission) : mission[i].type = "land" => i = Len(mission)
        /\ \A i \in 1..Len(mission) : mission[i].type = "return_home" =>
              i = Len(mission) \/ (i = Len(mission) - 1 /\ mission[i + 1].type = "land")
    BY <1>1 DEF Safe, SafeOrder, Indices
  <1>3. \A i \in 1..Len(mission) :
           mission[i].type \in {"takeoff", "hold", "goto", "return_home", "land"}
    BY SchemaFacts DEF TypeOK, MissionAction
  <1>4. ASSUME index >= 1
        PROVE  /\ mission[index].type \in {"takeoff", "hold", "goto", "return_home"}
               /\ mission[index].type = "return_home" => Here.type = "land"
    <2>1. index \in 1..Len(mission) /\ index # Len(mission)
      BY <1>0, <1>4
    <2>2. mission[index].type # "land"
      BY <1>0, <1>2, <2>1
    <2>3. mission[index].type = "return_home" => mission[index + 1].type = "land"
      BY <1>0, <1>2, <2>1
    <2> QED
      BY <1>1, <1>3, <2>1, <2>2, <2>3
  <1>5. /\ Here.type = "takeoff" <=> index = 0
        /\ Here.type = "land" => index + 1 = Len(mission)
        /\ Here.type = "return_home" =>
              \/ index + 1 = Len(mission)
              \/ index + 1 = Len(mission) - 1 /\ mission[(index + 1) + 1].type = "land"
    <2>1. index + 1 \in 1..Len(mission)
      BY <1>0
    <2>2. /\ Here.type = "takeoff" <=> index + 1 = 1
          /\ Here.type = "land" => index + 1 = Len(mission)
          /\ Here.type = "return_home" =>
                \/ index + 1 = Len(mission)
                \/ index + 1 = Len(mission) - 1 /\ mission[(index + 1) + 1].type = "land"
      BY <1>1, <1>2, <2>1, Zenon
    <2> QED
      BY <1>0, <2>2
  <1>6. /\ Here.type = "takeoff" => state = "disarmed"
        /\ Here.type \in {"hold", "goto", "return_home"} => state = "airborne"
        /\ Here.type = "land" => state \in {"airborne", "returning"}
    <2>1. CASE index = 0
      BY <1>1, <1>5, <2>1 DEF SafeInv
    <2>2. CASE index >= 1
      BY <1>1, <1>4, <1>5, <2>2 DEF SafeInv
    <2> QED
      BY <1>0, <2>1, <2>2
  <1>7. ASSUME Here.type = "land" PROVE Remaining("landed") = {}
    <2>1. ((index + 1) + 1)..Len(mission) = {}
      BY <1>0, <1>5, <1>7
    <2> QED
      BY <2>1 DEF Remaining, When
  <1>8. ASSUME Here.type = "return_home" PROVE Remaining("returning") = {}
    <2>1. ASSUME NEW i \in ((index + 1) + 1)..Len(mission) PROVE mission[i].type = "land"
      <3>1. i = (index + 1) + 1 /\ index + 1 # Len(mission)
        BY <1>0, <1>5, <1>8
      <3> QED
        BY <1>5, <1>8, <3>1, Zenon
    <2> QED
      BY <2>1 DEF Remaining, When
  <1>9. Remaining("airborne") = {}
    BY DEF Remaining, When
  <1> QED
    BY <1>6, <1>7, <1>8, <1>9

\* A turn on a safe mission finds nothing.
LEMMA SafeTurn ==
    ASSUME TypeOK, SafeInv, Safe, index < Len(mission)
    PROVE  /\ Here.type \in {"takeoff", "goto"} => ~(Here.altitude > MaxAltitude)
           /\ Here.type = "hold" => ~(Here.duration > MaxHold)
           /\ Here.type = "goto" => ~(Distance(Home, Here.place) > MaxDistance)
  <1>1. /\ index + 1 \in DOMAIN mission /\ Here = mission[index + 1]
        /\ Here \in MissionAction
    BY SchemaFacts DEF TypeOK, Here
  <1>2. /\ Here.type \in {"takeoff", "goto"} => Here.altitude <= MaxAltitude
        /\ Here.type = "hold" => Here.duration <= MaxHold
        /\ Here.type = "goto" => Distance(Home, Here.place) <= MaxDistance
    BY <1>1 DEF Safe, SafeActions, Indices
  <1>3. /\ Here.type \in {"takeoff", "goto"} => Here.altitude \in Nat
        /\ Here.type = "hold" => Here.duration \in Nat
        /\ Here.type = "goto" => Distance(Home, Here.place) \in Nat
    BY <1>1, DataAssumption DEF MissionAction
  <1> QED
    BY <1>2, <1>3, LimitsAssumption

LEMMA StepSafe == TypeOK /\ SumsInv /\ CountInv /\ SafeInv /\ [Next]_vars => SafeInv'
  <1> SUFFICES ASSUME TypeOK, SumsInv, CountInv, SafeInv, [Next]_vars, Safe'
               PROVE  SafeInv'
    BY DEF SafeInv
  <1>1. mission' = mission
    BY DEF Next, Takeoff, Hold, Goto, ReturnHome, Land, Turn, Conclude, vars
  <1>2. Safe
    BY <1>1, SafeStays
  <1>3. reasons = {} /\ verdict # "rejected"
    BY <1>2 DEF SafeInv
  <1>4. CASE Takeoff \/ Hold \/ Goto \/ ReturnHome \/ Land
    <2>1. /\ index < Len(mission) /\ index \in Nat /\ index' = index + 1
          /\ verdict' = verdict /\ Here = mission[index + 1]
      BY <1>4 DEF Takeoff, Hold, Goto, ReturnHome, Land, Turn, Here, TypeOK
    <2>2. /\ reasons' = {}
          /\ Here.type \in {"takeoff", "hold", "goto"} => state' = "airborne"
          /\ Here.type = "return_home" => state' = "returning"
          /\ Here.type = "land" => state' = "landed"
      <3>1. CASE Takeoff
        <4>1. Here.type = "takeoff" /\ state' = "airborne"
          BY <3>1 DEF Takeoff, Turn
        <4>2. reasons' = {}
          BY <1>2, <1>3, <2>1, <3>1, <4>1, SafeHere, SafeTurn DEF Takeoff, Turn, When
        <4> QED
          BY <4>1, <4>2
      <3>2. CASE Hold
        <4>1. Here.type = "hold" /\ state' = state /\ state = "airborne"
          BY <1>2, <2>1, <3>2, SafeHere DEF Hold, Turn
        <4>2. reasons' = {}
          BY <1>2, <1>3, <2>1, <3>2, <4>1, SafeHere, SafeTurn DEF Hold, Turn, When
        <4> QED
          BY <4>1, <4>2
      <3>3. CASE Goto
        <4>1. Here.type = "goto" /\ state' = state /\ state = "airborne"
          BY <1>2, <2>1, <3>3, SafeHere DEF Goto, Turn
        <4>2. reasons' = {}
          BY <1>2, <1>3, <2>1, <3>3, <4>1, SafeHere, SafeTurn DEF Goto, Turn, When
        <4> QED
          BY <4>1, <4>2
      <3>4. CASE ReturnHome
        <4>1. Here.type = "return_home" /\ state' = "returning"
          BY <3>4 DEF ReturnHome, Turn
        <4>2. reasons' = {}
          BY <1>2, <1>3, <2>1, <3>4, <4>1, SafeHere DEF ReturnHome, Turn, When
        <4> QED
          BY <4>1, <4>2
      <3>5. CASE Land
        <4>1. Here.type = "land" /\ state' = "landed"
          BY <3>5 DEF Land, Turn
        <4>2. reasons' = {}
          BY <1>2, <1>3, <2>1, <3>5, <4>1, SafeHere DEF Land, Turn, When
        <4> QED
          BY <4>1, <4>2
      <3> QED
        BY <1>4, <3>1, <3>2, <3>3, <3>4, <3>5
    <2> QED
      BY <1>1, <1>3, <2>1, <2>2 DEF SafeInv
  <1>5. CASE Conclude
    <2>1. /\ index = Len(mission) /\ Len(mission) \in Nat /\ Len(mission) >= 1
          /\ DOMAIN mission = 1..Len(mission)
      BY <1>5, SchemaFacts DEF Conclude, TypeOK
    <2>2. ~(total_hold > MaxTotalHold) /\ ~(total_distance > MaxTotalDistance)
      <3>1. total_hold <= MaxTotalHold /\ total_distance <= MaxTotalDistance
        BY <1>2, <2>1, SumsAtEnd DEF Safe, SafeTotals
      <3> QED
        BY <3>1, LimitsAssumption DEF TypeOK
    <2>3. ~(goto_actions > MaxGotos)
      <3>1. GotosBefore(index) = Indices("goto")
        BY <2>1 DEF GotosBefore, Indices
      <3>2. goto_actions <= MaxGotos
        BY <1>2, <3>1 DEF Safe, SafeCounts, CountInv
      <3> QED
        BY <3>2, LimitsAssumption DEF TypeOK
    <2>4. mission[1].type = "takeoff"
      BY <1>2 DEF Safe, SafeOrder, Indices
    <2>5. reasons' = {} /\ verdict' = "approved" /\ UNCHANGED <<index, state>>
      BY <1>3, <1>5, <2>2, <2>3, <2>4 DEF Conclude, When
    <2> QED
      BY <1>1, <1>2, <2>5 DEF SafeInv
  <1>6. CASE UNCHANGED vars
    BY <1>2, <1>6 DEF vars, SafeInv
  <1> QED
    BY <1>4, <1>5, <1>6 DEF Next

\* PolicyEngine.evaluate rejects no mission without a reason: one that is in order,
\* within the limit of every action, of the counts and of the sums, is approved.
THEOREM SafeMissionsAreApproved == Spec => []SafeIsApproved
  <1>1. Init => SafeInv
    <2> SUFFICES ASSUME Init, Safe PROVE SafeInv
      BY DEF SafeInv
    <2>1. ~(Len(mission) > MaxActions)
      <3>1. Len(mission) \in Nat /\ Len(mission) <= MaxActions
        BY InitType, SchemaFacts DEF TypeOK, Safe, SafeCounts
      <3> QED
        BY <3>1, LimitsAssumption
    <2> QED
      BY <2>1 DEF Init, When, SafeInv
  <1>2. SafeInv => SafeIsApproved
    BY DEF SafeInv, Safe, SafeIsApproved
  <1>3. TypeOK /\ SumsInv /\ LoopInv /\ SafeInv /\ [Next]_vars => SafeInv'
    BY StepSafe DEF LoopInv
  <1>4. LoopInv => TypeOK
    BY DEF LoopInv
  <1> QED
    BY <1>1, <1>2, <1>3, <1>4, InitLoop, StepLoop, InitSums, StepSums, PTL DEF Spec

=============================================================================
