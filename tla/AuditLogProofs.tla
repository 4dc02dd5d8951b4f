---------------------------- MODULE AuditLogProofs ----------------------------
(* What an audit file keeps, for any runs of its mission. *)
EXTENDS AuditLog, TLAPS

LEMMA AppendFacts ==
  ASSUME NEW S, NEW s \in Seq(S), NEW e \in S
  PROVE  /\ Append(s, e) \in Seq(S)
         /\ Len(Append(s, e)) = Len(s) + 1
         /\ DOMAIN Append(s, e) = 1..(Len(s) + 1) /\ DOMAIN s = 1..Len(s) /\ Len(s) \in Nat
         /\ \A i \in 1..Len(s) : Append(s, e)[i] = s[i]
         /\ Append(s, e)[Len(s) + 1] = e
  OBVIOUS

LEMMA EntriesArePieces ==
  ASSUME NEW r \in Runs, NEW n \in Numbers(r)
  PROVE  /\ Record(r, n) \in Entries
         /\ {Line(Record(r, n)), Bare(Record(r, n)), Half(Record(r, n))} \subseteq Pieces
  <1>1. Record(r, n) \in [run : {r}, number : Numbers(r)]
    BY DEF Record
  <1>2. Record(r, n) \in Entries
    BY <1>1 DEF Entries
  <1> QED
    BY <1>2 DEF Pieces

LEMMA LineFacts ==
  \A e : /\ Line(e).whole = TRUE /\ Line(e).newline = TRUE
        /\ Line(e).record = e
  BY DEF Line

(* What a step does to the file: it stays, comes into being, or gains a piece. *)
Grows == /\ file'.exists \in BOOLEAN
         /\ file' = [exists |-> file'.exists, text |-> file'.text]
         /\ \/ file'.text = file.text
            \/ \E q \in Pieces : file'.text = Append(file.text, q)

LEMMA WriteGrows ==
  ASSUME TypeOK, NEW r \in Runs, NEW n \in Numbers(r), Write(r, n)
  PROVE  /\ Grows
         /\ file'.text = Append(file.text, Line(Record(r, n)))
         /\ kept' \in Seq(Entries) /\ cuts' = cuts
  <1>1. Record(r, n) \in Entries /\ Line(Record(r, n)) \in Pieces
    BY EntriesArePieces
  <1>2. kept' \in Seq(Entries)
    BY <1>1 DEF Write, TypeOK
  <1>3. file' = [exists |-> TRUE, text |-> Append(file.text, Line(Record(r, n)))]
    BY DEF Write, Written
  <1> QED
    BY <1>1, <1>2, <1>3 DEF Write, Grows

LEMMA TearGrows ==
  ASSUME TypeOK, NEW r \in Runs, NEW n \in Numbers(r), Tear(r, n)
  PROVE  /\ Grows /\ kept' = kept /\ cuts' \in 0..MaxCuts
         /\ cuts' = 0 => cuts = 0 /\ file'.text = file.text
  <1>1. Bare(Record(r, n)) \in Pieces /\ Half(Record(r, n)) \in Pieces
    BY EntriesArePieces
  <1>2. \/ file' = file
        \/ file' = [file EXCEPT !.exists = TRUE]
        \/ \E q \in Pieces : file' = [exists |-> TRUE, text |-> Append(file.text, q)]
    BY <1>1 DEF Tear, Torn
  <1>3. file = [exists |-> file.exists, text |-> file.text] /\ file.exists \in BOOLEAN
    BY DEF TypeOK
  <1>4. Grows
    <2>1. CASE file' = file
      BY <2>1, <1>3 DEF Grows
    <2>2. CASE file' = [file EXCEPT !.exists = TRUE]
      <3>1. file' = [exists |-> TRUE, text |-> file.text]
        BY <2>2, <1>3
      <3> QED
        BY <3>1 DEF Grows
    <2>3. ASSUME NEW q \in Pieces, file' = [exists |-> TRUE, text |-> Append(file.text, q)]
          PROVE  Grows
      BY <2>3 DEF Grows
    <2> QED
      BY <1>2, <2>1, <2>2, <2>3
  <1>5. kept' = kept /\ cuts' <= MaxCuts /\ cuts' = IF file'.text = file.text THEN cuts ELSE cuts + 1
    BY DEF Tear
  <1>6. cuts \in Nat /\ MaxCuts \in Nat
    BY BoundAssumption DEF TypeOK
  <1> QED
    BY <1>4, <1>5, <1>6

(* Every step: the file grows, and whoever gets past a strict record wrote it. *)
StepFacts ==
  /\ Grows
  /\ pc' \in [Runs -> {"running", "failing"} \cup Endings]
  /\ next' \in [Runs -> Nat] /\ \A r \in Runs : next'[r] \in 1..(Length[r] + 1)
  /\ kept' \in Seq(Entries) /\ cuts' \in 0..MaxCuts
  /\ \A r \in Runs : \A n \in 1..Strict[r] :
       n < next'[r] =>
         \/ n < next[r]
         \/ n = next[r] /\ file'.text = Append(file.text, Line(Record(r, n)))
  /\ cuts' = 0 =>
       /\ cuts = 0
       /\ \/ file'.text = file.text /\ kept' = kept
          \/ \E e \in Entries : file'.text = Append(file.text, Line(e)) /\ kept' = Append(kept, e)

Quiet == file' = file /\ kept' = kept /\ cuts' = cuts

LEMMA FileStep ==
  ASSUME TypeOK, NEW r \in Runs, NEW n \in Numbers(r), Write(r, n) \/ Tear(r, n) \/ Quiet
  PROVE  /\ Grows /\ kept' \in Seq(Entries) /\ cuts' \in 0..MaxCuts
         /\ cuts' = 0 =>
              /\ cuts = 0
              /\ \/ file'.text = file.text /\ kept' = kept
                 \/ \E e \in Entries :
                      file'.text = Append(file.text, Line(e)) /\ kept' = Append(kept, e)
  <1>1. CASE Write(r, n)
    <2>1. Record(r, n) \in Entries /\ kept' = Append(kept, Record(r, n))
      BY <1>1, EntriesArePieces DEF Write
    <2>2. /\ Grows /\ file'.text = Append(file.text, Line(Record(r, n)))
          /\ kept' \in Seq(Entries) /\ cuts' = cuts
      BY <1>1, WriteGrows
    <2> QED
      BY <2>1, <2>2 DEF TypeOK
  <1>2. CASE Tear(r, n)
    BY <1>2, TearGrows DEF TypeOK
  <1>3. CASE Quiet
    BY <1>3 DEF Quiet, Grows, TypeOK
  <1> QED
    BY <1>1, <1>2, <1>3

LEMMA StepLemma == TypeOK /\ [Next]_vars => StepFacts
  <1> SUFFICES ASSUME TypeOK, [Next]_vars PROVE StepFacts
    OBVIOUS
  <1>1. CASE UNCHANGED vars
    BY <1>1 DEF vars, StepFacts, Grows, TypeOK
  <1>2. ASSUME NEW r \in Runs,
               \/ WriteStrict(r) \/ StrictRaises(r) \/ WriteLoose(r) \/ LooseFails(r)
               \/ MissionFails(r) \/ LogFailure(r) \/ Return(r) \/ Die(r)
        PROVE  StepFacts
    <2>n. /\ next[r] \in 1..(Length[r] + 1) /\ Strict[r] \in Nat /\ Length[r] \in Nat
          /\ Strict[r] <= Length[r]
      BY RunsAssumption DEF TypeOK
    <2>p. 0 \in Numbers(r) /\ (next[r] <= Length[r] => next[r] \in Numbers(r))
      BY <2>n DEF Numbers
    <2>1. \E n \in Numbers(r) : Write(r, n) \/ Tear(r, n) \/ Quiet
      <3>1. CASE WriteStrict(r) \/ StrictRaises(r)
        <4>1. next[r] \in Numbers(r)
          BY <3>1, <2>n, <2>p DEF WriteStrict, StrictRaises
        <4> QED
          BY <3>1, <4>1 DEF WriteStrict, StrictRaises
      <3>2. CASE WriteLoose(r) \/ LooseFails(r)
        <4>1. next[r] \in Numbers(r)
          BY <3>2, <2>n, <2>p DEF WriteLoose, LooseFails
        <4> QED
          BY <3>2, <4>1 DEF WriteLoose, LooseFails
      <3>3. CASE MissionFails(r) \/ Return(r)
        BY <3>3, <2>p DEF MissionFails, Return, Quiet
      <3>4. CASE LogFailure(r)
        BY <3>4, <2>p DEF LogFailure
      <3>5. CASE Die(r)
        <4>1. next[r] <= Length[r] => Pending(r) \in Numbers(r)
          BY <2>p DEF Pending
        <4> QED
          BY <3>5, <4>1, <2>p DEF Die, Quiet
      <3> QED
        BY <1>2, <3>1, <3>2, <3>3, <3>4, <3>5
    <2>2. /\ Grows /\ kept' \in Seq(Entries) /\ cuts' \in 0..MaxCuts
          /\ cuts' = 0 =>
               /\ cuts = 0
               /\ \/ file'.text = file.text /\ kept' = kept
                  \/ \E e \in Entries :
                       file'.text = Append(file.text, Line(e)) /\ kept' = Append(kept, e)
      BY <2>1, FileStep
    <2>3. pc' \in [Runs -> {"running", "failing"} \cup Endings]
      <3>1. pc' = pc \/ \E to \in {"running", "failing"} \cup Endings : pc' = [pc EXCEPT ![r] = to]
        BY <1>2 DEF WriteStrict, StrictRaises, WriteLoose, LooseFails, MissionFails,
                    LogFailure, Return, Die, Goes, Endings
      <3> QED
        BY <3>1 DEF TypeOK
    <2>4. \/ next' = next
          \/ /\ next' = [next EXCEPT ![r] = @ + 1] /\ next[r] <= Length[r]
             /\ \/ next[r] > Strict[r]
                \/ file'.text = Append(file.text, Line(Record(r, next[r])))
      <3>1. CASE WriteStrict(r)
        <4>1. Write(r, next[r]) /\ next' = [next EXCEPT ![r] = @ + 1] /\ next[r] <= Strict[r]
          BY <3>1 DEF WriteStrict, Advance
        <4>2. file'.text = Append(file.text, Line(Record(r, next[r])))
          BY <4>1, <2>n, <2>p, WriteGrows
        <4> QED
          BY <4>1, <4>2, <2>n
      <3>2. CASE WriteLoose(r) \/ LooseFails(r)
        BY <3>2, <2>n DEF WriteLoose, LooseFails, Advance
      <3>3. CASE StrictRaises(r) \/ MissionFails(r) \/ LogFailure(r) \/ Return(r) \/ Die(r)
        BY <3>3 DEF StrictRaises, MissionFails, LogFailure, Return, Die
      <3> QED
        BY <1>2, <3>1, <3>2, <3>3
    <2>5. next \in [Runs -> Nat] /\ \A q \in Runs : next[q] \in 1..(Length[q] + 1)
      BY DEF TypeOK
    <2>6. next' \in [Runs -> Nat] /\ \A q \in Runs : next'[q] \in 1..(Length[q] + 1)
      BY <2>4, <2>5, <2>n
    <2>7. \A q \in Runs : \A n \in 1..Strict[q] :
            n < next'[q] =>
              \/ n < next[q]
              \/ n = next[q] /\ file'.text = Append(file.text, Line(Record(q, n)))
      BY <2>4, <2>5, <2>n
    <2> QED
      BY <2>2, <2>3, <2>6, <2>7 DEF StepFacts
  <1> QED
    BY <1>1, <1>2 DEF Next

LEMMA InitTyped == Init => TypeOK
  <1> SUFFICES ASSUME Init PROVE TypeOK
    OBVIOUS
  <1>1. \A r \in Runs : Length[r] \in Nat /\ next[r] = 1
    BY RunsAssumption DEF Init
  <1> QED
    BY <1>1, BoundAssumption DEF Init, TypeOK, Absent

LEMMA TypedStep == TypeOK /\ [Next]_vars => TypeOK'
  <1> SUFFICES ASSUME TypeOK, [Next]_vars PROVE TypeOK'
    OBVIOUS
  <1>1. StepFacts
    BY StepLemma
  <1>2. file'.text \in Seq(Pieces)
    <2>1. file.text \in Seq(Pieces)
      BY DEF TypeOK
    <2>2. \A q \in Pieces : Append(file.text, q) \in Seq(Pieces)
      BY <2>1, AppendFacts
    <2>3. file'.text = file.text \/ \E q \in Pieces : file'.text = Append(file.text, q)
      BY <1>1 DEF StepFacts, Grows
    <2> QED
      BY <2>1, <2>2, <2>3
  <1> QED
    BY <1>1, <1>2 DEF StepFacts, Grows, TypeOK

(* Type correctness of any runs of a mission and its audit file. *)
THEOREM TypeCorrect == Spec => []TypeOK
  BY InitTyped, TypedStep, PTL DEF Spec

----------------------------------------------------------------------------

LEMMA OnFileStep == TypeOK /\ GatedOnFile /\ [Next]_vars => GatedOnFile'
  <1> SUFFICES ASSUME TypeOK, GatedOnFile, [Next]_vars,
                      NEW r \in Runs, NEW n \in 1..Strict[r], n < next'[r]
               PROVE  \E i \in DOMAIN file'.text :
                        /\ file'.text[i] = Line(Record(r, n))
                        /\ \A m \in 1..(n - 1) :
                             \E j \in 1..(i - 1) : file'.text[j] = Line(Record(r, m))
    BY DEF GatedOnFile, Gated
  <1>1. StepFacts
    BY StepLemma
  <1>2. file.text \in Seq(Pieces) /\ Len(file.text) \in Nat /\ DOMAIN file.text = 1..Len(file.text)
    BY DEF TypeOK
  <1>3. /\ DOMAIN file.text \subseteq DOMAIN file'.text
        /\ \A i \in DOMAIN file.text : file'.text[i] = file.text[i]
    <2>1. CASE file'.text = file.text
      BY <2>1
    <2>2. ASSUME NEW q \in Pieces, file'.text = Append(file.text, q)
          PROVE  <1>3!1
      <3>1. /\ DOMAIN file'.text = 1..(Len(file.text) + 1)
            /\ \A i \in 1..Len(file.text) : file'.text[i] = file.text[i]
        BY <2>2, <1>2, AppendFacts
      <3> QED
        BY <3>1, <1>2
    <2>3. file'.text = file.text \/ \E q \in Pieces : file'.text = Append(file.text, q)
      BY <1>1 DEF StepFacts, Grows
    <2> QED
      BY <2>1, <2>2, <2>3
  <1>4. Strict[r] \in Nat
    BY RunsAssumption
  <1>5. CASE n < next[r]
    <2>1. PICK i \in DOMAIN file.text :
             /\ file.text[i] = Line(Record(r, n))
             /\ \A m \in 1..(n - 1) :
                  \E j \in 1..(i - 1) : file.text[j] = Line(Record(r, m))
      BY <1>5 DEF GatedOnFile, Gated
    <2>2. \A j \in 1..(i - 1) : j \in DOMAIN file.text
      BY <2>1, <1>2
    <2> QED
      BY <2>1, <2>2, <1>3
  <1>6. CASE n = next[r] /\ file'.text = Append(file.text, Line(Record(r, n)))
    <2>1. Length[r] \in Nat /\ Strict[r] <= Length[r]
      BY RunsAssumption
    <2>2. n \in Numbers(r)
      BY <2>1, <1>4 DEF Numbers
    <2>3. Line(Record(r, n)) \in Pieces
      BY <2>2, EntriesArePieces
    <2>4. DOMAIN file'.text = 1..(Len(file.text) + 1) /\ file'.text[Len(file.text) + 1] = Line(Record(r, n))
      BY <1>6, <1>2, <2>3, AppendFacts
    <2>5. ASSUME NEW m \in 1..(n - 1)
          PROVE  \E j \in 1..Len(file.text) : file'.text[j] = Line(Record(r, m))
      <3>1. m \in Gated(r)
        BY <1>6, <1>4 DEF Gated
      <3>2. \E j \in DOMAIN file.text : file.text[j] = Line(Record(r, m))
        BY <3>1 DEF GatedOnFile
      <3> QED
        BY <3>2, <1>2, <1>3
    <2>6. Len(file.text) + 1 \in DOMAIN file'.text /\ (Len(file.text) + 1) - 1 = Len(file.text)
      BY <2>4, <1>2
    <2> QED
      BY <2>4, <2>5, <2>6
  <1> QED
    BY <1>1, <1>5, <1>6 DEF StepFacts

(* A run past a strict record has that record on file after its earlier ones,
   whatever other runs do to the file. *)
THEOREM StrictRecordsStand == Spec => []GatedOnFile
  <1>1. Init => GatedOnFile
    BY DEF Init, GatedOnFile, Gated
  <1> QED
    BY <1>1, InitTyped, TypedStep, OnFileStep, PTL DEF Spec

----------------------------------------------------------------------------

(* Stronger than ReadBack: every piece is then a line, and what it holds was kept. *)
Sound == cuts = 0 =>
           /\ Len(file.text) = Len(kept)
           /\ \A i \in 1..Len(kept) : file.text[i] = Line(kept[i])

LEMMA SoundStep == TypeOK /\ Sound /\ [Next]_vars => Sound'
  <1> SUFFICES ASSUME TypeOK, Sound, [Next]_vars, cuts' = 0
               PROVE  /\ Len(file'.text) = Len(kept')
                      /\ \A i \in 1..Len(kept') : file'.text[i] = Line(kept'[i])
    BY DEF Sound
  <1>1. StepFacts
    BY StepLemma
  <1>2. /\ Len(file.text) = Len(kept)
        /\ \A i \in 1..Len(kept) : file.text[i] = Line(kept[i])
    BY <1>1 DEF StepFacts, Sound
  <1>3. CASE file'.text = file.text /\ kept' = kept
    BY <1>2, <1>3
  <1>4. ASSUME NEW e \in Entries, file'.text = Append(file.text, Line(e)), kept' = Append(kept, e)
        PROVE  /\ Len(file'.text) = Len(kept')
               /\ \A i \in 1..Len(kept') : file'.text[i] = Line(kept'[i])
    <2>1. file.text \in Seq(Pieces) /\ Line(e) \in Pieces /\ kept \in Seq(Entries)
      BY DEF TypeOK, Pieces
    <2>2. /\ Len(file'.text) = Len(file.text) + 1 /\ file'.text[Len(file.text) + 1] = Line(e)
          /\ \A i \in 1..Len(file.text) : file'.text[i] = file.text[i]
      BY <1>4, <2>1, AppendFacts
    <2>3. /\ Len(kept') = Len(kept) + 1 /\ kept'[Len(kept) + 1] = e /\ Len(kept) \in Nat
          /\ \A i \in 1..Len(kept) : kept'[i] = kept[i]
      BY <1>4, <2>1, AppendFacts
    <2>4. ASSUME NEW i \in 1..Len(kept') PROVE file'.text[i] = Line(kept'[i])
      <3>1. CASE i = Len(kept) + 1
        BY <3>1, <2>2, <2>3, <1>2
      <3>2. CASE i \in 1..Len(kept)
        BY <3>2, <2>2, <2>3, <1>2
      <3> QED
        BY <3>1, <3>2, <2>3
    <2> QED
      BY <2>2, <2>3, <2>4, <1>2
  <1> QED
    BY <1>1, <1>3, <1>4 DEF StepFacts

(* What the checks read is what the writers wrote, as long as no write left a
   part of its record behind. *)
THEOREM ChecksReadTheLog == Spec => []ReadBack
  <1>1. Init => Sound
    BY DEF Init, Sound, Absent
  <1>2. TypeOK /\ Sound => ReadBack
    <2> SUFFICES ASSUME TypeOK, Sound, cuts = 0 PROVE Readable(file) /\ Records(file) = kept
      BY DEF ReadBack
    <2>1. file.text \in Seq(Pieces) /\ kept \in Seq(Entries)
      BY DEF TypeOK
    <2>2. /\ DOMAIN file.text = 1..Len(file.text) /\ DOMAIN kept = 1..Len(kept)
          /\ kept = [i \in 1..Len(kept) |-> kept[i]]
      BY <2>1
    <2>3. Len(file.text) = Len(kept) /\ \A i \in 1..Len(kept) : file.text[i] = Line(kept[i])
      BY DEF Sound
    <2>l. \A i \in DOMAIN file.text :
            file.text[i].whole /\ file.text[i].newline /\ file.text[i].record = kept[i]
      <3>1. \A i \in DOMAIN file.text : file.text[i] = Line(kept[i])
        BY <2>2, <2>3
      <3> QED
        BY <3>1, LineFacts, Zenon
    <2>4. Readable(file)
      BY <2>l DEF Readable
    <2>5. Records(file) = [i \in 1..Len(kept) |-> kept[i]]
      <3>1. DOMAIN file.text = 1..Len(kept)
        BY <2>2, <2>3
      <3>2. Records(file) = [i \in 1..Len(kept) |-> file.text[i].record]
        <4>1. Records(file) = [i \in DOMAIN file.text |-> file.text[i].record]
          BY Zenon DEF Records
        <4> QED
          BY <3>1, <4>1, Zenon
      <3>3. \A i \in 1..Len(kept) : file.text[i].record = kept[i]
        BY <3>1, <2>l
      <3> QED
        BY <3>2, <3>3
    <2> QED
      BY <2>2, <2>4, <2>5
  <1> QED
    BY <1>1, <1>2, InitTyped, TypedStep, SoundStep, PTL DEF Spec
============================================================================
