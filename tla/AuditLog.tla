------------------------------- MODULE AuditLog -------------------------------
(***************************************************************************)
(* Several runs of one mission that write to its one audit file: dry runs   *)
(* (executor.py), whose records are all strict, and flights                 *)
(* (mavsdk_executor.py), whose records are strict until takeoff is accepted *)
(* and best effort from then on.  Writes fail, are cut short, and processes *)
(* die, in a write or between two.                                          *)
(***************************************************************************)
EXTENDS AuditFile, FiniteSets

CONSTANTS
  Dry,        \* the dry runs
  Flights,    \* the runs with the MAVSDK executor
  Strict,     \* Strict[r]: how many records r writes before takeoff is accepted
  Length,     \* Length[r]: how many records r writes if all goes well
  MaxCuts     \* bound on the writes that leave a part of their record behind

Runs == Dry \cup Flights

ASSUME RunsAssumption ==
  /\ Dry \cap Flights = {}
  /\ Strict \in [Runs -> Nat] /\ Length \in [Runs -> Nat]
  /\ \A r \in Runs : Strict[r] > 0 /\ Strict[r] <= Length[r]
  /\ \A r \in Dry : Strict[r] = Length[r]
ASSUME BoundAssumption == MaxCuts \in Nat

VARIABLES
  file,      \* the mission's audit file
  pc,        \* pc[r]: "running", "failing" (about to write mission_failed), or how r ended
  next,      \* next[r]: the number of the record r writes next
  kept,      \* the records that went in as a line of their own, in order
  cuts       \* the writes that left a part of their record

vars == <<file, pc, next, kept, cuts>>

Endings == {"returned", "raised", "dead"}

\* Record 1 is mission_started, the last one mission_completed, those between
\* them tell of actions; number 0 is mission_failed.
Record(r, n) == [run |-> r, number |-> n]

Init ==
  /\ file = Absent
  /\ pc = [r \in Runs |-> "running"]
  /\ next = [r \in Runs |-> 1]
  /\ kept = << >>
  /\ cuts = 0

WriteWithoutNewline(r, n) ==  \* mutant
  /\ file' = [exists |-> TRUE, text |-> Append(file.text, Bare(Record(r, n)))]
  /\ kept' = Append(kept, Record(r, n))
  /\ UNCHANGED cuts

Write(r, n) ==
  /\ file' = Written(file, Record(r, n))
  /\ kept' = Append(kept, Record(r, n))
  /\ UNCHANGED cuts

\* A write that raises, or dies: it leaves nothing, or a part of its record.
Tear(r, n) ==
  /\ file' \in Torn(file, Record(r, n))
  /\ cuts' = IF file'.text = file.text THEN cuts ELSE cuts + 1
  /\ cuts' <= MaxCuts
  /\ UNCHANGED kept

Goes(r, to) == pc' = [pc EXCEPT ![r] = to]
Advance(r) == next' = [next EXCEPT ![r] = @ + 1]

----------------------------------------------------------------------------

WriteStrict(r) ==
  /\ pc[r] = "running" /\ next[r] <= Strict[r]
  /\ Write(r, next[r])
  /\ Advance(r)
  /\ UNCHANGED pc

StrictRaisesSwallowed(r) ==  \* mutant: the strict writer swallows its errors
  /\ pc[r] = "running" /\ next[r] <= Strict[r]
  /\ Tear(r, next[r])
  /\ Advance(r)
  /\ UNCHANGED pc

\* A dry run has no handler; a flight's first record is written before its try.
StrictRaises(r) ==
  /\ pc[r] = "running" /\ next[r] <= Strict[r]
  /\ Tear(r, next[r])
  /\ Goes(r, IF r \in Dry \/ next[r] = 1 THEN "raised" ELSE "failing")
  /\ UNCHANGED next

WriteLoose(r) ==
  /\ pc[r] = "running" /\ next[r] \in (Strict[r] + 1)..Length[r]
  /\ Write(r, next[r])
  /\ Advance(r)
  /\ UNCHANGED pc

\* A best-effort write that fails is at most reported on stderr.
LooseFails(r) ==
  /\ pc[r] = "running" /\ next[r] \in (Strict[r] + 1)..Length[r]
  /\ Tear(r, next[r])
  /\ Advance(r)
  /\ UNCHANGED pc

\* Anything else that ends a flight early, before its last record.
MissionFails(r) ==
  /\ r \in Flights /\ pc[r] = "running" /\ next[r] \in 2..Length[r]
  /\ Goes(r, "failing")
  /\ UNCHANGED <<file, next, kept, cuts>>

LogFailure(r) ==
  /\ pc[r] = "failing"
  /\ Write(r, 0) \/ Tear(r, 0)
  /\ Goes(r, "raised")
  /\ UNCHANGED next

Return(r) ==
  /\ pc[r] = "running" /\ next[r] > Length[r]
  /\ Goes(r, "returned")
  /\ UNCHANGED <<file, next, kept, cuts>>

Pending(r) == IF pc[r] = "failing" THEN 0 ELSE next[r]

\* The process dies: between two writes, in one, or just after one.
Die(r) ==
  /\ pc[r] \notin Endings
  /\ \/ UNCHANGED <<file, kept, cuts>>
     \/ /\ next[r] <= Length[r]
        /\ Write(r, Pending(r)) \/ Tear(r, Pending(r))
  /\ Goes(r, "dead")
  /\ UNCHANGED next

Next == \E r \in Runs :
          \/ WriteStrict(r) \/ StrictRaises(r) \/ WriteLoose(r) \/ LooseFails(r)
          \/ MissionFails(r) \/ LogFailure(r) \/ Return(r) \/ Die(r)

Spec == Init /\ [][Next]_vars

----------------------------------------------------------------------------

Numbers(r) == 0..Length[r]
Entries == UNION {[run : {r}, number : Numbers(r)] : r \in Runs}
Pieces == {Line(e) : e \in Entries} \cup {Bare(e) : e \in Entries} \cup {Half(e) : e \in Entries}

\* What the variables may hold.
TypeOK ==
  /\ file.exists \in BOOLEAN /\ file.text \in Seq(Pieces)
  /\ file = [exists |-> file.exists, text |-> file.text]
  /\ pc \in [Runs -> {"running", "failing"} \cup Endings]
  /\ next \in [Runs -> Nat] /\ \A r \in Runs : next[r] \in 1..(Length[r] + 1)
  /\ kept \in Seq(Entries)
  /\ cuts \in 0..MaxCuts

Gated(r) == {n \in 1..Strict[r] : n < next[r]}

\* A run past a strict record has that record on file, as a line, and after all
\* its earlier ones: whatever the other runs of the mission write, cut short or
\* lose, and whoever dies (write_audit_record, audit.py:24-54; the dry run of
\* executor.py:22-48 has nothing but strict records).
GatedOnFile ==
  \A r \in Runs : \A n \in Gated(r) :
    \E i \in DOMAIN file.text :
      /\ file.text[i] = Line(Record(r, n))
      /\ \A m \in 1..(n - 1) : \E j \in 1..(i - 1) : file.text[j] = Line(Record(r, m))

\* As long as no write left a part of its record behind, the checks parse the
\* file and read every record that went in, each once and in the order of the
\* writes (_read_audit, acceptance_checks.py:17-29, against audit.py:50-52).
ReadBack == cuts = 0 => Readable(file) /\ Records(file) = kept
============================================================================
