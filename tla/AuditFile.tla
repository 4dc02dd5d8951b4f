------------------------------ MODULE AuditFile ------------------------------
(***************************************************************************)
(* The JSONL file one mission's audit records go to (audit.py), and what    *)
(* the acceptance checks read in it (acceptance_checks.py).                 *)
(*                                                                         *)
(* The text of a file is the sequence of the pieces its writers appended.   *)
(* A piece is a record with its newline, a record that lost its newline,    *)
(* or the beginning of a record.  Records are below the size of one write,  *)
(* so the pieces of two processes do not mix (the file is opened with "a"). *)
(***************************************************************************)
EXTENDS Integers, Sequences

Absent == [exists |-> FALSE, text |-> << >>]

(* json.dumps escapes every line break, so a record with its newline is one
   line and a record without one may be read together with what follows. *)
Line(r) == [record |-> r, whole |-> TRUE, newline |-> TRUE]
Bare(r) == [record |-> r, whole |-> TRUE, newline |-> FALSE]
Half(r) == [record |-> r, whole |-> FALSE, newline |-> FALSE]

\* A strict write that returns.
Written(f, r) == [exists |-> TRUE, text |-> Append(f.text, Line(r))]

\* What a write that raises, or whose process dies in it, may leave: nothing,
\* the file it created, or a part of the record.
Torn(f, r) == {f, [f EXCEPT !.exists = TRUE]}
              \cup {[exists |-> TRUE, text |-> Append(f.text, q)] : q \in {Half(r), Bare(r)}}

\* _read_audit parses every line: no line is cut, and no two share one.
Readable(f) == \A i \in DOMAIN f.text :
                  f.text[i].whole /\ (f.text[i].newline \/ i = Len(f.text))

Records(f) == [i \in DOMAIN f.text |-> f.text[i].record]

----------------------------------------------------------------------------
(* The checks: a run is judged by its exit code, its output and its file. *)

SignedMissionPassed(code, out, f) ==
  /\ code = 0
  /\ "simulation complete" \in out
  /\ Readable(f)
  /\ \E i \in DOMAIN f.text : f.text[i].record.event = "mission_completed"

ReplayRejected(code, out, f) ==
  /\ code = 4
  /\ "already used" \in out
  /\ ~f.exists

Failures(f) == {i \in DOMAIN f.text : f.text[i].record.event = "mission_failed"}

ControlledFailureRecoveredUnread(code, out, f) ==  \* mutant: recovery_status is not read
  code = 5 /\ "injected" \in out /\ Readable(f) /\ Failures(f) # {}

ControlledFailureRecovered(code, out, f) ==
  /\ code = 5
  /\ "injected" \in out
  /\ Readable(f)
  /\ \E i \in Failures(f) :
        /\ \A j \in Failures(f) : j <= i
        /\ f.text[i].record.recovery = "landing_confirmed"
        /\ f.text[i].record.error = "injected"
============================================================================
