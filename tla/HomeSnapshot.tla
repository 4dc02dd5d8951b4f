----------------------------- MODULE HomeSnapshot -----------------------------
(***************************************************************************)
(* `nightjar home snapshot` (cli.py): it waits for a connection, for health *)
(* and for a home position, each without a timer, and writes the file the   *)
(* acceptance harness binds its approvals to.  What it reads is the home    *)
(* PX4 has at that moment; arming and a restart may move it later.          *)
(***************************************************************************)
EXTENDS Integers

CONSTANTS
  Homes,     \* places PX4 may have its home at, apart by more than the tolerance
  NoHome,    \* there is no snapshot file
  Broken     \* the file was truncated and not written

ASSUME HomesAssumption == NoHome \notin Homes /\ Broken \notin Homes

VARIABLES
  command,   \* what the command waits for
  homeFile,  \* the snapshot file
  px4Home    \* the home PX4 holds

snapshotVars == <<command, homeFile, px4Home>>

\* An old file may be there.
SnapshotInit ==
  /\ command = "connect"
  /\ homeFile \in Homes \cup {NoHome}
  /\ px4Home \in Homes

\* A connection stream that ends is taken for a connection: only the other two
\* waits have an else branch.
SnapshotWaits ==
  /\ \/ command = "connect" /\ command' = "connection"
     \/ command = "connection" /\ command' = "health"
     \/ command = "health" /\ command' = "home"
  /\ UNCHANGED <<homeFile, px4Home>>

\* connect() raises, or a stream raises or ends: nothing is written.
SnapshotFails ==
  /\ command # "ended"
  /\ command' = "ended"
  /\ UNCHANGED <<homeFile, px4Home>>

\* The first home of the stream; write_text truncates the file before it writes.
SnapshotTaken ==
  /\ command = "home"
  /\ command' = "ended"
  /\ homeFile' \in {px4Home, Broken}
  /\ UNCHANGED px4Home

Snapshot == SnapshotWaits \/ SnapshotFails \/ SnapshotTaken
============================================================================
