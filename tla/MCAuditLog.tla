------------------------------ MODULE MCAuditLog ------------------------------
(* A dry run of one action and a flight, on one audit file. *)
EXTENDS AuditLog

MCStrict == [r \in Runs |-> IF r \in Dry THEN 3 ELSE 2]
MCLength == [r \in Runs |-> IF r \in Dry THEN 3 ELSE 4]
============================================================================
