----------------------------- MODULE MCMapClient -----------------------------
(* Small instances of MapClient for TLC. *)
EXTENDS MapClient

\* Points one and three apart, so that a track drawn from another home shows.
Points == {0, 1, 4}
=============================================================================
