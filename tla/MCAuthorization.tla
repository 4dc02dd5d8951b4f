---------------------------- MODULE MCAuthorization ----------------------------
(* Small instances of Authorization for TLC. *)
EXTENDS AuthorizationProofs

\* Clock readings around a skew of 1 and a lifetime of at most 3.
MCTimes == 0..4

\* A signed approval of mission m1, valid from its issue at 1 to its expiry at 4.
Base == [genuine |-> TRUE, mission |-> "m1", policy |-> "limits", executor |-> "mavsdk",
         issued |-> 1, expires |-> 4, nonce |-> "n1"]

Ask(mission, executor, approval) ==
    [mission |-> mission, executor |-> executor, approval |-> approval]

\* Requests for the same nonce: as signed, for another executor, for a mission that
\* was not signed or that no executor takes, altered, too long, under other limits,
\* and a second approval signed with the nonce of the first.
SameNonce == {
    Ask("m1", "mavsdk", Base),
    Ask("m1", "dry-run", Base),
    Ask("m2", "mavsdk", Base),
    Ask("m3", "mavsdk", [Base EXCEPT !.mission = "m3"]),
    Ask("m4", "mavsdk", [Base EXCEPT !.mission = "m4"]),
    Ask("m1", "mavsdk", [Base EXCEPT !.genuine = FALSE]),
    Ask("m1", "mavsdk", [Base EXCEPT !.expires = 5]),
    Ask("m1", "mavsdk", [Base EXCEPT !.policy = "old limits"]),
    Ask("m2", "dry-run", [Base EXCEPT !.mission = "m2", !.executor = "dry-run"])}

OtherNonce == {Ask("m1", "mavsdk", [Base EXCEPT !.nonce = "n2"])}

MCRequests == SameNonce \cup OtherNonce
=============================================================================
