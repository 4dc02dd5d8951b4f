-------------------------- MODULE MCAcceptanceHarness --------------------------
EXTENDS AcceptanceHarness

\* The program's own times, in tens of seconds; the mission holds for ten.
MCLimit == [begin |-> 1, connection |-> 2, home |-> 2, armed |-> 3, postHome |-> 2,
            climb |-> 3, hold |-> 1, descent |-> 3, recovery |-> 3]

\* Short ones, for all interleavings of the three scenarios.
MCShort == [w \in Timed |-> IF w \in {"descent", "recovery"} THEN 2 ELSE 1]
============================================================================
