------------------------------- MODULE MCPolicy -------------------------------
(* A small instance of Policy for TLC: every mission of up to MaxLength actions *)
(* over data at and just beyond each limit.                                     *)
EXTENDS Policy

CONSTANT MaxLength  \* bound on the number of actions of a mission

\* Places on a line through home, in metres: two within the limit, one beyond.
Line == {-2, 0, 2, 3}
Apart(p, q) == IF p < q THEN q - p ELSE p - q

Steps ==
    [type : {"takeoff"}, altitude : {2, 3}]
      \cup [type : {"hold"}, duration : 1..3]
      \cup [type : {"goto"}, place : {-2, 2, 3}, altitude : {2}]
      \cup [type : {"goto"}, place : {2}, altitude : {3}]
      \cup [type : {"return_home", "land"}]

AllShort ==
    {m \in UNION {[1..n -> Steps] : n \in 1..MaxLength} :
        m[Len(m)].type \in {"return_home", "land"}}

\* Longer flights, at and beyond the limit on the number of actions.
Cruises ==
    UNION {[1..n -> {[type |-> "hold", duration |-> 1],
                     [type |-> "goto", place |-> 2, altitude |-> 2],
                     [type |-> "goto", place |-> -2, altitude |-> 2]}] :
           n \in (MaxLength - 1)..MaxLength}
Flights == {<<[type |-> "takeoff", altitude |-> 2]>> \o cruise \o <<[type |-> "land"]>> :
               cruise \in Cruises}

MCMissions == AllShort \cup Flights
=============================================================================
