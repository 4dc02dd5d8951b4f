------------------------ MODULE MCValidationService ------------------------
(* One request of each kind the handler tells apart, with and without a body. *)
EXTENDS ValidationService

Post(route, size, b) == [method |-> "POST", route |-> route, size |-> size, body |-> b]
Bodiless(m) == [method |-> m, route |-> TRUE, size |-> "right", body |-> "none"]

MCRequests ==
  {Post(TRUE, "right", b) : b \in {"approved", "schema", "none"}}
  \cup {Post(TRUE, "wrong", "rejected"), Post(TRUE, "wrong", "none"),
        Post(FALSE, "right", "approved"), Post(FALSE, "right", "none"),
        Bodiless("GET"), Bodiless("OTHER"),
        [Bodiless("GET") EXCEPT !.body = "malformed"]}
============================================================================
