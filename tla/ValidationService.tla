-------------------------- MODULE ValidationService --------------------------
(***************************************************************************)
(* service.py: a threading HTTP/1.1 server with one handler.  A connection  *)
(* is kept alive, is served by a thread of its own, and carries requests    *)
(* one after the other; a client sends the next one after an answer.        *)
(*                                                                         *)
(* do_GET and the 404 answer of do_POST do not read the body.  It stays in  *)
(* the stream, where http.server (external) takes it for the beginning of   *)
(* the next request line: it answers with an error and closes.              *)
(***************************************************************************)
EXTENDS Integers, Sequences

CONSTANTS
  Conns,          \* the connections of the clients
  Requests,       \* what they may send
  MaxRequests     \* bound on the requests of one connection

Methods == {"POST", "GET", "OPTIONS", "OTHER"}
Bodies == {"none", "approved", "rejected", "schema", "malformed"}

\* size: what Content-Length says; "wrong" is negative, no number, or beyond
\* MAX_REQUEST_BYTES.
Request == [method : Methods, route : BOOLEAN, size : {"right", "wrong"}, body : Bodies]

ASSUME RequestsAssumption == Requests \subseteq Request
ASSUME BoundAssumption == MaxRequests \in Nat

VARIABLES
  sent,     \* sent[c]: the requests whose head c's client has sent, in order
  body,     \* body[c]: has the body of the last one arrived?
  thread,   \* thread[c]: what c's thread waits for, or "closed"
  unread,   \* unread[c]: does the stream of c begin with an unread body?
  answers,  \* answers[c]: the answers, in order
  serving   \* does the service accept connections?

vars == <<sent, body, thread, unread, answers, serving>>

Threads == {"none", "head", "body", "closed"}

Init ==
  /\ sent = [c \in Conns |-> << >>]
  /\ body = [c \in Conns |-> FALSE]
  /\ thread = [c \in Conns |-> "none"]
  /\ unread = [c \in Conns |-> FALSE]
  /\ answers = [c \in Conns |-> << >>]
  /\ serving = TRUE

Last(c) == sent[c][Len(sent[c])]
Owed(c) == Len(answers[c]) < Len(sent[c])

\* validate_mission_payload
Judged(b) == IF b = "schema" THEN [status |-> 422, of |-> "mission"]
             ELSE [status |-> 200, of |-> b]

\* What the service has to say of a request, by the request alone.
Verdict(r) ==
  CASE r.method = "OTHER"                     -> [status |-> 501, of |-> "method"]
    [] r.method = "OPTIONS"                   -> [status |-> 204, of |-> "none"]
    [] r.method = "GET"                       -> [status |-> 405, of |-> "method"]
    [] ~r.route                               -> [status |-> 404, of |-> "route"]
    [] r.route /\ r.size = "wrong"            -> [status |-> 413, of |-> "size"]
    [] r.body \in {"none", "malformed"}       -> [status |-> 400, of |-> "json"]
    [] OTHER                                  -> Judged(r.body)

\* What http.server says of a line that begins with somebody's body.
Garbled == [status |-> 400, of |-> "line"]

\* The answers that leave a body behind on an open connection.
Leaves(r) == r.body # "none" /\ r.method \in {"GET", "OPTIONS", "POST"}
             /\ (r.method = "POST" => ~r.route)

----------------------------------------------------------------------------

\* The client.

SendHead(c, r) ==
  /\ serving /\ thread[c] # "closed"
  /\ ~Owed(c) /\ Len(sent[c]) < MaxRequests
  /\ Len(sent[c]) > 0 => body[c]
  /\ sent' = [sent EXCEPT ![c] = Append(@, r)]
  /\ body' = [body EXCEPT ![c] = (r.body = "none")]
  /\ UNCHANGED <<thread, unread, answers, serving>>

\* A client may never get to this: it stalls.
SendBody(c) ==
  /\ Len(sent[c]) > 0 /\ ~body[c]
  /\ body' = [body EXCEPT ![c] = TRUE]
  /\ UNCHANGED <<sent, thread, unread, answers, serving>>

HangUp(c) ==
  /\ thread[c] \in {"none", "head", "body"}
  /\ thread' = [thread EXCEPT ![c] = "closed"]
  /\ UNCHANGED <<sent, body, unread, answers, serving>>

----------------------------------------------------------------------------

\* The service.

AcceptOneByOne(c) ==  \* mutant: HTTPServer in place of ThreadingHTTPServer
  /\ serving /\ thread[c] = "none" /\ Len(sent[c]) > 0
  /\ \A d \in Conns : thread[d] \in {"none", "closed"}
  /\ thread' = [thread EXCEPT ![c] = "head"]
  /\ UNCHANGED <<sent, body, unread, answers, serving>>

Accept(c) ==
  /\ serving /\ thread[c] = "none" /\ Len(sent[c]) > 0
  /\ thread' = [thread EXCEPT ![c] = "head"]
  /\ UNCHANGED <<sent, body, unread, answers, serving>>

Answer(c, a, next) ==
  /\ answers' = [answers EXCEPT ![c] = Append(@, a)]
  /\ thread' = [thread EXCEPT ![c] = next]

\* The next request line follows an unread body: http.server refuses it.
Refuse(c) ==
  /\ thread[c] = "head" /\ Owed(c) /\ unread[c]
  /\ Answer(c, Garbled, "closed")
  /\ UNCHANGED <<sent, body, unread, serving>>

\* So it does at once if the body has a line break: nobody has asked anything.
RefuseUnasked(c) ==
  /\ thread[c] = "head" /\ ~Owed(c) /\ body[c] /\ unread[c]
  /\ Answer(c, Garbled, "closed")
  /\ UNCHANGED <<sent, body, unread, serving>>

\* do_GET, do_OPTIONS, a method without a handler, and do_POST's 404.
TurnAway(c) ==
  /\ thread[c] = "head" /\ Owed(c) /\ ~unread[c]
  /\ Last(c).method # "POST" \/ ~Last(c).route
  /\ Answer(c, Verdict(Last(c)), IF Last(c).method = "OTHER" THEN "closed" ELSE "head")
  /\ unread' = [unread EXCEPT ![c] = Leaves(Last(c))]
  /\ UNCHANGED <<sent, body, serving>>

TooLargeKeepingOpen(c) ==  \* mutant: close_connection is not set
  /\ thread[c] = "head" /\ Owed(c) /\ ~unread[c]
  /\ Last(c).method = "POST" /\ Last(c).route /\ Last(c).size = "wrong"
  /\ Answer(c, Verdict(Last(c)), "head")
  /\ unread' = [unread EXCEPT ![c] = Last(c).body # "none"]
  /\ UNCHANGED <<sent, body, serving>>

\* do_POST's 413: the body is not read either, so the connection is closed.
TooLarge(c) ==
  /\ thread[c] = "head" /\ Owed(c) /\ ~unread[c]
  /\ Last(c).method = "POST" /\ Last(c).route /\ Last(c).size = "wrong"
  /\ Answer(c, Verdict(Last(c)), "closed")
  /\ UNCHANGED <<sent, body, unread, serving>>

\* do_POST waits for the body, without a timer.
Wait(c) ==
  /\ thread[c] = "head" /\ Owed(c) /\ ~unread[c]
  /\ Last(c).method = "POST" /\ Last(c).route /\ Last(c).size = "right"
  /\ thread' = [thread EXCEPT ![c] = "body"]
  /\ UNCHANGED <<sent, body, unread, answers, serving>>

\* The rest of do_POST, once the body is there.
Judge(c) ==
  /\ thread[c] = "body" /\ body[c]
  /\ Answer(c, Verdict(Last(c)), "head")
  /\ UNCHANGED <<sent, body, unread, serving>>

\* KeyboardInterrupt in serve(): the threads are daemons and die with it.
Stop ==
  /\ serving
  /\ serving' = FALSE
  /\ thread' = [c \in Conns |-> "closed"]
  /\ UNCHANGED <<sent, body, unread, answers>>

Serve(c) == Accept(c) \/ Refuse(c) \/ TurnAway(c) \/ TooLarge(c) \/ Wait(c) \/ Judge(c)

Client(c) == SendBody(c) \/ HangUp(c) \/ \E r \in Requests : SendHead(c, r)

Next == Stop \/ \E c \in Conns : Serve(c) \/ RefuseUnasked(c) \/ Client(c)

Spec == Init /\ [][Next]_vars

\* The operating system runs every thread.  It makes no client send anything, and
\* puts no line break into a body.
FairSpec == Spec /\ \A c \in Conns : WF_vars(Serve(c))

----------------------------------------------------------------------------

Replies == [status : {200, 204, 400, 404, 405, 413, 422, 501},
             of : {"method", "route", "size", "json", "mission", "line"} \cup Bodies]

\* What the variables may hold.
TypeOK ==
  /\ sent \in [Conns -> Seq(Requests)]
  /\ body \in [Conns -> BOOLEAN]
  /\ thread \in [Conns -> Threads]
  /\ unread \in [Conns -> BOOLEAN]
  /\ answers \in [Conns -> Seq(Replies)]
  /\ serving \in BOOLEAN

\* An answer is about the request it answers, though connections are kept alive
\* and most refusals leave early: the only one that is not follows a request
\* with a body to an unknown route or with the wrong method, whose body was
\* left unread (do_POST and do_GET, service.py:122-183; the class "serves exactly
\* one route", line 91, and 413 closes the connection, line 154).
AnswersTheRequest ==
  \A c \in Conns : \A k \in DOMAIN answers[c] :
    \/ k \in DOMAIN sent[c] /\ answers[c][k] = Verdict(sent[c][k])
    \/ answers[c][k] = Garbled /\ \E j \in 1..(k - 1) : Leaves(sent[c][j])

\* Whoever has sent a request with its body is answered or cut off, even while
\* another client has announced a body and never sends it: the wait for a body
\* has no timer (service.py:168), but every connection has a thread (line 198).
NobodyStarves ==
  \A c \in Conns : Owed(c) /\ body[c] ~> ~Owed(c) \/ thread[c] = "closed"
============================================================================
