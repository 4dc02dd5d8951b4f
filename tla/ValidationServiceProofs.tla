----------------------- MODULE ValidationServiceProofs -----------------------
(* What the answers of the validation service are about, for any clients. *)
EXTENDS ValidationService, TLAPS

LEMMA AppendFacts ==
  ASSUME NEW S, NEW s \in Seq(S), NEW e \in S
  PROVE  /\ Append(s, e) \in Seq(S)
         /\ Len(Append(s, e)) = Len(s) + 1
         /\ DOMAIN Append(s, e) = 1..(Len(s) + 1) /\ DOMAIN s = 1..Len(s) /\ Len(s) \in Nat
         /\ \A i \in 1..Len(s) : Append(s, e)[i] = s[i]
         /\ Append(s, e)[Len(s) + 1] = e
  OBVIOUS

LEMMA VerdictIsReply == \A r \in Requests : Verdict(r) \in Replies
  <1> SUFFICES ASSUME NEW r \in Requests PROVE Verdict(r) \in Replies
    OBVIOUS
  <1>1. r \in Request
    BY RequestsAssumption
  <1> QED
    BY <1>1 DEF Request, Verdict, Judged, Replies, Bodies

LEMMA LastIsRequest ==
  ASSUME TypeOK, NEW c \in Conns, Owed(c)
  PROVE  Last(c) \in Requests /\ Verdict(Last(c)) \in Replies
  <1>1. sent[c] \in Seq(Requests) /\ answers[c] \in Seq(Replies)
    BY DEF TypeOK
  <1>2. Len(sent[c]) \in Nat /\ Len(answers[c]) \in Nat /\ Len(sent[c]) > 0
    BY <1>1 DEF Owed
  <1>3. Last(c) \in Requests
    BY <1>1, <1>2 DEF Last
  <1> QED
    BY <1>3, VerdictIsReply

LEMMA GarbledIsReply == Garbled \in Replies
  BY DEF Garbled, Replies

(* The actions that answer, by what they answer. *)
Answers(c) == \/ Answer(c, Garbled, "closed") /\ unread[c]
              \/ \E next \in {"head", "closed"} :
                   Owed(c) /\ ~unread[c] /\ Answer(c, Verdict(Last(c)), next)

(* Ahead of its answers a connection is by one request at most; who waits for a
   body owes an answer and has left nothing behind. *)
PaceOf(c) ==
  /\ thread[c] # "closed" =>
       Len(sent[c]) = Len(answers[c]) \/ Len(sent[c]) = Len(answers[c]) + 1
  /\ thread[c] = "body" => Len(answers[c]) < Len(sent[c]) /\ ~unread[c]

PaceInv == \A c \in Conns : PaceOf(c)

(* An unread body is that of a request that was answered. *)
UnreadInv ==
  \A c \in Conns :
    unread[c] /\ thread[c] # "closed" =>
      \E j \in 1..Len(answers[c]) : j <= Len(sent[c]) /\ Leaves(sent[c][j])

Moves(c, to) == thread' = [thread EXCEPT ![c] = to]

LEMMA Shapes ==
  ASSUME TypeOK, PaceInv, NEW c \in Conns, Serve(c) \/ RefuseUnasked(c)
  PROVE  /\ UNCHANGED <<sent, body, serving>>
         /\ \/ /\ Answers(c)
               /\ unread' \in [Conns -> BOOLEAN]
               /\ \A d \in Conns \ {c} : unread'[d] = unread[d]
               /\ unread'[c] => unread[c] \/ (Owed(c) /\ Leaves(Last(c)))
            \/ /\ Moves(c, "head") \/ (Moves(c, "body") /\ Owed(c) /\ ~unread[c])
               /\ thread[c] # "closed" /\ UNCHANGED <<unread, answers>>
         /\ thread[c] # "closed"
  <1>1. unread \in [Conns -> BOOLEAN]
    BY DEF TypeOK
  <1>2. CASE Refuse(c) \/ RefuseUnasked(c)
    BY <1>1, <1>2 DEF Refuse, RefuseUnasked, Answers
  <1>3. CASE TurnAway(c)
    <2>1. unread' = [unread EXCEPT ![c] = Leaves(Last(c))] /\ Leaves(Last(c)) \in BOOLEAN
      BY <1>3 DEF TurnAway, Leaves
    <2>2. unread' \in [Conns -> BOOLEAN] /\ \A d \in Conns \ {c} : unread'[d] = unread[d]
      BY <1>1, <2>1
    <2>3. unread'[c] = Leaves(Last(c))
      BY <1>1, <2>1
    <2>4. Answers(c) /\ Owed(c) /\ thread[c] = "head" /\ UNCHANGED <<sent, body, serving>>
      BY <1>3 DEF TurnAway, Answers
    <2>5. unread'[c] => Owed(c) /\ Leaves(Last(c))
      BY <2>3, <2>4
    <2>6. thread[c] # "closed"
      BY <2>4
    <2> QED
      BY <2>2, <2>4, <2>5, <2>6
  <1>4. CASE TooLarge(c)
    BY <1>1, <1>4 DEF TooLarge, Answers
  <1>5. CASE Judge(c)
    BY <1>1, <1>5 DEF Judge, Answers, PaceInv, PaceOf, Owed
  <1>6. CASE Accept(c)
    BY <1>6 DEF Accept, Moves
  <1>7. CASE Wait(c)
    BY <1>7 DEF Wait, Moves
  <1> QED
    BY <1>2, <1>3, <1>4, <1>5, <1>6, <1>7 DEF Serve

LEMMA AnswerTyped ==
  ASSUME TypeOK, NEW c \in Conns, Answers(c)
  PROVE  \E a \in Replies :
           /\ answers' = [answers EXCEPT ![c] = Append(@, a)]
           /\ \/ a = Garbled /\ unread[c] /\ Moves(c, "closed")
              \/ a = Verdict(Last(c)) /\ Owed(c) /\ ~unread[c]
                 /\ (Moves(c, "head") \/ Moves(c, "closed"))
  BY GarbledIsReply, LastIsRequest DEF Answers, Answer, Moves

LEMMA InitTyped == Init => TypeOK
  BY DEF Init, TypeOK, Threads

LEMMA TypedStep == TypeOK /\ PaceInv /\ [Next]_vars => TypeOK'
  <1> SUFFICES ASSUME TypeOK, PaceInv, [Next]_vars PROVE TypeOK'
    OBVIOUS
  <1>t. /\ sent \in [Conns -> Seq(Requests)] /\ body \in [Conns -> BOOLEAN]
        /\ thread \in [Conns -> Threads] /\ unread \in [Conns -> BOOLEAN]
        /\ answers \in [Conns -> Seq(Replies)] /\ serving \in BOOLEAN
    BY DEF TypeOK
  <1>1. CASE UNCHANGED vars
    BY <1>1, <1>t DEF vars, TypeOK
  <1>2. CASE Stop
    BY <1>2, <1>t DEF Stop, TypeOK, Threads
  <1>3. ASSUME NEW c \in Conns, Serve(c) \/ RefuseUnasked(c) PROVE TypeOK'
    <2>1. UNCHANGED <<sent, body, serving>> /\ unread' \in [Conns -> BOOLEAN]
      BY <1>3, <1>t, Shapes
    <2>2. thread' \in [Conns -> Threads] /\ answers' \in [Conns -> Seq(Replies)]
      <3>1. CASE Answers(c)
        <4>1. PICK a \in Replies :
                /\ answers' = [answers EXCEPT ![c] = Append(@, a)]
                /\ Moves(c, "head") \/ Moves(c, "closed")
          BY <3>1, AnswerTyped
        <4>2. Append(answers[c], a) \in Seq(Replies)
          BY <1>t, AppendFacts
        <4> QED
          BY <1>t, <4>1, <4>2 DEF Moves, Threads
      <3>2. CASE (Moves(c, "head") \/ Moves(c, "body")) /\ answers' = answers
        BY <3>2, <1>t DEF Moves, Threads
      <3> QED
        BY <1>3, <3>1, <3>2, Shapes
    <2> QED
      BY <2>1, <2>2, <1>t DEF TypeOK
  <1>4. ASSUME NEW c \in Conns, NEW r \in Requests, SendHead(c, r) PROVE TypeOK'
    <2>1. Append(sent[c], r) \in Seq(Requests)
      BY <1>t, AppendFacts
    <2>2. sent' = [sent EXCEPT ![c] = Append(@, r)] /\ body' = [body EXCEPT ![c] = (r.body = "none")]
          /\ UNCHANGED <<thread, unread, answers, serving>>
      BY <1>4 DEF SendHead
    <2>3. (r.body = "none") \in BOOLEAN
      OBVIOUS
    <2> QED
      BY <1>t, <2>1, <2>2, <2>3 DEF TypeOK
  <1>5. ASSUME NEW c \in Conns, SendBody(c) \/ HangUp(c) PROVE TypeOK'
    BY <1>5, <1>t DEF SendBody, HangUp, TypeOK, Threads
  <1> QED
    BY <1>1, <1>2, <1>3, <1>4, <1>5 DEF Next, Client

LEMMA PaceStep == TypeOK /\ PaceInv /\ [Next]_vars => PaceInv'
  <1> SUFFICES ASSUME TypeOK, PaceInv, [Next]_vars, NEW d \in Conns
               PROVE  PaceOf(d)'
    BY DEF PaceInv
  <1>t. /\ sent \in [Conns -> Seq(Requests)] /\ answers \in [Conns -> Seq(Replies)]
        /\ thread \in [Conns -> Threads] /\ unread \in [Conns -> BOOLEAN]
        /\ Len(sent[d]) \in Nat /\ Len(answers[d]) \in Nat
    BY DEF TypeOK
  <1>p. /\ thread[d] # "closed" =>
             Len(sent[d]) = Len(answers[d]) \/ Len(sent[d]) = Len(answers[d]) + 1
        /\ thread[d] = "body" => Len(answers[d]) < Len(sent[d]) /\ ~unread[d]
    BY DEF PaceInv, PaceOf
  <1>1. CASE UNCHANGED vars
    BY <1>1, <1>p DEF vars, PaceOf
  <1>2. CASE Stop
    BY <1>2 DEF Stop, PaceOf
  <1>3. ASSUME NEW c \in Conns, Serve(c) \/ RefuseUnasked(c) PROVE PaceOf(d)'
    <2>1. CASE c # d
      <3>1. thread'[d] = thread[d] /\ answers'[d] = answers[d] /\ unread'[d] = unread[d] /\ sent' = sent
        <4>1. CASE Answers(c)
          <5>1. PICK a \in Replies :
                  /\ answers' = [answers EXCEPT ![c] = Append(@, a)]
                  /\ Moves(c, "head") \/ Moves(c, "closed")
            BY <4>1, AnswerTyped
          <5>2. answers'[d] = answers[d] /\ thread'[d] = thread[d]
            BY <5>1, <2>1, <1>t DEF Moves
          <5>3. unread'[d] = unread[d] /\ sent' = sent
            BY <1>3, <2>1, Shapes
          <5> QED
            BY <5>2, <5>3
        <4>2. CASE (Moves(c, "head") \/ Moves(c, "body")) /\ answers' = answers /\ unread' = unread
          BY <4>2, <1>3, <2>1, <1>t, Shapes DEF Moves
        <4> QED
          BY <1>3, <4>1, <4>2, Shapes
      <3> QED
        BY <3>1, <1>p DEF PaceOf
    <2>2. CASE c = d
      <3>0. sent' = sent /\ thread[d] # "closed"
        BY <1>3, <2>2, Shapes
      <3>1. CASE Answers(c)
        <4>1. PICK a \in Replies :
                /\ answers' = [answers EXCEPT ![c] = Append(@, a)]
                /\ \/ a = Garbled /\ unread[c] /\ Moves(c, "closed")
                   \/ a = Verdict(Last(c)) /\ Owed(c) /\ ~unread[c]
                      /\ (Moves(c, "head") \/ Moves(c, "closed"))
          BY <3>1, AnswerTyped
        <4>2. answers'[d] = Append(answers[d], a) /\ Len(answers'[d]) = Len(answers[d]) + 1
          BY <4>1, <2>2, <1>t, AppendFacts
        <4>3. thread'[d] = "closed" \/ (thread'[d] = "head" /\ Owed(d))
          BY <4>1, <2>2, <1>t DEF Moves
        <4>4. Owed(d) => Len(sent[d]) = Len(answers[d]) + 1
          BY <1>p, <3>0, <1>t DEF Owed
        <4> QED
          BY <3>0, <4>2, <4>3, <4>4, <1>t DEF PaceOf
      <3>2. CASE /\ Moves(c, "head") \/ (Moves(c, "body") /\ Owed(c) /\ ~unread[c])
                 /\ answers' = answers /\ unread' = unread
        BY <3>0, <3>2, <2>2, <1>p, <1>t DEF Moves, Owed, PaceOf
      <3> QED
        BY <1>3, <3>1, <3>2, Shapes
    <2> QED
      BY <2>1, <2>2
  <1>4. ASSUME NEW c \in Conns, NEW r \in Requests, SendHead(c, r) PROVE PaceOf(d)'
    <2>1. /\ sent' = [sent EXCEPT ![c] = Append(@, r)] /\ UNCHANGED <<thread, unread, answers>>
          /\ Len(answers[c]) >= Len(sent[c]) /\ thread[c] # "closed"
      <3>1. Len(sent[c]) \in Nat /\ Len(answers[c]) \in Nat
        BY <1>t
      <3> QED
        BY <1>4, <3>1 DEF SendHead, Owed
    <2>2. CASE c = d
      <3>1. Len(sent'[d]) = Len(sent[d]) + 1
        BY <2>1, <2>2, <1>t, AppendFacts
      <3> QED
        BY <3>1, <2>1, <2>2, <1>p, <1>t DEF PaceOf
    <2>3. CASE c # d
      BY <2>1, <2>3, <1>p, <1>t DEF PaceOf
    <2> QED
      BY <2>2, <2>3
  <1>5. ASSUME NEW c \in Conns, SendBody(c) \/ HangUp(c) PROVE PaceOf(d)'
    BY <1>5, <1>p, <1>t DEF SendBody, HangUp, PaceOf
  <1> QED
    BY <1>1, <1>2, <1>3, <1>4, <1>5 DEF Next, Client

LEMMA InitPaced == Init => PaceInv /\ UnreadInv /\ AnswersTheRequest
  BY DEF Init, PaceInv, PaceOf, UnreadInv, AnswersTheRequest

(* Type correctness of the validation service and its connections. *)
THEOREM TypeCorrect == Spec => []TypeOK
  BY InitTyped, InitPaced, TypedStep, PaceStep, PTL DEF Spec
----------------------------------------------------------------------------

(* What a step does to one connection: nothing that matters here, a request
   more, or an answer more. *)
Same(d) == sent'[d] = sent[d] /\ answers'[d] = answers[d]
           /\ (thread'[d] # "closed" => thread[d] # "closed" /\ unread'[d] = unread[d])
Asks(d) == /\ thread[d] # "closed" /\ answers'[d] = answers[d] /\ unread'[d] = unread[d]
           /\ \E r \in Requests : sent'[d] = Append(sent[d], r)
Replied(d) ==
  /\ thread[d] # "closed" /\ sent'[d] = sent[d]
  /\ \/ answers'[d] = Append(answers[d], Garbled) /\ unread[d] /\ thread'[d] = "closed"
     \/ /\ answers'[d] = Append(answers[d], Verdict(Last(d)))
        /\ Owed(d) /\ (unread'[d] => Leaves(Last(d)))

LEMMA OneConnection ==
  ASSUME TypeOK, PaceInv, [Next]_vars, NEW d \in Conns
  PROVE  Same(d) \/ Asks(d) \/ Replied(d)
  <1>t. /\ sent \in [Conns -> Seq(Requests)] /\ answers \in [Conns -> Seq(Replies)]
        /\ thread \in [Conns -> Threads] /\ unread \in [Conns -> BOOLEAN]
    BY DEF TypeOK
  <1>1. CASE UNCHANGED vars
    BY <1>1 DEF vars, Same
  <1>2. CASE Stop
    BY <1>2 DEF Stop, Same
  <1>3. ASSUME NEW c \in Conns, Serve(c) \/ RefuseUnasked(c) PROVE Same(d) \/ Replied(d)
    <2>0. sent' = sent /\ thread[c] # "closed"
      BY <1>3, Shapes
    <2>1. CASE /\ Answers(c)
               /\ \A e \in Conns \ {c} : unread'[e] = unread[e]
               /\ unread'[c] => unread[c] \/ (Owed(c) /\ Leaves(Last(c)))
      <3>1. PICK a \in Replies :
              /\ answers' = [answers EXCEPT ![c] = Append(@, a)]
              /\ \/ a = Garbled /\ unread[c] /\ Moves(c, "closed")
                 \/ a = Verdict(Last(c)) /\ Owed(c) /\ ~unread[c]
                    /\ (Moves(c, "head") \/ Moves(c, "closed"))
        BY <2>1, AnswerTyped
      <3>2. CASE c # d
        BY <2>0, <2>1, <3>1, <3>2, <1>t DEF Same, Moves
      <3>3. CASE c = d
        BY <2>0, <2>1, <3>1, <3>3, <1>t DEF Replied, Moves
      <3> QED
        BY <3>2, <3>3
    <2>2. CASE (Moves(c, "head") \/ Moves(c, "body")) /\ UNCHANGED <<unread, answers>>
      BY <2>0, <2>2, <1>t DEF Same, Moves
    <2> QED
      BY <1>3, <2>1, <2>2, Shapes
  <1>4. ASSUME NEW c \in Conns, NEW r \in Requests, SendHead(c, r) PROVE Same(d) \/ Asks(d)
    BY <1>4, <1>t DEF SendHead, Same, Asks
  <1>5. ASSUME NEW c \in Conns, SendBody(c) \/ HangUp(c) PROVE Same(d)
    BY <1>5, <1>t DEF SendBody, HangUp, Same
  <1> QED
    BY <1>1, <1>2, <1>3, <1>4, <1>5 DEF Next, Client

LEMMA AnswersStep ==
  TypeOK /\ PaceInv /\ UnreadInv /\ AnswersTheRequest /\ [Next]_vars
    => UnreadInv' /\ AnswersTheRequest'
  <1> SUFFICES ASSUME TypeOK, PaceInv, UnreadInv, AnswersTheRequest, [Next]_vars, NEW d \in Conns
               PROVE  /\ unread'[d] /\ thread'[d] # "closed" =>
                           \E j \in 1..Len(answers'[d]) : j <= Len(sent'[d]) /\ Leaves(sent'[d][j])
                      /\ \A k \in DOMAIN answers'[d] :
                           \/ k \in DOMAIN sent'[d] /\ answers'[d][k] = Verdict(sent'[d][k])
                           \/ answers'[d][k] = Garbled /\ \E j \in 1..(k - 1) : Leaves(sent'[d][j])
    BY DEF UnreadInv, AnswersTheRequest
  <1>t. /\ sent[d] \in Seq(Requests) /\ answers[d] \in Seq(Replies)
        /\ Len(sent[d]) \in Nat /\ Len(answers[d]) \in Nat
        /\ DOMAIN sent[d] = 1..Len(sent[d]) /\ DOMAIN answers[d] = 1..Len(answers[d])
    BY DEF TypeOK
  <1>p. thread[d] # "closed" =>
          Len(sent[d]) = Len(answers[d]) \/ Len(sent[d]) = Len(answers[d]) + 1
    BY DEF PaceInv, PaceOf
  <1>u. unread[d] /\ thread[d] # "closed" =>
          \E j \in 1..Len(answers[d]) : j <= Len(sent[d]) /\ Leaves(sent[d][j])
    BY DEF UnreadInv
  <1>a. \A k \in DOMAIN answers[d] :
          \/ k \in DOMAIN sent[d] /\ answers[d][k] = Verdict(sent[d][k])
          \/ answers[d][k] = Garbled /\ \E j \in 1..(k - 1) : Leaves(sent[d][j])
    BY DEF AnswersTheRequest
  <1>1. CASE Same(d)
    BY <1>1, <1>u, <1>a DEF Same
  <1>2. CASE Asks(d)
    <2>1. PICK r \in Requests : sent'[d] = Append(sent[d], r)
      BY <1>2 DEF Asks
    <2>2. /\ DOMAIN sent'[d] = 1..(Len(sent[d]) + 1) /\ Len(sent'[d]) = Len(sent[d]) + 1
          /\ \A j \in 1..Len(sent[d]) : sent'[d][j] = sent[d][j]
      BY <2>1, <1>t, AppendFacts
    <2>3. answers'[d] = answers[d] /\ unread'[d] = unread[d] /\ thread[d] # "closed"
      BY <1>2 DEF Asks
    <2>4. unread'[d] =>
            \E j \in 1..Len(answers'[d]) : j <= Len(sent'[d]) /\ Leaves(sent'[d][j])
      BY <2>2, <2>3, <1>u, <1>t
    <2>5. ASSUME NEW k \in DOMAIN answers'[d]
          PROVE  \/ k \in DOMAIN sent'[d] /\ answers'[d][k] = Verdict(sent'[d][k])
                 \/ answers'[d][k] = Garbled /\ \E j \in 1..(k - 1) : Leaves(sent'[d][j])
      <3>1. k \in 1..Len(answers[d]) /\ Len(answers[d]) <= Len(sent[d])
        BY <2>3, <1>p, <1>t
      <3>2. \A j \in 1..k : sent'[d][j] = sent[d][j]
        BY <3>1, <2>2, <1>t
      <3>3. k \in 1..k /\ \A j \in 1..(k - 1) : j \in 1..k
        BY <3>1, <1>t
      <3> QED
        BY <3>1, <3>2, <3>3, <2>2, <2>3, <1>a, <1>t
    <2> QED
      BY <2>4, <2>5
  <1>3. CASE Replied(d)
    <2>1. PICK a \in Replies : /\ answers'[d] = Append(answers[d], a)
                               /\ sent'[d] = sent[d] /\ thread[d] # "closed"
                               /\ \/ a = Garbled /\ unread[d] /\ thread'[d] = "closed"
                                  \/ a = Verdict(Last(d)) /\ Owed(d)
                                     /\ (unread'[d] => Leaves(Last(d)))
      BY <1>3, GarbledIsReply, LastIsRequest DEF Replied
    <2>2. /\ DOMAIN answers'[d] = 1..(Len(answers[d]) + 1) /\ Len(answers'[d]) = Len(answers[d]) + 1
          /\ \A k \in 1..Len(answers[d]) : answers'[d][k] = answers[d][k]
          /\ answers'[d][Len(answers[d]) + 1] = a
      BY <2>1, <1>t, AppendFacts
    <2>3. Owed(d) => Len(sent[d]) = Len(answers[d]) + 1 /\ Last(d) = sent[d][Len(answers[d]) + 1]
      BY <2>1, <1>p, <1>t DEF Owed, Last
    <2>4. unread'[d] /\ thread'[d] # "closed" =>
            \E j \in 1..Len(answers'[d]) : j <= Len(sent'[d]) /\ Leaves(sent'[d][j])
      <3>1. SUFFICES ASSUME unread'[d], thread'[d] # "closed"
                     PROVE  \E j \in 1..Len(answers'[d]) : j <= Len(sent'[d]) /\ Leaves(sent'[d][j])
        OBVIOUS
      <3>2. Owed(d) /\ Leaves(Last(d))
        BY <2>1, <3>1
      <3>3. Leaves(sent'[d][Len(answers[d]) + 1]) /\ Len(sent'[d]) = Len(answers[d]) + 1
        BY <3>2, <2>1, <2>3
      <3>4. Len(answers[d]) + 1 \in 1..Len(answers'[d]) /\ Len(answers[d]) + 1 <= Len(sent'[d])
        BY <3>3, <2>2, <1>t
      <3> QED
        BY <3>3, <3>4
    <2>5. ASSUME NEW k \in DOMAIN answers'[d]
          PROVE  \/ k \in DOMAIN sent'[d] /\ answers'[d][k] = Verdict(sent'[d][k])
                 \/ answers'[d][k] = Garbled /\ \E j \in 1..(k - 1) : Leaves(sent'[d][j])
      <3>1. CASE k \in 1..Len(answers[d])
        BY <3>1, <2>1, <2>2, <1>a, <1>t
      <3>2. CASE k = Len(answers[d]) + 1
        <4>1. CASE a = Garbled /\ unread[d]
          <5>1. \E j \in 1..(k - 1) : Leaves(sent[d][j])
            BY <4>1, <3>2, <2>1, <1>u, <1>t
          <5> QED
            BY <5>1, <4>1, <3>2, <2>1, <2>2
        <4>2. CASE a = Verdict(Last(d)) /\ Owed(d)
          <5>1. k \in DOMAIN sent[d] /\ Last(d) = sent[d][k]
            BY <4>2, <3>2, <2>3, <1>t
          <5> QED
            BY <5>1, <4>2, <3>2, <2>1, <2>2
        <4> QED
          BY <4>1, <4>2, <2>1
      <3> QED
        BY <3>1, <3>2, <2>2, <1>t
    <2> QED
      BY <2>4, <2>5
  <1> QED
    BY <1>1, <1>2, <1>3, OneConnection

(* Every answer is about its request, but for the one that follows a body left
   unread, and that one closes the connection. *)
THEOREM AnswersAreTheirs == Spec => []AnswersTheRequest
  BY InitTyped, InitPaced, TypedStep, PaceStep, AnswersStep, PTL DEF Spec
============================================================================
