------------------------- MODULE RadiusClient_proofs -------------------------
(* Proofs about RadiusClient, for any number of requests, ids and datagrams: *)
(* what a caller hears of its request (OnlyGenuineAnswers,                   *)
(* NothingAfterError) and that each entry of callbacks is erased once        *)
(* (EntryEndsOnce).                                                          *)
EXTENDS RadiusClient, TLAPS

(* What the handlers of the queue do to the state. *)

\* A handler of the queue is one of the three.
LEMMA HeadOfQueue ==
    ASSUME TypeOK, ready # <<>>
    PROVE  /\ Head(ready) \in Handler
           /\ Tail(ready) \in Seq(Handler)
           /\ Head(ready) # OnRcv => Head(ready).id \in Id
  BY DEF TypeOK, Handler, OnRcv

\* Handler a of the caller of request r is called.
Says(r, a) ==
    /\ r \in Request /\ a \in Answer
    /\ outcome' = [outcome EXCEPT ![r] = Append(@, a)]

Response == [result |-> "response", from |-> buf.answers]
Error == [result |-> "error"]

\* Callers only hear from on_rcv, with an answer that matches, and from
\* expire_check, of a timer that expired.
LEMMA WhoSays ==
    ASSUME TypeOK, [Next]_vars
    PROVE  \/ UNCHANGED outcome
           \/ RunOnRcv /\ Matches /\ Says(callbacks[buf.id].req, Response)
           \/ RunExpireCheck /\ TimedOut(Head(ready)) /\ Says(callbacks[Head(ready).id].req, Error)
<1>1. CASE RunOnRcv /\ Matches
  <2>1. callbacks[buf.id].req \in Request
    BY <1>1 DEF Matches, TypeOK, Entry
  <2>2. Response \in Answer
    BY DEF Response, TypeOK, Datagram, Answer
  <2> QED
    BY <1>1, <2>1, <2>2 DEF RunOnRcv, Says, Response
<1>2. CASE RunExpireCheck /\ TimedOut(Head(ready))
  <2>1. callbacks[Head(ready).id].req \in Request
    BY <1>2 DEF TimedOut, TypeOK, Entry
  <2>2. Error \in Answer
    BY DEF Error, Answer
  <2> QED
    BY <1>2, <2>1, <2>2 DEF RunExpireCheck, Says, Error
<1>3. CASE ~(RunOnRcv /\ Matches) /\ ~(RunExpireCheck /\ TimedOut(Head(ready)))
  BY <1>3 DEF Next, vars, MakeRequest, SocketReads, TimerExpires, RunOnRcv, RunExpireCheck, Arrives
<1> QED
  BY <1>1, <1>2, <1>3

\* What a caller heard before it still has heard; r hears one thing more.
LEMMA SaysAppends ==
    ASSUME TypeOK, NEW r, NEW a, Says(r, a)
    PROVE  /\ outcome' \in [Request -> Seq(Answer)]
           /\ \A other \in Request \ {r} : outcome'[other] = outcome[other]
           /\ outcome[r] \in Seq(Answer)
           /\ Len(outcome'[r]) = Len(outcome[r]) + 1
           /\ \A i \in 1..Len(outcome[r]) : outcome'[r][i] = outcome[r][i]
           /\ outcome'[r][Len(outcome[r]) + 1] = a
<1>1. /\ r \in Request /\ a \in Answer /\ outcome \in [Request -> Seq(Answer)]
      /\ outcome' = [outcome EXCEPT ![r] = Append(@, a)]
  BY DEF Says, TypeOK
<1>2. outcome'[r] = Append(outcome[r], a) /\ outcome[r] \in Seq(Answer)
  BY <1>1
<1> QED
  BY <1>1, <1>2

\* An entry of callbacks is an old one with its request or the one request()
\* has just made; expire_check erases its own.
LEMMA WhatStays ==
    ASSUME TypeOK, [Next]_vars
    PROVE  /\ \A id \in DOMAIN callbacks' :
                 \/ id \in DOMAIN callbacks /\ callbacks'[id].req = callbacks[id].req
                 \/ MakeRequest /\ id = last_id' /\ ~Taken(id) /\ callbacks'[id].req = made'
           /\ RunExpireCheck => Head(ready).id \notin DOMAIN callbacks'
<1>1. CASE MakeRequest
  BY <1>1 DEF MakeRequest, RunExpireCheck, Erased
<1>2. CASE TimerExpires
  BY <1>2 DEF TimerExpires, RunExpireCheck, TypeOK, Entry, Erased
<1>3. CASE RunOnRcv
  <2>1. ~RunExpireCheck
    BY <1>3 DEF RunOnRcv, RunExpireCheck
  <2>2. CASE UNCHANGED callbacks
    BY <2>1, <2>2
  <2>3. CASE /\ buf.id \in DOMAIN callbacks
             /\ callbacks' = [callbacks EXCEPT ![buf.id].timer = "cancelled"]
    <3>1. callbacks[buf.id] \in Entry
      BY <2>3 DEF TypeOK
    <3>2. callbacks'[buf.id].req = callbacks[buf.id].req
      BY <2>3, <3>1 DEF Entry
    <3> QED
      BY <2>1, <2>3, <3>2
  <2> QED
    BY <1>3, <2>2, <2>3 DEF RunOnRcv, Matches
<1>4. CASE RunExpireCheck
  BY <1>4 DEF RunExpireCheck, Erased
<1>5. CASE SocketReads \/ Arrives \/ UNCHANGED vars
  BY <1>5 DEF SocketReads, Arrives, vars, RunExpireCheck, Erased
<1> QED
  BY <1>1, <1>2, <1>3, <1>4, <1>5 DEF Next

-----------------------------------------------------------------------------
(* Types. *)

LEMMA InitTypes == Init => TypeOK
  BY ClientAssumption DEF Init, TypeOK, Datagram, Id

LEMMA HeardTypes == TypeOK /\ [Next]_vars => outcome' \in [Request -> Seq(Answer)]
<1> SUFFICES ASSUME TypeOK, [Next]_vars
             PROVE  outcome' \in [Request -> Seq(Answer)]
  OBVIOUS
<1>1. CASE UNCHANGED outcome
  BY <1>1 DEF TypeOK
<1>2. ASSUME NEW r, NEW a, Says(r, a)
      PROVE  outcome' \in [Request -> Seq(Answer)]
  BY <1>2, SaysAppends
<1> QED
  BY <1>1, <1>2, WhoSays

LEMMA NextTypes == TypeOK /\ [Next]_vars => TypeOK'
<1> SUFFICES ASSUME TypeOK, [Next]_vars
             PROVE  TypeOK'
  OBVIOUS
<1> USE ClientAssumption
<1>1. CASE MakeRequest
  <2>1. made' \in 0..Requests /\ made' \in Request /\ last_id' \in Id
    BY <1>1 DEF MakeRequest, NextId, TypeOK, Request, Id
  <2>2. CASE Taken(last_id')
    BY <1>1, <2>1, <2>2 DEF MakeRequest, TypeOK
  <2>3. CASE ~Taken(last_id')
    <3>1. DOMAIN callbacks' \subseteq Id /\ \A id \in DOMAIN callbacks' : callbacks'[id] \in Entry
      BY <1>1, <2>1, <2>3 DEF MakeRequest, TypeOK, Entry
    <3>2. asked' \in [Request -> Id \cup {IdSpace}]
      BY <1>1, <2>1, <2>3 DEF MakeRequest, TypeOK
    <3>3. armed' \in Nat
      BY <1>1, <2>3 DEF MakeRequest, TypeOK
    <3> QED
      BY <1>1, <2>1, <2>3, <3>1, <3>2, <3>3 DEF MakeRequest, TypeOK
  <2> QED
    BY <2>2, <2>3
<1>2. CASE SocketReads
  <2>1. /\ buf' \in Datagram /\ inbox' \in Seq(Datagram)
        /\ armed' \in Nat
    BY <1>2 DEF SocketReads, TypeOK
  <2>2. ready' \in Seq(Handler)
    BY <1>2 DEF SocketReads, TypeOK, Handler, OnRcv
  <2> QED
    BY <1>2, <2>1, <2>2 DEF SocketReads, TypeOK
<1>3. CASE TimerExpires
  <2> PICK id \in DOMAIN callbacks :
              /\ callbacks' = [callbacks EXCEPT ![id].timer = "expired"]
              /\ ready' = Append(ready, OnTimer("expired", id))
              /\ UNCHANGED <<made, last_id, outcome, armed, buf, inbox, asked, packets>>
    BY <1>3 DEF TimerExpires
  <2>1. OnTimer("expired", id) \in Handler
    BY DEF OnTimer, Handler, TypeOK
  <2>2. ready' \in Seq(Handler)
    BY <2>1 DEF TypeOK
  <2> QED
    BY <2>2 DEF TypeOK, Entry
<1>4. CASE RunOnRcv
  <2>1. Tail(ready) \in Seq(Handler)
    BY <1>4, HeadOfQueue DEF RunOnRcv
  <2>2. UNCHANGED <<made, last_id, armed, buf, inbox, asked>>
    BY <1>4 DEF RunOnRcv
  <2>3. CASE ~Matches
    <3>1. UNCHANGED <<outcome, callbacks>> /\ ready' = Tail(ready)
      BY <1>4, <2>3 DEF RunOnRcv
    <3> QED
      BY <2>1, <2>2, <3>1 DEF TypeOK
  <2>4. CASE Matches
    <3>1. buf.id \in Id
      BY DEF TypeOK, Datagram
    <3>3. outcome' \in [Request -> Seq(Answer)]
      BY HeardTypes
    <3>4. CASE callbacks[buf.id].timer = "armed"
      <4>1. OnTimer("cancelled", buf.id) \in Handler
        BY <3>1 DEF OnTimer, Handler
      <4>2. /\ callbacks' = [callbacks EXCEPT ![buf.id].timer = "cancelled"]
            /\ ready' = Append(Tail(ready), OnTimer("cancelled", buf.id))
        BY <1>4, <2>4, <3>4 DEF RunOnRcv
      <4>3. ready' \in Seq(Handler)
        BY <2>1, <4>1, <4>2
      <4>4. DOMAIN callbacks' \subseteq Id /\ \A id \in DOMAIN callbacks' : callbacks'[id] \in Entry
        BY <4>2 DEF TypeOK, Entry
      <4> QED
        BY <2>2, <3>3, <4>3, <4>4 DEF TypeOK
    <3>5. CASE callbacks[buf.id].timer # "armed"
      <4>1. UNCHANGED callbacks /\ ready' = Tail(ready)
        BY <1>4, <2>4, <3>5 DEF RunOnRcv
      <4> QED
        BY <2>1, <2>2, <3>3, <4>1 DEF TypeOK
    <3> QED
      BY <3>4, <3>5
  <2> QED
    BY <2>3, <2>4
<1>5. CASE RunExpireCheck
  <2> DEFINE h == Head(ready)
  <2>1. Tail(ready) \in Seq(Handler)
    BY <1>5, HeadOfQueue DEF RunExpireCheck
  <2>2. DOMAIN callbacks' \subseteq Id /\ \A id \in DOMAIN callbacks' : callbacks'[id] \in Entry
    BY <1>5 DEF RunExpireCheck, Erased, TypeOK
  <2>3. outcome' \in [Request -> Seq(Answer)]
    BY HeardTypes
  <2> QED
    BY <1>5, <2>1, <2>2, <2>3 DEF RunExpireCheck, TypeOK
<1>6. CASE Arrives
  <2> PICK r \in 0..made, id \in Id : inbox' = Append(inbox, [id |-> id, answers |-> r])
    BY <1>6 DEF Arrives
  <2>1. [id |-> id, answers |-> r] \in Datagram
    BY DEF Datagram, TypeOK
  <2>2. inbox' \in Seq(Datagram)
    BY <2>1 DEF TypeOK
  <2> QED
    BY <1>6, <2>2 DEF Arrives, TypeOK
<1>7. CASE UNCHANGED vars
  BY <1>7 DEF vars, TypeOK
<1> QED
  BY <1>1, <1>2, <1>3, <1>4, <1>5, <1>6, <1>7 DEF Next

\* Every step leaves every variable in its type: the ids of request(), the
\* queue of the event loop, what callers heard.
THEOREM TypeCorrect == Spec => []TypeOK
<1> QED
  BY InitTypes, NextTypes, PTL DEF Spec

-----------------------------------------------------------------------------
(* What callers hear. *)

LEMMA NextGenuine == TypeOK /\ OnlyGenuineAnswers /\ [Next]_vars => OnlyGenuineAnswers'
<1> SUFFICES ASSUME TypeOK, OnlyGenuineAnswers, [Next]_vars
             PROVE  OnlyGenuineAnswers'
  OBVIOUS
<1>1. CASE UNCHANGED outcome
  BY <1>1 DEF OnlyGenuineAnswers
<1>2. ASSUME NEW r, NEW a, Says(r, a), a.result = "response" => a.from = r
      PROVE  OnlyGenuineAnswers'
  BY <1>2, SaysAppends DEF OnlyGenuineAnswers
<1>3. CASE RunOnRcv /\ Matches /\ Says(callbacks[buf.id].req, Response)
  BY <1>2, <1>3 DEF Matches, Response
<1>4. CASE RunExpireCheck /\ Says(callbacks[Head(ready).id].req, Error)
  BY <1>2, <1>4 DEF Error
<1> QED
  BY <1>1, <1>3, <1>4, WhoSays

\* A caller only ever gets the answer to its own request, though ids are reused
\* and all receives share one buffer (on_rcv, checkRadiusAnswer).
THEOREM AnswersAreGenuine == Spec => []OnlyGenuineAnswers
<1>1. Init => OnlyGenuineAnswers
  BY DEF Init, OnlyGenuineAnswers
<1> QED
  BY <1>1, InitTypes, NextTypes, NextGenuine, PTL DEF Spec

\* A request waits under one id at most, and while it waits, its caller has
\* heard no error; of a request not made yet nothing was heard.
Expects ==
    /\ \A id \in DOMAIN callbacks :
          /\ callbacks[id].req <= made
          /\ \A other \in DOMAIN callbacks : callbacks[other].req = callbacks[id].req => other = id
          /\ \A i \in 1..Len(outcome[callbacks[id].req]) :
                outcome[callbacks[id].req][i].result # "error"
    /\ \A r \in Request : r > made => outcome[r] = <<>>

CallerInv == TypeOK /\ Expects /\ NothingAfterError

LEMMA NextExpects == CallerInv /\ [Next]_vars => Expects' /\ NothingAfterError'
<1> SUFFICES ASSUME TypeOK, Expects, NothingAfterError, [Next]_vars
             PROVE  Expects' /\ NothingAfterError'
  BY DEF CallerInv
<1> USE ClientAssumption
<1>0. \/ UNCHANGED made
      \/ MakeRequest /\ made' = made + 1
  BY DEF Next, vars, MakeRequest, SocketReads, TimerExpires, RunOnRcv, RunExpireCheck, Arrives
<1>1. made \in Nat /\ made' \in Nat /\ made <= made'
  BY <1>0 DEF TypeOK
<1>2. \A id \in DOMAIN callbacks : callbacks[id].req \in Request
  BY DEF TypeOK, Entry
<1>3. \A id \in DOMAIN callbacks' : callbacks'[id].req <= made'
  BY <1>1, <1>2, WhatStays DEF Expects, Request
<1>4. \A id, other \in DOMAIN callbacks' : callbacks'[other].req = callbacks'[id].req => other = id
  <2> SUFFICES ASSUME NEW id \in DOMAIN callbacks', NEW other \in DOMAIN callbacks',
                      callbacks'[other].req = callbacks'[id].req
               PROVE  other = id
    OBVIOUS
  <2>1. ASSUME NEW j \in DOMAIN callbacks'
        PROVE  \/ /\ j \in DOMAIN callbacks /\ callbacks'[j].req = callbacks[j].req
                  /\ callbacks[j].req <= made /\ callbacks[j].req \in Nat
               \/ j = last_id' /\ callbacks'[j].req = made + 1
    BY <1>2, WhatStays DEF Expects, Request, MakeRequest
  <2> QED
    BY <1>1, <2>1 DEF Expects
<1>5. CASE UNCHANGED outcome
  <2>1. \A r \in Request : r > made' => outcome'[r] = <<>>
    BY <1>1, <1>5 DEF Expects, Request
  <2>2. ASSUME NEW id \in DOMAIN callbacks', NEW i \in 1..Len(outcome'[callbacks'[id].req])
        PROVE  outcome'[callbacks'[id].req][i].result # "error"
    <3>1. CASE id \in DOMAIN callbacks /\ callbacks'[id].req = callbacks[id].req
      BY <1>5, <2>2, <3>1 DEF Expects
    <3>2. CASE MakeRequest /\ callbacks'[id].req = made'
      <4>1. made' \in Request /\ made' > made
        BY <3>2 DEF MakeRequest, TypeOK, Request
      <4>2. outcome'[callbacks'[id].req] = <<>>
        BY <1>5, <3>2, <4>1 DEF Expects
      <4> QED
        BY <2>2, <4>2
    <3> QED
      BY <3>1, <3>2, WhatStays
  <2> QED
    BY <1>3, <1>4, <1>5, <2>1, <2>2 DEF Expects, NothingAfterError
<1>6. CASE ~UNCHANGED outcome
  <2>1. PICK id \in DOMAIN callbacks, a \in {Response, Error} :
             /\ Says(callbacks[id].req, a)
             /\ a = Error => id \notin DOMAIN callbacks'
    <3>1. CASE RunOnRcv /\ Matches /\ Says(callbacks[buf.id].req, Response)
      <4>1. Response # Error
        BY DEF Response, Error
      <4> QED
        BY <3>1, <4>1 DEF Matches
    <3>2. CASE RunExpireCheck /\ TimedOut(Head(ready)) /\ Says(callbacks[Head(ready).id].req, Error)
      BY <3>2, WhatStays DEF TimedOut
    <3> QED
      BY <1>6, <3>1, <3>2, WhoSays
  <2> DEFINE r == callbacks[id].req
  <2>2. /\ r \in Request /\ r <= made /\ outcome[r] \in Seq(Answer)
        /\ \A other \in Request \ {r} : outcome'[other] = outcome[other]
        /\ Len(outcome'[r]) = Len(outcome[r]) + 1 /\ Len(outcome[r]) \in Nat
        /\ \A i \in 1..Len(outcome[r]) : outcome'[r][i] = outcome[r][i]
        /\ outcome'[r][Len(outcome[r]) + 1] = a
    BY <1>2, <2>1, SaysAppends DEF Expects
  <2>3. \A i \in 1..Len(outcome[r]) : outcome[r][i].result # "error"
    BY DEF Expects
  <2>4. ~MakeRequest
    BY <1>6 DEF MakeRequest
  <2>5. \A j \in DOMAIN callbacks' : j \in DOMAIN callbacks /\ callbacks'[j].req = callbacks[j].req
    BY <2>4, WhatStays
  <2>6. NothingAfterError'
    <3> SUFFICES ASSUME NEW q \in Request, NEW i \in 1..Len(outcome'[q]),
                        outcome'[q][i].result = "error"
                 PROVE  i = Len(outcome'[q])
      BY DEF NothingAfterError
    <3>1. CASE q = r
      <4>1. i \notin 1..Len(outcome[r])
        BY <2>2, <2>3, <3>1
      <4> QED
        BY <2>2, <3>1, <4>1
    <3>2. CASE q # r
      BY <2>2, <3>2 DEF NothingAfterError
    <3> QED
      BY <3>1, <3>2
  <2>7. \A q \in Request : q > made' => outcome'[q] = <<>>
    BY <1>1, <2>2 DEF Expects, Request
  <2>8. ASSUME NEW j \in DOMAIN callbacks', NEW i \in 1..Len(outcome'[callbacks'[j].req])
        PROVE  outcome'[callbacks'[j].req][i].result # "error"
    <3>1. CASE j = id
      <4>1. a = Response
        BY <2>1, <2>8, <3>1
      <4> QED
        <5>1. i \in 1..Len(outcome'[r])
          BY <2>5, <3>1
        <5>2. CASE i = Len(outcome[r]) + 1
          BY <2>2, <2>5, <3>1, <4>1, <5>2 DEF Response
        <5>3. CASE i \in 1..Len(outcome[r])
          BY <2>2, <2>3, <2>5, <3>1, <5>3
        <5> QED
          BY <2>2, <5>1, <5>2, <5>3
    <3>2. CASE j # id
      <4>1. callbacks[j].req \in Request \ {r}
        BY <1>2, <2>5, <2>8, <3>2 DEF Expects
      <4> QED
        BY <2>2, <2>5, <2>8, <4>1 DEF Expects
    <3> QED
      BY <3>1, <3>2
  <2> QED
    BY <1>3, <1>4, <2>6, <2>7, <2>8 DEF Expects
<1> QED
  BY <1>5, <1>6

\* Once a caller has heard that its request failed it hears nothing more: no
\* answer, however late, and no second error (on_rcv, expire_check).
THEOREM ErrorsAreFinal == Spec => []NothingAfterError
<1>1. Init => CallerInv
  BY InitTypes DEF Init, CallerInv, Expects, NothingAfterError
<1>2. CallerInv /\ [Next]_vars => CallerInv'
  BY NextTypes, NextExpects DEF CallerInv
<1>3. CallerInv => NothingAfterError
  BY DEF CallerInv
<1> QED
  BY <1>1, <1>2, <1>3, PTL DEF Spec

-----------------------------------------------------------------------------
(* The life of an entry. *)

\* Handler h is the one that erases the entry of id.
Erases(h, id) == h \in {OnTimer("expired", id), OnTimer("cancelled", id)}
Queued(q, id) == {i \in 1..Len(q) : Erases(q[i], id)}

\* What EntryEndsOnce says of one id, of a queue q and entries cb.
Once(q, cb, id) ==
    IF id \in DOMAIN cb /\ cb[id].timer # "armed"
    THEN \E i \in Queued(q, id) : Queued(q, id) = {i} /\ q[i].run = cb[id].timer
    ELSE Queued(q, id) = {}

LEMMA OncePerId == EntryEndsOnce <=> \A id \in Id : Once(ready, callbacks, id)
  BY DEF EntryEndsOnce, Once, Queued, Erases

\* A handler is for one id at most, on_rcv for none.
LEMMA HandlerOfOneId ==
    ASSUME NEW id \in Id, NEW other \in Id, NEW run \in {"expired", "cancelled"}
    PROVE  /\ ~Erases(OnRcv, id)
           /\ Erases(OnTimer(run, id), id)
           /\ Erases(OnTimer(run, other), id) => other = id
<1>1. OnRcv.run = "on_rcv" /\ OnTimer(run, other).id = other
      /\ OnTimer("expired", id).id = id /\ OnTimer("cancelled", id).id = id
      /\ OnTimer("expired", id).run = "expired" /\ OnTimer("cancelled", id).run = "cancelled"
  BY DEF OnRcv, OnTimer
<1> QED
  BY <1>1 DEF Erases

\* Running a handler that is not for id leaves what is queued for id.
LEMMA RunKeeps ==
    ASSUME NEW q \in Seq(Handler), q # <<>>, NEW cb, NEW id,
           ~Erases(Head(q), id), Once(q, cb, id)
    PROVE  Once(Tail(q), cb, id)
<1>1. /\ Len(q) \in Nat /\ Len(Tail(q)) = Len(q) - 1 /\ Head(q) = q[1]
      /\ \A i \in 1..Len(Tail(q)) : Tail(q)[i] = q[i + 1]
  OBVIOUS
<1>2. \A i \in Queued(q, id) : i - 1 \in Queued(Tail(q), id) /\ Tail(q)[i - 1] = q[i]
  BY <1>1 DEF Queued
<1>3. \A i \in Queued(Tail(q), id) : i + 1 \in Queued(q, id) /\ i \in Int
  BY <1>1 DEF Queued
<1>4. CASE id \in DOMAIN cb /\ cb[id].timer # "armed"
  <2>1. PICK i \in Queued(q, id) : Queued(q, id) = {i} /\ q[i].run = cb[id].timer
    BY <1>4 DEF Once
  <2>2. i \in Int
    BY <1>1 DEF Queued
  <2>3. Queued(Tail(q), id) = {i - 1}
    <3>1. i - 1 \in Queued(Tail(q), id)
      BY <1>2, <2>1
    <3>2. ASSUME NEW k \in Queued(Tail(q), id)
          PROVE  k = i - 1
      <4>1. k + 1 = i /\ k \in Int
        BY <1>3, <2>1
      <4> QED
        BY <2>2, <4>1
    <3> QED
      BY <3>1, <3>2
  <2> QED
    BY <1>2, <1>4, <2>1, <2>3 DEF Once
<1>5. CASE ~(id \in DOMAIN cb /\ cb[id].timer # "armed")
  BY <1>3, <1>5 DEF Once
<1> QED
  BY <1>4, <1>5

\* Queueing a handler that is not for id does too.
LEMMA QueueingKeeps ==
    ASSUME NEW q \in Seq(Handler), NEW h \in Handler, NEW cb, NEW id,
           ~Erases(h, id), Once(q, cb, id)
    PROVE  Once(Append(q, h), cb, id)
<1>1. /\ Len(q) \in Nat /\ Len(Append(q, h)) = Len(q) + 1
      /\ \A i \in 1..Len(q) : Append(q, h)[i] = q[i]
      /\ Append(q, h)[Len(q) + 1] = h
  OBVIOUS
<1>2. Queued(Append(q, h), id) = Queued(q, id)
  BY <1>1 DEF Queued
<1>3. \A i \in Queued(q, id) : Append(q, h)[i] = q[i]
  BY <1>1 DEF Queued
<1> QED
  BY <1>2, <1>3 DEF Once

\* The first handler queued for an id is the only one.
LEMMA QueueingFirst ==
    ASSUME NEW q \in Seq(Handler), NEW id \in Id, NEW run \in {"expired", "cancelled"},
           Queued(q, id) = {}, NEW cb, id \in DOMAIN cb, cb[id].timer = run
    PROVE  Once(Append(q, OnTimer(run, id)), cb, id)
<1> DEFINE h == OnTimer(run, id)
<1>1. h \in Handler /\ h.run = run
  BY DEF OnTimer, Handler
<1>2. /\ Len(q) \in Nat /\ Len(Append(q, h)) = Len(q) + 1
      /\ \A i \in 1..Len(q) : Append(q, h)[i] = q[i]
      /\ Append(q, h)[Len(q) + 1] = h
  BY <1>1
<1>3. Erases(h, id)
  BY DEF Erases
<1>4. Queued(Append(q, h), id) = {Len(q) + 1}
  BY <1>2, <1>3 DEF Queued
<1> QED
  BY <1>1, <1>2, <1>4 DEF Once

LEMMA NextOnce == TypeOK /\ EntryEndsOnce /\ [Next]_vars => EntryEndsOnce'
<1> SUFFICES ASSUME TypeOK, EntryEndsOnce, [Next]_vars, NEW id \in Id
             PROVE  Once(ready', callbacks', id)
  <2>1. EntryEndsOnce' <=> \A id \in Id : Once(ready', callbacks', id)
    BY DEF EntryEndsOnce, Once, Queued, Erases
  <2> QED
    BY <2>1
<1>0. Once(ready, callbacks, id) /\ ready \in Seq(Handler)
  BY OncePerId DEF TypeOK
<1>1. CASE MakeRequest
  <2>1. CASE callbacks' = callbacks
    BY <1>0, <1>1, <2>1 DEF MakeRequest
  <2>2. CASE callbacks' # callbacks
    BY <1>0, <1>1, <2>2 DEF MakeRequest, Taken, Once
  <2> QED
    BY <2>1, <2>2
<1>2. CASE SocketReads
  <2>1. OnRcv \in Handler /\ ~Erases(OnRcv, id)
    BY HandlerOfOneId DEF OnRcv, Handler
  <2> QED
    BY <1>0, <1>2, <2>1, QueueingKeeps DEF SocketReads
<1>3. CASE TimerExpires
  <2> PICK j \in DOMAIN callbacks :
              /\ callbacks[j].timer = "armed"
              /\ callbacks' = [callbacks EXCEPT ![j].timer = "expired"]
              /\ ready' = Append(ready, OnTimer("expired", j))
    BY <1>3 DEF TimerExpires
  <2>1. j \in Id /\ callbacks[j] \in Entry
    BY DEF TypeOK
  <2>2. CASE j = id
    <3>1. Queued(ready, id) = {}
      BY <1>0, <2>2 DEF Once
    <3>2. callbacks'[id].timer = "expired" /\ id \in DOMAIN callbacks'
      BY <2>1, <2>2 DEF Entry
    <3> QED
      BY <1>0, <2>2, <3>1, <3>2, QueueingFirst
  <2>3. CASE j # id
    <3>1. Once(ready, callbacks', id)
      BY <1>0, <2>3 DEF Once
    <3>2. OnTimer("expired", j) \in Handler /\ ~Erases(OnTimer("expired", j), id)
      BY <2>1, <2>3, HandlerOfOneId DEF OnTimer, Handler
    <3> QED
      BY <1>0, <3>1, <3>2, QueueingKeeps
  <2> QED
    BY <2>2, <2>3
<1>4. CASE RunOnRcv
  <2>1. Once(Tail(ready), callbacks, id) /\ Tail(ready) \in Seq(Handler)
    <3>1. ready # <<>> /\ ~Erases(Head(ready), id)
      BY <1>4, HandlerOfOneId DEF RunOnRcv
    <3> QED
      BY <1>0, <3>1, RunKeeps, HeadOfQueue
  <2>2. CASE UNCHANGED callbacks /\ ready' = Tail(ready)
    BY <2>1, <2>2
  <2>3. CASE /\ buf.id \in DOMAIN callbacks /\ callbacks[buf.id].timer = "armed"
             /\ callbacks' = [callbacks EXCEPT ![buf.id].timer = "cancelled"]
             /\ ready' = Append(Tail(ready), OnTimer("cancelled", buf.id))
    <3>1. buf.id \in Id /\ callbacks[buf.id] \in Entry
      BY <2>3 DEF TypeOK
    <3>2. CASE buf.id = id
      <4>1. Queued(Tail(ready), id) = {}
        BY <2>1, <2>3, <3>2 DEF Once
      <4>2. callbacks'[id].timer = "cancelled" /\ id \in DOMAIN callbacks'
        BY <2>3, <3>1, <3>2 DEF Entry
      <4> QED
        BY <2>1, <2>3, <3>2, <4>1, <4>2, QueueingFirst
    <3>3. CASE buf.id # id
      <4>1. Once(Tail(ready), callbacks', id)
        BY <2>1, <2>3, <3>3 DEF Once
      <4>2. OnTimer("cancelled", buf.id) \in Handler /\ ~Erases(OnTimer("cancelled", buf.id), id)
        BY <3>1, <3>3, HandlerOfOneId DEF OnTimer, Handler
      <4> QED
        BY <2>1, <2>3, <4>1, <4>2, QueueingKeeps
    <3> QED
      BY <3>2, <3>3
  <2> QED
    BY <1>4, <2>2, <2>3 DEF RunOnRcv, Matches
<1>5. CASE RunExpireCheck
  <2> DEFINE h == Head(ready)
  <2>1. PICK run \in {"expired", "cancelled"}, j \in Id : h = OnTimer(run, j)
    BY <1>5, HeadOfQueue DEF RunExpireCheck, Handler, OnRcv, OnTimer
  <2>2. h.id = j
    BY <2>1 DEF OnTimer
  <2>3. /\ ready # <<>> /\ ready' = Tail(ready)
        /\ DOMAIN callbacks' = DOMAIN callbacks \ {j}
        /\ \A other \in DOMAIN callbacks' : callbacks'[other] = callbacks[other]
    BY <1>5, <2>2 DEF RunExpireCheck, Erased
  <2>4. CASE j = id
    <3>1. /\ Len(ready) \in Nat \ {0} /\ h = ready[1] /\ Len(Tail(ready)) = Len(ready) - 1
          /\ \A i \in 1..Len(Tail(ready)) : Tail(ready)[i] = ready[i + 1]
      BY <1>0, <2>3
    <3>2. Erases(h, id)
      BY <2>1, <2>4, HandlerOfOneId
    <3>3. 1 \in Queued(ready, id)
      BY <3>1, <3>2 DEF Queued
    <3>4. Queued(ready, id) = {1}
      BY <1>0, <3>3 DEF Once
    <3>5. \A i \in Queued(Tail(ready), id) : i + 1 \in Queued(ready, id) /\ i \in Nat /\ i >= 1
      BY <3>1 DEF Queued
    <3>6. Queued(Tail(ready), id) = {}
      BY <3>4, <3>5
    <3> QED
      BY <2>3, <2>4, <3>6 DEF Once
  <2>5. CASE j # id
    <3>1. ~Erases(h, id)
      BY <2>1, <2>5, HandlerOfOneId
    <3>2. Once(Tail(ready), callbacks, id)
      BY <1>0, <2>3, <3>1, RunKeeps
    <3> QED
      BY <2>3, <2>5, <3>2 DEF Once
  <2> QED
    BY <2>4, <2>5
<1>6. CASE Arrives \/ UNCHANGED vars
  BY <1>0, <1>6 DEF Arrives, vars
<1> QED
  BY <1>1, <1>2, <1>3, <1>4, <1>5, <1>6 DEF Next

\* Every entry of callbacks ends by one handler: none is left behind without a
\* timer, and no second expire_check meets the request that took over the id
\* (request, on_rcv, expire_check).
THEOREM EntriesEndOnce == Spec => []EntryEndsOnce
<1>1. Init => EntryEndsOnce
  BY DEF Init, EntryEndsOnce
<1> QED
  BY <1>1, InitTypes, NextTypes, NextOnce, PTL DEF Spec
=============================================================================
