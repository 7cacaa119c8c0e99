---------------------------- MODULE RadiusClient ----------------------------
(* AuthClient (auth_client.cpp): one UDP socket to one RADIUS server, shared *)
(* by all requests. A request gets an 8-bit id, an entry in callbacks with a *)
(* 5 s timer, and arms one receive on the socket. All receives share the     *)
(* buffer buf. A completed receive and an expired or cancelled timer only    *)
(* queue a handler; the event loop runs the handlers in turn.                *)
EXTENDS Naturals, Sequences, SequencesExt

CONSTANTS
    Requests,   \* bound: how many requests are made, 1..Requests
    IdSpace,    \* the number of ids: 256 in the daemon
    MaxPackets  \* bound: datagrams that reach the socket

ASSUME ClientAssumption == Requests \in Nat /\ IdSpace \in Nat \ {0} /\ MaxPackets \in Nat

VARIABLES
    made,        \* how many requests were made
    last_id,     \* AuthClient::last_id
    callbacks,   \* id -> the request waiting under it and the state of its timer
    outcome,     \* request -> the handlers called for it, in order
    armed,       \* async_receive_from operations waiting on the socket
    ready,       \* handlers queued in the event loop
    buf,         \* AuthClient::buf
    inbox,       \* datagrams in the socket's buffer
    asked,       \* history: the id of each request the server got
    packets      \* how many datagrams have reached the socket

vars == <<made, last_id, callbacks, outcome, armed, ready, buf, inbox, asked, packets>>

Request == 1..Requests
Id == 0..(IdSpace - 1)

\* A datagram: the id in it and the request whose authenticator its response
\* authenticator was made from; 0 for a packet that answers none of ours.
Datagram == [id : Id, answers : 0..Requests]
Entry == [req : Request, timer : {"armed", "expired", "cancelled"}]

\* on_rcv, or expire_check with the id bound to it and without or with an error.
Handler == [run : {"on_rcv"}] \cup [run : {"expired", "cancelled"}, id : Id]
OnRcv == [run |-> "on_rcv"]
OnTimer(run, id) == [run |-> run, id |-> id]

\* A call of a caller's ResponseHandler or of its ErrorHandler.
Answer == [result : {"response"}, from : 0..Requests] \cup [result : {"error"}]

TypeOK ==
    /\ made \in 0..Requests
    /\ last_id \in Id
    /\ DOMAIN callbacks \subseteq Id
    /\ \A id \in DOMAIN callbacks : callbacks[id] \in Entry
    /\ outcome \in [Request -> Seq(Answer)]
    /\ armed \in Nat
    /\ ready \in Seq(Handler)
    /\ buf \in Datagram
    /\ inbox \in Seq(Datagram)
    /\ asked \in [Request -> Id \cup {IdSpace}]

Init ==
    /\ made = 0
    /\ last_id = 0
    /\ callbacks = <<>>
    /\ outcome = [r \in Request |-> <<>>]
    /\ armed = 0
    /\ ready = <<>>
    /\ buf = [id |-> 0, answers |-> 0]
    /\ inbox = <<>>
    /\ asked = [r \in Request |-> IdSpace]   \* not sent
    /\ packets = 0

-----------------------------------------------------------------------------

\* Seeded fault: ids are not taken modulo their number.
NextIdUnwrapped == last_id + 1

NextId == (last_id + 1) % IdSpace

\* Seeded fault: a new request replaces the one that waits under its id.
NeverTaken(id) == FALSE

Taken(id) == id \in DOMAIN callbacks

\* request() and acct_request(): if the id is still taken the request is
\* forgotten, its caller hears nothing.
MakeRequest ==
    /\ made < Requests
    /\ made' = made + 1
    /\ last_id' = NextId
    /\ IF Taken(last_id')
       THEN UNCHANGED <<callbacks, asked, armed>>
       ELSE /\ callbacks' = [id \in DOMAIN callbacks \cup {last_id'} |->
                               IF id = last_id' THEN [req |-> made', timer |-> "armed"]
                               ELSE callbacks[id]]
            /\ asked' = [asked EXCEPT ![made'] = last_id']
            /\ armed' = armed + 1
    /\ UNCHANGED <<outcome, ready, buf, inbox, packets>>

\* A datagram fills buf for the receive armed first; on_rcv runs later, and
\* more datagrams may be read before it does.
SocketReads ==
    /\ armed > 0 /\ inbox # <<>>
    /\ armed' = armed - 1
    /\ buf' = Head(inbox)
    /\ inbox' = Tail(inbox)
    /\ ready' = Append(ready, OnRcv)
    /\ UNCHANGED <<made, last_id, callbacks, outcome, asked, packets>>

TimerExpires ==
    \E id \in DOMAIN callbacks :
       /\ callbacks[id].timer = "armed"
       /\ callbacks' = [callbacks EXCEPT ![id].timer = "expired"]
       /\ ready' = Append(ready, OnTimer("expired", id))
       /\ UNCHANGED <<made, last_id, outcome, armed, buf, inbox, asked, packets>>

\* Seeded fault: the authenticator of an answer is not checked.
MatchesById == buf.id \in DOMAIN callbacks

\* The request the datagram in buf answers: its id is known and the response
\* authenticator fits.
Matches == /\ buf.id \in DOMAIN callbacks
           /\ buf.answers = callbacks[buf.id].req

\* on_rcv(): the receive is not armed again. cancel() has no effect on a timer
\* whose handler is queued already; the entry stays until its timer's handler
\* erases it.
RunOnRcv ==
    /\ ready # <<>> /\ Head(ready) = OnRcv
    /\ IF Matches
       THEN /\ outcome' = [outcome EXCEPT ![callbacks[buf.id].req] =
                             Append(@, [result |-> "response", from |-> buf.answers])]
            /\ IF callbacks[buf.id].timer = "armed"
               THEN /\ callbacks' = [callbacks EXCEPT ![buf.id].timer = "cancelled"]
                    /\ ready' = Append(Tail(ready), OnTimer("cancelled", buf.id))
               ELSE /\ ready' = Tail(ready)
                    /\ UNCHANGED callbacks
       ELSE /\ ready' = Tail(ready)
            /\ UNCHANGED <<outcome, callbacks>>
    /\ UNCHANGED <<made, last_id, armed, buf, inbox, asked, packets>>

\* Seeded fault: the test of the timer's error code is inverted.
TimedOutInverted(handler) == handler.run = "cancelled" /\ handler.id \in DOMAIN callbacks

TimedOut(handler) == handler.run = "expired" /\ handler.id \in DOMAIN callbacks

\* Seeded fault: expire_check() returns after it reported the error.
ErasedIfAnswered(handler) ==
    IF handler.run = "expired" THEN callbacks
    ELSE [id \in DOMAIN callbacks \ {handler.id} |-> callbacks[id]]

Erased(handler) == [id \in DOMAIN callbacks \ {handler.id} |-> callbacks[id]]

\* expire_check(): the last entry to go cancels all receives.
RunExpireCheck ==
    /\ ready # <<>> /\ Head(ready) # OnRcv
    /\ ready' = Tail(ready)
    /\ callbacks' = Erased(Head(ready))
    /\ outcome' = IF TimedOut(Head(ready))
                  THEN [outcome EXCEPT ![callbacks[Head(ready).id].req] =
                          Append(@, [result |-> "error"])]
                  ELSE outcome
    /\ armed' = IF DOMAIN callbacks' = {} THEN 0 ELSE armed
    /\ UNCHANGED <<made, last_id, buf, inbox, asked, packets>>

\* The server and the network: a request may be answered at any later time,
\* more than once or never; other packets may come too.
Arrives ==
    /\ packets < MaxPackets /\ packets' = packets + 1
    /\ \E r \in 0..made, id \in Id :
          /\ r # 0 => asked[r] = id
          /\ inbox' = Append(inbox, [id |-> id, answers |-> r])
    /\ UNCHANGED <<made, last_id, callbacks, outcome, armed, ready, buf, asked>>

Next ==
    \/ MakeRequest \/ SocketReads \/ TimerExpires \/ RunOnRcv \/ RunExpireCheck
    \/ Arrives

Spec == Init /\ [][Next]_vars

\* The event loop runs every queued handler and timers expire.
FairSpec ==
    /\ Spec
    /\ WF_vars(SocketReads)
    /\ WF_vars(TimerExpires)
    /\ WF_vars(RunOnRcv)
    /\ WF_vars(RunExpireCheck)

-----------------------------------------------------------------------------
(* Properties. *)

\* A handler only ever gets an answer to its own request, also when a late
\* answer meets a newer request under the same id (checkRadiusAnswer).
OnlyGenuineAnswers ==
    \A r \in Request : \A i \in 1..Len(outcome[r]) :
       outcome[r][i].result = "response" => outcome[r][i].from = r

\* An error is the last a caller hears of its request: no answer, however late
\* or repeated, follows it (expire_check erases the entry).
NothingAfterError ==
    \A r \in Request : \A i \in 1..Len(outcome[r]) :
       outcome[r][i].result = "error" => i = Len(outcome[r])

\* Every entry of callbacks is erased by exactly one handler: its timer runs,
\* or one expire_check for it is queued, never two, so none erases the entry
\* that took over the id (request, on_rcv, expire_check).
EntryEndsOnce ==
    \A id \in Id :
       LET queued == {i \in 1..Len(ready) : ready[i] \in {OnTimer("expired", id), OnTimer("cancelled", id)}}
       IN  IF id \in DOMAIN callbacks /\ callbacks[id].timer # "armed"
           THEN \E i \in queued : queued = {i} /\ ready[i].run = callbacks[id].timer
           ELSE queued = {}

Waiting(r) == \E id \in DOMAIN callbacks : callbacks[id].req = r

\* Every request that went out ends with an answer or an error, even if the
\* server never answers, and frees its id.
EveryRequestEnds ==
    \A r \in Request : Waiting(r) ~> (outcome[r] # <<>> /\ ~Waiting(r))
=============================================================================
