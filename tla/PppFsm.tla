------------------------------- MODULE PppFsm -------------------------------
(* The automaton LCP and IPCP share (PPP_FSM in ppp_fsm.cpp, check_conf of   *)
(* LCP_FSM and IPCP_FSM). An operator takes the state and what arrives and   *)
(* returns the new state, the action reported to the caller and the packets  *)
(* pushed to ppp_outcoming, in order. There are no restart timers: nothing   *)
(* is ever sent twice.                                                       *)
EXTENDS Sequences

FsmState == {"Initial", "Starting", "Closed", "Stopped", "Closing", "Stopping",
             "Req_Sent", "Ack_Rcvd", "Ack_Sent", "Opened"}

FsmRet(state, action, out) == [state |-> state, action |-> action, out |-> out]
Stay(state) == FsmRet(state, "NONE", <<>>)

\* req stands for what send_conf_req() pushes: one packet, or none when it
\* reports an error (LCP without an authentication protocol).

\* open() and layer_up(), called in this order for a fresh automaton.
Open(state, req) ==
    CASE state = "Initial"                -> Stay("Starting")
      [] state = "Closed" /\ req # <<>>   -> FsmRet("Req_Sent", "NONE", req)
      [] state = "Closing"                -> Stay("Stopping")
      [] OTHER                            -> Stay(state)

LayerUp(state, req) ==
    CASE state = "Initial"                -> Stay("Closed")
      [] state = "Starting" /\ req # <<>> -> FsmRet("Req_Sent", "NONE", req)
      [] OTHER                            -> Stay(state)

OpenAndUp(state, req) ==
    LET opened == Open(state, req)
        up     == LayerUp(opened.state, req)
    IN  FsmRet(up.state, "NONE", opened.out \o up.out)

\* What check_conf() finds in the options of a Configure-Request.
Verdict == {"ack",   \* all acceptable
            "nak",   \* a value to correct (IPCP: not the subscriber's address)
            "rej",   \* an option the server does not know
            "none"}  \* nothing to check against (IPCP: no AAA session)

CheckConf(proto, state, verdict) ==
    LET unacked == IF state = "Ack_Rcvd" THEN state ELSE "Req_Sent"
    IN  CASE verdict = "ack" /\ state = "Ack_Rcvd" ->
                 FsmRet("Opened", "LAYER_UP", <<"ConfAck">>)
          [] verdict = "ack" /\ state # "Ack_Rcvd" ->
                 FsmRet("Ack_Sent", "NONE", <<"ConfAck">>)
          [] verdict = "nak"  -> FsmRet(unacked, "NONE", <<"ConfNak">>)
          [] verdict = "rej"  -> FsmRet(IF proto = "LCP" THEN unacked ELSE state,
                                        "NONE", <<"ConfRej">>)
          [] verdict = "none" -> Stay(state)

\* Seeded fault: an open automaton starts over and tells nobody.
RecvConfReqQuiet(proto, state, verdict, req) ==
    IF state = "Opened" THEN FsmRet("Req_Sent", "NONE", req)
    ELSE CheckConf(proto, state, verdict)

RecvConfReq(proto, state, verdict, req) ==
    CASE state \in {"Closing", "Stopping", "Closed"} -> Stay(state)
      [] state = "Opened"  -> FsmRet("Req_Sent", "LAYER_DOWN", req)
      [] state = "Stopped" ->
             LET ret == CheckConf(proto, "Req_Sent", verdict)
             IN  [ret EXCEPT !.out = req \o @]
      [] OTHER             -> CheckConf(proto, state, verdict)

\* Seeded fault: the peer's acknowledgement alone opens the automaton.
RecvConfAckOpens(state, req) ==
    IF state \in {"Req_Sent", "Ack_Sent"} THEN FsmRet("Opened", "LAYER_UP", <<>>)
    ELSE Stay(state)

\* Seeded fault: an acknowledgement that comes before the peer's request was
\* acknowledged is forgotten.
RecvConfAckForgets(state, req) ==
    IF state = "Ack_Sent" THEN FsmRet("Opened", "LAYER_UP", <<>>) ELSE Stay(state)

\* The identifier of the only Configure-Request the server ever sends is 1, so
\* every Configure-Ack matches.
RecvConfAck(state, req) ==
    CASE state = "Req_Sent" -> Stay("Ack_Rcvd")
      [] state = "Ack_Sent" -> FsmRet("Opened", "LAYER_UP", <<>>)
      [] state = "Opened"   -> FsmRet("Req_Sent", "LAYER_DOWN", req)
      [] OTHER              -> Stay(state)

\* Answers to Terminate- and Echo-Requests are sent by LCP only, and only when
\* the request starts with the peer's magic number (verdict "ack").
MagicAnswer(proto, code, verdict) ==
    IF proto = "LCP" /\ verdict = "ack" THEN <<code>> ELSE <<>>

RecvTermReq(proto, state, verdict) ==
    LET ack == MagicAnswer(proto, "TermAck", verdict)
    IN  CASE state \in {"Ack_Rcvd", "Ack_Sent"} -> FsmRet("Req_Sent", "NONE", ack)
          [] state = "Opened" -> FsmRet("Stopping", "LAYER_DOWN", ack)
          [] OTHER            -> FsmRet(state, "NONE", ack)

\* receive(): nothing is processed before the automaton was opened; Naks,
\* Rejects and Terminate-Acks are ignored.
Receive(proto, state, code, verdict, req) ==
    IF state \in {"Initial", "Starting"} THEN Stay(state)
    ELSE CASE code = "ConfReq" -> RecvConfReq(proto, state, verdict, req)
           [] code = "ConfAck" -> RecvConfAck(state, req)
           [] code = "TermReq" -> RecvTermReq(proto, state, verdict)
           [] code = "EchoReq" -> FsmRet(state, "NONE", MagicAnswer(proto, "EchoRep", verdict))
           [] OTHER            -> Stay(state)
=============================================================================
