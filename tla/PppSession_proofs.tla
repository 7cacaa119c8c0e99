-------------------------- MODULE PppSession_proofs --------------------------
(* Proofs about PppSession, for any addresses, methods and echo limit and    *)
(* any number of packets lost, repeated or sent again.                       *)
EXTENDS PppSession, SequenceTheorems, TLAPS

(* The automaton of LCP and IPCP (PppFsm). *)

\* The packets it pushes.
Code == {"ConfReq", "ConfAck", "ConfNak", "ConfRej", "TermAck", "EchoRep"}
Action == {"NONE", "LAYER_UP", "LAYER_DOWN"}

LEMMA Short ==
    ASSUME NEW S, NEW c \in S
    PROVE  <<>> \in Seq(S) /\ <<c>> \in Seq(S)
  OBVIOUS

\* What an operator of the automaton pushes by itself.
Pushed == {<<>>, <<"ConfReq">>, <<"ConfNak">>, <<"ConfRej">>, <<"TermAck">>, <<"EchoRep">>}

LEMMA PushedCodes ==
    /\ \A out \in Pushed : out \in Seq(Code) /\ out \in Seq(Code \ {"ConfAck"})
    /\ <<"ConfAck">> \in Seq(Code)
<1> DEFINE C == Code \ {"ConfAck"}
<1>1. {"ConfReq", "ConfNak", "ConfRej", "TermAck", "EchoRep"} \subseteq C /\ "ConfAck" \in Code
  BY DEF Code
<1>2. C \subseteq Code
  OBVIOUS
<1>3. \A c \in Code : <<c>> \in Seq(Code) /\ <<>> \in Seq(Code)
  BY Short
<1>4. \A c \in C : <<c>> \in Seq(C) /\ <<>> \in Seq(C)
  BY Short
<1>5. \A out \in Pushed : out = <<>> \/ \E c \in C : out = <<c>>
  BY <1>1 DEF Pushed
<1>6. ASSUME NEW out \in Pushed
      PROVE  out \in Seq(Code) /\ out \in Seq(C)
  BY <1>1, <1>2, <1>3, <1>4, <1>5
<1> QED
  BY <1>1, <1>3, <1>6

\* States in which check_conf() runs for a Configure-Request.
Checking == {"Req_Sent", "Ack_Rcvd", "Ack_Sent", "Stopped"}

\* check_conf(): only an acknowledged request leads to Ack_Sent or Opened, and
\* only it is answered with a Configure-Ack.
LEMMA CheckConfEffect ==
    ASSUME NEW proto, NEW state \in FsmState \ {"Opened"}, NEW verdict \in Verdict
    PROVE  LET ret == CheckConf(proto, state, verdict)
           IN  /\ ret.state \in FsmState /\ ret.action \in {"NONE", "LAYER_UP"}
               /\ ret.out \in Seq(Code)
               /\ ret.action = "LAYER_UP" => verdict = "ack" /\ state = "Ack_Rcvd" /\ ret.state = "Opened"
               /\ ret.state = "Ack_Sent" => verdict = "ack" \/ state = "Ack_Sent"
               /\ verdict # "ack" => ret.out \in Seq(Code \ {"ConfAck"})
<1> DEFINE ret == CheckConf(proto, state, verdict)
<1>1. \/ /\ ret.out = <<"ConfAck">> /\ verdict = "ack"
         /\ \/ ret.state = "Opened" /\ ret.action = "LAYER_UP" /\ state = "Ack_Rcvd"
            \/ ret.state = "Ack_Sent" /\ ret.action = "NONE"
      \/ /\ ret.out \in Pushed /\ verdict # "ack" /\ ret.action = "NONE"
         /\ ret.state \in {state, "Req_Sent"}
  BY DEF CheckConf, FsmRet, Stay, Pushed, Verdict
<1> HIDE DEF ret
<1>2. ret.state \in FsmState
  BY <1>1 DEF FsmState
<1> QED
  BY <1>1, <1>2, PushedCodes DEF ret

\* open() and layer_up() only ever start a negotiation.
LEMMA OpenAndUpEffect ==
    ASSUME NEW state \in FsmState, NEW req \in {<<>>, <<"ConfReq">>}
    PROVE  LET ret == OpenAndUp(state, req)
           IN  /\ ret.state \in FsmState
               /\ ret.state \in {"Ack_Sent", "Ack_Rcvd", "Opened"} \/ state \in {"Ack_Sent", "Ack_Rcvd", "Opened"}
                     => ret.state = state
               /\ ret.out \in Seq(Code) /\ ret.out \in Seq(Code \ {"ConfAck"})
<1> DEFINE opened == Open(state, req)
           up == LayerUp(opened.state, req)
           ret == OpenAndUp(state, req)
<1>1. \/ opened.state = state /\ opened.out = <<>>
      \/ opened.state \in {"Starting", "Stopping"} /\ opened.out = <<>>
           /\ state \in {"Initial", "Closing"}
      \/ opened.state = "Req_Sent" /\ opened.out = req /\ state = "Closed"
  BY DEF Open, Stay, FsmRet
<1>2. \/ up.state = opened.state /\ up.out = <<>>
      \/ up.state = "Closed" /\ up.out = <<>> /\ opened.state = "Initial"
      \/ up.state = "Req_Sent" /\ up.out = req /\ opened.state = "Starting"
  BY DEF LayerUp, Stay, FsmRet
<1>3. ret.state = up.state /\ ret.out = opened.out \o up.out
  BY DEF OpenAndUp, FsmRet
<1>4. \A out \in {<<>>, req} : out \in Seq(Code) /\ out \in Seq(Code \ {"ConfAck"})
  BY PushedCodes DEF Pushed
<1>5. \A out \in {opened.out, up.out} : out \in Seq(Code) /\ out \in Seq(Code \ {"ConfAck"})
  BY <1>1, <1>2, <1>4
<1> HIDE DEF opened, up, ret
<1> QED
  BY <1>1, <1>2, <1>3, <1>5 DEF ret, FsmState

\* receive(): how a layer comes up, that it is told when it goes down, and what
\* a Configure-Ack was sent for.
LEMMA ReceiveEffect ==
    ASSUME NEW proto, NEW state \in FsmState, NEW code, NEW verdict \in Verdict,
           NEW req \in {<<>>, <<"ConfReq">>}
    PROVE  LET ret == Receive(proto, state, code, verdict, req)
               acked == code = "ConfReq" /\ verdict = "ack" /\ state \in Checking
           IN  /\ ret.state \in FsmState /\ ret.action \in Action /\ ret.out \in Seq(Code)
               /\ state = "Initial" => ret.state = "Initial" /\ ret.out = <<>>
               /\ ret.action = "LAYER_UP" =>
                     /\ ret.state = "Opened"
                     /\ \/ state = "Ack_Rcvd" /\ acked
                        \/ state = "Ack_Sent" /\ code = "ConfAck"
               /\ state = "Opened" => ret.state = "Opened" \/ ret.action = "LAYER_DOWN"
               /\ ret.state = "Opened" => state = "Opened" \/ ret.action = "LAYER_UP"
               /\ ret.state = "Ack_Sent" => state = "Ack_Sent" \/ acked
               /\ ~acked => ret.out \in Seq(Code \ {"ConfAck"})
<1> DEFINE ret == Receive(proto, state, code, verdict, req)
<1>0. \A out \in {<<>>, req} : out \in Seq(Code) /\ out \in Seq(Code \ {"ConfAck"})
  BY PushedCodes DEF Pushed
<1>1. CASE state \in {"Initial", "Starting"} \/ code \notin {"ConfReq", "ConfAck", "TermReq", "EchoReq"}
  <2>1. ret.state = state /\ ret.action = "NONE" /\ ret.out = <<>>
    BY <1>1 DEF Receive, Stay, FsmRet
  <2> HIDE DEF ret
  <2> QED
    BY <1>0, <1>1, <2>1 DEF ret, Action
<1>2. CASE state \notin {"Initial", "Starting"} /\ code = "ConfReq"
  <2>1. ret = RecvConfReq(proto, state, verdict, req)
    BY <1>2 DEF Receive
  <2>2. CASE state \in {"Closing", "Stopping", "Closed"}
    <3>1. ret.state = state /\ ret.action = "NONE" /\ ret.out = <<>>
      BY <2>1, <2>2 DEF RecvConfReq, Stay, FsmRet
    <3> HIDE DEF ret
    <3> QED
      BY <1>0, <2>2, <3>1 DEF ret, Action
  <2>3. CASE state = "Opened"
    <3>1. ret.state = "Req_Sent" /\ ret.action = "LAYER_DOWN" /\ ret.out = req
      BY <2>1, <2>3 DEF RecvConfReq, FsmRet
    <3> HIDE DEF ret
    <3> QED
      BY <1>0, <2>3, <3>1 DEF ret, Action, FsmState
  <2>4. CASE state = "Stopped"
    <3> DEFINE chk == CheckConf(proto, "Req_Sent", verdict)
    <3>1. /\ chk.state \in FsmState /\ chk.action = "NONE"
          /\ chk.out \in Seq(Code)
          /\ chk.state = "Ack_Sent" => verdict = "ack"
          /\ chk.state # "Opened"
          /\ verdict # "ack" => chk.out \in Seq(Code \ {"ConfAck"})
      <4>1. "Req_Sent" \in FsmState \ {"Opened"}
        BY DEF FsmState
      <4>2. chk.state # "Opened"
        BY DEF CheckConf, FsmRet, Stay, Verdict
      <4> QED
        BY <4>1, <4>2, CheckConfEffect
    <3>2. ret = [chk EXCEPT !.out = req \o @]
      BY <2>1, <2>4 DEF RecvConfReq
    <3>3. ret.state = chk.state /\ ret.action = chk.action /\ ret.out = req \o chk.out
      <4>1. \E s, a, o : chk = [state |-> s, action |-> a, out |-> o]
        BY DEF CheckConf, FsmRet, Stay, Verdict
      <4> QED
        BY <3>2, <4>1
    <3> HIDE DEF ret, chk
    <3>4. ret.out \in Seq(Code)
      BY <1>0, <3>1, <3>3
    <3>5. verdict # "ack" => ret.out \in Seq(Code \ {"ConfAck"})
      BY <1>0, <3>1, <3>3
    <3> QED
      BY <1>2, <2>4, <3>1, <3>3, <3>4, <3>5 DEF ret, Action, Checking
  <2>5. CASE state \in {"Req_Sent", "Ack_Rcvd", "Ack_Sent"}
    <3>1. ret = CheckConf(proto, state, verdict)
      BY <2>1, <2>5 DEF RecvConfReq
    <3>2. ret.state = "Opened" => ret.action = "LAYER_UP"
      BY <2>5, <3>1 DEF CheckConf, FsmRet, Stay, Verdict
    <3>3. /\ ret.state \in FsmState /\ ret.action \in {"NONE", "LAYER_UP"}
          /\ ret.out \in Seq(Code)
          /\ ret.action = "LAYER_UP" => verdict = "ack" /\ state = "Ack_Rcvd" /\ ret.state = "Opened"
          /\ ret.state = "Ack_Sent" => verdict = "ack" \/ state = "Ack_Sent"
          /\ verdict # "ack" => ret.out \in Seq(Code \ {"ConfAck"})
      BY <2>5, <3>1, CheckConfEffect
    <3> HIDE DEF ret
    <3> QED
      BY <1>2, <2>5, <3>2, <3>3 DEF ret, Action, Checking
  <2> QED
    BY <1>2, <2>2, <2>3, <2>4, <2>5 DEF FsmState
<1>3. CASE state \notin {"Initial", "Starting"} /\ code = "ConfAck"
  <2>1. ret = RecvConfAck(state, req)
    BY <1>3 DEF Receive
  <2>2. \/ ret.state = state /\ ret.action = "NONE" /\ ret.out = <<>>
        \/ state = "Req_Sent" /\ ret.state = "Ack_Rcvd" /\ ret.action = "NONE" /\ ret.out = <<>>
        \/ state = "Ack_Sent" /\ ret.state = "Opened" /\ ret.action = "LAYER_UP" /\ ret.out = <<>>
        \/ state = "Opened" /\ ret.state = "Req_Sent" /\ ret.action = "LAYER_DOWN" /\ ret.out = req
    BY <2>1 DEF RecvConfAck, FsmRet, Stay
  <2> HIDE DEF ret
  <2> QED
    BY <1>0, <1>3, <2>2 DEF ret, Action, FsmState
<1>4. CASE state \notin {"Initial", "Starting"} /\ code = "TermReq"
  <2> DEFINE ack == MagicAnswer(proto, "TermAck", verdict)
  <2>1. ret = RecvTermReq(proto, state, verdict)
    BY <1>4 DEF Receive
  <2>2. ack \in Seq(Code) /\ ack \in Seq(Code \ {"ConfAck"})
    <3>1. ack \in {<<>>, <<"TermAck">>}
      BY DEF MagicAnswer
    <3> HIDE DEF ack
    <3> QED
      BY <3>1, PushedCodes DEF Pushed
  <2>3. ret.out = ack
        /\ \/ ret.state = state /\ ret.action = "NONE" /\ state # "Opened"
           \/ ret.state = "Req_Sent" /\ ret.action = "NONE" /\ state # "Opened"
           \/ ret.state = "Stopping" /\ ret.action = "LAYER_DOWN"
    BY <2>1 DEF RecvTermReq, FsmRet
  <2> HIDE DEF ret, ack
  <2> QED
    BY <1>4, <2>2, <2>3 DEF ret, Action, FsmState
<1>5. CASE state \notin {"Initial", "Starting"} /\ code = "EchoReq"
  <2> DEFINE reply == MagicAnswer(proto, "EchoRep", verdict)
  <2>1. reply \in Seq(Code) /\ reply \in Seq(Code \ {"ConfAck"})
    <3>1. reply \in {<<>>, <<"EchoRep">>}
      BY DEF MagicAnswer
    <3> HIDE DEF reply
    <3> QED
      BY <3>1, PushedCodes DEF Pushed
  <2>2. ret.state = state /\ ret.action = "NONE" /\ ret.out = reply
    BY <1>5 DEF Receive, FsmRet
  <2> HIDE DEF ret, reply
  <2> QED
    BY <1>5, <2>1, <2>2 DEF ret, Action
<1> QED
  BY <1>1, <1>2, <1>3, <1>4, <1>5

-------------------------------------------------------------------------------
(* Queues of packets. *)

NotAuth == {m \in MsgToPeer : m.proto # "AUTH"}
NotAck == {m \in MsgToPeer : ~(m.proto = "IPCP" /\ m.code = "ConfAck")}

\* A sequence of the values of S.
LEMMA SeqOf ==
    ASSUME NEW S, NEW n \in Nat, NEW s, s = [i \in 1..n |-> s[i]], \A i \in 1..n : s[i] \in S
    PROVE  s \in Seq(S) /\ Len(s) = n
  OBVIOUS

LEMMA SeqMono ==
    ASSUME NEW S, NEW T, NEW s \in Seq(S), \A i \in 1..Len(s) : s[i] \in T
    PROVE  s \in Seq(T)
  OBVIOUS

\* What is lost or repeated is part of the queue.
LEMMA QueueOps ==
    ASSUME NEW S, NEW s \in Seq(S), s # <<>>
    PROVE  Head(s) \in S /\ Tail(s) \in Seq(S) /\ <<Head(s)>> \o s \in Seq(S)
<1>1. Head(s) \in S /\ Tail(s) \in Seq(S)
  OBVIOUS
<1>2. <<Head(s)>> \in Seq(S)
  BY <1>1, Short
<1> QED
  BY <1>1, <1>2

LEMMA Concat ==
    ASSUME NEW S, NEW s \in Seq(S), NEW t \in Seq(S)
    PROVE  s \o t \in Seq(S)
  OBVIOUS

LEMMA Associative ==
    ASSUME NEW s \in Seq(MsgToPeer), NEW t \in Seq(MsgToPeer), NEW u \in Seq(MsgToPeer)
    PROVE  (s \o t) \o u = s \o (t \o u) /\ t \o u \in Seq(MsgToPeer)
  OBVIOUS

LEMMA ConcatElements ==
    ASSUME NEW S, NEW s \in Seq(S), NEW t \in Seq(S)
    PROVE  \A i \in 1..Len(s \o t) : \/ \E j \in 1..Len(s) : (s \o t)[i] = s[j]
                                    \/ \E j \in 1..Len(t) : (s \o t)[i] = t[j]
<1>1. /\ Len(s) \in Nat /\ Len(t) \in Nat /\ Len(s \o t) = Len(s) + Len(t)
      /\ \A i \in 1..Len(s \o t) : (s \o t)[i] = IF i <= Len(s) THEN s[i] ELSE t[i - Len(s)]
  OBVIOUS
<1> TAKE i \in 1..Len(s \o t)
<1>2. CASE i <= Len(s)
  BY <1>1, <1>2
<1>3. CASE i > Len(s)
  <2>1. i - Len(s) \in 1..Len(t)
    BY <1>1, <1>3
  <2> QED
    BY <1>1, <1>3, <2>1
<1> QED
  BY <1>1, <1>2, <1>3

LEMMA NotAckSeq == \A s \in Seq(NotAck) : s \in Seq(MsgToPeer)
  BY SeqMono DEF NotAck

\* The packets an automaton pushed are of its protocol, and a Configure-Ack has
\* the identifier of the request.
LEMMA PacketsSent ==
    ASSUME NEW proto \in {"LCP", "IPCP"}, NEW codes \in Seq(Code), NEW m, m.id \in Nat, NEW arg \in Arg
    PROVE  LET sent == Packets(proto, codes, m, arg)
           IN  /\ sent \in Seq(MsgToPeer) /\ sent \in Seq(NotAuth)
               /\ Len(sent) = Len(codes)
               /\ \A i \in 1..Len(codes) : /\ sent[i].proto = proto /\ sent[i].code = codes[i]
                                           /\ codes[i] = "ConfAck" => sent[i].id = m.id
               /\ proto = "LCP" \/ codes \in Seq(Code \ {"ConfAck"}) => sent \in Seq(NotAck)
<1> DEFINE sent == Packets(proto, codes, m, arg)
<1>1. Len(codes) \in Nat /\ \A i \in 1..Len(codes) : codes[i] \in Code
  OBVIOUS
<1>2. \A i \in 1..Len(codes) :
         /\ sent[i] \in MsgToPeer /\ sent[i].proto = proto /\ sent[i].code = codes[i]
         /\ codes[i] = "ConfAck" => sent[i].id = m.id
  <2> SUFFICES ASSUME NEW i \in 1..Len(codes)
               PROVE  /\ sent[i] \in MsgToPeer /\ sent[i].proto = proto /\ sent[i].code = codes[i]
                      /\ codes[i] = "ConfAck" => sent[i].id = m.id
    OBVIOUS
  <2>1. sent[i] = Msg(proto, codes[i], IF codes[i] = "ConfReq" THEN 1 ELSE m.id,
                      IF codes[i] \in {"ConfAck", "ConfNak"} THEN arg ELSE NoAddr)
    BY DEF Packets
  <2>2. Code \subseteq PacketCode
    BY DEF Code, PacketCode
  <2> QED
    BY <1>1, <2>1, <2>2 DEF Msg, MsgToPeer, Arg
<1>3. sent = [i \in 1..Len(codes) |-> sent[i]]
  BY DEF Packets
<1> HIDE DEF sent
<1>4. sent \in Seq(MsgToPeer) /\ Len(sent) = Len(codes)
  BY <1>1, <1>2, <1>3, SeqOf
<1>5. sent \in Seq(NotAuth)
  <2>1. \A i \in 1..Len(codes) : sent[i] \in NotAuth
    BY <1>2 DEF NotAuth
  <2> QED
    BY <1>4, <2>1, SeqMono
<1>6. ASSUME proto = "LCP" \/ codes \in Seq(Code \ {"ConfAck"})
      PROVE  sent \in Seq(NotAck)
  <2>1. \A i \in 1..Len(codes) : proto = "LCP" \/ codes[i] # "ConfAck"
    BY <1>6
  <2>2. \A i \in 1..Len(codes) : sent[i] \in NotAck
    BY <1>2, <2>1 DEF NotAck
  <2> QED
    BY <1>4, <2>2, SeqMono
<1> QED
  BY <1>2, <1>4, <1>5, <1>6 DEF sent

\* A packet without options.
LEMMA PlainSent ==
    ASSUME NEW proto \in {"LCP", "AUTH"}, NEW code \in PacketCode
    PROVE  <<Plain(proto, code)>> \in Seq(MsgToPeer) /\ <<Plain(proto, code)>> \in Seq(NotAck)
<1>1. Plain(proto, code) \in MsgToPeer /\ Plain(proto, code) \in NotAck
  BY DEF Plain, Msg, MsgToPeer, NotAck, Arg
<1> QED
  BY <1>1, Short

-------------------------------------------------------------------------------
(* What the handlers of the daemon do. *)

\* The address of the AAA session, which each success replaces.
KeepsAaa == UNCHANGED <<aaa, bound, assigned>>

\* The first packet opens LCP and may send its request.
LEMMA StartEffect ==
    ASSUME TypeOK
    PROVE  /\ LcpStart.state \in FsmState
           /\ lcp = "Opened" => LcpStart.state = "Opened"
           /\ LcpStart.state = "Opened" => lcp = "Opened"
           /\ StartPackets \in Seq(NotAuth) /\ StartPackets \in Seq(NotAck)
           /\ StartPackets \in Seq(MsgToPeer)
<1>1. LcpReq \in {<<>>, <<"ConfReq">>} /\ lcp \in FsmState
  BY DEF LcpReq, TypeOK
<1>2. /\ LcpStart.state \in FsmState
      /\ lcp = "Opened" => LcpStart.state = "Opened"
      /\ LcpStart.state = "Opened" => lcp = "Opened"
      /\ LcpStart.out \in Seq(Code)
  <2>1. CASE started
    <3>1. LcpStart.state = lcp /\ LcpStart.out = <<>>
      BY <2>1 DEF LcpStart, Stay, FsmRet
    <3> HIDE DEF LcpStart
    <3> QED
      BY <1>1, <3>1
  <2>2. CASE ~started
    <3>1. LcpStart = OpenAndUp(lcp, LcpReq)
      BY <2>2 DEF LcpStart
    <3> QED
      BY <1>1, <3>1, OpenAndUpEffect
  <2> QED
    BY <2>1, <2>2
<1>3. Plain("LCP", "").id \in Nat /\ NoAddr \in Arg
  BY DEF Plain, Msg, Arg
<1> QED
  BY <1>2, <1>3, PacketsSent DEF StartPackets

\* LCP: what it does to IPCP and what it sends. A challenge goes out only when
\* it comes up; when it goes down the session ends.
LEMMA LcpEffect ==
    ASSUME TypeOK, NEW m \in MsgToServer, ReceiveLcp(m)
    PROVE  /\ lcp' \in FsmState /\ ipcp' \in FsmState /\ alive' \in BOOLEAN /\ echoCounter' \in Nat
           /\ lcp = "Opened" => lcp' = "Opened" \/ ~alive'
           /\ ipcp' = "Ack_Sent" => ipcp = "Ack_Sent"
           /\ AuthProto # "none" => ipcp' = ipcp
           /\ \E sent \in Seq(NotAck) :
                 /\ toPeer' = toPeer \o sent
                 /\ AuthProto = "CHAP" /\ lcp' # "Opened" => sent \in Seq(NotAuth)
<1> DEFINE verdict == IF m.arg = "unknown" THEN "rej" ELSE "ack"
           ret  == Receive("LCP", LcpStart.state, m.code, verdict, LcpReq)
           next == IF ret.action = "LAYER_UP" THEN Challenge ELSE <<>>
           ipcpUp == IF ret.action = "LAYER_UP" /\ AuthProto = "none"
                     THEN OpenAndUp(ipcp, IpcpReq) ELSE Stay(ipcp)
           lcpOut == Packets("LCP", ret.out, m, NoAddr)
           ipcpOut == Packets("IPCP", ipcpUp.out, m, NoAddr)
<1>1. /\ lcp' = ret.state /\ ipcp' = ipcpUp.state /\ alive' = (ret.action # "LAYER_DOWN")
      /\ toPeer' = toPeer \o StartPackets \o lcpOut \o next \o ipcpOut
      /\ echoCounter' \in {0, echoCounter}
  BY DEF ReceiveLcp
<1>2. /\ LcpReq \in {<<>>, <<"ConfReq">>} /\ IpcpReq \in {<<>>, <<"ConfReq">>}
      /\ verdict \in Verdict /\ m.id \in Nat /\ NoAddr \in Arg
      /\ ipcp \in FsmState /\ echoCounter \in Nat /\ toPeer \in Seq(MsgToPeer)
  BY DEF LcpReq, IpcpReq, Verdict, MsgToServer, Arg, TypeOK
<1>3. /\ ret.state \in FsmState /\ ret.out \in Seq(Code)
      /\ ret.action = "LAYER_UP" => ret.state = "Opened"
      /\ lcp = "Opened" => ret.state = "Opened" \/ ret.action = "LAYER_DOWN"
  <2> HIDE DEF verdict
  <2> QED
    BY <1>2, StartEffect, ReceiveEffect
<1>4. /\ ipcpUp.state \in FsmState /\ ipcpUp.out \in Seq(Code)
      /\ ipcpUp.out \in Seq(Code \ {"ConfAck"})
      /\ ipcpUp.state = "Ack_Sent" => ipcp = "Ack_Sent"
      /\ AuthProto # "none" => ipcpUp.state = ipcp
  <2>1. CASE ipcpUp = Stay(ipcp)
    <3>1. ipcpUp.state = ipcp /\ ipcpUp.out = <<>>
      BY <2>1 DEF Stay, FsmRet
    <3> HIDE DEF ipcpUp
    <3> QED
      BY <1>2, <3>1, PushedCodes DEF Pushed
  <2>2. CASE ipcpUp = OpenAndUp(ipcp, IpcpReq) /\ AuthProto = "none"
    BY <1>2, <2>2, OpenAndUpEffect
  <2> QED
    BY <2>1, <2>2
<1>5. next \in Seq(NotAck) /\ (ret.action # "LAYER_UP" => next \in Seq(NotAuth))
  <2>1. Challenge \in Seq(NotAck)
    BY PlainSent, Short DEF Challenge, PacketCode
  <2>2. <<>> \in Seq(NotAuth) /\ <<>> \in Seq(NotAck)
    OBVIOUS
  <2> QED
    BY <2>1, <2>2
<1> HIDE DEF verdict, ret, next, ipcpUp
<1>6. /\ lcpOut \in Seq(NotAck) /\ lcpOut \in Seq(NotAuth)
      /\ ipcpOut \in Seq(NotAck) /\ ipcpOut \in Seq(NotAuth)
  BY <1>2, <1>3, <1>4, PacketsSent
<1> HIDE DEF lcpOut, ipcpOut
<1> DEFINE sent == StartPackets \o (lcpOut \o (next \o ipcpOut))
<1>7. sent \in Seq(NotAck)
  BY <1>5, <1>6, StartEffect
<1>8. ret.action # "LAYER_UP" => sent \in Seq(NotAuth)
  BY <1>5, <1>6, StartEffect
<1>9. toPeer' = toPeer \o sent
  <2>1. /\ StartPackets \in Seq(MsgToPeer) /\ lcpOut \in Seq(MsgToPeer)
        /\ next \in Seq(MsgToPeer) /\ ipcpOut \in Seq(MsgToPeer)
    BY <1>5, <1>6, StartEffect, NotAckSeq
  <2> DEFINE front == toPeer \o StartPackets
             most == front \o lcpOut
             rest == next \o ipcpOut
  <2>2. front \in Seq(MsgToPeer) /\ most \in Seq(MsgToPeer) /\ rest \in Seq(MsgToPeer)
    BY <1>2, <2>1
  <2>3. most \o next \o ipcpOut = most \o rest
    <3>1. most \in Seq(MsgToPeer) /\ next \in Seq(MsgToPeer) /\ ipcpOut \in Seq(MsgToPeer)
      BY <2>1, <2>2
    <3> HIDE DEF sent, front, most
    <3> QED
      BY <3>1, Associative
  <2>4. most \o rest = front \o (lcpOut \o rest)
    <3>1. front \in Seq(MsgToPeer) /\ lcpOut \in Seq(MsgToPeer) /\ rest \in Seq(MsgToPeer)
      BY <2>1, <2>2
    <3> HIDE DEF sent, front, rest
    <3> QED
      BY <3>1, Associative
  <2>5. front \o (lcpOut \o rest) = toPeer \o (StartPackets \o (lcpOut \o rest))
    <3>1. lcpOut \o rest \in Seq(MsgToPeer)
      BY <2>1, <2>2, Associative
    <3> HIDE DEF rest
    <3> QED
      BY <1>2, <2>1, <3>1, Associative
  <2> QED
    BY <1>1, <2>3, <2>4, <2>5
<1> HIDE DEF sent
<1>10. alive' \in BOOLEAN /\ (ret.action = "LAYER_DOWN" => ~alive')
  BY <1>1
<1>11. echoCounter' \in Nat
  BY <1>1, <1>2
<1>12. \E packets \in Seq(NotAck) :
          /\ toPeer' = toPeer \o packets
          /\ AuthProto = "CHAP" /\ lcp' # "Opened" => packets \in Seq(NotAuth)
  BY <1>1, <1>3, <1>7, <1>8, <1>9
<1> QED
  BY <1>1, <1>3, <1>4, <1>10, <1>11, <1>12

\* The acknowledgement of the authentication opens IPCP.
LEMMA AuthAckEffect ==
    ASSUME TypeOK
    PROVE  /\ AuthAck.state \in FsmState /\ AuthAck.out \in Seq(NotAck)
           /\ AuthAck.state = "Ack_Sent" => ipcp = "Ack_Sent"
<1> DEFINE up == OpenAndUp(ipcp, IpcpReq)
           request == Packets("IPCP", up.out, Plain("IPCP", ""), NoAddr)
<1>1. /\ up.state \in FsmState /\ up.out \in Seq(Code) /\ up.out \in Seq(Code \ {"ConfAck"})
      /\ up.state = "Ack_Sent" => ipcp = "Ack_Sent"
  BY OpenAndUpEffect DEF TypeOK, IpcpReq
<1>2. Plain("IPCP", "").id \in Nat /\ NoAddr \in Arg
  BY DEF Plain, Msg, Arg
<1>3. AuthAck.state = up.state /\ AuthAck.out = <<Plain("AUTH", "Ack")>> \o request
  BY DEF AuthAck
<1> HIDE DEF up
<1>4. request \in Seq(NotAck)
  BY <1>1, <1>2, PacketsSent
<1>5. <<Plain("AUTH", "Ack")>> \in Seq(NotAck)
  BY PlainSent DEF PacketCode
<1> HIDE DEF request
<1> QED
  BY <1>1, <1>3, <1>4, <1>5

\* Authentication leaves LCP open, never opens IPCP to the end, and binds at
\* most one more AAA session.
LEMMA AuthEffect ==
    ASSUME TypeOK, NEW m \in MsgToServer, ReceiveAuth(m)
    PROVE  /\ lcp' \in FsmState /\ ipcp' \in FsmState /\ authed' \in BOOLEAN /\ accepted' \in BOOLEAN
           /\ radius' \in Nat
           /\ lcp = "Opened" => lcp' = "Opened"
           /\ ipcp' = "Ack_Sent" => ipcp = "Ack_Sent"
           /\ UNCHANGED <<alive, rejected, address, dp, echoArmed, echoCounter>>
           /\ BindAaa \/ KeepsAaa
           /\ \E sent \in Seq(NotAck) : toPeer' = toPeer \o sent
<1>1. /\ lcp' \in FsmState /\ (lcp = "Opened" => lcp' = "Opened")
  BY StartEffect DEF ReceiveAuth
<1>2. /\ ipcp' \in FsmState /\ (ipcp' = "Ack_Sent" => ipcp = "Ack_Sent")
  BY AuthAckEffect DEF ReceiveAuth, TypeOK
<1>3. authed' \in BOOLEAN /\ accepted' \in BOOLEAN
  BY DEF ReceiveAuth, TypeOK, NoneTried
<1>4. radius' \in Nat
  BY DEF ReceiveAuth, TypeOK
<1>5. UNCHANGED <<alive, rejected, address, dp, echoArmed, echoCounter>> /\ (BindAaa \/ KeepsAaa)
  BY DEF ReceiveAuth, KeepsAaa
<1>6. \E sent \in Seq(NotAck) : toPeer' = toPeer \o sent
  <2>1. PICK more \in {AuthAck.out, <<>>} : toPeer' = toPeer \o StartPackets \o more
    BY DEF ReceiveAuth
  <2>2. more \in Seq(NotAck) /\ more \in Seq(MsgToPeer)
    <3>1. <<>> \in Seq(NotAck)
      OBVIOUS
    <3> QED
      BY <3>1, AuthAckEffect, NotAckSeq
  <2>3. toPeer' = toPeer \o (StartPackets \o more)
    BY <2>1, <2>2, StartEffect, Associative DEF TypeOK
  <2>4. StartPackets \o more \in Seq(NotAck)
    BY <2>2, StartEffect
  <2> QED
    BY <2>3, <2>4
<1> QED
  BY <1>1, <1>2, <1>3, <1>4, <1>5, <1>6

\* A result of RADIUS binds an AAA session or finds the object gone.
LEMMA BindEffect ==
    ASSUME TypeOK, NEW before \in Seq(NotAck), Bind(before)
    PROVE  /\ ipcp' \in FsmState /\ authed' \in BOOLEAN
           /\ ipcp' = "Ack_Sent" => ipcp = "Ack_Sent"
           /\ BindAaa \/ KeepsAaa
           /\ \E sent \in Seq(NotAck) : toPeer' = toPeer \o sent
<1>1. CASE alive \/ echoArmed
  <2>1. /\ authed' = TRUE /\ BindAaa /\ ipcp' = AuthAck.state
        /\ toPeer' = toPeer \o before \o AuthAck.out
    BY <1>1 DEF Bind
  <2>2. AuthAck.out \in Seq(NotAck) /\ AuthAck.out \in Seq(MsgToPeer) /\ before \in Seq(MsgToPeer)
    BY AuthAckEffect, NotAckSeq
  <2>3. toPeer' = toPeer \o (before \o AuthAck.out)
    BY <2>1, <2>2, Associative DEF TypeOK
  <2>4. before \o AuthAck.out \in Seq(NotAck)
    BY <2>2
  <2> QED
    BY <2>1, <2>3, <2>4, AuthAckEffect
<1>2. CASE ~(alive \/ echoArmed)
  <2>1. UNCHANGED <<authed, bound, aaa, assigned, ipcp, toPeer>>
    BY <1>2 DEF Bind
  <2>2. toPeer' = toPeer \o <<>> /\ <<>> \in Seq(NotAck)
    BY <2>1 DEF TypeOK
  <2> QED
    BY <2>1, <2>2 DEF TypeOK, KeepsAaa
<1> QED
  BY <1>1, <1>2

\* What LCP sends first is no answer.
LEMMA StartSendsNoAck ==
    ASSUME TypeOK
    PROVE  \A i \in 1..Len(StartPackets) : StartPackets[i].code # "ConfAck"
<1>1. LcpReq \in {<<>>, <<"ConfReq">>} /\ lcp \in FsmState
  BY DEF LcpReq, TypeOK
<1>2. LcpStart.out \in Seq(Code) /\ LcpStart.out \in Seq(Code \ {"ConfAck"})
  <2>1. CASE started
    <3>1. LcpStart.out = <<>>
      BY <2>1 DEF LcpStart, Stay, FsmRet
    <3> HIDE DEF LcpStart
    <3> QED
      BY <3>1, PushedCodes DEF Pushed
  <2>2. CASE ~started
    BY <1>1, <2>2, OpenAndUpEffect DEF LcpStart
  <2> QED
    BY <2>1, <2>2
<1>3. Plain("LCP", "").id \in Nat /\ NoAddr \in Arg
  BY DEF Plain, Msg, Arg
<1>4. /\ Len(StartPackets) = Len(LcpStart.out)
      /\ \A i \in 1..Len(LcpStart.out) : StartPackets[i].code = LcpStart.out[i]
  <2> DEFINE out == LcpStart.out
             none == Plain("LCP", "")
             first == Packets("LCP", out, none, NoAddr)
  <2>1. out \in Seq(Code) /\ StartPackets = first
    BY <1>2 DEF StartPackets
  <2>2. Len(first) = Len(out) /\ \A i \in 1..Len(out) : first[i].code = out[i]
    <3> HIDE DEF out, none
    <3>1. none.id \in Nat /\ NoAddr \in Arg
      BY <1>3 DEF none
    <3> QED
      BY <2>1, <3>1, PacketsSent
  <2> QED
    BY <2>1, <2>2 DEF out
<1>5. \A i \in 1..Len(LcpStart.out) : LcpStart.out[i] # "ConfAck"
  <2> HIDE DEF LcpStart
  <2> QED
    BY <1>2
<1> QED
  BY <1>4, <1>5

\* A request was acknowledged before, or the address is copied now.
Checked == ipcp = "Ack_Sent" \/ (bound > 0 /\ address' = aaa)

\* IPCP: the address is taken from the AAA session before the dataplane gets
\* it, and a Configure-Ack answers a request for just this address.
LEMMA IpcpEffect ==
    ASSUME TypeOK, NEW m \in MsgToServer, ReceiveIpcp(m)
    PROVE  /\ lcp' \in FsmState /\ ipcp' \in FsmState /\ echoArmed' \in BOOLEAN
           /\ lcp = "Opened" => lcp' = "Opened"
           /\ UNCHANGED <<alive, authed, radius, rejected, accepted, bound, aaa, assigned, echoCounter>>
           /\ ipcp = "Initial" => ipcp' = "Initial"
           /\ address' = address \/ (address' = aaa /\ bound > 0)
           /\ dp' # dp => dp' = address' /\ echoArmed' /\ Checked
           /\ ipcp' = "Ack_Sent" => Checked
           /\ echoArmed' => echoArmed \/ Checked
           /\ \E sent \in Seq(NotAuth) :
                 /\ toPeer' = toPeer \o sent
                 /\ \A i \in 1..Len(sent) :
                       sent[i].code = "ConfAck" => /\ sent[i].id = m.id /\ m.code = "ConfReq"
                                                   /\ m.arg = aaa /\ bound > 0
<1> DEFINE verdict == IpcpVerdict(m)
           ret == Receive("IPCP", ipcp, m.code, verdict, IpcpReq)
           acked == m.code = "ConfReq" /\ verdict = "ack" /\ ipcp \in Checking
           ipcpOut == Packets("IPCP", ret.out, m, address')
<1> DEFINE up == ret.action = "LAYER_UP"
<1>0. address' = IpcpAddress(m)
  BY DEF ReceiveIpcp
<1>1. /\ lcp' = LcpStart.state /\ ipcp' = ret.state
      /\ toPeer' = toPeer \o StartPackets \o ipcpOut
      /\ dp' # dp => up /\ dp' = address'
      /\ echoArmed' = (echoArmed \/ up)
      /\ UNCHANGED <<alive, authed, radius, rejected, accepted, bound, aaa, assigned, echoCounter>>
  BY DEF ReceiveIpcp, ProvisionDp
<1>2. /\ verdict \in Verdict
      /\ verdict = "ack" => bound > 0 /\ m.arg = aaa
  BY DEF IpcpVerdict, Verdict
<1>3. /\ IpcpReq \in {<<>>, <<"ConfReq">>} /\ ipcp \in FsmState
      /\ m.id \in Nat /\ toPeer \in Seq(MsgToPeer)
  BY DEF IpcpReq, TypeOK, MsgToServer
<1>4. acked => address' = aaa /\ bound > 0 /\ m.arg = aaa
  BY <1>0, <1>2 DEF IpcpAddress, IpcpChecks, Checking
<1>5. address' = address \/ (address' = aaa /\ bound > 0)
  BY <1>0 DEF IpcpAddress, IpcpChecks
<1> HIDE DEF verdict
<1>6. /\ ret.state \in FsmState /\ ret.out \in Seq(Code)
      /\ ipcp = "Initial" => ret.state = "Initial"
      /\ ret.action = "LAYER_UP" => ipcp = "Ack_Sent" \/ acked
      /\ ret.state = "Ack_Sent" => ipcp = "Ack_Sent" \/ acked
      /\ ~acked => ret.out \in Seq(Code \ {"ConfAck"})
  BY <1>2, <1>3, ReceiveEffect
<1>7. address' \in Arg
  BY <1>5 DEF TypeOK, Arg
<1> HIDE DEF ret
<1>8. /\ ipcpOut \in Seq(NotAuth) /\ ipcpOut \in Seq(MsgToPeer)
      /\ \A i \in 1..Len(ipcpOut) : ipcpOut[i].code = "ConfAck" => ipcpOut[i].id = m.id /\ acked
  <2>1. /\ ipcpOut \in Seq(MsgToPeer) /\ ipcpOut \in Seq(NotAuth) /\ Len(ipcpOut) = Len(ret.out)
        /\ \A i \in 1..Len(ret.out) : /\ ipcpOut[i].code = ret.out[i]
                                      /\ ret.out[i] = "ConfAck" => ipcpOut[i].id = m.id
    BY <1>3, <1>6, <1>7, PacketsSent
  <2>2. \A i \in 1..Len(ret.out) : ret.out[i] = "ConfAck" => acked
    BY <1>6
  <2> HIDE DEF ipcpOut, acked
  <2> QED
    BY <2>1, <2>2
<1>9. \E sent \in Seq(NotAuth) :
         /\ toPeer' = toPeer \o sent
         /\ \A i \in 1..Len(sent) :
               sent[i].code = "ConfAck" => sent[i].id = m.id /\ acked
  <2> HIDE DEF ipcpOut, acked
  <2>1. StartPackets \in Seq(MsgToPeer) /\ StartPackets \in Seq(NotAuth)
    BY StartEffect
  <2>2. \A i \in 1..Len(StartPackets) : StartPackets[i].code # "ConfAck"
    BY <2>1, StartSendsNoAck
  <2>3. toPeer' = toPeer \o (StartPackets \o ipcpOut)
    BY <1>1, <1>3, <1>8, <2>1, Associative
  <2>4. StartPackets \o ipcpOut \in Seq(NotAuth)
    BY <1>8, <2>1, Concat
  <2>5. \A i \in 1..Len(StartPackets \o ipcpOut) :
           \/ \E j \in 1..Len(StartPackets) : (StartPackets \o ipcpOut)[i] = StartPackets[j]
           \/ \E j \in 1..Len(ipcpOut) : (StartPackets \o ipcpOut)[i] = ipcpOut[j]
    <3>1. ipcpOut \in Seq(MsgToPeer)
      BY <1>8
    <3> QED
      BY <2>1, <3>1, ConcatElements
  <2> QED
    BY <1>8, <2>2, <2>3, <2>4, <2>5
<1> HIDE DEF acked, ipcpOut
<1>10. lcp' \in FsmState /\ (lcp = "Opened" => lcp' = "Opened")
  BY <1>1, StartEffect
<1>11. echoArmed' \in BOOLEAN
  BY <1>1 DEF TypeOK
<1>12. /\ dp' # dp => dp' = address' /\ echoArmed' /\ Checked
       /\ ipcp' = "Ack_Sent" => Checked
       /\ echoArmed' => echoArmed \/ Checked
  BY <1>1, <1>4, <1>6 DEF Checked
<1>13. \E sent \in Seq(NotAuth) :
          /\ toPeer' = toPeer \o sent
          /\ \A i \in 1..Len(sent) :
                sent[i].code = "ConfAck" => /\ sent[i].id = m.id /\ m.code = "ConfReq"
                                            /\ m.arg = aaa /\ bound > 0
  BY <1>4, <1>9 DEF acked
<1> QED
  BY <1>1, <1>5, <1>6, <1>10, <1>11, <1>12, <1>13

-------------------------------------------------------------------------------
(* What the subscriber does. *)

Settled == {"Ack_Rcvd", "Opened"}   \* its request was acknowledged

\* The request that peer p has out, and everything that is none.
Asked(p) == {m \in MsgToServer : m.proto = "IPCP" /\ m.code = "ConfReq"
                                 => m.id = p.id["IPCP"] /\ m.arg = p.want["IPCP"]}

\* IPCP of a peer that was p and is q: another address is asked for under a new
\* identifier, and the request is settled by an acknowledgement only.
NextPeer(p, q, acknowledged) ==
    /\ q \in Peer
    /\ q.id["IPCP"] >= p.id["IPCP"]
    /\ q.id["IPCP"] = p.id["IPCP"] => q.want["IPCP"] = p.want["IPCP"]
    /\ q.state["IPCP"] \in Settled =>
          /\ q.id["IPCP"] = p.id["IPCP"]
          /\ p.state["IPCP"] \in Settled \/ acknowledged

\* The message acknowledges the request of p.
Acks(p, m) == m.proto = "IPCP" /\ m.code = "ConfAck" /\ m.id = p.id["IPCP"]

LEMMA AsksEffect ==
    ASSUME NEW p \in Peer, NEW proto \in Layer, NEW value \in Arg
    PROVE  LET q == Asks(p, proto, value)
           IN  /\ q \in Peer /\ q.state = p.state /\ q.auth = p.auth
               /\ q.id[proto] = p.id[proto] + 1 /\ q.want[proto] = value
               /\ \A other \in Layer \ {proto} : q.id[other] = p.id[other] /\ q.want[other] = p.want[other]
<1> DEFINE id == [p.id EXCEPT ![proto] = @ + 1]
           want == [p.want EXCEPT ![proto] = value]
           q == Asks(p, proto, value)
<1>1. /\ p.id \in [Layer -> Nat] /\ p.want \in [Layer -> Arg] /\ p.state \in [Layer -> PeerState]
      /\ p.auth \in {"idle", "sent", "ok"} /\ p.resent \in Nat /\ p.gone \in BOOLEAN
  BY DEF Peer
<1>2. q = [state |-> p.state, id |-> id, want |-> want, auth |-> p.auth,
           resent |-> p.resent, gone |-> p.gone]
  <2>1. p = [state |-> p.state, id |-> p.id, want |-> p.want, auth |-> p.auth,
             resent |-> p.resent, gone |-> p.gone]
    BY DEF Peer
  <2>2. q = [p EXCEPT !.id = id, !.want = want]
    BY DEF Asks
  <2> HIDE DEF q, id, want
  <2> QED
    BY <2>1, <2>2
<1>3. id \in [Layer -> Nat] /\ want \in [Layer -> Arg]
  BY <1>1
<1>4. /\ id[proto] = p.id[proto] + 1 /\ want[proto] = value
      /\ \A other \in Layer \ {proto} : id[other] = p.id[other] /\ want[other] = p.want[other]
  BY <1>1
<1>5. /\ q.state = p.state /\ q.id = id /\ q.want = want /\ q.auth = p.auth
      /\ q \in Peer
  <2> HIDE DEF id, want
  <2> QED
    BY <1>1, <1>2, <1>3 DEF Peer
<1> QED
  BY <1>4, <1>5

\* A request, an acknowledgement or another packet of the peer.
LEMMA PeerSends ==
    ASSUME NEW p \in Peer
    PROVE  /\ \A proto \in Layer : Request(p, proto) \in Asked(p) /\ Request(p, proto).proto = proto
           /\ \A proto \in Layer, n \in Nat : /\ Msg(proto, "ConfAck", n, NoAddr) \in Asked(p)
                                             /\ Msg(proto, "ConfAck", n, NoAddr).proto = proto
           /\ \A code \in PacketCode : Plain("LCP", code) \in Asked(p) /\ Plain("LCP", code).proto = "LCP"
           /\ \A code \in PacketCode : Plain("AUTH", code) \in Asked(p)
<1> USE DEF Msg, MsgToServer, Asked, Arg
<1>1. \A proto \in Layer : Request(p, proto) \in Asked(p) /\ Request(p, proto).proto = proto
  BY DEF Request, Peer, Layer, PacketCode
<1>2. \A proto \in Layer, n \in Nat : /\ Msg(proto, "ConfAck", n, NoAddr) \in Asked(p)
                                     /\ Msg(proto, "ConfAck", n, NoAddr).proto = proto
  BY DEF Layer, PacketCode
<1>3. \A code \in PacketCode : Plain("LCP", code) \in Asked(p) /\ Plain("LCP", code).proto = "LCP"
  BY DEF Plain
<1>4. \A code \in PacketCode : Plain("AUTH", code) \in Asked(p)
  BY DEF Plain
<1> QED
  BY <1>1, <1>2, <1>3, <1>4

\* Packets that are no authentication.
Calm(p) == {m \in Asked(p) : m.proto # "AUTH"}

LEMMA Pair ==
    ASSUME NEW S, NEW a \in S, NEW b \in S
    PROVE  <<a, b>> \in Seq(S)
  OBVIOUS

\* A new state of one layer changes nothing else.
LEMMA StateEffect ==
    ASSUME NEW p \in Peer, NEW proto \in Layer, NEW s \in PeerState
    PROVE  LET q == [p EXCEPT !.state[proto] = s]
           IN  /\ q \in Peer /\ q.id = p.id /\ q.want = p.want /\ q.auth = p.auth
               /\ q.state[proto] = s
               /\ \A other \in Layer \ {proto} : q.state[other] = p.state[other]
<1> DEFINE state == [p.state EXCEPT ![proto] = s]
           q == [p EXCEPT !.state[proto] = s]
<1>1. /\ p.id \in [Layer -> Nat] /\ p.want \in [Layer -> Arg] /\ p.state \in [Layer -> PeerState]
      /\ p.auth \in {"idle", "sent", "ok"} /\ p.resent \in Nat /\ p.gone \in BOOLEAN
  BY DEF Peer
<1>2. q = [state |-> state, id |-> p.id, want |-> p.want, auth |-> p.auth,
           resent |-> p.resent, gone |-> p.gone]
  <2>1. p = [state |-> p.state, id |-> p.id, want |-> p.want, auth |-> p.auth,
             resent |-> p.resent, gone |-> p.gone]
    BY DEF Peer
  <2>2. q = [p EXCEPT !.state = state]
    OBVIOUS
  <2> HIDE DEF q, state
  <2> QED
    BY <2>1, <2>2
<1>3. /\ state \in [Layer -> PeerState] /\ state[proto] = s
      /\ \A other \in Layer \ {proto} : state[other] = p.state[other]
  BY <1>1
<1>4. /\ q.state = state /\ q.id = p.id /\ q.want = p.want /\ q.auth = p.auth
      /\ q \in Peer
  <2> HIDE DEF state
  <2> QED
    BY <1>1, <1>2, <1>3 DEF Peer
<1> QED
  BY <1>3, <1>4

\* The automaton of the peer.
LEMMA PeerHandlesEffect ==
    ASSUME NEW p \in Peer, NEW m \in MsgToPeer, m.proto \in Layer
    PROVE  LET ret == PeerHandles(p, m)
           IN  NextPeer(p, ret.peer, Acks(p, m)) /\ ret.out \in Seq(Calm(ret.peer))
<1> DEFINE proto == m.proto
           state == p.state[proto]
           ret == PeerHandles(p, m)
           ack == Msg(proto, "ConfAck", m.id, NoAddr)
           again == Asks(p, proto, IF m.code = "ConfNak" THEN m.arg ELSE NoAddr)
           over == Asks(p, proto, p.want[proto])
<1>0. /\ state \in PeerState /\ p.want[proto] \in Arg /\ m.id \in Nat /\ m.arg \in Arg
      /\ NoAddr \in Arg /\ "IPCP" \in Layer
      /\ p.id[proto] \in Nat /\ p.id["IPCP"] \in Nat
  BY DEF Peer, MsgToPeer, Layer, Arg
<1>1. ASSUME NEW s \in PeerState, NEW q, q = [p EXCEPT !.state[proto] = s],
             proto = "IPCP" /\ s \in Settled => p.state["IPCP"] \in Settled \/ Acks(p, m)
      PROVE  NextPeer(p, q, Acks(p, m)) /\ Asked(q) = Asked(p)
  <2>1. /\ q \in Peer /\ q.id = p.id /\ q.want = p.want /\ q.state[proto] = s
        /\ \A other \in Layer \ {proto} : q.state[other] = p.state[other]
    BY <1>1, StateEffect
  <2>2. q.state["IPCP"] \in Settled => p.state["IPCP"] \in Settled \/ Acks(p, m)
    BY <1>0, <1>1, <2>1
  <2> QED
    BY <1>0, <2>1, <2>2 DEF NextPeer, Asked
<1>2. ASSUME NEW value \in Arg, NEW q \in Peer, NEW first, first = Asks(p, proto, value),
             q.id = first.id, q.want = first.want,
             \A other \in Layer \ {proto} : q.state[other] = p.state[other],
             q.state[proto] \notin Settled
      PROVE  NextPeer(p, q, Acks(p, m)) /\ Asked(first) = Asked(q) /\ first \in Peer
  <2>1. /\ first \in Peer /\ first.id[proto] = p.id[proto] + 1
        /\ \A other \in Layer \ {proto} : first.id[other] = p.id[other] /\ first.want[other] = p.want[other]
    BY <1>2, AsksEffect
  <2>2. CASE proto = "IPCP"
    BY <1>0, <1>2, <2>1, <2>2 DEF NextPeer, Asked
  <2>3. CASE proto # "IPCP"
    BY <1>0, <1>2, <2>1, <2>3 DEF NextPeer, Asked
  <2> QED
    BY <2>1, <2>2, <2>3
<1>3. ack \in Calm(p) /\ \A q \in Peer : Asked(q) = Asked(p) => ack \in Calm(q)
  BY <1>0, PeerSends DEF Calm, Layer
<1>4. CASE m.code = "ConfReq" /\ state \in {"Req_Sent", "Ack_Sent"}
  <2>1. ret = PeerRet([p EXCEPT !.state[proto] = "Ack_Sent"], <<ack>>)
    BY <1>4 DEF PeerHandles
  <2>2. ret.peer = [p EXCEPT !.state[proto] = "Ack_Sent"] /\ ret.out = <<ack>>
    BY <2>1 DEF PeerRet
  <2> HIDE DEF ret, ack
  <2>3. NextPeer(p, ret.peer, Acks(p, m)) /\ Asked(ret.peer) = Asked(p)
    BY <1>1, <2>2 DEF PeerState, Settled
  <2> QED
    BY <1>3, <2>2, <2>3, Short DEF NextPeer, ret
<1>5. CASE m.code = "ConfReq" /\ state = "Ack_Rcvd"
  <2>1. ret = PeerRet([p EXCEPT !.state[proto] = "Opened"], <<ack>>)
    BY <1>5 DEF PeerHandles
  <2>2. ret.peer = [p EXCEPT !.state[proto] = "Opened"] /\ ret.out = <<ack>>
    BY <2>1 DEF PeerRet
  <2> HIDE DEF ret, ack
  <2>3. NextPeer(p, ret.peer, Acks(p, m)) /\ Asked(ret.peer) = Asked(p)
    BY <1>1, <1>5, <2>2 DEF PeerState, Settled
  <2> QED
    BY <1>3, <2>2, <2>3, Short DEF NextPeer, ret
<1>6. CASE m.code = "ConfReq" /\ state = "Opened"
  <2> DEFINE q == [over EXCEPT !.state[proto] = "Ack_Sent"]
  <2>1. ret = PeerRet(q, <<Request(over, proto), ack>>)
    BY <1>6 DEF PeerHandles
  <2>2. ret.peer = q /\ ret.out = <<Request(over, proto), ack>>
    BY <2>1 DEF PeerRet
  <2>3. over \in Peer /\ over.state = p.state
    BY <1>0, AsksEffect
  <2> HIDE DEF over
  <2>4. /\ q \in Peer /\ q.id = over.id /\ q.want = over.want /\ q.state[proto] = "Ack_Sent"
        /\ \A other \in Layer \ {proto} : q.state[other] = p.state[other]
    <3>1. "Ack_Sent" \in PeerState
      BY DEF PeerState
    <3> HIDE DEF proto
    <3>2. proto \in Layer
      BY DEF proto
    <3>3. /\ q \in Peer /\ q.id = over.id /\ q.want = over.want /\ q.state[proto] = "Ack_Sent"
          /\ \A other \in Layer \ {proto} : q.state[other] = over.state[other]
      BY ONLY <2>3, <3>1, <3>2, StateEffect
    <3> QED
      BY <2>3, <3>3
  <2> HIDE DEF q, ret
  <2>5. NextPeer(p, q, Acks(p, m)) /\ Asked(over) = Asked(q)
    BY <1>0, <1>2, <2>4 DEF Settled, over
  <2>6. Request(over, proto) \in Calm(q)
    BY <2>3, <2>5, PeerSends DEF Calm, Layer
  <2>7. ack \in Calm(q)
    BY <1>0, <2>4, PeerSends DEF Calm, Layer
  <2>8. <<Request(over, proto), ack>> \in Seq(Calm(q))
    <3> HIDE DEF ack
    <3> QED
      BY <2>6, <2>7, Pair
  <2>9. NextPeer(p, ret.peer, Acks(p, m)) /\ ret.out \in Seq(Calm(ret.peer))
    <3> HIDE DEF ack
    <3>1. ret.peer = q /\ ret.out = <<Request(over, proto), ack>>
      BY <2>2
    <3> QED
      BY <3>1, <2>5, <2>8
  <2> QED
    BY <2>9 DEF ret
<1>7. CASE m.code = "ConfAck" /\ Outstanding(p, m)
  <2> DEFINE s == IF state = "Req_Sent" THEN "Ack_Rcvd" ELSE "Opened"
  <2>1. ret = PeerRet([p EXCEPT !.state[proto] = s], <<>>)
    BY <1>7 DEF PeerHandles
  <2>2. ret.peer = [p EXCEPT !.state[proto] = s] /\ ret.out = <<>>
    BY <2>1 DEF PeerRet
  <2>3. proto = "IPCP" => Acks(p, m)
    BY <1>7 DEF Outstanding, Acks
  <2>4. s \in PeerState
    BY DEF PeerState
  <2> HIDE DEF ret, s
  <2>5. NextPeer(p, ret.peer, Acks(p, m))
    BY <1>1, <2>2, <2>3, <2>4
  <2> QED
    BY <2>2, <2>5 DEF ret
<1>8. CASE m.code \in {"ConfNak", "ConfRej"} /\ Outstanding(p, m)
  <2>1. ret = PeerRet(again, <<Request(again, proto)>>)
    BY <1>8 DEF PeerHandles
  <2>2. ret.peer = again /\ ret.out = <<Request(again, proto)>>
    BY <2>1 DEF PeerRet
  <2> DEFINE value == IF m.code = "ConfNak" THEN m.arg ELSE NoAddr
  <2>3. value \in Arg
    BY <1>0
  <2>4. again \in Peer /\ again.state = p.state
    BY <2>3, AsksEffect
  <2>5. again.state[proto] \notin Settled
    BY <1>8, <2>4 DEF Outstanding, Settled
  <2>6. again = Asks(p, proto, value)
    OBVIOUS
  <2> HIDE DEF ret, value, again
  <2>7. NextPeer(p, again, Acks(p, m))
    BY <1>2, <2>3, <2>4, <2>5, <2>6
  <2>8. Request(again, proto) \in Calm(again)
    BY <2>4, PeerSends DEF Calm, Layer
  <2> QED
    BY <2>2, <2>7, <2>8, Short DEF ret
<1>9. CASE m.code = "EchoReq" /\ state = "Opened"
  <2>1. ret.peer = p /\ ret.out = <<Plain("LCP", "EchoRep")>>
    BY <1>9 DEF PeerHandles, PeerRet
  <2>2. NextPeer(p, p, Acks(p, m))
    BY <1>0 DEF NextPeer
  <2>3. Plain("LCP", "EchoRep") \in Calm(p)
    BY PeerSends DEF Calm, PacketCode
  <2> HIDE DEF ret
  <2> QED
    BY <2>1, <2>2, <2>3, Short DEF ret
<1>10. CASE /\ ~(m.code = "ConfReq" /\ state \in {"Req_Sent", "Ack_Sent", "Ack_Rcvd", "Opened"})
            /\ ~(m.code \in {"ConfAck", "ConfNak", "ConfRej"} /\ Outstanding(p, m))
            /\ ~(m.code = "EchoReq" /\ state = "Opened")
  <2>1. ret.peer = p /\ ret.out = <<>>
    BY <1>10 DEF PeerHandles, PeerRet
  <2>2. NextPeer(p, p, Acks(p, m))
    BY <1>0 DEF NextPeer
  <2> HIDE DEF ret
  <2> QED
    BY <2>1, <2>2 DEF ret
<1> QED
  BY <1>4, <1>5, <1>6, <1>7, <1>8, <1>9, <1>10

\* A peer that asks for a value of one layer, whatever else it notes.
LEMMA AskNext ==
    ASSUME NEW p \in Peer, NEW proto \in Layer, NEW value \in Arg, NEW acknowledged \in BOOLEAN,
           NEW first, first = Asks(p, proto, value),
           NEW q \in Peer, q.id = first.id, q.want = first.want, q.state[proto] \notin Settled,
           \A other \in Layer \ {proto} : q.state[other] = p.state[other]
    PROVE  NextPeer(p, q, acknowledged) /\ <<Request(first, proto)>> \in Seq(Calm(q))
<1>1. /\ first \in Peer /\ first.id[proto] = p.id[proto] + 1
      /\ \A other \in Layer \ {proto} : first.id[other] = p.id[other] /\ first.want[other] = p.want[other]
  BY AsksEffect
<1>2. p.id["IPCP"] \in Nat /\ "IPCP" \in Layer
  BY DEF Peer, Layer
<1>3. NextPeer(p, q, acknowledged)
  <2>1. CASE proto = "IPCP"
    BY <1>1, <1>2, <2>1 DEF NextPeer
  <2>2. CASE proto # "IPCP"
    BY <1>1, <1>2, <2>2 DEF NextPeer
  <2> QED
    BY <2>1, <2>2
<1>4. Calm(first) = Calm(q)
  BY DEF Calm, Asked
<1>5. Request(first, proto) \in Calm(q)
  BY <1>1, <1>4, PeerSends DEF Calm, Layer
<1> QED
  BY <1>3, <1>5, Short

\* What else the subscriber notes.
LEMMA Noted ==
    ASSUME NEW p \in Peer, NEW auth \in {"idle", "sent", "ok"}, NEW q,
           \/ q = [p EXCEPT !.auth = auth]
           \/ q = [p EXCEPT !.resent = @ + 1]
           \/ q = [p EXCEPT !.gone = TRUE]
    PROVE  q \in Peer /\ q.id = p.id /\ q.want = p.want /\ q.state = p.state
<1>1. /\ p.auth \in {"idle", "sent", "ok"} /\ p.resent \in Nat /\ p.gone \in BOOLEAN
      /\ p.id \in [Layer -> Nat] /\ p.want \in [Layer -> Arg] /\ p.state \in [Layer -> PeerState]
      /\ p = [state |-> p.state, id |-> p.id, want |-> p.want, auth |-> p.auth,
              resent |-> p.resent, gone |-> p.gone]
  BY DEF Peer
<1>2. CASE q = [p EXCEPT !.auth = auth]
  <2>1. q = [state |-> p.state, id |-> p.id, want |-> p.want, auth |-> auth,
             resent |-> p.resent, gone |-> p.gone]
    BY <1>1, <1>2
  <2> QED
    BY <1>1, <2>1 DEF Peer
<1>3. CASE q = [p EXCEPT !.resent = @ + 1]
  <2>1. q = [state |-> p.state, id |-> p.id, want |-> p.want, auth |-> p.auth,
             resent |-> p.resent + 1, gone |-> p.gone]
    BY <1>1, <1>3
  <2> QED
    BY <1>1, <2>1 DEF Peer
<1>4. CASE q = [p EXCEPT !.gone = TRUE]
  <2>1. q = [state |-> p.state, id |-> p.id, want |-> p.want, auth |-> p.auth,
             resent |-> p.resent, gone |-> TRUE]
    BY <1>1, <1>4
  <2> QED
    BY <1>1, <2>1 DEF Peer
<1> QED
  BY <1>2, <1>3, <1>4

\* A PAP request can follow, and never with CHAP.
LEMMA FollowEffect ==
    ASSUME NEW p \in Peer, NEW acknowledged \in BOOLEAN, NEW ret,
           NextPeer(p, ret.peer, acknowledged), ret.out \in Seq(Calm(ret.peer))
    PROVE  LET next == Follow(ret, p)
           IN  /\ NextPeer(p, next.peer, acknowledged)
               /\ next.out \in Seq(Asked(next.peer))
               /\ AuthProto = "CHAP" => next.out \in Seq(Calm(next.peer))
<1> DEFINE next == Follow(ret, p)
           sent == [ret.peer EXCEPT !.auth = "sent"]
           idle == [ret.peer EXCEPT !.auth = "idle"]
           down == [ret.peer EXCEPT !.auth = "idle", !.state["IPCP"] = "Closed"]
<1>1. ret.peer \in Peer
  BY DEF NextPeer
<1>2. /\ sent \in Peer /\ sent.id = ret.peer.id /\ sent.want = ret.peer.want /\ sent.state = ret.peer.state
      /\ idle \in Peer /\ idle.id = ret.peer.id /\ idle.want = ret.peer.want /\ idle.state = ret.peer.state
  BY <1>1, Noted
<1>3. /\ down \in Peer /\ down.id = ret.peer.id /\ down.want = ret.peer.want
      /\ down.state["IPCP"] = "Closed"
  <2>1. down = [idle EXCEPT !.state["IPCP"] = "Closed"]
    BY <1>1 DEF Peer
  <2>2. "Closed" \in PeerState /\ "IPCP" \in Layer
    BY DEF PeerState, Layer
  <2> HIDE DEF idle
  <2> QED
    BY <1>2, <2>1, <2>2, StateEffect
<1> HIDE DEF sent, idle, down
<1>4. ASSUME NEW q, q.id = ret.peer.id, q.want = ret.peer.want
      PROVE  Asked(q) = Asked(ret.peer) /\ Calm(q) = Calm(ret.peer)
  BY <1>4 DEF Asked, Calm
<1>5. \A q \in Peer : ret.out \in Seq(Calm(q)) => ret.out \in Seq(Asked(q))
  BY SeqMono DEF Calm
<1>6. \/ next.peer = sent /\ next.out = Append(ret.out, Plain("AUTH", "Request")) /\ AuthProto = "PAP"
      \/ next.peer = down /\ next.out = ret.out
      \/ next = ret
  BY DEF Follow, PeerRet, sent, down
<1>7. CASE next.peer = sent /\ next.out = Append(ret.out, Plain("AUTH", "Request")) /\ AuthProto = "PAP"
  <2>1. Plain("AUTH", "Request") \in Asked(sent)
    BY <1>2, PeerSends DEF PacketCode
  <2>2. ret.out \in Seq(Asked(sent))
    BY <1>2, <1>4, <1>5
  <2>3. Append(ret.out, Plain("AUTH", "Request")) \in Seq(Asked(sent))
    BY <2>1, <2>2
  <2>4. NextPeer(p, sent, acknowledged)
    BY <1>2 DEF NextPeer
  <2> HIDE DEF next
  <2> QED
    BY <1>7, <2>3, <2>4 DEF next
<1>8. CASE next.peer = down /\ next.out = ret.out
  <2>1. NextPeer(p, down, acknowledged)
    BY <1>3 DEF NextPeer, Settled
  <2>2. ret.out \in Seq(Calm(down)) /\ ret.out \in Seq(Asked(down))
    BY <1>3, <1>4, <1>5
  <2> HIDE DEF next
  <2> QED
    BY <1>8, <2>1, <2>2 DEF next
<1>9. CASE next = ret
  BY <1>1, <1>5, <1>9
<1> QED
  BY <1>6, <1>7, <1>8, <1>9

\* The subscriber authenticates when it is asked, and then asks for an address.
LEMMA AuthenticatesEffect ==
    ASSUME NEW p \in Peer, NEW m \in MsgToPeer
    PROVE  LET ret == PeerAuthenticates(p, m)
           IN  NextPeer(p, ret.peer, FALSE) /\ ret.out \in Seq(Asked(ret.peer))
<1> DEFINE ret == PeerAuthenticates(p, m)
           sent == [p EXCEPT !.auth = "sent"]
           first == Asks(p, "IPCP", p.want["IPCP"])
           ok == [first EXCEPT !.auth = "ok"]
           ask == [first EXCEPT !.auth = "ok", !.state["IPCP"] = "Req_Sent"]
<1>1. CASE ret = PeerRet(sent, <<Plain("AUTH", "Request")>>)
  <2>1. sent \in Peer /\ sent.id = p.id /\ sent.want = p.want /\ sent.state = p.state
    BY Noted
  <2> HIDE DEF sent
  <2>2. Plain("AUTH", "Request") \in Asked(sent)
    BY <2>1, PeerSends DEF PacketCode
  <2>3. NextPeer(p, sent, FALSE)
    BY <2>1 DEF NextPeer, Peer, Layer
  <2>4. ret.peer = sent /\ ret.out = <<Plain("AUTH", "Request")>>
    BY <1>1 DEF PeerRet
  <2> HIDE DEF ret
  <2> QED
    BY <2>2, <2>3, <2>4, Short DEF ret
<1>2. CASE ret = PeerRet(ask, <<Request(ask, "IPCP")>>)
  <2>1. p.want["IPCP"] \in Arg /\ "IPCP" \in Layer /\ "Req_Sent" \in PeerState
    BY DEF Peer, Layer, PeerState
  <2>2. /\ first \in Peer /\ first.state = p.state
        /\ ok \in Peer /\ ok.id = first.id /\ ok.want = first.want /\ ok.state = first.state
    <3>1. first \in Peer /\ first.state = p.state
      BY <2>1, AsksEffect
    <3> HIDE DEF first
    <3> QED
      BY <3>1, Noted
  <2>3. ask = [ok EXCEPT !.state["IPCP"] = "Req_Sent"]
    <3> HIDE DEF first
    <3> QED
      BY <2>2 DEF Peer
  <2>4. /\ ask \in Peer /\ ask.id = first.id /\ ask.want = first.want
        /\ ask.state["IPCP"] = "Req_Sent"
        /\ \A other \in Layer \ {"IPCP"} : ask.state[other] = p.state[other]
    <3> HIDE DEF ok, ask, first
    <3>1. /\ ask \in Peer /\ ask.id = ok.id /\ ask.want = ok.want
          /\ ask.state["IPCP"] = "Req_Sent"
          /\ \A other \in Layer \ {"IPCP"} : ask.state[other] = ok.state[other]
      BY <2>1, <2>2, <2>3, StateEffect
    <3> QED
      BY <2>2, <3>1
  <2>5. ret.peer = ask /\ ret.out = <<Request(ask, "IPCP")>>
    BY <1>2 DEF PeerRet
  <2>6. first = Asks(p, "IPCP", p.want["IPCP"])
    OBVIOUS
  <2> HIDE DEF ret, ask, first, ok
  <2>7. NextPeer(p, ask, FALSE)
    BY <2>1, <2>4, <2>6, AskNext DEF Settled
  <2>8. Request(ask, "IPCP") \in Asked(ask)
    BY <2>1, <2>4, PeerSends
  <2> QED
    BY <2>5, <2>7, <2>8, Short DEF ret
<1>3. CASE ret = PeerRet(p, <<>>)
  <2>1. ret.peer = p /\ ret.out = <<>>
    BY <1>3 DEF PeerRet
  <2>2. NextPeer(p, p, FALSE)
    BY DEF NextPeer, Peer, Layer
  <2>3. <<>> \in Seq(Asked(p))
    OBVIOUS
  <2>4. NextPeer(p, ret.peer, FALSE) /\ ret.out \in Seq(Asked(ret.peer))
    <3> HIDE DEF ret
    <3> QED
      BY <2>1, <2>2, <2>3
  <2> QED
    BY <2>4
<1> QED
  BY <1>1, <1>2, <1>3 DEF PeerAuthenticates

LEMMA Appended ==
    ASSUME NEW S, NEW s \in Seq(S), NEW c \in S
    PROVE  Append(s, c) = s \o <<c>>
  OBVIOUS

\* What the subscriber takes in and sends in one step.
TakesAck == toPeer # <<>> /\ Acks(peer, Head(toPeer))
TakesChallenge == AuthProto # "CHAP" \/ (toPeer # <<>> /\ Head(toPeer).proto = "AUTH")

PeerMoves ==
    /\ NextPeer(peer, peer', TakesAck)
    /\ \E out \in Seq(Asked(peer')) : /\ toServer' = toServer \o out
                                      /\ TakesChallenge \/ out \in Seq(Calm(peer'))

LEMMA CalmIsAsked ==
    ASSUME NEW p
    PROVE  \A out \in Seq(Calm(p)) : out \in Seq(Asked(p))
  BY SeqMono DEF Calm

LEMMA ReceivesEffect ==
    ASSUME TypeOK, PeerReceives
    PROVE  PeerMoves
<1> DEFINE m == Head(toPeer)
           handled == PeerHandles(peer, m)
           ret == CASE peer.gone -> PeerRet(peer, <<>>)
                    [] ~peer.gone /\ m.proto = "AUTH" -> PeerAuthenticates(peer, m)
                    [] OTHER -> Follow(handled, peer)
<1>1. toPeer # <<>> /\ peer' = ret.peer /\ toServer' = toServer \o ret.out
  BY DEF PeerReceives
<1>2. m \in MsgToPeer /\ peer \in Peer /\ peer.gone \in BOOLEAN
  BY <1>1, QueueOps DEF TypeOK, Peer
<1>3. m.proto \in Layer \cup {"AUTH"} /\ Acks(peer, m) \in BOOLEAN /\ TakesAck = Acks(peer, m)
  BY <1>1, <1>2 DEF MsgToPeer, Layer, Acks, TakesAck
<1>4. CASE peer.gone
  <2>1. peer' = peer /\ toServer' = toServer \o <<>>
    BY <1>1, <1>4 DEF PeerRet
  <2>2. NextPeer(peer, peer, TakesAck)
    BY <1>2 DEF NextPeer, Peer, Layer
  <2>3. <<>> \in Seq(Asked(peer')) /\ <<>> \in Seq(Calm(peer'))
    OBVIOUS
  <2> QED
    BY <2>1, <2>2, <2>3 DEF PeerMoves
<1>5. CASE ~peer.gone /\ m.proto = "AUTH"
  <2>1. ret = PeerAuthenticates(peer, m)
    BY <1>5
  <2>2. NextPeer(peer, ret.peer, FALSE) /\ ret.out \in Seq(Asked(ret.peer))
    BY <1>2, <2>1, AuthenticatesEffect
  <2> HIDE DEF ret
  <2>3. NextPeer(peer, peer', TakesAck) /\ ret.out \in Seq(Asked(peer')) /\ TakesChallenge
    BY <1>1, <1>5, <2>2 DEF NextPeer, TakesChallenge
  <2> QED
    BY <1>1, <2>3 DEF PeerMoves
<1>6. CASE ~peer.gone /\ m.proto # "AUTH"
  <2>1. ret = Follow(handled, peer)
    BY <1>6
  <2>2. NextPeer(peer, handled.peer, Acks(peer, m)) /\ handled.out \in Seq(Calm(handled.peer))
    BY <1>2, <1>3, <1>6, PeerHandlesEffect
  <2> HIDE DEF handled, ret, m
  <2>3. /\ NextPeer(peer, ret.peer, Acks(peer, m)) /\ ret.out \in Seq(Asked(ret.peer))
        /\ AuthProto = "CHAP" => ret.out \in Seq(Calm(ret.peer))
    BY <1>2, <1>3, <2>1, <2>2, FollowEffect
  <2> QED
    BY <1>1, <1>3, <2>3 DEF PeerMoves, TakesChallenge
<1> QED
  BY <1>2, <1>4, <1>5, <1>6

LEMMA StartsEffect ==
    ASSUME TypeOK, PeerStarts
    PROVE  PeerMoves
<1> DEFINE first == Asks(peer, "LCP", peer.want["LCP"])
           p == [first EXCEPT !.state["LCP"] = "Req_Sent"]
<1>1. peer' = p /\ toServer' = Append(toServer, Request(p, "LCP"))
  BY DEF PeerStarts
<1>2. /\ peer \in Peer /\ peer.want["LCP"] \in Arg /\ "LCP" \in Layer /\ "Req_Sent" \in PeerState
      /\ TakesAck \in BOOLEAN
  BY DEF TypeOK, Peer, Layer, PeerState, TakesAck
<1>3. first \in Peer /\ first.state = peer.state /\ first = Asks(peer, "LCP", peer.want["LCP"])
  BY <1>2, AsksEffect
<1> HIDE DEF first
<1>4. /\ p \in Peer /\ p.id = first.id /\ p.want = first.want /\ p.state["LCP"] = "Req_Sent"
      /\ \A other \in Layer \ {"LCP"} : p.state[other] = peer.state[other]
  BY <1>2, <1>3, StateEffect
<1> HIDE DEF p
<1>5. NextPeer(peer, p, TakesAck)
  BY <1>2, <1>3, <1>4, AskNext DEF Settled
<1>6. Request(p, "LCP") \in Calm(p)
  BY <1>2, <1>4, PeerSends DEF Calm
<1>7. <<Request(p, "LCP")>> \in Seq(Calm(p)) /\ <<Request(p, "LCP")>> \in Seq(Asked(p))
  BY <1>6, Short DEF Calm
<1>8. toServer' = toServer \o <<Request(p, "LCP")>>
  BY <1>1, <1>6, Appended DEF TypeOK, Calm, Asked
<1> QED
  BY <1>1, <1>5, <1>7, <1>8 DEF PeerMoves

LEMMA ResendsEffect ==
    ASSUME TypeOK, PeerResends
    PROVE  PeerMoves
<1>1. /\ peer \in Peer /\ peer.id["IPCP"] \in Nat /\ toServer \in Seq(MsgToServer)
      /\ TakesAck \in BOOLEAN
  BY DEF TypeOK, Peer, Layer, TakesAck
<1>2. ASSUME NEW proto \in Layer, peer.state[proto] \in {"Req_Sent", "Ack_Rcvd", "Ack_Sent"},
             NEW p, p = [Asks(peer, proto, peer.want[proto]) EXCEPT
                           !.resent = @ + 1,
                           !.state[proto] = IF @ = "Ack_Rcvd" THEN "Req_Sent" ELSE @],
             peer' = p, toServer' = Append(toServer, Request(p, proto))
      PROVE  PeerMoves
  <2> DEFINE first == Asks(peer, proto, peer.want[proto])
             noted == [first EXCEPT !.resent = @ + 1]
             s == IF peer.state[proto] = "Ack_Rcvd" THEN "Req_Sent" ELSE peer.state[proto]
  <2>1. first \in Peer /\ first.state = peer.state
    <3>1. peer.want[proto] \in Arg
      BY <1>1 DEF Peer
    <3> QED
      BY <1>1, <3>1, AsksEffect
  <2>2. p = [first EXCEPT !.resent = @ + 1, !.state[proto] = s]
    <3>1. first.state[proto] = peer.state[proto]
      BY <2>1
    <3>2. p = [first EXCEPT !.resent = @ + 1, !.state[proto] = IF @ = "Ack_Rcvd" THEN "Req_Sent" ELSE @]
      BY <1>2
    <3> HIDE DEF first
    <3> QED
      BY <2>1, <3>1, <3>2 DEF Peer
  <2>3. s \in PeerState /\ s \notin Settled
    BY <1>2 DEF PeerState, Settled
  <2>4. first = Asks(peer, proto, peer.want[proto]) /\ peer.want[proto] \in Arg
    BY <1>1 DEF Peer
  <2> HIDE DEF first, s
  <2>5. noted \in Peer /\ noted.id = first.id /\ noted.want = first.want /\ noted.state = first.state
    BY <2>1, Noted
  <2>6. p = [noted EXCEPT !.state[proto] = s]
    BY <2>1, <2>2 DEF Peer
  <2> HIDE DEF noted
  <2>7. /\ p \in Peer /\ p.id = first.id /\ p.want = first.want /\ p.state[proto] = s
        /\ \A other \in Layer \ {proto} : p.state[other] = peer.state[other]
    BY <2>1, <2>3, <2>5, <2>6, StateEffect
  <2>8. NextPeer(peer, p, TakesAck)
    BY <1>1, <2>3, <2>4, <2>7, AskNext
  <2>9. Request(p, proto) \in Calm(p)
    BY <2>7, PeerSends DEF Calm, Layer
  <2>10. <<Request(p, proto)>> \in Seq(Calm(p)) /\ <<Request(p, proto)>> \in Seq(Asked(p))
    BY <2>9, Short DEF Calm
  <2>11. toServer' = toServer \o <<Request(p, proto)>>
    BY <1>1, <1>2, <2>9, Appended DEF Calm, Asked
  <2> QED
    BY <1>2, <2>8, <2>10, <2>11 DEF PeerMoves
<1>3. ASSUME AuthProto = "PAP", peer' = [peer EXCEPT !.resent = @ + 1],
             toServer' = Append(toServer, Plain("AUTH", "Request"))
      PROVE  PeerMoves
  <2>1. peer' \in Peer /\ peer'.id = peer.id /\ peer'.want = peer.want /\ peer'.state = peer.state
    BY <1>1, <1>3, Noted
  <2>2. NextPeer(peer, peer', TakesAck)
    BY <1>1, <2>1 DEF NextPeer
  <2>3. Plain("AUTH", "Request") \in Asked(peer') /\ TakesChallenge
    BY <1>3, <2>1, PeerSends DEF PacketCode, TakesChallenge
  <2>4. toServer' = toServer \o <<Plain("AUTH", "Request")>>
    BY <1>1, <1>3, <2>3, Appended DEF Asked
  <2> QED
    BY <2>2, <2>3, <2>4, Short DEF PeerMoves
<1> QED
  BY <1>2, <1>3 DEF PeerResends

LEMMA LeavesEffect ==
    ASSUME TypeOK, PeerLeaves
    PROVE  PeerMoves
<1>1. peer' \in Peer /\ peer'.id = peer.id /\ peer'.want = peer.want /\ peer'.state = peer.state
  BY Noted DEF TypeOK, PeerLeaves, Peer
<1>2. NextPeer(peer, peer', TakesAck)
  BY <1>1 DEF NextPeer, Peer, Layer
<1>3. PICK out \in {<<>>} \cup {<<bye>> : bye \in {Plain("LCP", "TermReq"), Msg("LCP", "TermReq", 0, "unknown"),
                                                   Plain("PADT", "PADT")}} : toServer' = toServer \o out
  <2>1. \A bye \in {Plain("LCP", "TermReq"), Msg("LCP", "TermReq", 0, "unknown"), Plain("PADT", "PADT")} :
           bye \in MsgToServer
    BY DEF Plain, Msg, MsgToServer, PacketCode, Arg
  <2>2. ASSUME UNCHANGED toServer
        PROVE  toServer' = toServer \o <<>>
    BY <2>2 DEF TypeOK
  <2>3. ASSUME NEW bye \in {Plain("LCP", "TermReq"), Msg("LCP", "TermReq", 0, "unknown"), Plain("PADT", "PADT")},
               toServer' = Append(toServer, bye)
        PROVE  toServer' = toServer \o <<bye>>
    BY <2>1, <2>3, Appended DEF TypeOK
  <2> QED
    BY <2>2, <2>3 DEF PeerLeaves
<1>4. \A bye \in {Plain("LCP", "TermReq"), Msg("LCP", "TermReq", 0, "unknown"), Plain("PADT", "PADT")} :
         bye \in Calm(peer')
  BY DEF Plain, Msg, MsgToServer, PacketCode, Arg, Calm, Asked
<1>5. out \in Seq(Calm(peer'))
  BY <1>3, <1>4, Short
<1> QED
  BY <1>2, <1>3, <1>5, CalmIsAsked DEF PeerMoves

\* A step of the subscriber.
LEMMA PeerStep ==
    ASSUME TypeOK, PeerReceives \/ PeerStarts \/ PeerResends \/ PeerLeaves
    PROVE  /\ UNCHANGED <<serverVars, losses, dups>>
           /\ toPeer' = toPeer \/ (toPeer # <<>> /\ toPeer' = Tail(toPeer))
           /\ PeerMoves
  BY ReceivesEffect, StartsEffect, ResendsEffect, LeavesEffect
     DEF PeerReceives, PeerStarts, PeerResends, PeerLeaves

\* A step of the link: it brings up nothing new.
LEMMA LinkStep ==
    ASSUME TypeOK, LinkLoses \/ LinkDuplicates
    PROVE  /\ UNCHANGED <<serverVars, peer>> /\ losses' \in Nat /\ dups' \in Nat
           /\ \A S : toServer \in Seq(S) => toServer' \in Seq(S)
           /\ \A S : toPeer \in Seq(S) => toPeer' \in Seq(S)
<1>1. /\ toServer' \in {toServer, Tail(toServer), <<Head(toServer)>> \o toServer}
      /\ toServer' = toServer \/ toServer # <<>>
      /\ toPeer' \in {toPeer, Tail(toPeer), <<Head(toPeer)>> \o toPeer}
      /\ toPeer' = toPeer \/ toPeer # <<>>
  BY DEF LinkLoses, LinkDuplicates
<1>2. \A S : toServer \in Seq(S) => toServer' \in Seq(S)
  BY <1>1, QueueOps
<1>3. \A S : toPeer \in Seq(S) => toPeer' \in Seq(S)
  BY <1>1, QueueOps
<1>4. UNCHANGED <<serverVars, peer>> /\ losses' \in Nat /\ dups' \in Nat
  BY DEF LinkLoses, LinkDuplicates, TypeOK
<1> QED
  BY <1>2, <1>3, <1>4

-------------------------------------------------------------------------------
(* Types. *)

LEMMA NotAuthSeq == \A s \in Seq(NotAuth) : s \in Seq(MsgToPeer)
  BY SeqMono DEF NotAuth

LEMMA AaaTypes ==
    ASSUME TypeOK, BindAaa \/ KeepsAaa
    PROVE  {aaa'} \cup assigned' \subseteq Addresses \cup {NoAddr} /\ bound' \in Nat
  BY DEF TypeOK, BindAaa, KeepsAaa

LEMMA ServerTypes ==
    ASSUME TypeOK, ServerReceives
    PROVE  TypeOK'
<1> DEFINE m == Head(toServer)
<1>1. /\ m \in MsgToServer /\ toServer' \in Seq(MsgToServer)
      /\ UNCHANGED <<peer, losses, dups>>
  BY QueueOps DEF ServerReceives, TypeOK
<1>2. CASE ~alive /\ UNCHANGED <<serverVars, toPeer>>
  BY <1>1, <1>2 DEF TypeOK, serverVars
<1>3. CASE started' = TRUE /\ ReceiveLcp(m)
  <2>1. /\ lcp' \in FsmState /\ ipcp' \in FsmState /\ alive' \in BOOLEAN /\ echoCounter' \in Nat
        /\ toPeer' \in Seq(MsgToPeer)
    BY <1>1, <1>3, LcpEffect, NotAckSeq, Concat DEF TypeOK
  <2>2. /\ UNCHANGED <<authed, radius, rejected, accepted, bound, aaa, assigned, address, echoArmed>>
        /\ dp' \in {dp, NoEntry}
    BY <1>3 DEF ReceiveLcp, Release
  <2> QED
    BY <1>1, <1>3, <2>1, <2>2 DEF TypeOK
<1>4. CASE started' = TRUE /\ ReceiveAuth(m)
  <2>1. /\ lcp' \in FsmState /\ ipcp' \in FsmState /\ authed' \in BOOLEAN /\ accepted' \in BOOLEAN
        /\ radius' \in Nat /\ toPeer' \in Seq(MsgToPeer)
        /\ UNCHANGED <<alive, rejected, address, dp, echoArmed, echoCounter>>
        /\ BindAaa \/ KeepsAaa
    BY <1>1, <1>4, AuthEffect, NotAckSeq, Concat DEF TypeOK
  <2> QED
    BY <1>1, <1>4, <2>1, AaaTypes DEF TypeOK
<1>5. CASE started' = TRUE /\ ReceiveIpcp(m)
  <2>1. /\ lcp' \in FsmState /\ ipcp' \in FsmState /\ echoArmed' \in BOOLEAN
        /\ UNCHANGED <<alive, authed, radius, rejected, accepted, bound, aaa, assigned, echoCounter>>
        /\ address' = address \/ (address' = aaa /\ bound > 0)
        /\ dp' # dp => dp' = address'
    BY <1>1, <1>5, IpcpEffect
  <2>2. toPeer' \in Seq(MsgToPeer)
    BY <1>1, <1>5, IpcpEffect, NotAuthSeq, Concat DEF TypeOK
  <2> QED
    BY <1>1, <1>5, <2>1, <2>2 DEF TypeOK
<1>6. CASE /\ alive' = FALSE
           /\ UNCHANGED <<started, lcp, ipcp, authed, radius, rejected, accepted, bound, aaa,
                          assigned, address, echoArmed, echoCounter, toPeer>>
           /\ Release
  BY <1>1, <1>6 DEF TypeOK, Release
<1> QED
  BY <1>2, <1>3, <1>4, <1>5, <1>6 DEF ServerReceives

\* Packets the daemon sends of its own accord.
LEMMA OwnPackets == AuthNak \in NotAck /\ EchoRequest \in NotAck /\ EchoRequest \in NotAuth
  BY DEF AuthNak, EchoRequest, Plain, Msg, NotAck, NotAuth, MsgToPeer, PacketCode, Arg

\* The RADIUS answers: what they have in common.
LEMMA AnswerEffect ==
    ASSUME TypeOK, RadiusAccepts \/ RadiusRejects \/ RadiusFails
    PROVE  /\ radius > 0 /\ radius' = radius - 1
           /\ rejected' \in BOOLEAN /\ accepted' \in BOOLEAN /\ authed' \in BOOLEAN
           /\ ipcp' \in FsmState /\ (ipcp' = "Ack_Sent" => ipcp = "Ack_Sent")
           /\ BindAaa \/ KeepsAaa
           /\ \E sent \in Seq(NotAck) : toPeer' = toPeer \o sent
           /\ UNCHANGED <<alive, started, lcp, address, dp, echoArmed, echoCounter,
                          peer, toServer, losses, dups>>
<1>1. CASE RadiusAccepts
  <2>1. <<>> \in Seq(NotAck) /\ Bind(<<>>)
    BY <1>1, OwnPackets, Short DEF RadiusAccepts
  <2> QED
    BY <1>1, <2>1, BindEffect DEF RadiusAccepts, TypeOK
<1>2. CASE RadiusRejects
  <2>1. <<AuthNak>> \in Seq(NotAck) /\ Bind(<<AuthNak>>)
    BY <1>2, OwnPackets, Short DEF RadiusRejects
  <2> QED
    BY <1>2, <2>1, BindEffect DEF RadiusRejects, TypeOK
<1>3. CASE RadiusFails
  <2>1. \E sent \in Seq(NotAck) : toPeer' = toPeer \o sent
    <3>1. ASSUME toPeer' = Append(toPeer, AuthNak)
          PROVE  toPeer' = toPeer \o <<AuthNak>> /\ <<AuthNak>> \in Seq(NotAck)
      BY <3>1, OwnPackets, Short, Appended DEF TypeOK, NotAck
    <3>2. ASSUME toPeer' = toPeer
          PROVE  toPeer' = toPeer \o <<>> /\ <<>> \in Seq(NotAck)
      BY <3>2 DEF TypeOK
    <3> QED
      BY <1>3, <3>1, <3>2 DEF RadiusFails
  <2> QED
    BY <1>3, <2>1 DEF RadiusFails, TypeOK, KeepsAaa
<1> QED
  BY <1>1, <1>2, <1>3

LEMMA EchoEffect ==
    ASSUME TypeOK, EchoTimer
    PROVE  /\ echoArmed /\ echoCounter' \in Nat /\ alive' \in BOOLEAN /\ echoArmed' \in BOOLEAN
           /\ alive' => alive /\ dp' = dp
           /\ dp' \in {dp, NoEntry}
           /\ toPeer' = toPeer \/ toPeer' = toPeer \o <<EchoRequest>>
           /\ UNCHANGED <<started, lcp, ipcp, authed, radius, rejected, accepted, bound, aaa, assigned, address,
                          peer, toServer, losses, dups>>
<1>1. EchoRequest \in MsgToPeer
  BY OwnPackets DEF NotAck
<1>2. toPeer' = toPeer \/ toPeer' = toPeer \o <<EchoRequest>>
  BY <1>1, Appended DEF EchoTimer, TypeOK
<1>3. echoCounter' \in Nat
  BY DEF EchoTimer, TypeOK
<1>4. /\ echoArmed /\ alive' \in BOOLEAN /\ echoArmed' \in BOOLEAN
      /\ alive' => alive
      /\ UNCHANGED <<started, lcp, ipcp, authed, radius, rejected, accepted, bound, aaa, assigned, address,
                     peer, toServer, losses, dups>>
  BY DEF EchoTimer, TypeOK
<1>5. dp' \in {dp, NoEntry} /\ (alive' => dp' = dp)
  BY DEF EchoTimer, Release
<1> QED
  BY <1>2, <1>3, <1>4, <1>5

LEMMA TypeInit == Init => TypeOK
<1> SUFFICES ASSUME Init PROVE TypeOK
  OBVIOUS
<1>1. peer \in Peer
  <2>1. PICK ask \in [Layer -> {NoAddr, "unknown"}] :
           peer = [state |-> [proto \in Layer |-> "Closed"], id |-> [proto \in Layer |-> 0],
                   want |-> ask, auth |-> "idle", resent |-> 0, gone |-> FALSE]
    BY DEF Init
  <2>2. ask \in [Layer -> Arg]
    BY DEF Arg
  <2> QED
    BY <2>1, <2>2 DEF Peer, PeerState
<1>2. toServer \in Seq(MsgToServer) /\ toPeer \in Seq(MsgToPeer)
  BY DEF Init
<1>3. /\ alive \in BOOLEAN /\ started \in BOOLEAN /\ echoArmed \in BOOLEAN
      /\ authed \in BOOLEAN /\ rejected \in BOOLEAN /\ accepted \in BOOLEAN
  BY DEF Init
<1>4. /\ lcp \in FsmState /\ ipcp \in FsmState
      /\ {radius, bound, echoCounter, losses, dups} \subseteq Nat
      /\ {aaa, address} \cup assigned \subseteq Addresses \cup {NoAddr}
      /\ dp = NoEntry
  <2>1. "Initial" \in FsmState
    BY DEF FsmState
  <2>2. /\ lcp = "Initial" /\ ipcp = "Initial"
        /\ radius = 0 /\ bound = 0 /\ echoCounter = 0 /\ losses = 0 /\ dups = 0
        /\ aaa = NoAddr /\ assigned = {} /\ dp = NoEntry
        /\ address \in Addresses \cup {NoAddr}
    BY DEF Init
  <2> QED
    BY <2>1, <2>2
<1> QED
  BY <1>1, <1>2, <1>3, <1>4 DEF TypeOK

LEMMA TypeStep == TypeOK /\ [Next]_vars => TypeOK'
<1> SUFFICES ASSUME TypeOK, [Next]_vars PROVE TypeOK'
  OBVIOUS
<1>1. CASE ServerReceives
  BY <1>1, ServerTypes
<1>2. CASE RadiusAccepts \/ RadiusRejects \/ RadiusFails
  <2>1. toPeer' \in Seq(MsgToPeer)
    BY <1>2, AnswerEffect, NotAckSeq, Concat DEF TypeOK
  <2>2. radius' \in Nat
    BY <1>2, AnswerEffect DEF TypeOK
  <2> QED
    BY <1>2, <2>1, <2>2, AnswerEffect, AaaTypes DEF TypeOK
<1>3. CASE EchoTimer
  <2>1. toPeer' \in Seq(MsgToPeer)
    BY <1>3, EchoEffect, OwnPackets, Short, Concat DEF TypeOK, NotAck
  <2> QED
    BY <1>3, <2>1, EchoEffect DEF TypeOK
<1>4. CASE PeerReceives \/ PeerStarts \/ PeerResends \/ PeerLeaves
  <2>1. peer' \in Peer
    BY <1>4, PeerStep DEF PeerMoves, NextPeer
  <2>2. toServer' \in Seq(MsgToServer)
    <3>1. PICK out \in Seq(Asked(peer')) : toServer' = toServer \o out
      BY <1>4, PeerStep DEF PeerMoves
    <3>2. out \in Seq(MsgToServer)
      BY SeqMono DEF Asked
    <3> QED
      BY <3>1, <3>2, Concat DEF TypeOK
  <2>3. toPeer' \in Seq(MsgToPeer)
    BY <1>4, PeerStep, QueueOps DEF TypeOK
  <2> QED
    BY <1>4, <2>1, <2>2, <2>3, PeerStep DEF TypeOK, serverVars
<1>5. CASE LinkLoses \/ LinkDuplicates
  <2>1. toServer' \in Seq(MsgToServer) /\ toPeer' \in Seq(MsgToPeer)
    BY <1>5, LinkStep DEF TypeOK
  <2> QED
    BY <1>5, <2>1, LinkStep DEF TypeOK, serverVars
<1>6. CASE UNCHANGED vars
  BY <1>6 DEF vars, serverVars, linkVars, TypeOK
<1> QED
  BY <1>1, <1>2, <1>3, <1>4, <1>5, <1>6 DEF Next

\* In every state the variables have their types, with the packets in flight
\* among those the two sides exchange (PPP_FSM::receive and what it is given).
THEOREM TypeCorrect == Spec => []TypeOK
  BY TypeInit, TypeStep, PTL DEF Spec

-------------------------------------------------------------------------------
(* No network phase without a link. *)

\* Before LCP is open under CHAP nobody has begun to authenticate: no request is
\* with RADIUS, and nothing about it is in flight.
Quiet == {m \in MsgToServer : m.proto # "AUTH"}
NoAuthYet == alive /\ lcp # "Opened" => /\ ipcp = "Initial" /\ radius = 0
                                        /\ toPeer \in Seq(NotAuth)
                                        /\ toServer \in Seq(Quiet)

LEMMA NoAuthStep ==
    ASSUME AuthProto = "CHAP", TypeOK, NoAuthYet, [Next]_vars
    PROVE  NoAuthYet'
<1> SUFFICES ASSUME alive', lcp' # "Opened"
             PROVE  /\ ipcp' = "Initial" /\ radius' = 0
                    /\ toPeer' \in Seq(NotAuth) /\ toServer' \in Seq(Quiet)
  BY DEF NoAuthYet
<1>1. CASE ServerReceives
  <2> DEFINE m == Head(toServer)
  <2>1. m \in MsgToServer /\ toServer # <<>> /\ toServer' = Tail(toServer)
    BY <1>1, QueueOps DEF ServerReceives, TypeOK
  <2>2. ASSUME alive, lcp # "Opened"
        PROVE  m.proto # "AUTH" /\ toServer' \in Seq(Quiet)
    BY <2>1, <2>2, QueueOps DEF NoAuthYet, Quiet
  <2>3. CASE ~alive /\ UNCHANGED <<serverVars, toPeer>>
    BY <2>3 DEF serverVars
  <2>4. CASE alive /\ m.proto = "LCP" /\ ReceiveLcp(m)
    <3>1. lcp # "Opened" /\ ipcp' = ipcp /\ UNCHANGED radius
      BY <2>1, <2>4, LcpEffect DEF ReceiveLcp
    <3>2. PICK sent \in Seq(NotAck) : /\ toPeer' = toPeer \o sent
                                      /\ AuthProto = "CHAP" /\ lcp' # "Opened" => sent \in Seq(NotAuth)
      BY <2>1, <2>4, LcpEffect
    <3> QED
      BY <2>2, <2>4, <3>1, <3>2, Concat DEF NoAuthYet
  <2>5. CASE alive /\ m.proto = "AUTH" /\ ReceiveAuth(m)
    BY <2>1, <2>2, <2>5, AuthEffect
  <2>6. CASE alive /\ m.proto = "IPCP" /\ ReceiveIpcp(m)
    <3>1. lcp # "Opened" /\ (ipcp = "Initial" => ipcp' = "Initial") /\ UNCHANGED radius
      BY <2>1, <2>6, IpcpEffect
    <3>2. PICK sent \in Seq(NotAuth) : toPeer' = toPeer \o sent
      BY <2>1, <2>6, IpcpEffect
    <3> QED
      BY <2>2, <2>6, <3>1, <3>2, Concat DEF NoAuthYet
  <2> QED
    BY <1>1, <2>3, <2>4, <2>5, <2>6 DEF ServerReceives
<1>2. CASE RadiusAccepts \/ RadiusRejects \/ RadiusFails
  <2>1. radius > 0 /\ alive' = alive /\ lcp' = lcp
    BY <1>2, AnswerEffect
  <2>2. radius = 0
    BY <2>1 DEF NoAuthYet
  <2> QED
    BY <2>1, <2>2
<1>3. CASE EchoTimer
  <2>1. toPeer \in Seq(NotAuth) => toPeer' \in Seq(NotAuth)
    BY <1>3, EchoEffect, OwnPackets, Short, Concat
  <2> QED
    BY <1>3, <2>1, EchoEffect DEF NoAuthYet
<1>4. CASE PeerReceives \/ PeerStarts \/ PeerResends \/ PeerLeaves
  <2>1. /\ alive /\ lcp # "Opened" /\ UNCHANGED <<ipcp, radius>>
    BY <1>4, PeerStep DEF serverVars
  <2>2. /\ ipcp = "Initial" /\ radius = 0
        /\ toPeer \in Seq(NotAuth) /\ toServer \in Seq(Quiet)
    BY <2>1 DEF NoAuthYet
  <2>3. ~TakesChallenge
    BY <2>2, QueueOps DEF TakesChallenge, NotAuth
  <2>4. PICK out \in Seq(Calm(peer')) : toServer' = toServer \o out
    BY <1>4, <2>3, PeerStep DEF PeerMoves
  <2>5. out \in Seq(Quiet)
    BY <2>4, SeqMono DEF Calm, Asked, Quiet
  <2>6. toServer' \in Seq(Quiet)
    BY <2>2, <2>4, <2>5, Concat
  <2>7. toPeer' \in Seq(NotAuth)
    BY <1>4, <2>2, PeerStep, QueueOps
  <2> QED
    BY <2>1, <2>2, <2>6, <2>7
<1>5. CASE LinkLoses \/ LinkDuplicates
  BY <1>5, LinkStep DEF NoAuthYet, serverVars
<1>6. CASE UNCHANGED vars
  BY <1>6 DEF vars, serverVars, linkVars, NoAuthYet
<1> QED
  BY <1>1, <1>2, <1>3, <1>4, <1>5, <1>6 DEF Next

\* With CHAP no session negotiates IPCP before its LCP is open, nor goes on once
\* LCP has left the Opened state (LAYER_UP and LAYER_DOWN of LCP in processPPP).
THEOREM NetworkAfterLink == AuthProto = "CHAP" => (Spec => []NetworkPhaseNeedsLink)
<1> SUFFICES ASSUME AuthProto = "CHAP" PROVE Spec => []NetworkPhaseNeedsLink
  OBVIOUS
<1>1. Init => NoAuthYet
  BY DEF Init, NoAuthYet
<1>2. TypeOK /\ NoAuthYet /\ [Next]_vars => NoAuthYet'
  BY NoAuthStep
<1>3. NoAuthYet => NetworkPhaseNeedsLink
  BY DEF NoAuthYet, NetworkPhaseNeedsLink
<1> QED
  BY <1>1, <1>2, <1>3, TypeCorrect, PTL DEF Spec

-------------------------------------------------------------------------------
(* What the dataplane is told. *)

\* The address of the AAA session is an assigned one; there is one for each
\* session bound.
Binding == /\ bound = 0 => assigned = {}
           /\ bound > 0 => aaa \in assigned
           /\ bound <= 1 => assigned \subseteq {aaa}

LEMMA BindingKept ==
    ASSUME TypeOK, Binding, BindAaa \/ KeepsAaa
    PROVE  Binding' /\ assigned \subseteq assigned'
<1>1. bound \in Nat
  BY DEF TypeOK
<1>2. CASE KeepsAaa
  BY <1>2 DEF KeepsAaa, Binding
<1>3. CASE BindAaa
  <2>1. bound' = bound + 1 /\ assigned' = assigned \cup {aaa'}
    BY <1>3 DEF BindAaa
  <2>2. bound' <= 1 => assigned = {}
    BY <1>1, <2>1 DEF Binding
  <2> QED
    BY <1>1, <2>1, <2>2 DEF Binding
<1> QED
  BY <1>2, <1>3

\* An assigned address was copied before IPCP can open, and the dataplane has
\* no other.
Given == /\ Binding
         /\ ipcp = "Ack_Sent" \/ echoArmed => address \in assigned
         /\ dp # NoEntry => dp \in assigned

LEMMA GivenStep ==
    ASSUME TypeOK, Given, [Next]_vars
    PROVE  Given'
<1>1. CASE ServerReceives
  <2> DEFINE m == Head(toServer)
  <2>1. m \in MsgToServer
    BY <1>1, QueueOps DEF ServerReceives, TypeOK
  <2>2. CASE ~alive /\ UNCHANGED <<serverVars, toPeer>>
    BY <2>2 DEF serverVars, Given, Binding
  <2>3. CASE ReceiveLcp(m)
    <3>1. ipcp' = "Ack_Sent" => ipcp = "Ack_Sent"
      BY <2>1, <2>3, LcpEffect
    <3>2. UNCHANGED <<bound, aaa, assigned, address, echoArmed>> /\ dp' \in {dp, NoEntry}
      BY <2>3 DEF ReceiveLcp, Release
    <3> QED
      BY <3>1, <3>2 DEF Given, Binding
  <2>4. CASE ReceiveAuth(m)
    <3>1. /\ ipcp' = "Ack_Sent" => ipcp = "Ack_Sent"
          /\ UNCHANGED <<address, dp, echoArmed>> /\ (BindAaa \/ KeepsAaa)
      BY <2>1, <2>4, AuthEffect
    <3> QED
      BY <3>1, BindingKept DEF Given
  <2>5. CASE ReceiveIpcp(m)
    <3>1. /\ UNCHANGED <<bound, aaa, assigned>>
          /\ address' = address \/ (address' = aaa /\ bound > 0)
          /\ dp' # dp => dp' = address' /\ echoArmed' /\ Checked
          /\ ipcp' = "Ack_Sent" => Checked
          /\ echoArmed' => echoArmed \/ Checked
      BY <2>1, <2>5, IpcpEffect
    <3>2. Checked \/ echoArmed => address' \in assigned
      BY <3>1 DEF Given, Binding, Checked
    <3> QED
      BY <3>1, <3>2 DEF Given, Binding
  <2>6. CASE /\ UNCHANGED <<ipcp, bound, aaa, assigned, address, echoArmed>>
             /\ Release
    BY <2>6 DEF Given, Binding, Release
  <2> QED
    BY <1>1, <2>2, <2>3, <2>4, <2>5, <2>6 DEF ServerReceives
<1>2. CASE RadiusAccepts \/ RadiusRejects \/ RadiusFails
  <2>1. /\ ipcp' = "Ack_Sent" => ipcp = "Ack_Sent"
        /\ UNCHANGED <<address, dp, echoArmed>> /\ (BindAaa \/ KeepsAaa)
    BY <1>2, AnswerEffect
  <2> QED
    BY <2>1, BindingKept DEF Given
<1>3. CASE EchoTimer
  BY <1>3, EchoEffect DEF Given, Binding
<1>4. CASE PeerReceives \/ PeerStarts \/ PeerResends \/ PeerLeaves
  BY <1>4, PeerStep DEF Given, Binding, serverVars
<1>5. CASE LinkLoses \/ LinkDuplicates
  BY <1>5, LinkStep DEF Given, Binding, serverVars
<1>6. CASE UNCHANGED vars
  BY <1>6 DEF vars, serverVars, Given, Binding
<1> QED
  BY <1>1, <1>2, <1>3, <1>4, <1>5, <1>6 DEF Next

LEMMA GivenHolds == Spec => []Given
<1>1. Init => Given
  BY DEF Init, Given, Binding
<1>2. TypeOK /\ Given /\ [Next]_vars => Given'
  BY GivenStep
<1> QED
  BY <1>1, <1>2, TypeCorrect, PTL DEF Spec

\* Only an address that AAA assigned to this subscriber gets to the dataplane:
\* check_conf() copies it before IPCP can open, provision_dp() reads nothing
\* else, and what VPP refuses leaves no other entry (check_conf of IPCP,
\* provision_dp, deprovision_dp).
THEOREM ProvisionHasAddress == Spec => []ProvisionedWithAddress
<1>1. Given => ProvisionedWithAddress
  BY DEF Given, ProvisionedWithAddress
<1> QED
  BY <1>1, GivenHolds, PTL

-------------------------------------------------------------------------------
(* The address of the subscriber. *)

\* Requests that are old, or ask for what the subscriber now wants.
Fresh(p) == {m \in MsgToServer : m.proto = "IPCP" /\ m.code = "ConfReq"
                => /\ m.id <= p.id["IPCP"]
                   /\ m.id = p.id["IPCP"] => m.arg = p.want["IPCP"]}

\* Acknowledgements of old requests, or of an address among those given.
Honest(p, given) == {m \in MsgToPeer : m.proto = "IPCP" /\ m.code = "ConfAck"
                        => /\ m.id <= p.id["IPCP"]
                           /\ m.id = p.id["IPCP"] => p.want["IPCP"] \in given}

\* Only assigned addresses are acknowledged.
Agreed == /\ peer.state["IPCP"] \in Settled => peer.want["IPCP"] \in assigned
          /\ toPeer \in Seq(Honest(peer, assigned))
          /\ toServer \in Seq(Fresh(peer))

LEMMA NextPeerKeeps ==
    ASSUME NEW p \in Peer, NEW q, NEW acknowledged, NextPeer(p, q, acknowledged), NEW given
    PROVE  /\ \A s \in Seq(Fresh(p)) : s \in Seq(Fresh(q))
           /\ \A s \in Seq(Asked(q)) : s \in Seq(Fresh(q))
           /\ \A s \in Seq(Honest(p, given)) : s \in Seq(Honest(q, given))
<1>1. p.id["IPCP"] \in Nat /\ q.id["IPCP"] \in Nat
  BY DEF NextPeer, Peer, Layer
<1>2. \A m \in Fresh(p) : m \in Fresh(q)
  BY <1>1 DEF Fresh, NextPeer, MsgToServer
<1>3. \A m \in Asked(q) : m \in Fresh(q)
  BY <1>1 DEF Fresh, Asked
<1>4. \A m \in Honest(p, given) : m \in Honest(q, given)
  BY <1>1 DEF Honest, NextPeer, MsgToPeer
<1> QED
  BY <1>2, <1>3, <1>4, SeqMono

\* Whoever has not acknowledged an address stays honest, and so does everybody
\* when more addresses are given.
LEMMA StaysHonest ==
    ASSUME NEW p, NEW given, NEW more, given \subseteq more
    PROVE  /\ \A s \in Seq(NotAck) : s \in Seq(Honest(p, more))
           /\ \A s \in Seq(Honest(p, given)) : s \in Seq(Honest(p, more))
<1>1. \A m \in NotAck : m \in Honest(p, more)
  BY DEF NotAck, Honest
<1>2. \A m \in Honest(p, given) : m \in Honest(p, more)
  BY DEF Honest
<1> QED
  BY <1>1, <1>2, SeqMono

\* A new AAA session, or the old one, and packets that acknowledge nothing.
LEMMA AgreedKept ==
    ASSUME TypeOK, Agreed, assigned \subseteq assigned', UNCHANGED peer,
           toServer' \in Seq(Fresh(peer)), \E sent \in Seq(NotAck) : toPeer' = toPeer \o sent
    PROVE  Agreed'
<1>1. PICK sent \in Seq(NotAck) : toPeer' = toPeer \o sent
  OBVIOUS
<1>2. toPeer \in Seq(Honest(peer, assigned')) /\ sent \in Seq(Honest(peer, assigned'))
  BY StaysHonest DEF Agreed
<1>3. toPeer' \in Seq(Honest(peer, assigned'))
  BY <1>1, <1>2, Concat
<1> QED
  BY <1>3 DEF Agreed

\* A request that was acknowledged asked for the address of the AAA session.
LEMMA AckIsHonest ==
    ASSUME TypeOK, Given, Agreed, NEW m \in Fresh(peer), m.proto = "IPCP", ReceiveIpcp(m)
    PROVE  toPeer' \in Seq(Honest(peer, assigned))
<1>1. m \in MsgToServer
  BY DEF Fresh
<1>2. PICK sent \in Seq(NotAuth) :
         /\ toPeer' = toPeer \o sent
         /\ \A i \in 1..Len(sent) :
               sent[i].code = "ConfAck" => /\ sent[i].id = m.id /\ m.code = "ConfReq"
                                           /\ m.arg = aaa /\ bound > 0
  BY <1>1, IpcpEffect
<1>3. \A i \in 1..Len(sent) : sent[i] \in MsgToPeer
  BY DEF NotAuth
<1>4. bound > 0 => aaa \in assigned
  BY DEF Given, Binding
<1>5. \A i \in 1..Len(sent) : sent[i] \in Honest(peer, assigned)
  BY <1>2, <1>3, <1>4 DEF Honest, Fresh
<1>6. sent \in Seq(Honest(peer, assigned))
  BY <1>5, SeqMono
<1> QED
  BY <1>2, <1>6, Concat DEF Agreed

LEMMA AgreedStep ==
    ASSUME TypeOK, Given, Agreed, [Next]_vars
    PROVE  Agreed'
<1>0. peer \in Peer /\ Binding
  BY DEF TypeOK, Given
<1>1. CASE ServerReceives
  <2> DEFINE m == Head(toServer)
  <2>1. /\ m \in MsgToServer /\ m \in Fresh(peer) /\ UNCHANGED peer
        /\ toServer' \in Seq(Fresh(peer))
    BY <1>1, QueueOps DEF ServerReceives, TypeOK, Agreed
  <2>2. CASE UNCHANGED <<assigned, toPeer>>
    BY <2>1, <2>2 DEF Agreed
  <2>3. CASE ReceiveLcp(m)
    <3>1. UNCHANGED assigned /\ \E sent \in Seq(NotAck) : toPeer' = toPeer \o sent
      BY <2>1, <2>3, LcpEffect DEF ReceiveLcp
    <3> QED
      BY <2>1, <3>1, AgreedKept
  <2>4. CASE ReceiveAuth(m)
    <3>1. (BindAaa \/ KeepsAaa) /\ \E sent \in Seq(NotAck) : toPeer' = toPeer \o sent
      BY <2>1, <2>4, AuthEffect
    <3> QED
      BY <1>0, <2>1, <3>1, BindingKept, AgreedKept
  <2>5. CASE m.proto = "IPCP" /\ ReceiveIpcp(m)
    <3>1. UNCHANGED assigned
      BY <2>1, <2>5, IpcpEffect
    <3>2. toPeer' \in Seq(Honest(peer, assigned))
      BY <2>1, <2>5, AckIsHonest
    <3> QED
      BY <2>1, <3>1, <3>2 DEF Agreed
  <2> QED
    BY <1>1, <2>2, <2>3, <2>4, <2>5 DEF ServerReceives, serverVars
<1>2. CASE RadiusAccepts \/ RadiusRejects \/ RadiusFails
  <2>1. (BindAaa \/ KeepsAaa) /\ UNCHANGED <<peer, toServer>>
    BY <1>2, AnswerEffect
  <2>2. \E sent \in Seq(NotAck) : toPeer' = toPeer \o sent
    BY <1>2, AnswerEffect
  <2> QED
    BY <1>0, <2>1, <2>2, BindingKept, AgreedKept DEF Agreed
<1>3. CASE EchoTimer
  <2>1. UNCHANGED <<assigned, peer, toServer>>
    BY <1>3, EchoEffect
  <2>2. \E sent \in Seq(NotAck) : toPeer' = toPeer \o sent
    <3>1. <<>> \in Seq(NotAck) /\ <<EchoRequest>> \in Seq(NotAck) /\ toPeer \o <<>> = toPeer
      BY OwnPackets, Short DEF TypeOK
    <3> QED
      BY <1>3, <3>1, EchoEffect
  <2> QED
    BY <2>1, <2>2, AgreedKept DEF Agreed
<1>4. CASE PeerReceives \/ PeerStarts \/ PeerResends \/ PeerLeaves
  <2>1. UNCHANGED assigned /\ NextPeer(peer, peer', TakesAck)
    BY <1>4, PeerStep DEF serverVars, PeerMoves
  <2>2. toServer' \in Seq(Fresh(peer'))
    <3>1. PICK out \in Seq(Asked(peer')) : toServer' = toServer \o out
      BY <1>4, PeerStep DEF PeerMoves
    <3>2. toServer \in Seq(Fresh(peer')) /\ out \in Seq(Fresh(peer'))
      BY <1>0, <2>1, NextPeerKeeps DEF Agreed
    <3> QED
      BY <3>1, <3>2, Concat
  <2>3. toPeer' \in Seq(Honest(peer', assigned))
    <3>1. toPeer' \in Seq(Honest(peer, assigned))
      BY <1>4, PeerStep, QueueOps DEF Agreed
    <3> QED
      BY <1>0, <2>1, <3>1, NextPeerKeeps
  <2>4. TakesAck => peer.want["IPCP"] \in assigned
    BY QueueOps DEF TakesAck, Acks, Agreed, Honest
  <2>5. peer'.state["IPCP"] \in Settled => peer'.want["IPCP"] \in assigned
    BY <2>1, <2>4 DEF NextPeer, Agreed
  <2> QED
    BY <2>1, <2>2, <2>3, <2>5 DEF Agreed
<1>5. CASE LinkLoses \/ LinkDuplicates
  BY <1>5, LinkStep DEF Agreed, serverVars
<1>6. CASE UNCHANGED vars
  BY <1>6 DEF vars, serverVars, linkVars, Agreed
<1> QED
  BY <1>1, <1>2, <1>3, <1>4, <1>5, <1>6 DEF Next

\* Once both ends have opened IPCP the dataplane forwards for the address the
\* subscriber believes it has, as long as one AAA session is bound: it asks under
\* a new identifier when it wants another address, and an acknowledgement carries
\* the identifier of a request for the address of the AAA session (check_conf of
\* IPCP, provision_dp).
THEOREM AddressesAgree == Spec => []AddressAgreement
<1>1. Init => Agreed
  <2> SUFFICES ASSUME Init PROVE Agreed
    OBVIOUS
  <2>1. peer.state["IPCP"] \notin Settled
    BY DEF Init, Settled, Layer
  <2>2. toPeer = <<>> /\ toServer = <<>>
    BY DEF Init
  <2>3. toPeer \in Seq(Honest(peer, assigned)) /\ toServer \in Seq(Fresh(peer))
    BY <2>2
  <2> QED
    BY <2>1, <2>3 DEF Agreed
<1>2. TypeOK /\ Given /\ Agreed /\ [Next]_vars => Agreed'
  BY AgreedStep
<1>3. Given /\ Agreed => AddressAgreement
  BY DEF Given, Binding, Agreed, AddressAgreement, Agree, Settled
<1> QED
  BY <1>1, <1>2, <1>3, GivenHolds, TypeCorrect, PTL DEF Spec
===============================================================================
