----------------------------- MODULE PppSession -----------------------------
(* One PPPoE session from its PADS to its end: the PPP negotiation of the    *)
(* daemon (ppp.cpp, ppp_lcp.cpp, ppp_auth.cpp, ppp_chap.cpp, ppp_ipcp.cpp,   *)
(* session.cpp) with one subscriber, over an Ethernet that keeps the order   *)
(* of packets but may lose and duplicate them. The subscriber is an RFC 1661 *)
(* peer; it is not part of the daemon and modelled from the packets the      *)
(* daemon exchanges with it.                                                 *)
EXTENDS PppFsm, Naturals

CONSTANTS
    AuthProto,   \* lcp_conf: "CHAP", "PAP" or "none"
    Methods,     \* aaa_conf.method: a sequence over {"NONE", "RADIUS"}
    Addresses,   \* addresses AAA may assign
    NoAddr,      \* 0.0.0.0: what AAA assigns from an exhausted pool, and what a
                 \* subscriber without an address asks for
    NoEntry,     \* the dataplane has no entry of the session
    VppFails,    \* whether VPP may refuse a call
    MaxEcho,     \* unanswered echo requests tolerated (9 in the daemon)
    MaxResend,   \* bound: requests the peer sends again after a timeout
    MaxLoss,     \* bound: packets lost
    MaxDup       \* bound: packets duplicated

ASSUME ConfAssumption ==
    /\ AuthProto \in {"CHAP", "PAP", "none"}
    /\ Methods \in Seq({"NONE", "RADIUS"})
    /\ NoAddr \notin Addresses /\ NoEntry \notin Addresses \cup {NoAddr}
    /\ VppFails \in BOOLEAN
    /\ {MaxEcho, MaxResend, MaxLoss, MaxDup} \subseteq Nat

VARIABLES
    alive,        \* the session is in activeSessions
    started,      \* PPPOESession::started: a first packet has opened LCP
    lcp, ipcp,    \* the states of the two automata
    authed,       \* PPP_AUTH::started, PPP_CHAP::started
    radius,       \* Access-Requests of this session without a result yet
    rejected,     \* history: RADIUS answered one of them with no accept
    accepted,     \* history: AAA accepted the subscriber
    bound,        \* history: how often an AAA session was bound to it
    aaa,          \* the address of the AAA session bound to it, if any
    assigned,     \* history: the addresses of all AAA sessions bound to it
    address,      \* PPPOESession::address, copied from aaa by IPCP
    dp,           \* the address of its entry in the dataplane, or NoEntry
    echoArmed,    \* the echo timer runs
    echoCounter,  \* LCP_FSM::echo_counter
    peer,         \* the subscriber
    toServer, toPeer,  \* packets in flight
    losses, dups       \* how many packets were lost, duplicated so far

serverVars == <<alive, started, lcp, ipcp, authed, radius, rejected, accepted,
                bound, aaa, assigned, address, dp, echoArmed, echoCounter>>
linkVars == <<toServer, toPeer, losses, dups>>
vars == <<serverVars, peer, linkVars>>

\* id: the identifier of a request and its answer; arg: the address in it, or
\* "unknown" for an option the server rejects or a magic number it does not know.
Layer == {"LCP", "IPCP"}
Arg == Addresses \cup {NoAddr, "unknown"}
Msg(proto, code, id, arg) == [proto |-> proto, code |-> code, id |-> id, arg |-> arg]
Plain(proto, code) == Msg(proto, code, 0, NoAddr)

PeerState == {"Closed", "Req_Sent", "Ack_Rcvd", "Ack_Sent", "Opened"}
Peer == [state : [Layer -> PeerState], id : [Layer -> Nat], want : [Layer -> Arg],
         auth : {"idle", "sent", "ok"}, resent : Nat, gone : BOOLEAN]
PacketCode == {"ConfReq", "ConfAck", "ConfNak", "ConfRej", "TermReq", "TermAck", "EchoReq",
               "EchoRep", "Challenge", "Request", "Ack", "Nak", "PADT"}
MsgToPeer == [proto : {"LCP", "AUTH", "IPCP"}, code : PacketCode, id : Nat, arg : Arg]
MsgToServer == [proto : {"LCP", "AUTH", "IPCP", "PADT"}, code : PacketCode, id : Nat, arg : Arg]

TypeOK ==
    /\ alive \in BOOLEAN /\ started \in BOOLEAN /\ echoArmed \in BOOLEAN
    /\ authed \in BOOLEAN /\ rejected \in BOOLEAN /\ accepted \in BOOLEAN
    /\ lcp \in FsmState /\ ipcp \in FsmState
    /\ {radius, bound, echoCounter, losses, dups} \subseteq Nat
    /\ {aaa, address} \cup assigned \subseteq Addresses \cup {NoAddr}
    /\ dp \in Addresses \cup {NoAddr, NoEntry}
    /\ peer \in Peer
    /\ toServer \in Seq(MsgToServer)
    /\ toPeer \in Seq(MsgToPeer)

Init ==
    /\ alive = TRUE /\ started = FALSE
    /\ lcp = "Initial" /\ ipcp = "Initial"
    /\ authed = FALSE /\ radius = 0 /\ rejected = FALSE /\ accepted = FALSE
    /\ bound = 0 /\ aaa = NoAddr /\ assigned = {} /\ dp = NoEntry
    /\ address \in Addresses \cup {NoAddr}   \* not initialized
    /\ echoArmed = FALSE /\ echoCounter = 0
    /\ \E ask \in [Layer -> {NoAddr, "unknown"}] :
          peer = [state |-> [proto \in Layer |-> "Closed"], id |-> [proto \in Layer |-> 0],
                  want |-> ask, auth |-> "idle", resent |-> 0, gone |-> FALSE]
    /\ toServer = <<>> /\ toPeer = <<>> /\ losses = 0 /\ dups = 0

-----------------------------------------------------------------------------
(* The daemon. *)

\* send_conf_req() of LCP needs an authentication protocol to ask for.
LcpReq == IF AuthProto = "none" THEN <<>> ELSE <<"ConfReq">>
IpcpReq == <<"ConfReq">>

\* The packets an automaton pushed, answering the request m.
Packets(proto, codes, m, arg) ==
    [i \in 1..Len(codes) |-> Msg(proto, codes[i], IF codes[i] = "ConfReq" THEN 1 ELSE m.id,
                                 IF codes[i] \in {"ConfAck", "ConfNak"} THEN arg ELSE NoAddr)]

\* What LCP brings up: CHAP is opened by a challenge, PAP waits for the peer.
Challenge == IF AuthProto = "CHAP" THEN <<Plain("AUTH", "Challenge")>> ELSE <<>>

AuthNak == Plain("AUTH", "Nak")
EchoRequest == Plain("LCP", "EchoReq")

\* The first packet of a session opens LCP (processPPP).
LcpStart == IF started THEN Stay(lcp) ELSE OpenAndUp(lcp, LcpReq)
StartPackets == Packets("LCP", LcpStart.out, Plain("LCP", ""), NoAddr)

\* Seeded fault: the destructor leaves the dataplane alone.
ReleaseNothing == UNCHANGED dp

\* The session object is destroyed when it is in no table and no timer handler
\* holds it; its destructor takes it out of the dataplane, if VPP does not fail.
Release ==
    IF alive' \/ echoArmed' THEN UNCHANGED dp
    ELSE dp' = NoEntry \/ (VppFails /\ UNCHANGED dp)

ReceiveLcp(m) ==
    LET verdict == IF m.arg = "unknown" THEN "rej" ELSE "ack"
        ret     == Receive("LCP", LcpStart.state, m.code, verdict, LcpReq)
        next    == IF ret.action = "LAYER_UP" THEN Challenge ELSE <<>>
        ipcpUp  == IF ret.action = "LAYER_UP" /\ AuthProto = "none"
                   THEN OpenAndUp(ipcp, IpcpReq) ELSE Stay(ipcp)
    IN  /\ lcp' = ret.state
        /\ ipcp' = ipcpUp.state
        /\ alive' = (ret.action # "LAYER_DOWN")   \* deallocateSession
        /\ echoCounter' = IF m.code = "EchoRep" /\ LcpStart.state \notin {"Initial", "Starting"}
                          THEN 0 ELSE echoCounter
        /\ toPeer' = toPeer \o StartPackets \o Packets("LCP", ret.out, m, NoAddr)
                       \o next \o Packets("IPCP", ipcpUp.out, m, NoAddr)
        /\ UNCHANGED <<authed, radius, rejected, accepted, bound, aaa, assigned, address, echoArmed>>
        /\ Release

\* send_auth_ack(): the acknowledgement, then IPCP is opened.
AuthAck == LET up == OpenAndUp(ipcp, IpcpReq)
           IN  [state |-> up.state,
                out   |-> <<Plain("AUTH", "Ack")>> \o Packets("IPCP", up.out, Plain("IPCP", ""), NoAddr)]

\* Every success brings a new AAA session with an address of its own: 0.0.0.0
\* where no pool is named or all its addresses are leased.
BindAaa ==
    /\ bound' = bound + 1
    /\ aaa' \in Addresses \cup {NoAddr}
    /\ assigned' = assigned \cup {aaa'}

\* The authentication methods up to the first RADIUS, tried in order: NONE
\* accepts at once and the next method is tried all the same.
NoneTried == \E i \in 1..Len(Methods) :
                Methods[i] = "NONE" /\ \A j \in 1..i : Methods[j] # "RADIUS"
RadiusTried == \E i \in 1..Len(Methods) : Methods[i] = "RADIUS"

\* PAP Authenticate-Request or CHAP Response; LCP's state is not looked at.
ReceiveAuth(m) ==
    LET accept == authed \/ NoneTried
    IN  /\ lcp' = LcpStart.state
        /\ m.code = "Request"
        /\ authed' = accept
        /\ ipcp' = IF accept THEN AuthAck.state ELSE ipcp
        /\ toPeer' = toPeer \o StartPackets \o (IF accept THEN AuthAck.out ELSE <<>>)
        /\ radius' = IF ~authed /\ RadiusTried THEN radius + 1 ELSE radius
        /\ accepted' = (accepted \/ (~authed /\ NoneTried))
        /\ IF ~authed /\ NoneTried THEN BindAaa ELSE UNCHANGED <<aaa, bound, assigned>>
        /\ UNCHANGED <<alive, rejected, address, dp, echoArmed, echoCounter>>

\* Seeded fault: the address in the request is not compared.
IpcpVerdictLax(m) == IF bound = 0 THEN "none" ELSE "ack"

\* check_conf() of IPCP: without an AAA session there is nothing to check
\* against.
IpcpVerdict(m) ==
    CASE bound = 0                       -> "none"
      [] bound > 0 /\ m.arg = "unknown" -> "rej"
      [] bound > 0 /\ m.arg = aaa       -> "ack"
      [] OTHER                          -> "nak"

IpcpChecks(m) ==
    /\ m.code = "ConfReq" /\ bound > 0
    /\ ipcp \in {"Req_Sent", "Ack_Rcvd", "Ack_Sent", "Stopped"}

\* Seeded fault: the session takes the address the subscriber asks for.
IpcpAddressAsked(m) == IF IpcpChecks(m) THEN m.arg ELSE address

\* check_conf() copies the address of the AAA session into the session.
IpcpAddress(m) == IF IpcpChecks(m) THEN aaa ELSE address

\* provision_dp(): VPP refuses to add a session it has. What fails after the
\* entry was made (VRF, unnumbered interface) leaves it there.
ProvisionDp ==
    IF dp # NoEntry THEN UNCHANGED dp
    ELSE dp' = address' \/ (VppFails /\ UNCHANGED dp)

\* IPCP hands out the address of the AAA session. That provision_dp() failed is
\* only logged: the echo timer starts all the same.
ReceiveIpcp(m) ==
    LET ret == Receive("IPCP", ipcp, m.code, IpcpVerdict(m), IpcpReq)
        up  == ret.action = "LAYER_UP"
    IN  /\ lcp' = LcpStart.state
        /\ ipcp' = ret.state
        /\ address' = IpcpAddress(m)
        /\ toPeer' = toPeer \o StartPackets \o Packets("IPCP", ret.out, m, address')
        /\ IF up THEN ProvisionDp ELSE UNCHANGED dp
        /\ echoArmed' = (echoArmed \/ up)
        /\ UNCHANGED <<alive, authed, radius, rejected, accepted, bound, aaa, assigned, echoCounter>>

\* A packet of the session arrives; one of a session not in the tables is
\* dropped. A PADT ends the session.
ServerReceives ==
    /\ toServer # <<>>
    /\ toServer' = Tail(toServer)
    /\ LET m == Head(toServer)
       IN  \/ /\ ~alive
              /\ UNCHANGED <<serverVars, toPeer>>
           \/ /\ alive /\ m.proto # "PADT" /\ started' = TRUE
              /\ \/ m.proto = "LCP"  /\ ReceiveLcp(m)
                 \/ m.proto = "AUTH" /\ ReceiveAuth(m)
                 \/ m.proto = "IPCP" /\ ReceiveIpcp(m)
           \/ /\ alive /\ m.proto = "PADT" /\ alive' = FALSE
              /\ UNCHANGED <<started, lcp, ipcp, authed, radius, rejected, accepted, bound, aaa,
                             assigned, address, echoArmed, echoCounter, toPeer>>
              /\ Release
    /\ UNCHANGED <<peer, losses, dups>>

\* auth_callback() with a new AAA session, after the packets before it. Once
\* the session object is gone the callback has nothing left to act on here.
Bind(before) ==
    IF alive \/ echoArmed
    THEN /\ authed' = TRUE
         /\ BindAaa
         /\ ipcp' = AuthAck.state
         /\ toPeer' = toPeer \o before \o AuthAck.out
    ELSE UNCHANGED <<authed, bound, aaa, assigned, ipcp, toPeer>>

RadiusAccepts ==
    /\ radius > 0 /\ radius' = radius - 1
    /\ accepted' = TRUE
    /\ Bind(<<>>)
    /\ UNCHANGED <<alive, started, lcp, rejected, address, dp, echoArmed, echoCounter,
                   peer, toServer, losses, dups>>

\* processRadiusAnswer() reports a reject, does not return, and goes on to
\* create a session as for an accept.
RadiusRejects ==
    /\ radius > 0 /\ radius' = radius - 1
    /\ rejected' = TRUE
    /\ Bind(<<AuthNak>>)
    /\ UNCHANGED <<alive, started, lcp, accepted, address, dp, echoArmed, echoCounter,
                   peer, toServer, losses, dups>>

RadiusFails ==
    /\ radius > 0 /\ radius' = radius - 1
    /\ toPeer' = IF alive \/ echoArmed THEN Append(toPeer, AuthNak) ELSE toPeer
    /\ UNCHANGED <<alive, started, lcp, ipcp, authed, rejected, accepted, bound, aaa, assigned, address, dp,
                   echoArmed, echoCounter, peer, toServer, losses, dups>>

\* sendEchoReq(): one more request, or the peer is given up. The timer runs for
\* 20 s or more: what the round before sent has arrived or is lost by then.
EchoTimer ==
    /\ echoArmed
    /\ \A i \in 1..Len(toPeer) : toPeer[i].code # "EchoReq"
    /\ \A i \in 1..Len(toServer) : toServer[i].code # "EchoRep"
    /\ echoCounter' = echoCounter + 1
    /\ IF echoCounter' > MaxEcho
       THEN /\ alive' = FALSE /\ echoArmed' = FALSE
            /\ UNCHANGED toPeer
       ELSE /\ toPeer' = Append(toPeer, EchoRequest)
            /\ UNCHANGED <<alive, echoArmed>>
    /\ UNCHANGED <<started, lcp, ipcp, authed, radius, rejected, accepted, bound, aaa, assigned, address,
                   peer, toServer, losses, dups>>
    /\ Release

-----------------------------------------------------------------------------
(* The subscriber and the link (not part of the daemon). *)

\* The peer's automaton for one layer: it ignores answers to any request but
\* the outstanding one.
Request(p, proto) == Msg(proto, "ConfReq", p.id[proto], p.want[proto])
Asks(p, proto, value) == [p EXCEPT !.id[proto] = @ + 1, !.want[proto] = value]
Outstanding(p, m) == p.state[m.proto] \in {"Req_Sent", "Ack_Sent"} /\ m.id = p.id[m.proto]

PeerRet(p, out) == [peer |-> p, out |-> out]

\* A peer whose LCP comes up authenticates; one whose LCP goes down starts over.
Follow(ret, before) ==
    LET up   == ret.peer.state["LCP"] = "Opened" /\ before.state["LCP"] # "Opened"
        down == ret.peer.state["LCP"] # "Opened" /\ before.state["LCP"] = "Opened"
    IN  CASE up /\ AuthProto = "PAP" ->
                 PeerRet([ret.peer EXCEPT !.auth = "sent"],
                         Append(ret.out, Plain("AUTH", "Request")))
          [] down -> PeerRet([ret.peer EXCEPT !.auth = "idle", !.state["IPCP"] = "Closed"], ret.out)
          [] OTHER -> ret

PeerHandles(p, m) ==
    LET state == p.state[m.proto]
        ack   == Msg(m.proto, "ConfAck", m.id, NoAddr)
        again == Asks(p, m.proto, IF m.code = "ConfNak" THEN m.arg ELSE NoAddr)
        over  == Asks(p, m.proto, p.want[m.proto])
    IN  CASE m.code = "ConfReq" /\ state \in {"Req_Sent", "Ack_Sent"} ->
                 PeerRet([p EXCEPT !.state[m.proto] = "Ack_Sent"], <<ack>>)
          [] m.code = "ConfReq" /\ state = "Ack_Rcvd" ->
                 PeerRet([p EXCEPT !.state[m.proto] = "Opened"], <<ack>>)
          [] m.code = "ConfReq" /\ state = "Opened" ->
                 PeerRet([over EXCEPT !.state[m.proto] = "Ack_Sent"], <<Request(over, m.proto), ack>>)
          [] m.code = "ConfAck" /\ Outstanding(p, m) ->
                 PeerRet([p EXCEPT !.state[m.proto] = IF @ = "Req_Sent" THEN "Ack_Rcvd" ELSE "Opened"],
                         <<>>)
          [] m.code \in {"ConfNak", "ConfRej"} /\ Outstanding(p, m) ->
                 PeerRet(again, <<Request(again, m.proto)>>)
          [] m.code = "EchoReq" /\ state = "Opened" -> PeerRet(p, <<Plain("LCP", "EchoRep")>>)
          [] OTHER -> PeerRet(p, <<>>)

\* Authentication on the peer's side. After a refusal it may try again or wait
\* for another answer (the first) or leave (PeerLeaves).
PeerAuthenticates(p, m) ==
    LET ask == [Asks(p, "IPCP", p.want["IPCP"]) EXCEPT !.auth = "ok", !.state["IPCP"] = "Req_Sent"]
    IN  CASE m.code = "Challenge" /\ p.state["LCP"] = "Opened" ->
                 PeerRet([p EXCEPT !.auth = "sent"], <<Plain("AUTH", "Request")>>)
          [] m.code = "Ack" /\ p.auth = "sent" -> PeerRet(ask, <<Request(ask, "IPCP")>>)
          [] OTHER -> PeerRet(p, <<>>)

PeerReceives ==
    /\ toPeer # <<>>
    /\ toPeer' = Tail(toPeer)
    /\ LET m   == Head(toPeer)
           ret == CASE peer.gone -> PeerRet(peer, <<>>)
                    [] ~peer.gone /\ m.proto = "AUTH" -> PeerAuthenticates(peer, m)
                    [] OTHER -> Follow(PeerHandles(peer, m), peer)
       IN  peer' = ret.peer /\ toServer' = toServer \o ret.out
    /\ UNCHANGED <<serverVars, losses, dups>>

\* A subscriber that got its PADS opens LCP.
PeerStarts ==
    /\ ~peer.gone /\ peer.id["LCP"] = 0
    /\ LET p == [Asks(peer, "LCP", peer.want["LCP"]) EXCEPT !.state["LCP"] = "Req_Sent"]
       IN  peer' = p /\ toServer' = Append(toServer, Request(p, "LCP"))
    /\ UNCHANGED <<serverVars, toPeer, losses, dups>>

\* A request was not answered in time: it is sent again. (A CHAP peer waits for
\* the challenge to be sent again; the daemon never does.)
PeerResends ==
    /\ ~peer.gone /\ peer.resent < MaxResend
    /\ \/ \E proto \in Layer :
             /\ peer.state[proto] \in {"Req_Sent", "Ack_Rcvd", "Ack_Sent"}
             /\ LET p == [Asks(peer, proto, peer.want[proto]) EXCEPT
                           !.resent = @ + 1,
                           !.state[proto] = IF @ = "Ack_Rcvd" THEN "Req_Sent" ELSE @]
                IN  peer' = p /\ toServer' = Append(toServer, Request(p, proto))
       \/ /\ AuthProto = "PAP" /\ peer.auth = "sent"
          /\ peer' = [peer EXCEPT !.resent = @ + 1]
          /\ toServer' = Append(toServer, Plain("AUTH", "Request"))
    /\ UNCHANGED <<serverVars, toPeer, losses, dups>>

\* The subscriber ends the session, or is simply gone.
PeerLeaves ==
    /\ ~peer.gone /\ peer' = [peer EXCEPT !.gone = TRUE]
    /\ \/ /\ peer.state["LCP"] = "Opened"
          /\ \E bye \in {Plain("LCP", "TermReq"), Msg("LCP", "TermReq", 0, "unknown"),
                       Plain("PADT", "PADT")} :
                toServer' = Append(toServer, bye)
       \/ UNCHANGED toServer
    /\ UNCHANGED <<serverVars, toPeer, losses, dups>>

LinkLoses ==
    /\ losses < MaxLoss /\ losses' = losses + 1
    /\ \/ toServer # <<>> /\ toServer' = Tail(toServer) /\ UNCHANGED toPeer
       \/ toPeer # <<>> /\ toPeer' = Tail(toPeer) /\ UNCHANGED toServer
    /\ UNCHANGED <<serverVars, peer, dups>>

LinkDuplicates ==
    /\ dups < MaxDup /\ dups' = dups + 1
    /\ \/ toServer # <<>> /\ toServer' = <<Head(toServer)>> \o toServer /\ UNCHANGED toPeer
       \/ toPeer # <<>> /\ toPeer' = <<Head(toPeer)>> \o toPeer /\ UNCHANGED toServer
    /\ UNCHANGED <<serverVars, peer, losses>>

Next ==
    \/ ServerReceives \/ RadiusAccepts \/ RadiusRejects \/ RadiusFails \/ EchoTimer
    \/ PeerStarts \/ PeerReceives \/ PeerResends \/ PeerLeaves
    \/ LinkLoses \/ LinkDuplicates

Spec == Init /\ [][Next]_vars

\* The event loop serves every packet and timer, a RADIUS request is answered or
\* runs into its 5 s timeout, the peer reacts to what it receives.
FairSpec ==
    /\ Spec
    /\ WF_vars(ServerReceives)
    /\ WF_vars(RadiusAccepts \/ RadiusRejects \/ RadiusFails)
    /\ WF_vars(EchoTimer)
    /\ WF_vars(PeerStarts)
    /\ WF_vars(PeerReceives)

-----------------------------------------------------------------------------
(* Properties. *)

\* With CHAP no session negotiates IPCP before its LCP is open, nor goes on once
\* LCP has left the Opened state, whatever is lost, repeated or still in flight
\* (LAYER_UP and LAYER_DOWN of LCP in processPPP).
NetworkPhaseNeedsLink == alive /\ ipcp # "Initial" => lcp = "Opened"

Agree == alive /\ dp # NoEntry /\ ipcp = "Opened" /\ peer.state["IPCP"] = "Opened"
            => dp = peer.want["IPCP"]

\* Once both ends have opened IPCP the dataplane forwards for the address the
\* subscriber believes it has, however often IPCP is negotiated again, as long as
\* one AAA session is bound (check_conf of IPCP, provision_dp).
AddressAgreement == bound <= 1 => Agree

\* Only an address that AAA assigned to this subscriber gets to the dataplane:
\* the address, which no constructor initializes, is set before provision_dp()
\* reads it, and VPP never has another one, whatever is lost, repeated or asked
\* for, however often an AAA session is bound and whatever VPP refuses
\* (check_conf of IPCP, provision_dp).
ProvisionedWithAddress ==
    /\ echoArmed => address \in assigned
    /\ dp # NoEntry => dp \in assigned

Established == ipcp = "Opened" /\ peer.state["IPCP"] = "Opened" /\ dp # NoEntry

\* On a link that loses nothing, with a VPP that does not fail, an authenticated
\* session whose peer has no reason to repeat a request comes up unless that peer
\* leaves: the three negotiations never wait for each other (processPPP,
\* auth_callback). A request that came too late into the Opened state of IPCP may
\* hang: the daemon sends nothing again.
SessionComesUp == authed ~> (Established \/ ~alive \/ peer.gone \/ peer.resent > 0)

\* A subscriber that is gone, with or without a PADT, is found out: its session
\* leaves the tables and, if VPP does not fail, the dataplane (startEcho,
\* sendEchoReq, ~PPPOESession).
DeadPeerIsStopped == echoArmed /\ peer.gone ~> ~alive /\ dp = NoEntry

\* "Authentication fails after the LCP negotiation, no IP address can be obtained"
\* (docs/AUTH_GUIDE.md): what a subscriber RADIUS refused should see.
RejectedGetsNoAddress == rejected /\ ~accepted => dp = NoEntry
=============================================================================
