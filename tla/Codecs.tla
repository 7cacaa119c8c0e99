------------------------------- MODULE Codecs -------------------------------
(* The formats of packets, checked case by case: the daemon is given an      *)
(* input, and its output is read as the other side would.                    *)
EXTENDS DiscoveryTags, Encapsulation, RadiusAttributes

CONSTANTS
    Packets,    \* the tags of a PADI or PADR
    Policies,   \* PPPoE policies
    Cookie,     \* the value of a cookie
    Frames,     \* the VLAN tags of a frame
    Requests    \* RADIUS requests: their kind and the texts they are given

VARIABLES
    input,
    output   \* what the daemon sends; None: nothing yet, or an error

CONSTANT None

ASSUME PacketAssumption == Packets \subseteq Seq([type : STRING, value : Values])
ASSUME PolicyAssumption ==
    /\ Cookie \in Values
    /\ Policies \subseteq [ac_name : Values, service_name : SUBSET Values,
                           ignore_service_name : BOOLEAN, insert_cookie : BOOLEAN]
ASSUME FrameAssumption == Frames \subseteq Seq(Nat)
\* A password is hidden in as many bytes; a number of the dictionary is a byte.
ASSUME RequestAssumption ==
    \A request \in Requests :
        /\ request.kind \in {"pap", "chap", "acct"}
        /\ request.field \in [Fields(request.kind) -> Bytes]
        /\ \A name \in Fields(request.kind) :
              /\ Value(name, request.field[name]) \in 0..(Octet - 1)
              /\ name \in Counters => Len(request.field[name]) = 4
        /\ request.kind = "pap" =>
              LET hidden == Hide(Pad(request.field["User-Password"]))
              IN  /\ hidden \in Bytes /\ Len(hidden) = Len(Pad(request.field["User-Password"]))
                  /\ Value("User-Password", hidden) \in 0..(Octet - 1)

vars == <<input, output>>

Case(kind, data) == [kind |-> kind, data |-> data]

Init ==
    /\ output = None
    /\ \/ \E packet \in Packets, policy \in Policies :
             input = Case("padi", [packet |-> packet, policy |-> policy])
       \/ \E packet \in Packets : input = Case("padr", [packet |-> packet])
       \/ \E tags \in Frames : input = Case("frame", tags)
       \/ \E request \in Requests : input = Case("request", request)

ProcessPadi ==
    /\ input.kind = "padi"
    /\ LET tags == ParseTags(input.data.packet)
       IN  output' = IF ParseFails(input.data.packet) \/ WrongService(tags, input.data.policy) THEN None
                     ELSE Pado(tags, input.data.policy, Cookie)

ProcessPadr ==
    /\ input.kind = "padr"
    /\ output' = IF ParseFails(input.data.packet) THEN None ELSE Pads(ParseTags(input.data.packet))

ProcessFrame == input.kind = "frame" /\ output' = Header(Line(input.data))

SendRequest == input.kind = "request" /\ output' = SerializeAvps(Attributes(input.data))

Next == output = None /\ UNCHANGED input /\ (ProcessPadi \/ ProcessPadr \/ ProcessFrame \/ SendRequest)

Spec == Init /\ [][Next]_vars

-----------------------------------------------------------------------------
(* Properties. *)

\* A PADO or PADS with tags that fit their 8-bit size gives the subscriber back
\* its HOST_UNIQ and service name, and one with a longer tag is always cut short.
AnswersEcho ==
    input.kind \in {"padi", "padr"} /\ output # None =>
        IF Short(output) THEN Echoes(output, ParseTags(input.data.packet)) ELSE ~Intact(output)

\* The answer to a frame with at most one VLAN tag carries that tag, and frames
\* of different tags are never filed under one line.
AnswerGoesBack ==
    input.kind = "frame" /\ Len(input.data) <= 1 =>
        /\ GoesBack(input.data)
        /\ \A tags \in Frames : Len(tags) <= 1 /\ Line(tags) = Line(input.data)
                                   => Untagged(tags) = Untagged(input.data)

\* From the bytes of a request parseAVP() reads what serializeAVP() was given, in
\* the order of a std::set and of one number only the first, exactly when every
\* value fits its 8-bit length: a longer one is never read right, whatever lies
\* behind the packet (AVP::AVP, AVP::serialize).
RequestReadsBack ==
    input.kind = "request" /\ output # None =>
        \A beyond \in Beyond :
            ReadsBack(output, beyond, Attributes(input.data)) <=> Fit(Attributes(input.data))
=============================================================================
