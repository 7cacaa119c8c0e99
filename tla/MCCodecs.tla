------------------------------ MODULE MCCodecs ------------------------------
(* Small inputs for Codecs: tags of less than 8 bytes, VLANs below 4,  *)
(* attributes of less than 16 bytes.                                         *)
EXTENDS Codecs

\* Values of a tag: a service, one of no length, the longest that fits, the
\* shortest that does not.
MCSize(value) ==
    CASE value = "internet" -> 2 [] value = "" -> 0 [] value = "fits" -> 3 [] OTHER -> 4
MCCookie == "fits"
MCValues == {"internet", "", "fits", "long"}
MCPackets == UNION {[1..n -> {Tag(type, value) : type \in {"SERVICE_NAME", "HOST_UNIQ", "END_OF_LIST"},
                                                 value \in MCValues}] : n \in 1..3}
MCPolicies ==
    {[ac_name |-> name, service_name |-> services, ignore_service_name |-> ignore, insert_cookie |-> cookie] :
        name \in {"fits", "long"}, services \in {{"internet"}, {"internet", ""}},
        ignore \in BOOLEAN, cookie \in BOOLEAN}

MCFrames == UNION {[1..n -> 0..7] : n \in 0..3}

\* A dictionary without the names of the access line.
MCCode ==
    [name \in (Fields("pap") \cup Fields("chap") \cup Fields("acct")) \ PortNames |->
        CASE name = "User-Name"           -> 1  [] name = "User-Password"       -> 2
          [] name = "CHAP-Password"       -> 3  [] name = "Service-Type"        -> 4
          [] name = "Framed-Protocol"     -> 5  [] name = "NAS-Identifier"      -> 6
          [] name = "Acct-Status-Type"    -> 7  [] name = "Acct-Input-Octets"   -> 8
          [] name = "Acct-Output-Octets"  -> 9  [] name = "Acct-Session-Id"     -> 10
          [] name = "Acct-Input-Packets"  -> 11 [] name = "Acct-Output-Packets" -> 12
          [] name = "CHAP-Challenge"      -> 13]
MCValue(name, text) ==
    IF name \in {"Service-Type", "Framed-Protocol", "Acct-Status-Type"} /\ text = <<3>> THEN 2 ELSE 0
MCHide(text) == [i \in DOMAIN text |-> (text[i] + 7) % Octet]
MCBeyond == {[i \in 1..Octet |-> 0], [i \in 1..Octet |-> 3]}

\* Texts: one that fits just so, one that is a byte too long, one whose length
\* is taken for a header's, so that its bytes are read as attributes; one the
\* dictionary has a number for and one it has none for.
Fits == [i \in 1..(Octet - 3) |-> 1]
Long == [i \in 1..(Octet - 2) |-> 2]
Longer == [i \in 1..Octet |-> 2]
MCTexts(name) ==
    CASE name \in Counters -> {BE32(0), BE32(9)}
      [] name \in {"Service-Type", "Framed-Protocol", "Acct-Status-Type"} -> {<<>>, <<3>>, <<4>>}
      [] name \in PortNames -> {<<>>, <<5, 2>>}
      [] name = "User-Name" -> {<<>>, Fits, Long}
      [] name = "NAS-Identifier" -> {<<>>, Fits, Longer}
      [] name \in {"User-Password", "CHAP-Password"} -> {<<>>, <<1>>, Fits, Long}
      [] OTHER -> {<<>>, Longer}
MCFields(names) ==
    FoldSet(LAMBDA name, fields : {field @@ (name :> text) : field \in fields, text \in MCTexts(name)},
            {<<>>}, names)
MCRequests ==
    UNION {{[kind |-> kind, field |-> field] : field \in MCFields(Fields(kind))} :
              kind \in {"pap", "chap", "acct"}}
=============================================================================
