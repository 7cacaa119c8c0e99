-------------------------- MODULE RadiusAttributes --------------------------
(* The attributes of RADIUS requests (request_response.cpp, radius_avp.cpp,  *)
(* radius_dict.cpp): from the fields of a request to bytes. A value is a     *)
(* sequence of bytes, a word is four of them. Vendors' attributes, which no  *)
(* request has, are left out.                                                *)
EXTENDS Naturals, SequencesExt

CONSTANTS
    Code,            \* [name -> number]: the ATTRIBUTE lines of the dictionary
    Value(_, _),     \* name, text: the number of a VALUE line, or 0
    VendorSpecific,  \* the number parseAVP() takes for a vendor's attribute
    Hide(_),         \* a padded password under the secret and the authenticator
    Octet,           \* what a byte holds is below this; 256 in the code
    Block,           \* a password is padded to a multiple of this; 16 in the code
    Beyond           \* what the memory behind a packet may hold

Bytes == Seq(0..(Octet - 1))

ASSUME OctetAssumption == Octet \in Nat /\ Octet > 6 /\ Block \in Nat \ {0}

\* The dictionary is kept by number. None of its names in a request is that of a
\* vendor's attribute.
ASSUME CodeAssumption ==
    /\ \A name \in DOMAIN Code : Code[name] \in 1..(Octet - 1) /\ Code[name] # VendorSpecific
    /\ \A name, other \in DOMAIN Code : Code[name] = Code[other] => name = other

ASSUME BeyondAssumption == \A beyond \in Beyond : beyond \in Bytes /\ Len(beyond) >= Octet

\* A name the dictionary does not have is number 0.
IdByName(name) == IF name \in DOMAIN Code THEN Code[name] ELSE 0

BE32(number) == <<0, 0, 0, number>>

\* The constructors of AVP. A text the dictionary has a number for is sent as
\* that number.
Word(name, word) == [name |-> name, value |-> word]
Text(name, text) ==
    Word(name, IF Value(name, text) = 0 THEN text ELSE BE32(Value(name, text)))

\* password_pap_process(): the password padded with zeros.
Pad(text) ==
    LET rest == Len(text) % Block
    IN  IF rest = 0 THEN text ELSE text \o [i \in 1..(Block - rest) |-> 0]

-----------------------------------------------------------------------------
(* What a request carries; field: its texts by the name they are sent under. *)

PortNames == {"Calling-Station-Id", "NAS-Port-Id"}
ServiceNames == {"NAS-Identifier", "Framed-Protocol", "Service-Type"} \cup PortNames
Counters == {"Acct-Input-Packets", "Acct-Output-Packets", "Acct-Input-Octets", "Acct-Output-Octets"}

\* The structs RadiusRequest, RadiusRequestChap and AcctRequest.
Fields(kind) ==
    CASE kind = "pap"  -> {"User-Name", "User-Password"} \cup ServiceNames
      [] kind = "chap" -> {"User-Name", "CHAP-Password", "CHAP-Challenge"} \cup ServiceNames
      [] kind = "acct" -> {"Acct-Session-Id", "User-Name", "Acct-Status-Type", "NAS-Identifier"}
                              \cup Counters \cup PortNames

\* Left out when empty, or when the dictionary has no number for it.
Optional(name, field) == IF field[name] = <<>> THEN <<>> ELSE <<Text(name, field[name])>>
Numbered(name, field) ==
    LET number == Value(name, field[name])
    IN  IF field[name] = <<>> \/ number = 0 THEN <<>> ELSE <<Word(name, BE32(number))>>

Port(field) == Optional("Calling-Station-Id", field) \o Optional("NAS-Port-Id", field)
Service(field) ==
    Optional("NAS-Identifier", field) \o Numbered("Framed-Protocol", field)
        \o Numbered("Service-Type", field) \o Port(field)

PapAttributes(field) ==
    <<Text("User-Name", field["User-Name"]),
      Text("User-Password", Hide(Pad(field["User-Password"])))>> \o Service(field)

ChapAttributes(field) ==
    <<Text("User-Name", field["User-Name"]),
      Text("CHAP-Password", field["CHAP-Password"]),
      Text("CHAP-Challenge", field["CHAP-Challenge"])>> \o Service(field)

\* The counters are words.
AcctAttributes(field) ==
    <<Text("Acct-Session-Id", field["Acct-Session-Id"]),
      Text("User-Name", field["User-Name"]),
      Word("Acct-Input-Packets", field["Acct-Input-Packets"]),
      Word("Acct-Output-Packets", field["Acct-Output-Packets"]),
      Word("Acct-Input-Octets", field["Acct-Input-Octets"]),
      Word("Acct-Output-Octets", field["Acct-Output-Octets"])>>
    \o Optional("Acct-Status-Type", field) \o Optional("NAS-Identifier", field) \o Port(field)

Attributes(request) ==
    CASE request.kind = "pap"  -> PapAttributes(request.field)
      [] request.kind = "chap" -> ChapAttributes(request.field)
      [] request.kind = "acct" -> AcctAttributes(request.field)

-----------------------------------------------------------------------------
(* Their bytes. *)

Avp(attribute) ==
    [type |-> IdByName(attribute.name), length |-> (2 + Len(attribute.value)) % Octet,
     value |-> attribute.value]

\* Seeded fault: the length is that of the value alone.
SerializeUncounted(avp) == <<avp.type, Len(avp.value)>> \o avp.value

Serialize(avp) == <<avp.type, avp.length>> \o avp.value

\* The order of a std::set: each before the greater ones.
Increasing(S) ==
    [i \in 1..Cardinality(S) |-> CHOOSE x \in S : Cardinality({y \in S : y < x}) = i - 1]

\* std::set<AVP>: by type, of one type the first to come.
AsSet(attributes) ==
    LET avps  == [i \in DOMAIN attributes |-> Avp(attributes[i])]
        First(type) == avps[SelectInSeq(avps, LAMBDA avp : avp.type = type)]
        types == Increasing({avps[i].type : i \in DOMAIN avps})
    IN  [i \in DOMAIN types |-> First(types[i])]

\* serializeAVP().
SerializeAvps(attributes) ==
    LET avps == AsSet(attributes)
    IN  FlattenSeq([i \in DOMAIN avps |-> Serialize(avps[i])])

\* How parseAVP() reads bytes: at the end of one attribute begins the next. It
\* gives up where no header is left and on a length shorter than a header; one
\* that is too long is read from beyond the packet, and is the last.
ParseAvps(bytes, beyond) ==
    LET memory == bytes \o beyond
        At[i \in 1..(Len(bytes) + 1)] ==
            IF i >= Len(bytes) \/ memory[i + 1] < 2 THEN <<>>
            ELSE LET next == i + memory[i + 1]
                     avp  == [type |-> memory[i], value |-> SubSeq(memory, i + 2, next - 1)]
                 IN  <<avp>> \o (IF next > Len(bytes) + 1 THEN <<>> ELSE At[next])
    IN  At[1]

-----------------------------------------------------------------------------

\* The attributes no other with their number comes before.
Kept(attributes) ==
    {attributes[i] : i \in {i \in DOMAIN attributes :
        \A j \in DOMAIN attributes :
            j < i => IdByName(attributes[j].name) # IdByName(attributes[i].name)}}

\* Their lengths can be given in a byte.
Fit(attributes) == \A attribute \in Kept(attributes) : Len(attribute.value) + 2 < Octet

\* The reader gets just these attributes.
ReadsBack(bytes, beyond, attributes) ==
    ToSet(ParseAvps(bytes, beyond)) =
        {[type |-> IdByName(attribute.name), value |-> attribute.value] : attribute \in Kept(attributes)}
=============================================================================
