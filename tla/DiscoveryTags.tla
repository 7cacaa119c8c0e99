--------------------------- MODULE DiscoveryTags ---------------------------
(* The tags of discovery packets (pppoe.cpp): parseTags(), and the answers   *)
(* process_padi() and process_padr() build with insertTag(). A packet is a   *)
(* sequence of tags; of a value only its identity and length matter.         *)
EXTENDS Naturals, SequencesExt

CONSTANTS
    Values,    \* what tags carry
    Size(_),   \* bytes of a value
    Byte       \* what a uint8_t holds is below this; 256 in the code

ASSUME ByteAssumption == Byte \in Nat /\ Byte > 4
ASSUME SizeAssumption == \A value \in Values : Size(value) \in Nat

HeaderSize == 4

Tag(type, value) == [type |-> type, value |-> value]

\* The padding of a short frame reads as END_OF_LIST.
UpToEnd(packet) ==
    LET end == SelectInSeq(packet, LAMBDA tag : tag.type = "END_OF_LIST")
    IN  IF end = 0 THEN packet ELSE SubSeq(packet, 1, end - 1)

Repeats(packet) == \E i, j \in DOMAIN packet : i < j /\ packet[i].type = packet[j].type

\* parseTags() fails on a type it has seen, but not after END_OF_LIST.
ParseFails(packet) == Repeats(UpToEnd(packet))

ParseTags(packet) ==
    LET read == UpToEnd(packet)
    IN  [type \in {read[i].type : i \in DOMAIN read} |->
            (CHOOSE tag \in ToSet(read) : tag.type = type).value]

-----------------------------------------------------------------------------

FullSize(tag) == HeaderSize + Size(tag.value)

\* Seeded fault: insertTag() does not count the header of the tag.
InsertedValue(tag) == Size(tag.value) % Byte

\* What insertTag() returns: a uint8_t.
InsertedSize(tag) == FullSize(tag) % Byte

\* The length field, and the size the answer is cut to.
TagLen(tags) == FoldLeft(LAMBDA sum, tag : sum + InsertedSize(tag), 0, tags)

\* Whether the whole of every tag is in the answer.
Intact(tags) == TagLen(tags) = FoldLeft(LAMBDA sum, tag : sum + FullSize(tag), 0, tags)

Echo(type, tags) == IF type \in DOMAIN tags THEN <<Tag(type, tags[type])>> ELSE <<>>

\* An empty service name is as good as none was selected.
WrongService(tags, policy) ==
    /\ "SERVICE_NAME" \in DOMAIN tags /\ ~policy.ignore_service_name
    /\ \/ tags["SERVICE_NAME"] \notin policy.service_name
       \/ Size(tags["SERVICE_NAME"]) = 0

\* The tags of a PADO and of a PADS.
Pado(tags, policy, cookie) ==
    <<Tag("AC_NAME", policy.ac_name)>> \o Echo("HOST_UNIQ", tags) \o Echo("SERVICE_NAME", tags)
        \o (IF policy.insert_cookie THEN <<Tag("AC_COOKIE", cookie)>> ELSE <<>>)

Pads(tags) == Echo("SERVICE_NAME", tags) \o Echo("HOST_UNIQ", tags)

-----------------------------------------------------------------------------

\* The subscriber finds in an answer what it must find there: the values it sent
\* itself, untouched, the cookie of the offer if one is wanted, and nothing twice.
Echoes(answer, tags) ==
    /\ Intact(answer) /\ ~ParseFails(answer)
    /\ \A type \in {"HOST_UNIQ", "SERVICE_NAME"} : Echo(type, ParseTags(answer)) = Echo(type, tags)

Short(tags) == \A i \in DOMAIN tags : FullSize(tags[i]) < Byte
=============================================================================
