--------------------------- MODULE Encapsulation ---------------------------
(* VLAN tags of frames (encap.cpp, evloop.cpp): from a frame to the line a   *)
(* session is filed under, and back to the header of an answer. A tag is its *)
(* TCI, the priority in the high bits and the VLAN in the low ones.          *)
EXTENDS Naturals, Sequences

CONSTANT Vlans   \* VLANs; 4096 in the code, whose mask is 0x0FFF

ASSUME VlanAssumption == Vlans \in Nat \ {0}

Vlan(tci) == tci % Vlans

\* Linux takes the first tag out of the frame and gives it to a packet socket as
\* auxiliary data.
Aux(tags) == IF tags = <<>> THEN 0 ELSE Head(tags)
InFrame(tags) == IF tags = <<>> THEN <<>> ELSE Tail(tags)

\* Seeded fault: VLANs are looked for where the kernel has taken them out.
LineInFrame(tags) ==
    [outer |-> IF InFrame(tags) = <<>> THEN 0 ELSE Vlan(InFrame(tags)[1]),
     inner |-> IF Len(InFrame(tags)) < 2 THEN 0 ELSE Vlan(InFrame(tags)[2])]

\* receive_pppoe() and encapsulation_t(): a tag in the frame takes the place of
\* the one taken out. What was taken out keeps its priority.
Line(tags) ==
    [outer |-> IF InFrame(tags) = <<>> THEN Aux(tags) ELSE Vlan(InFrame(tags)[1]),
     inner |-> IF Len(InFrame(tags)) < 2 THEN 0 ELSE Vlan(InFrame(tags)[2])]

\* generate_header().
Header(line) ==
    IF line.outer = 0 THEN <<>>
    ELSE IF line.inner = 0 THEN <<line.outer>> ELSE <<line.outer, line.inner>>

\* Without an outer VLAN an inner one leaves four bytes of nothing in the header.
HasGap(line) == line.outer = 0 /\ line.inner # 0

-----------------------------------------------------------------------------

\* No tag, and a tag of zero, are one to the code.
Untagged(tags) == IF tags = <<0>> THEN <<>> ELSE tags

\* A frame with at most one tag: the answer to it goes back with the same tag,
\* and another frame is filed under the same line only if it has that tag, too.
\* Of two tags the first is lost.
GoesBack(tags) == ~HasGap(Line(tags)) /\ Header(Line(tags)) = Untagged(tags)
=============================================================================
