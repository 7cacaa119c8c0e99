---------------------------- MODULE MCPppSession ----------------------------
(* Small instances of PppSession for TLC. *)
EXTENDS PppSession

CONSTANTS addr1, addr2

OneAddress == {addr1}
TwoAddresses == {addr1, addr2}
OnlyNone == <<"NONE">>
OnlyRadius == <<"RADIUS">>
NoneThenRadius == <<"NONE", "RADIUS">>
=============================================================================
