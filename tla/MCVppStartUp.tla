---------------------------- MODULE MCVppStartUp ----------------------------
(* A small instance of VppStartUp for TLC. *)
EXTENDS VppStartUp

CONSTANTS G0, G1, u1, u2, u3, RED, BLUE, addr1, addr2, default, inner

MCDevices == {G0}
MCVrfs == {RED, BLUE}
MCUnits == {u1, u2, u3}
MCDevice(u) == IF u = u3 THEN G1 ELSE G0
Route(table, destination) == [table |-> table, destination |-> destination]

\* The second configuration moves a unit to the other VRF, drops a unit, names a
\* device VPP does not have, and has a unit in a VRF it does not define.
MCConfs ==
  { [vrfs |-> {RED},
     units |-> [u \in {u1, u2} |->
                  IF u = u1 THEN [vrf |-> RED, address |-> addr1]
                  ELSE [vrf |-> Global, address |-> addr2]],
     routes |-> {Route(Global, default), Route(RED, default), Route(RED, inner)}],
    [vrfs |-> {BLUE, RED},
     units |-> [u \in {u1, u3} |-> [vrf |-> BLUE, address |-> addr2]],
     routes |-> {Route(Global, inner), Route(BLUE, default)}],
    [vrfs |-> {},
     units |-> [u \in {u2} |-> [vrf |-> RED, address |-> NoAddress]],
     routes |-> {}] }
=============================================================================
