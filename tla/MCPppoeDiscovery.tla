-------------------------- MODULE MCPppoeDiscovery --------------------------
(* A small instance of PppoeDiscovery, with the history of PppoeIdReuse, for *)
(* TLC.                                                                      *)
EXTENDS PppoeIdReuse

CONSTANTS line1, line2, cookie1

MCEncaps == {line1, line2}
MCCookies == {cookie1}

\* A policy that inserts no cookies, one that does so on one line.
MCPolicies == {[encap \in MCEncaps |-> FALSE], [encap \in MCEncaps |-> encap = line1]}
=============================================================================
