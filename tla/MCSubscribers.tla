---------------------------- MODULE MCSubscribers ----------------------------
(* A small instance of Subscribers for TLC. *)
EXTENDS Subscribers, TLC

CONSTANTS line1, line2, mac1, place1, place2

MCEncaps == {line1, line2}
MCMac == [encap \in MCEncaps |-> mac1]   \* one router behind two VLANs
MCObjects == {place1, place2}

\* Nothing tells the lines, or the places, apart.
Alike == Permutations(MCEncaps) \cup Permutations(MCObjects)
=============================================================================
