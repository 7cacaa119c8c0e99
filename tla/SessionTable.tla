---------------------------- MODULE SessionTable ----------------------------
(* What PPPOERuntime promises about PPPoE session ids, without saying how an *)
(* id is found: an id belongs to at most one line at a time, an id is handed *)
(* out only while it is free, and it becomes free only by being given back   *)
(* (or by the end of the process, which forgets every session).              *)
EXTENDS Naturals

CONSTANTS Encaps,   \* the subscribers' lines: MAC address, outer and inner VLAN
          MaxSid    \* the largest session id (2^16 - 1 in the daemon)

VARIABLE owner      \* the line that holds each id in use

Sid == 1..MaxSid

Init == owner = [s \in {} |-> s]

\* An id nobody holds goes to line e.
Open(e, s) ==
    /\ s \notin DOMAIN owner
    /\ owner' = [t \in DOMAIN owner \cup {s} |-> IF t = s THEN e ELSE owner[t]]

\* The id of an ended session is free again; the others stay where they are.
Close(s) ==
    /\ s \in DOMAIN owner
    /\ owner' = [t \in DOMAIN owner \ {s} |-> owner[t]]

Reset == owner' = [s \in {} |-> s]

Next ==
    \/ \E e \in Encaps, s \in Sid : Open(e, s)
    \/ \E s \in Sid : Close(s)
    \/ Reset

Spec == Init /\ [][Next]_owner
=============================================================================
