---------------------------- MODULE PppoeIdReuse ----------------------------
(* How soon a session id comes back. A PADT names its session by the id only *)
(* (processPPPOE), so a late one ends whatever session has the id by then.   *)
(* What keeps this rare is that allocateSession searches on from the id it   *)
(* gave out last: usedSince records, for each id, which ids have been in use *)
(* since that id was last given out, to state it.                            *)
EXTENDS PppoeDiscovery

VARIABLE usedSince   \* a history variable: it restricts nothing

reuseVars == <<vars, usedSince>>

\* An id never given out in this run of the daemon may be given out at any time.
ReuseInit == Init /\ usedSince = [id \in Sid |-> Sid]

Record ==
    usedSince' = [id \in Sid |->
        IF id \in sessionSet' \ sessionSet
        THEN sessionSet'
        ELSE usedSince[id] \cup sessionSet']

ReuseNext ==
    \/ Handlers /\ Record
    \/ Restart /\ usedSince' = [id \in Sid |-> Sid]

ReuseSpec == ReuseInit /\ [][ReuseNext]_reuseVars

\* An armed timer of the event loop fires.
FairReuseSpec == ReuseSpec /\ WF_reuseVars(PendingTimeout /\ Record)

ReuseTypeOK == TypeOK /\ usedSince \in [Sid -> SUBSET Sid]

\* An id is given out again only when every other id has been in use since it
\* was given out before (next_session_id, the wrap-around that skips 0, and the
\* search in allocateSession): a late PADT meets a stranger's session only
\* after the whole id space went round.
ReusedLast ==
    [][\A id \in sessionSet' \ sessionSet : usedSince[id] = Sid]_reuseVars
=============================================================================
