--------------------------- MODULE PppoeDiscovery ---------------------------
(* PPPoE discovery (pppoe.cpp) on the tables of PPPOERuntime: subscribers    *)
(* that discover, request and end sessions over a link that loses,           *)
(* duplicates, delays and reorders their packets, the PPP side that ends     *)
(* sessions on its own, SIGHUP and restarts of the daemon.                   *)
EXTENDS PppoeRuntime

CONSTANTS Policies,   \* the insert_cookie settings a configuration may give each line
          MaxTimers   \* bound: armed pending-session timers

ASSUME PolicyAssumption == Policies \subseteq [Encaps -> BOOLEAN] /\ Policies # {}
ASSUME TimerAssumption == MaxTimers \in Nat

VARIABLES
    insert_cookie,  \* conf.pppoe_confs: does the policy of a line insert a cookie
    offers,         \* every PADO sent so far, as the handshake it offers
    granted         \* every PADS sent so far, as the line and the id it grants

vars == <<runtimeVars, insert_cookie, offers, granted>>

TypeOK ==
    /\ RuntimeTypeOK
    /\ insert_cookie \in Policies
    /\ offers \subseteq Conn
    /\ granted \subseteq Key

Init ==
    /\ RuntimeInit
    /\ insert_cookie \in Policies
    /\ offers = {}
    /\ granted = {}

-----------------------------------------------------------------------------
(* The handlers of processPPPOE. offers and granted only grow: a subscriber  *)
(* answers a reply it got at any later time and any number of times, which   *)
(* covers loss, delay, duplication and reordering.                           *)

\* PADI: the offer is sent unless the same handshake is pending already. A
\* random cookie may be any, a repeated one included.
ProcessPADI(encap) ==
    /\ Len(pendingTimers) < MaxTimers
    /\ \E cookie \in (IF insert_cookie[encap] THEN Cookies ELSE {NoCookie}) :
          LET conn == [encap |-> encap, cookie |-> cookie]
          IN  PendeSession(conn) /\ offers' = offers \cup {conn}
    /\ UNCHANGED <<tables, insert_cookie, granted>>

\* PADR: the handshake is consumed first, then an id is searched. Without one
\* the subscriber gets no answer.
ProcessPADR(conn) ==
    /\ CheckSession(conn)
    /\ \/ \E id \in Sid : AllocateSession(conn.encap, id)
       \/ AllocationFails
    /\ granted' = granted \cup (activeSessions' \ activeSessions)
    /\ UNCHANGED <<insert_cookie, offers>>

\* PADT: the session with the id in the packet ends, whoever sent it.
ProcessPADT(id) ==
    /\ DeallocateSession(id)
    /\ UNCHANGED <<pendingSession, pendingTimers, insert_cookie, offers, granted>>

PendingTimeout ==
    /\ ClearPendingSession
    /\ UNCHANGED <<insert_cookie, offers, granted>>

\* PPP ends a session: LCP went down, or an echo timer of some session object,
\* perhaps one that left the tables before, found its peer dead.
SessionDown(id) ==
    /\ DeallocateSession(id)
    /\ UNCHANGED <<pendingSession, pendingTimers, insert_cookie, offers, granted>>

\* SIGHUP replaces the policies and leaves the tables alone.
ReloadConfig ==
    /\ insert_cookie' \in Policies \ {insert_cookie}
    /\ UNCHANGED <<runtimeVars, offers, granted>>

\* The daemon stops and starts again; packets stay in flight.
Restart ==
    /\ Cleanup
    /\ insert_cookie' \in Policies
    /\ UNCHANGED <<offers, granted>>

\* What one process does between its start and its end.
Handlers ==
    \/ \E encap \in Encaps : ProcessPADI(encap)
    \/ \E conn \in offers : ProcessPADR(conn)
    \/ \E key \in granted : ProcessPADT(key.sid)
    \/ PendingTimeout
    \/ \E id \in Sid : SessionDown(id)
    \/ ReloadConfig

Next == Handlers \/ Restart

Spec == Init /\ [][Next]_vars

-----------------------------------------------------------------------------
(* Properties. *)

\* sessionSet and activeSessions are kept apart but tell the same story: an id
\* is in use exactly when one session has it (allocateSession,
\* deallocateSession: PPPoE data is looked up in one, ids in the other).
TablesAgree ==
    /\ sessionSet = {key.sid : key \in activeSessions}
    /\ \A k, l \in activeSessions : k.sid = l.sid => k = l

\* A pending handshake cannot outlive its timer: one under the same key is
\* armed, even after handshakes under that key were taken up and offered again
\* while older timers ran (pendeSession, checkSession, clearPendingSession).
PendingHasTimer ==
    \A conn \in pendingSession : \E i \in 1..Len(pendingTimers) : pendingTimers[i] = conn

\* A session starts only by taking up a handshake of its own line that was
\* still pending, and uses that handshake up: no PADR, repeated or late, gets
\* a second session out of one offer (checkSession before allocateSession).
EverySessionUsesUpAnOffer ==
    [][\A key \in activeSessions' \ activeSessions :
          \E conn \in pendingSession \ pendingSession' :
             /\ conn.encap = key.encap
             /\ \A other \in activeSessions' \ activeSessions : other = key]_vars

\* A PADR of a pending handshake goes without a session only when every id is
\* in use, wherever the search starts (the do-while of allocateSession).
RefusedOnlyWhenFull ==
    [][\A conn \in offers :
          ProcessPADR(conn) /\ activeSessions' = activeSessions
             => {key.sid : key \in activeSessions} = Sid]_vars

\* Seen from outside the tables are the session table of SessionTable.
Owner == [id \in sessionSet |-> (CHOOSE key \in activeSessions : key.sid = id).encap]

Table == INSTANCE SessionTable WITH owner <- Owner

\* Discovery implements it: an id goes to one line, out of the free ones, and
\* comes back only by deallocateSession or a restart.
ImplementsSessionTable == Table!Spec

\* Every pending handshake is taken up or dropped (clearPendingSession), however
\* often the same line discovers again.
EveryOfferEnds ==
    \A encap \in Encaps, cookie \in Cookies \cup {NoCookie} :
       LET conn == [encap |-> encap, cookie |-> cookie]
       IN  conn \in pendingSession ~> conn \notin pendingSession
=============================================================================
