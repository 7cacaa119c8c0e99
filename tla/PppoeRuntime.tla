---------------------------- MODULE PppoeRuntime ----------------------------
(* The session tables of PPPOERuntime (runtime.cpp) and the operations on    *)
(* them. The daemon is one boost::asio event loop: every operation runs to   *)
(* its end inside one handler, so each is one action here.                   *)
EXTENDS Naturals, Sequences

CONSTANTS Encaps,    \* the subscribers' lines: MAC address, outer and inner VLAN
          Cookies,   \* the values random_string(16) may return
          NoCookie,  \* the empty cookie, used while the policy inserts none
          MaxSid     \* the largest session id: 2^16 - 1 in the daemon

ASSUME SidAssumption == MaxSid \in Nat \ {0}
ASSUME CookieAssumption == NoCookie \notin Cookies

VARIABLES
    pendingSession,   \* handshakes offered by a PADO and not yet taken up
    pendingTimers,    \* the armed 10 s timers, in the order they expire
    sessionSet,       \* the session ids in use
    activeSessions,   \* the keys of the PPPOESession objects
    next_session_id   \* where the next search for a free id starts

tables == <<sessionSet, activeSessions, next_session_id>>
runtimeVars == <<pendingSession, pendingTimers, tables>>

Sid  == 1..MaxSid
Conn == [encap : Encaps, cookie : Cookies \cup {NoCookie}]  \* pppoe_conn_t
Key  == [encap : Encaps, sid : Sid]                         \* pppoe_key_t

RuntimeTypeOK ==
    /\ pendingSession \subseteq Conn
    /\ pendingTimers \in Seq(Conn)
    /\ sessionSet \subseteq Sid
    /\ activeSessions \subseteq Key
    /\ next_session_id \in Sid

RuntimeInit ==
    /\ pendingSession = {}
    /\ pendingTimers = <<>>
    /\ sessionSet = {}
    /\ activeSessions = {}
    /\ next_session_id = 1

-----------------------------------------------------------------------------
(* Handshakes between a PADO and its PADR. *)

\* A handshake already pending under the same key is refused.
PendeSession(conn) ==
    /\ conn \notin pendingSession
    /\ pendingSession' = pendingSession \cup {conn}
    /\ pendingTimers' = Append(pendingTimers, conn)

\* Seeded fault: the handshake is found but not erased.
CheckSessionKeeps(conn) ==
    conn \in pendingSession /\ UNCHANGED <<pendingSession, pendingTimers>>

\* Seeded fault: the oldest timer is cancelled along with the handshake.
CheckSessionCancels(conn) ==
    /\ conn \in pendingSession
    /\ pendingSession' = pendingSession \ {conn}
    /\ pendingTimers' = Tail(pendingTimers)

\* checkSession consumes the handshake; its timer stays armed.
CheckSession(conn) ==
    /\ conn \in pendingSession
    /\ pendingSession' = pendingSession \ {conn}
    /\ UNCHANGED pendingTimers

\* Seeded fault: the handler of the timer erases nothing.
ClearPendingSessionIdles ==
    /\ pendingTimers # <<>>
    /\ pendingTimers' = Tail(pendingTimers)
    /\ UNCHANGED <<pendingSession, tables>>

\* The timer knows the handshake by its key only. All timers run 10 s, so they
\* expire in the order they were armed.
ClearPendingSession ==
    /\ pendingTimers # <<>>
    /\ pendingSession' = pendingSession \ {Head(pendingTimers)}
    /\ pendingTimers' = Tail(pendingTimers)
    /\ UNCHANGED tables

-----------------------------------------------------------------------------
(* Session ids. *)

\* Seeded fault: the search runs into id 0.
SidAfterWithZero(id) == (id + 1) % (MaxSid + 1)

\* current_id + 1 in uint16_t, skipping the invalid id 0.
SidAfter(id) == LET next == (id + 1) % (MaxSid + 1)
                IN  IF next = 0 THEN 1 ELSE next

\* Seeded fault: every search starts at 1.
SearchStepsFromOne(id) == id

\* How many ids the search passes before it comes to id: it counts up from
\* next_session_id and goes on at 1 after the largest id.
SearchSteps(id) == IF id >= next_session_id THEN id - next_session_id
                   ELSE id + MaxSid - next_session_id

\* Seeded fault: the id is taken without a look at the ids in use.
NextInLine(id) == id = next_session_id

\* The search goes once around from next_session_id and stops at a free id.
FirstFree(id) ==
    /\ id \in Sid \ sessionSet
    /\ \A other \in Sid \ sessionSet : SearchSteps(id) <= SearchSteps(other)

\* The session is filed under its line and id. If that key is taken already
\* the id is given back.
AllocateSession(encap, id) ==
    LET key  == [encap |-> encap, sid |-> id]
        done == key \notin activeSessions
    IN  /\ FirstFree(id)
        /\ sessionSet' = IF done THEN sessionSet \cup {id} ELSE sessionSet
        /\ activeSessions' = activeSessions \cup {key}
        /\ next_session_id' = IF done THEN SidAfter(id) ELSE next_session_id

\* Seeded fault: the search gives up at the first id in use.
AllocationFailsEarly == next_session_id \in sessionSet /\ UNCHANGED tables

\* Every id is in use: "Maximum of sessions".
AllocationFails == Sid \subseteq sessionSet /\ UNCHANGED tables

\* Seeded fault: the id is given back, the session object stays filed.
DeallocateIdOnly(id) ==
    /\ id \in sessionSet
    /\ sessionSet' = sessionSet \ {id}
    /\ UNCHANGED <<activeSessions, next_session_id>>

\* A caller names a session by its id alone; the entry of activeSessions is
\* looked up by that id and only the first one found is dropped.
DeallocateSession(id) ==
    /\ id \in sessionSet
    /\ sessionSet' = sessionSet \ {id}
    /\ activeSessions' = activeSessions \
           (IF \E key \in activeSessions : key.sid = id
            THEN {CHOOSE key \in activeSessions : key.sid = id}
            ELSE {})
    /\ UNCHANGED next_session_id

\* cleanup() and the end of the process. The tables live in memory only.
Cleanup ==
    /\ pendingSession' = {}
    /\ pendingTimers' = <<>>
    /\ sessionSet' = {}
    /\ activeSessions' = {}
    /\ next_session_id' = 1
=============================================================================
