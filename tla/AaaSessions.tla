----------------------------- MODULE AaaSessions -----------------------------
(* The AAA sessions of the daemon (AAA and FRAMED_POOL in aaa.cpp,           *)
(* AAA_Session in aaa_session.cpp): the address each subscriber gets and the *)
(* accounting of its session. An AAA_Session is kept alive by the sessions   *)
(* map and by every handler bound to it: its interim timer and its           *)
(* accounting requests. The last of them to go destroys it, and with it the  *)
(* lease of its address. RADIUS is modelled from how AAA uses AuthClient:    *)
(* a request may be answered or fail at any later time, in any order.        *)
EXTENDS Integers, FiniteSets

CONSTANTS
    PoolSize,   \* the pool is 1..PoolSize (start_ip to stop_ip); 0 is 0.0.0.0
    Framed,     \* addresses RADIUS may assign itself, besides 0 for none
    MaxObjects  \* bound: AAA_Session objects that exist at a time

ASSUME PoolAssumption == PoolSize \in Nat /\ Framed \subseteq Nat \ (0..PoolSize)
ASSUME ObjectAssumption == MaxObjects \in Nat

VARIABLES
    ips,       \* FRAMED_POOL::ips, the addresses leased
    sessions,  \* AAA::sessions: session id -> object
    objects,   \* the AAA_Session objects that exist
    reloaded   \* history: SIGHUP has replaced the configuration

vars == <<ips, sessions, objects, reloaded>>

Pool == 1..PoolSize
Object == 1..MaxObjects
SessionId == 0..(MaxObjects - 1)
Kind == {"Start", "Alive", "Stop"}   \* Acct-Status-Type of a request

Session == [address : {0} \cup Pool \cup Framed,
            free_ip : BOOLEAN,       \* the address was leased from the pool
            acct    : BOOLEAN,       \* has an accounting server (RADIUS)
            armed   : BOOLEAN,       \* the interim timer runs
            due     : BOOLEAN,       \* it expired, on_interim is queued
            waiting : SUBSET Kind,   \* accounting requests without a result
            stopped : BOOLEAN]       \* history: stop() was called

TypeOK ==
    /\ ips \subseteq Pool
    /\ DOMAIN sessions \subseteq SessionId
    /\ DOMAIN objects \subseteq Object
    /\ \A id \in DOMAIN sessions : sessions[id] \in DOMAIN objects
    /\ \A o \in DOMAIN objects : objects[o] \in Session
    /\ reloaded \in BOOLEAN

Nothing == [entry \in {} |-> entry]   \* the map without an entry

Init ==
    /\ ips = {}
    /\ sessions = Nothing
    /\ objects = Nothing
    /\ reloaded = FALSE

-----------------------------------------------------------------------------
(* FRAMED_POOL. *)

\* Seeded fault: the loop stops before stop_ip.
FreeIpsShort == 1..(PoolSize - 1) \ ips

FreeIps == Pool \ ips

\* allocate_ip(): the lowest free address; 0 when all are leased.
AllocateIp(address) ==
    IF FreeIps = {} THEN address = 0
    ELSE address \in FreeIps /\ \A other \in FreeIps : address <= other

-----------------------------------------------------------------------------
(* Starting a session (startSessionNone, processRadiusAnswer). *)

\* The lowest id that names no session.
FreeId(id) ==
    /\ id \notin DOMAIN sessions
    /\ \A other \in SessionId \ DOMAIN sessions : id <= other

\* Seeded fault: the RADIUS constructor forgets free_ip.
NewSessionForgets(address, free_ip, acct) ==
    [address |-> address, free_ip |-> free_ip /\ ~acct, acct |-> acct,
     armed |-> FALSE, due |-> FALSE,
     waiting |-> IF acct THEN {"Start"} ELSE {}, stopped |-> FALSE]

NewSession(address, free_ip, acct) ==
    [address |-> address, free_ip |-> free_ip, acct |-> acct,
     armed |-> FALSE, due |-> FALSE,
     waiting |-> IF acct THEN {"Start"} ELSE {}, stopped |-> FALSE]

Emplace(id, session) ==
    LET o == CHOOSE p \in Object : p \notin DOMAIN objects
    IN  /\ FreeId(id)
        /\ Object \ DOMAIN objects # {}
        /\ objects' = [p \in DOMAIN objects \cup {o} |-> IF p = o THEN session ELSE objects[p]]
        /\ sessions' = [i \in DOMAIN sessions \cup {id} |-> IF i = id THEN o ELSE sessions[i]]
        /\ UNCHANGED reloaded

\* A session without an address of its own leases one; free_ip is set even when
\* the pool had none left.
LeaseAddress(id, acct) ==
    \E address \in {0} \cup Pool :
       /\ AllocateIp(address)
       /\ ips' = ips \cup ({address} \ {0})
       /\ Emplace(id, NewSession(address, TRUE, acct))

FramedAddress(id) ==
    \E address \in Framed :
       /\ Emplace(id, NewSession(address, FALSE, TRUE))
       /\ UNCHANGED ips

StartSessionNone(id) == LeaseAddress(id, FALSE)

ProcessRadiusAnswer(id) == LeaseAddress(id, TRUE) \/ FramedAddress(id)

-----------------------------------------------------------------------------
(* The life of an object. *)

\* Seeded fault: the map of sessions does not keep an object alive.
ReferencedByHandlers(o, session, table) ==
    session.armed \/ session.due \/ session.waiting # {}

Referenced(o, session, table) ==
    \/ \E id \in DOMAIN table : table[id] = o
    \/ session.armed \/ session.due \/ session.waiting # {}

\* Seeded fault: stop() gives the address back, not the destructor.
UpdateFreesAtStop(o, session, table) ==
    /\ sessions' = table
    /\ objects' = IF Referenced(o, session, table)
                  THEN [objects EXCEPT ![o] = session]
                  ELSE [p \in DOMAIN objects \ {o} |-> objects[p]]
    /\ ips' = IF session.stopped /\ session.free_ip THEN ips \ {session.address} ELSE ips
    /\ UNCHANGED reloaded

\* Object o becomes session while the map becomes table; without a reference
\* left it is destroyed and deallocate_ip() takes its address back.
Update(o, session, table) ==
    /\ sessions' = table
    /\ IF Referenced(o, session, table)
       THEN objects' = [objects EXCEPT ![o] = session] /\ UNCHANGED ips
       ELSE /\ objects' = [p \in DOMAIN objects \ {o} |-> objects[p]]
            /\ ips' = IF session.free_ip THEN ips \ {session.address} ELSE ips
    /\ UNCHANGED reloaded

\* Seeded fault: stopSession() does not erase the entry.
WithoutNone(id) == sessions

Without(id) == [i \in DOMAIN sessions \ {id} |-> sessions[i]]

\* stop(): cancels the timer, but not an on_interim already queued, and asks
\* for the end of the accounting.
Stopped(session) ==
    [session EXCEPT !.armed = FALSE, !.stopped = TRUE,
                    !.waiting = IF session.acct THEN @ \cup {"Stop"} ELSE @]

StopSession(id) ==
    /\ id \in DOMAIN sessions
    /\ Update(sessions[id], Stopped(objects[sessions[id]]), Without(id))

\* on_started and on_interim_answer arm the timer, on_stopped cancels it.
Answered(session, kind) ==
    [session EXCEPT !.waiting = @ \ {kind}, !.armed = (kind # "Stop")]

AcctAnswer(o, kind) ==
    /\ o \in DOMAIN objects /\ kind \in objects[o].waiting
    /\ Update(o, Answered(objects[o], kind), sessions)

\* on_failed() only logs; a request forgotten by AuthClient ends the same way.
AcctFailure(o, kind) ==
    /\ o \in DOMAIN objects /\ kind \in objects[o].waiting
    /\ Update(o, [objects[o] EXCEPT !.waiting = @ \ {kind}], sessions)

\* The timer runs for 30 s: requests made before have a result by then, which
\* takes at most 5 s.
InterimExpires(o) ==
    /\ o \in DOMAIN objects /\ objects[o].armed /\ objects[o].waiting = {}
    /\ Update(o, [objects[o] EXCEPT !.armed = FALSE, !.due = TRUE], sessions)

\* Seeded fault: the timer is armed again before the update is answered.
InterimRearms(session) ==
    [session EXCEPT !.due = FALSE, !.armed = TRUE, !.waiting = @ \cup {"Alive"}]

\* on_interim()
Interim(session) ==
    [session EXCEPT !.due = FALSE, !.armed = FALSE, !.waiting = @ \cup {"Alive"}]

OnInterim(o) ==
    /\ o \in DOMAIN objects /\ objects[o].due
    /\ Update(o, Interim(objects[o]), sessions)

-----------------------------------------------------------------------------

\* SIGHUP assigns a new configuration: its pools have leased nothing.
ReloadConfig ==
    /\ ips' = {}
    /\ reloaded' = TRUE
    /\ UNCHANGED <<sessions, objects>>

\* stopAllSessions() and the end of the process.
Restart ==
    /\ ips' = {} /\ sessions' = Nothing /\ objects' = Nothing /\ reloaded' = FALSE

Results(o) == \E kind \in Kind : AcctAnswer(o, kind) \/ AcctFailure(o, kind)

Next ==
    \/ \E id \in SessionId :
          StartSessionNone(id) \/ ProcessRadiusAnswer(id) \/ StopSession(id)
    \/ \E o \in Object : Results(o) \/ InterimExpires(o) \/ OnInterim(o)
    \/ ReloadConfig \/ Restart

Spec == Init /\ [][Next]_vars

\* Every accounting request is answered or times out after 5 s.
FairSpec == Spec /\ \A o \in Object : WF_vars(Results(o))

-----------------------------------------------------------------------------
(* Properties. *)

Leased(o) == objects[o].free_ip /\ objects[o].address # 0

DistinctLeases ==
    \A o, p \in DOMAIN objects :
       o # p /\ Leased(o) => objects[o].address # objects[p].address

\* No two AAA sessions have the same address of the pool, also while one of
\* them is stopped and only waits for the end of its accounting (allocate_ip,
\* deallocate_ip in ~AAA_Session).
UniqueLease == ~reloaded => DistinctLeases

\* The pool knows exactly the addresses that existing sessions have: none is
\* lost when a session ends, on whatever path (free_ip, ~AAA_Session).
PoolMatchesLeases ==
    ~reloaded => ips = {objects[o].address : o \in {p \in DOMAIN objects : Leased(p)}}

\* There is one accounting cycle per session: the timer runs or is due, or its
\* Start or an Alive is on the way, never two of these, so updates do not
\* multiply (on_started, on_interim, on_interim_answer).
OneUpdateCycle ==
    \A o \in DOMAIN objects :
       LET s == objects[o]
       IN  Cardinality({c \in {"armed", "due"} : s[c]} \cup (s.waiting \cap {"Start", "Alive"})) <= 1

\* A session goes without an address only when the pool, without reloads, has
\* every one of its addresses at some existing session (the loop of allocate_ip
\* up to stop_ip).
NoAddressOnlyWhenFull ==
    [][\A o \in DOMAIN objects' \ DOMAIN objects :
          objects'[o].address = 0 /\ ~reloaded
             => \A a \in Pool : \E p \in DOMAIN objects : objects[p].address = a]_vars

InCycle(s) == s.armed \/ s.due \/ s.waiting \cap {"Start", "Alive"} # {}

\* The address of a stopped session comes back: once nothing but the answer to
\* its Stop is missing, the object goes (stop, on_stopped, on_failed).
StoppedSessionGoes ==
    \A o \in Object :
       (o \in DOMAIN objects /\ objects[o].stopped /\ ~InCycle(objects[o]))
          ~> o \notin DOMAIN objects

\* "Only policies are updated" on SIGHUP (docs/main.md): leases stay as they are.
LeasesSurviveReload == DistinctLeases
=============================================================================
