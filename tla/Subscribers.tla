----------------------------- MODULE Subscribers -----------------------------
(* The subscribers' sessions across the daemon: the tables of PPPOERuntime,  *)
(* the PPPOESession objects (session.cpp, ppp.cpp), the RADIUS requests that *)
(* point at them (ppp_auth.cpp, ppp_chap.cpp), the AAA sessions bound to     *)
(* them (aaa.cpp) and their entries in VPP, which outlive the daemon. An     *)
(* object may outlive its place in the tables: its echo timer holds it. The  *)
(* PPP negotiation is reduced to what these parts see of it, handshakes to   *)
(* the PADR that opens a session.                                            *)
EXTENDS PppoeRuntime, Integers, FiniteSets

CONSTANTS
    Objects,     \* places in memory for a PPPOESession; used again when free
    Mac,         \* the MAC address of each line
    MaxEcho,     \* unanswered echo requests tolerated (9 in the daemon)
    MaxRequests, \* bound: RADIUS requests on the way
    MaxAaa       \* bound: AAA sessions

ASSUME LineAssumption == DOMAIN Mac = Encaps
ASSUME LimitAssumption == {MaxEcho, MaxRequests, MaxAaa} \subseteq Nat

VARIABLES
    daemon,      \* "runs" or "exited"
    objects,     \* the PPPOESession objects that exist, by their place
    requests,    \* RADIUS requests on the way: the place their callback writes
                 \* to (a bare this) and the session they were made for
    aaaSessions, \* AAA::sessions: id -> the session it was accepted for
    dp,          \* VPP's PPPoE sessions: MAC address and id -> the interface
    mishaps      \* history: what happened since the start that the tables,
                 \* AAA and VPP do not get over

subscriberVars == <<daemon, objects, requests, aaaSessions, dp, mishaps>>
vars == <<runtimeVars, subscriberVars>>

Unset   == -1                     \* UINT32_MAX
AaaId   == 0..(MaxAaa - 1)
VppKey(key) == <<Mac[key.encap], key.sid>>
VppKeys == {VppKey(key) : key \in Key}
IfIndex == 0..(Cardinality(VppKeys) - 1)
Mishap  == {"orphan", "dangling", "conflict", "bare"}

Session == [key      : Key,
            filed    : BOOLEAN,               \* in activeSessions
            aaa      : AaaId \cup {Unset},    \* aaa_session_id
            ifindex  : IfIndex \cup {Unset},
            vrfKnown : BOOLEAN,               \* vrf is empty or one VPPAPI created
            complete : BOOLEAN,               \* history: got its VRF and unnumbered
            armed    : BOOLEAN,               \* the echo timer runs
            misses   : 0..MaxEcho]            \* echo_counter

Interface == [ifindex : IfIndex, complete : BOOLEAN, old : BOOLEAN]
Request == [object : Objects, key : Key, n : 1..MaxRequests]

Filed == {o \in DOMAIN objects : objects[o].filed}

\* The objects in the tables are those of the ids in use, one for each.
ObjectsFiled ==
    /\ activeSessions = {objects[o].key : o \in Filed}
    /\ sessionSet = {key.sid : key \in activeSessions}
    /\ \A o, p \in Filed : objects[o].key.sid = objects[p].key.sid => o = p

TypeOK ==
    /\ RuntimeTypeOK
    /\ daemon \in {"runs", "exited"}
    /\ DOMAIN objects \subseteq Objects
    /\ \A o \in DOMAIN objects : objects[o] \in Session
    /\ requests \subseteq Request
    /\ DOMAIN aaaSessions \subseteq AaaId
    /\ \A id \in DOMAIN aaaSessions : aaaSessions[id] \in Key
    /\ DOMAIN dp \subseteq VppKeys
    /\ \A k \in DOMAIN dp : dp[k] \in Interface
    /\ mishaps \subseteq Mishap
    /\ ObjectsFiled

Nothing == [entry \in {} |-> entry]   \* the map without an entry

Init ==
    /\ RuntimeInit
    /\ daemon = "runs" /\ objects = Nothing /\ requests = {}
    /\ aaaSessions = Nothing /\ dp = Nothing /\ mishaps = {}

-----------------------------------------------------------------------------
(* The end of an object. *)

\* Seeded fault: the destructor leaves VPP alone.
DeprovisionedNothing(gone) == dp

\* Seeded fault: every destructor asks for all unnumbered interfaces.
DeprovisionedAll(gone) ==
    [k \in DOMAIN dp \ {VppKey(s.key) : s \in {t \in gone : t.vrfKnown}} |->
        [dp[k] EXCEPT !.complete = @ /\ gone = {}]]

\* deprovision_dp() of the objects in gone: an object that never got an
\* interface asks VPP for the unnumbered interfaces of ~0, which is all of them;
\* the entry is found by MAC address and id; with a VRF VPPAPI does not know
\* add_pppoe_session returns before it asks VPP for anything.
Deprovisioned(gone) ==
    [k \in DOMAIN dp \ {VppKey(s.key) : s \in {t \in gone : t.vrfKnown}} |->
        [dp[k] EXCEPT !.complete = @ /\ \A s \in gone : s.ifindex \notin {Unset, dp[k].ifindex}]]

\* Objects become objs; those neither in the tables nor held by their echo
\* timer are destroyed.
Settle(objs) ==
    LET gone == {o \in DOMAIN objs : ~objs[o].filed /\ ~objs[o].armed}
    IN  /\ objects' = [o \in DOMAIN objs \ gone |-> objs[o]]
        /\ dp' = Deprovisioned({objs[o] : o \in gone})
        /\ mishaps' = mishaps
              \cup (IF \E r \in requests : r.object \in gone THEN {"dangling"} ELSE {})
              \cup (IF \E o \in gone : objs[o].ifindex = Unset THEN {"bare"} ELSE {})

\* Seeded fault: deallocateSession forgets AAA.
StoppedNone(objs, id) == {}

\* The AAA session of the object filed under id.
Stopped(objs, id) ==
    {objs[o].aaa : o \in {p \in DOMAIN objs : objs[p].filed /\ objs[p].key.sid = id}}

\* deallocateSession( id ), called while the objects are objs. An id not in use
\* is reported and nothing else happens.
Deallocate(id, objs) ==
    IF id \in sessionSet
    THEN /\ DeallocateSession(id)
         /\ aaaSessions' = [a \in DOMAIN aaaSessions \ Stopped(objs, id) |-> aaaSessions[a]]
         /\ Settle([o \in DOMAIN objs |->
                       [objs[o] EXCEPT !.filed = @ /\ objs[o].key \in activeSessions']])
    ELSE /\ UNCHANGED <<tables, aaaSessions>>
         /\ Settle(objs)

-----------------------------------------------------------------------------
(* The handlers. *)

NewSession(key) ==
    [key |-> key, filed |-> TRUE, aaa |-> Unset, ifindex |-> Unset, vrfKnown |-> TRUE,
     complete |-> FALSE, armed |-> FALSE, misses |-> 0]

\* A PADR opens a session in any free place. The key is never taken, as the id
\* was free (TablesAgree of PppoeDiscovery).
ReceivePadr(encap, id) ==
    LET key == [encap |-> encap, sid |-> id]
    IN  /\ AllocateSession(encap, id)
        /\ \E o \in Objects \ DOMAIN objects :
              objects' = [p \in DOMAIN objects \cup {o} |->
                             IF p = o THEN NewSession(key) ELSE objects[p]]
        /\ mishaps' = IF VppKey(key) \in DOMAIN dp \/ \E p \in DOMAIN objects : objects[p].key.sid = id
                      THEN mishaps \cup {"conflict"} ELSE mishaps
        /\ UNCHANGED <<daemon, requests, aaaSessions, dp>>

\* LCP goes down, or a PADT with this id arrives, from whatever line.
SessionDown(id) ==
    /\ id \in sessionSet
    /\ Deallocate(id, objects)
    /\ UNCHANGED <<daemon, requests>>

\* An authentication request of a session not authenticated yet goes to RADIUS.
AuthRequest(o) ==
    /\ objects[o].filed /\ objects[o].aaa = Unset
    /\ \E n \in 1..MaxRequests :
          /\ \A r \in requests : r.n # n
          /\ requests' = requests \cup {[object |-> o, key |-> objects[o].key, n |-> n]}
    /\ UNCHANGED <<daemon, tables, objects, aaaSessions, dp, mishaps>>

\* Seeded fault: the id is that of a session still in the map.
FreeAaaIdAny(id) == id \in AaaId

\* The lowest id that names no AAA session.
FreeAaaId(id) ==
    /\ id \in AaaId \ DOMAIN aaaSessions
    /\ \A other \in AaaId \ DOMAIN aaaSessions : id <= other

\* RADIUS answers, and a refusal is treated as an accept: a new AAA session, and
\* its id is written to the object in the place the request came from. With no
\* object there the memory is free and nobody reads what is written.
RadiusAnswer(r) ==
    /\ requests' = requests \ {r}
    /\ \E id \in AaaId :
          /\ FreeAaaId(id)
          /\ aaaSessions' = [a \in DOMAIN aaaSessions \cup {id} |->
                                IF a = id THEN r.key ELSE aaaSessions[a]]
          /\ IF r.object \in DOMAIN objects
             THEN LET s == objects[r.object]
                  IN  /\ objects' = [objects EXCEPT ![r.object].aaa = id]
                      /\ mishaps' = IF s.filed /\ s.aaa = Unset THEN mishaps
                                    ELSE mishaps \cup {"orphan"}
             ELSE UNCHANGED objects /\ mishaps' = mishaps \cup {"orphan"}
    /\ UNCHANGED <<daemon, tables, dp>>

RadiusError(r) ==
    /\ requests' = requests \ {r}
    /\ UNCHANGED <<daemon, tables, objects, aaaSessions, dp, mishaps>>

\* VPP gives a new interface an index no other has.
FreeIfIndex(i) == \A k \in DOMAIN dp : dp[k].ifindex # i

\* The object after provision_dp() and startEcho().
Provisioned(s, known, added, ifindex, complete) ==
    [s EXCEPT !.vrfKnown = known, !.armed = TRUE,
              !.ifindex  = IF added THEN ifindex ELSE @,
              !.complete = IF added THEN complete ELSE @]

\* provision_dp() and startEcho(): the VRF of the AAA session's template may be
\* one VPPAPI does not know; VPP may refuse the session, and does when it has one
\* under the same MAC address and id; a step after that may fail and leave the
\* entry as it is. Whatever failed, the session goes on.
ProvisionDp(o, known, added, ifindex, complete) ==
    LET s == objects[o]
        k == VppKey(s.key)
    IN  /\ added => known /\ k \notin DOMAIN dp /\ FreeIfIndex(ifindex)
        /\ objects' = [objects EXCEPT ![o] = Provisioned(s, known, added, ifindex, complete)]
        /\ dp' = IF added
                 THEN [j \in DOMAIN dp \cup {k} |->
                          IF j = k THEN [ifindex |-> ifindex, complete |-> complete, old |-> FALSE]
                          ELSE dp[j]]
                 ELSE dp
        /\ mishaps' = IF ~known /\ s.ifindex # Unset
                      THEN mishaps \cup {"conflict"} ELSE mishaps

\* IPCP comes up, or up again.
IpcpUp(o) ==
    /\ objects[o].filed /\ objects[o].aaa \in DOMAIN aaaSessions
    /\ \E known, added, complete \in BOOLEAN, ifindex \in IfIndex :
          ProvisionDp(o, known, added, ifindex, complete)
    /\ UNCHANGED <<daemon, tables, requests, aaaSessions>>

\* Nothing holds the object any more when sendEchoReq() returns early.
GivenUp(s) == [s EXCEPT !.armed = FALSE]

\* sendEchoReq(): one more request, or the subscriber is given up and whatever
\* session has the id by now is ended.
EchoTimer(o) ==
    LET s == objects[o]
    IN  /\ s.armed
        /\ IF s.misses < MaxEcho
           THEN /\ objects' = [objects EXCEPT ![o].misses = @ + 1]
                /\ UNCHANGED <<tables, aaaSessions, dp, mishaps>>
           ELSE Deallocate(s.key.sid, [objects EXCEPT ![o] = GivenUp(s)])
        /\ UNCHANGED <<daemon, requests>>

\* Seeded fault: a reply reaches an object that left the tables.
HearsAnyway(o) == objects[o].misses > 0

\* A reply is looked up in the tables: it never reaches an object that left them.
Hears(o) == objects[o].filed /\ objects[o].misses > 0

EchoReply(o) ==
    /\ Hears(o)
    /\ objects' = [objects EXCEPT ![o].misses = 0]
    /\ UNCHANGED <<daemon, tables, requests, aaaSessions, dp, mishaps>>

-----------------------------------------------------------------------------
(* The end of the process and the next one. *)

\* main() after a signal: cleanup() empties the tables, which destroys the
\* objects without a timer, and runtime is reset. The others go with io, and
\* runtime->vpp is no more when their destructors want it.
Exit ==
    /\ Cleanup
    /\ aaaSessions' = Nothing   \* stopAllSessions()
    /\ daemon' = "exited"
    /\ Settle([o \in DOMAIN objects |-> [objects[o] EXCEPT !.filed = FALSE]])
    /\ UNCHANGED requests

\* A crash, also that of a callback that finds no object.
Crash ==
    /\ Cleanup
    /\ aaaSessions' = Nothing /\ objects' = Nothing /\ requests' = {}
    /\ daemon' = "exited" /\ mishaps' = {}
    /\ UNCHANGED dp

\* The constructor of PPPOERuntime takes the unnumbered interfaces away from all
\* interfaces and leaves VPP's PPPoE sessions as they are.
Start ==
    /\ daemon = "exited"
    /\ daemon' = "runs" /\ objects' = Nothing /\ requests' = {} /\ mishaps' = {}
    /\ dp' = [k \in DOMAIN dp |-> [dp[k] EXCEPT !.complete = FALSE, !.old = TRUE]]
    /\ UNCHANGED <<tables, aaaSessions>>

Timers == \E o \in DOMAIN objects : EchoTimer(o)

Handlers ==
    \/ \E encap \in Encaps, id \in Sid : ReceivePadr(encap, id)
    \/ \E id \in Sid : SessionDown(id)
    \/ \E o \in DOMAIN objects : AuthRequest(o) \/ IpcpUp(o) \/ EchoReply(o)
    \/ \E r \in requests : RadiusAnswer(r) \/ RadiusError(r)
    \/ Timers

Next ==
    \/ daemon = "runs" /\ Handlers /\ UNCHANGED <<pendingSession, pendingTimers>>
    \/ daemon = "runs" /\ (Exit \/ Crash)
    \/ Start /\ UNCHANGED <<pendingSession, pendingTimers>>

Spec == Init /\ [][Next]_vars

-----------------------------------------------------------------------------
(* Properties. *)

Without(kinds) == mishaps \cap kinds = {}
Bound == {o \in Filed : objects[o].aaa # Unset}

\* A session in the tables that was authenticated has an AAA session, and no two
\* have the same, whatever zombies, late answers and repeated requests do
\* (startSession, auth_callback, stopSession in deallocateSession).
BoundToLiveAaa ==
    /\ \A o \in Bound : objects[o].aaa \in DOMAIN aaaSessions
    /\ \A o, p \in Bound : objects[o].aaa = objects[p].aaa => o = p

\* The AAA session, its address and its accounting, is that of the session's own
\* request as long as no object is destroyed with a request on the way: after
\* that the bare this of the callback may be another session's (auth_callback).
OwnAaa ==
    Without({"dangling"}) => \A o \in Bound : aaaSessions[objects[o].aaa] = objects[o].key

\* AAA keeps a session for exactly the authenticated sessions in the tables,
\* unless an answer came after its session had left or had been answered
\* already; such an AAA session stays for ever (processRadiusAnswer).
AaaAgrees ==
    Without({"orphan"}) =>
        DOMAIN aaaSessions = {objects[o].aaa : o \in Bound}

\* VPP forwards for exactly the objects that have an interface, and through that
\* interface, whichever step of provisioning failed, unless an id was given out
\* while VPP or an old object still had it, or a VRF unknown to VPPAPI came with
\* a later authentication (provision_dp, deprovision_dp).
DataplaneAgrees ==
    daemon = "runs" /\ Without({"conflict"}) =>
        /\ \A o \in DOMAIN objects : objects[o].ifindex # Unset =>
              /\ VppKey(objects[o].key) \in DOMAIN dp
              /\ dp[VppKey(objects[o].key)].ifindex = objects[o].ifindex
        /\ \A k \in DOMAIN dp : ~dp[k].old =>
              \E o \in DOMAIN objects : VppKey(objects[o].key) = k /\ objects[o].ifindex # Unset

\* A session keeps the VRF and the unnumbered interface it got when it came up,
\* until the first object without an interface is destroyed: that one takes
\* the unnumbered interfaces of all (dump_unnumbered( ifindex )).
SettingsKept ==
    daemon = "runs" /\ Without({"conflict", "bare"}) =>
        \A o \in DOMAIN objects : objects[o].ifindex # Unset =>
            dp[VppKey(objects[o].key)].complete = objects[o].complete

Zombie(o) == o \in DOMAIN objects /\ ~objects[o].filed

\* An object that left the tables only comes nearer to its end: no packet and no
\* handler files it again or takes a missed echo back, so that its timer, which
\* stays armed, gives up (processPPP, startEcho, sendEchoReq).
ZombieGoes ==
    [][\A o \in DOMAIN objects \cap DOMAIN objects' :
          ~objects[o].filed /\ objects[o].key = objects'[o].key =>
              /\ objects'[o].armed /\ ~objects'[o].filed
              /\ objects'[o].misses >= objects[o].misses]_vars

\* "Explicit cleanup, to make sure of the correct order of destruction" (comment
\* in main.cpp): when runtime is reset no session object is left.
NoneOutlivesRuntime == daemon = "exited" => DOMAIN objects = {}
=============================================================================
