------------------------- MODULE Subscribers_proofs -------------------------
(* Proofs about Subscribers, for every set of lines and MAC addresses, every *)
(* number of session ids and of places for objects, and every bound.         *)
(*                                                                           *)
(* Sessions end in one way: some operation makes the objects what they then  *)
(* are (final), and Settle destroys those that nobody holds. DeallocateIs    *)
(* says what final is; the steps that follow use nothing else of it.         *)
EXTENDS Subscribers, TLAPS

-----------------------------------------------------------------------------
(* The end of sessions. *)

\* Two maps of objects that differ in the echo timers at most.
Same(objs) ==
    /\ DOMAIN objs = DOMAIN objects
    /\ \A o \in DOMAIN objects :
          /\ objs[o] \in Session
          /\ objs[o].key = objects[o].key /\ objs[o].filed = objects[o].filed
          /\ objs[o].aaa = objects[o].aaa /\ objs[o].ifindex = objects[o].ifindex
          /\ objs[o].vrfKnown = objects[o].vrfKnown /\ objs[o].complete = objects[o].complete

\* The objects objs, without that of the id in the tables.
Unfiled(final, objs, id) ==
    /\ DOMAIN final = DOMAIN objs
    /\ \A o \in DOMAIN objs :
          /\ final[o] \in Session
          /\ final[o].key = objs[o].key /\ final[o].aaa = objs[o].aaa
          /\ final[o].ifindex = objs[o].ifindex /\ final[o].vrfKnown = objs[o].vrfKnown
          /\ final[o].complete = objs[o].complete
          /\ final[o].armed = objs[o].armed /\ final[o].misses = objs[o].misses
          /\ final[o].filed = (objs[o].filed /\ objs[o].key.sid # id)

\* deallocateSession ends exactly the session that has the id, and its AAA session.
LEMMA DeallocateIs ==
    ASSUME TypeOK, NEW id \in Sid, NEW objs, Same(objs), Deallocate(id, objs)
    PROVE  /\ sessionSet' = sessionSet \ {id}
           /\ activeSessions' = {key \in activeSessions : key.sid # id}
           /\ next_session_id' = next_session_id
           /\ DOMAIN aaaSessions' = DOMAIN aaaSessions \ Stopped(objs, id)
           /\ \A a \in DOMAIN aaaSessions' : aaaSessions'[a] = aaaSessions[a]
           /\ \E final : Unfiled(final, objs, id) /\ Settle(final)
<1>0. /\ activeSessions = {objects[o].key : o \in Filed}
      /\ sessionSet = {key.sid : key \in activeSessions}
      /\ \A k, l \in activeSessions : k.sid = l.sid => k = l
  BY DEF TypeOK, ObjectsFiled
<1>1. CASE id \in sessionSet
  <2> DEFINE final == [o \in DOMAIN objs |->
                         [objs[o] EXCEPT !.filed = @ /\ objs[o].key \in activeSessions']]
  <2>1. PICK key \in activeSessions : key.sid = id
    BY <1>0, <1>1
  <2>2. (CHOOSE k \in activeSessions : k.sid = id) = key
    BY <1>0, <2>1
  <2>3. activeSessions' = activeSessions \ {key} /\ sessionSet' = sessionSet \ {id}
        /\ next_session_id' = next_session_id
    BY <1>1, <2>1, <2>2 DEF Deallocate, DeallocateSession
  <2>4. activeSessions' = {k \in activeSessions : k.sid # id}
    BY <1>0, <2>1, <2>3
  <2>5. Settle(final)
    BY <1>1 DEF Deallocate
  <2>6. Unfiled(final, objs, id)
    <3> SUFFICES ASSUME NEW o \in DOMAIN objs
                 PROVE  /\ final[o] \in Session
                        /\ final[o].filed = (objs[o].filed /\ objs[o].key.sid # id)
      BY DEF Unfiled, Same, Session
    <3>1. objs[o].filed => objs[o].key \in activeSessions
      BY <1>0 DEF Same, Filed
    <3>2. objs[o].filed \in BOOLEAN /\ objs[o] \in Session
      BY DEF Same, Session
    <3>3. (objs[o].filed /\ objs[o].key \in activeSessions') = (objs[o].filed /\ objs[o].key.sid # id)
      BY <2>4, <3>1, <3>2
    <3> QED
      BY <3>2, <3>3 DEF Session
  <2>7. aaaSessions' = [a \in DOMAIN aaaSessions \ Stopped(objs, id) |-> aaaSessions[a]]
    BY <1>1 DEF Deallocate
  <2> HIDE DEF final
  <2> QED
    BY <2>3, <2>4, <2>5, <2>6, <2>7
<1>2. CASE id \notin sessionSet
  <2>1. UNCHANGED <<sessionSet, activeSessions, next_session_id, aaaSessions>> /\ Settle(objs)
    BY <1>2 DEF Deallocate, tables
  <2>2. \A o \in DOMAIN objs : objs[o].filed => objs[o].key.sid # id
    BY <1>0, <1>2 DEF Same, Filed
  <2>3. Stopped(objs, id) = {}
    BY <2>2 DEF Stopped
  <2>4. Unfiled(objs, objs, id)
    BY <2>2 DEF Unfiled, Same, Session
  <2>5. activeSessions = {key \in activeSessions : key.sid # id}
    BY <1>0, <1>2
  <2> QED
    BY <1>2, <2>1, <2>3, <2>4, <2>5
<1> QED
  BY <1>1, <1>2

\* Settle keeps the objects in the tables and those with an armed timer.
LEMMA SettleIs ==
    ASSUME TypeOK, NEW final, \A o \in DOMAIN final : final[o] \in Session, Settle(final)
    PROVE  /\ DOMAIN objects' = {o \in DOMAIN final : final[o].filed \/ final[o].armed}
           /\ \A o \in DOMAIN objects' : objects'[o] = final[o]
           /\ DOMAIN dp' \subseteq DOMAIN dp
           /\ \A k \in DOMAIN dp' : dp'[k] \in Interface
           /\ mishaps \subseteq mishaps' /\ mishaps' \subseteq Mishap
<1>1. /\ DOMAIN objects' = {o \in DOMAIN final : final[o].filed \/ final[o].armed}
      /\ \A o \in DOMAIN objects' : objects'[o] = final[o]
  BY DEF Settle
<1>2. mishaps \subseteq mishaps' /\ mishaps' \subseteq Mishap
  BY DEF Settle, TypeOK, Mishap
<1>3. PICK gone : dp' = Deprovisioned(gone)
  BY DEF Settle
<1>4. DOMAIN dp' \subseteq DOMAIN dp
  BY <1>3 DEF Deprovisioned
<1>5. ASSUME NEW k \in DOMAIN dp' PROVE dp'[k] \in Interface
  <2>1. dp'[k] = [dp[k] EXCEPT !.complete = @ /\ \A s \in gone : s.ifindex \notin {Unset, dp[k].ifindex}]
    BY <1>3 DEF Deprovisioned
  <2>2. dp[k] \in Interface
    BY <1>4 DEF TypeOK
  <2> QED
    BY <2>1, <2>2 DEF Interface
<1> QED
  BY <1>1, <1>2, <1>4, <1>5

-----------------------------------------------------------------------------
(* Types. *)

LEMMA SidAfterInSid ==
    ASSUME NEW id \in Sid
    PROVE  SidAfter(id) \in Sid
BY SidAssumption DEF Sid, SidAfter

\* Once the daemon has ended nothing of it is left but objects a timer holds.
EndedOK == daemon = "exited" => Filed = {} /\ DOMAIN aaaSessions = {}

Typed == TypeOK /\ EndedOK

LEMMA TypedInitially == Init => Typed
<1> SUFFICES ASSUME Init PROVE Typed
  OBVIOUS
<1>1. <<>> \in Seq(Conn) /\ 1 \in Sid
  BY SidAssumption DEF Sid
<1>2. RuntimeTypeOK
  BY <1>1 DEF Init, RuntimeInit, RuntimeTypeOK
<1> QED
  BY <1>2 DEF Init, RuntimeInit, Nothing, Typed, TypeOK, EndedOK, ObjectsFiled, Filed, Mishap

\* A new session in the place o, filed under a key nobody has.
Opened(o, key) ==
    /\ key.sid \notin sessionSet
    /\ sessionSet' = sessionSet \cup {key.sid}
    /\ activeSessions' = activeSessions \cup {key}
    /\ next_session_id' \in Sid
    /\ DOMAIN objects' = DOMAIN objects \cup {o}
    /\ objects'[o] = NewSession(key)
    /\ \A p \in DOMAIN objects : objects'[p] = objects[p]
    /\ mishaps' = IF VppKey(key) \in DOMAIN dp \/ \E p \in DOMAIN objects : objects[p].key.sid = key.sid
                  THEN mishaps \cup {"conflict"} ELSE mishaps
    /\ UNCHANGED <<daemon, requests, aaaSessions, dp>>

LEMMA PadrIs ==
    ASSUME TypeOK, NEW encap \in Encaps, NEW id \in Sid, ReceivePadr(encap, id)
    PROVE  \E o \in Objects \ DOMAIN objects, key \in Key : Opened(o, key)
<1> DEFINE key == [encap |-> encap, sid |-> id]
<1>1. key \in Key /\ key.sid = id
  BY DEF Key
<1>2. id \notin sessionSet /\ AllocateSession(encap, id)
  BY DEF ReceivePadr, AllocateSession, FirstFree
<1>3. key \notin activeSessions
  BY <1>1, <1>2 DEF TypeOK, ObjectsFiled
<1>4. /\ sessionSet' = sessionSet \cup {id} /\ activeSessions' = activeSessions \cup {key}
      /\ next_session_id' = SidAfter(id)
  BY <1>2, <1>3 DEF AllocateSession
<1>5. PICK o \in Objects \ DOMAIN objects :
         objects' = [p \in DOMAIN objects \cup {o} |-> IF p = o THEN NewSession(key) ELSE objects[p]]
  BY DEF ReceivePadr
<1>6. /\ mishaps' = IF VppKey(key) \in DOMAIN dp \/ \E p \in DOMAIN objects : objects[p].key.sid = id
                    THEN mishaps \cup {"conflict"} ELSE mishaps
      /\ UNCHANGED <<daemon, requests, aaaSessions, dp>>
  BY DEF ReceivePadr
<1>7. next_session_id' \in Sid
  BY <1>4, SidAfterInSid
<1> HIDE DEF key
<1>8. /\ DOMAIN objects' = DOMAIN objects \cup {o} /\ objects'[o] = NewSession(key)
      /\ \A p \in DOMAIN objects : objects'[p] = objects[p]
  BY <1>5
<1> QED
  BY <1>1, <1>2, <1>4, <1>6, <1>7, <1>8 DEF Opened

\* What deallocateSession leaves of the objects: those neither in the tables nor
\* held by their echo timer are gone, the others are as before.
LEMMA EndIs ==
    ASSUME TypeOK, NEW id \in Sid, NEW objs, Same(objs), Deallocate(id, objs)
    PROVE  /\ DOMAIN objects' \subseteq DOMAIN objects
           /\ \A o \in DOMAIN objects' :
                 /\ objects'[o] \in Session
                 /\ objects'[o].key = objects[o].key /\ objects'[o].aaa = objects[o].aaa
                 /\ objects'[o].armed = objs[o].armed /\ objects'[o].misses = objs[o].misses
                 /\ objects'[o].filed \/ objects'[o].armed
           /\ Filed' = {o \in Filed : objects[o].key.sid # id}
           /\ DOMAIN dp' \subseteq DOMAIN dp /\ \A k \in DOMAIN dp' : dp'[k] \in Interface
           /\ mishaps \subseteq mishaps' /\ mishaps' \subseteq Mishap
           /\ (\E r \in requests : r.object \in DOMAIN objects \ DOMAIN objects')
                 => "dangling" \in mishaps'
<1>1. PICK final : Unfiled(final, objs, id) /\ Settle(final)
  BY DeallocateIs
<1>2. \A o \in DOMAIN final : final[o] \in Session
  BY <1>1 DEF Unfiled
<1>3. /\ DOMAIN objects' = {o \in DOMAIN final : final[o].filed \/ final[o].armed}
      /\ \A o \in DOMAIN objects' : objects'[o] = final[o]
      /\ DOMAIN dp' \subseteq DOMAIN dp /\ (\A k \in DOMAIN dp' : dp'[k] \in Interface)
      /\ mishaps \subseteq mishaps' /\ mishaps' \subseteq Mishap
  BY <1>1, <1>2, SettleIs
<1>4. DOMAIN final = DOMAIN objects
  BY <1>1 DEF Unfiled, Same
<1>5. ASSUME NEW o \in DOMAIN objects
      PROVE  /\ final[o].key = objects[o].key /\ final[o].aaa = objects[o].aaa
             /\ final[o].armed = objs[o].armed /\ final[o].misses = objs[o].misses
             /\ final[o].filed <=> objects[o].filed /\ objects[o].key.sid # id
  BY <1>1 DEF Unfiled, Same
<1>6. ASSUME NEW o
      PROVE  o \in Filed' <=> o \in Filed /\ objects[o].key.sid # id
  BY <1>3, <1>4, <1>5 DEF Filed
<1>7. (\E r \in requests : r.object \in DOMAIN objects \ DOMAIN objects') => "dangling" \in mishaps'
  BY <1>1, <1>3, <1>4 DEF Settle
<1>8. ASSUME NEW o \in DOMAIN objects'
      PROVE  /\ o \in DOMAIN objects /\ objects'[o] \in Session
             /\ objects'[o].key = objects[o].key /\ objects'[o].aaa = objects[o].aaa
             /\ objects'[o].armed = objs[o].armed /\ objects'[o].misses = objs[o].misses
             /\ objects'[o].filed \/ objects'[o].armed
  BY <1>2, <1>3, <1>4, <1>5
<1>9. Filed' = {o \in Filed : objects[o].key.sid # id}
  BY <1>6
<1> QED
  BY <1>3, <1>7, <1>8, <1>9

\* The tables when a session, or none, has ended.
LEMMA EndKeepsTypes ==
    ASSUME TypeOK, NEW id \in Sid, NEW objs, Same(objs), Deallocate(id, objs),
           UNCHANGED <<daemon, requests, pendingSession, pendingTimers>>
    PROVE  TypeOK'
<1>1. /\ Filed' = {o \in Filed : objects[o].key.sid # id}
      /\ Filed' \subseteq DOMAIN objects'
  BY EndIs DEF Filed
<1>2. \A o \in Filed' : objects'[o].key = objects[o].key
  BY <1>1, EndIs
<1>3. /\ sessionSet' = sessionSet \ {id}
      /\ activeSessions' = {key \in activeSessions : key.sid # id}
      /\ next_session_id' = next_session_id
  BY DeallocateIs
<1>4. ObjectsFiled'
  <2>1. activeSessions' = {objects'[o].key : o \in Filed'}
    BY <1>1, <1>2, <1>3 DEF TypeOK, ObjectsFiled
  <2>2. sessionSet' = {key.sid : key \in activeSessions'}
    BY <1>3 DEF TypeOK, ObjectsFiled
  <2>3. \A o, p \in Filed' : objects'[o].key.sid = objects'[p].key.sid => o = p
    BY <1>1, <1>2 DEF TypeOK, ObjectsFiled
  <2> QED
    BY <2>1, <2>2, <2>3 DEF ObjectsFiled
<1>5. RuntimeTypeOK'
  BY <1>3 DEF TypeOK, RuntimeTypeOK
<1>6. /\ DOMAIN objects' \subseteq Objects /\ (\A o \in DOMAIN objects' : objects'[o] \in Session)
      /\ DOMAIN dp' \subseteq VppKeys /\ (\A k \in DOMAIN dp' : dp'[k] \in Interface)
      /\ mishaps' \subseteq Mishap
  BY EndIs DEF TypeOK
<1>7. DOMAIN aaaSessions' \subseteq AaaId /\ \A a \in DOMAIN aaaSessions' : aaaSessions'[a] \in Key
  BY DeallocateIs DEF TypeOK
<1> QED
  BY <1>4, <1>5, <1>6, <1>7 DEF TypeOK

\* The two callers of deallocateSession.
LEMMA SameObjects == TypeOK => Same(objects)
BY DEF TypeOK, Same

LEMMA SameWithoutTimer ==
    ASSUME TypeOK, NEW o \in DOMAIN objects
    PROVE  Same([objects EXCEPT ![o] = GivenUp(objects[o])])
BY DEF TypeOK, Same, GivenUp, Session

\* What the end of the process leaves: the objects a timer holds.
LEMMA ExitIs ==
    ASSUME TypeOK, Exit
    PROVE  /\ DOMAIN objects' \subseteq DOMAIN objects
           /\ \A o \in DOMAIN objects' :
                 /\ objects'[o] \in Session
                 /\ objects'[o].key = objects[o].key /\ objects'[o].misses = objects[o].misses
                 /\ objects'[o].armed /\ ~objects'[o].filed
           /\ Filed' = {}
           /\ DOMAIN dp' \subseteq DOMAIN dp /\ \A k \in DOMAIN dp' : dp'[k] \in Interface
           /\ mishaps \subseteq mishaps' /\ mishaps' \subseteq Mishap
           /\ (\E r \in requests : r.object \in DOMAIN objects \ DOMAIN objects')
                 => "dangling" \in mishaps'
<1> DEFINE final == [o \in DOMAIN objects |-> [objects[o] EXCEPT !.filed = FALSE]]
<1>1. Settle(final)
  BY DEF Exit
<1>2. \A o \in DOMAIN final :
         /\ final[o] \in Session /\ ~final[o].filed
         /\ final[o].key = objects[o].key /\ final[o].misses = objects[o].misses
  BY DEF TypeOK, Session
<1>3. DOMAIN final = DOMAIN objects
  OBVIOUS
<1> HIDE DEF final
<1>4. /\ DOMAIN objects' = {o \in DOMAIN final : final[o].filed \/ final[o].armed}
      /\ \A o \in DOMAIN objects' : objects'[o] = final[o]
      /\ DOMAIN dp' \subseteq DOMAIN dp /\ (\A k \in DOMAIN dp' : dp'[k] \in Interface)
      /\ mishaps \subseteq mishaps' /\ mishaps' \subseteq Mishap
  BY <1>1, <1>2, SettleIs
<1>5. (\E r \in requests : r.object \in DOMAIN objects \ DOMAIN objects') => "dangling" \in mishaps'
  BY <1>1, <1>3, <1>4 DEF Settle
<1> QED
  BY <1>2, <1>3, <1>4, <1>5 DEF Filed

\* Handlers that change objects in place leave the tables in step.
LEMMA InPlace ==
    ASSUME TypeOK, UNCHANGED tables, DOMAIN objects' = DOMAIN objects,
           \A o \in DOMAIN objects :
              objects'[o].key = objects[o].key /\ objects'[o].filed = objects[o].filed
    PROVE  ObjectsFiled'
<1>1. Filed' = Filed /\ \A o \in Filed : objects'[o].key = objects[o].key
  BY DEF Filed
<1> QED
  BY <1>1 DEF TypeOK, ObjectsFiled, tables

LEMMA TypedStep == Typed /\ [Next]_vars => Typed'
<1> SUFFICES ASSUME TypeOK, EndedOK, [Next]_vars PROVE TypeOK' /\ EndedOK'
  BY DEF Typed
<1>1. ASSUME NEW encap \in Encaps, NEW id \in Sid, ReceivePadr(encap, id),
             UNCHANGED <<pendingSession, pendingTimers>>
      PROVE  TypeOK'
  <2>1. PICK o \in Objects \ DOMAIN objects, key \in Key : Opened(o, key)
    BY <1>1, PadrIs
  <2> USE DEF Opened
  <2>2. NewSession(key) \in Session
    BY LimitAssumption DEF NewSession, Session
  <2>3. /\ Filed' = Filed \cup {o} /\ objects'[o].key = key
        /\ \A p \in Filed : objects'[p].key = objects[p].key
    BY <2>1 DEF Filed, NewSession
  <2>4. ObjectsFiled'
    <3>1. activeSessions' = {objects'[p].key : p \in Filed'}
      BY <2>1, <2>3 DEF TypeOK, ObjectsFiled
    <3>2. sessionSet' = {k.sid : k \in activeSessions'}
      BY <2>1, <2>3 DEF TypeOK, ObjectsFiled
    <3>3. \A p \in Filed : objects[p].key.sid # key.sid
      BY <2>1 DEF TypeOK, ObjectsFiled
    <3>4. \A p, q \in Filed' : objects'[p].key.sid = objects'[q].key.sid => p = q
      BY <2>3, <3>3 DEF TypeOK, ObjectsFiled
    <3> QED
      BY <3>1, <3>2, <3>4 DEF ObjectsFiled
  <2>5. RuntimeTypeOK'
    BY <1>1, <2>1 DEF TypeOK, RuntimeTypeOK, Key
  <2>6. mishaps' \subseteq Mishap
    BY <2>1 DEF TypeOK, Mishap
  <2>7. DOMAIN objects' \subseteq Objects /\ \A p \in DOMAIN objects' : objects'[p] \in Session
    BY <2>1, <2>2 DEF TypeOK
  <2> QED
    BY <2>1, <2>4, <2>5, <2>6, <2>7 DEF TypeOK
<1>2. ASSUME NEW id \in Sid, SessionDown(id), UNCHANGED <<pendingSession, pendingTimers>>
      PROVE  TypeOK'
  BY <1>2, SameObjects, EndKeepsTypes DEF SessionDown
<1>3. ASSUME NEW o \in DOMAIN objects, AuthRequest(o), UNCHANGED <<pendingSession, pendingTimers>>
      PROVE  TypeOK'
  <2>1. PICK n \in 1..MaxRequests :
           requests' = requests \cup {[object |-> o, key |-> objects[o].key, n |-> n]}
    BY <1>3 DEF AuthRequest
  <2>2. requests' \subseteq Request
    BY <2>1 DEF Request, TypeOK, Session
  <2> QED
    BY <1>3, <2>2, InPlace DEF AuthRequest, TypeOK, RuntimeTypeOK, tables
<1>4. ASSUME NEW o \in DOMAIN objects, IpcpUp(o), UNCHANGED <<pendingSession, pendingTimers>>
      PROVE  TypeOK'
  <2> DEFINE k == VppKey(objects[o].key)
  <2>1. PICK known \in BOOLEAN, added \in BOOLEAN, complete \in BOOLEAN, ifindex \in IfIndex :
           ProvisionDp(o, known, added, ifindex, complete)
    BY <1>4 DEF IpcpUp
  <2>2. objects[o] \in Session
    BY DEF TypeOK
  <2>3. LET s == Provisioned(objects[o], known, added, ifindex, complete)
        IN  s \in Session /\ s.key = objects[o].key /\ s.filed = objects[o].filed
    BY <2>2 DEF Provisioned, Session
  <2>4. /\ DOMAIN objects' = DOMAIN objects
        /\ \A p \in DOMAIN objects : /\ objects'[p] \in Session /\ objects'[p].key = objects[p].key
                                      /\ objects'[p].filed = objects[p].filed
    BY <2>1, <2>3 DEF ProvisionDp, TypeOK
  <2>5. k \in VppKeys
    BY <2>2 DEF VppKeys, Session
  <2>6. DOMAIN dp' \subseteq VppKeys /\ \A j \in DOMAIN dp' : dp'[j] \in Interface
    BY <2>1, <2>5 DEF ProvisionDp, TypeOK, Interface
  <2>7. UNCHANGED <<daemon, tables, requests, aaaSessions>> /\ mishaps' \subseteq Mishap
    BY <1>4, <2>1 DEF IpcpUp, ProvisionDp, TypeOK, Mishap
  <2>8. ObjectsFiled'
    BY <2>4, <2>7, InPlace
  <2> QED
    BY <1>4, <2>4, <2>6, <2>7, <2>8 DEF TypeOK, RuntimeTypeOK, tables
<1>5. ASSUME NEW o \in DOMAIN objects, EchoReply(o), UNCHANGED <<pendingSession, pendingTimers>>
      PROVE  TypeOK'
  <2>1. /\ DOMAIN objects' = DOMAIN objects
        /\ \A p \in DOMAIN objects : /\ objects'[p] \in Session /\ objects'[p].key = objects[p].key
                                      /\ objects'[p].filed = objects[p].filed
    BY <1>5, LimitAssumption DEF EchoReply, TypeOK, Session
  <2>2. ObjectsFiled'
    BY <1>5, <2>1, InPlace DEF EchoReply
  <2> QED
    BY <1>5, <2>1, <2>2 DEF EchoReply, TypeOK, RuntimeTypeOK, tables
<1>6. ASSUME NEW r \in requests, RadiusAnswer(r), UNCHANGED <<pendingSession, pendingTimers>>
      PROVE  TypeOK'
  <2>1. PICK id \in AaaId :
           /\ aaaSessions' = [a \in DOMAIN aaaSessions \cup {id} |->
                                 IF a = id THEN r.key ELSE aaaSessions[a]]
           /\ IF r.object \in DOMAIN objects
              THEN objects' = [objects EXCEPT ![r.object].aaa = id]
              ELSE objects' = objects
    BY <1>6 DEF RadiusAnswer
  <2>2. r \in Request
    BY DEF TypeOK
  <2>3. DOMAIN aaaSessions' \subseteq AaaId /\ \A a \in DOMAIN aaaSessions' : aaaSessions'[a] \in Key
    BY <2>1, <2>2 DEF TypeOK, Request
  <2>4. /\ DOMAIN objects' = DOMAIN objects
        /\ \A p \in DOMAIN objects : /\ objects'[p] \in Session /\ objects'[p].key = objects[p].key
                                      /\ objects'[p].filed = objects[p].filed
    BY <2>1 DEF TypeOK, Session
  <2>5. mishaps' \subseteq Mishap
    BY <1>6 DEF RadiusAnswer, TypeOK, Mishap
  <2>6. ObjectsFiled'
    BY <1>6, <2>4, InPlace DEF RadiusAnswer
  <2> QED
    BY <1>6, <2>3, <2>4, <2>5, <2>6 DEF RadiusAnswer, TypeOK, RuntimeTypeOK, tables
<1>7. ASSUME NEW r \in requests, RadiusError(r), UNCHANGED <<pendingSession, pendingTimers>>
      PROVE  TypeOK'
  BY <1>7, InPlace DEF RadiusError, TypeOK, RuntimeTypeOK, tables
<1>8. ASSUME NEW o \in DOMAIN objects, EchoTimer(o), UNCHANGED <<pendingSession, pendingTimers>>
      PROVE  TypeOK'
  <2>0. objects[o] \in Session
    BY DEF TypeOK
  <2>1. CASE objects[o].misses < MaxEcho
    <3>1. /\ objects' = [objects EXCEPT ![o].misses = @ + 1]
          /\ UNCHANGED <<daemon, requests, tables, aaaSessions, dp, mishaps>>
      BY <1>8, <2>1 DEF EchoTimer
    <3>2. objects[o].misses + 1 \in 0..MaxEcho
      BY <2>0, <2>1, LimitAssumption DEF Session
    <3>3. /\ DOMAIN objects' = DOMAIN objects
          /\ \A p \in DOMAIN objects : /\ objects'[p] \in Session /\ objects'[p].key = objects[p].key
                                        /\ objects'[p].filed = objects[p].filed
      BY <3>1, <3>2 DEF TypeOK, Session
    <3>4. ObjectsFiled'
      BY <3>1, <3>3, InPlace
    <3> QED
      BY <1>8, <3>1, <3>3, <3>4 DEF TypeOK, RuntimeTypeOK, tables
  <2>2. CASE ~(objects[o].misses < MaxEcho)
    <3>1. /\ Deallocate(objects[o].key.sid, [objects EXCEPT ![o] = GivenUp(objects[o])])
          /\ UNCHANGED <<daemon, requests>>
      BY <1>8, <2>2 DEF EchoTimer
    <3>2. objects[o].key.sid \in Sid
      BY <2>0 DEF Session, Key
    <3> QED
      BY <1>8, <3>1, <3>2, SameWithoutTimer, EndKeepsTypes
  <2> QED
    BY <2>1, <2>2
<1>9. ASSUME daemon = "runs", Exit PROVE TypeOK'
  <2>1. RuntimeTypeOK' /\ sessionSet' = {} /\ activeSessions' = {}
    <3>1. <<>> \in Seq(Conn) /\ 1 \in Sid
      BY SidAssumption DEF Sid
    <3> QED
      BY <1>9, <3>1 DEF Exit, Cleanup, RuntimeTypeOK
  <2>2. Filed' = {}
    BY <1>9, ExitIs
  <2>3. ObjectsFiled'
    BY <2>1, <2>2 DEF ObjectsFiled
  <2>4. aaaSessions' = Nothing /\ requests' = requests /\ daemon' = "exited"
    BY <1>9 DEF Exit
  <2> QED
    BY <1>9, <2>1, <2>3, <2>4, ExitIs DEF TypeOK, Nothing
<1>10. ASSUME daemon = "runs", Crash PROVE TypeOK'
  <2>1. RuntimeTypeOK' /\ sessionSet' = {} /\ activeSessions' = {}
    <3>1. <<>> \in Seq(Conn) /\ 1 \in Sid
      BY SidAssumption DEF Sid
    <3> QED
      BY <1>10, <3>1 DEF Crash, Cleanup, RuntimeTypeOK
  <2> QED
    BY <1>10, <2>1 DEF Crash, TypeOK, ObjectsFiled, Filed, Nothing, Mishap
<1>11. ASSUME Start, UNCHANGED <<pendingSession, pendingTimers>> PROVE TypeOK'
  <2>1. Filed = {} /\ Filed' = {}
    BY <1>11 DEF Start, EndedOK, Filed, Nothing
  <2>2. ObjectsFiled'
    BY <1>11, <2>1 DEF Start, TypeOK, ObjectsFiled, tables
  <2>3. \A k \in DOMAIN dp : [dp[k] EXCEPT !.complete = FALSE, !.old = TRUE] \in Interface
    BY DEF TypeOK, Interface
  <2>4. DOMAIN dp' \subseteq VppKeys /\ \A k \in DOMAIN dp' : dp'[k] \in Interface
    BY <1>11, <2>3 DEF Start, TypeOK
  <2> QED
    BY <1>11, <2>2, <2>4 DEF Start, TypeOK, RuntimeTypeOK, Nothing, tables
<1>12. ASSUME UNCHANGED vars PROVE TypeOK'
  <2>1. UNCHANGED <<pendingSession, pendingTimers, sessionSet, activeSessions, next_session_id,
                    daemon, objects, requests, aaaSessions, dp, mishaps>>
    BY <1>12 DEF vars, runtimeVars, subscriberVars, tables
  <2>2. ObjectsFiled'
    BY <2>1, InPlace DEF tables
  <2> QED
    BY <2>1, <2>2 DEF TypeOK, RuntimeTypeOK
<1>13. TypeOK'
  BY <1>1, <1>2, <1>3, <1>4, <1>5, <1>6, <1>7, <1>8, <1>9, <1>10, <1>11, <1>12
     DEF Next, Handlers, Timers
<1>14. EndedOK'
  <2>1. CASE daemon = "runs" /\ Handlers
    BY <2>1 DEF Handlers, Timers, ReceivePadr, SessionDown, AuthRequest, IpcpUp, EchoReply,
                RadiusAnswer, RadiusError, EchoTimer, EndedOK
  <2>2. CASE Exit
    BY <2>2, ExitIs DEF Exit, EndedOK, Nothing
  <2>3. CASE Crash
    BY <2>3 DEF Crash, EndedOK, Filed, Nothing
  <2>4. CASE Start
    BY <2>4 DEF Start, EndedOK
  <2>5. CASE UNCHANGED vars
    BY <2>5 DEF vars, subscriberVars, EndedOK, Filed
  <2> QED
    BY <2>1, <2>2, <2>3, <2>4, <2>5 DEF Next
<1> QED
  BY <1>13, <1>14

\* Every variable keeps its type, and the objects in the tables are those of the
\* ids in use: deallocateSession, called by id by whatever zombie, never leaves
\* an object without its id or an id without its object.
THEOREM TypeCorrect == Spec => []TypeOK
<1>1. Typed => TypeOK
  BY DEF Typed
<1> QED
  BY TypedInitially, TypedStep, <1>1, PTL DEF Spec

-----------------------------------------------------------------------------
(* Sessions and their AAA sessions. *)

\* A step that binds and ends nothing; it opens one session at most.
Quiet ==
    /\ aaaSessions' = aaaSessions /\ mishaps \subseteq mishaps'
    /\ Filed \subseteq Filed'
    /\ \A o \in Filed' : IF o \in Filed
                        THEN objects'[o].aaa = objects[o].aaa /\ objects'[o].key = objects[o].key
                        ELSE objects'[o].aaa = Unset /\ objects'[o].key \in Key /\ Filed' = Filed \cup {o}

\* A step that ends the session with this id, if there is one.
Ends(id) ==
    /\ Filed' = {o \in Filed : objects[o].key.sid # id}
    /\ DOMAIN aaaSessions' =
          DOMAIN aaaSessions \ {objects[o].aaa : o \in {p \in Filed : objects[p].key.sid = id}}
    /\ \A a \in DOMAIN aaaSessions' : aaaSessions'[a] = aaaSessions[a]
    /\ \A o \in Filed' : objects'[o].aaa = objects[o].aaa /\ objects'[o].key = objects[o].key
    /\ mishaps \subseteq mishaps'

\* A step after which there is no session.
Empties == Filed' = {} /\ DOMAIN aaaSessions' = {}

LEMMA DeallocateEnds ==
    ASSUME TypeOK, NEW id \in Sid, NEW objs, Same(objs), Deallocate(id, objs)
    PROVE  Ends(id)
<1>1. Stopped(objs, id) = {objects[o].aaa : o \in {p \in Filed : objects[p].key.sid = id}}
  BY DEF Stopped, Same, Filed
<1>2. /\ Filed' = {o \in Filed : objects[o].key.sid # id} /\ mishaps \subseteq mishaps'
      /\ \A o \in Filed' : objects'[o].aaa = objects[o].aaa /\ objects'[o].key = objects[o].key
  <2>1. Filed' \subseteq DOMAIN objects'
    BY DEF Filed
  <2> QED
    BY <2>1, EndIs
<1>3. /\ DOMAIN aaaSessions' = DOMAIN aaaSessions \ Stopped(objs, id)
      /\ \A a \in DOMAIN aaaSessions' : aaaSessions'[a] = aaaSessions[a]
  BY DeallocateIs
<1> QED
  BY <1>1, <1>2, <1>3 DEF Ends

LEMMA BindingSteps ==
    ASSUME Typed, [Next]_vars
    PROVE  \/ Quiet \/ Empties
           \/ \E id \in Sid : Ends(id)
           \/ \E r \in requests : RadiusAnswer(r)
<1> USE DEF Typed
<1>1. ASSUME NEW encap \in Encaps, NEW id \in Sid, ReceivePadr(encap, id) PROVE Quiet
  <2>1. PICK o \in Objects \ DOMAIN objects, key \in Key : Opened(o, key)
    BY <1>1, PadrIs
  <2>2. objects'[o].aaa = Unset /\ objects'[o].key \in Key
    BY <2>1 DEF Opened, NewSession
  <2>3. Filed' = Filed \cup {o} /\ o \notin Filed /\ \A p \in Filed : objects'[p] = objects[p]
    BY <2>1 DEF Opened, NewSession, Filed
  <2>4. aaaSessions' = aaaSessions /\ mishaps \subseteq mishaps'
    BY <2>1 DEF Opened
  <2> QED
    BY <2>2, <2>3, <2>4 DEF Quiet
<1>2. ASSUME NEW id \in Sid, SessionDown(id) PROVE Ends(id)
  BY <1>2, SameObjects, DeallocateEnds DEF SessionDown
<1>3. ASSUME NEW o \in DOMAIN objects, AuthRequest(o) PROVE Quiet
  BY <1>3 DEF AuthRequest, Quiet, Filed
<1>4. ASSUME NEW o \in DOMAIN objects, IpcpUp(o) PROVE Quiet
  <2>1. PICK known \in BOOLEAN, added \in BOOLEAN, complete \in BOOLEAN, ifindex \in IfIndex :
           ProvisionDp(o, known, added, ifindex, complete)
    BY <1>4 DEF IpcpUp
  <2>2. objects[o] \in Session
    BY DEF TypeOK
  <2>3. LET t == Provisioned(objects[o], known, added, ifindex, complete)
        IN  t.key = objects[o].key /\ t.filed = objects[o].filed /\ t.aaa = objects[o].aaa
    BY <2>2 DEF Provisioned, Session
  <2>4. /\ DOMAIN objects' = DOMAIN objects
        /\ \A p \in DOMAIN objects : /\ objects'[p].key = objects[p].key
                                      /\ objects'[p].filed = objects[p].filed
                                      /\ objects'[p].aaa = objects[p].aaa
    BY <2>1, <2>3 DEF ProvisionDp
  <2>5. Filed' = Filed
    BY <2>4 DEF Filed
  <2>6. aaaSessions' = aaaSessions /\ mishaps \subseteq mishaps'
    BY <1>4, <2>1 DEF IpcpUp, ProvisionDp
  <2> QED
    BY <2>4, <2>5, <2>6 DEF Quiet, Filed
<1>5. ASSUME NEW o \in DOMAIN objects, EchoReply(o) PROVE Quiet
  BY <1>5 DEF EchoReply, Quiet, Filed, TypeOK, Session
<1>6. ASSUME NEW r \in requests, RadiusError(r) PROVE Quiet
  BY <1>6 DEF RadiusError, Quiet, Filed
<1>7. ASSUME NEW o \in DOMAIN objects, EchoTimer(o) PROVE Quiet \/ \E id \in Sid : Ends(id)
  <2>0. objects[o] \in Session
    BY DEF TypeOK
  <2>1. CASE objects[o].misses < MaxEcho
    <3>1. /\ objects' = [objects EXCEPT ![o].misses = @ + 1]
          /\ UNCHANGED <<aaaSessions, mishaps>>
      BY <1>7, <2>1 DEF EchoTimer
    <3> QED
      BY <2>0, <3>1 DEF Quiet, Filed, Session
  <2>2. CASE ~(objects[o].misses < MaxEcho)
    <3>1. Deallocate(objects[o].key.sid, [objects EXCEPT ![o] = GivenUp(objects[o])])
      BY <1>7, <2>2 DEF EchoTimer
    <3>2. objects[o].key.sid \in Sid
      BY <2>0 DEF Session, Key
    <3> QED
      BY <3>1, <3>2, SameWithoutTimer, DeallocateEnds
  <2> QED
    BY <2>1, <2>2
<1>8. CASE Exit
  BY <1>8, ExitIs DEF Exit, Empties, Nothing
<1>9. CASE Crash
  BY <1>9 DEF Crash, Empties, Filed, Nothing
<1>10. CASE Start
  BY <1>10 DEF Start, Empties, EndedOK, Filed, Nothing
<1>11. CASE UNCHANGED vars
  BY <1>11 DEF vars, subscriberVars, Quiet, Filed
<1> QED
  BY <1>1, <1>2, <1>3, <1>4, <1>5, <1>6, <1>7, <1>8, <1>9, <1>10, <1>11
     DEF Next, Handlers, Timers

\* An answer binds a new AAA session, whose id was free, to the object in the
\* place it came from, if there is one.
Answered(r, id) ==
    /\ id # Unset
    /\ DOMAIN aaaSessions' = DOMAIN aaaSessions \cup {id} /\ aaaSessions'[id] = r.key
    /\ \A a \in DOMAIN aaaSessions : aaaSessions'[a] = aaaSessions[a]
    /\ DOMAIN objects' = DOMAIN objects /\ Filed' = Filed
    /\ \A o \in DOMAIN objects :
          /\ objects'[o].key = objects[o].key
          /\ objects'[o].aaa = IF o = r.object THEN id ELSE objects[o].aaa
    /\ mishaps \subseteq mishaps'
    /\ ~(r.object \in Filed /\ objects[r.object].aaa = Unset) => "orphan" \in mishaps'
    /\ requests' = requests \ {r}

LEMMA AnswerIs ==
    ASSUME TypeOK, NEW r \in requests, RadiusAnswer(r)
    PROVE  \E id \in AaaId \ DOMAIN aaaSessions : Answered(r, id)
<1>1. PICK id \in AaaId :
         /\ FreeAaaId(id)
         /\ aaaSessions' = [a \in DOMAIN aaaSessions \cup {id} |->
                               IF a = id THEN r.key ELSE aaaSessions[a]]
         /\ IF r.object \in DOMAIN objects
            THEN LET s == objects[r.object]
                 IN  /\ objects' = [objects EXCEPT ![r.object].aaa = id]
                     /\ mishaps' = IF s.filed /\ s.aaa = Unset THEN mishaps
                                   ELSE mishaps \cup {"orphan"}
            ELSE objects' = objects /\ mishaps' = mishaps \cup {"orphan"}
  BY DEF RadiusAnswer
<1>2. id \in AaaId \ DOMAIN aaaSessions /\ id # Unset
  BY <1>1, LimitAssumption DEF FreeAaaId, AaaId, Unset
<1>3. /\ DOMAIN objects' = DOMAIN objects
      /\ \A o \in DOMAIN objects :
            /\ objects'[o].key = objects[o].key /\ objects'[o].filed = objects[o].filed
            /\ objects'[o].aaa = IF o = r.object THEN id ELSE objects[o].aaa
  BY <1>1 DEF TypeOK, Session
<1>4. Filed' = Filed
  BY <1>3 DEF Filed
<1>5. requests' = requests \ {r}
  BY DEF RadiusAnswer
<1>6. /\ mishaps \subseteq mishaps'
      /\ ~(r.object \in Filed /\ objects[r.object].aaa = Unset) => "orphan" \in mishaps'
  BY <1>1 DEF Filed
<1>7. /\ DOMAIN aaaSessions' = DOMAIN aaaSessions \cup {id} /\ aaaSessions'[id] = r.key
      /\ \A a \in DOMAIN aaaSessions : aaaSessions'[a] = aaaSessions[a]
  BY <1>1, <1>2
<1> QED
  BY <1>2, <1>3, <1>4, <1>5, <1>6, <1>7 DEF Answered

LEMMA BoundStep == Typed /\ BoundToLiveAaa /\ [Next]_vars => BoundToLiveAaa'
<1> SUFFICES ASSUME Typed, BoundToLiveAaa, [Next]_vars PROVE BoundToLiveAaa'
  OBVIOUS
<1>1. CASE Quiet
  BY <1>1 DEF Quiet, BoundToLiveAaa, Bound
<1>2. ASSUME NEW id \in Sid, Ends(id) PROVE BoundToLiveAaa'
  <2>1. Bound' = {o \in Bound : objects[o].key.sid # id}
    BY <1>2 DEF Ends, Bound
  <2>2. ASSUME NEW o \in Bound' PROVE objects'[o].aaa \in DOMAIN aaaSessions'
    <3>1. o \in Bound /\ objects[o].key.sid # id /\ objects'[o].aaa = objects[o].aaa
      BY <1>2, <2>1 DEF Ends, Bound
    <3>2. \A p \in Filed : objects[p].key.sid = id => objects[p].aaa # objects[o].aaa
      BY <3>1 DEF BoundToLiveAaa, Bound
    <3> QED
      BY <1>2, <3>1, <3>2 DEF Ends, BoundToLiveAaa
  <2>3. \A o, p \in Bound' : objects'[o].aaa = objects'[p].aaa => o = p
    BY <1>2, <2>1 DEF Ends, BoundToLiveAaa, Bound
  <2> QED
    BY <2>2, <2>3 DEF BoundToLiveAaa
<1>3. ASSUME NEW r \in requests, RadiusAnswer(r) PROVE BoundToLiveAaa'
  <2>1. PICK id \in AaaId \ DOMAIN aaaSessions : Answered(r, id)
    BY <1>3, AnswerIs DEF Typed
  <2> QED
    BY <2>1 DEF Answered, BoundToLiveAaa, Bound, Filed
<1>4. CASE Empties
  BY <1>4 DEF Empties, BoundToLiveAaa, Bound
<1> QED
  BY <1>1, <1>2, <1>3, <1>4, BindingSteps

\* An authenticated session has an AAA session of its own as long as it is in the
\* tables: no zombie, late answer or repeated request takes it away.
THEOREM AuthenticatedIsBound == Spec => []BoundToLiveAaa
<1>1. Init => BoundToLiveAaa
  BY DEF Init, BoundToLiveAaa, Bound, Filed, Nothing
<1> QED
  BY TypedInitially, TypedStep, BoundStep, <1>1, PTL DEF Spec

LEMMA AgreesStep == Typed /\ BoundToLiveAaa /\ AaaAgrees /\ [Next]_vars => AaaAgrees'
<1> SUFFICES ASSUME Typed, BoundToLiveAaa, AaaAgrees, [Next]_vars, "orphan" \notin mishaps'
             PROVE  DOMAIN aaaSessions' = {objects'[o].aaa : o \in Bound'}
  BY DEF AaaAgrees, Without
<1>0. "orphan" \notin mishaps => DOMAIN aaaSessions = {objects[o].aaa : o \in Bound}
  BY DEF AaaAgrees, Without
<1>1. CASE Quiet
  <2>1. Bound' = Bound /\ \A o \in Bound : objects'[o].aaa = objects[o].aaa
    BY <1>1 DEF Quiet, Bound
  <2> QED
    BY <1>0, <1>1, <2>1 DEF Quiet
<1>2. ASSUME NEW id \in Sid, Ends(id)
      PROVE  DOMAIN aaaSessions' = {objects'[o].aaa : o \in Bound'}
  <2>1. /\ Bound' = {o \in Bound : objects[o].key.sid # id}
        /\ \A o \in Bound' : objects'[o].aaa = objects[o].aaa
    BY <1>2 DEF Ends, Bound
  <2>2. DOMAIN aaaSessions = {objects[o].aaa : o \in Bound}
    BY <1>0, <1>2 DEF Ends
  <2>3. DOMAIN aaaSessions' \subseteq {objects'[o].aaa : o \in Bound'}
    BY <1>2, <2>1, <2>2 DEF Ends, Bound
  <2>4. BoundToLiveAaa'
    BY BoundStep
  <2> QED
    BY <2>3, <2>4 DEF BoundToLiveAaa
<1>3. ASSUME NEW r \in requests, RadiusAnswer(r)
      PROVE  DOMAIN aaaSessions' = {objects'[o].aaa : o \in Bound'}
  <2>1. PICK id \in AaaId \ DOMAIN aaaSessions : Answered(r, id)
    BY <1>3, AnswerIs DEF Typed
  <2>2. /\ r.object \in Filed /\ objects[r.object].aaa = Unset
        /\ DOMAIN aaaSessions = {objects[o].aaa : o \in Bound}
    BY <1>0, <2>1 DEF Answered
  <2>3. /\ Bound' = Bound \cup {r.object} /\ r.object \notin Bound
        /\ objects'[r.object].aaa = id
        /\ \A o \in Bound : objects'[o].aaa = objects[o].aaa
    BY <2>1, <2>2 DEF Answered, Bound, Filed
  <2> QED
    BY <2>1, <2>2, <2>3 DEF Answered
<1>4. CASE Empties
  BY <1>4 DEF Empties, Bound
<1> QED
  BY <1>1, <1>2, <1>3, <1>4, BindingSteps

\* AAA keeps no session but those of the authenticated sessions, unless an answer
\* came late or twice.
THEOREM AaaInStep == Spec => []AaaAgrees
<1>1. Init => BoundToLiveAaa /\ AaaAgrees
  BY DEF Init, BoundToLiveAaa, AaaAgrees, Bound, Filed, Nothing
<1> QED
  BY TypedInitially, TypedStep, BoundStep, AgreesStep, <1>1, PTL DEF Spec

-----------------------------------------------------------------------------
(* Objects that left the tables, and requests on the way. *)

\* What holds such an object is its echo timer.
ZombiesArmed == \A o \in DOMAIN objects : objects[o].filed \/ objects[o].armed

\* A step for the objects: a new one is in the tables, and one that left them
\* neither comes back nor loses a missed echo.
Kept ==
    /\ \A o \in DOMAIN objects' \ DOMAIN objects : objects'[o].filed
    /\ \A o \in DOMAIN objects' \cap DOMAIN objects :
          /\ objects'[o].key = objects[o].key
          /\ objects'[o].filed => objects[o].filed
          /\ objects'[o].filed \/ objects'[o].armed
          /\ ~objects[o].filed => objects'[o].misses >= objects[o].misses

\* A step for the requests: one that loses its object is noted as dangling.
Sent ==
    \/ requests' = {}
    \/ /\ mishaps \subseteq mishaps'
       /\ (\E r \in requests : r.object \in DOMAIN objects \ DOMAIN objects') => "dangling" \in mishaps'
       /\ \A r \in requests' \ requests :
             r.object \in DOMAIN objects' /\ objects'[r.object].key = r.key

\* A handler that changes an object in place: only one in the tables has its
\* missed echoes taken back.
Touches ==
    /\ DOMAIN objects' = DOMAIN objects
    /\ \A o \in DOMAIN objects :
          /\ objects'[o].key = objects[o].key
          /\ objects'[o].filed <=> objects[o].filed
          /\ objects[o].armed => objects'[o].armed
          /\ ~objects[o].filed => objects'[o].misses >= objects[o].misses

LEMMA KeptInPlace ==
    ASSUME ZombiesArmed, Touches, mishaps \subseteq mishaps', requests' \subseteq requests
    PROVE  Kept /\ Sent
<1>1. Kept
  BY DEF Touches, Kept, ZombiesArmed
<1>2. Sent
  BY DEF Touches, Sent
<1> QED
  BY <1>1, <1>2

LEMMA KeptAtEnd ==
    ASSUME TypeOK, ZombiesArmed, UNCHANGED requests,
           NEW id \in Sid, NEW objs, Same(objs), Deallocate(id, objs),
           \A o \in DOMAIN objects : objs[o].misses = objects[o].misses
    PROVE  Kept /\ Sent
<1>1. \A o \in DOMAIN objects' : objects'[o].filed => objects[o].filed
  BY EndIs DEF Filed
<1>2. \A o \in DOMAIN objects : objects[o].misses \in Nat
  BY LimitAssumption DEF TypeOK, Session
<1>3. Kept
  BY <1>1, <1>2, EndIs DEF Kept
<1>4. Sent
  BY EndIs DEF Sent
<1> QED
  BY <1>3, <1>4

LEMMA LifeSteps ==
    ASSUME Typed, ZombiesArmed, [Next]_vars
    PROVE  Kept /\ Sent
<1> USE DEF Typed
<1>0. \A o \in DOMAIN objects : objects[o].misses \in Nat /\ objects[o] \in Session
  BY LimitAssumption DEF TypeOK, Session
<1>1. ASSUME NEW encap \in Encaps, NEW id \in Sid, ReceivePadr(encap, id) PROVE Kept /\ Sent
  <2>1. PICK o \in Objects \ DOMAIN objects, key \in Key : Opened(o, key)
    BY <1>1, PadrIs
  <2>2. Kept
    BY <1>0, <2>1 DEF Opened, NewSession, Kept, ZombiesArmed
  <2>3. Sent
    BY <2>1 DEF Opened, Sent
  <2> QED
    BY <2>2, <2>3
<1>2. ASSUME NEW id \in Sid, SessionDown(id) PROVE Kept /\ Sent
  BY <1>2, SameObjects, KeptAtEnd DEF SessionDown
<1>3. ASSUME NEW o \in DOMAIN objects, AuthRequest(o) PROVE Kept /\ Sent
  <2>1. UNCHANGED <<objects, mishaps>>
    BY <1>3 DEF AuthRequest
  <2>2. \A r \in requests' \ requests : r.object = o /\ r.key = objects[o].key
    BY <1>3 DEF AuthRequest
  <2> QED
    BY <1>0, <2>1, <2>2 DEF Kept, Sent, ZombiesArmed
<1>4. ASSUME NEW o \in DOMAIN objects, IpcpUp(o) PROVE Kept /\ Sent
  <2>1. PICK known \in BOOLEAN, added \in BOOLEAN, complete \in BOOLEAN, ifindex \in IfIndex :
           ProvisionDp(o, known, added, ifindex, complete)
    BY <1>4 DEF IpcpUp
  <2>2. LET t == Provisioned(objects[o], known, added, ifindex, complete)
        IN  t.key = objects[o].key /\ t.filed = objects[o].filed /\ t.armed /\ t.misses = objects[o].misses
    BY <1>0 DEF Provisioned, Session
  <2>3. Touches
    BY <1>0, <2>1, <2>2 DEF ProvisionDp, Touches
  <2>4. requests' = requests /\ mishaps \subseteq mishaps'
    BY <1>4, <2>1 DEF IpcpUp, ProvisionDp
  <2> QED
    BY <2>3, <2>4, KeptInPlace
<1>5. ASSUME NEW o \in DOMAIN objects, EchoReply(o) PROVE Kept /\ Sent
  <2>1. Touches
    BY <1>0, <1>5 DEF EchoReply, Hears, Session, Touches
  <2>2. UNCHANGED <<requests, mishaps>>
    BY <1>5 DEF EchoReply
  <2> QED
    BY <2>1, <2>2, KeptInPlace
<1>6. ASSUME NEW r \in requests, RadiusAnswer(r) PROVE Kept /\ Sent
  <2>1. PICK id \in AaaId \ DOMAIN aaaSessions : Answered(r, id)
    BY <1>6, AnswerIs
  <2>2. PICK a \in AaaId : \/ objects' = objects
                           \/ objects' = [objects EXCEPT ![r.object].aaa = a]
    BY <1>6 DEF RadiusAnswer
  <2>3. Touches
    <3>1. CASE objects' = objects
      BY <1>0, <3>1 DEF Touches
    <3>2. CASE objects' = [objects EXCEPT ![r.object].aaa = a]
      BY <1>0, <3>2 DEF Touches, Session
    <3> QED
      BY <2>2, <3>1, <3>2
  <2>4. requests' \subseteq requests /\ mishaps \subseteq mishaps'
    BY <2>1 DEF Answered
  <2> QED
    BY <2>3, <2>4, KeptInPlace
<1>7. ASSUME NEW r \in requests, RadiusError(r) PROVE Kept /\ Sent
  <2>1. Touches
    BY <1>0, <1>7 DEF RadiusError, Touches
  <2> QED
    BY <1>7, <2>1, KeptInPlace DEF RadiusError
<1>8. ASSUME NEW o \in DOMAIN objects, EchoTimer(o) PROVE Kept /\ Sent
  <2>1. CASE objects[o].misses < MaxEcho
    <3>1. /\ objects' = [objects EXCEPT ![o].misses = @ + 1]
          /\ UNCHANGED <<requests, mishaps>>
      BY <1>8, <2>1 DEF EchoTimer
    <3>2. Touches
      BY <1>0, <3>1 DEF Session, Touches
    <3> QED
      BY <3>1, <3>2, KeptInPlace
  <2>2. CASE ~(objects[o].misses < MaxEcho)
    <3> DEFINE objs == [objects EXCEPT ![o] = GivenUp(objects[o])]
    <3>1. Deallocate(objects[o].key.sid, objs) /\ UNCHANGED requests
      BY <1>8, <2>2 DEF EchoTimer
    <3>2. objects[o].key.sid \in Sid
      BY <1>0 DEF Session, Key
    <3>3. \A p \in DOMAIN objects : objs[p].misses = objects[p].misses
      BY <1>0 DEF GivenUp, Session
    <3>4. Same(objs)
      BY SameWithoutTimer
    <3> HIDE DEF objs
    <3> QED
      BY <3>1, <3>2, <3>3, <3>4, KeptAtEnd
  <2> QED
    BY <2>1, <2>2
<1>9. CASE Exit
  <2>1. Kept
    BY <1>0, <1>9, ExitIs DEF Kept
  <2>2. Sent
    BY <1>9, ExitIs DEF Exit, Sent
  <2> QED
    BY <2>1, <2>2
<1>10. CASE Crash \/ Start
  BY <1>10 DEF Crash, Start, Nothing, Kept, Sent
<1>11. CASE UNCHANGED vars
  <2>1. UNCHANGED <<objects, requests, mishaps>>
    BY <1>11 DEF vars, subscriberVars
  <2>2. Touches
    BY <1>0, <2>1 DEF Touches
  <2> QED
    BY <2>1, <2>2, KeptInPlace
<1> QED
  BY <1>1, <1>2, <1>3, <1>4, <1>5, <1>6, <1>7, <1>8, <1>9, <1>10, <1>11
     DEF Next, Handlers, Timers

LEMMA ZombiesStep == Typed /\ ZombiesArmed /\ [Next]_vars => ZombiesArmed'
BY LifeSteps DEF Kept, ZombiesArmed

\* An object that left the tables only comes nearer to its end.
THEOREM ZombiesGo == Spec => ZombieGoes
<1>1. Init => ZombiesArmed
  BY DEF Init, ZombiesArmed, Nothing
<1>2. ASSUME Typed, ZombiesArmed, [Next]_vars
      PROVE  \A o \in DOMAIN objects \cap DOMAIN objects' :
                ~objects[o].filed /\ objects[o].key = objects'[o].key =>
                    /\ objects'[o].armed /\ ~objects'[o].filed
                    /\ objects'[o].misses >= objects[o].misses
  BY <1>2, LifeSteps DEF Kept
<1> QED
  BY TypedInitially, TypedStep, ZombiesStep, <1>1, <1>2, PTL DEF Spec, ZombieGoes

\* A request knows its object and the session it was made for.
RequestsOwn ==
    "dangling" \notin mishaps =>
        \A r \in requests : r.object \in DOMAIN objects /\ objects[r.object].key = r.key

LEMMA RequestsStep == Typed /\ ZombiesArmed /\ RequestsOwn /\ [Next]_vars => RequestsOwn'
BY LifeSteps DEF Kept, Sent, RequestsOwn

LEMMA OwnStep ==
    Typed /\ BoundToLiveAaa /\ RequestsOwn /\ OwnAaa /\ [Next]_vars => OwnAaa'
<1> SUFFICES ASSUME Typed, BoundToLiveAaa, RequestsOwn, OwnAaa, [Next]_vars,
                    "dangling" \notin mishaps', NEW o \in Bound'
             PROVE  aaaSessions'[objects'[o].aaa] = objects'[o].key
  BY DEF OwnAaa, Without
<1>1. CASE Quiet
  BY <1>1 DEF Quiet, OwnAaa, Without, Bound
<1>2. ASSUME NEW id \in Sid, Ends(id)
      PROVE  aaaSessions'[objects'[o].aaa] = objects'[o].key
  <2>1. o \in Bound /\ objects'[o].aaa = objects[o].aaa /\ objects'[o].key = objects[o].key
    BY <1>2 DEF Ends, Bound
  <2>2. objects'[o].aaa \in DOMAIN aaaSessions'
    BY BoundStep DEF BoundToLiveAaa
  <2>3. "dangling" \notin mishaps
    BY <1>2 DEF Ends
  <2> QED
    BY <1>2, <2>1, <2>2, <2>3 DEF Ends, OwnAaa, Without
<1>3. ASSUME NEW r \in requests, RadiusAnswer(r)
      PROVE  aaaSessions'[objects'[o].aaa] = objects'[o].key
  <2>1. PICK id \in AaaId \ DOMAIN aaaSessions : Answered(r, id)
    BY <1>3, AnswerIs DEF Typed
  <2>2. "dangling" \notin mishaps /\ o \in Filed
    BY <2>1 DEF Answered, Bound
  <2>3. CASE o = r.object
    BY <2>1, <2>2, <2>3 DEF Answered, RequestsOwn, Filed
  <2>4. CASE o # r.object
    <3>1. o \in Bound /\ objects'[o].aaa = objects[o].aaa /\ objects'[o].key = objects[o].key
      BY <2>1, <2>2, <2>4 DEF Answered, Bound, Filed
    <3> QED
      BY <2>1, <2>2, <3>1 DEF Answered, OwnAaa, Without, BoundToLiveAaa
  <2> QED
    BY <2>3, <2>4
<1>4. CASE Empties
  BY <1>4 DEF Empties, Bound
<1> QED
  BY <1>1, <1>2, <1>3, <1>4, BindingSteps

\* The AAA session of a session was made for it, unless an object went while a
\* request of its was on the way.
THEOREM BoundToItsOwn == Spec => []OwnAaa
<1>1. Init => BoundToLiveAaa /\ ZombiesArmed /\ RequestsOwn /\ OwnAaa
  BY DEF Init, BoundToLiveAaa, ZombiesArmed, RequestsOwn, OwnAaa, Bound, Filed, Nothing
<1> QED
  BY TypedInitially, TypedStep, BoundStep, ZombiesStep, RequestsStep, OwnStep, <1>1, PTL DEF Spec

-----------------------------------------------------------------------------
(* VPP. *)

\* VPP's interfaces have an index each.
IfIndexOK == \A k, l \in DOMAIN dp : dp[k].ifindex = dp[l].ifindex => k = l

HasInterface(o) == o \in DOMAIN objects /\ objects[o].ifindex # Unset

\* The object, and VPP's entry for it.
Forwards(o) ==
    /\ VppKey(objects[o].key) \in DOMAIN dp
    /\ dp[VppKey(objects[o].key)].ifindex = objects[o].ifindex
    /\ ~dp[VppKey(objects[o].key)].old
    /\ objects[o].vrfKnown

Owned(k) == \E o \in DOMAIN objects : VppKey(objects[o].key) = k /\ HasInterface(o)

\* While nothing was given out twice no two objects have one id, and so no two
\* want the same entry of VPP.
VppOK ==
    daemon = "runs" /\ "conflict" \notin mishaps =>
        /\ \A o, p \in DOMAIN objects : objects[o].key.sid = objects[p].key.sid => o = p
        /\ \A o \in DOMAIN objects : HasInterface(o) => Forwards(o)
        /\ \A k \in DOMAIN dp : ~dp[k].old => Owned(k)
        /\ "bare" \notin mishaps =>
              \A o \in DOMAIN objects : HasInterface(o) =>
                  dp[VppKey(objects[o].key)].complete = objects[o].complete

LEMMA VppKeyTells ==
    ASSUME NEW k, NEW l, VppKey(k) = VppKey(l)
    PROVE  k.sid = l.sid
BY DEF VppKey

\* A step that leaves VPP alone, and of the objects what VPP has to do with.
LEMMA VppUntouched ==
    ASSUME VppOK, IfIndexOK, UNCHANGED <<daemon, dp>>, mishaps \subseteq mishaps',
           DOMAIN objects' = DOMAIN objects,
           \A o \in DOMAIN objects :
              /\ objects'[o].key = objects[o].key /\ objects'[o].ifindex = objects[o].ifindex
              /\ objects'[o].vrfKnown = objects[o].vrfKnown
              /\ objects'[o].complete = objects[o].complete
    PROVE  VppOK' /\ IfIndexOK'
<1>1. IfIndexOK'
  BY DEF IfIndexOK
<1>2. ASSUME NEW o \in DOMAIN objects
      PROVE  (HasInterface(o)' <=> HasInterface(o)) /\ (Forwards(o) => Forwards(o)')
  BY DEF HasInterface, Forwards
<1>3. ASSUME NEW k, Owned(k) PROVE Owned(k)'
  BY <1>2, <1>3 DEF Owned
<1> QED
  BY <1>1, <1>2, <1>3 DEF VppOK

\* The destructors take away the entries of the objects that go and, of those
\* that stay, nothing but what a bare object asks for.
LEMMA DeprovisionedIs ==
    ASSUME NEW final, DOMAIN final = DOMAIN objects, Settle(final), IfIndexOK,
           \A o \in DOMAIN objects :
              /\ final[o].key = objects[o].key /\ final[o].ifindex = objects[o].ifindex
              /\ final[o].vrfKnown = objects[o].vrfKnown
              /\ final[o].complete = objects[o].complete
    PROVE  LET gone == DOMAIN objects \ DOMAIN objects'
           IN  /\ DOMAIN objects' \subseteq DOMAIN objects
               /\ \A o \in DOMAIN objects' :
                     /\ objects'[o].key = objects[o].key
                     /\ objects'[o].ifindex = objects[o].ifindex
                     /\ objects'[o].vrfKnown = objects[o].vrfKnown
                     /\ objects'[o].complete = objects[o].complete
               /\ DOMAIN dp' = DOMAIN dp \ {VppKey(objects[o].key) : o \in {g \in gone : objects[g].vrfKnown}}
               /\ \A k \in DOMAIN dp' :
                     dp'[k] = [dp[k] EXCEPT !.complete = @ /\ \A o \in gone :
                                  objects[o].ifindex \notin {Unset, dp[k].ifindex}]
               /\ (\E o \in gone : objects[o].ifindex = Unset) => "bare" \in mishaps'
               /\ mishaps \subseteq mishaps'
<1> DEFINE gone == {o \in DOMAIN final : ~final[o].filed /\ ~final[o].armed}
           ends == {final[o] : o \in gone}
<1>1. /\ objects' = [o \in DOMAIN final \ gone |-> final[o]]
      /\ dp' = Deprovisioned(ends)
      /\ (\E o \in gone : final[o].ifindex = Unset) => "bare" \in mishaps'
      /\ mishaps \subseteq mishaps'
  BY DEF Settle
<1>2. gone = DOMAIN objects \ DOMAIN objects'
  BY <1>1
<1>3. {VppKey(s.key) : s \in {t \in ends : t.vrfKnown}}
         = {VppKey(objects[o].key) : o \in {g \in gone : objects[g].vrfKnown}}
  OBVIOUS
<1>4. DOMAIN dp' = DOMAIN dp \ {VppKey(objects[o].key) : o \in {g \in gone : objects[g].vrfKnown}}
  BY <1>1, <1>3 DEF Deprovisioned
<1>5. ASSUME NEW k \in DOMAIN dp'
      PROVE  dp'[k] = [dp[k] EXCEPT !.complete = @ /\ \A o \in gone :
                          objects[o].ifindex \notin {Unset, dp[k].ifindex}]
  <2>1. dp'[k] = [dp[k] EXCEPT !.complete = @ /\ \A s \in ends : s.ifindex \notin {Unset, dp[k].ifindex}]
    BY <1>1 DEF Deprovisioned
  <2>2. (\A s \in ends : s.ifindex \notin {Unset, dp[k].ifindex})
           <=> \A o \in gone : objects[o].ifindex \notin {Unset, dp[k].ifindex}
    OBVIOUS
  <2> QED
    BY <2>1, <2>2
<1>6. /\ DOMAIN objects' \subseteq DOMAIN objects
      /\ \A o \in DOMAIN objects' :
            /\ objects'[o].key = objects[o].key /\ objects'[o].ifindex = objects[o].ifindex
            /\ objects'[o].vrfKnown = objects[o].vrfKnown /\ objects'[o].complete = objects[o].complete
  BY <1>1
<1>7. (\E o \in gone : objects[o].ifindex = Unset) => "bare" \in mishaps'
  BY <1>1
<1> HIDE DEF gone, ends
<1> QED
  BY <1>1, <1>2, <1>4, <1>5, <1>6, <1>7

LEMMA EndKeepsVpp ==
    ASSUME TypeOK, VppOK, IfIndexOK, NEW final, DOMAIN final = DOMAIN objects, Settle(final),
           \A o \in DOMAIN objects :
              /\ final[o].key = objects[o].key /\ final[o].ifindex = objects[o].ifindex
              /\ final[o].vrfKnown = objects[o].vrfKnown
              /\ final[o].complete = objects[o].complete
    PROVE  IfIndexOK' /\ (daemon' = daemon => VppOK')
<1> DEFINE gone == DOMAIN objects \ DOMAIN objects'
           key(o) == VppKey(objects[o].key)
<1>1. /\ DOMAIN objects' \subseteq DOMAIN objects
      /\ \A o \in DOMAIN objects' :
            /\ objects'[o].key = objects[o].key /\ objects'[o].ifindex = objects[o].ifindex
            /\ objects'[o].vrfKnown = objects[o].vrfKnown /\ objects'[o].complete = objects[o].complete
      /\ DOMAIN dp' = DOMAIN dp \ {key(o) : o \in {g \in gone : objects[g].vrfKnown}}
      /\ (\E o \in gone : objects[o].ifindex = Unset) => "bare" \in mishaps'
      /\ mishaps \subseteq mishaps'
  BY DeprovisionedIs
<1>2. ASSUME NEW k \in DOMAIN dp'
      PROVE  /\ k \in DOMAIN dp /\ dp'[k].ifindex = dp[k].ifindex /\ dp'[k].old = dp[k].old
             /\ dp'[k].complete = (dp[k].complete /\ \A o \in gone :
                                      objects[o].ifindex \notin {Unset, dp[k].ifindex})
  <2>1. dp'[k] = [dp[k] EXCEPT !.complete = @ /\ \A o \in gone :
                     objects[o].ifindex \notin {Unset, dp[k].ifindex}]
    BY DeprovisionedIs
  <2>2. k \in DOMAIN dp /\ dp[k] \in Interface
    BY <1>1 DEF TypeOK
  <2> QED
    BY <2>1, <2>2 DEF Interface
<1>3. IfIndexOK'
  BY <1>2 DEF IfIndexOK
<1> HIDE DEF gone, key
<1>4. ASSUME daemon' = daemon PROVE VppOK'
  <2> SUFFICES ASSUME daemon = "runs", "conflict" \notin mishaps'
               PROVE  /\ \A o, p \in DOMAIN objects' : objects'[o].key.sid = objects'[p].key.sid => o = p
                      /\ \A o \in DOMAIN objects' : HasInterface(o)' => Forwards(o)'
                      /\ \A k \in DOMAIN dp' : ~dp'[k].old => Owned(k)'
                      /\ "bare" \notin mishaps' =>
                            \A o \in DOMAIN objects' : HasInterface(o)' =>
                               dp'[VppKey(objects'[o].key)].complete = objects'[o].complete
    BY <1>4 DEF VppOK
  <2>1. /\ \A o, p \in DOMAIN objects : objects[o].key.sid = objects[p].key.sid => o = p
        /\ \A o \in DOMAIN objects : HasInterface(o) => Forwards(o)
        /\ \A k \in DOMAIN dp : ~dp[k].old => Owned(k)
        /\ "bare" \notin mishaps =>
              \A o \in DOMAIN objects : HasInterface(o) => dp[key(o)].complete = objects[o].complete
    BY <1>1 DEF VppOK, key
  <2>2. \A o, p \in DOMAIN objects : key(o) = key(p) => o = p
    BY <2>1, VppKeyTells DEF key
  <2>3. ASSUME NEW o \in DOMAIN objects', HasInterface(o)'
        PROVE  /\ HasInterface(o) /\ Forwards(o) /\ key(o) \in DOMAIN dp'
               /\ VppKey(objects'[o].key) = key(o)
    <3>1. HasInterface(o) /\ Forwards(o) /\ o \notin gone
      BY <1>1, <2>1, <2>3 DEF HasInterface, gone
    <3>2. \A g \in gone : key(g) # key(o)
      BY <2>2, <3>1 DEF gone, HasInterface
    <3> QED
      BY <1>1, <2>3, <3>1, <3>2 DEF Forwards, key
  <2>4. ASSUME NEW o \in DOMAIN objects', HasInterface(o)' PROVE Forwards(o)'
    BY <1>1, <1>2, <2>3, <2>4 DEF Forwards, key
  <2>5. ASSUME NEW k \in DOMAIN dp', ~dp'[k].old PROVE Owned(k)'
    <3>1. PICK o \in DOMAIN objects : key(o) = k /\ HasInterface(o)
      BY <1>2, <2>1, <2>5 DEF Owned, key
    <3>2. o \notin gone
      BY <1>1, <2>1, <3>1 DEF Forwards
    <3> QED
      BY <1>1, <3>1, <3>2 DEF Owned, HasInterface, gone, key
  <2>6. ASSUME "bare" \notin mishaps', NEW o \in DOMAIN objects', HasInterface(o)'
        PROVE  dp'[VppKey(objects'[o].key)].complete = objects'[o].complete
    <3>1. dp[key(o)].complete = objects[o].complete
      BY <1>1, <2>1, <2>3, <2>6
    <3>2. \A g \in gone : objects[g].ifindex \notin {Unset, dp[key(o)].ifindex}
      <4> SUFFICES ASSUME NEW g \in gone, objects[g].ifindex = dp[key(o)].ifindex PROVE FALSE
        BY <1>1, <2>6
      <4>1. HasInterface(g) /\ Forwards(g) /\ g \in DOMAIN objects
        BY <1>1, <2>1, <2>6 DEF HasInterface, gone
      <4>2. key(g) = key(o)
        BY <2>3, <2>6, <4>1 DEF Forwards, IfIndexOK, key
      <4>3. o \notin gone /\ o \in DOMAIN objects
        BY <1>1 DEF gone
      <4> QED
        BY <2>2, <4>1, <4>2, <4>3
    <3>3. dp[key(o)].complete \in BOOLEAN
      BY <2>3, <2>6 DEF TypeOK, Interface, Forwards, key
    <3> QED
      BY <1>1, <1>2, <2>3, <2>6, <3>1, <3>2, <3>3
  <2> QED
    BY <1>1, <2>1, <2>4, <2>5, <2>6
<1> QED
  BY <1>3, <1>4

LEMMA PadrKeepsVpp ==
    ASSUME TypeOK, VppOK, IfIndexOK, NEW o \in Objects \ DOMAIN objects, NEW key \in Key, Opened(o, key)
    PROVE  VppOK' /\ IfIndexOK'
<1>1. IfIndexOK'
  BY DEF Opened, IfIndexOK
<1>2. SUFFICES ASSUME daemon = "runs", "conflict" \notin mishaps' PROVE VppOK'
  BY <1>1 DEF Opened, VppOK
<1>3. /\ "conflict" \notin mishaps /\ mishaps' = mishaps
      /\ \A p \in DOMAIN objects : objects[p].key.sid # key.sid
  BY <1>2 DEF Opened
<1>4. /\ objects'[o].key = key /\ objects'[o].ifindex = Unset
      /\ DOMAIN objects' = DOMAIN objects \cup {o} /\ dp' = dp
      /\ \A p \in DOMAIN objects : objects'[p] = objects[p]
  BY DEF Opened, NewSession
<1>5. /\ ~HasInterface(o)'
      /\ \A p \in DOMAIN objects : (HasInterface(p)' <=> HasInterface(p)) /\ (Forwards(p) => Forwards(p)')
  BY <1>4 DEF HasInterface, Forwards
<1>6. ASSUME NEW k, Owned(k) PROVE Owned(k)'
  BY <1>4, <1>5, <1>6 DEF Owned
<1> QED
  BY <1>2, <1>3, <1>4, <1>5, <1>6 DEF VppOK

LEMMA ProvisionKeepsVpp ==
    ASSUME TypeOK, VppOK, IfIndexOK, UNCHANGED daemon, NEW o \in DOMAIN objects,
           NEW known \in BOOLEAN, NEW added \in BOOLEAN, NEW complete \in BOOLEAN,
           NEW ifindex \in IfIndex, ProvisionDp(o, known, added, ifindex, complete)
    PROVE  VppOK' /\ IfIndexOK'
<1> DEFINE k == VppKey(objects[o].key)
           entry == [ifindex |-> ifindex, complete |-> complete, old |-> FALSE]
<1>1. /\ DOMAIN objects' = DOMAIN objects
      /\ \A p \in DOMAIN objects : p # o => objects'[p] = objects[p]
      /\ objects'[o].key = objects[o].key /\ objects'[o].vrfKnown = known
      /\ objects'[o].ifindex = IF added THEN ifindex ELSE objects[o].ifindex
      /\ objects'[o].complete = IF added THEN complete ELSE objects[o].complete
  BY DEF ProvisionDp, Provisioned, TypeOK, Session
<1>2. ifindex # Unset
  BY DEF IfIndex, Unset
<1>3. mishaps \subseteq mishaps' /\ (~known /\ objects[o].ifindex # Unset => "conflict" \in mishaps')
  BY DEF ProvisionDp
<1>4. CASE added
  <2>1. /\ known /\ k \notin DOMAIN dp /\ FreeIfIndex(ifindex)
        /\ DOMAIN dp' = DOMAIN dp \cup {k} /\ dp'[k] = entry
        /\ \A j \in DOMAIN dp : dp'[j] = dp[j]
    BY <1>4 DEF ProvisionDp
  <2>2. IfIndexOK'
    BY <2>1 DEF IfIndexOK, FreeIfIndex
  <2> SUFFICES ASSUME daemon = "runs", "conflict" \notin mishaps' PROVE VppOK'
    BY <2>2 DEF VppOK
  <2>3. /\ \A p, q \in DOMAIN objects : objects[p].key.sid = objects[q].key.sid => p = q
        /\ \A p \in DOMAIN objects : HasInterface(p) => Forwards(p)
        /\ \A j \in DOMAIN dp : ~dp[j].old => Owned(j)
        /\ "bare" \notin mishaps =>
              \A p \in DOMAIN objects : HasInterface(p) =>
                  dp[VppKey(objects[p].key)].complete = objects[p].complete
    BY <1>3 DEF VppOK
  <2>4. \A p \in DOMAIN objects : p # o => VppKey(objects[p].key) # k
    BY <2>3, VppKeyTells
  <2>5. HasInterface(o)' /\ Forwards(o)'
    BY <1>1, <1>2, <1>4, <2>1 DEF HasInterface, Forwards
  <2>6. ASSUME NEW p \in DOMAIN objects, p # o
        PROVE  (HasInterface(p)' <=> HasInterface(p)) /\ (Forwards(p) => Forwards(p)')
    BY <1>1, <2>1, <2>6 DEF HasInterface, Forwards
  <2>7. ASSUME NEW j, Owned(j) PROVE Owned(j)'
    BY <1>1, <2>5, <2>6, <2>7 DEF Owned
  <2>8. ASSUME NEW j, j = k PROVE Owned(j)'
    BY <1>1, <2>5, <2>8 DEF Owned
  <2>9. ASSUME "bare" \notin mishaps', NEW p \in DOMAIN objects', HasInterface(p)'
        PROVE  dp'[VppKey(objects'[p].key)].complete = objects'[p].complete
    <3>1. CASE p = o
      BY <1>1, <1>4, <2>1, <3>1
    <3>2. CASE p # o
      BY <1>1, <1>3, <2>1, <2>3, <2>6, <2>9, <3>2 DEF Forwards
    <3> QED
      BY <3>1, <3>2
  <2>10. \A p, q \in DOMAIN objects' : objects'[p].key.sid = objects'[q].key.sid => p = q
    BY <1>1, <2>3
  <2>11. \A p \in DOMAIN objects' : HasInterface(p)' => Forwards(p)'
    BY <1>1, <2>3, <2>5, <2>6
  <2>12. ASSUME NEW j \in DOMAIN dp', ~dp'[j].old PROVE Owned(j)'
    <3>1. CASE j = k
      BY <2>8, <3>1
    <3>2. CASE j # k
      <4>1. j \in DOMAIN dp /\ ~dp[j].old
        BY <2>1, <2>12, <3>2
      <4> QED
        BY <2>3, <2>7, <4>1
    <3> QED
      BY <3>1, <3>2
  <2> QED
    BY <2>9, <2>10, <2>11, <2>12 DEF VppOK
<1>5. CASE ~added
  <2>1. dp' = dp
    BY <1>5 DEF ProvisionDp
  <2>2. IfIndexOK'
    BY <2>1 DEF IfIndexOK
  <2> SUFFICES ASSUME daemon = "runs", "conflict" \notin mishaps' PROVE VppOK'
    BY <2>2 DEF VppOK
  <2>3. known \/ objects[o].ifindex = Unset
    BY <1>3
  <2>4. ASSUME NEW p \in DOMAIN objects
        PROVE  /\ HasInterface(p)' <=> HasInterface(p)
               /\ HasInterface(p) /\ Forwards(p) => Forwards(p)'
               /\ objects'[p].key = objects[p].key /\ objects'[p].complete = objects[p].complete
    BY <1>1, <1>5, <2>1, <2>3 DEF HasInterface, Forwards
  <2>5. ASSUME NEW j, Owned(j) PROVE Owned(j)'
    BY <1>1, <2>4, <2>5 DEF Owned
  <2>6. /\ \A p, q \in DOMAIN objects : objects[p].key.sid = objects[q].key.sid => p = q
        /\ \A p \in DOMAIN objects : HasInterface(p) => Forwards(p)
        /\ \A j \in DOMAIN dp : ~dp[j].old => Owned(j)
        /\ "bare" \notin mishaps =>
              \A p \in DOMAIN objects : HasInterface(p) =>
                  dp[VppKey(objects[p].key)].complete = objects[p].complete
    BY <1>3 DEF VppOK
  <2>7. "bare" \notin mishaps' => "bare" \notin mishaps
    BY <1>3
  <2>8. \A p, q \in DOMAIN objects' : objects'[p].key.sid = objects'[q].key.sid => p = q
    BY <1>1, <2>6
  <2>9. \A p \in DOMAIN objects' : HasInterface(p)' => Forwards(p)'
    BY <1>1, <2>4, <2>6
  <2>10. \A j \in DOMAIN dp' : ~dp'[j].old => Owned(j)'
    BY <2>1, <2>5, <2>6
  <2>11. ASSUME "bare" \notin mishaps', NEW p \in DOMAIN objects', HasInterface(p)'
         PROVE  dp'[VppKey(objects'[p].key)].complete = objects'[p].complete
    BY <1>1, <2>1, <2>4, <2>6, <2>7, <2>11
  <2> QED
    BY <2>8, <2>9, <2>10, <2>11 DEF VppOK
<1> QED
  BY <1>4, <1>5

LEMMA VppStep == Typed /\ VppOK /\ IfIndexOK /\ [Next]_vars => VppOK' /\ IfIndexOK'
<1> SUFFICES ASSUME TypeOK, VppOK, IfIndexOK, [Next]_vars PROVE VppOK' /\ IfIndexOK'
  BY DEF Typed
<1>0. \A o \in DOMAIN objects : objects[o] \in Session
  BY DEF TypeOK
<1>1. ASSUME NEW encap \in Encaps, NEW id \in Sid, ReceivePadr(encap, id) PROVE VppOK' /\ IfIndexOK'
  BY <1>1, PadrIs, PadrKeepsVpp
<1>2. ASSUME NEW id \in Sid, NEW objs, Same(objs), Deallocate(id, objs), UNCHANGED daemon
      PROVE  VppOK' /\ IfIndexOK'
  <2>1. PICK final : Unfiled(final, objs, id) /\ Settle(final)
    BY <1>2, DeallocateIs
  <2>2. /\ DOMAIN final = DOMAIN objects
        /\ \A o \in DOMAIN objects :
              /\ final[o].key = objects[o].key /\ final[o].ifindex = objects[o].ifindex
              /\ final[o].vrfKnown = objects[o].vrfKnown
              /\ final[o].complete = objects[o].complete
    BY <1>2, <2>1 DEF Unfiled, Same
  <2> QED
    BY <1>2, <2>1, <2>2, EndKeepsVpp
<1>3. ASSUME NEW id \in Sid, SessionDown(id) PROVE VppOK' /\ IfIndexOK'
  BY <1>2, <1>3, SameObjects DEF SessionDown
<1>4. ASSUME NEW o \in DOMAIN objects, AuthRequest(o) PROVE VppOK' /\ IfIndexOK'
  BY <1>4, VppUntouched DEF AuthRequest
<1>5. ASSUME NEW o \in DOMAIN objects, IpcpUp(o) PROVE VppOK' /\ IfIndexOK'
  BY <1>5, ProvisionKeepsVpp DEF IpcpUp
<1>6. ASSUME NEW o \in DOMAIN objects, EchoReply(o) PROVE VppOK' /\ IfIndexOK'
  BY <1>0, <1>6, VppUntouched DEF EchoReply, Session
<1>7. ASSUME NEW r \in requests, RadiusAnswer(r) PROVE VppOK' /\ IfIndexOK'
  <2>1. PICK a \in AaaId : \/ objects' = objects
                           \/ objects' = [objects EXCEPT ![r.object].aaa = a]
    BY <1>7 DEF RadiusAnswer
  <2>2. UNCHANGED <<daemon, dp>> /\ mishaps \subseteq mishaps'
    BY <1>7 DEF RadiusAnswer
  <2>3. /\ DOMAIN objects' = DOMAIN objects
        /\ \A o \in DOMAIN objects :
              /\ objects'[o].key = objects[o].key /\ objects'[o].ifindex = objects[o].ifindex
              /\ objects'[o].vrfKnown = objects[o].vrfKnown
              /\ objects'[o].complete = objects[o].complete
    BY <1>0, <2>1 DEF Session
  <2> QED
    BY <2>2, <2>3, VppUntouched
<1>8. ASSUME NEW r \in requests, RadiusError(r) PROVE VppOK' /\ IfIndexOK'
  BY <1>8, VppUntouched DEF RadiusError
<1>9. ASSUME NEW o \in DOMAIN objects, EchoTimer(o) PROVE VppOK' /\ IfIndexOK'
  <2>1. CASE objects[o].misses < MaxEcho
    <3>1. /\ objects' = [objects EXCEPT ![o].misses = @ + 1]
          /\ UNCHANGED <<daemon, dp, mishaps>>
      BY <1>9, <2>1 DEF EchoTimer
    <3> QED
      BY <1>0, <3>1, VppUntouched DEF Session
  <2>2. CASE ~(objects[o].misses < MaxEcho)
    <3>1. /\ Deallocate(objects[o].key.sid, [objects EXCEPT ![o] = GivenUp(objects[o])])
          /\ UNCHANGED daemon
      BY <1>9, <2>2 DEF EchoTimer
    <3>2. objects[o].key.sid \in Sid
      BY <1>0 DEF Session, Key
    <3> QED
      BY <1>2, <3>1, <3>2, SameWithoutTimer
  <2> QED
    BY <2>1, <2>2
<1>10. CASE Exit
  <2> DEFINE final == [o \in DOMAIN objects |-> [objects[o] EXCEPT !.filed = FALSE]]
  <2>1. Settle(final) /\ daemon' = "exited"
    BY <1>10 DEF Exit
  <2>2. /\ DOMAIN final = DOMAIN objects
        /\ \A o \in DOMAIN objects :
              /\ final[o].key = objects[o].key /\ final[o].ifindex = objects[o].ifindex
              /\ final[o].vrfKnown = objects[o].vrfKnown
              /\ final[o].complete = objects[o].complete
    BY <1>0 DEF Session
  <2> HIDE DEF final
  <2>3. IfIndexOK'
    BY <2>1, <2>2, EndKeepsVpp
  <2> QED
    BY <2>1, <2>3 DEF VppOK
<1>11. CASE Crash
  BY <1>11 DEF Crash, VppOK, IfIndexOK
<1>12. CASE Start
  <2>1. /\ DOMAIN dp' = DOMAIN dp /\ DOMAIN objects' = {}
        /\ \A k \in DOMAIN dp : dp'[k].old /\ dp'[k].ifindex = dp[k].ifindex
    BY <1>12 DEF Start, Nothing, TypeOK, Interface
  <2> QED
    BY <2>1 DEF VppOK, IfIndexOK
<1>13. CASE UNCHANGED vars
  BY <1>13, VppUntouched DEF vars, subscriberVars
<1> QED
  BY <1>1, <1>3, <1>4, <1>5, <1>6, <1>7, <1>8, <1>9, <1>10, <1>11, <1>12, <1>13
     DEF Next, Handlers, Timers

LEMMA VppInitially == Init => VppOK /\ IfIndexOK
BY DEF Init, Nothing, VppOK, IfIndexOK

\* VPP forwards for exactly the objects that have an interface, unless an id was
\* given out twice or a later VRF is unknown.
THEOREM DataplaneInStep == Spec => []DataplaneAgrees
<1>1. VppOK => DataplaneAgrees
  BY DEF VppOK, DataplaneAgrees, Without, HasInterface, Forwards, Owned
<1> QED
  BY TypedInitially, TypedStep, VppInitially, VppStep, <1>1, PTL DEF Spec

\* Nobody's VRF or unnumbered interface is taken away, unless an object without
\* an interface is destroyed.
THEOREM SettingsStay == Spec => []SettingsKept
<1>1. VppOK => SettingsKept
  BY DEF VppOK, SettingsKept, Without, HasInterface
<1> QED
  BY TypedInitially, TypedStep, VppInitially, VppStep, <1>1, PTL DEF Spec

-----------------------------------------------------------------------------
(* Refinement: the session objects implement SessionTable. *)

\* The line whose object has each id.
Lines(filed, objs) ==
    [id \in {objs[o].key.sid : o \in filed} |->
        objs[CHOOSE o \in filed : objs[o].key.sid = id].key.encap]

Owner == Lines(Filed, objects)

Table == INSTANCE SessionTable WITH owner <- Owner

LEMMA LinesAre ==
    ASSUME NEW filed, NEW objs, \A o, p \in filed : objs[o].key.sid = objs[p].key.sid => o = p,
           NEW o \in filed
    PROVE  Lines(filed, objs)[objs[o].key.sid] = objs[o].key.encap
<1>1. (CHOOSE p \in filed : objs[p].key.sid = objs[o].key.sid) = o
  OBVIOUS
<1> QED
  BY <1>1 DEF Lines

\* The maps of two states, place by place.
LEMMA SameLines ==
    ASSUME NEW filed, NEW objs, NEW old, NEW was,
           \A o, p \in filed : objs[o].key.sid = objs[p].key.sid => o = p,
           \A o, p \in old : was[o].key.sid = was[p].key.sid => o = p,
           NEW o \in filed \cap old, objs[o].key = was[o].key
    PROVE  Lines(filed, objs)[objs[o].key.sid] = Lines(old, was)[objs[o].key.sid]
BY LinesAre

LEMMA StaysFiled ==
    ASSUME TypeOK, TypeOK', Filed' = Filed, \A o \in Filed : objects'[o].key = objects[o].key
    PROVE  Owner' = Owner
<1>1. /\ \A o, p \in Filed : objects[o].key.sid = objects[p].key.sid => o = p
      /\ \A o, p \in Filed : objects'[o].key.sid = objects'[p].key.sid => o = p
  BY DEF TypeOK, ObjectsFiled
<1>2. {objects'[o].key.sid : o \in Filed} = {objects[o].key.sid : o \in Filed}
  OBVIOUS
<1>3. ASSUME NEW id \in {objects[o].key.sid : o \in Filed}
      PROVE  Lines(Filed, objects')[id] = Lines(Filed, objects)[id]
  BY <1>1, SameLines
<1>4. Lines(Filed, objects') = [id \in {objects[o].key.sid : o \in Filed} |-> Lines(Filed, objects')[id]]
  BY <1>2 DEF Lines
<1>5. Lines(Filed, objects) = [id \in {objects[o].key.sid : o \in Filed} |-> Lines(Filed, objects)[id]]
  BY DEF Lines
<1>6. Lines(Filed, objects') = Lines(Filed, objects)
  BY <1>3, <1>4, <1>5
<1> QED
  BY <1>6 DEF Owner

LEMMA FiledOpens ==
    ASSUME TypeOK, TypeOK', NEW o, o \notin Filed, Filed' = Filed \cup {o}, objects'[o].key \in Key,
           \A p \in Filed : objects'[p].key = objects[p].key
    PROVE  Table!Next
<1> DEFINE key == objects'[o].key
           now == Lines(Filed', objects')
           old == Lines(Filed, objects)
           ids == {objects[p].key.sid : p \in Filed}
<1>1. /\ \A p, q \in Filed : objects[p].key.sid = objects[q].key.sid => p = q
      /\ \A p, q \in Filed' : objects'[p].key.sid = objects'[q].key.sid => p = q
  BY DEF TypeOK, ObjectsFiled
<1>2. key.sid \notin ids /\ {objects'[p].key.sid : p \in Filed'} = ids \cup {key.sid}
  BY <1>1
<1>3. DOMAIN old = ids /\ now = [id \in ids \cup {key.sid} |-> now[id]]
  BY <1>2 DEF Lines
<1>4. now[key.sid] = key.encap
  BY <1>1, LinesAre
<1>5. ASSUME NEW id \in ids PROVE now[id] = old[id]
  <2>1. PICK p \in Filed : id = objects[p].key.sid
    OBVIOUS
  <2> HIDE DEF now, old, ids
  <2>2. p \in Filed' \cap Filed /\ objects'[p].key = objects[p].key
    OBVIOUS
  <2> QED
    BY <1>1, <2>1, <2>2, SameLines DEF now, old
<1> HIDE DEF now, old, ids
<1>6. now = [id \in DOMAIN old \cup {key.sid} |-> IF id = key.sid THEN key.encap ELSE old[id]]
  BY <1>3, <1>4, <1>5
<1>7. key.encap \in Encaps /\ key.sid \in Sid
  BY DEF Key
<1>8. Table!Open(key.encap, key.sid)
  BY <1>2, <1>3, <1>6 DEF Table!Open, Owner, now, old
<1> QED
  BY <1>7, <1>8 DEF Table!Next, Table!Sid, Sid

LEMMA FiledCloses ==
    ASSUME TypeOK, TypeOK', NEW id \in Sid, Filed' = {o \in Filed : objects[o].key.sid # id},
           \A o \in Filed' : objects'[o].key = objects[o].key
    PROVE  [Table!Next]_Owner
<1> DEFINE now == Lines(Filed', objects')
           old == Lines(Filed, objects)
           ids == {objects[o].key.sid : o \in Filed}
<1>1. /\ \A o, p \in Filed : objects[o].key.sid = objects[p].key.sid => o = p
      /\ \A o, p \in Filed' : objects'[o].key.sid = objects'[p].key.sid => o = p
  BY DEF TypeOK, ObjectsFiled
<1>2. CASE id \in ids
  <2>1. {objects'[o].key.sid : o \in Filed'} = ids \ {id}
    OBVIOUS
  <2>2. DOMAIN old = ids /\ now = [t \in ids \ {id} |-> now[t]]
    BY <2>1 DEF Lines
  <2>3. ASSUME NEW t \in ids \ {id} PROVE now[t] = old[t]
    <3>1. PICK o \in Filed : t = objects[o].key.sid
      OBVIOUS
    <3> HIDE DEF now, old, ids
    <3>2. o \in Filed' \cap Filed /\ objects'[o].key = objects[o].key
      BY <2>3, <3>1
    <3> QED
      BY <1>1, <3>1, <3>2, SameLines DEF now, old
  <2> HIDE DEF now, old, ids
  <2>4. now = [t \in DOMAIN old \ {id} |-> old[t]]
    BY <2>2, <2>3
  <2>5. Table!Close(id)
    BY <1>2, <2>2, <2>4 DEF Table!Close, Owner, now, old
  <2> QED
    BY <2>5 DEF Table!Next, Table!Sid, Sid
<1>3. CASE id \notin ids
  <2>1. Filed' = Filed
    BY <1>3
  <2> QED
    BY <2>1, StaysFiled
<1> QED
  BY <1>2, <1>3

LEMMA TableStep == Typed /\ Typed' /\ [Next]_vars => [Table!Next]_Owner
<1> SUFFICES ASSUME Typed, Typed', [Next]_vars PROVE [Table!Next]_Owner
  OBVIOUS
<1>0. TypeOK /\ TypeOK'
  BY DEF Typed
<1>1. CASE Quiet
  <2>1. \A o \in Filed : objects'[o].key = objects[o].key
    BY <1>1 DEF Quiet
  <2>2. CASE Filed' = Filed
    BY <1>0, <2>1, <2>2, StaysFiled
  <2>3. CASE Filed' # Filed
    <3>1. PICK o \in Filed' : o \notin Filed
      BY <1>1, <2>3 DEF Quiet
    <3>2. Filed' = Filed \cup {o} /\ objects'[o].key \in Key
      BY <1>1, <3>1 DEF Quiet
    <3> QED
      BY <1>0, <2>1, <3>1, <3>2, FiledOpens
  <2> QED
    BY <2>2, <2>3
<1>2. CASE Empties
  <2>1. Owner' = [s \in {} |-> s]
    BY <1>2 DEF Empties, Owner, Lines
  <2> QED
    BY <2>1 DEF Table!Next, Table!Reset
<1>3. ASSUME NEW id \in Sid, Ends(id) PROVE [Table!Next]_Owner
  BY <1>0, <1>3, FiledCloses DEF Ends
<1>4. ASSUME NEW r \in requests, RadiusAnswer(r) PROVE [Table!Next]_Owner
  <2>1. PICK id \in AaaId \ DOMAIN aaaSessions : Answered(r, id)
    BY <1>0, <1>4, AnswerIs
  <2>2. Filed' = Filed /\ \A o \in Filed : objects'[o].key = objects[o].key
    BY <2>1 DEF Answered, Filed
  <2> QED
    BY <1>0, <2>2, StaysFiled
<1> QED
  BY <1>1, <1>2, <1>3, <1>4, BindingSteps

\* The session objects behave like the session table: whatever zombies, echo
\* timers, late answers, crashes and restarts do, an id is that of one line's
\* object, goes to another line only when free, and becomes free only by the end
\* of that object's session (allocateSession, deallocateSession, sendEchoReq).
THEOREM ObjectsImplementSessionTable == Spec => Table!Spec
<1>1. Init => Table!Init
  BY DEF Init, Nothing, Table!Init, Owner, Lines, Filed
<1> QED
  BY TypedInitially, TypedStep, TableStep, <1>1, PTL DEF Spec, Table!Spec
=============================================================================
