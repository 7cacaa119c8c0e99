-------------------------- MODULE AaaSessions_proofs --------------------------
(* Proofs about AaaSessions, for every pool, every set of framed addresses   *)
(* and any number of objects. TypeOK, UniqueLease and PoolMatchesLeases are  *)
(* inductive together with Origin, where each address came from: an address  *)
(* of the pool is free exactly when no object has leased it, and one RADIUS  *)
(* assigned is not of the pool, so a new lease meets no old address.         *)
EXTENDS AaaSessions, FiniteSetTheorems, TLAPS

\* An address that was not leased is one RADIUS assigned.
Origin == \A o \in DOMAIN objects : objects[o].free_ip \/ objects[o].address \in Framed

Leases == Origin /\ UniqueLease /\ PoolMatchesLeases
IInv == TypeOK /\ Leases

(* The operations on one object leave its lease alone. *)
SameLease(s, t) == s.address = t.address /\ s.free_ip = t.free_ip

\* What is written to an object is a session with the lease it had.
LEMMA NextSessions ==
    ASSUME NEW s \in Session
    PROVE  /\ Stopped(s) \in Session /\ SameLease(s, Stopped(s))
           /\ Interim(s) \in Session /\ SameLease(s, Interim(s))
           /\ \A kind \in Kind : Answered(s, kind) \in Session /\ SameLease(s, Answered(s, kind))
           /\ \A kind \in Kind : LET t == [s EXCEPT !.waiting = @ \ {kind}]
                                 IN  t \in Session /\ SameLease(s, t)
           /\ LET t == [s EXCEPT !.armed = FALSE, !.due = TRUE]
              IN  t \in Session /\ SameLease(s, t)
  BY DEF Session, Stopped, Interim, Answered, SameLease, Kind

\* Update keeps the types, whatever session the object becomes.
LEMMA UpdateTypes ==
    ASSUME TypeOK, NEW o \in DOMAIN objects, NEW session \in Session,
           NEW table, DOMAIN table \subseteq DOMAIN sessions,
           \A id \in DOMAIN table : table[id] = sessions[id],
           Update(o, session, table)
    PROVE  TypeOK'
<1>1. CASE Referenced(o, session, table)
  BY <1>1 DEF Update, TypeOK
<1>2. CASE ~Referenced(o, session, table)
  <2>1. \A id \in DOMAIN table : table[id] # o
    BY <1>2 DEF Referenced
  <2> QED
    BY <1>2, <2>1 DEF Update, TypeOK
<1> QED
  BY <1>1, <1>2

\* Update keeps the leases apart and the pool in step: either nothing about
\* leases changes or one object and its address go together.
LEMMA UpdateLeases ==
    ASSUME IInv, NEW o \in DOMAIN objects, NEW session \in Session,
           SameLease(objects[o], session), NEW table,
           Update(o, session, table)
    PROVE  Leases'
<1>0. Origin'
  BY DEF Update, SameLease, Origin, IInv, Leases, TypeOK
<1> SUFFICES ASSUME ~reloaded'
             PROVE  DistinctLeases' /\ PoolMatchesLeases'
  BY <1>0 DEF Leases, UniqueLease, PoolMatchesLeases
<1>1. ~reloaded /\ DistinctLeases
      /\ ips = {objects[p].address : p \in {q \in DOMAIN objects : Leased(q)}}
  BY DEF Update, IInv, Leases, UniqueLease, PoolMatchesLeases
<1>2. CASE Referenced(o, session, table)
  <2>1. /\ DOMAIN objects' = DOMAIN objects /\ ips' = ips
        /\ \A p \in DOMAIN objects : /\ objects'[p].address = objects[p].address
                                     /\ objects'[p].free_ip = objects[p].free_ip
    BY <1>2 DEF Update, SameLease, IInv, TypeOK
  <2> QED
    BY <1>1, <2>1 DEF DistinctLeases, PoolMatchesLeases, Leased
<1>3. CASE ~Referenced(o, session, table)
  <2>1. /\ DOMAIN objects' = DOMAIN objects \ {o}
        /\ \A p \in DOMAIN objects' : objects'[p] = objects[p]
        /\ ips' = IF objects[o].free_ip THEN ips \ {objects[o].address} ELSE ips
    BY <1>3 DEF Update, SameLease
  <2>2. DistinctLeases'
    BY <1>1, <2>1 DEF DistinctLeases, Leased
  <2>3. \A a : a \in ips' <=> \E p \in DOMAIN objects' : Leased(p)' /\ objects'[p].address = a
    <3>1. \A a : a \in ips <=> \E p \in DOMAIN objects : Leased(p) /\ objects[p].address = a
      BY <1>1
    <3>2. \A p \in DOMAIN objects' : Leased(p)' <=> Leased(p)
      BY <2>1 DEF Leased
    <3>3. \A p \in DOMAIN objects' : Leased(p) /\ Leased(o) => objects[p].address # objects[o].address
      BY <1>1, <2>1 DEF DistinctLeases
    <3>4. \A p \in DOMAIN objects' : Leased(p) => objects[p].address # 0
      BY DEF Leased
    <3>5. CASE Leased(o)
      BY <2>1, <3>1, <3>2, <3>3, <3>5 DEF Leased
    <3>6. CASE ~Leased(o)
      BY <2>1, <3>1, <3>2, <3>4, <3>6 DEF Leased
    <3> QED
      BY <3>5, <3>6
  <2> QED
    BY <2>2, <2>3 DEF PoolMatchesLeases
<1> QED
  BY <1>2, <1>3

\* A new object has the session it was made with, the others stay.
LEMMA EmplaceAdds ==
    ASSUME TypeOK, NEW id \in SessionId, NEW session \in Session, Emplace(id, session)
    PROVE  \E o \in Object \ DOMAIN objects :
              /\ DOMAIN objects' = DOMAIN objects \cup {o}
              /\ objects'[o] = session
              /\ \A p \in DOMAIN objects : objects'[p] = objects[p]
              /\ DOMAIN sessions' \subseteq SessionId
              /\ \A i \in DOMAIN sessions' : sessions'[i] \in DOMAIN objects'
              /\ reloaded' = reloaded
<1> DEFINE o == CHOOSE p \in Object : p \notin DOMAIN objects
<1>1. o \in Object \ DOMAIN objects
  BY DEF Emplace
<1> HIDE DEF o
<1>2. /\ objects' = [p \in DOMAIN objects \cup {o} |-> IF p = o THEN session ELSE objects[p]]
      /\ sessions' = [i \in DOMAIN sessions \cup {id} |-> IF i = id THEN o ELSE sessions[i]]
      /\ reloaded' = reloaded
  BY DEF Emplace, o
<1> QED
  BY <1>1, <1>2 DEF TypeOK

\* Leasing: the address is free, or 0 when every address is leased.
LEMMA LeaseKeeps ==
    ASSUME IInv, NEW id \in SessionId, NEW acct \in BOOLEAN, LeaseAddress(id, acct)
    PROVE  IInv'
<1>1. PICK address \in {0} \cup Pool :
         /\ AllocateIp(address)
         /\ ips' = ips \cup ({address} \ {0})
         /\ Emplace(id, NewSession(address, TRUE, acct))
  BY DEF LeaseAddress
<1> DEFINE session == NewSession(address, TRUE, acct)
<1>2. session \in Session /\ session.address = address /\ session.free_ip
  BY DEF NewSession, Session, Kind
<1> HIDE DEF session
<1>3. PICK o \in Object \ DOMAIN objects :
         /\ DOMAIN objects' = DOMAIN objects \cup {o}
         /\ objects'[o] = session
         /\ \A p \in DOMAIN objects : objects'[p] = objects[p]
         /\ DOMAIN sessions' \subseteq SessionId
         /\ \A i \in DOMAIN sessions' : sessions'[i] \in DOMAIN objects'
         /\ reloaded' = reloaded
  BY <1>1, <1>2, EmplaceAdds DEF IInv, session
<1>4. TypeOK'
  BY <1>1, <1>2, <1>3 DEF IInv, TypeOK
<1>5. address # 0 => address \notin ips
  BY <1>1 DEF AllocateIp, FreeIps
<1>6. ASSUME ~reloaded'
      PROVE  DistinctLeases' /\ PoolMatchesLeases'
  <2>1. /\ DistinctLeases
        /\ \A a : a \in ips <=> \E p \in DOMAIN objects : Leased(p) /\ objects[p].address = a
    BY <1>3, <1>6 DEF IInv, Leases, UniqueLease, PoolMatchesLeases
  <2>2. \A p \in DOMAIN objects : Leased(p)' <=> Leased(p)
    BY <1>3 DEF Leased
  <2>3. Leased(o)' <=> address # 0
    BY <1>2, <1>3 DEF Leased
  <2>4. DistinctLeases'
    <3> SUFFICES ASSUME NEW p \in DOMAIN objects', NEW q \in DOMAIN objects', p # q, Leased(p)'
                 PROVE  objects'[p].address # objects'[q].address
      BY DEF DistinctLeases
    <3>1. CASE p = o
      <4>1. q \in DOMAIN objects /\ address # 0 /\ objects'[p].address = address
        BY <1>2, <1>3, <2>3, <3>1
      <4>2. CASE Leased(q)
        BY <1>3, <1>5, <2>1, <4>1, <4>2
      <4>3. CASE ~Leased(q) /\ objects[q].address = 0
        BY <1>3, <4>1, <4>3
      <4>4. CASE ~objects[q].free_ip /\ objects[q].address # 0
        <5>1. objects[q].address \in Framed
          BY <4>1, <4>4 DEF IInv, Leases, Origin
        <5> QED
          BY <1>1, <1>3, <4>1, <5>1, PoolAssumption DEF Pool
      <4> QED
        BY <4>2, <4>3, <4>4 DEF Leased
    <3>2. CASE q = o
      BY <1>2, <1>3, <1>5, <2>1, <2>2, <3>2 DEF Leased
    <3>3. CASE p # o /\ q # o
      BY <1>3, <2>1, <2>2, <3>3 DEF DistinctLeases
    <3> QED
      BY <3>1, <3>2, <3>3
  <2>5. \A a : a \in ips' <=> \E p \in DOMAIN objects' : Leased(p)' /\ objects'[p].address = a
    BY <1>1, <1>2, <1>3, <2>1, <2>2, <2>3
  <2> QED
    BY <2>4, <2>5 DEF PoolMatchesLeases
<1>7. Origin'
  BY <1>2, <1>3 DEF Origin, IInv, Leases
<1> QED
  BY <1>4, <1>6, <1>7 DEF IInv, Leases, UniqueLease, PoolMatchesLeases

\* An address RADIUS assigned is not of the pool and leases nothing.
LEMMA FramedKeeps ==
    ASSUME IInv, NEW id \in SessionId, FramedAddress(id)
    PROVE  IInv'
<1>1. PICK address \in Framed :
         Emplace(id, NewSession(address, FALSE, TRUE)) /\ ips' = ips
  BY DEF FramedAddress
<1> DEFINE session == NewSession(address, FALSE, TRUE)
<1>2. /\ session \in Session /\ session.address = address /\ ~session.free_ip
      /\ Emplace(id, session)
  BY <1>1 DEF NewSession, Session, Kind
<1> HIDE DEF session
<1>3. PICK o \in Object \ DOMAIN objects :
         /\ DOMAIN objects' = DOMAIN objects \cup {o}
         /\ objects'[o] = session
         /\ \A p \in DOMAIN objects : objects'[p] = objects[p]
         /\ DOMAIN sessions' \subseteq SessionId
         /\ \A i \in DOMAIN sessions' : sessions'[i] \in DOMAIN objects'
         /\ reloaded' = reloaded
  BY <1>2, EmplaceAdds DEF IInv
<1>4. TypeOK'
  BY <1>1, <1>2, <1>3 DEF IInv, TypeOK
<1>5. Origin'
  BY <1>2, <1>3 DEF Origin, IInv, Leases
<1>6. ASSUME ~reloaded'
      PROVE  DistinctLeases' /\ PoolMatchesLeases'
  <2>1. /\ DistinctLeases
        /\ \A a : a \in ips <=> \E p \in DOMAIN objects : Leased(p) /\ objects[p].address = a
    BY <1>3, <1>6 DEF IInv, Leases, UniqueLease, PoolMatchesLeases
  <2>2. (\A p \in DOMAIN objects : Leased(p)' <=> Leased(p)) /\ ~Leased(o)'
    BY <1>2, <1>3 DEF Leased
  <2>3. \A p \in DOMAIN objects : Leased(p) => objects[p].address # address
    BY <2>1, PoolAssumption DEF IInv, TypeOK, Pool
  <2>4. DistinctLeases'
    BY <1>2, <1>3, <2>1, <2>2, <2>3 DEF DistinctLeases
  <2>5. \A a : a \in ips' <=> \E p \in DOMAIN objects' : Leased(p)' /\ objects'[p].address = a
    BY <1>1, <1>3, <2>1, <2>2
  <2> QED
    BY <2>4, <2>5 DEF PoolMatchesLeases
<1> QED
  BY <1>4, <1>5, <1>6 DEF IInv, Leases, UniqueLease, PoolMatchesLeases

\* Every step keeps the invariant.
LEMMA NextKeeps == IInv /\ [Next]_vars => IInv'
<1> SUFFICES ASSUME IInv, [Next]_vars PROVE IInv'
  OBVIOUS
<1>1. ASSUME NEW o \in DOMAIN objects, NEW session \in Session, SameLease(objects[o], session),
             Update(o, session, sessions)
      PROVE  IInv'
  BY <1>1, UpdateTypes, UpdateLeases DEF IInv
<1>2. ASSUME NEW id \in SessionId, StartSessionNone(id) \/ ProcessRadiusAnswer(id)
      PROVE  IInv'
  BY <1>2, LeaseKeeps, FramedKeeps DEF StartSessionNone, ProcessRadiusAnswer
<1>3. ASSUME NEW id \in SessionId, StopSession(id)
      PROVE  IInv'
  <2> DEFINE o == sessions[id]
  <2>1. o \in DOMAIN objects /\ objects[o] \in Session
    BY <1>3 DEF StopSession, IInv, TypeOK
  <2>2. Update(o, Stopped(objects[o]), Without(id))
    BY <1>3 DEF StopSession
  <2>3. /\ DOMAIN Without(id) \subseteq DOMAIN sessions
        /\ \A i \in DOMAIN Without(id) : Without(id)[i] = sessions[i]
    BY DEF Without
  <2>4. Stopped(objects[o]) \in Session /\ SameLease(objects[o], Stopped(objects[o]))
    BY <2>1, NextSessions
  <2> QED
    BY <2>1, <2>2, <2>3, <2>4, UpdateTypes, UpdateLeases DEF IInv
<1>4. ASSUME NEW o \in Object, NEW kind \in Kind, AcctAnswer(o, kind) \/ AcctFailure(o, kind)
      PROVE  IInv'
  <2>1. o \in DOMAIN objects /\ objects[o] \in Session
    BY <1>4 DEF AcctAnswer, AcctFailure, IInv, TypeOK
  <2> QED
    BY <1>1, <1>4, <2>1, NextSessions DEF AcctAnswer, AcctFailure
<1>5. ASSUME NEW o \in Object, InterimExpires(o) \/ OnInterim(o)
      PROVE  IInv'
  <2>1. o \in DOMAIN objects /\ objects[o] \in Session
    BY <1>5 DEF InterimExpires, OnInterim, IInv, TypeOK
  <2> QED
    BY <1>1, <1>5, <2>1, NextSessions DEF InterimExpires, OnInterim
<1>6. CASE ReloadConfig
  BY <1>6 DEF ReloadConfig, IInv, TypeOK, Leases, Origin, UniqueLease, PoolMatchesLeases
<1>7. CASE Restart
  BY <1>7 DEF Restart, Nothing, IInv, TypeOK, Leases, Origin, UniqueLease, DistinctLeases, PoolMatchesLeases
<1>8. CASE UNCHANGED vars
  BY <1>8 DEF vars, IInv, TypeOK, Leases, Origin, UniqueLease, DistinctLeases, Leased,
              PoolMatchesLeases
<1> QED
  BY <1>2, <1>3, <1>4, <1>5, <1>6, <1>7, <1>8 DEF Next, Results

LEMMA Invariance == Spec => []IInv
<1>1. Init => IInv
  BY DEF Init, Nothing, IInv, TypeOK, Leases, Origin, UniqueLease, DistinctLeases, PoolMatchesLeases
<1> QED
  BY <1>1, NextKeeps, PTL DEF Spec

-------------------------------------------------------------------------------

\* The types hold: every object named by the sessions map exists, every lease is
\* one of the pool (AAA, AAA_Session).
THEOREM TypeCorrect == Spec => []TypeOK
  BY Invariance, PTL DEF IInv

\* No two AAA sessions ever share an address of the pool while the configuration
\* is not reloaded (allocate_ip, deallocate_ip in ~AAA_Session).
THEOREM LeasesAreUnique == Spec => []UniqueLease
  BY Invariance, PTL DEF IInv, Leases

\* No address is lost or freed early (free_ip, ~AAA_Session).
THEOREM PoolInStep == Spec => []PoolMatchesLeases
  BY Invariance, PTL DEF IInv, Leases

\* A subscriber goes without an address only when every address of the pool is
\* somebody's (allocate_ip).
THEOREM OutOfAddressesMeansFull == Spec => NoAddressOnlyWhenFull
<1> DEFINE Full == \A a \in Pool : \E p \in DOMAIN objects : objects[p].address = a
           Denied == \E o \in DOMAIN objects' \ DOMAIN objects :
                        objects'[o].address = 0 /\ ~reloaded
<1>1. ASSUME IInv, [Next]_vars, Denied
      PROVE  Full
  <2>1. PICK o \in DOMAIN objects' \ DOMAIN objects : objects'[o].address = 0 /\ ~reloaded
    BY <1>1
  <2>2. ASSUME NEW id \in SessionId, NEW acct \in BOOLEAN, LeaseAddress(id, acct)
        PROVE  Full
    <3>1. PICK address \in {0} \cup Pool :
             AllocateIp(address) /\ Emplace(id, NewSession(address, TRUE, acct))
      BY <2>2 DEF LeaseAddress
    <3>2. address = 0
      BY <2>1, <3>1 DEF Emplace, NewSession
    <3>3. Pool \subseteq ips
      BY <3>1, <3>2, PoolAssumption DEF AllocateIp, FreeIps, Pool
    <3> QED
      BY <1>1, <2>1, <3>3 DEF IInv, Leases, PoolMatchesLeases
  <2>3. ASSUME NEW id \in SessionId, FramedAddress(id)
        PROVE  FALSE
    <3>1. PICK address \in Framed : Emplace(id, NewSession(address, FALSE, TRUE))
      BY <2>3 DEF FramedAddress
    <3>2. address = 0
      BY <2>1, <3>1 DEF Emplace, NewSession
    <3> QED
      BY <3>2, PoolAssumption
  <2>4. ASSUME NEW p, NEW session, NEW table, Update(p, session, table)
        PROVE  FALSE
    BY <2>1, <2>4 DEF Update, IInv, TypeOK
  <2>5. CASE \E id \in SessionId : StartSessionNone(id) \/ ProcessRadiusAnswer(id)
    BY <2>2, <2>3, <2>5 DEF StartSessionNone, ProcessRadiusAnswer
  <2>6. CASE \E id \in SessionId : StopSession(id)
    BY <2>4, <2>6 DEF StopSession
  <2>7. CASE \E p \in Object : Results(p) \/ InterimExpires(p) \/ OnInterim(p)
    BY <2>4, <2>7 DEF Results, AcctAnswer, AcctFailure, InterimExpires, OnInterim
  <2>8. CASE ReloadConfig \/ Restart \/ UNCHANGED vars
    BY <2>1, <2>8 DEF ReloadConfig, Restart, Nothing, vars
  <2> QED
    BY <1>1, <2>5, <2>6, <2>7, <2>8 DEF Next
<1>2. IInv /\ [Next]_vars =>
        [\A o \in DOMAIN objects' \ DOMAIN objects :
            objects'[o].address = 0 /\ ~reloaded => Full]_vars
  BY <1>1
<1> QED
  BY <1>2, Invariance, PTL DEF Spec, NoAddressOnlyWhenFull

-------------------------------------------------------------------------------
(* The accounting cycle. *)

Underway(s) == s.waiting \cap {"Start", "Alive"}

\* What OneUpdateCycle says of one session, as what excludes what.
OneCycle(s) ==
    /\ ~(s.armed /\ s.due)
    /\ s.armed \/ s.due => Underway(s) = {}
    /\ ~({"Start", "Alive"} \subseteq s.waiting)

CycleInv == TypeOK /\ \A o \in DOMAIN objects : OneCycle(objects[o])

LEMMA CycleCounts ==
    ASSUME NEW s \in Session, OneCycle(s)
    PROVE  Cardinality({c \in {"armed", "due"} : s[c]} \cup (s.waiting \cap {"Start", "Alive"})) <= 1
<1> DEFINE C == {c \in {"armed", "due"} : s[c]} \cup (s.waiting \cap {"Start", "Alive"})
<1>1. \A c : c \in C <=> \/ c = "armed" /\ s.armed
                         \/ c = "due" /\ s.due
                         \/ c \in Underway(s)
  BY DEF Underway
<1>2. C = {} \/ \E c : C = {c}
  <2>1. CASE s.armed
    <3>1. C = {"armed"}
      BY <1>1, <2>1 DEF OneCycle
    <3> QED
      BY <3>1
  <2>2. CASE s.due
    <3>1. C = {"due"}
      BY <1>1, <2>2 DEF OneCycle
    <3> QED
      BY <3>1
  <2>3. CASE ~s.armed /\ ~s.due
    <3>1. C = Underway(s)
      BY <1>1, <2>3
    <3>2. Underway(s) \in {{}, {"Start"}, {"Alive"}}
      BY DEF OneCycle, Underway
    <3> QED
      BY <3>1, <3>2
  <2> QED
    BY <2>1, <2>2, <2>3
<1> HIDE DEF C
<1>3. CASE C = {}
  <2>1. Cardinality(C) = 0
    BY <1>3, FS_EmptySet
  <2> QED
    BY <2>1 DEF C
<1>4. CASE \E c : C = {c}
  <2>1. Cardinality(C) = 1
    BY <1>4, FS_Singleton
  <2> QED
    BY <2>1 DEF C
<1> QED
  BY <1>2, <1>3, <1>4

\* The handlers pass the one token of the cycle on.
LEMMA CycleGoesRound ==
    ASSUME NEW s \in Session, OneCycle(s)
    PROVE  /\ OneCycle(Stopped(s))
           /\ s.due => OneCycle(Interim(s))
           /\ \A kind \in s.waiting : /\ OneCycle(Answered(s, kind))
                                     /\ OneCycle([s EXCEPT !.waiting = @ \ {kind}])
           /\ s.armed => OneCycle([s EXCEPT !.armed = FALSE, !.due = TRUE])
<1>1. OneCycle(Stopped(s))
  <2> DEFINE t == Stopped(s)
  <2>1. /\ t.armed = FALSE /\ t.due = s.due
        /\ t.waiting = IF s.acct THEN s.waiting \cup {"Stop"} ELSE s.waiting
    BY DEF Stopped, Session
  <2> QED
    BY <2>1 DEF OneCycle, Underway
<1>2. s.due => OneCycle(Interim(s))
  BY DEF OneCycle, Underway, Interim, Session
<1>3. ASSUME NEW kind \in s.waiting
      PROVE  OneCycle(Answered(s, kind))
  <2> DEFINE t == Answered(s, kind)
  <2>1. /\ t.waiting = s.waiting \ {kind} /\ t.due = s.due /\ t.armed = (kind # "Stop")
        /\ kind \in {"Start", "Alive", "Stop"}
    BY DEF Answered, Session, Kind
  <2>2. CASE kind = "Stop"
    BY <2>1, <2>2 DEF OneCycle, Underway
  <2>3. CASE kind # "Stop"
    <3>1. ~s.due /\ Underway(t) = {}
      BY <2>1, <2>3 DEF OneCycle, Underway
    <3> QED
      BY <2>1, <3>1 DEF OneCycle, Underway
  <2> QED
    BY <2>2, <2>3
<1>4. \A kind \in s.waiting : OneCycle([s EXCEPT !.waiting = @ \ {kind}])
  BY DEF OneCycle, Underway, Session
<1>5. s.armed => OneCycle([s EXCEPT !.armed = FALSE, !.due = TRUE])
  BY DEF OneCycle, Underway, Session
<1> QED
  BY <1>1, <1>2, <1>3, <1>4, <1>5

\* An object becomes another session or goes; the others stay.
LEMMA UpdateOne ==
    ASSUME TypeOK, NEW o \in DOMAIN objects, NEW session, NEW table, Update(o, session, table)
    PROVE  \A p \in DOMAIN objects' :
              p \in DOMAIN objects /\ objects'[p] = IF p = o THEN session ELSE objects[p]
  BY DEF Update

LEMMA NextCycle == IInv /\ CycleInv /\ [Next]_vars => CycleInv'
<1> SUFFICES ASSUME IInv, CycleInv, [Next]_vars, NEW p \in DOMAIN objects'
             PROVE  OneCycle(objects'[p])
  BY NextKeeps DEF CycleInv, IInv
<1>1. ASSUME NEW o \in DOMAIN objects, NEW session, NEW table, Update(o, session, table),
             OneCycle(session)
      PROVE  OneCycle(objects'[p])
  BY <1>1, UpdateOne DEF CycleInv
<1>2. ASSUME NEW id \in SessionId, NEW address \in {0} \cup Pool \cup Framed, NEW free_ip \in BOOLEAN,
             NEW acct \in BOOLEAN, Emplace(id, NewSession(address, free_ip, acct))
      PROVE  OneCycle(objects'[p])
  <2> DEFINE session == NewSession(address, free_ip, acct)
  <2>1. session \in Session
    BY DEF NewSession, Session, Kind
  <2>2. OneCycle(session)
    BY DEF OneCycle, Underway, NewSession
  <2>3. (p \in DOMAIN objects /\ objects'[p] = objects[p]) \/ objects'[p] = session
    BY <1>2, <2>1, EmplaceAdds DEF IInv
  <2> QED
    BY <2>2, <2>3 DEF CycleInv
<1>3. CASE \E id \in SessionId : StartSessionNone(id) \/ ProcessRadiusAnswer(id)
  <2>1. PICK id \in SessionId : \/ \E acct \in BOOLEAN : LeaseAddress(id, acct)
                                \/ FramedAddress(id)
    BY <1>3 DEF StartSessionNone, ProcessRadiusAnswer
  <2> QED
    BY <1>2, <2>1 DEF LeaseAddress, FramedAddress
<1>4. CASE \E id \in SessionId : StopSession(id)
  <2>1. PICK id \in SessionId : StopSession(id)
    BY <1>4
  <2>2. sessions[id] \in DOMAIN objects
    BY <2>1 DEF StopSession, CycleInv, TypeOK
  <2>3. objects[sessions[id]] \in Session /\ OneCycle(objects[sessions[id]])
    BY <2>2 DEF CycleInv, TypeOK
  <2> QED
    BY <1>1, <2>1, <2>2, <2>3, CycleGoesRound DEF StopSession
<1>5. CASE \E o \in Object : Results(o) \/ InterimExpires(o) \/ OnInterim(o)
  <2>1. PICK o \in Object : Results(o) \/ InterimExpires(o) \/ OnInterim(o)
    BY <1>5
  <2>2. o \in DOMAIN objects
    BY <2>1 DEF Results, AcctAnswer, AcctFailure, InterimExpires, OnInterim
  <2>3. objects[o] \in Session /\ OneCycle(objects[o])
    BY <2>2 DEF CycleInv, TypeOK
  <2>4. CASE Results(o)
    BY <1>1, <2>2, <2>3, <2>4, CycleGoesRound DEF Results, AcctAnswer, AcctFailure
  <2>5. CASE InterimExpires(o) \/ OnInterim(o)
    BY <1>1, <2>2, <2>3, <2>5, CycleGoesRound DEF InterimExpires, OnInterim
  <2> QED
    BY <2>1, <2>4, <2>5
<1>6. CASE ReloadConfig \/ Restart \/ UNCHANGED vars
  BY <1>6 DEF ReloadConfig, Restart, Nothing, vars, CycleInv
<1> QED
  BY <1>3, <1>4, <1>5, <1>6 DEF Next

\* A session never has two update cycles, whatever the order in which its
\* requests are answered, fail or it is stopped (on_started, on_interim,
\* on_interim_answer, stop).
THEOREM UpdatesDoNotMultiply == Spec => []OneUpdateCycle
<1>1. Init => CycleInv
  BY DEF Init, Nothing, CycleInv, TypeOK
<1>2. CycleInv => OneUpdateCycle
  BY CycleCounts DEF CycleInv, TypeOK, OneUpdateCycle
<1> QED
  BY <1>1, <1>2, NextCycle, Invariance, PTL DEF Spec
===============================================================================
