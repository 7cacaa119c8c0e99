----------------------- MODULE PppoeDiscovery_proofs ------------------------
(* Proofs about PppoeDiscovery and PppoeIdReuse, for every set of lines and  *)
(* cookies, every number of session ids and every bound on the timers.       *)
EXTENDS PppoeIdReuse, Integers, TLAPS

-----------------------------------------------------------------------------
(* The operations on the tables. *)

LEMMA SidAfterInSid ==
    ASSUME NEW id \in Sid
    PROVE  SidAfter(id) \in Sid
BY SidAssumption DEF Sid, SidAfter

\* What allocateSession leaves behind while the tables agree: the failure
\* branch of its second emplace is dead code.
LEMMA AllocateEffect ==
    ASSUME RuntimeTypeOK, TablesAgree, NEW encap \in Encaps, NEW id \in Sid,
           AllocateSession(encap, id)
    PROVE  /\ id \notin sessionSet
           /\ [encap |-> encap, sid |-> id] \notin activeSessions
           /\ sessionSet' = sessionSet \cup {id}
           /\ activeSessions' = activeSessions \cup {[encap |-> encap, sid |-> id]}
           /\ next_session_id' = SidAfter(id)
<1>1. id \notin sessionSet
  BY DEF AllocateSession, FirstFree
<1>2. [encap |-> encap, sid |-> id] \notin activeSessions
  BY <1>1 DEF TablesAgree
<1> QED
  BY <1>1, <1>2 DEF AllocateSession

\* What deallocateSession leaves behind while the tables agree: exactly the
\* session with that id is gone, and there was one.
LEMMA DeallocateEffect ==
    ASSUME RuntimeTypeOK, TablesAgree, NEW id, DeallocateSession(id)
    PROVE  \E key \in activeSessions :
              /\ key.sid = id
              /\ id \in sessionSet
              /\ sessionSet' = sessionSet \ {id}
              /\ activeSessions' = activeSessions \ {key}
              /\ next_session_id' = next_session_id
<1>1. PICK key \in activeSessions : key.sid = id
  BY DEF TablesAgree, DeallocateSession
<1>2. (CHOOSE k \in activeSessions : k.sid = id) = key
  BY <1>1 DEF TablesAgree
<1> QED
  BY <1>1, <1>2 DEF DeallocateSession

-----------------------------------------------------------------------------
(* Type correctness and the agreement of the two tables. *)

Agreed == TypeOK /\ TablesAgree

LEMMA AgreedInit == Init => Agreed
<1> SUFFICES ASSUME Init PROVE Agreed
  OBVIOUS
<1>1. <<>> \in Seq(Conn)
  OBVIOUS
<1>2. 1 \in Sid
  BY SidAssumption DEF Sid
<1> QED
  BY <1>1, <1>2 DEF Init, RuntimeInit, Agreed, TypeOK, RuntimeTypeOK, TablesAgree

LEMMA AllocateKeepsAgreed ==
    ASSUME RuntimeTypeOK, TablesAgree, NEW encap \in Encaps, NEW id \in Sid,
           AllocateSession(encap, id)
    PROVE  /\ sessionSet' \subseteq Sid
           /\ activeSessions' \subseteq Key
           /\ next_session_id' \in Sid
           /\ TablesAgree'
<1> DEFINE key == [encap |-> encap, sid |-> id]
<1>1. key \in Key /\ key.sid = id
  BY DEF Key
<1>2. /\ id \notin sessionSet
      /\ sessionSet' = sessionSet \cup {id}
      /\ activeSessions' = activeSessions \cup {key}
      /\ next_session_id' = SidAfter(id)
  BY AllocateEffect
<1>3. sessionSet' \subseteq Sid /\ activeSessions' \subseteq Key /\ next_session_id' \in Sid
  BY <1>1, <1>2, SidAfterInSid DEF RuntimeTypeOK
<1> HIDE DEF key
<1>4. sessionSet' = {k.sid : k \in activeSessions'}
  BY <1>1, <1>2 DEF TablesAgree
<1>5. \A k, l \in activeSessions' : k.sid = l.sid => k = l
  BY <1>1, <1>2 DEF TablesAgree
<1> QED
  BY <1>3, <1>4, <1>5 DEF TablesAgree

LEMMA DeallocateKeepsAgreed ==
    ASSUME RuntimeTypeOK, TablesAgree, NEW id, DeallocateSession(id)
    PROVE  /\ sessionSet' \subseteq Sid
           /\ activeSessions' \subseteq Key
           /\ next_session_id' \in Sid
           /\ TablesAgree'
<1>1. PICK key \in activeSessions :
              /\ key.sid = id
              /\ sessionSet' = sessionSet \ {id}
              /\ activeSessions' = activeSessions \ {key}
              /\ next_session_id' = next_session_id
  BY DeallocateEffect
<1>2. sessionSet' = {k.sid : k \in activeSessions'}
  BY <1>1 DEF TablesAgree
<1>3. \A k, l \in activeSessions' : k.sid = l.sid => k = l
  BY <1>1 DEF TablesAgree
<1> QED
  BY <1>1, <1>2, <1>3 DEF TablesAgree, RuntimeTypeOK

LEMMA AgreedStep == Agreed /\ [Next]_vars => Agreed'
<1> SUFFICES ASSUME Agreed, [Next]_vars PROVE Agreed'
  OBVIOUS
<1> USE DEF Agreed
<1>1. ASSUME NEW encap \in Encaps, ProcessPADI(encap) PROVE Agreed'
  <2>1. PICK conn \in Conn : PendeSession(conn) /\ offers' = offers \cup {conn}
    BY <1>1, PolicyAssumption DEF ProcessPADI, TypeOK, Conn
  <2>2. pendingTimers' \in Seq(Conn)
    BY <2>1 DEF PendeSession, TypeOK, RuntimeTypeOK
  <2>3. TypeOK'
    BY <1>1, <2>1, <2>2 DEF ProcessPADI, PendeSession, TypeOK, RuntimeTypeOK, tables
  <2>4. TablesAgree'
    BY <1>1 DEF ProcessPADI, TablesAgree, tables
  <2> QED
    BY <2>3, <2>4
<1>2. ASSUME NEW conn \in offers, ProcessPADR(conn) PROVE Agreed'
  <2>1. conn.encap \in Encaps
    BY DEF TypeOK, Conn
  <2>2. /\ sessionSet' \subseteq Sid
        /\ activeSessions' \subseteq Key
        /\ next_session_id' \in Sid
        /\ TablesAgree'
    <3>1. CASE \E id \in Sid : AllocateSession(conn.encap, id)
      BY <2>1, <3>1, AllocateKeepsAgreed DEF TypeOK
    <3>2. CASE AllocationFails
      BY <3>2 DEF AllocationFails, tables, TypeOK, RuntimeTypeOK, TablesAgree
    <3> QED
      BY <1>2, <3>1, <3>2 DEF ProcessPADR
  <2>3. TypeOK'
    BY <1>2, <2>2 DEF ProcessPADR, CheckSession, TypeOK, RuntimeTypeOK
  <2> QED
    BY <2>2, <2>3
<1>3. ASSUME NEW id, DeallocateSession(id),
             UNCHANGED <<pendingSession, pendingTimers, insert_cookie, offers, granted>>
      PROVE  Agreed'
  BY <1>3, DeallocateKeepsAgreed DEF TypeOK, RuntimeTypeOK
<1>4. CASE PendingTimeout
  <2>1. pendingTimers' \in Seq(Conn)
    BY <1>4 DEF PendingTimeout, ClearPendingSession, TypeOK, RuntimeTypeOK
  <2> QED
    BY <1>4, <2>1 DEF PendingTimeout, ClearPendingSession, TypeOK, RuntimeTypeOK, TablesAgree, tables
<1>5. CASE ReloadConfig
  BY <1>5 DEF ReloadConfig, runtimeVars, tables, TypeOK, RuntimeTypeOK, TablesAgree
<1>6. CASE Restart
  <2>1. <<>> \in Seq(Conn) /\ 1 \in Sid
    BY SidAssumption DEF Sid
  <2> QED
    BY <1>6, <2>1 DEF Restart, Cleanup, TypeOK, RuntimeTypeOK, TablesAgree
<1>7. CASE UNCHANGED vars
  BY <1>7 DEF vars, runtimeVars, tables, TypeOK, RuntimeTypeOK, TablesAgree
<1> QED
  BY <1>1, <1>2, <1>3, <1>4, <1>5, <1>6, <1>7
     DEF Next, Handlers, ProcessPADT, SessionDown

\* Every variable keeps its type: ids stay between 1 and the largest id, the
\* wrap-around of next_session_id included.
THEOREM TypeCorrect == Spec => []TypeOK
<1>1. Agreed => TypeOK
  BY DEF Agreed
<1> QED
  BY AgreedInit, AgreedStep, <1>1, PTL DEF Spec

\* The two tables of the runtime agree in every reachable state, so the
\* lookups by id and by key never miss a session the other table has.
THEOREM TablesAlwaysAgree == Spec => []TablesAgree
<1>1. Agreed => TablesAgree
  BY DEF Agreed
<1> QED
  BY AgreedInit, AgreedStep, <1>1, PTL DEF Spec

-----------------------------------------------------------------------------
(* Pending handshakes and their timers. *)

Guarded == TypeOK /\ PendingHasTimer

\* One more armed timer keeps the handshakes covered that were.
LEMMA AppendCovers ==
    ASSUME NEW q \in Seq(Conn), NEW new \in Conn, NEW old,
           (\E i \in 1..Len(q) : q[i] = old) \/ old = new
    PROVE  \E i \in 1..Len(Append(q, new)) : Append(q, new)[i] = old
<1>1. CASE \E i \in 1..Len(q) : q[i] = old
  <2>1. PICK i \in 1..Len(q) : q[i] = old
    BY <1>1
  <2>2. i \in 1..Len(Append(q, new)) /\ Append(q, new)[i] = old
    BY <2>1
  <2> QED
    BY <2>2
<1>2. CASE old = new
  <2>1. /\ Len(q) + 1 \in 1..Len(Append(q, new))
        /\ Append(q, new)[Len(q) + 1] = new
    OBVIOUS
  <2> QED
    BY <1>2, <2>1
<1> QED
  BY <1>1, <1>2

\* The timer that fires covers no handshake but its own.
LEMMA TailCovers ==
    ASSUME NEW q \in Seq(Conn), q # <<>>, NEW old, old # Head(q),
           \E i \in 1..Len(q) : q[i] = old
    PROVE  \E i \in 1..Len(Tail(q)) : Tail(q)[i] = old
<1>1. PICK i \in 1..Len(q) : q[i] = old
  OBVIOUS
<1>2. i # 1
  BY <1>1
<1>3. i - 1 \in 1..Len(Tail(q)) /\ Tail(q)[i - 1] = old
  BY <1>1, <1>2
<1> QED
  BY <1>3

LEMMA GuardedStep == Guarded /\ TypeOK' /\ [Next]_vars => PendingHasTimer'
<1> SUFFICES ASSUME TypeOK, PendingHasTimer, TypeOK', [Next]_vars
             PROVE  PendingHasTimer'
  BY DEF Guarded
<1>0. pendingTimers \in Seq(Conn)
  BY DEF TypeOK, RuntimeTypeOK
<1>1. ASSUME NEW encap \in Encaps, ProcessPADI(encap) PROVE PendingHasTimer'
  <2>1. PICK conn \in Conn : PendeSession(conn)
    BY <1>1, PolicyAssumption DEF ProcessPADI, TypeOK, Conn
  <2> SUFFICES ASSUME NEW old \in pendingSession'
               PROVE  \E i \in 1..Len(pendingTimers') : pendingTimers'[i] = old
    BY DEF PendingHasTimer
  <2>2. (\E i \in 1..Len(pendingTimers) : pendingTimers[i] = old) \/ old = conn
    BY <2>1 DEF PendeSession, PendingHasTimer
  <2>3. pendingTimers' = Append(pendingTimers, conn)
    BY <2>1 DEF PendeSession
  <2> QED
    BY <1>0, <2>2, <2>3, AppendCovers
<1>2. ASSUME NEW conn \in offers, ProcessPADR(conn) PROVE PendingHasTimer'
  BY <1>2 DEF ProcessPADR, CheckSession, PendingHasTimer
<1>3. CASE PendingTimeout
  <2> SUFFICES ASSUME NEW old \in pendingSession'
               PROVE  \E i \in 1..Len(pendingTimers') : pendingTimers'[i] = old
    BY DEF PendingHasTimer
  <2>1. /\ pendingTimers # <<>> 
        /\ old # Head(pendingTimers)
        /\ pendingTimers' = Tail(pendingTimers)
    BY <1>3 DEF PendingTimeout, ClearPendingSession
  <2>2. \E i \in 1..Len(pendingTimers) : pendingTimers[i] = old
    BY <1>3 DEF PendingTimeout, ClearPendingSession, PendingHasTimer
  <2> QED
    BY <1>0, <2>1, <2>2, TailCovers
<1>4. ASSUME UNCHANGED <<pendingSession, pendingTimers>> PROVE PendingHasTimer'
  BY <1>4 DEF PendingHasTimer
<1>5. CASE Restart
  BY <1>5 DEF Restart, Cleanup, PendingHasTimer
<1> QED
  BY <1>1, <1>2, <1>3, <1>4, <1>5
     DEF Next, Handlers, ProcessPADT, SessionDown, ReloadConfig, vars, runtimeVars

\* No handshake can stay pending without a timer that will drop it, however
\* offers, requests, repeated offers and timeouts of one line interleave.
THEOREM PendingAlwaysTimed == Spec => []PendingHasTimer
<1>1. Init => PendingHasTimer
  BY DEF Init, RuntimeInit, PendingHasTimer
<1> QED
  BY <1>1, TypeCorrect, GuardedStep, PTL DEF Spec, Guarded

-----------------------------------------------------------------------------
(* Action properties. *)

\* An offer buys at most one session, on the line it was made to.
THEOREM OneSessionPerOffer == Spec => EverySessionUsesUpAnOffer
<1> DEFINE UsesUp ==
      \A key \in activeSessions' \ activeSessions :
         \E conn \in pendingSession \ pendingSession' :
            /\ conn.encap = key.encap
            /\ \A other \in activeSessions' \ activeSessions : other = key
<1>1. ASSUME Agreed, [Next]_vars PROVE UsesUp
  <2>1. ASSUME NEW conn \in offers, ProcessPADR(conn) PROVE UsesUp
    <3>1. conn \in pendingSession \ pendingSession'
      BY <2>1 DEF ProcessPADR, CheckSession
    <3>2. CASE AllocationFails
      BY <3>2 DEF AllocationFails, tables
    <3>3. ASSUME NEW id \in Sid, AllocateSession(conn.encap, id) PROVE UsesUp
      <4>1. activeSessions' = activeSessions \cup {[encap |-> conn.encap, sid |-> id]}
        BY <3>3 DEF AllocateSession
      <4> QED
        BY <3>1, <4>1
    <3> QED
      BY <2>1, <3>2, <3>3 DEF ProcessPADR
  <2>2. ASSUME activeSessions' \subseteq activeSessions PROVE UsesUp
    BY <2>2
  <2> QED
    BY <1>1, <2>1, <2>2
       DEF Next, Handlers, ProcessPADI, ProcessPADT, DeallocateSession, PendingTimeout,
           ClearPendingSession, SessionDown, ReloadConfig, Restart, Cleanup, vars,
           runtimeVars, tables
<1> QED
  BY AgreedInit, AgreedStep, <1>1, PTL DEF Spec, EverySessionUsesUpAnOffer

\* A subscriber that holds a pending handshake is refused only by a full table.
THEOREM RefusalMeansFull == Spec => RefusedOnlyWhenFull
<1> DEFINE Refused ==
      \A conn \in offers :
         ProcessPADR(conn) /\ activeSessions' = activeSessions
            => {key.sid : key \in activeSessions} = Sid
<1>1. ASSUME Agreed, [Next]_vars PROVE Refused
  <2> SUFFICES ASSUME NEW conn \in offers, ProcessPADR(conn),
                      activeSessions' = activeSessions
               PROVE  sessionSet = Sid
    BY <1>1 DEF Agreed, TablesAgree
  <2>1. conn.encap \in Encaps
    BY <1>1 DEF Agreed, TypeOK, Conn
  <2>2. ~ \E id \in Sid : AllocateSession(conn.encap, id)
    <3> SUFFICES ASSUME NEW id \in Sid, AllocateSession(conn.encap, id) PROVE FALSE
      OBVIOUS
    <3>1. RuntimeTypeOK /\ TablesAgree
      BY <1>1 DEF Agreed, TypeOK
    <3>2. /\ [encap |-> conn.encap, sid |-> id] \notin activeSessions
          /\ activeSessions' = activeSessions \cup {[encap |-> conn.encap, sid |-> id]}
      BY <2>1, <3>1, AllocateEffect
    <3> QED
      BY <3>2
  <2> QED
    BY <1>1, <2>2 DEF ProcessPADR, AllocationFails, Agreed, TypeOK, RuntimeTypeOK
<1> QED
  BY AgreedInit, AgreedStep, <1>1, PTL DEF Spec, RefusedOnlyWhenFull

-----------------------------------------------------------------------------
(* Refinement: discovery on the two tables implements SessionTable. *)

LEMMA OwnerOfKey ==
    ASSUME TablesAgree, NEW key \in activeSessions
    PROVE  Owner[key.sid] = key.encap /\ key.sid \in sessionSet
<1>1. key.sid \in sessionSet
  BY DEF TablesAgree
<1>2. (CHOOSE k \in activeSessions : k.sid = key.sid) = key
  BY DEF TablesAgree
<1> QED
  BY <1>1, <1>2 DEF Owner

LEMMA AllocateOpens ==
    ASSUME RuntimeTypeOK, TablesAgree, NEW encap \in Encaps, NEW id \in Sid,
           AllocateSession(encap, id)
    PROVE  Table!Open(encap, id)
<1> DEFINE key == [encap |-> encap, sid |-> id]
<1>1. /\ id \notin sessionSet
      /\ sessionSet' = sessionSet \cup {id}
      /\ activeSessions' = activeSessions \cup {key}
  BY AllocateEffect
<1>2. key.encap = encap /\ key.sid = id
  OBVIOUS
<1> DEFINE holder(t) == (CHOOSE k \in activeSessions' : k.sid = t).encap
<1> HIDE DEF key
<1>3. ASSUME NEW t \in sessionSet'
      PROVE  holder(t) = IF t = id THEN encap ELSE Owner[t]
  <2>1. TablesAgree'
    BY AllocateKeepsAgreed
  <2>2. CASE t = id
    <3>1. (CHOOSE k \in activeSessions' : k.sid = t) = key
      BY <1>1, <1>2, <2>1, <2>2 DEF TablesAgree
    <3>2. holder(t) = key.encap
      BY <3>1
    <3> HIDE DEF holder
    <3> QED
      BY <1>2, <2>2, <3>2
  <2>3. CASE t # id
    <3>1. PICK k \in activeSessions : k.sid = t
      BY <1>1, <1>3, <2>3 DEF TablesAgree
    <3>2. (CHOOSE l \in activeSessions' : l.sid = t) = k
      BY <1>1, <2>1, <3>1 DEF TablesAgree
    <3> QED
      BY <2>3, <3>1, <3>2, OwnerOfKey
  <2> QED
    BY <2>2, <2>3
<1>4. Owner' = [t \in sessionSet' |-> holder(t)]
  BY DEF Owner
<1> HIDE DEF holder
<1>5. Owner' = [t \in sessionSet \cup {id} |-> IF t = id THEN encap ELSE Owner[t]]
  BY <1>1, <1>3, <1>4
<1>6. DOMAIN Owner = sessionSet
  BY DEF Owner
<1> QED
  BY <1>1, <1>5, <1>6 DEF Table!Open

LEMMA DeallocateCloses ==
    ASSUME RuntimeTypeOK, TablesAgree, NEW id, DeallocateSession(id)
    PROVE  Table!Close(id)
<1>1. PICK key \in activeSessions :
              /\ key.sid = id
              /\ id \in sessionSet
              /\ sessionSet' = sessionSet \ {id}
              /\ activeSessions' = activeSessions \ {key}
  BY DeallocateEffect
<1>2. ASSUME NEW t \in sessionSet'
      PROVE  (CHOOSE k \in activeSessions' : k.sid = t).encap = Owner[t]
  <2>1. PICK k \in activeSessions : k.sid = t
    BY <1>1, <1>2 DEF TablesAgree
  <2>2. k \in activeSessions'
    BY <1>1, <1>2, <2>1
  <2>3. (CHOOSE l \in activeSessions' : l.sid = t) = k
    BY <1>1, <2>1, <2>2 DEF TablesAgree
  <2> QED
    BY <2>1, <2>3, OwnerOfKey
<1>3. Owner' = [t \in sessionSet \ {id} |-> Owner[t]]
  BY <1>1, <1>2 DEF Owner
<1> QED
  BY <1>1, <1>3 DEF Table!Close, Owner

LEMMA SameTablesStutter ==
    ASSUME UNCHANGED <<sessionSet, activeSessions>>
    PROVE  UNCHANGED Owner
BY DEF Owner

LEMMA RefinedStep == Agreed /\ [Next]_vars => [Table!Next]_Owner
<1> SUFFICES ASSUME Agreed, [Next]_vars PROVE [Table!Next]_Owner
  OBVIOUS
<1>0. RuntimeTypeOK /\ TablesAgree
  BY DEF Agreed, TypeOK
<1>1. ASSUME NEW conn \in offers, ProcessPADR(conn) PROVE [Table!Next]_Owner
  <2>1. conn.encap \in Encaps
    BY DEF Agreed, TypeOK, Conn
  <2>2. ASSUME NEW id \in Sid, AllocateSession(conn.encap, id) PROVE Table!Next
    <3>1. Table!Open(conn.encap, id)
      BY <1>0, <2>1, <2>2, AllocateOpens
    <3> QED
      BY <2>1, <3>1 DEF Table!Next, Table!Sid, Sid
  <2>3. ASSUME AllocationFails PROVE UNCHANGED Owner
    BY <2>3, SameTablesStutter DEF AllocationFails, tables
  <2> QED
    BY <1>1, <2>2, <2>3 DEF ProcessPADR
<1>2. ASSUME NEW id, DeallocateSession(id) PROVE Table!Next
  <2>1. Table!Close(id) /\ id \in Sid
    BY <1>0, <1>2, DeallocateCloses DEF DeallocateSession, RuntimeTypeOK
  <2> QED
    BY <2>1 DEF Table!Next, Table!Sid, Sid
<1>3. ASSUME UNCHANGED <<sessionSet, activeSessions>> PROVE UNCHANGED Owner
  BY <1>3, SameTablesStutter
<1>4. CASE Restart
  <2>1. Owner' = [s \in {} |-> s]
    BY <1>4 DEF Restart, Cleanup, Owner
  <2> QED
    BY <2>1 DEF Table!Next, Table!Reset
<1> QED
  BY <1>1, <1>2, <1>3, <1>4
     DEF Next, Handlers, ProcessPADI, ProcessPADT, SessionDown, PendingTimeout,
         ClearPendingSession, ReloadConfig, vars, runtimeVars, tables

\* Whatever handshakes, PADTs, PPP failures and restarts do, the ids behave
\* like the session table: one line per id, only free ids handed out.
THEOREM DiscoveryImplementsSessionTable == Spec => ImplementsSessionTable
<1>1. Init => Table!Init
  BY DEF Init, RuntimeInit, Table!Init, Owner
<1> QED
  BY AgreedInit, AgreedStep, RefinedStep, <1>1, PTL
     DEF Spec, ImplementsSessionTable, Table!Spec

-----------------------------------------------------------------------------
(* How soon a session id comes back.                                         *)
(*                                                                           *)
(* The search for a free id walks around a circle. Since an id was given out *)
(* the walk went on from it and every id it came past was in use at that     *)
(* moment or was given out by it, so the ids from that id up to the one      *)
(* given out last have all been in use (Passed). When the walk comes to the  *)
(* id again, the rest of the circle is in use right now.                     *)

\* The steps from a to b, walking up and around.
Walk(a, b) == IF b >= a THEN b - a ELSE b + MaxSid - a

\* The id before next_session_id: the one given out last.
LastGiven == IF next_session_id = 1 THEN MaxSid ELSE next_session_id - 1

Passed ==
    \A id \in Sid :
       \/ usedSince[id] = Sid
       \/ \A t \in Sid : Walk(id, t) <= Walk(id, LastGiven) => t \in usedSince[id]

ReuseInv ==
    /\ Agreed
    /\ usedSince \in [Sid -> SUBSET Sid]
    /\ \A id \in Sid : sessionSet \subseteq usedSince[id]
    /\ Passed

LEMMA SidAfterIs ==
    ASSUME NEW id \in Sid
    PROVE  SidAfter(id) = IF id = MaxSid THEN 1 ELSE id + 1
BY SidAssumption DEF Sid, SidAfter

\* Once around: what lies past LastGiven, seen from id, lies before id, seen
\* from next_session_id.
LEMMA OnceAround ==
    ASSUME next_session_id \in Sid, NEW id \in Sid, NEW t \in Sid,
           Walk(id, t) > Walk(id, LastGiven)
    PROVE  SearchSteps(t) < SearchSteps(id)
BY SidAssumption DEF Sid, Walk, LastGiven, SearchSteps

\* The walk from next_session_id to s adds what it passes to the arc of id.
LEMMA ArcGrows ==
    ASSUME next_session_id \in Sid, NEW id \in Sid, NEW s \in Sid, NEW t \in Sid,
           Walk(id, t) <= Walk(id, s), Walk(id, t) > Walk(id, LastGiven)
    PROVE  SearchSteps(t) <= SearchSteps(s)
BY SidAssumption DEF Sid, Walk, LastGiven, SearchSteps

LEMMA PassedInUse ==
    ASSUME NEW s \in Sid, FirstFree(s), NEW t \in Sid, next_session_id \in Sid,
           SearchSteps(t) < SearchSteps(s)
    PROVE  t \in sessionSet
<1>1. SearchSteps(t) \in Int /\ SearchSteps(s) \in Int
  BY SidAssumption DEF Sid, SearchSteps
<1> QED
  BY <1>1 DEF FirstFree

\* The id found by the search has seen every id in use since it was given out.
LEMMA FoundSawAll ==
    ASSUME ReuseInv, NEW s \in Sid, FirstFree(s)
    PROVE  usedSince[s] = Sid
<1>0. next_session_id \in Sid
  BY DEF ReuseInv, Agreed, TypeOK, RuntimeTypeOK
<1>1. CASE \A t \in Sid : Walk(s, t) <= Walk(s, LastGiven) => t \in usedSince[s]
  <2> SUFFICES ASSUME NEW t \in Sid PROVE t \in usedSince[s]
    BY DEF ReuseInv
  <2>1. CASE Walk(s, t) > Walk(s, LastGiven)
    <3>1. t \in sessionSet
      BY <1>0, <2>1, OnceAround, PassedInUse
    <3> QED
      BY <3>1 DEF ReuseInv
  <2>2. CASE Walk(s, t) <= Walk(s, LastGiven)
    BY <1>1, <2>2
  <2>3. Walk(s, t) \in Int /\ Walk(s, LastGiven) \in Int
    BY <1>0, SidAssumption DEF Sid, Walk, LastGiven
  <2> QED
    BY <2>1, <2>2, <2>3
<1> QED
  BY <1>1 DEF ReuseInv, Passed

\* A step that gives out no id and leaves the search where it is.
LEMMA QuietStep ==
    ASSUME ReuseInv, Agreed', Record, sessionSet' \subseteq sessionSet,
           next_session_id' = next_session_id
    PROVE  ReuseInv'
<1>0. sessionSet' \subseteq Sid
  BY DEF Agreed, TypeOK, RuntimeTypeOK
<1>1. usedSince' = [id \in Sid |-> usedSince[id] \cup sessionSet']
  BY DEF Record
<1>2. usedSince' \in [Sid -> SUBSET Sid]
  BY <1>0, <1>1 DEF ReuseInv
<1>3. \A id \in Sid : sessionSet' \subseteq usedSince'[id]
  BY <1>1
<1>4. Passed'
  <2> SUFFICES ASSUME NEW id \in Sid, usedSince'[id] # Sid, NEW t \in Sid,
                      Walk(id, t) <= Walk(id, LastGiven)'
               PROVE  t \in usedSince'[id]
    BY DEF Passed
  <2>1. usedSince[id] # Sid
    BY <1>0, <1>1
  <2>2. Walk(id, t) <= Walk(id, LastGiven)
    BY DEF Walk, LastGiven
  <2>3. t \in usedSince[id]
    BY <2>1, <2>2 DEF ReuseInv, Passed
  <2> QED
    BY <1>1, <2>3
<1> QED
  BY <1>2, <1>3, <1>4 DEF ReuseInv

\* A step that gives out the id the search found.
LEMMA GiveOutStep ==
    ASSUME ReuseInv, Agreed', Record, NEW s \in Sid, FirstFree(s),
           s \notin sessionSet, sessionSet' = sessionSet \cup {s},
           next_session_id' = SidAfter(s)
    PROVE  ReuseInv'
<1>0. next_session_id \in Sid /\ sessionSet' \subseteq Sid
  BY DEF Agreed, TypeOK, RuntimeTypeOK, ReuseInv
<1>1. usedSince' = [id \in Sid |-> IF id = s THEN sessionSet' ELSE usedSince[id] \cup sessionSet']
  BY <1>0 DEF Record
<1>2. usedSince' \in [Sid -> SUBSET Sid]
  BY <1>0, <1>1 DEF ReuseInv
<1>3. \A id \in Sid : sessionSet' \subseteq usedSince'[id]
  BY <1>1
<1>4. LastGiven' = s
  BY SidAfterIs, SidAssumption DEF LastGiven, Sid
<1>5. Passed'
  <2> SUFFICES ASSUME NEW id \in Sid, usedSince'[id] # Sid, NEW t \in Sid,
                      Walk(id, t) <= Walk(id, s)
               PROVE  t \in usedSince'[id]
    BY <1>4 DEF Passed, Walk
  <2>0. /\ Walk(id, t) \in Int /\ Walk(id, LastGiven) \in Int
        /\ SearchSteps(t) \in Int /\ SearchSteps(s) \in Int
    BY <1>0, SidAssumption DEF Sid, Walk, LastGiven, SearchSteps
  <2>1. CASE id = s
    <3>1. t = s
      BY <2>1, SidAssumption DEF Walk, Sid
    <3> QED
      BY <1>1, <2>1, <3>1
  <2>2. CASE id # s /\ Walk(id, t) <= Walk(id, LastGiven)
    <3>1. usedSince[id] # Sid
      BY <1>0, <1>1, <2>2
    <3>2. t \in usedSince[id]
      BY <2>2, <3>1 DEF ReuseInv, Passed
    <3> QED
      BY <1>1, <2>2, <3>2
  <2>3. CASE Walk(id, t) > Walk(id, LastGiven)
    <3>1. SearchSteps(t) <= SearchSteps(s)
      BY <1>0, <2>3, ArcGrows
    <3>2. CASE SearchSteps(t) < SearchSteps(s)
      BY <1>0, <1>3, <3>2, PassedInUse
    <3>3. CASE SearchSteps(t) = SearchSteps(s)
      <4>1. t = s
        BY <1>0, <3>3, SidAssumption DEF SearchSteps, Sid
      <4> QED
        BY <1>3, <4>1
    <3> QED
      BY <2>0, <3>1, <3>2, <3>3
  <2> QED
    BY <2>0, <2>1, <2>2, <2>3
<1> QED
  BY <1>2, <1>3, <1>5 DEF ReuseInv

\* What the handlers do to the ids: nothing new, or the one the search found.
LEMMA HandlersGiveOut ==
    ASSUME Agreed, Handlers
    PROVE  \/ sessionSet' \subseteq sessionSet /\ next_session_id' = next_session_id
           \/ \E s \in Sid : /\ FirstFree(s)
                             /\ s \notin sessionSet
                             /\ sessionSet' = sessionSet \cup {s}
                             /\ next_session_id' = SidAfter(s)
<1>1. ASSUME NEW conn \in offers, ProcessPADR(conn),
             NEW id \in Sid, AllocateSession(conn.encap, id)
      PROVE  /\ FirstFree(id)
             /\ id \notin sessionSet
             /\ sessionSet' = sessionSet \cup {id}
             /\ next_session_id' = SidAfter(id)
  <2>1. conn.encap \in Encaps /\ RuntimeTypeOK /\ TablesAgree
    BY DEF Agreed, TypeOK, Conn
  <2> QED
    BY <1>1, <2>1, AllocateEffect DEF AllocateSession
<1> QED
  BY <1>1 DEF Handlers, ProcessPADI, ProcessPADR, AllocationFails, ProcessPADT,
      DeallocateSession, PendingTimeout, ClearPendingSession, SessionDown, ReloadConfig,
      runtimeVars, tables

LEMMA ReuseStep == ReuseInv /\ [ReuseNext]_reuseVars => ReuseInv'
<1> SUFFICES ASSUME ReuseInv, [ReuseNext]_reuseVars PROVE ReuseInv'
  OBVIOUS
<1>0. Agreed'
  BY AgreedStep DEF ReuseInv, ReuseNext, Next, reuseVars
<1>1. CASE Handlers /\ Record
  <2>1. Agreed
    BY DEF ReuseInv
  <2> QED
    BY <1>0, <1>1, <2>1, HandlersGiveOut, QuietStep, GiveOutStep
<1>2. CASE Restart /\ usedSince' = [id \in Sid |-> Sid]
  <2>1. sessionSet' \subseteq Sid
    BY <1>0 DEF Agreed, TypeOK, RuntimeTypeOK
  <2> QED
    BY <1>0, <1>2, <2>1 DEF ReuseInv, Passed
<1>3. CASE UNCHANGED reuseVars
  BY <1>0, <1>3 DEF ReuseInv, Passed, LastGiven, Walk, reuseVars, vars, runtimeVars, tables
<1> QED
  BY <1>1, <1>2, <1>3 DEF ReuseNext

LEMMA ReuseInitially == ReuseInit => ReuseInv
<1> SUFFICES ASSUME ReuseInit PROVE ReuseInv
  OBVIOUS
<1>1. Agreed
  BY AgreedInit DEF ReuseInit
<1> QED
  BY <1>1 DEF ReuseInit, ReuseInv, Passed, Agreed, TypeOK, RuntimeTypeOK

\* Every variable, the history included, keeps its type: in particular the
\* search of allocateSession never leaves 1..MaxSid.
THEOREM ReuseTypeCorrect == ReuseSpec => []ReuseTypeOK
<1>1. ReuseInv => ReuseTypeOK
  BY DEF ReuseInv, ReuseTypeOK, Agreed
<1> QED
  BY ReuseInitially, ReuseStep, <1>1, PTL DEF ReuseSpec

\* A freed id is handed out again only after every other id has been in use.
THEOREM FreedIdsComeBackLast == ReuseSpec => ReusedLast
<1>1. ASSUME ReuseInv, [ReuseNext]_reuseVars
      PROVE  \A id \in sessionSet' \ sessionSet : usedSince[id] = Sid
  <2>1. CASE Handlers
    <3>1. Agreed
      BY <1>1 DEF ReuseInv
    <3>2. \A s \in Sid : FirstFree(s) => usedSince[s] = Sid
      BY <1>1, FoundSawAll
    <3> QED
      BY <2>1, <3>1, <3>2, HandlersGiveOut
  <2>2. CASE Restart \/ UNCHANGED reuseVars
    BY <2>2 DEF Restart, Cleanup, reuseVars, vars, runtimeVars, tables
  <2> QED
    BY <1>1, <2>1, <2>2 DEF ReuseNext
<1> QED
  BY ReuseInitially, ReuseStep, <1>1, PTL DEF ReuseSpec, ReusedLast
=============================================================================
