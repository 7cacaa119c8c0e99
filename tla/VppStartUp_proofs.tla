------------------------- MODULE VppStartUp_proofs --------------------------
(* Proofs about VppStartUp: whatever VPP holds, wherever an earlier start    *)
(* ended, the phases of the constructor lead to the configuration, for every *)
(* set of devices, units, VRFs and configurations and any number of failing  *)
(* calls.                                                                    *)
(*                                                                           *)
(* Each loop has an invariant that relates what it has not come to yet       *)
(* (todo) to VPP; its last value, todo = {}, is what the later phases keep.  *)
EXTENDS VppStartUp, FiniteSetTheorems, TLAPS

-----------------------------------------------------------------------------
(* Types. *)

\* A loop goes over things of the kind of its phase.
TodoOK ==
    /\ pc = "taps" => todo \subseteq Taps
    /\ pc = "tap" => todo \subseteq {"tap"}
    /\ pc = "oldVrfs" => todo \subseteq Vrfs
    /\ pc = "vrfs" => todo \subseteq conf.vrfs
    /\ pc = "clear" => todo \subseteq DOMAIN ifaces
    /\ pc = "units" => todo \subseteq DOMAIN conf.units
    /\ pc = "routes" => todo \subseteq RoutesOf(conf, Global)

Typed == TypeOK /\ TodoOK

LEMMA TypedInitially == Init => Typed
BY DEF Init, Typed, TypeOK, TodoOK, Phase, Table

LEMMA TypedStep == Typed /\ [Next]_vars => Typed'
<1> SUFFICES ASSUME TypeOK, TodoOK, [Next]_vars PROVE TypeOK' /\ TodoOK'
  BY DEF Typed
<1>0. conf.vrfs \subseteq Vrfs /\ DOMAIN conf.units \subseteq Units
  BY ConfAssumption DEF TypeOK
<1>1. CASE NextPhase
  <2>1. TypeOK'
    BY <1>1 DEF NextPhase, Then, TypeOK, Phase, vpp
  <2>2. TodoOK'
    BY <1>1 DEF NextPhase, Then, TypeOK, TodoOK, vpp
  <2> QED
    BY <2>1, <2>2
<1>2. ASSUME NEW t \in todo, DeleteTap(t) PROVE TypeOK' /\ TodoOK'
  BY <1>2 DEF DeleteTap, Take, Fails, Works, TypeOK, TodoOK, Item
<1>3. CASE CreateTap
  BY <1>3 DEF CreateTap, ControlPlane, ControlPlaneWithoutTap, Take, Fails, Works, TypeOK, TodoOK, Item
<1>4. ASSUME NEW v \in todo, DeleteVrf(v) PROVE TypeOK' /\ TodoOK'
  BY <1>4 DEF DeleteVrf, Take, Fails, Works, TypeOK, TodoOK, Item
<1>5. ASSUME NEW v \in todo, CreateVrf(v) PROVE TypeOK' /\ TodoOK'
  <2>1. v \in Vrfs
    BY <1>0, <1>5 DEF CreateVrf, Take, TodoOK
  <2> QED
    BY <1>5, <2>1 DEF CreateVrf, Take, Fails, Works, TypeOK, TodoOK, Item
<1>6. ASSUME NEW i \in todo, Clear(i) PROVE TypeOK' /\ TodoOK'
  <2>1. pc = "clear" /\ i \in DOMAIN ifaces
    BY <1>6 DEF Clear, Take, TodoOK
  <2>2. \/ ifaces' = ifaces
        \/ i \in Units /\ ifaces' = [j \in DOMAIN ifaces \ {i} |-> ifaces[j]]
        \/ ifaces' = [ifaces EXCEPT ![i].address = NoAddress]
    BY <1>6 DEF Clear, Cleared
  <2>3. /\ Devices \subseteq DOMAIN ifaces' /\ DOMAIN ifaces' \subseteq Devices \cup Units
        /\ \A j \in DOMAIN ifaces' : ifaces'[j] \in [table : Table, address : Address]
    BY <2>1, <2>2, NameAssumption DEF TypeOK, Address
  <2>4. failed' \subseteq Item
    BY <1>6, <2>1 DEF Clear, Fails, Works, TypeOK, Item
  <2>5. TypeOK'
    BY <1>6, <2>3, <2>4 DEF Clear, Take, TypeOK
  <2>6. todo' \subseteq DOMAIN ifaces'
    BY <1>6, <2>1, <2>2 DEF Clear, Take, TodoOK
  <2>7. TodoOK'
    BY <1>6, <2>1, <2>6 DEF Clear, Take, TodoOK
  <2> QED
    BY <2>5, <2>7
<1>7. ASSUME NEW u \in todo, SetUpUnit(u) PROVE TypeOK' /\ TodoOK'
  <2>1. pc = "units" /\ u \in DOMAIN conf.units
    BY <1>7 DEF SetUpUnit, Take, TodoOK
  <2>2. TableOf(conf.units[u]) \in Table /\ conf.units[u].address \in Address
    BY <2>1 DEF TableOf, TypeOK, Table, Address
  <2>3. \/ ifaces' = ifaces
        \/ \E table \in Table, address \in Address :
              ifaces' = [i \in DOMAIN ifaces \cup {u} |->
                            IF i = u THEN [table |-> table, address |-> address] ELSE ifaces[i]]
    <3> DEFINE c == conf.units[u]
              With(table, address) ==
                 [i \in DOMAIN ifaces \cup {u} |->
                     IF i = u THEN [table |-> table, address |-> address] ELSE ifaces[i]]
    <3>1. \/ ifaces' = ifaces
          \/ ifaces' = With(TableOf(c), c.address)
          \/ \E table \in {Global, TableOf(c)}, address \in {NoAddress, c.address} :
                ifaces' = With(table, address)
      BY <1>7 DEF SetUpUnit
    <3>2. {Global, TableOf(c)} \subseteq Table /\ {NoAddress, c.address} \subseteq Address
      BY <2>2 DEF Table, Address
    <3> HIDE DEF With
    <3>3. ifaces' = ifaces \/ \E table \in Table, address \in Address : ifaces' = With(table, address)
      BY <3>1, <3>2
    <3> QED
      BY <3>3 DEF With
  <2>4. /\ Devices \subseteq DOMAIN ifaces' /\ DOMAIN ifaces' \subseteq Devices \cup Units
        /\ \A j \in DOMAIN ifaces' : ifaces'[j] \in [table : Table, address : Address]
    BY <1>0, <2>1, <2>3 DEF TypeOK
  <2>5. failed' \subseteq Item
    BY <1>0, <1>7, <2>1 DEF SetUpUnit, Fails, Works, TypeOK, Item
  <2>6. TypeOK'
    BY <1>7, <2>4, <2>5 DEF SetUpUnit, Take, TypeOK
  <2>7. TodoOK'
    BY <1>7, <2>1 DEF SetUpUnit, Take, TodoOK
  <2> QED
    BY <2>6, <2>7
<1>8. ASSUME NEW r \in todo, AddGlobalRoute(r) PROVE TypeOK' /\ TodoOK'
  BY <1>8 DEF AddGlobalRoute, Take, Fails, Works, TypeOK, TodoOK, Item
<1>9. ASSUME NEW c \in Confs, Start(c) PROVE TypeOK' /\ TodoOK'
  BY <1>9 DEF Start, TypeOK, TodoOK, Phase, vpp
<1>10. CASE End
  BY <1>10 DEF End, TypeOK, TodoOK, Phase, vpp
<1>11. CASE UNCHANGED vars
  BY <1>11 DEF vars, vpp, TypeOK, TodoOK
<1> QED
  BY <1>1, <1>2, <1>3, <1>4, <1>5, <1>6, <1>7, <1>8, <1>9, <1>10, <1>11 DEF Next, Step

\* Every variable keeps its type: subinterfaces, VRFs and taps stay among those
\* the daemon names, and the devices of VPP stay.
THEOREM TypeCorrect == Spec => []TypeOK
<1>1. Typed => TypeOK
  BY DEF Typed
<1> QED
  BY TypedInitially, TypedStep, <1>1, PTL DEF Spec

-----------------------------------------------------------------------------
(* Routes and their tables. *)

LEMMA RoutesStep == Typed /\ RoutesHaveTables /\ [Next]_vars => RoutesHaveTables'
<1> SUFFICES ASSUME TypeOK, TodoOK, RoutesHaveTables, [Next]_vars PROVE RoutesHaveTables'
  BY DEF Typed
<1>1. ASSUME NEW v \in todo, DeleteVrf(v) PROVE RoutesHaveTables'
  BY <1>1 DEF DeleteVrf, RoutesHaveTables
<1>2. ASSUME NEW v \in todo, CreateVrf(v) PROVE RoutesHaveTables'
  BY <1>2 DEF CreateVrf, RoutesWithoutVrf, RoutesOf, RoutesHaveTables
<1>3. ASSUME NEW r \in todo, AddGlobalRoute(r) PROVE RoutesHaveTables'
  BY <1>3 DEF AddGlobalRoute, Take, TodoOK, RoutesOf, RoutesHaveTables
<1>4. ASSUME UNCHANGED <<vrfs, routes>> PROVE RoutesHaveTables'
  BY <1>4 DEF RoutesHaveTables
<1> QED
  BY <1>1, <1>2, <1>3, <1>4
     DEF Next, Step, NextPhase, DeleteTap, CreateTap, Clear, SetUpUnit, Start, End, vpp, vars

\* No route is ever in a table VPP does not have, whichever calls fail.
THEOREM RoutesAlwaysHaveTables == Spec => []RoutesHaveTables
<1>1. Init => RoutesHaveTables
  BY DEF Init, RoutesHaveTables
<1> QED
  BY TypedInitially, TypedStep, RoutesStep, <1>1, PTL DEF Spec

-----------------------------------------------------------------------------
(* The invariants of the loops. *)

OneTap == \E t \in Taps : taps = {t} /\ cp = {t}

\* The loop over the old taps empties taps, and one is created.
TapsOK ==
    "tap" \notin failed =>
        /\ pc = "taps" => taps = todo
        /\ pc = "tap" /\ todo # {} => taps = {}
        /\ pc = "tap" /\ todo = {} => OneTap
        /\ pc \notin {"down", "taps", "tap"} => OneTap

VrfsSoFar == IF pc = "vrfs" THEN conf.vrfs \ todo ELSE conf.vrfs

\* The loop over the old VRFs empties vrfs; the next creates those of conf.
VrfsOK ==
    /\ pc = "oldVrfs" => vrfs \ failed \subseteq todo
    /\ pc \notin {"down", "taps", "tap", "oldVrfs"} =>
          \A v \in Vrfs \ failed :
             IF v \in VrfsSoFar
             THEN v \in vrfs /\ v \in known /\ RoutesIn(v) = RoutesOf(conf, v)
             ELSE v \notin vrfs

Blank(i) == i \in Devices /\ ifaces[i].address = NoAddress

UnitsSoFar == IF pc = "units" THEN DOMAIN conf.units \ todo ELSE DOMAIN conf.units

AsUnit(u) ==
    Device(u) \in Devices /\ Good(conf.units[u].vrf)
        => /\ u \in DOMAIN ifaces
           /\ ifaces[u] = [table |-> conf.units[u].vrf, address |-> conf.units[u].address]

\* The loop over the interfaces leaves blank devices; the units come back.
IfacesOK ==
    /\ pc = "clear" => \A i \in DOMAIN ifaces \ failed : i \in todo \/ Blank(i)
    /\ pc \in {"units", "routes", "up"} =>
          /\ \A i \in DOMAIN ifaces \ failed : Blank(i) \/ i \in UnitsSoFar
          /\ \A u \in UnitsSoFar \ failed : AsUnit(u)

\* The last loop adds the routes of the global table.
GlobalOK ==
    "route" \notin failed =>
        /\ pc = "routes" => RoutesOf(conf, Global) \ todo \subseteq routes
        /\ pc = "up" => RoutesOf(conf, Global) \subseteq routes

LEMMA TapsStep == Typed /\ TapsOK /\ [Next]_vars => TapsOK'
<1> SUFFICES ASSUME TypeOK, TodoOK, TapsOK, [Next]_vars PROVE TapsOK'
  BY DEF Typed
<1>1. CASE NextPhase
  BY <1>1 DEF NextPhase, Then, TapsOK, OneTap, vpp
<1>2. ASSUME NEW t \in todo, DeleteTap(t) PROVE TapsOK'
  BY <1>2 DEF DeleteTap, Take, Fails, Works, TapsOK, OneTap
<1>3. CASE CreateTap
  BY <1>3 DEF CreateTap, ControlPlane, Take, Fails, Works, TypeOK, TodoOK, TapsOK, OneTap
<1>4. ASSUME NEW x \in todo, DeleteVrf(x) \/ CreateVrf(x) \/ Clear(x) \/ SetUpUnit(x) \/ AddGlobalRoute(x)
      PROVE  TapsOK'
  <2>1. pc' = pc /\ pc \notin {"down", "taps", "tap"}
    BY <1>4 DEF DeleteVrf, CreateVrf, Clear, SetUpUnit, AddGlobalRoute, Take
  <2>2. failed \subseteq failed' /\ UNCHANGED <<taps, cp>>
    BY <1>4 DEF DeleteVrf, CreateVrf, Clear, SetUpUnit, AddGlobalRoute, Fails, Works
  <2> QED
    BY <2>1, <2>2 DEF TapsOK, OneTap
<1>5. ASSUME NEW c \in Confs, Start(c) PROVE TapsOK'
  BY <1>5 DEF Start, TapsOK, vpp
<1>6. CASE End
  BY <1>6 DEF End, TapsOK
<1>7. CASE UNCHANGED vars
  BY <1>7 DEF vars, vpp, TapsOK, OneTap
<1> QED
  BY <1>1, <1>2, <1>3, <1>4, <1>5, <1>6, <1>7 DEF Next, Step

LEMMA VrfsStep == Typed /\ RoutesHaveTables /\ VrfsOK /\ [Next]_vars => VrfsOK'
<1> SUFFICES ASSUME TypeOK, TodoOK, RoutesHaveTables, VrfsOK, [Next]_vars PROVE VrfsOK'
  BY DEF Typed
<1>0. conf.vrfs \subseteq Vrfs
  BY ConfAssumption DEF TypeOK
<1>1. CASE NextPhase
  BY <1>0, <1>1 DEF NextPhase, Then, VrfsOK, VrfsSoFar, RoutesIn, vpp
<1>2. ASSUME NEW v \in todo, DeleteVrf(v) PROVE VrfsOK'
  BY <1>2 DEF DeleteVrf, Take, Fails, Works, VrfsOK
<1>3. ASSUME NEW v \in todo, CreateVrf(v) PROVE VrfsOK'
  <2>1. pc = "vrfs" /\ v \in conf.vrfs /\ todo' = todo \ {v} /\ UNCHANGED <<conf, pc>>
    BY <1>3 DEF CreateVrf, Take, TodoOK
  <2>2. VrfsSoFar' = VrfsSoFar \cup {v}
    BY <2>1 DEF VrfsSoFar, TodoOK
  <2>3. ASSUME NEW w \in Vrfs \ failed', w # v
        PROVE  /\ w \notin failed
               /\ w \in vrfs' <=> w \in vrfs
               /\ w \in known' <=> w \in known
               /\ RoutesIn(w)' = RoutesIn(w)
    BY <1>3, <2>3 DEF CreateVrf, RoutesWithoutVrf, RoutesOf, RoutesIn, Fails, Works
  <2>4. ASSUME v \notin failed'
        PROVE  v \in vrfs' /\ v \in known' /\ RoutesIn(v)' = RoutesOf(conf, v)'
    <3>1. v \notin failed
      BY <1>3, <2>4 DEF CreateVrf, Fails, Works
    <3>2. v \in Vrfs /\ v \notin VrfsSoFar
      BY <1>0, <2>1 DEF VrfsSoFar
    <3>3. v \notin vrfs
      BY <2>1, <3>1, <3>2 DEF VrfsOK
    <3>4. RoutesIn(v) = {}
      BY <3>2, <3>3, NameAssumption DEF RoutesIn, RoutesHaveTables
    <3>5. v \in vrfs' /\ v \in known' /\ routes' = routes \cup RoutesOf(conf, v)
      BY <1>3, <2>4 DEF CreateVrf, Fails
    <3> QED
      BY <2>1, <3>4, <3>5 DEF RoutesIn, RoutesOf
  <2> QED
    BY <2>1, <2>2, <2>3, <2>4 DEF VrfsOK, RoutesOf
<1>4. ASSUME NEW r \in todo, AddGlobalRoute(r) PROVE VrfsOK'
  <2>1. r.table = Global /\ pc = "routes" /\ UNCHANGED <<conf, pc, known, vrfs>>
    BY <1>4 DEF AddGlobalRoute, Take, TodoOK, RoutesOf
  <2>2. \A v \in Vrfs : RoutesIn(v)' = RoutesIn(v)
    BY <1>4, <2>1, NameAssumption DEF AddGlobalRoute, RoutesIn
  <2>3. failed \subseteq failed'
    BY <1>4 DEF AddGlobalRoute, Fails, Works
  <2> QED
    BY <2>1, <2>2, <2>3 DEF VrfsOK, VrfsSoFar, RoutesOf
<1>5. ASSUME NEW x \in todo, DeleteTap(x) PROVE VrfsOK'
  BY <1>5 DEF DeleteTap, Take, VrfsOK
<1>6. CASE CreateTap
  BY <1>6 DEF CreateTap, Take, VrfsOK
<1>7. ASSUME NEW x \in todo, Clear(x) \/ SetUpUnit(x) PROVE VrfsOK'
  <2>1. pc \in {"clear", "units"} /\ UNCHANGED <<conf, pc, known, vrfs, routes>>
    BY <1>7 DEF Clear, SetUpUnit, Take
  <2>2. failed \subseteq failed'
    BY <1>7 DEF Clear, SetUpUnit, Fails, Works
  <2> QED
    BY <2>1, <2>2 DEF VrfsOK, VrfsSoFar, RoutesIn, RoutesOf
<1>8. ASSUME NEW c \in Confs, Start(c) PROVE VrfsOK'
  BY <1>8 DEF Start, VrfsOK
<1>9. CASE End
  BY <1>9 DEF End, VrfsOK
<1>10. CASE UNCHANGED vars
  BY <1>10 DEF vars, vpp, VrfsOK, VrfsSoFar, RoutesIn
<1> QED
  BY <1>1, <1>2, <1>3, <1>4, <1>5, <1>6, <1>7, <1>8, <1>9, <1>10 DEF Next, Step

LEMMA GlobalStep == Typed /\ GlobalOK /\ [Next]_vars => GlobalOK'
<1> SUFFICES ASSUME TypeOK, TodoOK, GlobalOK, [Next]_vars PROVE GlobalOK'
  BY DEF Typed
<1>1. CASE NextPhase
  BY <1>1 DEF NextPhase, Then, GlobalOK, vpp
<1>2. ASSUME NEW r \in todo, AddGlobalRoute(r) PROVE GlobalOK'
  BY <1>2 DEF AddGlobalRoute, Take, Fails, Works, GlobalOK, RoutesOf
<1>3. ASSUME NEW x \in todo,
             DeleteTap(x) \/ DeleteVrf(x) \/ CreateVrf(x) \/ Clear(x) \/ SetUpUnit(x)
      PROVE  GlobalOK'
  BY <1>3 DEF DeleteTap, DeleteVrf, CreateVrf, Clear, SetUpUnit, Take, GlobalOK
<1>4. CASE CreateTap
  BY <1>4 DEF CreateTap, Take, GlobalOK
<1>5. ASSUME NEW c \in Confs, Start(c) PROVE GlobalOK'
  BY <1>5 DEF Start, GlobalOK
<1>6. CASE End
  BY <1>6 DEF End, GlobalOK
<1>7. CASE UNCHANGED vars
  BY <1>7 DEF vars, vpp, GlobalOK
<1> QED
  BY <1>1, <1>2, <1>3, <1>4, <1>5, <1>6, <1>7 DEF Next, Step

LEMMA IfacesStep == Typed /\ VrfsOK /\ IfacesOK /\ [Next]_vars => IfacesOK'
<1> SUFFICES ASSUME TypeOK, TodoOK, VrfsOK, IfacesOK, [Next]_vars PROVE IfacesOK'
  BY DEF Typed
<1>0. DOMAIN conf.units \subseteq Units
  BY ConfAssumption DEF TypeOK
<1>1. CASE NextPhase
  BY <1>1 DEF NextPhase, Then, IfacesOK, Blank, UnitsSoFar, AsUnit, Good, vpp
<1>2. ASSUME NEW i \in todo, Clear(i) PROVE IfacesOK'
  <2>1. pc = "clear" /\ pc' = "clear" /\ i \in DOMAIN ifaces /\ todo' = todo \ {i}
    BY <1>2 DEF Clear, Take, TodoOK
  <2>2. failed \subseteq failed'
    BY <1>2 DEF Clear, Fails, Works
  <2>3. ASSUME NEW j \in DOMAIN ifaces', j # i
        PROVE  j \in DOMAIN ifaces /\ ifaces'[j] = ifaces[j]
    BY <1>2, <2>3 DEF Clear, Cleared
  <2>4. ASSUME i \in DOMAIN ifaces', i \notin failed'
        PROVE  Blank(i)'
    <3>1. ifaces' = Cleared(i)
      BY <1>2, <2>4 DEF Clear, Fails
    <3>2. i \notin Units
      BY <2>4, <3>1 DEF Cleared
    <3>3. ifaces' = [ifaces EXCEPT ![i].address = NoAddress]
      BY <3>1, <3>2 DEF Cleared
    <3> QED
      BY <2>1, <3>2, <3>3 DEF Blank, TypeOK
  <2> QED
    BY <2>1, <2>2, <2>3, <2>4 DEF IfacesOK, Blank
<1>3. ASSUME NEW u \in todo, SetUpUnit(u) PROVE IfacesOK'
  <2>1. /\ pc = "units" /\ u \in DOMAIN conf.units /\ todo' = todo \ {u}
        /\ UNCHANGED <<conf, pc, known>>
    BY <1>3 DEF SetUpUnit, Take, TodoOK
  <2>2. UnitsSoFar' = UnitsSoFar \cup {u} /\ u \notin UnitsSoFar
    BY <2>1 DEF UnitsSoFar
  <2>3. failed \subseteq failed'
    BY <1>3 DEF SetUpUnit, Fails, Works
  <2>4. u \notin Devices
    BY <1>0, <2>1, NameAssumption
  <2>5. ASSUME NEW i, i # u
        PROVE  /\ i \in DOMAIN ifaces' <=> i \in DOMAIN ifaces
               /\ i \in DOMAIN ifaces => ifaces'[i] = ifaces[i]
    BY <1>3, <2>5 DEF SetUpUnit
  <2>6. \A v : Good(v)' => Good(v)
    BY <2>1, <2>3 DEF Good
  <2>7. ASSUME u \notin failed' PROVE AsUnit(u)'
    <3> DEFINE c == conf.units[u]
    <3>1. u \notin DOMAIN ifaces
      BY <2>1, <2>2, <2>3, <2>4, <2>7 DEF IfacesOK, Blank
    <3>2. SUFFICES ASSUME Device(u) \in Devices, Good(c.vrf)
                   PROVE  /\ u \in DOMAIN ifaces'
                          /\ ifaces'[u] = [table |-> c.vrf, address |-> c.address]
      BY <2>1, <2>6 DEF AsUnit
    <3>3. TableOf(c) = c.vrf
      <4>1. CASE c.vrf = Global
        BY <4>1, NameAssumption DEF TableOf, TypeOK
      <4>2. CASE c.vrf \in conf.vrfs \ failed
        <5>1. c.vrf \in Vrfs \ failed /\ c.vrf \in VrfsSoFar
          BY <2>1, <4>2, ConfAssumption DEF VrfsSoFar, TypeOK
        <5>2. c.vrf \in known
          BY <2>1, <5>1 DEF VrfsOK
        <5> QED
          BY <5>2 DEF TableOf
      <4> QED
        BY <3>2, <4>1, <4>2 DEF Good
    <3>4. ifaces' = [i \in DOMAIN ifaces \cup {u} |->
                        IF i = u THEN [table |-> TableOf(c), address |-> c.address] ELSE ifaces[i]]
      BY <1>3, <2>7, <3>1, <3>2 DEF SetUpUnit, Fails
    <3> QED
      BY <3>3, <3>4
  <2>8. ASSUME NEW i \in DOMAIN ifaces' \ failed'
        PROVE  Blank(i)' \/ i \in UnitsSoFar'
    BY <2>1, <2>2, <2>3, <2>5 DEF IfacesOK, Blank
  <2>9. ASSUME NEW i \in UnitsSoFar' \ failed'
        PROVE  AsUnit(i)'
    BY <2>1, <2>2, <2>3, <2>5, <2>6, <2>7 DEF IfacesOK, AsUnit
  <2> QED
    BY <2>1, <2>8, <2>9 DEF IfacesOK
<1>4. ASSUME NEW r \in todo, AddGlobalRoute(r) PROVE IfacesOK'
  <2>1. pc = "routes" /\ pc' = pc /\ failed \subseteq failed' /\ UNCHANGED <<conf, ifaces>>
    BY <1>4 DEF AddGlobalRoute, Take, Fails, Works
  <2> QED
    BY <2>1 DEF IfacesOK, Blank, UnitsSoFar, AsUnit, Good
<1>5. ASSUME NEW x \in todo, DeleteTap(x) \/ DeleteVrf(x) \/ CreateVrf(x) PROVE IfacesOK'
  BY <1>5 DEF DeleteTap, DeleteVrf, CreateVrf, Take, IfacesOK
<1>6. CASE CreateTap
  BY <1>6 DEF CreateTap, Take, IfacesOK
<1>7. ASSUME NEW c \in Confs, Start(c) PROVE IfacesOK'
  BY <1>7 DEF Start, IfacesOK
<1>8. CASE End
  BY <1>8 DEF End, IfacesOK
<1>9. CASE UNCHANGED vars
  BY <1>9 DEF vars, vpp, IfacesOK, Blank, UnitsSoFar, AsUnit, Good
<1> QED
  BY <1>1, <1>2, <1>3, <1>4, <1>5, <1>6, <1>7, <1>8, <1>9 DEF Next, Step

-----------------------------------------------------------------------------

StartUpInv == Typed /\ RoutesHaveTables /\ TapsOK /\ VrfsOK /\ IfacesOK /\ GlobalOK

LEMMA StartUpImplies == StartUpInv => AsConfigured
<1> SUFFICES ASSUME StartUpInv, pc = "up" PROVE AsConfigured
  BY DEF AsConfigured
<1>1. \A v \in Vrfs \ failed :
         /\ v \in vrfs <=> v \in conf.vrfs
         /\ v \in vrfs => RoutesIn(v) = RoutesOf(conf, v)
  BY DEF StartUpInv, VrfsOK, VrfsSoFar
<1>2. \A u \in DOMAIN conf.units \ failed : AsUnit(u)
  BY DEF StartUpInv, IfacesOK, UnitsSoFar
<1>3. \A i \in DOMAIN ifaces \ failed :
         IF i \in Devices THEN ifaces[i].address = NoAddress ELSE i \in DOMAIN conf.units
  <2>1. DOMAIN conf.units \cap Devices = {}
    BY ConfAssumption, NameAssumption DEF StartUpInv, Typed, TypeOK
  <2> QED
    BY <2>1 DEF StartUpInv, IfacesOK, UnitsSoFar, Blank
<1>4. "tap" \notin failed => Cardinality(taps) = 1 /\ cp = taps
  BY FS_Singleton DEF StartUpInv, TapsOK, OneTap
<1>5. "route" \notin failed => RoutesOf(conf, Global) \subseteq routes
  BY DEF StartUpInv, GlobalOK
<1> QED
  BY <1>1, <1>2, <1>3, <1>4, <1>5 DEF AsConfigured, AsUnit

\* When the constructor is done VPP has what the configuration says, but for the
\* things a call failed for: the loops of earlier phases leave nothing behind
\* that a later one trips over.
THEOREM StartUpConfigures == Spec => []AsConfigured
<1>1. Init => StartUpInv
  BY TypedInitially DEF Init, StartUpInv, RoutesHaveTables, TapsOK, VrfsOK, IfacesOK, GlobalOK
<1>2. StartUpInv /\ [Next]_vars => StartUpInv'
  BY TypedStep, RoutesStep, TapsStep, VrfsStep, IfacesStep, GlobalStep DEF StartUpInv
<1> QED
  BY <1>1, <1>2, StartUpImplies, PTL DEF Spec
=============================================================================
