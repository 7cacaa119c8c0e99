----------------------------- MODULE VppStartUp -----------------------------
(* What the constructor of PPPOERuntime (runtime.cpp) makes of VPP with the  *)
(* calls of vpp.cpp: it removes what the daemon may have left there before   *)
(* and sets up taps, VRFs, subinterfaces and routes of the configuration.    *)
(* VPP outlives the daemon; a call may fail, and the daemon may die anywhere *)
(* and be started with another configuration. A loop of the constructor is a *)
(* phase, its body a step; a loop goes over what VPP or the configuration    *)
(* had when it began.                                                        *)
EXTENDS Naturals, FiniteSets

CONSTANTS
    Devices,   \* the hardware interfaces VPP has
    Units,     \* units a configuration may name
    Device(_), \* the device a unit is on; VPP may lack it
    Taps,      \* tap interfaces
    Vrfs,      \* names of VRFs
    Global,    \* table 0
    NoAddress,
    Confs,     \* the configurations the daemon may be started with
    MaxFailed  \* bound: things a call fails for, in one start

ASSUME NameAssumption == Global \notin Vrfs /\ Devices \cap Units = {} /\ IsFiniteSet(Taps)
ASSUME BoundAssumption == MaxFailed \in Nat
ASSUME ConfAssumption ==
    \A c \in Confs :
       /\ c.vrfs \subseteq Vrfs /\ DOMAIN c.units \subseteq Units
       /\ \A u \in DOMAIN c.units : c.units[u].vrf \in Vrfs \cup {Global}

VARIABLES
    conf,    \* PPPOERuntime::conf
    pc,      \* the phase of the constructor; "up": it is done
    todo,    \* what the loop has not come to yet
    known,   \* VPPAPI::vrfs
    failed,  \* history: what a call failed for since the start
    taps, cp, vrfs, ifaces, routes   \* VPP

vpp == <<taps, cp, vrfs, ifaces, routes>>
vars == <<conf, pc, todo, known, failed, vpp>>

Phase == {"down", "taps", "tap", "oldVrfs", "vrfs", "clear", "units", "routes", "up"}
Table == Vrfs \cup {Global}
Address == {NoAddress} \cup UNION {{c.units[u].address : u \in DOMAIN c.units} : c \in Confs}
Item == Taps \cup Vrfs \cup Devices \cup Units \cup {"tap", "route"}

RoutesOf(c, table) == {r \in c.routes : r.table = table}
RoutesIn(table) == {r \in routes : r.table = table}

TypeOK ==
    /\ conf \in Confs /\ pc \in Phase
    /\ known \subseteq Vrfs /\ failed \subseteq Item
    /\ taps \subseteq Taps /\ cp \subseteq taps /\ vrfs \subseteq Vrfs
    /\ Devices \subseteq DOMAIN ifaces /\ DOMAIN ifaces \subseteq Devices \cup Units
    /\ \A i \in DOMAIN ifaces : ifaces[i] \in [table : Table, address : Address]

\* A VPP nobody has configured, except for addresses given to a device by hand.
Init ==
    /\ conf \in Confs /\ pc = "down" /\ todo = {} /\ known = {} /\ failed = {}
    /\ taps = {} /\ cp = {} /\ vrfs = {} /\ routes = {}
    /\ \E address \in Address : ifaces = [d \in Devices |-> [table |-> Global, address |-> address]]

-----------------------------------------------------------------------------
(* The loops. *)

\* The loop of one phase is done; that of the next goes over work.
Then(phase, next, work) == pc = phase /\ pc' = next /\ todo' = work

NextPhase ==
    /\ todo = {}
    /\ \/ Then("taps", "tap", {"tap"})
       \/ Then("tap", "oldVrfs", vrfs)
       \/ Then("oldVrfs", "vrfs", conf.vrfs)
       \/ Then("vrfs", "clear", DOMAIN ifaces)
       \/ Then("clear", "units", DOMAIN conf.units)
       \/ Then("units", "routes", RoutesOf(conf, Global))
       \/ Then("routes", "up", {})
    /\ UNCHANGED <<conf, known, failed, vpp>>

Take(phase, x) == pc = phase /\ x \in todo /\ todo' = todo \ {x} /\ UNCHANGED <<conf, pc>>

\* A call for x fails, or none does. Failures are logged only.
Fails(x) == Cardinality(failed \cup {x}) <= MaxFailed /\ failed' = failed \cup {x}
Works == UNCHANGED failed

DeleteTap(t) ==
    /\ Take("taps", t)
    /\ \/ Works /\ taps' = taps \ {t} /\ cp' = cp \ {t}
       \/ Fails("tap") /\ UNCHANGED <<taps, cp>>
    /\ UNCHANGED <<known, vrfs, ifaces, routes>>

ControlPlane(t) == cp \cup {t}   \* add_pppoe_cp()

\* Seeded fault: the result of create_tap() is not looked at.
ControlPlaneAnyway(t) == ControlPlane(t)

\* No call is made for a tap that could not be created.
ControlPlaneWithoutTap(t) == cp

CreateTap ==
    /\ Take("tap", "tap")
    /\ \E t \in Taps \ taps :
          \/ Works /\ taps' = taps \cup {t} /\ cp' = ControlPlane(t)
          \/ Fails("tap") /\ taps' = taps \cup {t} /\ UNCHANGED cp
          \/ Fails("tap") /\ UNCHANGED taps /\ cp' = ControlPlaneWithoutTap(t)
    /\ UNCHANGED <<known, vrfs, ifaces, routes>>

\* set_vrf( ..., false ): a table goes with its routes. VPPAPI::vrfs gets the name
\* dump_vrfs() gave, which ends in NULs: the name of no unit and no session.
DeleteVrf(v) ==
    /\ Take("oldVrfs", v)
    /\ \/ Works /\ vrfs' = vrfs \ {v} /\ routes' = {r \in routes : r.table # v}
       \/ Fails(v) /\ UNCHANGED <<vrfs, routes>>
    /\ UNCHANGED <<known, taps, cp, ifaces>>

\* Seeded fault: routes are added although the VRF could not be created.
RoutesOfFailed(v) == RoutesOf(conf, v)

\* The loop goes on with the next VRF.
RoutesWithoutVrf(v) == {}

CreateVrf(v) ==
    /\ Take("vrfs", v)
    /\ \/ /\ Works /\ vrfs' = vrfs \cup {v} /\ known' = known \cup {v}
          /\ routes' = routes \cup RoutesOf(conf, v)
       \/ /\ Fails(v) /\ UNCHANGED <<vrfs, known>>
          /\ routes' = routes \cup RoutesWithoutVrf(v)
       \/ /\ Fails(v) /\ vrfs' = vrfs \cup {v} /\ known' = known \cup {v}   \* add_route()
          /\ \E some \in SUBSET RoutesOf(conf, v) : routes' = routes \cup some
    /\ UNCHANGED <<taps, cp, ifaces>>

\* Seeded fault: only subinterfaces are cleared.
ClearedSubifs(i) ==
    IF i \in Units THEN [j \in DOMAIN ifaces \ {i} |-> ifaces[j]] ELSE ifaces

\* Addresses go, and a subinterface with them.
Cleared(i) ==
    IF i \in Units THEN [j \in DOMAIN ifaces \ {i} |-> ifaces[j]]
    ELSE [ifaces EXCEPT ![i].address = NoAddress]

Clear(i) ==
    /\ Take("clear", i)
    /\ \/ Works /\ ifaces' = Cleared(i)
       \/ Fails(i) /\ (UNCHANGED ifaces \/ ifaces' = [ifaces EXCEPT ![i].address = NoAddress])
    /\ UNCHANGED <<known, taps, cp, vrfs, routes>>

\* set_interface_table(): a VRF VPPAPI does not know means the global table.
TableOf(c) == IF c.vrf \in known THEN c.vrf ELSE Global

\* setup_interfaces(): a device VPP does not have is skipped, and so is a unit
\* that cannot be created. One that VPP has already cannot: where the code sees no
\* failure (a retval other than -1) it goes on with interface ~0, to no effect. A
\* unit whose table could not be set gets its address all the same, in the global
\* table.
SetUpUnit(u) ==
    /\ Take("units", u)
    /\ LET c == conf.units[u]
           With(table, address) ==
               [i \in DOMAIN ifaces \cup {u} |->
                   IF i = u THEN [table |-> table, address |-> address] ELSE ifaces[i]]
       IN  \/ (Device(u) \notin Devices \/ u \in DOMAIN ifaces) /\ Works /\ UNCHANGED ifaces
           \/ /\ Device(u) \in Devices /\ u \notin DOMAIN ifaces
              /\ \/ Works /\ ifaces' = With(TableOf(c), c.address)
                 \/ Fails(u) /\ UNCHANGED ifaces
                 \/ Fails(u) /\ \E table \in {Global, TableOf(c)}, address \in {NoAddress, c.address} :
                                   ifaces' = With(table, address)
    /\ UNCHANGED <<known, taps, cp, vrfs, routes>>

AddGlobalRoute(r) ==
    /\ Take("routes", r)
    /\ \/ Works /\ routes' = routes \cup {r}
       \/ Fails("route") /\ UNCHANGED routes
    /\ UNCHANGED <<known, taps, cp, vrfs, ifaces>>

-----------------------------------------------------------------------------

Start(c) ==
    /\ pc = "down"
    /\ conf' = c /\ pc' = "taps" /\ todo' = taps /\ known' = {} /\ failed' = {}
    /\ UNCHANGED vpp

\* The process ends, by a signal or a crash, also halfway through.
End ==
    /\ pc # "down" /\ pc' = "down" /\ todo' = {} /\ known' = {}
    /\ UNCHANGED <<conf, failed, vpp>>

Step == \E x \in todo :
    \/ DeleteTap(x) \/ DeleteVrf(x) \/ CreateVrf(x) \/ Clear(x) \/ SetUpUnit(x) \/ AddGlobalRoute(x)

Next == NextPhase \/ Step \/ CreateTap \/ (\E c \in Confs : Start(c)) \/ End

Spec == Init /\ [][Next]_vars

-----------------------------------------------------------------------------
(* Properties. *)

\* No route is in a table that does not exist (the continue after set_vrf).
RoutesHaveTables == \A r \in routes : r.table \in vrfs \cup {Global}

Good(v) == v = Global \/ (v \in conf.vrfs /\ v \notin failed)

\* Once the daemon is up VPP has what the configuration says, whatever an earlier
\* run with whatever configuration left there, wherever that run ended: a failed
\* call spoils only the tap, VRF, interface, unit or global route it was made for,
\* and the units of a VRF that failed. Global routes of an earlier configuration
\* stay.
AsConfigured ==
    pc = "up" =>
        /\ \A v \in Vrfs \ failed :
              /\ v \in vrfs <=> v \in conf.vrfs
              /\ v \in vrfs => RoutesIn(v) = RoutesOf(conf, v)
        /\ \A u \in DOMAIN conf.units \ failed :
              Device(u) \in Devices /\ Good(conf.units[u].vrf)
                 => /\ u \in DOMAIN ifaces
                    /\ ifaces[u] = [table |-> conf.units[u].vrf, address |-> conf.units[u].address]
        /\ \A i \in DOMAIN ifaces \ failed :
              IF i \in Devices THEN ifaces[i].address = NoAddress ELSE i \in DOMAIN conf.units
        /\ "route" \notin failed => RoutesOf(conf, Global) \subseteq routes
        /\ "tap" \notin failed => Cardinality(taps) = 1 /\ cp = taps
=============================================================================
