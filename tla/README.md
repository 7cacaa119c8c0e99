# pppcpd in TLA+

pppcpd is the control plane of a PPPoE server. It answers PPPoE discovery,
negotiates PPP (LCP, PAP or CHAP, IPCP) with each subscriber, asks RADIUS or a
local template who the subscriber is and which address it gets, programs a VPP
dataplane, and keeps accounting up to date. These modules model the parts where
state, time and order decide whether it works; TLC checks them on small
instances and TLAPS proves all their safety properties for all instances.

The daemon is one process with one `boost::asio` event loop in one thread
(`main.cpp`). Every handler runs to its end before the next, so **one handler is
one action**. What interleaves is the order of handlers: packets, timers that
expire, datagrams, signals.

## 1. Inventory

| Component | State | Operations | Hard behaviour | What makes it correct |
|---|---|---|---|---|
| Session tables `runtime.cpp` | `pendingSession`, a 10 s timer per offer, `sessionSet`, `activeSessions`, `next_session_id` | `pendeSession`, `checkSession`, `clearPendingSession`, `allocateSession`, `deallocateSession`, `reloadConfig`, `cleanup` | timers that know a key only, two containers for one fact, 16-bit wrap-around | one owner per id, an offer is used once and never stays for ever, ids come back late |
| Discovery `pppoe.cpp` | none of its own | PADI, PADR, PADT | lost, repeated, late packets | a session only for a pending offer of that line |
| PPP automata `ppp_fsm.cpp`, `ppp_lcp.cpp`, `ppp_ipcp.cpp` | one state each | Configure, Terminate and Echo packets | two automata and a peer that negotiate at once, no retransmission | IPCP only while LCP is open, both ends agree on the address |
| Authentication `ppp_auth.cpp`, `ppp_chap.cpp` | `started`, the bound AAA session | requests, callbacks | callbacks at any later time, requests repeated meanwhile | one identity and one address per session |
| Session object `session.cpp`, `ppp.cpp` | `started`, `address`, echo timer and counter | dispatch, provisioning, echo | object kept alive by its timer | a dead peer is found, the dataplane is cleaned |
| RADIUS client `auth_client.cpp` | ids, `callbacks`, armed receives, one shared buffer | `request`, `on_rcv`, `expire_check` | late, repeated, foreign datagrams; answer and timeout at once | each request ends, with its own answer or an error |
| AAA, pools, accounting `aaa.cpp`, `aaa_session.cpp` | `sessions`, the pool's `ips`, interim timers | start, stop, accounting answers and timeouts, SIGHUP | lifetime by reference count, answers after a stop | no address leased twice or lost, one update cycle |
| VPP API `vpp.cpp` | VPP's sessions, interfaces, tables, routes, and what `VPPAPI` remembers of them | calls that block the loop, start-up in the constructor of `PPPOERuntime` | partial failure, VPP outlives the daemon, another configuration after a restart | VPP forwards for the sessions there are, and is what the configuration says |
| Event loop `evloop.cpp`, `main.cpp` | sockets, send queues | receive, 20 ms send tick, signals | handlers that hold objects, destruction order at exit | an object ends while what it uses still exists |
| Frames, tags `encap.cpp`, `pppoe.cpp`, `packet.hpp` | none | `parseTags`, `insertTag`, VLAN headers | 8-bit lengths, tags the kernel takes out | an answer goes back to the line, with the tags asked for |
| RADIUS attributes `radius_avp.cpp`, `request_response.cpp` | the dictionary | the fields of a request to bytes, bytes to attributes | 8-bit lengths, one attribute of a code | what was meant is what is read |
| CLI `cli.cpp`, `pppctl.cpp` | one command at a time | the tree of commands, the exchange over a unix socket | partial writes, the end mark inside an answer | an answer belongs to its command, every command ends |
| YAML, logging, helpers | none that decides anything | parsing and printing | | |

How they interact: `evloop` hands packets to `pppoe` or `ppp`. `pppoe` works on
the tables of `runtime`. `ppp` looks the session up there and drives its
automata; authentication calls `aaa` with a callback; `aaa` calls the RADIUS
client with two handlers and creates `AAA_Session` objects; IPCP reads the
address of the bound AAA session and calls VPP; the end of a session
(`deallocateSession`) stops its AAA session and drops its object. PROJECT.json
lists every component and every hazard with its line.

## 2. Modules

| Module | Models | Uses |
|---|---|---|
| `SessionTable` | abstract: what the tables promise about ids | |
| `PppoeRuntime` | the tables of `PPPOERuntime` and the operations on them | |
| `PppoeDiscovery` | discovery over these tables; refines `SessionTable` | `PppoeRuntime` |
| `PppoeIdReuse` | `PppoeDiscovery` with a history of the ids in use | `PppoeDiscovery` |
| `PppFsm` | the automaton of LCP and IPCP, as pure operators | |
| `PppSession` | one session with its subscriber over Ethernet | `PppFsm` |
| `RadiusClient` | `AuthClient` and the event loop's queue | |
| `AaaSessions` | AAA sessions, one pool, accounting | |
| `Subscribers` | tables, session objects, late answers, AAA and VPP together, over exits and restarts; refines `SessionTable` | `PppoeRuntime` |
| `VppStartUp` | what the constructor of `PPPOERuntime` makes of VPP | |
| `DiscoveryTags`, `Encapsulation`, `RadiusAttributes` | formats, as pure operators | |
| `Codecs` | the three formats, case by case | these three |
| `CommandLine` | `pppctl` and the daemon's end of its socket | |
| `PppoeDiscovery_proofs` (with `PppoeIdReuse`), `PppSession_proofs`, `RadiusClient_proofs`, `AaaSessions_proofs`, `Subscribers_proofs`, `VppStartUp_proofs`, `Codecs_proofs`, `CommandLine_proofs` | the theorems | the modules they name |
| `MC...` | values of the constants for TLC | |

Operators marked *Seeded fault* change one definition the way a bug in that code
would; they are part of no specification. PROJECT.json pairs each with the
property that finds it.

### PppoeRuntime, PppoeDiscovery, PppoeIdReuse

Each operation of `runtime.cpp` is an operator of the same name. Ids are
`1..MaxSid`, `SidAfter` is the `uint16_t` increment that skips 0, and
`FirstFree` says which id the do-while loop stops at: the free id that needs the
fewest steps from `next_session_id`. `pendingTimers` is a queue because all the
timers run 10 s. `offers` and `granted` remember every PADO and PADS ever sent, so
a subscriber may answer one at any later time and any number of times: loss,
delay, duplication and reordering are all in this. `SessionDown` stands for
every call of `deallocateSession` from PPP, including one from a session object
that left the tables long ago. An id in that call, as in the code, is only an id.

`PppoeIdReuse` adds `usedSince`, a variable that restricts nothing, to say that
an id comes back only after all the others were in use. `FairReuseSpec` is the
specification TLC runs: it has every behaviour of `PppoeDiscovery`.

### PppFsm and PppSession

`PppFsm` is a function from state and packet to state, action and packets, for
both automata; what `check_conf` thinks of a request is a parameter (`Verdict`).
`PppSession` puts two automata together with authentication, AAA as seen from
the session, the echo timer, the dataplane entry and a subscriber. `ReceiveLcp`,
`ReceiveAuth` and `ReceiveIpcp` are the cases of the switch in `processPPP`;
`RadiusAccepts`, `RadiusRejects` and `RadiusFails` are the ends of a RADIUS request.
The subscriber is an RFC 1661 peer, which is not part of the daemon; it starts
with a correct request or one with an option the server rejects, sends requests
again up to a bound, and may leave at any time with a Terminate-Request, a PADT
or nothing. Ethernet keeps the order but may lose and repeat packets.

`echoArmed` is also the reference that keeps the object alive after it left the
tables; `Release` is its destructor. `bound` counts how often an AAA session was
bound, and `assigned` remembers what AAA assigned each time: 0.0.0.0 when no pool
is named or its addresses are all leased (`NoAddr`). `address`, the copy in the
session, starts with any value, because no constructor sets it. `dp` is the entry
in VPP, or `NoEntry`. Where `VppFails`, VPP may refuse to add or delete it;
`ReceiveIpcp` then goes on as `ppp.cpp` does: it logs and starts the echo timer.

### RadiusClient

asio is modelled as the code depends on it: a completed receive or an expired or
cancelled timer only queues a handler (`ready`), and `cancel()` does not recall a
handler already queued. A receive fills the shared `buf` when it completes, not
when its handler runs. A datagram carries an id and the request its
authenticator was made for, 0 if none.

### AaaSessions

An object lives as long as the map, its timer, a queued `on_interim` or a
pending accounting request refers to it (`Referenced`); `Update` is one step of
an object's life, with its destructor when the last reference goes. RADIUS is
seen as `AAA` sees it: each request is answered or fails, at any time, in any
order. All templates name one pool, and addresses RADIUS assigns itself are
outside that pool (`PoolAssumption`).

### Subscribers

The components composed where they share objects. `PppSession` has one session
and no place for it; `PppoeDiscovery` has no objects; here a `PPPOESession` is a
record in a place in memory (`Objects`), and stays there while the tables or its
echo timer refer to it (`Settle` destroys it otherwise). A RADIUS request keeps
the place its callback will write to, the bare `this` of `auth_callback`, so that
the answer may find the object gone, or a different session in the place. AAA
sessions have the lowest free id, as `startSession` gives them. VPP is keyed by
MAC address and id, refuses an entry it has, and outlives the daemon: `Exit`,
`Crash` and `Start` keep `dp`. `ProvisionDp` has each way `provision_dp` may fail
(`known`, `added`, `complete`), `Deprovisioned` what `deprovision_dp` asks VPP for,
including `~0` for an object that never got an interface. The negotiation of PPP
is reduced to the events these parts see: `AuthRequest`, `IpcpUp`, `SessionDown`.

The code does not keep its parts in step after some events. `mishaps` remembers
them, so that each property says up to which it holds:

| Mishap | Event |
|---|---|
| `orphan` | an answer creates an AAA session for an object that left the tables, is gone, or has one already |
| `dangling` | an object is destroyed while a RADIUS request points at it |
| `conflict` | an id is given out while VPP or an old object still has it, or a later authentication brings a VRF `VPPAPI` does not know |
| `bare` | an object without an interface is destroyed, and VPP is asked for the unnumbered interfaces of all |

### VppStartUp

The constructor of `PPPOERuntime` with the calls of `vpp.cpp`: a loop is a phase
(`pc`), its body a step over `todo`. It removes old taps, VRFs, subinterfaces and
addresses, then sets up what the configuration names. A failed call is only
logged, so a step may do nothing and note in `failed` for what; the daemon may die
at any step and be started with another configuration. The name of a VRF stands
for its table; the unnumbered interfaces of units, which YAML never fills in, are
left out.

### DiscoveryTags, Encapsulation, RadiusAttributes, Codecs

What `parseTags` and `insertTag` do to the tags of a packet, with lengths modulo
`Byte`; how the VLAN tags of a frame become the line a session is filed under and
the header of an answer, with the first tag taken out by the kernel.
`RadiusAttributes` goes from the fields of a PAP, CHAP or accounting request to
its attributes (`PapAttributes`, `ChapAttributes`, `AcctAttributes`: an empty field
is left out, and so is a Framed-Protocol or Service-Type without a VALUE line),
from these to bytes, sorted and one of a number (`std::set<AVP>`), and back.
`ParseAvps` has no bounds check, as `AVP::AVP` has none: `Beyond` is what the memory
behind a packet may hold, and an attribute that is too long is read from there.
The hiding of a password is a parameter (`Hide`).

`Codecs` takes every input of a finite set, lets the daemon answer once, and
compares the answer with what the other side reads. Each case is one step and
then over, so deadlock is not checked.

### CommandLine

One `pppctl` at a time. `CallCmd` is the walk through the tree of commands. An
answer is binary data and may contain the end mark `"\r\n\r\n"` anywhere: it is a
sequence of pieces, each ending where the mark is. `async_write_some` may write a
part only (`cut`); `read_until` may read beyond the mark, and what it read too much
is lost with its buffer (`Read`).

## 3. Runs

| Run | Bounds | Shows |
|---|---|---|
| `PppoeDiscovery` | 2 lines, 1 cookie and none, 3 ids, 2 timers; 368,586 states | `ReuseTypeOK`, `TablesAgree`, `PendingHasTimer`, `EverySessionUsesUpAnOffer`, `RefusedOnlyWhenFull`, `ReusedLast`, refinement of `SessionTable`; liveness `EveryOfferEnds` |
| `PppSession` | CHAP, RADIUS, 2 addresses, VPP may fail, 1 loss, 1 repetition, 1 request sent again; 2,155,686 states | `NetworkPhaseNeedsLink`, `AddressAgreement`, `ProvisionedWithAddress` |
| `PppSessionLive` | PAP, NONE then RADIUS, reliable link, VPP does not fail; 374,010 states | `SessionComesUp`, `DeadPeerIsStopped` |
| `RadiusClient` | 3 requests, 2 ids, 3 datagrams; 38,541 states | `OnlyGenuineAnswers`, `NothingAfterError`, `EntryEndsOnce`, `EveryRequestEnds` |
| `AaaSessions` | pool of 1, 1 framed address, 2 objects | `UniqueLease`, `PoolMatchesLeases`, `OneUpdateCycle`, `NoAddressOnlyWhenFull`, `StoppedSessionGoes` |
| `Subscribers` | 2 lines with one MAC address, 2 ids, 2 places, 1 RADIUS request, 2 AAA sessions, 1 missed echo; 1,247,958 states | `BoundToLiveAaa`, `OwnAaa`, `AaaAgrees`, `DataplaneAgrees`, `SettingsKept`, `ZombieGoes` |
| `VppStartUp` | 1 device VPP has and one it lacks, 2 VRFs, 3 units, 2 taps, 3 configurations, 1 failure in a start; 646,624 states | `RoutesHaveTables`, `AsConfigured` |
| `Codecs` | tags of less than 8 bytes, VLANs below 4, attributes of less than 16 bytes; up to 3 tags or VLAN tags; all requests over 2 to 4 texts a field; 66,258 states | `AnswersEcho`, `AnswerGoesBack`, `RequestReadsBack` |
| `CommandLine` | 3 commands, 5 inputs, answers of 2 pieces, 2 messages left in the socket; 8,222 states | `AnswerIsForCommand`, `EveryCommandEnds` |
| `PppRejected`, `AaaReload`, `SubscribersExit` | as small as the counterexample allows | the disagreements of section 6 |

Why the bounds are enough. Three ids are fewer than the offers two lines can have
open, so the id space fills, wraps and is searched from every start, and an id
goes round several times. Two timers allow two handshakes under one key with an
older timer still armed. The RADIUS client has more requests than ids, so ids are
reused while late answers are on the way and a request can meet a taken id; three
datagrams allow an overwritten buffer and a repeated answer. One pool address and
two objects make the pool run out while a stopped session still holds the
address. Two addresses are what is needed to tell two AAA sessions apart; the
echo limit of 9 is 1 or 2, since only reaching it or not matters.

In `Subscribers` a late answer needs the session it was made for, its end, and
another session in the same place: two of each suffice. The lines share a MAC
address, as two VLANs of one router do, so that VPP's keys differ by the id alone
and a stale entry can be met. Its symmetry is sound: lines and places occur in no
ordering and no constant tells them apart, and the run has no liveness property.
The configurations of `VppStartUp` differ in every way a restart has to undo: a
unit that moves to another VRF, one that is dropped, one on a device VPP lacks,
one in a VRF the configuration does not define, a VRF that goes. Sizes in
`Codecs` are chosen around the limit of a byte, so that the longest value that
fits and the shortest that does not both occur, and a text whose length a byte
takes for that of a header; the dictionary of the run lacks the names of the
access line, so that two attributes get the number 0. In `CommandLine` two commands can
be in the socket together, which needs an answer that ended early.

Deadlock is not checked where the system really may stop: a session whose peer
is gone, a client with nothing left to do, a case of `Codecs` that is over.

## 4. Fairness

- A timer that was armed fires, and the event loop runs every queued handler
  and reads every packet (`PendingTimeout`, `EchoTimer`, `TimerExpires`,
  `RunOnRcv`, `RunExpireCheck`, `SocketReads`, `ServerReceives`, `Daemon`): asio does.
- A RADIUS request is answered or times out after 5 s (`auth_client.hpp`):
  fairness of the disjunction, never of the answer (`Results` in `AaaSessions`).
- The subscriber opens LCP and reacts to what it receives; it need not send
  anything again, and may leave.
- `pppctl` reads when there is something to read (`Read`); the user need not type.

Nothing is assumed about lost packets; `SessionComesUp` is therefore checked on
a link that loses none, and with a VPP that does not fail: a session whose
entry VPP refused stays without it, and one whose deletion it refused stays there
(`DeadPeerIsStopped`). With a lost Configure-Request of the server it does not
hold: the daemon sends nothing twice. `Subscribers` and `VppStartUp` state no
fairness and no liveness: VPP may fail for ever.

## 5. Proofs

Every invariant and action property of a passing run is a theorem: for every set
of lines, cookies and places, every number of ids, timers, addresses, requests,
tags, configurations and failures, from the named assumptions in the modules only.

- `PppoeDiscovery_proofs`: `TypeCorrect`, `TablesAlwaysAgree`,
  `PendingAlwaysTimed`, `OneSessionPerOffer`, `RefusalMeansFull`,
  `DiscoveryImplementsSessionTable`. The invariant is `TypeOK /\ TablesAgree`;
  under it the failure branch of the second `emplace` in `allocateSession` is
  dead code (`AllocateEffect`) and `deallocateSession` drops exactly one session
  (`DeallocateEffect`), from which each step refines a step of `SessionTable`.
  `ReuseTypeCorrect` and `FreedIdsComeBackLast` are about `PppoeIdReuse`. `ReusedLast`
  is not inductive. The strengthening `Passed` says that `usedSince[id]` contains
  every id on the arc from `id` up to the one given out last, walking up and
  around; when the search comes to `id` again it has passed the rest of the
  circle, which is in use right now (`FoundSawAll`).
- `PppSession_proofs`: `TypeCorrect`, `NetworkAfterLink`, `ProvisionHasAddress`,
  `AddressesAgree`, for any number of packets lost, repeated and sent again.
  First what the automaton can do (`ReceiveEffect`), then each handler
  (`LcpEffect`, `AuthEffect`, `BindEffect`, `IpcpEffect`), the subscriber
  (`PeerStep`) and the link (`LinkStep`). Three strengthenings: `NoAuthYet`,
  before LCP is open under CHAP nothing of an authentication is in flight;
  `Given`, an address of AAA was copied when IPCP is in Ack_Sent or the echo
  timer runs, VPP's entry has one, and the session bound now is among those
  assigned (`Binding`); `Agreed`, the argument about identifiers: a request in
  flight is old or asks for what the subscriber wants now (`Fresh`), an
  acknowledgement in flight answers an old request or is for the address of the
  AAA session (`Honest`). `ProvisionHasAddress` does not need VPP to succeed,
  nor one binding only: an address of AAA, 0.0.0.0 included, is all VPP ever
  gets. `NetworkAfterLink` assumes CHAP: with PAP a subscriber can be
  authenticated before the server's LCP is open.
- `RadiusClient_proofs`: `TypeCorrect`, `AnswersAreGenuine`, `ErrorsAreFinal`,
  `EntriesEndOnce`. `ErrorsAreFinal` needs `Expects`: a request waits under one id
  only and has heard no error. `EntriesEndOnce` is shown id by id (`Once`): an
  entry, its timer and the handlers queued for it.
- `AaaSessions_proofs`: `TypeCorrect`, `LeasesAreUnique`, `PoolInStep`,
  `OutOfAddressesMeansFull`, `UpdatesDoNotMultiply`. The strengthening `Origin`
  says where an address comes from: a session without `free_ip` has an address
  RADIUS assigned, and so none of the pool's. The invariant is `Origin` with
  `UniqueLease` and `PoolMatchesLeases` together. `UpdatesDoNotMultiply` follows
  one token through an object's life, `armed`, `due`, Start or Alive pending: each
  step passes it on or drops it, and none makes a second.
- `Subscribers_proofs`: `TypeCorrect`, `AuthenticatedIsBound`, `AaaInStep`,
  `BoundToItsOwn`, `ZombiesGo`, `DataplaneInStep`, `SettingsStay`. Every step is
  first classified by what it does to the sessions (`Quiet`, `Ends`, `Empties`) and to
  the objects (`Kept`, `Sent`, `Touches`). `BoundToItsOwn` needs that a request on
  the way finds the object it was made for (`RequestsOwn`), true until `dangling`;
  `DataplaneInStep` needs `VppOK`: no two objects have one id, each one with an
  interface has VPP's entry (`Forwards`), and each new entry has an object (`Owned`).
  `ObjectsImplementSessionTable`: an id belongs to the line of the object filed
  under it (`Owner`), and every step of `Subscribers`, exits and crashes included,
  is a step of `SessionTable` or none (`FiledOpens`, `FiledCloses`, `StaysFiled`). It
  rests on `TypeCorrect` alone, so it holds after any mishap. `PppoeDiscovery`
  refines the same abstract module without objects; this theorem is what allows
  its answers about ids to be used when the objects are there.
- `VppStartUp_proofs`: `TypeCorrect`, `RoutesAlwaysHaveTables`,
  `StartUpConfigures`. The invariant says for each loop what it has done so far
  (`TapsOK`, `VrfsOK`, `IfacesOK`, `GlobalOK`); at the end they add up to
  `AsConfigured`.

- `Codecs_proofs`: `EveryAnswerEchoes`, `AnswersGoBack`, `RequestsReadBack`. The
  formats are folds over sequences and recursive functions over bytes, and the
  provers can use neither an induction theorem with an operator as parameter nor
  one on recursive functions. Induction is therefore a statement about a *set* of
  naturals (`NatSetInduction`, from its least element), and by it a function that
  satisfies the recursive equation exists for every length (`SumExists`,
  `FlattensExists`, `ReadsExists`). With these: a packet whose tags
  fit is intact (`SumsCompare`, `IntactMeansShort`), the tags of
  `insertTag` parse back (`ParsesBack`), a set written in ascending order holds each
  element once (`IncreasingLists`), and `parseAVP` finds the attributes at the
  places where `serializeAVP` put them (`FlattenJoins`, `ReadsJoined`). The set keeps of
  each number the first attribute (`SetHasKept`), and the builders of the three
  requests give attributes of bytes (`AttributesAre`). That a value too long for its
  length is never read right takes no knowledge of where it stands: a length is a
  byte, so no value `parseAVP` reads is longer than a byte says, wherever it reads
  it (`ReadsAreShort`).
- `CommandLine_proofs`: `AnswersAreForTheirCommands`. The invariant `Orderly` says
  what the socket and the two ends hold while no answer was cut: at most one
  command is on its way, and the pieces read and unread are those of its answer.
  That the words typed spell the command in order is an invariant of the walk
  through the tree (`Along`).

The assumptions say what the values are, not how they behave: sizes and VLAN tags
are naturals (`SizeAssumption`, `FrameAssumption`), a packet is a sequence of tags
and a request has the fields of its struct (`PacketAssumption`, `RequestAssumption`), texts
are made of bytes (`RequestAssumption`), the names of the dictionary have different
numbers in a byte, none of them that of a vendor's attribute (`CodeAssumption`),
what lies behind a packet is at least as long as an attribute may be
(`BeyondAssumption`), a hidden password is as long as the padded one
(`RequestAssumption`), a byte is large enough for a header (`ByteAssumption`,
`OctetAssumption`), a policy has the fields of
`PPPOEPolicy` (`PolicyAssumption`), words are strings (`WordAssumption`).
`RequestAssumption` also says that the number the dictionary has for a text fits
the last of its four bytes. It does for the attributes a request has: theirs are
text, or numbers the standards number from 1 (`Framed-Protocol`, `Service-Type`,
`Acct-Status-Type`).

Only model-checked: liveness under fairness, which the prover does not handle
(`EveryOfferEnds`, `SessionComesUp`, `DeadPeerIsStopped`, `EveryRequestEnds`,
`StoppedSessionGoes`, `EveryCommandEnds`). Not a run: the refinement of
`SessionTable` by `Subscribers`, which the theorem covers.

## 6. Where the code and its documents disagree

1. `PppRejected`: after a RADIUS reject `processRadiusAnswer` goes on as after an
   accept; `docs/AUTH_GUIDE.md` says no address is obtained.
2. `AaaReload`: on SIGHUP "only policies are updated" (`docs/main.md`), yet the
   pools are replaced and forget their leases.
3. `SubscribersExit`: `main()` cleans up "to make sure of the correct order of
   destruction" (comment at `main.cpp:184`); a session whose echo timer runs is
   still held by that timer's handler, outlives `runtime` and stays in VPP.

Seen while modelling and not a run:

- `docs/CONFIG.md:190` says that without CHAP and PAP authentication is skipped;
  LCP then never sends its request (`ppp_lcp.cpp:55`) and the session stays in
  Starting; the branch of `ppp.cpp:56` that would open IPCP is never reached.
- The loop over methods goes on after NONE succeeded (`aaa.cpp:66`), and a
  repeated request authenticates again; the dataplane keeps the first address and
  IPCP hands out the second. `docs/main.md:208` binds one AAA session.
- A datagram nobody asked for is not ignored, as the comment at
  `auth_client.cpp:73` says, but uses up the receive of a waiting request.
- `stop()` cancels the timer "to prevent further updates" (`aaa_session.cpp:117`);
  an answer still on the way arms it again (`:157`).
- With methods RADIUS then NONE, NONE is never tried after a RADIUS timeout,
  although `docs/main.md` says so.
- The response handler of one RADIUS request may be called twice, because its
  entry stays until the handler of the cancelled timer runs.
- A session that NONE created never gets the unnumbered interface of its template.
- A failed `provision_dp` is only logged (`ppp.cpp:84`): the echo timer starts, the
  subscriber is told it has an address, and VPP does not forward for it.
- `AVP::AVP` reads an attribute without a look at the end of the packet
  (`radius_avp.cpp:69`), and leaves `vendor` unset for one that is no vendor's,
  although `deserialize` looks the attribute up by it.
- A subscriber silent before IPCP keeps its session for ever, as the echo timer
  starts with IPCP.
- A Configure-Request without any option is never answered (`len <= 0` in both
  `check_conf`), so the subscriber of the models always sends one.

## 7. Not modelled

- What a write to freed memory destroys: `Subscribers` says where the bare `this`
  of `auth_callback` lands, in nothing or in another session, and no more.
- YAML, logging, helpers: they decide nothing; the values of a configuration are
  CONSTANTS.
- Attributes of vendors (type 26, which no request has), MD5, what `deserialize`
  takes from a response, and the parser of dictionary files.
- Byte layouts other than tags, VLAN headers and RADIUS attributes.
- MTU, administrative state, and the statistics counters, which are up to 10 s
  old when an accounting request takes them.
- The 20 ms send queue and the opening of sockets.
- Several pools, and framed addresses inside a pool (a configuration in which
  RADIUS and the daemon assign from one range); a pool that ends at
  255.255.255.255, whose 32-bit loop never ends when it is full.

## 8. Plan

What is left, in this order:

1. `RadiusClient` composed with `AaaSessions`, each request an id of the client, in
   place of "answered or fails".
2. Accounting counters: the 10 s cache, found by interface index, that a session
   may share with the one that had its index before.
3. Two pools, and addresses RADIUS assigns from inside a pool.
4. Proofs: an abstract table of leases that `AaaSessions` refines, as the tables
   refine `SessionTable`.
