# Verification of the sdn and sdsn routing modules

TLA+ models of the two ns-3 contributed modules `src/sdn` and `src/sdsn`, the
TLC configurations that check them, and TLAPS proofs about them. Both modules
are IPv4 routing protocols for simulations of software-defined (satellite)
networks: a packet without a route waits at its switch while the switch asks a
controller.

ns-3 is a sequential discrete-event simulator: handlers are atomic, and what is
hard is the order in which scheduled calls and packets arrive, what was stored
at an earlier event and is used at a later one, and what is never scheduled
again.

## 1. The system

### sdn (`src/sdn/model`)

| part | state | operations | talks to |
|---|---|---|---|
| request queue (`sdn-rqueue`) | `m_queue`, `m_maxLen`, `m_queueTimeout` | Enqueue, Dequeue, DropPacketWithDst, Find, GetSize, the setters, Purge, Drop | called by the switch; calls the packet's error callback |
| flow table (`sdn-flow-table`) | route per pair of addresses | IsExist, Get, Add, Delete | called by the switch |
| controller (`sdn-netview`, one static `NETCENTER`) | `m_G`, `m_edges`, `m_path`, `m_swcTocon`, the index tables | CalculatePath, CalculateDelay, RecvRREQ, RecvHello, Init | schedules RecvRREP on switches |
| switch (`sdn.cc`) | `m_flowtable`, `m_queue`, `m_socketAddresses`, `m_htimer` | RouteOutput, RouteInput, DeferredRouteOutput, Forwarding, RecvRREP, SendPacketFromQueue, SendHello, the notifications of the IPv4 layer | schedules RecvRREQ and RecvHello on the controller, by function call and after a delay |

Hard behaviour: requests and replies overtake packets on the loopback device
and each other; entries expire only when somebody looks; `m_path` is a cache
with two writers and a key other than that of the flow tables; the hello timer
is cancelled by the notifications.

What has to hold: a packet accepted by the queue leaves it once; the routes
installed by replies in any order send a flow along one loop-free path; no switch of a path is forgotten; a packet that can be answered is served, in
order; the node listens on every interface that is up; hellos go on. The code
falls short of the last two, see the disagreements below.

### sdsn (`src/sdsn/model`)

| part | state | operations | talks to |
|---|---|---|---|
| network view (`NetView`, one static `LogCen`) | `m_view`, `m_snap`, `m_cache`, `m_cal_route_cache` | Install, SetControlDomain, SetPair, ControlPathRouting, UpdateSnap, CalculateRouteFromSnap | writes the routing tables and the control addresses of the nodes |
| routing table | route per destination | Add (keeps what it has), Delete, LookupRoute | called by the view, the switch and the simulation |
| request queue (`sdsn.h`) | `m_queue` | Enqueue, Dequeue; Purge is declared and has no definition | called by the switch |
| switch / controller (`sdsn.cc`) | `m_type`, `m_conIP`, `m_outSocket`, the timer | RouteOutput, RouteInput, requests, replies, hellos | UDP packets that travel over the network itself |

Hard behaviour: signalling is in-band, so messages are lost and overtake each
other; nothing is retried; a switch may be handed over at any time, and the
routing tables keep the routes of earlier domains; the measurements a hello
announces are not in the hello but in a cache every node shares.

What has to hold: control paths work in both directions after any sequence of
hand-overs; no route is a detour or a loop; a request finds a controller that
can reply; no message goes round for ever; the snapshot never goes back in time; a
packet waits for a reason; the computed routes go where they should, which they
do not (see the disagreements below).

## 2. Modules

| module | models | uses |
|---|---|---|
| `PacketCustody` | what a buffer of waiting packets promises: abstract specification | |
| `RequestQueue`, `RequestQueueProofs` | sdn request queue, refines `PacketCustody` | INSTANCE `PacketCustody` |
| `PathCalculation` | `ControlCenter::CalculatePath`, as a recursive function | |
| `MCPathCalculation`, `PathCalculationProofs` | topologies, and hellos that change delays; theorems about `CalculatePath` | `PathCalculation` |
| `RouteDiscovery` | what a network of sdn switches promises its packets: abstract specification | |
| `SdnFlow` | sdn switches, controller, queues and packets together, refines `RouteDiscovery` | the paths of `PathCalculation` through a constant; INSTANCE `RouteDiscovery` |
| `SdnFlowProofs` | theorems: routes and forwarding; the packets that wait; the refinement | `SdnFlow` |
| `SdnInterfaces`, `SdnInterfacesProofs` | sockets and hello timer of a switch, sdn or sdsn | |
| `SdsnControlDomain`, `SdsnControlDomainProofs` | sdsn network view, control domains, routing tables | |
| `SdsnSignalling`, `SdsnSignallingProofs` | sdsn requests, replies, hellos, queue, snapshot, interfaces | EXTENDS `SdsnControlDomain` |
| `SnapRoute`, `SnapRouteProofs` | `NetView::CalculateRouteFromSnap` and its cache | |
| `Iteration` | induction over the natural numbers and what it says of recursive functions: lemmas | |
| `MCRequestQueue`, `MCSdnFlow`, `MCSdsnControlDomain`, `MCSdsnSignalling` | instances: symmetry, networks, traffic | |

`MCSdnFlow` asserts (`LinePathAssumption`, `ChainPathAssumption`) that the paths
it gives `SdnFlow` are those `PathCalculation` returns for its networks.
`MCSdsnControlDomain` checks `SnapRoute` beside `SdsnControlDomain`: both are
parts of `NetView`, they share nothing but `m_view`, which neither changes, so a
behaviour has pairs or computed routes and the states do not multiply.

Names are those of the source: an action is the handler of the same name, a
variable `m_x` the member `m_x`. Definitions marked `Defect` are not part of the
model: each is a plausible mistake in the definition that follows it, and shows
that some property depends on that definition.

### The abstract specifications

`PacketCustody`: a packet the queue accepts is handed back or reported, exactly
one of the two, once. `RouteDiscovery`: a packet is held where it was sent until
its flow is answered, then goes node by node along the one path of its flow, and
ends once, not being given up where it should be delivered; of the flows between
two nodes only one is ever answered. It knows nothing of tables, queues,
requests and replies; the refinement mapping takes a flow as answered when some
switch has its entry or a reply under way (`Answered`), and a packet as held
while it is on the loopback device or queued (`Stage`).

### How the models abstract the code

- **A vector as a set with tickets** (`RequestQueue`): `push_back` is the only
  insertion and `erase` keeps the order, so an entry's position is the order of
  its arrival. Every operation but `Find` begins with `Purge`; the model makes
  `Purge` part of each action. `m_maxLen = 0` makes `Enqueue` take `front ()` of
  an empty vector; `LimitAssumption` excludes it (the code passes 100).
- **A queue as the packets whose place is "queued"** (`SdnFlow`,
  `SdsnSignalling`): packets are numbered in the order they are sent and the
  loopback device keeps that order (`FirstOnLoopback`), so the numbers are the
  order of `m_queue`.
- **Scheduled calls as a set** (`SdnFlow`): the delay of a call is the sum of
  link delays that hellos change while calls are under way, so calls are
  executed in any order. One order is certain: the loopback device delivers at
  the very time it is given a packet, before anything the controller does about
  the packet's request; hence the guards on `"loopback"` in `RecvKnownRREQ`,
  `RecvNewRREQ` and `Expire`.
- **CalculateDelay writes `m_path`**: it stores the control path of the switch
  in the very map `RecvRREQ` consults. The three callers (RouteOutput, RecvRREQ,
  SendHello) have that effect.
- **An interface is named by its address** and links are point to point, one
  address per interface, as the warnings of `NotifyInterfaceUp` ask.
- **Undefined or fatal steps are no steps**: a failing `NS_ASSERT`, a call
  through a null socket, `CalculatePath` towards an unreachable node
  (`min_ind` uninitialised), a controller that is its own switch (`back ()` of an
  empty vector), the lookup of an index that no satellite has, a satellite that
  is its own next hop. Where an assertion may fail, a state predicate says so
  (`DownFindsSocket`, `RequestFindsSocket`).
- **`Added`** (`SdsnControlDomain`): a table keeps the first route to an
  address, as `RoutingTable::Add` does; gateway and device of a route follow
  from its next node.
- **History of the interfaces** (`SdnInterfaces`): a socket is counted by its
  address and the device it is bound to, as `m_socketAddresses` may hold several
  with one address; `FindSocketWithInterfaceAddress` looks at the address only.
  `given` records the interfaces an address was ever given to, `dark` that an sdn
  node lost all its sockets, `twice` that an interface was brought up while it was
  up, `announced` that a hello followed the last change. No action reads them.
- **Messages as a set** (`SdsnSignalling`): each step takes any message one link
  on, so messages overtake each other; a device may drop one on its way
  (`Lose`). UDP does not retransmit, and the TTL of 30 exceeds every path here.
  A socket with a local address makes the IPv4 layer ask RouteOutput without an
  output device, so control packets are not subject to the mismatch test.
  `SendReply` looks its socket up with the mask 255.255.255.0 written in the code
  (sdsn.cc:552): `Slash24` are the addresses that have it, in the runs all, in the
  theorems any.
- **Interfaces that go down** (`SdsnSignalling`): `SdnInterfaces` says that an
  interface that is up has one socket for its address; here that is the set
  `up`. A message whose next link or receiving socket is down is gone
  (`Undelivered`). `m_socket` is the state of the socket the switch calls its
  controller through: SetOutSocket looks it up once, at the hand-over, and no
  notification renews it, so that it may be closed while the interface is up.
- **Measurements as times**: `HelloTimerExpire` of a node measures all its
  links at once, so `m_cache` and `m_snap` are the times of measurements; what
  was measured (delay, load) decides nothing in requests, replies and hellos.
- **Time** in `SdsnSignalling` is counted in hello intervals: every timer expires
  once in each, at the offset the constructor drew, here in any order.
- **Loads in any relation** (`SnapRoute`): the choice between two next hops
  compares the loads of two queues, which no part of the code controls; either
  hop may be stored. The load of a link that was not found is uninitialised,
  with the same result. `nPerPlane` is the number of whichever satellite comes
  first in a map ordered by pointers, so any number of a satellite.
- The route `CalculateRouteFromSnap` stores is read by nothing else, so its call
  in `RecvRequest` is not repeated in `SdsnSignalling`.
- A packet handed on with an empty route is `"misrouted"`; what the IPv4 layer
  does with it is not modelled.

## 3. Runs

Every run is bounded by the constants of its `.cfg`; the counters that are
bounded by a guard are `MaxTime`, `MaxArrivals`, `MaxPackets`, `MaxPairs`,
`MaxSockets`, `MaxDowns` and `MaxRoutes`; in `SdsnSignalling` the packets are
those of the sequence `Traffic`.

| run | instance | shows |
|---|---|---|
| `queue_api` | 2 packets, 2 addresses, limits 1 and 2, timeouts 0 and 1, 3 arrivals, 3 times | every sequence of calls: the queue implements `PacketCustody`, has no duplicate (`NoDuplicate`), serves the earliest unexpired packet of a flow (`ServesEarliestFresh`), gives up early only the oldest and only when full (`EvictsMostAged`), and exceeds its limit only after the limit was lowered (`StaysWithinLimit`) |
| `path_topologies` | all connected graphs of 5 nodes, delays 0 and 1 | `CalculatePath` returns simple shortest paths (`PathsAreShortest`), the same whatever hellos report (`HellosKeepPaths`) |
| `flow_line` | 3 switches, the middle one not forwarding, 9 kinds of packet, 3 packets, queue of 2 | a waiting packet has one of the listed causes (`WaitingHasCause`); packets of a flow leave in order (`LeavesInOrder`) |
| `flow_chain` | 4 switches, 2 controllers, both directions of the longest flow and flows to two addresses of one node, 2 packets | routes and packets stay on the path of the flow, every switch of a path is answered, a packet is dropped for want of an entry only when the entry is about to come; the network implements `RouteDiscovery` (`DiscoverySpec`); under fairness, a packet that can be answered is served (`AnswerableIsServed`) |
| `flow_to_controller` | far end of the line to its controller | **violated**: `KnownPathHasRoute`, see below |
| `iface_changes` | either protocol, 2 interfaces, 3 addresses, 3 sockets | sockets match interfaces unless an interface was brought up twice (`SocketsMatchInterfaces`); even then an interface that is up has a socket of its own device for its first address, if that was never on another interface (`UpInterfaceListens`); changes are followed by a hello, in sdn until the node has lost all sockets (`ChangesAreAnnounced`) |
| `iface_down` | the same, 2 sockets | **violated**: `DownFindsSocket` |
| `sdsn_domain` | all connected networks of 4 nodes, with all orders of devices, 3 pairs; a torus of 3 planes of 4 satellites with a missing link | control paths work both ways (`ControlPathsWork`), no route is a detour (`RoutesAreShortest`), a controller replies from the address the switch calls, also after hand-overs, unless it is on another path to the same address (`RepliesFromConIP`); neighbours of a constellation do not reach each other but for one of a plane (`OnlyLastIsReached`) |
| `sdsn_requests` | a switch between two controllers, and one behind two; 3 packets, queue of 2, 2 pairs one of which makes the switch a controller, one interface that goes down, a route added by the simulation | a waiting packet has its message under way, or one of the listed losses has happened to it (`WaitingHasCause`); no message is ever at a node without a route for it (`MessagesHaveRoutes`); under fairness no request or reply is under way for ever (`RequestsEnd`) |
| `sdsn_hellos` | 2 switches between 2 controllers, 3 pairs, 2 intervals, one interface that goes down | the snapshot never goes back and is as new as the hello that arrives (`HellosRefresh`); every hop brings a message nearer (`MessagesApproach`) |
| `sdsn_reply_socket` | a switch behind two controllers | **violated**: `RequestFindsSocket` |
| `sdsn_reply_route` | a switch between two controllers | **violated**: `ReplyCreatesRoute` |

Why the bounds suffice for what is asked: a full queue needs one packet more
than its limit, so 3 packets and a queue of 2; a packet that stops a release
needs one before and one behind it; shortest paths differ from others from
triangles and squares on, which 4 and 5 nodes contain in every arrangement; a
hand-over with a route left by a third node needs 3 pairs; a hello that
overtakes another needs 2 intervals; the stale socket of a switch needs one
interface to go down once; two flows between the same nodes need a node with two
addresses; in a plane of 4 both ways round differ, and three planes have one that
is neither first nor last. A cached route does not depend on the others, so the
cache holds one (`MaxRoutes`) and is overwritten by any of the routes for its
pair. `sdsn_*` runs stop when their bounds are reached, hence
`CHECK_DEADLOCK FALSE` there.

Requests and hellos of sdsn share only the routing tables, the control addresses
and the sockets, so they are checked apart (`RequestSpec`, `HelloSpec`), each
with the network, the hand-overs and the interfaces; together they are `Spec`,
which the theorems are about.

### Disagreements found

- `flow_to_controller`: a request to the node that is the source's controller is
  taken as answered, because `CalculateDelay` has stored the control path under
  the same pair (sdn-netview.cc:57). No route is ever installed, though
  sdn-netview.h:48 says the nodes of `m_path` know the route. The same happens to
  the second address of a destination (`Unanswerable`): `m_path` is keyed by
  nodes, flow tables by addresses.
- `iface_down`: an interface that has lost its last address goes down without a
  socket, and `NS_ASSERT (socket)` (sdn.cc:267) fails.
- `sdsn_reply_socket`: `Add` keeps the route a controller has, whose source is
  the address of an earlier controller; `NS_ASSERT (socket)` (sdsn.cc:553) fails.
- `sdsn_reply_route`: "The forward route for this destination is created if it
  does not already exist." (sdsn.cc:644) is followed by a commented-out call.

Where the code goes wrong and no run shows it as a violation, since nothing in the
repository says in words what it should do, the properties are stated around it:

- A deaf interface. Bring `i1` up twice with address `a` and `i2` with `b`, remove
  `b` and `a`, and give `a` to `i2`: the first socket of `i1` is closed, the other
  is stale, and NotifyAddAddress (sdn.cc:292), which looks for a socket by address,
  takes it for one of `i2` and opens none. `UpInterfaceListens` excepts addresses
  that were on another interface; without `given[a] = {i}` TLC finds this behaviour
  in the same run.
- A silent node. The timer is cancelled with the last socket (sdn.cc:274) and no
  handler schedules it again: an sdn node that comes back sends no hello any more.
  `ChangesAreAnnounced` excepts it (`dark`) and says that nothing else stops them;
  sdsn does not cancel the timer.
- Computed routes. A route to another plane stays in its own (sdsn.cc:1143), and
  next hops lead away from the destination (sdsn.cc:1108, 1119). `OnlyLastIsReached`
  holds and says to what extent; it describes what the code computes, not what a
  route should be.
- A controller on several paths to an address. It keeps the source of the first
  route it was given, which `RepliesFromConIP` leaves open in that case and
  `RequestFindsSocket` refutes.

## 4. Fairness

`SdnFlow!FairSpec` assumes `WF_vars(Control)`: the simulator executes every
scheduled RecvRREQ and RecvRREP; there are finitely many. It assumes nothing of
applications, links, time or hellos. `SdnInterfaces!FairSpec` assumes
`WF_vars(HelloTimerExpire)`: a pending timer expires. The timer's function
always schedules it again. `SdsnSignalling!FairRequestSpec` assumes
`WF_vars(Delivery)`: as long as messages can go on or be taken, the simulator
takes one of them on, whichever; losses need no fairness. With finitely many
packets this is enough for `RequestsEnd`. That a packet of sdsn is ever served is
not promised: messages are lost and nothing is retried; `WaitingHasCause` says
instead what a packet may wait for.

## 5. Proofs

All theorems hold for every value of the constants that satisfies the named
assumptions, and are checked by TLAPS down to the library's facts on finite
sets, functions and sequences.

- **`RequestQueueProofs`** (assumes `LimitAssumption`, `TimeoutAssumption`,
  `BoundAssumption`). `TypeCorrect`; `QueueHasNoDuplicate`, inductive as it
  stands; `QueueImplementsCustody`: the refinement needs `CustodyInv`, that
  tickets in use are not above `arrivals` (a new entry is really new) and that
  an entry has one fate. `QueueStaysWithinLimit` is about the whole interface: a
  queue within its limit leaves it only when the limit is lowered.
  `QueueIsBounded` is about `ProtocolSpec`, the calls the switch makes, which
  never change the limit. `QueueServesInOrder` and `QueueEvictsMostAged` say what
  leaves the queue first, by `Dequeue` and for want of room; the second needs
  `CustodyInv` for the entry that comes in.
- **`SdnFlowProofs`** (assumes `AddressAssumption`, `PathAssumption`,
  `TrafficAssumption`; the paths are any loop-free paths). `TypeCorrect`;
  `RoutesAreOnPath`, `RepliesAreComplete`, `ForwardingFollowsPath` and
  `DropsAwaitReply` all come from one inductive invariant, `FlowInv`. The routes
  alone are not inductive: a reply under way may put any entry in a table, so
  `RepliesFollowPath` is added; that a switch with no entry has a reply coming
  rests on `AnsweredEverywhere`, which the release of a packet onto a link
  needs as `WireOnPath`.
  The packets that wait, from `FlowInv` and `QueueInv`. `WaitingIsExplained`:
  a waiting packet whose request was executed has its pair in `m_path`
  (`RequestsSeen`), and a pair gets there in one of three ways
  (`PathsAnswered`), which are the cases of `Unanswerable` or an answered flow;
  that flow has a reply under way or an entry, and a held packet beside an entry
  has missed its reply (`MissedTheReply`). `FlowsLeaveInOrder`: `Released` takes a
  flow up to the first packet that does not match, and whoever stays is recorded.
  The refinement, `SdnFlowImplementsDiscovery`: `DiscoveryInv` adds to
  `FlowInv` that held packets are at their sources and answered flows have their
  path in `m_path`; each action maps to a step of `Transport`, to `Answer`, or to
  a stutter.
- **`SdnInterfacesProofs`** (assumes `SocketAssumption`). `TypeCorrect`;
  `ListensWhereItMust`: one socket for the first address of every interface that
  is up. `ListenInv` adds that no address is on two interfaces or twice on one
  (`AddressesDistinct`): otherwise closing the socket of a removed address could
  close that of another interface. `UpListens` holds also when interfaces are
  brought up twice: the first address of an interface that is up has a socket
  (`SocketInv`), and addresses and sockets, the stale ones too, are only on
  interfaces that were given the address (`OnlyWhereGiven`); one that was never
  another's has its socket on the right device. All three for both protocols.
- **`SdsnSignallingProofs`** (assumes `SignallingAssumption`). `SnapshotRefreshed`: `HelloInv` says that a hello under
  way is no newer than the measurement in the cache under its origin, so that
  whatever the controller reads when it arrives is no older. `WaitingIsExplained`:
  `WaitInv` follows a packet from the loopback device to the queue and its
  message over the network, and rests on the socket of a switch being open,
  closed or null as the hand-overs and interfaces have left it. Both are about
  any network and need nothing of the routing tables. `TypesHold`: `TypeInv` adds
  `WaitInv`, which says where the packets are that may enter the queue.
  `EveryHopApproaches`: `WayInv` adds to the types that all routes shorten; it
  assumes `UserRoutesShorten`, that the routes the simulation adds with `AddRoute`
  are no detours either: nothing in the code stops a script from adding one.
  `MessagesAreRouted` (`RouteInv`: routes go on to their end, and the tables have
  those of each pair) assumes `UserRoutesDirect`, that such routes go to the
  neighbour that owns the address: the simulation may as well add the first part of
  a way and not the rest. The routes the runs add satisfy both.
  `SignallingKeepsDomains` is a refinement: where the simulation adds no routes,
  signalling implements `SdsnControlDomain`, and with it go the theorems about that
  (`PathsWorkThroughout`).
- **`SnapRouteProofs`** (assumes `ConstellationAssumption`).
  `SnapOnlyLastIsReached`, for any size and number of planes and any links;
  `CacheInv` says that a cached route is one of the two that are looked up, with the
  tables as they are. The arithmetic is in `ReachedIsLast`.
- **`SdsnControlDomainProofs`** (assumes `ViewAssumption`, `NodeAssumption`,
  `NullAssumption`). The search of `SetPair` is a recursive function, and what it
  computes is proved by induction over its rounds: the queue holds nodes in the order
  of their distance, whoever is noted was reached from one link nearer, and when all
  rounds are over nothing that can be reached is left out. So each route of
  `ControlRoutes` leads one link nearer to the owner of its address. `DomainInv` says
  of the tables: the types; that every route shortens (`RoutesShorten`); that the
  node a route leads to has a route on, or owns the address (`RoutesGoOn`); that both
  ends of every pair have their route (`PairsHaveRoutes`); and that every route is
  one of a pair with the node on its path, and has the pair's other address as the
  source (`RoutesHavePairs`). `RoutesGoOn` is what makes `Added`,
  which keeps the routes it finds, harmless: a path that meets the route of another
  can be left there. From `DomainInv` follow `DomainTypeInvariant`, `ShortestRoutes`,
  `RepliesHaveConIP` and, by induction over the distance, `PathsWork`.
- **`PathCalculationProofs`** (assumes `NumAssumption` and `DelaysAssumption`: no
  path may cost 9999 or more, else the code finds no link to go on by and reads an
  uninitialised index). All links cost the same, because `m_edges` is read at the
  link from `src` to node 1; `NextRowIsFirst` concludes that a round takes the first
  link of the first row that has one, which makes this a breadth-first search.
  `TableInv` holds after each round: rows are shortest paths, ordered by length, no
  two with the same end, and whatever is nearer than the last row has a row. The
  table ends with `dst` after at most `m_num - 1` rounds (`TableEnds`), as there are
  no more rows than nodes. `ShortestPaths` follows, and `PathsStay`: the first link
  does not depend on what links cost. `PathsAreUsable` discharges the
  `PathAssumption` of `SdnFlow` for what `CalculatePath` returns.
- **`Iteration`** has what both inductions rest on: a set of naturals that holds 0,
  and with each number the next, holds them all (`InductionUpTo`, from the
  well-foundedness of `<`), and a sequence of steps can be iterated (`Iterated`),
  so that a recursive function exists and satisfies its equation.

Only model-checked: the liveness properties (`AnswerableIsServed`,
`ChangesAreAnnounced`, `RequestsEnd`), whose fairness needs ENABLED. What
`RequestsEnd` rests on is proved: every hop brings a message nearer
(`EveryHopApproaches`), and there is a route for it (`MessagesAreRouted`).

## 6. Not modelled

- Headers, tags and their serialisation; helpers; examples, tests and build
  files; logging; `DeleteRoute` and the other setters that nothing calls.
- Delays and loads as numbers: `GetLoad` divides integers (sdsn.h:600). Only
  `CalculateRouteFromSnap` decides by them, where it compares two loads
  (sdsn.cc:1210): `SnapRoute` allows either outcome.
- An unreachable destination or a network that is not connected
  (sdn-netview.cc:368 reads an uninitialised index); `m_maxLen = 0`; a snapshot
  without `InitSnap` (sdsn.cc:131); what becomes of a request when the controller's
  address has a mask other than 255.255.255.0 (the assertion at sdsn.cc:553 fails); a switch of no control domain, whose first
  hello ends the program (sdsn.cc:222).
- Interfaces of sdn that go down while packets are under way: `SdnFlow` keeps
  them up, `SdnInterfaces` is about one node. Flow tables and `m_path` are not
  touched by the notifications, so that a route to a dead link stays; what
  happens to the packets there is the IPv4 layer's.

## 7. Plan

Done: queue, path computation, flows, interfaces, control domains and
signalling with their abstract specifications and theorems; then the route
computation, the sdsn interfaces, interfaces that go down under signalling,
liveness of requests, and the refinement of `RouteDiscovery`. Left: interfaces
composed with `SdnFlow`, so that the assertion of `LoopbackRoute` (sdn.cc:482)
meets the data path; an unreachable destination in `CalculatePath`.
