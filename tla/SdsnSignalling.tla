---------------------------- MODULE SdsnSignalling ----------------------------
(***************************************************************************)
(* Requests, replies and hellos of src/sdsn (sdsn::RoutingProtocol): UDP   *)
(* packets that travel between a switch and its controller along the       *)
(* routes of SdsnControlDomain, are lost and overtake each other, while    *)
(* switches are handed over to other controllers and interfaces go down    *)
(* and come up again.                                                      *)
(*                                                                         *)
(* A hello is a reply (SDSNTYPE_RREP) whose destination is the controller. *)
(* It carries no measurement: those are in NetView::m_cache, which every   *)
(* node shares.  All links of a node are measured at the same time, so     *)
(* m_cache and m_snap are modelled by the time of the measurements.        *)
(*                                                                         *)
(* An interface that is up has a socket for its address (SdnInterfaces);   *)
(* NotifyInterfaceDown closes it and NotifyInterfaceUp makes another.  The *)
(* switch calls its controller through the socket SetOutSocket found, and  *)
(* no notification tells it that this one was closed.                      *)
(*                                                                         *)
(* A call through a null socket and a failing NS_ASSERT end the program    *)
(* and are no steps here.  The route that CalculateRouteFromSnap computes  *)
(* for a request goes to m_cal_route_cache, which nothing else reads: it   *)
(* is in SnapRoute.                                                        *)
(***************************************************************************)
EXTENDS SdsnControlDomain

CONSTANTS
    Pairs,         \* the controllers and switches the simulation may pair
    UserRoutes,    \* the routes a simulation may add: [node, dst, next, source]
    Traffic,       \* what applications send, in order: [node, dst, oif]
    Slash24,       \* the addresses with the mask 255.255.255.0
    QueueMax,      \* the limit of m_queue, 100 in the code
    MaxTime,       \* bound on the time, in hello intervals
    MaxDowns       \* bound on the times an interface goes down

Uid == DOMAIN Traffic

ASSUME SignallingAssumption ==
    /\ Pairs \subseteq Node \X Node
    /\ UserRoutes \subseteq [node: Node, dst: Addr, next: Node, source: Addr]
    /\ Traffic \in Seq([node: Node, dst: Addr, oif: Addr \cup {NoAddr}])
    /\ Slash24 \subseteq Addr
    /\ QueueMax \in Nat \ {0}
    /\ MaxTime \in Nat \ {0}
    /\ MaxDowns \in Nat

VARIABLES
    net,         \* the control packets under way
    place,       \* where a packet is
    m_cache,     \* when the node of an address measured its links, 0: never
    m_snap,      \* the time of the measurements of a node in the snapshot
    now,         \* the time, in hello intervals
    due,         \* the nodes whose hello timer expires in this interval
    up,          \* the addresses whose interface is up
    m_socket,    \* the state of the socket in m_outSocket
    downs,       \* how often an interface went down
    lost,        \* history: the packets whose request or reply was lost
    silenced,    \* history: those whose request went to a closed socket
    ignored,     \* history: those whose reply met a controller
    overtaken    \* history: the packets queued when they had a route

signals == <<net, lost, silenced, ignored>>
interfaces == <<up, m_socket, downs>>
packets == <<place, overtaken>>
snapshot == <<m_cache, m_snap>>
clock == <<now, due>>
vars == <<m_view, tables, net, place, m_cache, m_snap, now, due, up, m_socket,
          downs, lost, silenced, ignored, overtaken>>

\* uid is that of the packet a request is for, 0 in a hello; sent is the
\* time of a hello.
Message == [type: {"RREQ", "RREP"}, at: Node, to: Addr, dst: Addr,
            origin: Addr, uid: Uid \cup {0}, sent: 0 .. MaxTime]

\* "sent" on a route, "misrouted" on an empty one; "refused" by RouteOutput;
\* "reported" to the error callback; "lost" to a packet that does not match;
\* "dropped" by a node without interfaces.
Place == {"unsent", "refused", "loopback", "queued", "sent", "misrouted",
          "reported", "lost", "dropped"}

NodeOf(u) == Traffic[u].node

\* m_queue of a node.  Packets are sent in the order of Traffic and the
\* loopback device keeps that order, so that it is the order of the queue.
Queued(n) == {u \in Uid : place[u] = "queued" /\ NodeOf(u) = n}

TypeOK ==
    /\ DomainTypeOK
    /\ net \subseteq Message
    /\ \A n \in Node : Cardinality(Queued(n)) <= QueueMax
    /\ place \in [Uid -> Place]
    /\ m_cache \in [Addr -> 0 .. MaxTime]
    /\ m_snap \in [Node -> 0 .. MaxTime]
    /\ now \in 1 .. MaxTime
    /\ due \subseteq Node
    /\ up \subseteq Addr
    /\ m_socket \in [Node -> {"null", "open", "closed"}]
    /\ downs \in 0 .. MaxDowns
    /\ lost \subseteq Uid
    /\ silenced \subseteq Uid
    /\ ignored \subseteq Uid
    /\ overtaken \subseteq Uid

Init ==
    /\ DomainInit
    /\ net = {}
    /\ place = [u \in Uid |-> "unsent"]
    /\ m_cache = [a \in Addr |-> 0]
    /\ m_snap = [n \in Node |-> 0]
    /\ now = 1
    /\ due = Node
    /\ up = Addr
    /\ m_socket = [n \in Node |-> "null"]
    /\ downs = 0
    /\ lost = {}
    /\ silenced = {}
    /\ ignored = {}
    /\ overtaken = {}

-------------------------------------------------------------------------------
RouteTo(n, a) == m_routingtable[n][a]

\* The tag of u names an interface the route does not use; an empty route
\* has no device.
Mismatched(oif, route) ==
    oif # NoAddr /\ (route = NoRoute \/ route.next # oif[2])

\* m_socketAddresses is empty: the links of a node are all down.
NoSockets(n) == \A m \in Range(m_view[n]) : <<n, m>> \notin up

\* RouteOutput for the packet u.  LoopbackRoute asserts that the output
\* interface has a socket.
RouteOutput(u) ==
    LET t == Traffic[u]
        route == RouteTo(t.node, t.dst)
    IN
    /\ place[u] = "unsent"
    /\ u > 1 => place[u - 1] # "unsent"
    /\ \/ NoSockets(t.node)
       \/ route # NoRoute
       \/ t.oif \in up \cup {NoAddr}
    /\ place' = [place EXCEPT ![u] =
                    IF NoSockets(t.node) THEN "refused"
                    ELSE IF route = NoRoute THEN "loopback"
                    ELSE IF Mismatched(t.oif, route) THEN "refused"
                    ELSE "sent"]
    /\ UNCHANGED <<m_view, tables, signals, overtaken, snapshot, clock,
                   interfaces>>

Request(u) ==
    [type |-> "RREQ", at |-> NodeOf(u), to |-> m_conIP[NodeOf(u)],
     dst |-> Traffic[u].dst, origin |-> m_outSocket[NodeOf(u)],
     uid |-> u, sent |-> 0]

\* Defect: the limit is not looked at.
NoneAged(n) == {}

\* The packet that Enqueue drops to make room: none expires here.
MostAged(n) ==
    IF Cardinality(Queued(n)) = QueueMax
    THEN {u \in Queued(n) : \A v \in Queued(n) : u <= v}
    ELSE {}

FirstOnLoopback(u) ==
    /\ place[u] = "loopback"
    /\ \A v \in Uid :
          v < u /\ NodeOf(v) = NodeOf(u) => place[v] # "loopback"

\* RouteInput from the loopback device: the packet is queued, and a request
\* is sent unless there is a route by now.
DeferredRouteOutput(u) ==
    LET n == NodeOf(u)
        known == RouteTo(n, Traffic[u].dst) # NoRoute
    IN
    /\ FirstOnLoopback(u)
    /\ ~NoSockets(n)
    /\ known \/ m_socket[n] # "null"
    /\ place' = [v \in Uid |-> IF v = u THEN "queued"
                               ELSE IF v \in MostAged(n) THEN "reported"
                               ELSE place[v]]
    /\ net' = IF ~known /\ m_socket[n] = "open" THEN net \cup {Request(u)}
              ELSE net
    /\ silenced' = IF ~known /\ m_socket[n] = "closed" THEN silenced \cup {u}
                   ELSE silenced
    /\ overtaken' = IF known THEN overtaken \cup {u} ELSE overtaken
    /\ UNCHANGED <<m_view, tables, lost, ignored, snapshot, clock,
                   interfaces>>

\* RouteInput of a node without sockets takes nothing.
DropAtLoopback(u) ==
    /\ FirstOnLoopback(u)
    /\ NoSockets(NodeOf(u))
    /\ place' = [place EXCEPT ![u] = "dropped"]
    /\ UNCHANGED <<m_view, tables, signals, overtaken, snapshot, clock,
                   interfaces>>

-------------------------------------------------------------------------------
\* A control packet goes to the next node of the route to its destination.
\* ControlPathsWork says that its sender has one, so that RouteOutput never
\* queues it.
Hop(m) == [m EXCEPT !.at = RouteTo(m.at, m.to).next]

\* There is a route, and both ends of its link are up.
LinkUp(m) ==
    LET route == RouteTo(m.at, m.to) IN
    /\ route # NoRoute
    /\ {<<m.at, route.next>>, <<route.next, m.at>>} \subseteq up

Forwarding(m) ==
    /\ m.at # Owner(m.to)
    /\ LinkUp(m)
    /\ net' = (net \ {m}) \cup {Hop(m)}
    /\ UNCHANGED <<m_view, tables, lost, silenced, ignored, packets, snapshot,
                   clock, interfaces>>

Gone(m) ==
    /\ net' = net \ {m}
    /\ lost' = lost \cup ({m.uid} \ {0})
    /\ UNCHANGED <<m_view, tables, silenced, ignored, packets, snapshot, clock,
                   interfaces>>

\* A device drops it on its way to the next node.
Lose(m) ==
    /\ m.at # Owner(m.to)
    /\ Gone(m)

\* The next node cannot be reached, or the socket it is for was closed.
Undelivered(m) ==
    /\ IF m.at = Owner(m.to) THEN m.to \notin up ELSE ~LinkUp(m)
    /\ Gone(m)

\* SendReply finds its socket by the source of the route to the switch, and
\* takes it that its mask is 255.255.255.0.
HasSocket(m) == /\ RouteTo(m.at, m.origin) # NoRoute
                /\ Owner(RouteTo(m.at, m.origin).source) = m.at
                /\ RouteTo(m.at, m.origin).source \in up \cap Slash24

RecvRequest(m) ==
    /\ m.type = "RREQ"
    /\ m.at = Owner(m.to) /\ m.to \in up
    /\ HasSocket(m)
    /\ net' = (net \ {m}) \cup {[m EXCEPT !.type = "RREP", !.to = m.origin]}
    /\ UNCHANGED <<m_view, tables, lost, silenced, ignored, packets, snapshot,
                   clock, interfaces>>

WaitingFor(n, dst) == {u \in Queued(n) : Traffic[u].dst = dst}

\* Defect: only the first packet of the flow is dequeued.
FirstOfQueue(n, dst) ==
    {u \in WaitingFor(n, dst) : \A v \in WaitingFor(n, dst) : u <= v}

\* What SendPacketFromQueue dequeues: the packets for dst up to the first
\* whose output interface is another.
Dequeued(n, dst) ==
    {u \in WaitingFor(n, dst) :
        \A v \in WaitingFor(n, dst) :
            Mismatched(Traffic[v].oif, RouteTo(n, dst)) => u <= v}

\* The packet that does not match is gone; the others are sent, with the
\* route that toDst was left with.
SendPacketFromQueue(n, dst) ==
    LET route == RouteTo(n, dst) IN
    /\ place' = [u \in Uid |->
                    IF u \notin Dequeued(n, dst) THEN place[u]
                    ELSE IF Mismatched(Traffic[u].oif, route) THEN "lost"
                    ELSE IF route = NoRoute THEN "misrouted"
                    ELSE "sent"]
    /\ UNCHANGED overtaken

\* Defect: the time of the measurement is not compared.
Overwritten(n, time) == m_snap' = [m_snap EXCEPT ![n] = time]

UpdateSnap(n, time) ==
    m_snap' = [m_snap EXCEPT ![n] = IF time < @ THEN @ ELSE time]

\* A reply to a switch, a hello to a controller; anything else is ignored.
RecvReply(m) ==
    LET n == m.at
        toSwitch == Owner(m.origin) = n /\ m_type[n] = "SWITCH"
        hello == Owner(m.dst) = n /\ m_type[n] = "CONTROLLER"
    IN
    /\ m.type = "RREP"
    /\ n = Owner(m.to) /\ m.to \in up
    /\ net' = net \ {m}
    /\ ignored' = IF toSwitch THEN ignored ELSE ignored \cup ({m.uid} \ {0})
    /\ IF toSwitch THEN SendPacketFromQueue(n, m.dst) ELSE UNCHANGED packets
    /\ IF ~toSwitch /\ hello
       THEN UpdateSnap(Owner(m.origin), m_cache[m.origin])
       ELSE UNCHANGED m_snap
    /\ UNCHANGED <<m_view, tables, lost, silenced, m_cache, clock, interfaces>>

Hello(n) ==
    [type |-> "RREP", at |-> n, to |-> m_conIP[n], dst |-> m_conIP[n],
     origin |-> m_outSocket[n], uid |-> 0, sent |-> now]

\* A switch measures its links and sends a hello, a controller updates the
\* snapshot itself.
HelloTimerExpire(n) ==
    /\ n \in due
    /\ due' = due \ {n}
    /\ \/ /\ m_type[n] = "CONTROLLER"
          /\ UpdateSnap(n, now)
          /\ UNCHANGED <<net, m_cache>>
       \/ /\ m_type[n] = "SWITCH"
          /\ m_socket[n] # "null"
          /\ m_cache' = [m_cache EXCEPT ![m_outSocket[n]] = now]
          /\ net' = IF m_socket[n] = "open" THEN net \cup {Hello(n)} ELSE net
          /\ UNCHANGED m_snap
    /\ UNCHANGED <<m_view, tables, lost, silenced, ignored, packets, now,
                   interfaces>>

\* Every hello timer has expired once in an interval.
Tick ==
    /\ now < MaxTime
    /\ due = {}
    /\ now' = now + 1
    /\ due' = Node
    /\ UNCHANGED <<m_view, tables, signals, packets, snapshot, interfaces>>

\* SetControlDomain, before or during the simulation.  SetOutSocket finds no
\* socket for an interface that is down.
HandOver(con, swc) ==
    /\ SetPair(con, swc)
    /\ m_socket' = [m_socket EXCEPT ![swc] =
                       IF m_outSocket'[swc] \in up THEN "open" ELSE "null"]
    /\ UNCHANGED <<signals, packets, snapshot, clock, up, downs>>

\* The socket is closed, whoever holds it.
NotifyInterfaceDown(a) ==
    /\ a \in up
    /\ downs < MaxDowns
    /\ up' = up \ {a}
    /\ downs' = downs + 1
    /\ m_socket' = [n \in Node |-> IF m_outSocket[n] = a /\ m_socket[n] = "open"
                                  THEN "closed" ELSE m_socket[n]]
    /\ UNCHANGED <<m_view, tables, signals, packets, snapshot, clock>>

\* A new socket is made, and m_outSocket keeps the old.
NotifyInterfaceUp(a) ==
    /\ a \in Addr \ up
    /\ up' = up \cup {a}
    /\ UNCHANGED <<m_view, tables, signals, packets, snapshot, clock, m_socket,
                   downs>>

\* The simulation adds a route.
AddRoute(r) ==
    /\ m_routingtable' = Added(m_routingtable, {r})
    /\ UNCHANGED <<m_view, m_conIP, m_outSocket, m_type, domain,
                   signals, packets, snapshot, clock, interfaces>>

\* The network and the user, whatever the packets are.
Environment ==
    \/ \E m \in net : Forwarding(m) \/ Lose(m) \/ Undelivered(m)
    \/ \E p \in Pairs : HandOver(p[1], p[2])
    \/ \E r \in UserRoutes : AddRoute(r)
    \/ \E a \in Addr : a[2] \in Range(m_view[a[1]])
                      /\ (NotifyInterfaceDown(a) \/ NotifyInterfaceUp(a))

Requests ==
    \/ \E u \in Uid :
           RouteOutput(u) \/ DeferredRouteOutput(u) \/ DropAtLoopback(u)
    \/ \E m \in net : RecvRequest(m) \/ RecvReply(m)

Hellos ==
    \/ \E n \in Node : HelloTimerExpire(n)
    \/ \E m \in net : RecvReply(m)
    \/ Tick

Next == Environment \/ Requests \/ Hellos

Spec == Init /\ [][Next]_vars

\* Requests and hellos share nothing but the routes: each without the other.
RequestSpec == Init /\ [][Environment \/ Requests]_vars
HelloSpec == Init /\ [][Environment \/ Hellos]_vars

(***************************************************************************)
(* The simulator executes what is scheduled: a message that can go on or   *)
(* be taken goes on or is taken, unless a device has lost it before.       *)
(***************************************************************************)
Delivery ==
    \E m \in net :
        Forwarding(m) \/ Undelivered(m) \/ RecvRequest(m) \/ RecvReply(m)

FairRequestSpec == RequestSpec /\ WF_vars(Delivery)

-------------------------------------------------------------------------------
(***************************************************************************)
(* No control packet goes astray: whatever domains were set since it was   *)
(* sent, each hop brings it nearer to its destination.                     *)
(***************************************************************************)
MessagesApproach ==
    [][ \A m \in net \ net', k \in net' \ net :
          k = [m EXCEPT !.at = k.at] =>
              Distance(m_view, m.at, Owner(m.to)) =
                  Distance(m_view, k.at, Owner(m.to)) + 1 ]_vars

(***************************************************************************)
(* No control packet is ever without a route, at its sender or on its way, *)
(* so that RouteOutput does not queue it like a packet of an application   *)
(* and send a request for it (sdsn.cc:418).  A path that leaves a route of *)
(* another in the table must join a way that goes on.                      *)
(***************************************************************************)
MessagesHaveRoutes ==
    \A m \in net : m.at # Owner(m.to) => RouteTo(m.at, m.to) # NoRoute

(***************************************************************************)
(* A packet that waits has a reason to: its request or reply is under way, *)
(* or was lost, went to a socket that was closed, or met a node that is a  *)
(* controller by now; there was a route already when it was queued; or a   *)
(* packet with another output interface kept the reply from it.  Nothing   *)
(* is asked for again: all but the first wait for another packet of their  *)
(* flow.                                                                   *)
(***************************************************************************)
SameFlow(u, v) ==
    NodeOf(u) = NodeOf(v) /\ Traffic[u].dst = Traffic[v].dst

WaitsInVain(u) ==
    \/ u \in lost \cup silenced \cup ignored \cup overtaken
    \/ \E v \in Uid : place[v] = "lost" /\ SameFlow(u, v)

WaitingHasCause ==
    \A u \in Uid :
        place[u] = "queued" => WaitsInVain(u) \/ \E m \in net : m.uid = u

(***************************************************************************)
(* No request or reply goes round for ever: again and again none is under  *)
(* way, but for requests at a controller that has no socket to reply from, *)
(* where the program ends (sdsn.cc:553).                                   *)
(***************************************************************************)
Stuck(m) ==
    /\ m.type = "RREQ" /\ m.at = Owner(m.to)
    /\ ~HasSocket(m)

RequestsEnd == []<>(\A m \in net : Stuck(m))

(***************************************************************************)
(* A hello that arrives leaves the snapshot with measurements of its       *)
(* sender that are no older than the hello and no older than those it had, *)
(* though hellos overtake each other and a switch that was handed over has *)
(* measurements under two addresses (sdsn.cc:130, sdsn.cc:660).            *)
(***************************************************************************)
HelloArrived(m) ==
    /\ m.uid = 0
    /\ m.at = Owner(m.to) /\ m.to \in up
    /\ m_type[m.at] = "CONTROLLER"

HellosRefresh ==
    [][ /\ \A n \in Node : m_snap'[n] >= m_snap[n]
        /\ \A m \in net \ net' :
             HelloArrived(m) => m_snap'[Owner(m.origin)] >= m.sent ]_vars

(***************************************************************************)
(* A request that has reached its controller finds the socket to reply     *)
(* from: NS_ASSERT (socket) of SendReply (sdsn.cc:553).                    *)
(***************************************************************************)
RequestFindsSocket ==
    \A m \in net :
        m.type = "RREQ" /\ m.at = Owner(m.to) /\ m.to \in up => HasSocket(m)

(***************************************************************************)
(* "The forward route for this destination is created if it does not       *)
(* already exist" (sdsn.cc:645): a switch that has received a reply has a  *)
(* route.                                                                  *)
(***************************************************************************)
Answered(m) == m.type = "RREP" /\ m.uid # 0 /\ m.at = Owner(m.to)

ReplyCreatesRoute ==
    [][ \A m \in net \ net' :
          Answered(m) => m_routingtable'[m.at][m.dst] # NoRoute ]_vars

===============================================================================
