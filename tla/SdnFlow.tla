------------------------------- MODULE SdnFlow -------------------------------
(***************************************************************************)
(* How a flow gets its route in src/sdn: the switches                      *)
(* (sdn::RoutingProtocol), the controller (sdn::ControlCenter) and the     *)
(* packets that move between them.                                         *)
(*                                                                         *)
(* A switch that has no flow table entry for a packet it originates sends  *)
(* the packet through its loopback device into its request queue and       *)
(* schedules RecvRREQ on the controller after the delay of its control     *)
(* path.  The controller computes the path of the flow once and schedules  *)
(* RecvRREP on every switch of the path but the last, each after the delay *)
(* of that switch's own control path.  RecvRREP installs the entry and     *)
(* releases the packets that wait for it.  A switch that forwards has an   *)
(* entry or drops.                                                         *)
(*                                                                         *)
(* Scheduled calls are a set of events executed in any order: the delays   *)
(* are sums of link delays that change while calls are under way.          *)
(* Links are point to point and every interface is up and has one address, *)
(* as sdn.cc:236 asks; an interface is named by its address.               *)
(***************************************************************************)
EXTENDS Naturals, Sequences, FiniteSets

CONSTANTS
    Node,             \* the indices of NODETOIND
    Addr,             \* the addresses of ADDTOIND
    NoAddr,           \* Ipv4Address (), also: no output interface given
    NoRoute,          \* absence of a flow table entry
    Owner,            \* ADDTOIND
    Peer,             \* the node at the other end of an address's link
    DefaultAddress,   \* the first address of m_socketAddresses
    Controller,       \* m_swcTocon
    Path,             \* what CalculatePath returns for a pair of nodes
    NoForward,        \* the nodes with forwarding disabled
    Traffic,          \* what the applications may send
    QueueMax,         \* the limit of m_queue, 100 in the code
    MaxPackets        \* bound on the packets the applications send

Flow == Addr \X Addr
Uid == 1 .. MaxPackets

\* The path of a flow, and its link from n to m.
PathOf(f) == Path[<<Owner[f[1]], Owner[f[2]]>>]
OnPath(f, n, m) ==
    \E i \in 1 .. Len(PathOf(f)) - 1 : PathOf(f)[i] = n /\ PathOf(f)[i + 1] = m
OnWay(f, n) == \E i \in 1 .. Len(PathOf(f)) - 1 : PathOf(f)[i] = n

ASSUME AddressAssumption ==
    /\ NoAddr \notin Addr
    /\ NoRoute \notin Node
    /\ Owner \in [Addr -> Node]
    /\ Peer \in [Addr -> Node]
    /\ DefaultAddress \in [Node -> Addr]
    /\ \A n \in Node : Owner[DefaultAddress[n]] = n
    /\ Controller \in [Node -> Node]

\* What PathCalculation is checked to return on a connected topology.
ASSUME PathAssumption ==
    \A i, j \in Node :
        LET p == Path[<<i, j>>] IN
        /\ p \in Seq(Node)
        /\ Len(p) > 0
        /\ p[1] = i
        /\ p[Len(p)] = j
        /\ \A k, l \in 1 .. Len(p) : p[k] = p[l] => k = l

ASSUME TrafficAssumption ==
    /\ \A t \in Traffic :
         /\ t.node \in Node
         /\ t.src \in Addr \cup {NoAddr}
         /\ t.src # NoAddr => Owner[t.src] = t.node
         /\ t.dst \in Addr
         /\ t.oif \in Addr \cup {NoAddr}
         /\ t.oif # NoAddr => Owner[t.oif] = t.node
    /\ NoForward \subseteq Node
    /\ QueueMax \in Nat \ {0}
    /\ MaxPackets \in Nat

VARIABLES
    m_path,        \* ControlCenter::m_path: the pairs that have a path
    m_flowtable,   \* RoutingProtocol::m_flowtable: the next node of a flow
    events,        \* the calls of RecvRREQ and RecvRREP under way
    place,         \* where a packet is
    at,            \* the node that has the packet or is to receive it
    flow,          \* the addresses in its header
    oif,           \* the interface in its DeferredRouteOutputTag
    expired,       \* the packets whose time in a queue is over
    overtaken      \* history: see RecvRREP

control == <<m_path, m_flowtable, events>>
packets == <<place, at, flow, oif, expired, overtaken>>
vars == <<m_path, m_flowtable, events, place, at, flow, oif, expired, overtaken>>

Request == [type: {"RREQ"}, node: Node, src: Addr, dst: Addr, uid: Uid]
Reply == [type: {"RREP"}, node: Node, src: Addr, dst: Addr, next: Node]

\* A packet is not sent yet; between RouteOutput and RouteInput of the
\* loopback device; in m_queue; on a link; handed to the transport; given to
\* an error callback; or dropped without a word.
Place == {"unsent", "loopback", "queued", "wire",
          "delivered", "reported", "dropped"}

TypeOK ==
    /\ m_path \in SUBSET (Node \X Node)
    /\ m_flowtable \in [Node -> [Flow -> Node \cup {NoRoute}]]
    /\ events \in SUBSET (Request \cup Reply)
    /\ place \in [Uid -> Place]
    /\ at \in [Uid -> Node \cup {NoRoute}]
    /\ flow \in [Uid -> Flow \cup {NoRoute}]
    /\ \A u \in Uid :
         place[u] # "unsent" => at[u] \in Node /\ flow[u] \in Flow
    /\ oif \in [Uid -> Addr \cup {NoAddr}]
    /\ expired \in SUBSET Uid
    /\ overtaken \in SUBSET Uid

Init ==
    /\ m_path = {}
    /\ m_flowtable = [n \in Node |-> [f \in Flow |-> NoRoute]]
    /\ events = {}
    /\ place = [u \in Uid |-> "unsent"]
    /\ at = [u \in Uid |-> NoRoute]
    /\ flow = [u \in Uid |-> NoRoute]
    /\ oif = [u \in Uid |-> NoAddr]
    /\ expired = {}
    /\ overtaken = {}

-------------------------------------------------------------------------------
(***************************************************************************)
(* The request queue of a node.  Packets get their uids in the order they  *)
(* are sent and the loopback device keeps that order, so the uids of a     *)
(* node's queued packets are ordered as m_queue is.                        *)
(***************************************************************************)
Queued(n) == {u \in Uid : place[u] = "queued" /\ at[u] = n}
Outdated(n) == Queued(n) \cap expired
Fresh(n) == Queued(n) \ expired

\* The packet Enqueue drops to make room, if it has to.
MostAged(n) ==
    IF Cardinality(Fresh(n)) = QueueMax
    THEN {u \in Fresh(n) : \A v \in Fresh(n) : u <= v}
    ELSE {}

\* CalculateDelay stores the control path of a switch in m_path.
ControlPath(n) == <<n, Controller[n]>>

-------------------------------------------------------------------------------
(***************************************************************************)
(* RouteOutput: an application on a node sends a packet.                   *)
(***************************************************************************)
NextUid(u) ==
    /\ place[u] = "unsent"
    /\ \A v \in Uid : v < u => place[v] # "unsent"

SourceOf(t) == IF t.src = NoAddr THEN DefaultAddress[t.node] ELSE t.src

\* The source LoopbackRoute gives a packet that has none.
LoopbackSourceOf(t) ==
    IF t.src # NoAddr THEN t.src
    ELSE IF t.oif # NoAddr THEN t.oif
    ELSE DefaultAddress[t.node]

SendAlongRoute(u, t) ==
    LET f == <<SourceOf(t), t.dst>> IN
    /\ NextUid(u)
    /\ m_flowtable[t.node][f] # NoRoute
    /\ place' = [place EXCEPT ![u] = "wire"]
    /\ at' = [at EXCEPT ![u] = m_flowtable[t.node][f]]
    /\ flow' = [flow EXCEPT ![u] = f]
    /\ UNCHANGED <<control, oif, expired, overtaken>>

\* Defect: the node that holds the packet is not recorded.
SendRequestNowhere(u, t) ==
    LET f == <<SourceOf(t), t.dst>> IN
    /\ NextUid(u)
    /\ m_flowtable[t.node][f] = NoRoute
    /\ m_path' = m_path \cup {ControlPath(t.node)}
    /\ place' = [place EXCEPT ![u] = "loopback"]
    /\ flow' = [flow EXCEPT ![u] = <<LoopbackSourceOf(t), t.dst>>]
    /\ UNCHANGED <<m_flowtable, events, at, oif, expired, overtaken>>

SendRequest(u, t) ==
    LET f == <<SourceOf(t), t.dst>> IN
    /\ NextUid(u)
    /\ m_flowtable[t.node][f] = NoRoute
    /\ m_path' = m_path \cup {ControlPath(t.node)}
    /\ events' = events \cup {[type |-> "RREQ", node |-> t.node,
                               src |-> f[1], dst |-> f[2], uid |-> u]}
    /\ place' = [place EXCEPT ![u] = "loopback"]
    /\ at' = [at EXCEPT ![u] = t.node]
    /\ flow' = [flow EXCEPT ![u] = <<LoopbackSourceOf(t), t.dst>>]
    /\ oif' = [oif EXCEPT ![u] = t.oif]
    /\ UNCHANGED <<m_flowtable, expired, overtaken>>

(***************************************************************************)
(* RouteInput on the loopback device: DeferredRouteOutput, Enqueue.        *)
(***************************************************************************)
DeferredRouteOutput(u) ==
    LET n == at[u]
        lost == Outdated(n) \cup MostAged(n)
    IN
    /\ place[u] = "loopback"
    /\ \A v \in Uid : v < u /\ place[v] = "loopback" => at[v] # n
    /\ place' = [v \in Uid |-> IF v = u THEN "queued"
                               ELSE IF v \in lost THEN "reported"
                               ELSE place[v]]
    /\ UNCHANGED <<control, at, flow, oif, expired, overtaken>>

\* Time passes, not before the loopback device has delivered: entries expire
\* in the order of their arrival.
Expire(u) ==
    /\ \A v \in Uid : place[v] # "loopback"
    /\ place[u] = "queued"
    /\ u \notin expired
    /\ \A v \in Fresh(at[u]) : u <= v
    /\ expired' = expired \cup {u}
    /\ UNCHANGED <<control, place, at, flow, oif, overtaken>>

(***************************************************************************)
(* ControlCenter::RecvRREQ.  The loopback device delivers at the time it   *)
(* is given the packet, so the packet of the request is queued before any  *)
(* call that the request gives rise to: the guard on place.                *)
(***************************************************************************)
\* Defect: the switch is told itself as the next node.
RepliesToSelf(src, dst, p) ==
    {[type |-> "RREP", node |-> p[i], src |-> src, dst |-> dst,
      next |-> p[i]] : i \in 1 .. Len(p) - 1}

\* Defect: the last switch that forwards is left out.
RepliesButLast(src, dst, p) ==
    {[type |-> "RREP", node |-> p[i], src |-> src, dst |-> dst,
      next |-> p[i + 1]] : i \in 1 .. Len(p) - 2}

Replies(src, dst, p) ==
    {[type |-> "RREP", node |-> p[i], src |-> src, dst |-> dst,
      next |-> p[i + 1]] : i \in 1 .. Len(p) - 1}

RecvKnownRREQ(e) ==
    /\ e \in events /\ e.type = "RREQ"
    /\ place[e.uid] # "loopback"
    /\ <<Owner[e.src], Owner[e.dst]>> \in m_path
    /\ events' = events \ {e}
    /\ UNCHANGED <<m_path, m_flowtable, packets>>

RecvNewRREQ(e) ==
    LET pair == <<Owner[e.src], Owner[e.dst]>>
        p == Path[pair]
        src == IF e.node = Owner[e.src] THEN DefaultAddress[p[1]] ELSE e.src
    IN
    /\ e \in events /\ e.type = "RREQ"
    /\ place[e.uid] # "loopback"
    /\ pair \notin m_path
    /\ m_path' = m_path \cup {pair}
                        \cup {ControlPath(p[i]) : i \in 1 .. Len(p) - 1}
    /\ events' = (events \ {e}) \cup Replies(src, e.dst, p)
    /\ UNCHANGED <<m_flowtable, packets>>

(***************************************************************************)
(* RoutingProtocol::RecvRREP: Delete, Add, SendPacketFromQueue.  The       *)
(* packets of the flow leave the queue in order.  One sent with another    *)
(* output interface is dropped, and there SendPacketFromQueue returns.     *)
(* overtaken records the packets of the flow that miss this call: those    *)
(* left behind by the return and those still on the loopback device.       *)
(***************************************************************************)
\* Defect: the packets of every flow are taken.
WaitingForAny(n, f) == Fresh(n)

WaitingFor(n, f) == {u \in Fresh(n) : flow[u] = f}

\* GetOutputDevice: the interface on the link to the next node.
OutputDevice(n, next) == {a \in Addr : Owner[a] = n /\ Peer[a] = next}

Mismatched(n, f, next) ==
    {u \in WaitingFor(n, f) :
        oif[u] # NoAddr /\ oif[u] \notin OutputDevice(n, next)}

\* Defect: if for while, one packet leaves.
ReleasedFirst(n, f, next) ==
    {u \in WaitingFor(n, f) \ Mismatched(n, f, next) :
        \A v \in WaitingFor(n, f) : u <= v}

\* Defect: the search begins at the back of the queue and stops at one.
ReleasedLast(n, f, next) ==
    {u \in WaitingFor(n, f) : \A v \in WaitingFor(n, f) : u >= v}

Released(n, f, next) ==
    {u \in WaitingFor(n, f) : \A v \in Mismatched(n, f, next) : u < v}

Stopped(n, f, next) ==
    {u \in Mismatched(n, f, next) : \A v \in Mismatched(n, f, next) : u <= v}

LeftBehind(n, f, next) ==
    {u \in WaitingFor(n, f) : \E v \in Mismatched(n, f, next) : v < u}
      \cup {u \in Uid : place[u] = "loopback" /\ at[u] = n /\ flow[u] = f}

RecvRREP(e) ==
    LET n == e.node
        f == <<e.src, e.dst>>
    IN
    /\ e \in events /\ e.type = "RREP"
    /\ events' = events \ {e}
    /\ m_flowtable' = [m_flowtable EXCEPT ![n][f] = e.next]
    /\ place' = [u \in Uid |-> IF u \in Released(n, f, e.next) THEN "wire"
                               ELSE IF u \in Stopped(n, f, e.next) THEN "dropped"
                               ELSE IF u \in Outdated(n) THEN "reported"
                               ELSE place[u]]
    /\ at' = [u \in Uid |-> IF u \in Released(n, f, e.next) THEN e.next
                            ELSE at[u]]
    /\ overtaken' = overtaken \cup LeftBehind(n, f, e.next)
    /\ UNCHANGED <<m_path, flow, oif, expired>>

(***************************************************************************)
(* RouteInput of a packet that comes in from a link.                       *)
(***************************************************************************)
\* Defect: the entry of the opposite flow is taken.
NextHopOfOpposite(n, f) == m_flowtable[n][<<f[2], f[1]>>]

NextHop(n, f) == m_flowtable[n][f]

\* The fate of a packet at the node: one "wire" for Forwarding.
InputTo(u) ==
    LET n == at[u] IN
    IF Owner[flow[u][1]] = n THEN "dropped"
    ELSE IF Owner[flow[u][2]] = n THEN "delivered"
    ELSE IF n \in NoForward THEN "reported"
    ELSE IF NextHop(n, flow[u]) # NoRoute THEN "wire"
    ELSE "dropped"

RouteInput(u) ==
    /\ place[u] = "wire"
    /\ place' = [place EXCEPT ![u] = InputTo(u)]
    /\ at' = [at EXCEPT ![u] = IF InputTo(u) = "wire"
                               THEN NextHop(@, flow[u]) ELSE @]
    /\ UNCHANGED <<control, flow, oif, expired, overtaken>>

\* SendHello asks for the delay of the control path: a side effect.
SendHello(n) ==
    /\ m_path' = m_path \cup {ControlPath(n)}
    /\ UNCHANGED <<m_flowtable, events, packets>>

Control ==
    \/ \E e \in events : RecvKnownRREQ(e) \/ RecvNewRREQ(e)
    \/ \E e \in events : RecvRREP(e)

Next ==
    \/ \E u \in Uid, t \in Traffic : SendAlongRoute(u, t) \/ SendRequest(u, t)
    \/ \E u \in Uid : DeferredRouteOutput(u)
    \/ \E u \in Uid : Expire(u)
    \/ Control
    \/ \E u \in Uid : RouteInput(u)
    \/ \E n \in Node : SendHello(n)

Spec == Init /\ [][Next]_vars

(***************************************************************************)
(* The simulator executes every call that is scheduled.                    *)
(***************************************************************************)
FairSpec == Spec /\ WF_vars(Control)

-------------------------------------------------------------------------------
ReplyPending(n, f) ==
    \E e \in events : e.type = "RREP" /\ e.node = n /\ <<e.src, e.dst>> = f

RequestPending(u) == \E e \in events : e.type = "RREQ" /\ e.uid = u

HasRoute(n, f) == m_flowtable[n][f] # NoRoute

Waiting(u) == place[u] = "queued" /\ u \notin expired

(***************************************************************************)
(* Whatever the order of the replies, an entry of a flow table sends the   *)
(* flow along the one path the controller computed for its end points, and *)
(* a switch has an entry only on that path.                                *)
(***************************************************************************)
RoutesFollowPath ==
    \A n \in Node, f \in Flow :
        HasRoute(n, f) => OnPath(f, n, m_flowtable[n][f])

(***************************************************************************)
(* Every reply under way tells a switch of the flow's path the node that   *)
(* follows it there.                                                       *)
(***************************************************************************)
RepliesFollowPath ==
    \A e \in events :
        e.type = "RREP" => OnPath(<<e.src, e.dst>>, e.node, e.next)

(***************************************************************************)
(* A route is on its way to every switch of a path or to none: as soon as  *)
(* one switch has a reply or an entry of a flow, every switch that must    *)
(* forward the flow has one.                                               *)
(***************************************************************************)
Answered(f) == \E n \in Node : HasRoute(n, f) \/ ReplyPending(n, f)

AnsweredEverywhere ==
    \A f \in Flow, n \in Node :
        Answered(f) /\ OnWay(f, n) => HasRoute(n, f) \/ ReplyPending(n, f)

(***************************************************************************)
(* The packets on links are where the path of their flow leads.            *)
(***************************************************************************)
WireOnPath ==
    \A u \in Uid :
        place[u] = "wire" =>
            /\ Answered(flow[u])
            /\ \E n \in Node : OnPath(flow[u], n, at[u])

(***************************************************************************)
(* Forwarding never loops: every switch a packet passes sends it to the    *)
(* node that follows on the path of the flow, whichever replies have been  *)
(* executed when.                                                          *)
(***************************************************************************)
ForwardsAlongPath ==
    [][ \A u \in Uid :
          place[u] = "wire" /\ place'[u] = "wire" /\ at'[u] # at[u]
            => OnPath(flow[u], at[u], at'[u]) ]_vars

(***************************************************************************)
(* A switch drops a packet for want of an entry only while the reply that  *)
(* brings the entry is under way to it (sdn.cc:598).                       *)
(***************************************************************************)
DropsOnlyBeforeReply ==
    [][ \A u \in Uid :
          place[u] = "wire" /\ place'[u] = "dropped"
            => ReplyPending(at[u], flow[u]) ]_vars

(***************************************************************************)
(* The switches, the queues and the controller together implement          *)
(* RouteDiscovery: whatever order the scheduled calls are executed in, a   *)
(* packet leaves its node only when its flow was answered, goes along one  *)
(* path without leaving or repeating a part of it, ends once, and is not   *)
(* given up where it should be delivered.                                  *)
(***************************************************************************)
Stage(p) ==
    IF p \in {"loopback", "queued"} THEN "held"
    ELSE IF p = "wire" THEN "travelling"
    ELSE p

Discovery == INSTANCE RouteDiscovery WITH
    answered <- {f \in Flow : Answered(f)},
    stage <- [u \in Uid |-> Stage(place[u])]

DiscoverySpec == Discovery!Spec

(***************************************************************************)
(* A packet that waits has a reason to: its request or the reply it waits  *)
(* for is under way, or it missed the reply (overtaken), or no reply will  *)
(* ever be for it.  The last is exactly when its source is not the default *)
(* address of the node, its destination is on the node itself or on the    *)
(* node's controller, or the path of the two nodes was computed for        *)
(* another address of the destination node.                                *)
(***************************************************************************)
Unanswerable(u) ==
    LET n == at[u]
        src == flow[u][1]
        dst == flow[u][2]
    IN
    \/ src # DefaultAddress[n]
    \/ Owner[dst] \in {n, Controller[n]}
    \/ \E d \in Addr \ {dst} :
         /\ Owner[d] = Owner[dst]
         /\ HasRoute(n, <<src, d>>) \/ ReplyPending(n, <<src, d>>)

WaitingHasCause ==
    \A u \in Uid :
        Waiting(u) =>
            \/ RequestPending(u)
            \/ ReplyPending(at[u], flow[u])
            \/ u \in overtaken
            \/ Unanswerable(u)

(***************************************************************************)
(* Packets of a flow leave their node in the order they were sent: a       *)
(* packet passes another of its flow only if the other missed the reply.   *)
(***************************************************************************)
StaysBehind(u, v) ==
    /\ place'[u] \in {"loopback", "queued"} /\ u \notin expired
    /\ flow[u] = flow'[v]

Departs(v) == place[v] # "wire" /\ place'[v] = "wire"

LeavesInOrder ==
    [][ \A u, v \in Uid :
          u < v /\ Departs(v) /\ StaysBehind(u, v) => u \in overtaken' ]_vars

(***************************************************************************)
(* A packet that can be answered does not wait for ever: it leaves the     *)
(* queue, or has missed its reply.                                         *)
(***************************************************************************)
AnswerableIsServed ==
    \A u \in Uid :
        Waiting(u) /\ ~Unanswerable(u)
            ~> ~Waiting(u) \/ Unanswerable(u) \/ u \in overtaken

(***************************************************************************)
(* The nodes of a path in m_path have been told the route that transmits   *)
(* the flow (sdn-netview.h:48): when the controller has answered, or       *)
(* ignored, the request of a packet, its node has an entry for the packet  *)
(* or is about to get it.                                                  *)
(***************************************************************************)
PathKnown(f) == <<Owner[f[1]], Owner[f[2]]>> \in m_path

KnownPathHasRoute ==
    \A u \in Uid :
        Waiting(u) /\ ~RequestPending(u) /\ PathKnown(flow[u])
          => HasRoute(at[u], flow[u]) \/ ReplyPending(at[u], flow[u])

===============================================================================
