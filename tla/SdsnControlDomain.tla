-------------------------- MODULE SdsnControlDomain --------------------------
(***************************************************************************)
(* The control domains of src/sdsn: NetView finds the path between a       *)
(* controller and each of its switches and installs the routes of both     *)
(* directions in the routing tables of the nodes of the path.              *)
(*                                                                         *)
(* SetControlDomain calls SetPair for each switch; a later call hands a    *)
(* switch over to another controller.  Links are point to point and two    *)
(* nodes have at most one, so that <<n, m>> is both the link from n to m   *)
(* and the address of n on it.  A route is the next node and the source    *)
(* address: gateway and output device follow from the next node.           *)
(***************************************************************************)
EXTENDS Naturals, Sequences, SequencesExt, FiniteSets, Functions, TLC

CONSTANTS
    Node,      \* the nodes NetView::Install is given
    Views,     \* the neighbours each node may have, in the order of devices
    NoAddr,    \* Ipv4Address ()
    NoRoute,   \* absence of a route
    MaxPairs   \* bound on the pairs of controller and switch

Addr == {a \in Node \X Node : a[1] # a[2]}
Owner(a) == a[1]

\* A link has two ends, and no node has two links to another.
ASSUME ViewAssumption ==
    \A v \in Views :
        /\ v \in [Node -> Seq(Node)]
        /\ \A n \in Node :
             /\ ~Contains(v[n], n)
             /\ IsInjective(v[n])
             /\ \A m \in Range(v[n]) : Contains(v[m], n)
ASSUME NodeAssumption == IsFiniteSet(Node)
ASSUME NullAssumption ==
    /\ NoAddr \notin Addr
    /\ NoRoute \notin [next: Node, source: Addr]
    /\ MaxPairs \in Nat

VARIABLES
    m_view,           \* the neighbours of each node, in the order of devices
    m_routingtable,   \* the route of each node to an address
    m_conIP,          \* the controller's address a switch was given
    m_outSocket,      \* the address of the socket a switch calls it from
    m_type,           \* "SWITCH" or "CONTROLLER"
    domain            \* history: the pairs, with the addresses of their path

tables == <<m_routingtable, m_conIP, m_outSocket, m_type, domain>>
domainVars == <<m_view, m_routingtable, m_conIP, m_outSocket, m_type, domain>>

Route == [next: Node, source: Addr]

DomainTypeOK ==
    /\ m_view \in [Node -> Seq(Node)]
    /\ m_routingtable \in [Node -> [Addr -> Route \cup {NoRoute}]]
    /\ m_conIP \in [Node -> Addr \cup {NoAddr}]
    /\ m_outSocket \in [Node -> Addr \cup {NoAddr}]
    /\ \A n \in Node : m_outSocket[n] # NoAddr => Owner(m_outSocket[n]) = n
    /\ m_type \in [Node -> {"SWITCH", "CONTROLLER"}]
    /\ domain \subseteq [con: Node, swc: Node, con_ip: Addr, src_ip: Addr]

\* After NetView::Install.
DomainInit ==
    /\ m_view \in Views
    /\ m_routingtable = [n \in Node |-> [a \in Addr |-> NoRoute]]
    /\ m_conIP = [n \in Node |-> NoAddr]
    /\ m_outSocket = [n \in Node |-> NoAddr]
    /\ m_type = [n \in Node |-> "SWITCH"]
    /\ domain = {}

-------------------------------------------------------------------------------
\* The nodes of neighbours that are not noted, in their order.
Unseen(neighbours, noted) ==
    LET new[i \in 0 .. Len(neighbours)] ==
            IF i = 0 THEN <<>>
            ELSE LET before == new[i - 1] IN
                 IF neighbours[i] \in noted THEN before
                 ELSE Append(before, neighbours[i])
    IN new[Len(neighbours)]

\* Defect: a node that waits in the queue is noted again.
VisitAgain(view, s, k) ==
    LET n == s.bfs[k]
        new == Unseen(view[n], DOMAIN s.traversed)
        noted == {m \in Range(view[n]) : \E j \in k + 1 .. Len(s.bfs) : s.bfs[j] = m}
                 \cup Range(new)
    IN [bfs |-> s.bfs \o new,
        traversed |-> [m \in DOMAIN s.traversed \cup noted |->
                          IF m \in noted THEN n ELSE s.traversed[m]]]

\* The k-th node that was queued is at the front: its neighbours that were
\* not seen are queued, and the node they were reached from is kept.
Visit(view, s, k) ==
    LET n == s.bfs[k]
        new == Unseen(view[n], DOMAIN s.traversed)
    IN [bfs |-> s.bfs \o new,
        traversed |-> [m \in DOMAIN s.traversed \cup Range(new) |->
                          IF m \in DOMAIN s.traversed THEN s.traversed[m] ELSE n]]

\* The search of SetPair from con, after each round of its loop: bfs is what
\* was queued so far, the rounds have popped the first of it.  It goes on to
\* the last node: what it has noted of a node it does not change.
Search(view, con) ==
    LET search[k \in 0 .. Cardinality(Node)] ==
            IF k = 0 THEN [bfs |-> <<con>>, traversed |-> [n \in {con} |-> con]]
            ELSE LET s == search[k - 1] IN
                 IF k > Len(s.bfs) THEN s ELSE Visit(view, s, k)
    IN search

Traversed(view, con) == Search(view, con)[Cardinality(Node)].traversed

\* The nodes from swc to con, back the way the search came.
ControlPath(view, con, swc) ==
    LET up_hop == Traversed(view, con)
        path[n \in DOMAIN up_hop] ==
            IF n = con THEN <<con>> ELSE <<n>> \o path[up_hop[n]]
    IN path[swc]

\* Defect: the source of the routes to the switch is not the controller's.
RoutesFromSwitch(path, con_ip, src_ip) ==
    UNION { { [node |-> path[i], dst |-> con_ip,
               next |-> path[i + 1], source |-> src_ip],
              [node |-> path[i + 1], dst |-> src_ip,
               next |-> path[i], source |-> src_ip] }
            : i \in 1 .. Len(path) - 1 }

\* Defect: the addresses of the two directions are exchanged.
RoutesReversed(path, con_ip, src_ip) ==
    UNION { { [node |-> path[i], dst |-> src_ip,
               next |-> path[i + 1], source |-> src_ip],
              [node |-> path[i + 1], dst |-> con_ip,
               next |-> path[i], source |-> con_ip] }
            : i \in 1 .. Len(path) - 1 }

\* Defect: the gateway to the controller is the last hop, not the next.
RoutesBack(path, con_ip, src_ip) ==
    UNION { { [node |-> path[i], dst |-> con_ip,
               next |-> path[IF i = 1 THEN 2 ELSE i - 1], source |-> src_ip],
              [node |-> path[i + 1], dst |-> src_ip,
               next |-> path[i], source |-> con_ip] }
            : i \in 1 .. Len(path) - 1 }

\* What ControlPathRouting gives the nodes of a path.
ControlRoutes(path, con_ip, src_ip) ==
    UNION { { [node |-> path[i], dst |-> con_ip,
               next |-> path[i + 1], source |-> src_ip],
              [node |-> path[i + 1], dst |-> src_ip,
               next |-> path[i], source |-> con_ip] }
            : i \in 1 .. Len(path) - 1 }

\* Defect: the source is not set.
AddedWithoutSource(table, routes) ==
    [n \in Node |-> [a \in Addr |->
        LET new == {r \in routes : r.node = n /\ r.dst = a} IN
        IF table[n][a] # NoRoute \/ new = {} THEN table[n][a]
        ELSE LET r == CHOOSE r \in new : TRUE
             IN [next |-> r.next, source |-> NoAddr]]]

\* RoutingTable::Add keeps the route it has.
Added(table, routes) ==
    [n \in Node |-> [a \in Addr |->
        LET new == {r \in routes : r.node = n /\ r.dst = a} IN
        IF table[n][a] # NoRoute \/ new = {} THEN table[n][a]
        ELSE LET r == CHOOSE r \in new : TRUE
             IN [next |-> r.next, source |-> r.source]]]

\* A switch that is the controller itself makes control_path.back () that
\* of an empty vector, one that cannot be reached bfs.front () that of an
\* empty queue: undefined.
SetPair(con, swc) ==
    /\ con # swc
    /\ swc \in DOMAIN Traversed(m_view, con)
    /\ \E path \in {ControlPath(m_view, con, swc)} :
         LET con_ip == <<con, path[Len(path) - 1]>>
             src_ip == <<swc, path[2]>>
         IN
         /\ \E routes \in {ControlRoutes(path, con_ip, src_ip)} :
              m_routingtable' = Added(m_routingtable, routes)
         /\ m_conIP' = [m_conIP EXCEPT ![swc] = con_ip]
         /\ m_outSocket' = [m_outSocket EXCEPT ![swc] = src_ip]
         /\ domain' = domain \cup {[con |-> con, swc |-> swc,
                                    con_ip |-> con_ip, src_ip |-> src_ip]}
    /\ m_type' = [m_type EXCEPT ![con] = "CONTROLLER", ![swc] = "SWITCH"]
    /\ Cardinality(domain') <= MaxPairs
    /\ UNCHANGED m_view

DomainNext == \E con, swc \in Node : SetPair(con, swc)

DomainSpec == DomainInit /\ [][DomainNext]_domainVars

-------------------------------------------------------------------------------
\* The nodes at most k links away from m, for each k.
Ball(view, m) ==
    LET ball[k \in 0 .. Cardinality(Node)] ==
            IF k = 0 THEN {m}
            ELSE LET b == ball[k - 1] IN
                 b \cup UNION {Range(view[p]) : p \in b}
    IN ball

\* How many links there are between n and m at least.
Distance(view, n, m) ==
    CHOOSE k \in 0 .. Cardinality(Node) :
        /\ n \in Ball(view, m)[k]
        /\ \A l \in 0 .. k - 1 : n \notin Ball(view, m)[l]

(***************************************************************************)
(* A message from n to an address arrives, sent from node to node as the   *)
(* routing tables say, and over the link of the address: the socket of an  *)
(* address is bound to its device (sdsn.cc:743).                           *)
(***************************************************************************)
Walk(table, n, a) ==
    LET walk[k \in 0 .. Cardinality(Node)] ==
            IF k = 0 THEN n
            ELSE LET p == walk[k - 1] IN
                 IF p = Owner(a) \/ table[p][a] = NoRoute THEN p
                 ELSE table[p][a].next
    IN walk

Arrives(n, a) ==
    \E k \in 1 .. Cardinality(Node) :
        /\ Walk(m_routingtable, n, a)[k - 1] = a[2]
        /\ Walk(m_routingtable, n, a)[k] = a[1]

(***************************************************************************)
(* Every switch reaches the address of every controller it was ever given, *)
(* and they reach it: the tables keep the routes of the first path, so the *)
(* routes of a later one may be only a part of the way.  A request for a   *)
(* route has a route itself (sdsn.cc:418), and the controller has one for  *)
(* its reply (sdsn.cc:583).                                                *)
(***************************************************************************)
ControlPathsWork ==
    \A d \in domain : Arrives(d.swc, d.con_ip) /\ Arrives(d.con, d.src_ip)

(***************************************************************************)
(* No route is a detour: each leads to a node that is nearer, whichever    *)
(* paths have left their routes in the tables.                             *)
(***************************************************************************)
RoutesAreShortest ==
    \A n \in Node, a \in Addr :
        m_routingtable[n][a] # NoRoute =>
            Distance(m_view, n, Owner(a)) =
                Distance(m_view, m_routingtable[n][a].next, Owner(a)) + 1

(***************************************************************************)
(* A controller answers its switch from the address the switch calls it    *)
(* by, also after hand-overs, unless it is on the path of another pair to  *)
(* the same address and may have kept the route of that one.  Only for an  *)
(* address of its own SendReply has a socket (sdsn.cc:552).                *)
(***************************************************************************)
OnPathTo(e, n, a) ==
    /\ a \in {e.con_ip, e.src_ip}
    /\ Contains(ControlPath(m_view, e.con, e.swc), n)

RepliesFromConIP ==
    \A d \in domain :
        /\ m_conIP[d.swc] = d.con_ip
        /\ \A e \in domain : OnPathTo(e, d.con, d.src_ip) => e = d
        => m_routingtable[d.con][d.src_ip].source = m_conIP[d.swc]

===============================================================================
