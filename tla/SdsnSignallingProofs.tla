-------------------------- MODULE SdsnSignallingProofs --------------------------
(***************************************************************************)
(* Theorems about SdsnSignalling, for every network, every sequence of     *)
(* control domains and interface changes, every traffic and every order,   *)
(* delay and loss of the messages.  What path a control domain has does    *)
(* not matter to them: a message without a route is one that is lost.      *)
(***************************************************************************)
EXTENDS SdsnSignalling, SdsnControlDomainProofs

\* A message has these fields and no other.
Fields(m) ==
    m = [type |-> m.type, at |-> m.at, to |-> m.to, dst |-> m.dst,
         origin |-> m.origin, uid |-> m.uid, sent |-> m.sent]

PlaceOK == place \in [Uid -> Place]

\* A socket a switch calls its controller from was found by its address.
SocketsOK ==
    /\ up \subseteq Addr
    /\ m_outSocket = [n \in Node |-> m_outSocket[n]]
    /\ m_socket \in [Node -> {"null", "open", "closed"}]
    /\ \A n \in Node :
          m_socket[n] # "null" =>
              m_outSocket[n] \in Addr /\ Owner(m_outSocket[n]) = n

\* The request of a packet and its reply name the packet's flow.
SignalsOK ==
    \A m \in net :
        /\ Fields(m)
        /\ m.uid \in Uid =>
              /\ Owner(m.origin) = NodeOf(m.uid)
              /\ m.dst = Traffic[m.uid].dst
              /\ m.type = "RREP" => m.to = m.origin

(***************************************************************************)
(* The invariant behind WaitingHasCause.                                   *)
(***************************************************************************)
WaitInv == PlaceOK /\ SocketsOK /\ SignalsOK /\ WaitingHasCause

TimesOK ==
    /\ m_cache \in [Addr -> Nat]
    /\ m_snap \in [Node -> Nat]
    /\ now \in Nat
    /\ \A a \in Addr : m_cache[a] <= now

\* A hello on its way was sent when its links had been measured.
HellosOK ==
    \A m \in net :
        /\ Fields(m) /\ m.origin \in Addr
        /\ m.uid = 0 =>
              /\ m.type = "RREP"
              /\ m.dst = m.to
              /\ m.sent \in Nat
              /\ m.sent <= m_cache[m.origin]

(***************************************************************************)
(* The invariant behind HellosRefresh.                                     *)
(***************************************************************************)
HelloInv == SocketsOK /\ TimesOK /\ HellosOK

-------------------------------------------------------------------------------
\* Packets are numbered from 1, have nodes and are sent to addresses.
LEMMA PacketFacts ==
    /\ Uid \subseteq Nat
    /\ 0 \notin Uid
    /\ \A u \in Uid : NodeOf(u) \in Node /\ Traffic[u].dst \in Addr
<1> DEFINE S == [node: Node, dst: Addr, oif: Addr \cup {NoAddr}]
<1>1. Traffic \in Seq(S)
  BY SignallingAssumption
<1>2. DOMAIN Traffic = 1 .. Len(Traffic) /\ Len(Traffic) \in Nat
      /\ \A u \in 1 .. Len(Traffic) : Traffic[u] \in S
  <2> HIDE DEF S
  <2>1. QED
    BY <1>1
<1>3. QED
  BY <1>2 DEF Uid, NodeOf

\* An address belongs to a node.
LEMMA OwnerIsNode == \A a \in Addr : Owner(a) \in Node
BY DEF Addr, Owner

-------------------------------------------------------------------------------
(***************************************************************************)
(* The sockets.                                                            *)
(***************************************************************************)
\* A hand-over finds its socket by the address of an interface that is up.
LEMMA SocketsHandOver ==
    ASSUME SocketsOK, NEW con \in Node, NEW swc \in Node, HandOver(con, swc)
    PROVE  SocketsOK'
<1>1. PICK src_ip :
          /\ m_outSocket' = [m_outSocket EXCEPT ![swc] = src_ip]
          /\ Owner(src_ip) = swc
  <2>1. PICK path : m_outSocket' = [m_outSocket EXCEPT ![swc] = <<swc, path[2]>>]
    BY DEF HandOver, SetPair
  <2>2. Owner(<<swc, path[2]>>) = swc
    BY DEF Owner
  <2>3. QED
    BY <2>1, <2>2
<1>2. /\ m_socket' = [m_socket EXCEPT ![swc] =
                         IF m_outSocket'[swc] \in up THEN "open" ELSE "null"]
      /\ up' = up
  BY DEF HandOver
<1>3. m_outSocket'[swc] = src_ip /\ \A n \in Node \ {swc} : m_outSocket'[n] = m_outSocket[n]
  BY <1>1 DEF SocketsOK
<1>4. m_outSocket' = [n \in Node |-> m_outSocket'[n]]
  BY <1>1 DEF SocketsOK
<1>5. QED
  BY <1>1, <1>2, <1>3, <1>4 DEF SocketsOK

\* No notification gives a switch another socket.
LEMMA SocketsNotified ==
    ASSUME SocketsOK, NEW a \in Addr, NotifyInterfaceDown(a) \/ NotifyInterfaceUp(a)
    PROVE  SocketsOK'
<1>1. UNCHANGED m_outSocket /\ up' \subseteq Addr
  BY DEF NotifyInterfaceDown, NotifyInterfaceUp, SocketsOK, tables
<1>2. /\ m_socket' \in [Node -> {"null", "open", "closed"}]
      /\ \A n \in Node : m_socket'[n] # "null" => m_socket[n] # "null"
  BY DEF NotifyInterfaceDown, NotifyInterfaceUp, SocketsOK
<1>3. QED
  BY <1>1, <1>2 DEF SocketsOK

\* Nothing else touches them.
LEMMA SocketsNext == SocketsOK /\ [Next]_vars => SocketsOK'
<1> SUFFICES ASSUME SocketsOK, [Next]_vars PROVE SocketsOK'
  OBVIOUS
<1>1. ASSUME UNCHANGED <<m_outSocket, interfaces>> PROVE SocketsOK'
  BY <1>1 DEF SocketsOK, interfaces
<1>2. CASE \E m \in net : Forwarding(m) \/ Lose(m) \/ Undelivered(m)
                          \/ RecvRequest(m) \/ RecvReply(m)
  BY <1>1, <1>2 DEF Forwarding, Lose, Undelivered, Gone, RecvRequest,
                    RecvReply, tables
<1>3. CASE \E p \in Pairs : HandOver(p[1], p[2])
  BY <1>3, SignallingAssumption, SocketsHandOver
<1>4. CASE \E r \in UserRoutes : AddRoute(r)
  BY <1>1, <1>4 DEF AddRoute
<1>5. CASE \E a \in Addr : NotifyInterfaceDown(a) \/ NotifyInterfaceUp(a)
  BY <1>5, SocketsNotified
<1>6. CASE \E u \in Uid : RouteOutput(u) \/ DeferredRouteOutput(u)
                          \/ DropAtLoopback(u)
  BY <1>1, <1>6 DEF RouteOutput, DeferredRouteOutput, DropAtLoopback, tables
<1>7. CASE (\E n \in Node : HelloTimerExpire(n)) \/ Tick
  BY <1>1, <1>7 DEF HelloTimerExpire, Tick, tables
<1>8. CASE UNCHANGED vars
  BY <1>1, <1>8 DEF vars, tables, interfaces
<1>9. QED
  BY <1>2, <1>3, <1>4, <1>5, <1>6, <1>7, <1>8
  DEF Next, Environment, Requests, Hellos

-------------------------------------------------------------------------------
(***************************************************************************)
(* Where the messages come from.                                           *)
(***************************************************************************)
Moved(m, k) == Forwarding(k) /\ m = Hop(k)
Replied(m, k) == m = [k EXCEPT !.type = "RREP", !.to = k.origin]
Requested(m) ==
    \E u \in Uid : m_socket[NodeOf(u)] = "open" /\ m = Request(u)
Announced(m) ==
    \E n \in Node : /\ HelloTimerExpire(n) /\ m_type[n] = "SWITCH"
                    /\ m_socket[n] = "open" /\ m = Hello(n)

\* A message was there before, went on, is a reply, or was just sent.
LEMMA NetStep ==
    ASSUME [Next]_vars, \A k \in net : Fields(k), NEW m \in net', m \notin net
    PROVE  \/ \E k \in net : Moved(m, k)
           \/ \E k \in net : RecvRequest(k) /\ Replied(m, k)
           \/ Requested(m)
           \/ Announced(m)
<1>1. ASSUME NEW k \in net, Forwarding(k)
      PROVE  Moved(m, k)
  BY <1>1 DEF Forwarding, Moved
<1>2. ASSUME NEW k \in net, RecvRequest(k)
      PROVE  Replied(m, k)
  BY <1>2 DEF RecvRequest, Replied
<1>3. ASSUME NEW u \in Uid, DeferredRouteOutput(u)
      PROVE  Requested(m)
  BY <1>3 DEF DeferredRouteOutput, Requested
<1>4. ASSUME NEW n \in Node, HelloTimerExpire(n)
      PROVE  Announced(m)
  BY <1>4 DEF HelloTimerExpire, Announced
<1>5. CASE \E k \in net : Lose(k) \/ Undelivered(k) \/ RecvReply(k)
  BY <1>5 DEF Lose, Undelivered, Gone, RecvReply
<1>6. CASE \E p \in Pairs : HandOver(p[1], p[2])
  BY <1>6 DEF HandOver, signals
<1>7. CASE (\E r \in UserRoutes : AddRoute(r)) \/ Tick
  BY <1>7 DEF AddRoute, Tick, signals
<1>8. CASE \E a \in Addr : NotifyInterfaceDown(a) \/ NotifyInterfaceUp(a)
  BY <1>8 DEF NotifyInterfaceDown, NotifyInterfaceUp, signals
<1>9. CASE \E u \in Uid : RouteOutput(u) \/ DropAtLoopback(u)
  BY <1>9 DEF RouteOutput, DropAtLoopback, signals
<1>10. CASE UNCHANGED vars
  BY <1>10 DEF vars
<1>11. QED
  BY <1>1, <1>2, <1>3, <1>4, <1>5, <1>6, <1>7, <1>8, <1>9, <1>10
  DEF Next, Environment, Requests, Hellos

-------------------------------------------------------------------------------
(***************************************************************************)
(* Hellos.                                                                 *)
(***************************************************************************)
\* The snapshot takes the later of two times.
LEMMA SnapUpdated ==
    ASSUME TimesOK, NEW n \in Node, NEW time \in Nat, UpdateSnap(n, time)
    PROVE  /\ m_snap' \in [Node -> Nat]
           /\ m_snap'[n] >= time
           /\ \A k \in Node : m_snap'[k] >= m_snap[k]
BY DEF TimesOK, UpdateSnap

\* Neither the measurements nor the snapshot ever get older.
LEMMA TimesNext ==
    ASSUME HelloInv, [Next]_vars
    PROVE  /\ TimesOK'
           /\ \A a \in Addr : m_cache'[a] >= m_cache[a]
           /\ \A n \in Node : m_snap'[n] >= m_snap[n]
<1> DEFINE Goal == /\ TimesOK'
                   /\ \A a \in Addr : m_cache'[a] >= m_cache[a]
                   /\ \A n \in Node : m_snap'[n] >= m_snap[n]
<1>1. ASSUME UNCHANGED <<m_cache, m_snap, now>> PROVE Goal
  BY <1>1 DEF HelloInv, TimesOK
<1>2. ASSUME NEW n \in Node, HelloTimerExpire(n) PROVE Goal
  <2>1. now' = now
    BY <1>2 DEF HelloTimerExpire
  <2>2. CASE UpdateSnap(n, now) /\ UNCHANGED m_cache
    <3>1. now \in Nat
      BY DEF HelloInv, TimesOK
    <3>2. QED
      BY <2>1, <2>2, <3>1, SnapUpdated DEF HelloInv, TimesOK
  <2>3. CASE /\ m_socket[n] # "null"
             /\ m_cache' = [m_cache EXCEPT ![m_outSocket[n]] = now]
             /\ UNCHANGED m_snap
    <3>1. m_outSocket[n] \in Addr
      BY <2>3 DEF HelloInv, SocketsOK
    <3>2. /\ m_cache' \in [Addr -> Nat]
          /\ \A a \in Addr : m_cache'[a] = IF a = m_outSocket[n] THEN now ELSE m_cache[a]
      BY <2>3, <3>1 DEF HelloInv, TimesOK
    <3>3. /\ m_snap' = m_snap /\ m_snap \in [Node -> Nat] /\ now \in Nat
          /\ \A a \in Addr : m_cache[a] \in Nat /\ m_cache[a] <= now
      BY <2>3 DEF HelloInv, TimesOK
    <3>4. QED
      BY <2>1, <3>2, <3>3 DEF TimesOK
  <2>4. QED
    BY <1>2, <2>2, <2>3 DEF HelloTimerExpire
<1>3. CASE Tick
  BY <1>3 DEF Tick, HelloInv, TimesOK, snapshot
<1>4. ASSUME NEW m \in net, RecvReply(m) PROVE Goal
  <2>1. now' = now /\ m_cache' = m_cache
    BY <1>4 DEF RecvReply, clock
  <2>2. CASE UNCHANGED m_snap
    BY <1>1, <2>1, <2>2
  <2>3. CASE UpdateSnap(Owner(m.origin), m_cache[m.origin])
    <3>1. Owner(m.origin) \in Node /\ m_cache[m.origin] \in Nat
      BY OwnerIsNode DEF HelloInv, TimesOK, HellosOK
    <3>2. QED
      BY <2>1, <2>3, <3>1, SnapUpdated DEF HelloInv, TimesOK
  <2>4. QED
    BY <1>4, <2>2, <2>3 DEF RecvReply
<1>5. CASE \E m \in net : Forwarding(m) \/ Lose(m) \/ Undelivered(m)
                          \/ RecvRequest(m)
  BY <1>1, <1>5 DEF Forwarding, Lose, Undelivered, Gone, RecvRequest, snapshot, clock
<1>6. CASE \E p \in Pairs : HandOver(p[1], p[2])
  BY <1>1, <1>6 DEF HandOver, snapshot, clock
<1>7. CASE \E r \in UserRoutes : AddRoute(r)
  BY <1>1, <1>7 DEF AddRoute, snapshot, clock
<1>8. CASE \E a \in Addr : NotifyInterfaceDown(a) \/ NotifyInterfaceUp(a)
  BY <1>1, <1>8 DEF NotifyInterfaceDown, NotifyInterfaceUp, snapshot, clock
<1>9. CASE \E u \in Uid : RouteOutput(u) \/ DeferredRouteOutput(u)
                          \/ DropAtLoopback(u)
  BY <1>1, <1>9 DEF RouteOutput, DeferredRouteOutput, DropAtLoopback,
                    snapshot, clock
<1>10. CASE UNCHANGED vars
  BY <1>1, <1>10 DEF vars
<1>11. QED
  BY <1>2, <1>3, <1>4, <1>5, <1>6, <1>7, <1>8, <1>9, <1>10
  DEF Next, Environment, Requests, Hellos

\* A hello is sent after its measurement, and keeps its fields on its way.
LEMMA HellosNext ==
    ASSUME HelloInv, [Next]_vars
    PROVE  HellosOK'
<1> SUFFICES ASSUME NEW m \in net'
             PROVE  /\ Fields(m) /\ m.origin \in Addr
                    /\ m.uid = 0 => /\ m.type = "RREP" /\ m.dst = m.to
                                    /\ m.sent \in Nat
                                    /\ m.sent <= m_cache'[m.origin]
  BY DEF HellosOK
<1>1. /\ m_cache' \in [Addr -> Nat]
      /\ \A a \in Addr : m_cache'[a] >= m_cache[a] /\ m_cache[a] \in Nat
  BY TimesNext DEF HelloInv, TimesOK
<1>2. CASE m \in net
  BY <1>1, <1>2 DEF HelloInv, HellosOK
<1>3. CASE \E k \in net : Moved(m, k)
  BY <1>1, <1>3 DEF Moved, Hop, HelloInv, HellosOK, Fields
<1>4. CASE \E k \in net : RecvRequest(k) /\ Replied(m, k)
  <2>1. PICK k \in net : k.type = "RREQ" /\ Replied(m, k)
    BY <1>4 DEF RecvRequest
  <2>2. Fields(k) /\ k.uid # 0 /\ k.origin \in Addr
    BY <2>1 DEF HelloInv, HellosOK
  <2>3. QED
    BY <2>1, <2>2 DEF Replied, Fields
<1>5. CASE Requested(m)
  BY <1>5, PacketFacts DEF Requested, Request, Fields, HelloInv, SocketsOK
<1>6. CASE Announced(m)
  <2>1. PICK n \in Node : /\ HelloTimerExpire(n) /\ m_type[n] = "SWITCH"
                          /\ m_socket[n] = "open" /\ m = Hello(n)
    BY <1>6 DEF Announced
  <2>2. m_outSocket[n] \in Addr
    BY <2>1 DEF HelloInv, SocketsOK
  <2>3. m_cache' = [m_cache EXCEPT ![m_outSocket[n]] = now]
    BY <2>1 DEF HelloTimerExpire
  <2>4. m_cache'[m_outSocket[n]] = now /\ now \in Nat
    BY <2>2, <2>3 DEF HelloInv, TimesOK
  <2>5. QED
    BY <2>1, <2>2, <2>4 DEF Hello, Fields
<1>7. QED
  BY <1>2, <1>3, <1>4, <1>5, <1>6, NetStep DEF HelloInv, HellosOK

\* The invariant holds at the start, and every step keeps it.
LEMMA HelloCorrect == Spec => []HelloInv
<1>1. Init => HelloInv
  BY SignallingAssumption DEF Init, DomainInit, HelloInv, SocketsOK, TimesOK, HellosOK
<1>2. HelloInv /\ [Next]_vars => HelloInv'
  BY SocketsNext, TimesNext, HellosNext DEF HelloInv
<1>3. QED
  BY <1>1, <1>2, PTL DEF Spec

(***************************************************************************)
(* In any network, whatever order hellos arrive in and wherever switches   *)
(* are handed over, the snapshot never goes back and is as new as every    *)
(* hello that has arrived (sdsn.cc:130, sdsn.cc:660).                      *)
(***************************************************************************)
THEOREM SnapshotRefreshed == Spec => HellosRefresh
<1>1. HelloInv /\ [Next]_vars =>
        [ /\ \A n \in Node : m_snap'[n] >= m_snap[n]
          /\ \A m \in net \ net' :
                HelloArrived(m) => m_snap'[Owner(m.origin)] >= m.sent ]_vars
  <2> SUFFICES ASSUME HelloInv, [Next]_vars, NEW m \in net \ net', HelloArrived(m)
               PROVE  m_snap'[Owner(m.origin)] >= m.sent
    BY TimesNext
  <2>1. /\ m.type = "RREP" /\ m.dst = m.to /\ m.origin \in Addr
        /\ m.sent \in Nat /\ m.sent <= m_cache[m.origin]
    BY DEF HelloArrived, HelloInv, HellosOK
  <2>2. m.at = Owner(m.to) /\ m.to \in up /\ m_type[m.at] = "CONTROLLER"
    BY DEF HelloArrived
  <2>3. RecvReply(m)
    <3>1. CASE \E k \in net : Forwarding(k) \/ Lose(k) \/ Undelivered(k)
                              \/ RecvRequest(k) \/ RecvReply(k)
      BY <2>1, <2>2, <3>1 DEF Forwarding, Lose, Undelivered, Gone, RecvRequest,
                             RecvReply
    <3>2. CASE \E p \in Pairs : HandOver(p[1], p[2])
      BY <3>2 DEF HandOver, signals
    <3>3. CASE (\E r \in UserRoutes : AddRoute(r)) \/ Tick \/ UNCHANGED vars
      BY <3>3 DEF AddRoute, Tick, signals, vars
    <3>4. CASE \E a \in Addr : NotifyInterfaceDown(a) \/ NotifyInterfaceUp(a)
      BY <3>4 DEF NotifyInterfaceDown, NotifyInterfaceUp, signals
    <3>5. CASE \E u \in Uid : RouteOutput(u) \/ DeferredRouteOutput(u)
                              \/ DropAtLoopback(u)
      BY <3>5 DEF RouteOutput, DeferredRouteOutput, DropAtLoopback, signals
    <3>6. CASE \E n \in Node : HelloTimerExpire(n)
      BY <3>6 DEF HelloTimerExpire
    <3>7. QED
      BY <3>1, <3>2, <3>3, <3>4, <3>5, <3>6 DEF Next, Environment, Requests, Hellos
  <2>4. UpdateSnap(Owner(m.origin), m_cache[m.origin])
    BY <2>1, <2>2, <2>3 DEF RecvReply
  <2>5. Owner(m.origin) \in Node /\ m_cache[m.origin] \in Nat
    BY <2>1, OwnerIsNode DEF HelloInv, TimesOK
  <2>6. m_snap'[Owner(m.origin)] >= m_cache[m.origin]
        /\ m_snap'[Owner(m.origin)] \in Nat
    BY <2>4, <2>5, SnapUpdated DEF HelloInv
  <2>7. QED
    BY <2>1, <2>5, <2>6
<1>2. QED
  BY <1>1, HelloCorrect, PTL DEF Spec, HellosRefresh

-------------------------------------------------------------------------------
(***************************************************************************)
(* Packets that wait.                                                      *)
(***************************************************************************)
\* A request is for its packet, and the reply goes back where it came from.
LEMMA SignalsNext ==
    ASSUME WaitInv, [Next]_vars
    PROVE  SignalsOK'
<1> SUFFICES ASSUME NEW m \in net'
             PROVE  /\ Fields(m)
                    /\ m.uid \in Uid =>
                          /\ Owner(m.origin) = NodeOf(m.uid)
                          /\ m.dst = Traffic[m.uid].dst
                          /\ m.type = "RREP" => m.to = m.origin
  BY DEF SignalsOK
<1>1. CASE m \in net
  BY <1>1 DEF WaitInv, SignalsOK
<1>2. CASE \E k \in net : Moved(m, k)
  BY <1>2 DEF Moved, Hop, WaitInv, SignalsOK, Fields
<1>3. CASE \E k \in net : RecvRequest(k) /\ Replied(m, k)
  BY <1>3, ZenonT(30) DEF Replied, WaitInv, SignalsOK, Fields
<1>4. CASE Requested(m)
  <2>1. PICK u \in Uid : m_socket[NodeOf(u)] = "open" /\ m = Request(u)
    BY <1>4 DEF Requested
  <2>2. Owner(m_outSocket[NodeOf(u)]) = NodeOf(u)
    BY <2>1, PacketFacts DEF WaitInv, SocketsOK
  <2>3. QED
    BY <2>1, <2>2 DEF Request, Fields
<1>5. CASE Announced(m)
  BY <1>5, PacketFacts DEF Announced, Hello, Fields
<1>6. QED
  BY <1>1, <1>2, <1>3, <1>4, <1>5, NetStep DEF WaitInv, SignalsOK

\* A step that neither queues nor dequeues a packet, nor forgets one.
KeepsWaiting ==
    /\ place' \in [Uid -> Place]
    /\ \A u \in Uid : place'[u] = "queued" => place[u] = "queued"
    /\ \A u \in Uid : place[u] = "lost" => place'[u] = "lost"
    /\ lost \subseteq lost' /\ silenced \subseteq silenced'
    /\ ignored \subseteq ignored' /\ overtaken \subseteq overtaken'

\* What is waited for in vain stays so.
LEMMA StillInVain ==
    ASSUME KeepsWaiting, NEW u \in Uid, WaitsInVain(u)
    PROVE  WaitsInVain(u)'
BY DEF KeepsWaiting, WaitsInVain, SameFlow, NodeOf

\* Then only messages that go matter.
LEMMA WaitingKept ==
    ASSUME WaitInv, KeepsWaiting,
           \A u \in Uid, m \in net :
              place'[u] = "queued" /\ m.uid = u =>
                  WaitsInVain(u)' \/ \E k \in net' : k.uid = u
    PROVE  PlaceOK' /\ WaitingHasCause'
<1> SUFFICES ASSUME NEW u \in Uid, place'[u] = "queued"
             PROVE  WaitsInVain(u)' \/ \E k \in net' : k.uid = u
  BY DEF PlaceOK, KeepsWaiting, WaitingHasCause
<1>1. place[u] = "queued"
  BY DEF KeepsWaiting
<1>2. WaitsInVain(u) \/ \E m \in net : m.uid = u
  BY <1>1 DEF WaitInv, WaitingHasCause
<1>3. QED
  BY <1>2, StillInVain

\* What SendPacketFromQueue leaves in the queue is behind a packet it lost.
LEMMA LeftInQueue ==
    ASSUME WaitInv, NEW n \in Node, NEW dst, SendPacketFromQueue(n, dst),
           UNCHANGED <<lost, silenced>>, ignored \subseteq ignored'
    PROVE  /\ KeepsWaiting
           /\ \A u \in Uid :
                 place'[u] = "queued" /\ NodeOf(u) = n /\ Traffic[u].dst = dst
                    => WaitsInVain(u)'
<1>1. Dequeued(n, dst) \subseteq Queued(n) /\ Queued(n) \subseteq Uid
  BY DEF Dequeued, WaitingFor, Queued
<1>2. /\ place' \in [Uid -> Place]
      /\ \A u \in Uid \ Dequeued(n, dst) : place'[u] = place[u]
      /\ \A u \in Dequeued(n, dst) :
            /\ place'[u] # "queued"
            /\ Mismatched(Traffic[u].oif, RouteTo(n, dst)) => place'[u] = "lost"
      /\ UNCHANGED overtaken
  BY <1>1 DEF SendPacketFromQueue, WaitInv, PlaceOK, Place
<1>3. \A u \in Dequeued(n, dst) : place[u] = "queued"
  BY <1>1 DEF Queued
<1>4. KeepsWaiting
  BY <1>1, <1>2, <1>3 DEF KeepsWaiting
<1>5. ASSUME NEW u \in Uid, place'[u] = "queued", NodeOf(u) = n,
             Traffic[u].dst = dst
      PROVE  WaitsInVain(u)'
  <2> DEFINE S == {v \in WaitingFor(n, dst) :
                      Mismatched(Traffic[v].oif, RouteTo(n, dst))}
  <2>1. u \in WaitingFor(n, dst) /\ u \notin Dequeued(n, dst)
    BY <1>2, <1>5 DEF WaitingFor, Queued
  <2>2. S \subseteq Nat /\ S # {}
    BY <2>1, PacketFacts DEF Dequeued, WaitingFor, Queued
  <2>3. PICK v \in S : \A w \in S : v <= w
    <3> HIDE DEF S
    <3>1. QED
      BY <2>2, LeastNatural
  <2>4. v \in Dequeued(n, dst) /\ v \in Uid
    BY <2>3 DEF Dequeued, WaitingFor, Queued
  <2>5. place'[v] = "lost" /\ SameFlow(u, v)
    BY <1>2, <1>5, <2>3, <2>4 DEF WaitingFor, Queued, SameFlow
  <2>6. QED
    BY <2>4, <2>5 DEF WaitsInVain, SameFlow, NodeOf
<1>6. QED
  BY <1>4, <1>5

\* A reply frees the packet it is for, is ignored, or leaves it behind another.
LEMMA WaitingReply ==
    ASSUME WaitInv, NEW m \in net, RecvReply(m)
    PROVE  PlaceOK' /\ WaitingHasCause'
<1> DEFINE n == m.at
           toSwitch == Owner(m.origin) = n /\ m_type[n] = "SWITCH"
<1>1. /\ m.type = "RREP" /\ n = Owner(m.to) /\ m.to \in up
      /\ net' = net \ {m}
      /\ ignored' = IF toSwitch THEN ignored ELSE ignored \cup ({m.uid} \ {0})
      /\ IF toSwitch THEN SendPacketFromQueue(n, m.dst) ELSE UNCHANGED packets
      /\ UNCHANGED <<lost, silenced>>
  BY DEF RecvReply
<1>2. n \in Node
  BY <1>1, OwnerIsNode DEF WaitInv, SocketsOK
<1>3. ignored \subseteq ignored'
  BY <1>1
<1>4. KeepsWaiting
  <2>1. CASE toSwitch
    BY <1>1, <1>2, <1>3, <2>1, LeftInQueue
  <2>2. CASE ~toSwitch
    BY <1>1, <1>3, <2>2 DEF KeepsWaiting, packets, WaitInv, PlaceOK
  <2>3. QED
    BY <2>1, <2>2
<1>5. ASSUME NEW u \in Uid, place'[u] = "queued", m.uid = u
      PROVE  WaitsInVain(u)'
  <2>1. Owner(m.origin) = NodeOf(u) /\ m.dst = Traffic[u].dst /\ m.to = m.origin
    BY <1>1, <1>5 DEF WaitInv, SignalsOK
  <2>2. CASE toSwitch
    BY <1>1, <1>2, <1>3, <1>5, <2>1, <2>2, LeftInQueue
  <2>3. CASE ~toSwitch
    BY <1>1, <1>5, <2>3, PacketFacts DEF WaitsInVain
  <2>4. QED
    BY <2>2, <2>3
<1>6. QED
  <2>1. \A u \in Uid, k \in net :
            place'[u] = "queued" /\ k.uid = u =>
                WaitsInVain(u)' \/ \E l \in net' : l.uid = u
    BY <1>1, <1>5
  <2>2. QED
    BY <1>4, <2>1, WaitingKept

\* A packet that is queued has sent its request, unless there is a route or
\* its socket was closed.
LEMMA WaitingQueued ==
    ASSUME WaitInv, NEW u \in Uid, DeferredRouteOutput(u)
    PROVE  PlaceOK' /\ WaitingHasCause'
<1>1. PlaceOK'
  BY DEF DeferredRouteOutput, WaitInv, PlaceOK, Place
<1>2. /\ net \subseteq net' /\ lost' = lost /\ ignored' = ignored
      /\ silenced \subseteq silenced' /\ overtaken \subseteq overtaken'
  BY DEF DeferredRouteOutput
<1>3. \A v \in Uid : place[v] = "lost" => place'[v] = "lost"
  <2>1. \A v \in MostAged(NodeOf(u)) : place[v] = "queued"
    BY DEF MostAged, Queued
  <2>2. place[u] = "loopback"
    BY DEF DeferredRouteOutput, FirstOnLoopback
  <2>3. QED
    BY <2>1, <2>2 DEF DeferredRouteOutput
<1>4. u \in silenced' \cup overtaken' \/ Request(u) \in net'
  BY PacketFacts DEF DeferredRouteOutput, WaitInv, SocketsOK
<1>5. ASSUME NEW v \in Uid, place'[v] = "queued"
      PROVE  WaitsInVain(v)' \/ \E m \in net' : m.uid = v
  <2>1. CASE v = u
    <3>1. Request(u).uid = u
      BY DEF Request
    <3>2. QED
      BY <1>4, <2>1, <3>1 DEF WaitsInVain
  <2>2. CASE v # u
    <3>1. place[v] = "queued"
      BY <1>5, <2>2 DEF DeferredRouteOutput
    <3>2. WaitsInVain(v) \/ \E m \in net : m.uid = v
      BY <3>1 DEF WaitInv, WaitingHasCause
    <3>3. WaitsInVain(v) => WaitsInVain(v)'
      BY <1>2, <1>3 DEF WaitsInVain, SameFlow, NodeOf
    <3>4. QED
      BY <1>2, <3>2, <3>3
  <2>3. QED
    BY <2>1, <2>2
<1>6. QED
  BY <1>1, <1>5 DEF WaitingHasCause

\* No other step leaves a packet without its message unrecorded.
LEMMA WaitingNext ==
    ASSUME WaitInv, [Next]_vars
    PROVE  PlaceOK' /\ WaitingHasCause'
<1>1. ASSUME UNCHANGED <<packets, lost, silenced, ignored>>
      PROVE  KeepsWaiting
  BY <1>1 DEF KeepsWaiting, packets, WaitInv, PlaceOK
<1>2. ASSUME NEW m \in net, Forwarding(m) PROVE PlaceOK' /\ WaitingHasCause'
  <2>1. Hop(m).uid = m.uid /\ net' = (net \ {m}) \cup {Hop(m)}
    BY <1>2 DEF Forwarding, Hop, WaitInv, SignalsOK, Fields
  <2>2. KeepsWaiting
    BY <1>1, <1>2 DEF Forwarding
  <2>3. QED
    BY <2>1, <2>2, WaitingKept
<1>3. ASSUME NEW m \in net, Gone(m) PROVE PlaceOK' /\ WaitingHasCause'
  <2>1. KeepsWaiting
    BY <1>3 DEF Gone, KeepsWaiting, packets, WaitInv, PlaceOK
  <2>2. \A u \in Uid : m.uid = u => WaitsInVain(u)'
    BY <1>3, PacketFacts DEF Gone, WaitsInVain
  <2>3. net' = net \ {m}
    BY <1>3 DEF Gone
  <2>4. QED
    BY <2>1, <2>2, <2>3, WaitingKept
<1>4. ASSUME NEW m \in net, RecvRequest(m) PROVE PlaceOK' /\ WaitingHasCause'
  <2> DEFINE k == [m EXCEPT !.type = "RREP", !.to = m.origin]
  <2>1. k.uid = m.uid
    BY DEF WaitInv, SignalsOK, Fields
  <2>2. net' = (net \ {m}) \cup {k}
    BY <1>4 DEF RecvRequest
  <2>3. KeepsWaiting
    BY <1>1, <1>4 DEF RecvRequest
  <2>4. QED
    BY <2>1, <2>2, <2>3, WaitingKept
<1>5. ASSUME net \subseteq net', KeepsWaiting
      PROVE  PlaceOK' /\ WaitingHasCause'
  BY <1>5, WaitingKept
<1>6. CASE \E p \in Pairs : HandOver(p[1], p[2])
  BY <1>1, <1>5, <1>6 DEF HandOver, signals
<1>7. CASE (\E r \in UserRoutes : AddRoute(r)) \/ Tick
  BY <1>1, <1>5, <1>7 DEF AddRoute, Tick, signals
<1>8. CASE \E a \in Addr : NotifyInterfaceDown(a) \/ NotifyInterfaceUp(a)
  BY <1>1, <1>5, <1>8 DEF NotifyInterfaceDown, NotifyInterfaceUp, signals
<1>9. CASE \E u \in Uid : RouteOutput(u) \/ DropAtLoopback(u)
  <2>1. KeepsWaiting /\ net' = net
    BY <1>9 DEF RouteOutput, DropAtLoopback, FirstOnLoopback, signals,
                KeepsWaiting, WaitInv, PlaceOK, Place
  <2>2. QED
    BY <1>5, <2>1
<1>10. CASE \E n \in Node : HelloTimerExpire(n)
  BY <1>1, <1>5, <1>10 DEF HelloTimerExpire
<1>11. CASE UNCHANGED vars
  BY <1>1, <1>5, <1>11 DEF vars, packets
<1>12. CASE \E m \in net : Lose(m) \/ Undelivered(m)
  BY <1>3, <1>12 DEF Lose, Undelivered
<1>13. QED
  BY <1>2, <1>4, <1>6, <1>7, <1>8, <1>9, <1>10, <1>11, <1>12, WaitingReply,
     WaitingQueued
  DEF Next, Environment, Requests, Hellos

\* The invariant holds at the start, and every step keeps it.
LEMMA WaitCorrect == Spec => []WaitInv
<1>1. Init => WaitInv
  BY DEF Init, DomainInit, WaitInv, PlaceOK, Place, SocketsOK, SignalsOK,
         WaitingHasCause
<1>2. WaitInv /\ [Next]_vars => WaitInv'
  BY SocketsNext, SignalsNext, WaitingNext DEF WaitInv
<1>3. QED
  BY <1>1, <1>2, PTL DEF Spec

(***************************************************************************)
(* In any network and whatever is lost, closed or handed over, a packet    *)
(* waits only while its message is under way or for a reason that was      *)
(* recorded (sdsn.cc:402, sdsn.cc:606).                                    *)
(***************************************************************************)
THEOREM WaitingIsExplained == Spec => []WaitingHasCause
<1>1. WaitInv => WaitingHasCause
  BY DEF WaitInv
<1>2. QED
  BY <1>1, WaitCorrect, PTL

-------------------------------------------------------------------------------
(***************************************************************************)
(* Types.                                                                  *)
(***************************************************************************)
\* A switch with a socket calls its controller over the link, and at the
\* address, of one of its pairs.
CallsOK ==
    \A n \in Node :
        m_socket[n] # "null" =>
            \E d \in domain : /\ d.swc = n
                              /\ d.con_ip = m_conIP[n]
                              /\ d.src_ip = m_outSocket[n]

(***************************************************************************)
(* The invariant behind TypeOK.                                            *)
(***************************************************************************)
TypeInv == TypeOK /\ m_view \in Views /\ CallsOK

\* The addresses of a call, and the fields of a message, are there.
LEMMA CallFacts ==
    ASSUME TypeInv, NEW n \in Node, m_socket[n] # "null"
    PROVE  m_outSocket[n] \in Addr /\ m_conIP[n] \in Addr
BY DEF TypeInv, CallsOK, TypeOK, DomainTypeOK

LEMMA MessageFields == \A m \in Message : Fields(m)
BY DEF Message, Fields

\* What the simulation adds is a route.
LEMMA RouteAdded ==
    ASSUME TypeInv, NEW r \in UserRoutes, AddRoute(r)
    PROVE  /\ {r} \subseteq RouteEntry
           /\ m_routingtable \in TableType
           /\ m_routingtable' = Added(m_routingtable, {r})
           /\ m_routingtable' \in TableType
<1>1. /\ {r} \subseteq RouteEntry
      /\ m_routingtable \in TableType
      /\ m_routingtable' = Added(m_routingtable, {r})
  BY SignallingAssumption DEF TypeInv, TypeOK, DomainTypeOK, TableType,
     RouteEntry, AddRoute
<1>2. AddedTo(m_routingtable, {r}, m_routingtable')
  BY <1>1, AddedRoutes
<1>3. QED
  BY <1>1, <1>2 DEF AddedTo

\* Only a hand-over gives a switch a socket, with the addresses of the pair.
LEMMA DomainsNext ==
    ASSUME TypeInv, [Next]_vars
    PROVE  DomainTypeOK' /\ m_view' = m_view /\ CallsOK'
<1>1. ASSUME UNCHANGED <<m_view, tables>>,
             \A n \in Node : m_socket'[n] # "null" => m_socket[n] # "null"
      PROVE  DomainTypeOK' /\ m_view' = m_view /\ CallsOK'
  BY <1>1 DEF TypeInv, TypeOK, DomainTypeOK, CallsOK, tables
<1>2. CASE \E m \in net : Forwarding(m) \/ Lose(m) \/ Undelivered(m)
                          \/ RecvRequest(m) \/ RecvReply(m)
  <2>1. UNCHANGED <<m_view, tables, interfaces>>
    BY <1>2 DEF Forwarding, Lose, Undelivered, Gone, RecvRequest, RecvReply
  <2>2. QED
    BY <1>1, <2>1 DEF interfaces
<1>3. ASSUME NEW con \in Node, NEW swc \in Node, HandOver(con, swc)
      PROVE  DomainTypeOK' /\ m_view' = m_view /\ CallsOK'
  <2>1. SetPair(con, swc)
    BY <1>3 DEF HandOver
  <2>2. DomainTypeOK'
    BY <2>1, SetPairType DEF TypeInv, TypeOK
  <2>3. PICK con_ip, src_ip, routes : PairIsSet(con, swc, con_ip, src_ip, routes)
    BY <2>1, SetPairSets DEF TypeInv
  <2> DEFINE d == [con |-> con, swc |-> swc, con_ip |-> con_ip, src_ip |-> src_ip]
  <2>4. /\ m_conIP' = [m_conIP EXCEPT ![swc] = con_ip]
        /\ m_outSocket' = [m_outSocket EXCEPT ![swc] = src_ip]
        /\ m_view' = m_view
        /\ domain' = domain \cup {d}
    BY <2>3 DEF PairIsSet
  <2>5. d.swc = swc /\ d.con_ip = con_ip /\ d.src_ip = src_ip
    OBVIOUS
  <2> HIDE DEF d
  <2>6. \A n \in Node \ {swc} : m_socket'[n] = m_socket[n]
    BY <1>3 DEF HandOver, TypeInv, TypeOK
  <2>7. ASSUME NEW n \in Node, m_socket'[n] # "null"
        PROVE  \E e \in domain' : /\ e.swc = n
                                  /\ e.con_ip = m_conIP'[n]
                                  /\ e.src_ip = m_outSocket'[n]
    <3>1. m_conIP \in [Node -> Addr \cup {NoAddr}] /\ m_outSocket \in [Node -> Addr \cup {NoAddr}]
      BY DEF TypeInv, TypeOK, DomainTypeOK
    <3>2. CASE n = swc
      BY <2>4, <2>5, <3>1, <3>2
    <3>3. CASE n # swc
      BY <2>4, <2>6, <2>7, <3>1, <3>3 DEF TypeInv, CallsOK
    <3>4. QED
      BY <3>2, <3>3
  <2>8. QED
    BY <2>2, <2>4, <2>7 DEF CallsOK
<1>4. ASSUME NEW r \in UserRoutes, AddRoute(r)
      PROVE  DomainTypeOK' /\ m_view' = m_view /\ CallsOK'
  <2>1. m_routingtable' \in [Node -> [Addr -> Route \cup {NoRoute}]]
    BY <1>4, RouteAdded DEF TableType
  <2>2. UNCHANGED <<m_view, m_conIP, m_outSocket, m_type, domain, m_socket>>
    BY <1>4 DEF AddRoute, interfaces
  <2>3. QED
    BY <2>1, <2>2 DEF TypeInv, TypeOK, DomainTypeOK, CallsOK
<1>5. CASE \E a \in Addr : NotifyInterfaceDown(a) \/ NotifyInterfaceUp(a)
  BY <1>1, <1>5 DEF NotifyInterfaceDown, NotifyInterfaceUp, TypeInv, TypeOK
<1>6. CASE \E u \in Uid : RouteOutput(u) \/ DeferredRouteOutput(u)
                          \/ DropAtLoopback(u)
  BY <1>1, <1>6 DEF RouteOutput, DeferredRouteOutput, DropAtLoopback, interfaces
<1>7. CASE (\E n \in Node : HelloTimerExpire(n)) \/ Tick
  BY <1>1, <1>7 DEF HelloTimerExpire, Tick, interfaces
<1>8. CASE UNCHANGED vars
  BY <1>1, <1>8 DEF vars
<1>9. QED
  BY <1>2, <1>3, <1>4, <1>5, <1>6, <1>7, <1>8, SignallingAssumption
  DEF Next, Environment, Requests, Hellos

\* Every message has an address to go to and one it came from.
LEMMA MessagesNext ==
    ASSUME TypeInv, [Next]_vars
    PROVE  net' \subseteq Message
<1> SUFFICES ASSUME NEW m \in net', m \notin net PROVE m \in Message
  BY DEF TypeInv, TypeOK
<1>1. net \subseteq Message /\ \A k \in net : Fields(k)
  BY MessageFields DEF TypeInv, TypeOK
<1>2. ASSUME NEW k \in net, Moved(m, k) PROVE m \in Message
  <2>1. k \in Message /\ m = [k EXCEPT !.at = RouteTo(k.at, k.to).next]
    BY <1>1, <1>2 DEF Moved, Hop
  <2>2. RouteTo(k.at, k.to) \in Route
    BY <1>2, <2>1 DEF Moved, Forwarding, LinkUp, RouteTo, Message, TypeInv,
       TypeOK, DomainTypeOK
  <2>3. RouteTo(k.at, k.to).next \in Node
    BY <2>2 DEF Route
  <2>4. QED
    BY <2>1, <2>3 DEF Message
<1>3. ASSUME NEW k \in net, Replied(m, k) PROVE m \in Message
  BY <1>1, <1>3 DEF Replied, Message
<1>4. ASSUME Requested(m) PROVE m \in Message
  <2>1. PICK u \in Uid : m_socket[NodeOf(u)] = "open" /\ m = Request(u)
    BY <1>4 DEF Requested
  <2>2. NodeOf(u) \in Node /\ Traffic[u].dst \in Addr
    BY PacketFacts
  <2>3. m_outSocket[NodeOf(u)] \in Addr /\ m_conIP[NodeOf(u)] \in Addr
    BY <2>1, <2>2, CallFacts
  <2>4. 0 \in 0 .. MaxTime
    BY SignallingAssumption
  <2>5. QED
    BY <2>1, <2>2, <2>3, <2>4 DEF Request, Message
<1>5. ASSUME Announced(m) PROVE m \in Message
  <2>1. PICK n \in Node : m_socket[n] = "open" /\ m = Hello(n)
    BY <1>5 DEF Announced
  <2>2. m_outSocket[n] \in Addr /\ m_conIP[n] \in Addr
    BY <2>1, CallFacts
  <2>3. now \in 0 .. MaxTime
    BY SignallingAssumption DEF TypeInv, TypeOK
  <2>4. QED
    BY <2>1, <2>2, <2>3 DEF Hello, Message
<1>6. QED
  BY <1>1, <1>2, <1>3, <1>4, <1>5, NetStep

\* The queue holds packets of the traffic, which are finitely many.
LEMMA QueueFinite == \A n \in Node : IsFiniteSet(Queued(n))
<1>1. Uid = 1 .. Len(Traffic) /\ Len(Traffic) \in Nat
  BY SignallingAssumption DEF Uid
<1>2. IsFiniteSet(Uid)
  BY <1>1, FS_Interval
<1>3. \A n \in Node : Queued(n) \subseteq Uid
  BY DEF Queued
<1>4. QED
  BY <1>2, <1>3, FS_Subset

\* A queue that takes no packet does not grow.
LEMMA QueueShrinks ==
    ASSUME TypeInv, NEW n \in Node, Queued(n)' \subseteq Queued(n)
    PROVE  Cardinality(Queued(n)') <= QueueMax
<1>1. IsFiniteSet(Queued(n)) /\ Cardinality(Queued(n)) <= QueueMax
  BY QueueFinite DEF TypeInv, TypeOK
<1>2. /\ Cardinality(Queued(n)') <= Cardinality(Queued(n))
      /\ Cardinality(Queued(n)') \in Nat /\ Cardinality(Queued(n)) \in Nat
  BY <1>1, FS_Subset, FS_CardinalityType
<1>3. QED
  BY <1>1, <1>2, SignallingAssumption

\* One that is full loses its oldest packet to a new one.
LEMMA QueueTakes ==
    ASSUME TypeInv, NEW u \in Uid, DeferredRouteOutput(u)
    PROVE  Cardinality(Queued(NodeOf(u))') <= QueueMax
<1> DEFINE n == NodeOf(u)
           Q == Queued(n)
           R == Queued(n)'
<1> SUFFICES Cardinality(R) <= QueueMax
  OBVIOUS
<1>1. /\ n \in Node /\ Q \subseteq Nat /\ IsFiniteSet(Q)
      /\ Cardinality(Q) \in Nat /\ Cardinality(Q) <= QueueMax /\ QueueMax \in Nat \ {0}
  BY PacketFacts, QueueFinite, FS_CardinalityType, SignallingAssumption
  DEF TypeInv, TypeOK, Queued
<1>2. u \notin Q
  BY DEF DeferredRouteOutput, FirstOnLoopback, Queued
<1>3. R \subseteq (Q \ MostAged(n)) \cup {u}
  BY DEF DeferredRouteOutput, Queued, NodeOf
<1>4. ASSUME NEW P, P \subseteq Q, Cardinality(P) < QueueMax, R \subseteq P \cup {u}
      PROVE  Cardinality(R) <= QueueMax
  <2> HIDE DEF n, Q, R
  <2>1. IsFiniteSet(P) /\ Cardinality(P) \in Nat
    BY <1>1, <1>4, FS_Subset, FS_CardinalityType
  <2>2. IsFiniteSet(P \cup {u}) /\ Cardinality(P \cup {u}) = Cardinality(P) + 1
    BY <1>2, <1>4, <2>1, FS_AddElement
  <2>3. Cardinality(R) <= Cardinality(P \cup {u}) /\ Cardinality(R) \in Nat
    BY <1>4, <2>2, FS_Subset, FS_CardinalityType
  <2>4. QED
    BY <1>1, <1>4, <2>1, <2>2, <2>3
<1>5. CASE Cardinality(Q) < QueueMax
  BY <1>3, <1>4, <1>5
<1>6. CASE Cardinality(Q) = QueueMax
  <2>1. Q # {}
    <3> HIDE DEF Q
    <3>1. QED
      BY <1>1, <1>6, FS_EmptySet
  <2>2. PICK v \in Q : \A w \in Q : v <= w
    <3> HIDE DEF Q
    <3>1. QED
      BY <1>1, <2>1, LeastNatural
  <2>3. v \in MostAged(n)
    BY <1>6, <2>2 DEF MostAged
  <2>4. Cardinality(Q \ {v}) = Cardinality(Q) - 1
    <3> HIDE DEF Q
    <3>1. QED
      BY <1>1, <2>2, FS_RemoveElement
  <2>5. R \subseteq (Q \ {v}) \cup {u}
    <3> HIDE DEF Q, R, n
    <3>1. QED
      BY <1>3, <2>3
  <2>6. Cardinality(Q \ {v}) < QueueMax /\ Q \ {v} \subseteq Q
    <3> HIDE DEF Q
    <3>1. QED
      BY <1>1, <1>6, <2>4
  <2>7. QED
    <3> HIDE DEF Q, R
    <3>1. QED
      BY <1>4, <2>5, <2>6
<1>7. QED
  <2> HIDE DEF Q, R
  <2>1. QED
    BY <1>1, <1>5, <1>6

\* No queue is ever longer than its limit.
LEMMA QueueNext ==
    ASSUME TypeInv, [Next]_vars, NEW n \in Node
    PROVE  Cardinality(Queued(n)') <= QueueMax
<1>1. ASSUME \A u \in Uid : place'[u] = "queued" => place[u] = "queued"
      PROVE  Cardinality(Queued(n)') <= QueueMax
  <2>1. Queued(n)' \subseteq Queued(n)
    BY <1>1 DEF Queued, NodeOf
  <2>2. QED
    BY <2>1, QueueShrinks
<1>2. ASSUME UNCHANGED place
      PROVE  Cardinality(Queued(n)') <= QueueMax
  BY <1>1, <1>2
<1>3. CASE \E m \in net : Forwarding(m) \/ Lose(m) \/ Undelivered(m) \/ RecvRequest(m)
  BY <1>2, <1>3 DEF Forwarding, Lose, Undelivered, Gone, RecvRequest, packets
<1>4. ASSUME NEW m \in net, RecvReply(m)
      PROVE  Cardinality(Queued(n)') <= QueueMax
  <2>1. CASE UNCHANGED packets
    BY <1>2, <2>1 DEF packets
  <2>2. CASE SendPacketFromQueue(m.at, m.dst)
    BY <1>1, <2>2 DEF SendPacketFromQueue
  <2>3. QED
    BY <1>4, <2>1, <2>2 DEF RecvReply
<1>5. ASSUME NEW u \in Uid, DeferredRouteOutput(u)
      PROVE  Cardinality(Queued(n)') <= QueueMax
  <2>1. CASE n = NodeOf(u)
    BY <1>5, <2>1, QueueTakes
  <2>2. CASE n # NodeOf(u)
    <3>1. Queued(n)' \subseteq Queued(n)
      BY <1>5, <2>2 DEF DeferredRouteOutput, Queued, NodeOf
    <3>2. QED
      BY <3>1, QueueShrinks
  <2>3. QED
    BY <2>1, <2>2
<1>6. CASE \E u \in Uid : RouteOutput(u) \/ DropAtLoopback(u)
  BY <1>1, <1>6 DEF RouteOutput, DropAtLoopback, TypeInv, TypeOK
<1>7. CASE (\E p \in Pairs : HandOver(p[1], p[2])) \/ \E r \in UserRoutes : AddRoute(r)
  BY <1>2, <1>7 DEF HandOver, AddRoute, packets
<1>8. CASE \E a \in Addr : NotifyInterfaceDown(a) \/ NotifyInterfaceUp(a)
  BY <1>2, <1>8 DEF NotifyInterfaceDown, NotifyInterfaceUp, packets
<1>9. CASE (\E k \in Node : HelloTimerExpire(k)) \/ Tick \/ UNCHANGED vars
  BY <1>2, <1>9 DEF HelloTimerExpire, Tick, packets, vars
<1>10. QED
  BY <1>3, <1>4, <1>5, <1>6, <1>7, <1>8, <1>9
  DEF Next, Environment, Requests, Hellos

\* No time is later than the last.
ClocksOK ==
    /\ m_cache \in [Addr -> 0 .. MaxTime]
    /\ m_snap \in [Node -> 0 .. MaxTime]
    /\ now \in 1 .. MaxTime
    /\ due \subseteq Node

LEMMA ClocksNext ==
    ASSUME TypeInv, [Next]_vars
    PROVE  ClocksOK'
<1>1. ClocksOK /\ MaxTime \in Nat \ {0}
  BY SignallingAssumption DEF TypeInv, TypeOK, ClocksOK
<1>2. ASSUME UNCHANGED <<snapshot, clock>> PROVE ClocksOK'
  BY <1>1, <1>2 DEF ClocksOK, snapshot, clock
<1>3. ASSUME NEW n \in Node, NEW time \in 0 .. MaxTime, UpdateSnap(n, time)
      PROVE  m_snap' \in [Node -> 0 .. MaxTime]
  BY <1>1, <1>3 DEF UpdateSnap, ClocksOK
<1>4. ASSUME NEW n \in Node, HelloTimerExpire(n) PROVE ClocksOK'
  <2>1. now' = now /\ due' \subseteq Node /\ now \in 0 .. MaxTime
    BY <1>1, <1>4 DEF HelloTimerExpire, ClocksOK
  <2>2. CASE UpdateSnap(n, now) /\ UNCHANGED m_cache
    BY <1>1, <1>3, <2>1, <2>2 DEF ClocksOK
  <2>3. CASE /\ m_socket[n] # "null"
             /\ m_cache' = [m_cache EXCEPT ![m_outSocket[n]] = now]
             /\ UNCHANGED m_snap
    BY <1>1, <2>1, <2>3 DEF ClocksOK
  <2>4. QED
    BY <1>4, <2>2, <2>3 DEF HelloTimerExpire
<1>5. ASSUME NEW m \in net, RecvReply(m) PROVE ClocksOK'
  <2>1. UNCHANGED <<m_cache, clock>>
    BY <1>5 DEF RecvReply
  <2>2. CASE UNCHANGED m_snap
    BY <1>2, <2>1, <2>2 DEF snapshot
  <2>3. CASE UpdateSnap(Owner(m.origin), m_cache[m.origin])
    <3>1. m.origin \in Addr
      BY DEF TypeInv, TypeOK, Message
    <3>2. Owner(m.origin) \in Node /\ m_cache[m.origin] \in 0 .. MaxTime
      BY <1>1, <3>1, OwnerIsNode DEF ClocksOK
    <3>3. m_snap' \in [Node -> 0 .. MaxTime]
      BY <1>3, <2>3, <3>2
    <3>4. QED
      BY <1>1, <2>1, <3>3 DEF ClocksOK, clock
  <2>4. QED
    BY <1>5, <2>2, <2>3 DEF RecvReply
<1>6. CASE Tick
  BY <1>1, <1>6 DEF Tick, ClocksOK, snapshot
<1>7. CASE \E m \in net : Forwarding(m) \/ Lose(m) \/ Undelivered(m) \/ RecvRequest(m)
  BY <1>2, <1>7 DEF Forwarding, Lose, Undelivered, Gone, RecvRequest
<1>8. CASE (\E p \in Pairs : HandOver(p[1], p[2])) \/ \E r \in UserRoutes : AddRoute(r)
  BY <1>2, <1>8 DEF HandOver, AddRoute
<1>9. CASE \E a \in Addr : NotifyInterfaceDown(a) \/ NotifyInterfaceUp(a)
  BY <1>2, <1>9 DEF NotifyInterfaceDown, NotifyInterfaceUp
<1>10. CASE \E u \in Uid : RouteOutput(u) \/ DeferredRouteOutput(u)
                           \/ DropAtLoopback(u)
  BY <1>2, <1>10 DEF RouteOutput, DeferredRouteOutput, DropAtLoopback
<1>11. CASE UNCHANGED vars
  BY <1>2, <1>11 DEF vars, snapshot, clock
<1>12. QED
  BY <1>4, <1>5, <1>6, <1>7, <1>8, <1>9, <1>10, <1>11
  DEF Next, Environment, Requests, Hellos

\* What is recorded are packets, and no interface goes down too often.
RecordsOK ==
    /\ downs \in 0 .. MaxDowns
    /\ lost \subseteq Uid /\ silenced \subseteq Uid
    /\ ignored \subseteq Uid /\ overtaken \subseteq Uid

LEMMA RecordsNext ==
    ASSUME TypeInv, [Next]_vars
    PROVE  RecordsOK'
<1>1. RecordsOK /\ \A m \in net : m.uid \in Uid \cup {0}
  BY DEF TypeInv, TypeOK, RecordsOK, Message
<1>2. ASSUME UNCHANGED <<downs, lost, silenced, ignored, overtaken>> PROVE RecordsOK'
  BY <1>1, <1>2 DEF RecordsOK
<1>3. CASE \E m \in net : Lose(m) \/ Undelivered(m)
  BY <1>1, <1>3 DEF Lose, Undelivered, Gone, RecordsOK, packets, interfaces
<1>4. ASSUME NEW m \in net, RecvReply(m) PROVE RecordsOK'
  BY <1>1, <1>4 DEF RecvReply, SendPacketFromQueue, RecordsOK, packets, interfaces
<1>5. CASE \E u \in Uid : DeferredRouteOutput(u)
  BY <1>1, <1>5 DEF DeferredRouteOutput, RecordsOK, interfaces
<1>6. CASE \E a \in Addr : NotifyInterfaceDown(a) \/ NotifyInterfaceUp(a)
  BY <1>1, <1>6, SignallingAssumption
  DEF NotifyInterfaceDown, NotifyInterfaceUp, RecordsOK, packets, signals
<1>7. CASE \E m \in net : Forwarding(m) \/ RecvRequest(m)
  BY <1>2, <1>7 DEF Forwarding, RecvRequest, packets, interfaces
<1>8. CASE (\E p \in Pairs : HandOver(p[1], p[2])) \/ \E r \in UserRoutes : AddRoute(r)
  BY <1>2, <1>8 DEF HandOver, AddRoute, signals, packets, interfaces
<1>9. CASE \E u \in Uid : RouteOutput(u) \/ DropAtLoopback(u)
  BY <1>2, <1>9 DEF RouteOutput, DropAtLoopback, signals, interfaces
<1>10. CASE (\E n \in Node : HelloTimerExpire(n)) \/ Tick
  BY <1>2, <1>10 DEF HelloTimerExpire, Tick, signals, packets, interfaces
<1>11. CASE UNCHANGED vars
  BY <1>2, <1>11 DEF vars
<1>12. QED
  BY <1>3, <1>4, <1>5, <1>6, <1>7, <1>8, <1>9, <1>10, <1>11
  DEF Next, Environment, Requests, Hellos

\* The invariant holds at the start, and every step keeps it.
LEMMA TypeCorrect == Spec => []TypeInv
<1>1. ASSUME Init PROVE TypeInv
  <2>1. DomainTypeOK /\ m_view \in Views
    BY <1>1, DomainInvInit DEF Init, DomainInv
  <2>2. \A n \in Node : Cardinality(Queued(n)) <= QueueMax
    <3>1. \A n \in Node : Queued(n) = {}
      BY <1>1 DEF Init, Queued
    <3>2. \A n \in Node : Cardinality(Queued(n)) = 0
      BY <3>1, FS_EmptySet
    <3>3. QED
      BY <3>2, SignallingAssumption
  <2>3. ClocksOK /\ RecordsOK
    BY <1>1, SignallingAssumption DEF Init, ClocksOK, RecordsOK
  <2>4. QED
    BY <1>1, <2>1, <2>2, <2>3
    DEF Init, TypeInv, TypeOK, CallsOK, ClocksOK, RecordsOK, Place
<1>2. ASSUME TypeInv, WaitInv, [Next]_vars PROVE TypeInv'
  <2>1. SocketsOK' /\ PlaceOK'
    BY <1>2, SocketsNext, WaitingNext DEF WaitInv
  <2>2. DomainTypeOK' /\ m_view' \in Views /\ CallsOK'
    BY <1>2, DomainsNext DEF TypeInv
  <2>3. net' \subseteq Message /\ ClocksOK' /\ RecordsOK'
    BY <1>2, MessagesNext, ClocksNext, RecordsNext
  <2>4. \A n \in Node : Cardinality(Queued(n)') <= QueueMax
    BY <1>2, QueueNext
  <2>5. QED
    BY <2>1, <2>2, <2>3, <2>4
    DEF TypeInv, TypeOK, SocketsOK, PlaceOK, ClocksOK, RecordsOK
<1>3. QED
  BY <1>1, <1>2, WaitCorrect, PTL DEF Spec

(***************************************************************************)
(* In any network every message has an address of a node to go to, every   *)
(* hop leads to a node, no queue exceeds its limit, and the records name   *)
(* packets of the traffic.                                                 *)
(***************************************************************************)
THEOREM TypesHold == Spec => []TypeOK
<1>1. TypeInv => TypeOK
  BY DEF TypeInv
<1>2. QED
  BY <1>1, TypeCorrect, PTL

-------------------------------------------------------------------------------
(***************************************************************************)
(* The ways of the messages.                                               *)
(***************************************************************************)
\* The simulation adds no detours.
UserRoutesShorten ==
    \A v \in Views : \A r \in UserRoutes : OneLinkNearer(v, r.node, r.dst, r.next)

(***************************************************************************)
(* The invariant behind MessagesApproach.                                  *)
(***************************************************************************)
WayInv == TypeInv /\ RoutesShorten(m_view, m_routingtable)

\* Neither the pairs nor the simulation bring a detour into the tables.
LEMMA WaysNext ==
    ASSUME UserRoutesShorten, WayInv, [Next]_vars
    PROVE  RoutesShorten(m_view, m_routingtable)'
<1>1. m_view' = m_view /\ m_view \in Views /\ m_routingtable \in TableType
  BY DomainsNext DEF WayInv, TypeInv, TypeOK, DomainTypeOK, TableType
<1>2. ASSUME m_routingtable' = m_routingtable
      PROVE  RoutesShorten(m_view, m_routingtable)'
  BY <1>1, <1>2 DEF WayInv, RoutesShorten
<1>3. ASSUME NEW routes, routes \subseteq RouteEntry,
             \A r \in routes : OneLinkNearer(m_view, r.node, r.dst, r.next),
             m_routingtable' = Added(m_routingtable, routes)
      PROVE  RoutesShorten(m_view, m_routingtable)'
  <2>1. RoutesShorten(m_view, m_routingtable')
    BY <1>1, <1>3, AddedShorten DEF WayInv
  <2>2. QED
    BY <1>1, <2>1
<1>4. ASSUME NEW con \in Node, NEW swc \in Node, HandOver(con, swc)
      PROVE  RoutesShorten(m_view, m_routingtable)'
  <2>1. PICK con_ip, src_ip, routes : PairIsSet(con, swc, con_ip, src_ip, routes)
    BY <1>1, <1>4, SetPairSets DEF HandOver
  <2>2. QED
    BY <1>3, <2>1 DEF PairIsSet, RoutesOfPair
<1>5. ASSUME NEW r \in UserRoutes, AddRoute(r)
      PROVE  RoutesShorten(m_view, m_routingtable)'
  <2>1. {r} \subseteq RouteEntry /\ m_routingtable' = Added(m_routingtable, {r})
    BY <1>5, RouteAdded DEF WayInv
  <2>2. \A q \in {r} : OneLinkNearer(m_view, q.node, q.dst, q.next)
    BY <1>1 DEF UserRoutesShorten
  <2>3. QED
    BY <1>3, <2>1, <2>2
<1>6. CASE \E m \in net : Forwarding(m) \/ Lose(m) \/ Undelivered(m)
                          \/ RecvRequest(m) \/ RecvReply(m)
  BY <1>2, <1>6 DEF Forwarding, Lose, Undelivered, Gone, RecvRequest,
                    RecvReply, tables
<1>7. CASE \E a \in Addr : NotifyInterfaceDown(a) \/ NotifyInterfaceUp(a)
  BY <1>2, <1>7 DEF NotifyInterfaceDown, NotifyInterfaceUp, tables
<1>8. CASE \E u \in Uid : RouteOutput(u) \/ DeferredRouteOutput(u)
                          \/ DropAtLoopback(u)
  BY <1>2, <1>8 DEF RouteOutput, DeferredRouteOutput, DropAtLoopback, tables
<1>9. CASE (\E n \in Node : HelloTimerExpire(n)) \/ Tick \/ UNCHANGED vars
  BY <1>2, <1>9 DEF HelloTimerExpire, Tick, vars, tables
<1>10. QED
  BY <1>4, <1>5, <1>6, <1>7, <1>8, <1>9, SignallingAssumption
  DEF Next, Environment, Requests, Hellos

\* A message that is taken from the network and put back elsewhere, as it
\* was, went on.
LEMMA OnlyHops ==
    ASSUME TypeInv, [Next]_vars, NEW m \in net \ net', NEW k \in net' \ net,
           k = [m EXCEPT !.at = k.at]
    PROVE  Forwarding(m) /\ k = Hop(m)
<1>1. CASE \E j \in net : Forwarding(j)
  BY <1>1 DEF Forwarding
<1>2. CASE \E j \in net : RecvRequest(j)
  <2>1. m \in Message
    BY DEF TypeInv, TypeOK
  <2>2. m.type = "RREQ" /\ k = [m EXCEPT !.type = "RREP", !.to = m.origin]
    BY <1>2, ZenonT(30) DEF RecvRequest
  <2>3. k.type = "RREQ" /\ k.type = "RREP"
    BY <2>1, <2>2 DEF Message
  <2>4. QED
    BY <2>3
<1>3. CASE \E j \in net : Lose(j) \/ Undelivered(j) \/ RecvReply(j)
  BY <1>3 DEF Lose, Undelivered, Gone, RecvReply
<1>4. CASE (\E p \in Pairs : HandOver(p[1], p[2])) \/ \E r \in UserRoutes : AddRoute(r)
  BY <1>4 DEF HandOver, AddRoute, signals
<1>5. CASE \E a \in Addr : NotifyInterfaceDown(a) \/ NotifyInterfaceUp(a)
  BY <1>5 DEF NotifyInterfaceDown, NotifyInterfaceUp, signals
<1>6. CASE \E u \in Uid : RouteOutput(u) \/ DeferredRouteOutput(u)
                          \/ DropAtLoopback(u)
  BY <1>6 DEF RouteOutput, DeferredRouteOutput, DropAtLoopback, signals
<1>7. CASE (\E n \in Node : HelloTimerExpire(n)) \/ Tick \/ UNCHANGED vars
  BY <1>7 DEF HelloTimerExpire, Tick, vars, signals
<1>8. QED
  BY <1>1, <1>2, <1>3, <1>4, <1>5, <1>6, <1>7
  DEF Next, Environment, Requests, Hellos

(***************************************************************************)
(* In any network, whatever domains are set while it is under way, each    *)
(* hop brings a message nearer to where it goes, provided that the routes  *)
(* the simulation itself adds are no detours.                              *)
(***************************************************************************)
THEOREM EveryHopApproaches ==
    ASSUME UserRoutesShorten
    PROVE  Spec => MessagesApproach
<1>1. Init => RoutesShorten(m_view, m_routingtable)
  BY DomainInvInit DEF Init, DomainInv
<1>2. WayInv /\ [Next]_vars =>
        [ \A m \in net \ net', k \in net' \ net :
            k = [m EXCEPT !.at = k.at] =>
                Distance(m_view, m.at, Owner(m.to)) =
                    Distance(m_view, k.at, Owner(m.to)) + 1 ]_vars
  <2>1. SUFFICES ASSUME WayInv, [Next]_vars,
                        NEW m \in net \ net', NEW k \in net' \ net,
                        k = [m EXCEPT !.at = k.at]
                 PROVE  Distance(m_view, m.at, Owner(m.to)) =
                            Distance(m_view, k.at, Owner(m.to)) + 1
    OBVIOUS
  <2>2. m \in Message /\ m_routingtable \in TableType
    BY <2>1 DEF WayInv, TypeInv, TypeOK, DomainTypeOK, TableType
  <2>3. Forwarding(m) /\ k = Hop(m)
    BY <2>1, OnlyHops DEF WayInv
  <2>4. /\ m.at \in Node /\ m.to \in Addr
        /\ m_routingtable[m.at][m.to] # NoRoute
        /\ k.at = m_routingtable[m.at][m.to].next
    BY <2>2, <2>3 DEF Forwarding, LinkUp, Hop, RouteTo, Message
  <2>5. QED
    BY <2>1, <2>4 DEF WayInv, RoutesShorten, OneLinkNearer
<1>3. RoutesShorten(m_view, m_routingtable) /\ TypeInv /\ [Next]_vars
        => RoutesShorten(m_view, m_routingtable)'
  BY WaysNext DEF WayInv
<1>4. RoutesShorten(m_view, m_routingtable) /\ TypeInv => WayInv
  BY DEF WayInv
<1>5. QED
  BY <1>1, <1>2, <1>3, <1>4, TypeCorrect, PTL DEF Spec, MessagesApproach

\* A route the simulation adds is the link of its address.
UserRoutesDirect ==
    \A r \in UserRoutes : r.next = Owner(r.dst) /\ r.node = r.dst[2]

(***************************************************************************)
(* The invariant behind MessagesHaveRoutes.                                *)
(***************************************************************************)
RouteInv ==
    /\ TypeInv
    /\ RoutesGoOn(m_routingtable)
    /\ PairsHaveRoutes
    /\ MessagesHaveRoutes

\* No route is ever changed or lost.
LEMMA RoutesStay ==
    ASSUME TypeInv, [Next]_vars, NEW n \in Node, NEW a \in Addr,
           m_routingtable[n][a] # NoRoute
    PROVE  m_routingtable'[n][a] = m_routingtable[n][a]
<1>1. m_view \in Views /\ m_routingtable \in TableType
  BY DEF TypeInv, TypeOK, DomainTypeOK, TableType
<1>2. ASSUME NEW routes, routes \subseteq RouteEntry,
             m_routingtable' = Added(m_routingtable, routes)
      PROVE  m_routingtable'[n][a] = m_routingtable[n][a]
  <2>1. AddedTo(m_routingtable, routes, m_routingtable')
    BY <1>1, <1>2, AddedRoutes
  <2>2. QED
    BY <2>1 DEF AddedTo
<1>3. ASSUME NEW con \in Node, NEW swc \in Node, HandOver(con, swc)
      PROVE  m_routingtable'[n][a] = m_routingtable[n][a]
  <2>1. PICK con_ip, src_ip, routes : PairIsSet(con, swc, con_ip, src_ip, routes)
    BY <1>1, <1>3, SetPairSets DEF HandOver
  <2>2. QED
    BY <1>2, <2>1 DEF PairIsSet, RoutesOfPair
<1>4. ASSUME NEW r \in UserRoutes, AddRoute(r)
      PROVE  m_routingtable'[n][a] = m_routingtable[n][a]
  <2>1. {r} \subseteq RouteEntry /\ m_routingtable' = Added(m_routingtable, {r})
    BY <1>4, RouteAdded
  <2>2. QED
    BY <1>2, <2>1
<1>5. CASE \E m \in net : Forwarding(m) \/ Lose(m) \/ Undelivered(m)
                          \/ RecvRequest(m) \/ RecvReply(m)
  BY <1>5 DEF Forwarding, Lose, Undelivered, Gone, RecvRequest, RecvReply, tables
<1>6. CASE \E b \in Addr : NotifyInterfaceDown(b) \/ NotifyInterfaceUp(b)
  BY <1>6 DEF NotifyInterfaceDown, NotifyInterfaceUp, tables
<1>7. CASE \E u \in Uid : RouteOutput(u) \/ DeferredRouteOutput(u)
                          \/ DropAtLoopback(u)
  BY <1>7 DEF RouteOutput, DeferredRouteOutput, DropAtLoopback, tables
<1>8. CASE (\E k \in Node : HelloTimerExpire(k)) \/ Tick \/ UNCHANGED vars
  BY <1>8 DEF HelloTimerExpire, Tick, vars, tables
<1>9. QED
  BY <1>3, <1>4, <1>5, <1>6, <1>7, <1>8, SignallingAssumption
  DEF Next, Environment, Requests, Hellos

\* The routes lead to their ends, those of the pairs and those added.
LEMMA RoutesNext ==
    ASSUME UserRoutesDirect, RouteInv, [Next]_vars
    PROVE  RoutesGoOn(m_routingtable)' /\ PairsHaveRoutes'
<1>1. /\ m_view \in Views /\ m_routingtable \in TableType
      /\ domain \subseteq [con: Node, swc: Node, con_ip: Addr, src_ip: Addr]
  BY DEF RouteInv, TypeInv, TypeOK, DomainTypeOK, TableType
<1>2. ASSUME UNCHANGED <<m_routingtable, domain>>
      PROVE  RoutesGoOn(m_routingtable)' /\ PairsHaveRoutes'
  BY <1>2 DEF RouteInv, RoutesGoOn, PairsHaveRoutes
<1>3. ASSUME NEW con \in Node, NEW swc \in Node, HandOver(con, swc)
      PROVE  RoutesGoOn(m_routingtable)' /\ PairsHaveRoutes'
  <2>1. PICK con_ip, src_ip, routes : PairIsSet(con, swc, con_ip, src_ip, routes)
    BY <1>1, <1>3, SetPairSets DEF HandOver
  <2>2. RoutesOfPair(m_view, con_ip, src_ip, routes)
        /\ m_routingtable' = Added(m_routingtable, routes)
    BY <2>1 DEF PairIsSet
  <2>3. RoutesGoOn(m_routingtable')
    BY <1>1, <2>2, AddedGoOn DEF RouteInv
  <2>4. PairsHaveRoutes'
    BY <1>1, <2>1, PairsKeepRoutes DEF RouteInv
  <2>5. QED
    BY <2>3, <2>4
<1>4. ASSUME NEW r \in UserRoutes, AddRoute(r)
      PROVE  RoutesGoOn(m_routingtable)' /\ PairsHaveRoutes'
  <2>1. {r} \subseteq RouteEntry /\ m_routingtable' = Added(m_routingtable, {r})
    BY <1>4, RouteAdded DEF RouteInv
  <2>2. AddedTo(m_routingtable, {r}, m_routingtable')
    BY <1>1, <2>1, AddedRoutes
  <2>3. ASSUME NEW n \in Node, NEW a \in Addr, m_routingtable'[n][a] # NoRoute
        PROVE  \/ m_routingtable'[n][a].next = Owner(a) /\ n = a[2]
               \/ /\ m_routingtable'[n][a].next # Owner(a)
                  /\ m_routingtable'[m_routingtable'[n][a].next][a] # NoRoute
    <3>1. CASE m_routingtable[n][a] # NoRoute
      <4>1. m_routingtable'[n][a] = m_routingtable[n][a]
            /\ m_routingtable[n][a].next \in Node
        BY <1>1, <2>2, <3>1 DEF AddedTo, TableType, Route
      <4>2. QED
        BY <2>2, <3>1, <4>1 DEF AddedTo, RouteInv, RoutesGoOn
    <3>2. CASE m_routingtable[n][a] = NoRoute
      BY <2>2, <2>3, <3>2 DEF AddedTo, UserRoutesDirect
    <3>3. QED
      BY <3>1, <3>2
  <2>4. RoutesGoOn(m_routingtable)'
    BY <2>3 DEF RoutesGoOn
  <2>5. domain' = domain
    BY <1>4 DEF AddRoute
  <2>6. PairsHaveRoutes'
    BY <1>1, <2>2, <2>5 DEF AddedTo, RouteInv, PairsHaveRoutes
  <2>7. QED
    BY <2>4, <2>6
<1>5. CASE \E m \in net : Forwarding(m) \/ Lose(m) \/ Undelivered(m)
                          \/ RecvRequest(m) \/ RecvReply(m)
  BY <1>2, <1>5 DEF Forwarding, Lose, Undelivered, Gone, RecvRequest,
                    RecvReply, tables
<1>6. CASE \E a \in Addr : NotifyInterfaceDown(a) \/ NotifyInterfaceUp(a)
  BY <1>2, <1>6 DEF NotifyInterfaceDown, NotifyInterfaceUp, tables
<1>7. CASE \E u \in Uid : RouteOutput(u) \/ DeferredRouteOutput(u)
                          \/ DropAtLoopback(u)
  BY <1>2, <1>7 DEF RouteOutput, DeferredRouteOutput, DropAtLoopback, tables
<1>8. CASE (\E n \in Node : HelloTimerExpire(n)) \/ Tick \/ UNCHANGED vars
  BY <1>2, <1>8 DEF HelloTimerExpire, Tick, vars, tables
<1>9. QED
  BY <1>3, <1>4, <1>5, <1>6, <1>7, <1>8, SignallingAssumption
  DEF Next, Environment, Requests, Hellos

\* A call goes to the address of a pair, a reply where there is a route, and
\* a hop to a node that has one.
LEMMA MessagesKeepRoutes ==
    ASSUME RouteInv, [Next]_vars
    PROVE  MessagesHaveRoutes'
<1>1. SUFFICES ASSUME NEW m \in net', m.at # Owner(m.to)
               PROVE  m_routingtable[m.at][m.to] # NoRoute
  <2>1. net' \subseteq Message
    BY MessagesNext DEF RouteInv
  <2>2. \A n \in Node, a \in Addr :
            m_routingtable[n][a] # NoRoute => m_routingtable'[n][a] # NoRoute
    BY RoutesStay DEF RouteInv
  <2>3. QED
    BY <2>1, <2>2 DEF MessagesHaveRoutes, RouteTo, Message
<1>2. net \subseteq Message /\ \A k \in net : Fields(k)
  BY MessageFields DEF RouteInv, TypeInv, TypeOK
<1>3. CASE m \in net
  BY <1>1, <1>3 DEF RouteInv, MessagesHaveRoutes, RouteTo
<1>4. ASSUME NEW k \in net, Moved(m, k)
      PROVE  m_routingtable[m.at][m.to] # NoRoute
  <2>1. /\ k.at \in Node /\ k.to \in Addr
        /\ m_routingtable[k.at][k.to] # NoRoute
        /\ m.at = m_routingtable[k.at][k.to].next
        /\ m.to = k.to
    BY <1>2, <1>4 DEF Moved, Forwarding, LinkUp, Hop, RouteTo, Message
  <2>2. QED
    BY <1>1, <2>1 DEF RouteInv, RoutesGoOn
<1>5. ASSUME NEW k \in net, RecvRequest(k), Replied(m, k)
      PROVE  m_routingtable[m.at][m.to] # NoRoute
  <2>1. m.at = k.at /\ m.to = k.origin
    BY <1>2, <1>5 DEF Replied, Message
  <2>2. QED
    BY <1>5, <2>1 DEF RecvRequest, HasSocket, RouteTo
<1>6. ASSUME NEW n \in Node, m_socket[n] # "null", m.at = n, m.to = m_conIP[n]
      PROVE  m_routingtable[m.at][m.to] # NoRoute
  BY <1>6 DEF RouteInv, TypeInv, CallsOK, PairsHaveRoutes
<1>7. ASSUME Requested(m) PROVE m_routingtable[m.at][m.to] # NoRoute
  BY <1>6, <1>7, PacketFacts DEF Requested, Request
<1>8. ASSUME Announced(m) PROVE m_routingtable[m.at][m.to] # NoRoute
  BY <1>6, <1>8 DEF Announced, Hello
<1>9. QED
  BY <1>2, <1>3, <1>4, <1>5, <1>7, <1>8, NetStep

(***************************************************************************)
(* In any network and whatever domains are set, no request, reply or hello *)
(* is ever at a node that has no route for it, provided that the routes    *)
(* the simulation itself adds go to neighbours.                            *)
(***************************************************************************)
THEOREM MessagesAreRouted ==
    ASSUME UserRoutesDirect
    PROVE  Spec => []MessagesHaveRoutes
<1> DEFINE Rest == /\ RoutesGoOn(m_routingtable) /\ PairsHaveRoutes
                   /\ MessagesHaveRoutes
<1>1. Init => Rest
  BY DomainInvInit DEF Init, DomainInv, MessagesHaveRoutes
<1>2. Rest /\ TypeInv /\ [Next]_vars => Rest'
  BY RoutesNext, MessagesKeepRoutes DEF RouteInv
<1>3. Rest => MessagesHaveRoutes
  OBVIOUS
<1>4. QED
  BY <1>1, <1>2, <1>3, TypeCorrect, PTL DEF Spec

(***************************************************************************)
(* To the control domains, signalling is what was specified without it:    *)
(* where the simulation adds no routes of its own, every step of it sets   *)
(* a pair or leaves the domains alone.                                     *)
(***************************************************************************)
THEOREM SignallingKeepsDomains ==
    ASSUME UserRoutes = {}
    PROVE  Spec => DomainSpec
<1>1. Init => DomainInit
  BY DEF Init
<1>2. [Next]_vars => [DomainNext]_domainVars
  <2>1. SUFFICES ASSUME [Next]_vars PROVE [DomainNext]_domainVars
    OBVIOUS
  <2>2. CASE \E p \in Pairs : HandOver(p[1], p[2])
    BY <2>2, SignallingAssumption DEF HandOver, DomainNext
  <2>3. CASE \E m \in net : Forwarding(m) \/ Lose(m) \/ Undelivered(m)
                            \/ RecvRequest(m) \/ RecvReply(m)
    BY <2>3 DEF Forwarding, Lose, Undelivered, Gone, RecvRequest, RecvReply,
                tables, domainVars
  <2>4. CASE \E a \in Addr : NotifyInterfaceDown(a) \/ NotifyInterfaceUp(a)
    BY <2>4 DEF NotifyInterfaceDown, NotifyInterfaceUp, tables, domainVars
  <2>5. CASE \E u \in Uid : RouteOutput(u) \/ DeferredRouteOutput(u)
                            \/ DropAtLoopback(u)
    BY <2>5 DEF RouteOutput, DeferredRouteOutput, DropAtLoopback, tables, domainVars
  <2>6. CASE (\E n \in Node : HelloTimerExpire(n)) \/ Tick \/ UNCHANGED vars
    BY <2>6 DEF HelloTimerExpire, Tick, vars, tables, domainVars
  <2>7. QED
    BY <2>1, <2>2, <2>3, <2>4, <2>5, <2>6 DEF Next, Environment, Requests, Hellos
<1>3. QED
  BY <1>1, <1>2, PTL DEF Spec, DomainSpec

(***************************************************************************)
(* Switches and their controllers reach each other by the tables while     *)
(* messages are under way and interfaces change (sdsn.cc:418, sdsn.cc:583).*)
(***************************************************************************)
THEOREM PathsWorkThroughout ==
    ASSUME UserRoutes = {}
    PROVE  Spec => []ControlPathsWork
  BY SignallingKeepsDomains, PathsWork, PTL

===============================================================================
