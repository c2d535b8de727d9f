---------------------------- MODULE SdnFlowProofs ----------------------------
(***************************************************************************)
(* Theorems about SdnFlow, for every set of nodes and addresses, every     *)
(* assignment of controllers, default addresses and loop-free paths, every *)
(* traffic and every order of the scheduled calls.                         *)
(***************************************************************************)
EXTENDS SdnFlow, TLAPS

(***************************************************************************)
(* The path of a flow begins at the owner of its source, ends at the owner *)
(* of its destination and visits no node twice.                            *)
(***************************************************************************)
LEMMA PathFacts ==
    ASSUME NEW f \in Flow
    PROVE  /\ PathOf(f) \in Seq(Node)
           /\ Len(PathOf(f)) \in Nat \ {0}
           /\ PathOf(f)[1] = Owner[f[1]]
           /\ PathOf(f)[Len(PathOf(f))] = Owner[f[2]]
           /\ \A k \in 1 .. Len(PathOf(f)) : PathOf(f)[k] \in Node
           /\ \A k, l \in 1 .. Len(PathOf(f)) :
                 PathOf(f)[k] = PathOf(f)[l] => k = l
<1>1. Owner[f[1]] \in Node /\ Owner[f[2]] \in Node
  BY AddressAssumption DEF Flow
<1>2. QED
  BY <1>1, PathAssumption DEF PathOf

(***************************************************************************)
(* A node that another sends a flow to is not the flow's source, and if it *)
(* is not its destination it must forward.                                 *)
(***************************************************************************)
LEMMA NextOnPath ==
    ASSUME NEW f \in Flow, NEW n \in Node, NEW m \in Node, OnPath(f, n, m)
    PROVE  /\ m # Owner[f[1]]
           /\ m # Owner[f[2]] => OnWay(f, m)
<1>1. PICK i \in 1 .. Len(PathOf(f)) - 1 :
          PathOf(f)[i] = n /\ PathOf(f)[i + 1] = m
  BY DEF OnPath
<1>2. i + 1 \in 1 .. Len(PathOf(f)) /\ i + 1 # 1 /\ 1 \in 1 .. Len(PathOf(f))
  BY <1>1, PathFacts
<1>3. m # Owner[f[1]]
  BY <1>1, <1>2, PathFacts
<1>4. ASSUME m # Owner[f[2]] PROVE OnWay(f, m)
  <2>1. i + 1 # Len(PathOf(f))
    BY <1>1, <1>4, PathFacts
  <2>2. i + 1 \in 1 .. Len(PathOf(f)) - 1
    BY <1>2, <2>1, PathFacts
  <2>3. QED
    BY <1>1, <2>2 DEF OnWay
<1>5. QED
  BY <1>3, <1>4

(***************************************************************************)
(* The flow the controller answers a request for: its source is replaced   *)
(* by the default address of its node, which keeps the path.               *)
(***************************************************************************)
SourceAnswered(e) ==
    IF e.node = Owner[e.src]
    THEN DefaultAddress[Path[<<Owner[e.src], Owner[e.dst]>>][1]] ELSE e.src

\* The flow that RecvNewRREQ answers is a flow, and has the path of the request.
LEMMA AnsweredFlow ==
    ASSUME NEW e \in Request
    PROVE  /\ <<SourceAnswered(e), e.dst>> \in Flow
           /\ PathOf(<<SourceAnswered(e), e.dst>>)
                = Path[<<Owner[e.src], Owner[e.dst]>>]
<1>1. e.src \in Addr /\ e.dst \in Addr
  BY DEF Request
<1>2. Owner[e.src] \in Node /\ Owner[e.dst] \in Node
  BY <1>1, AddressAssumption
<1>3. Path[<<Owner[e.src], Owner[e.dst]>>][1] = Owner[e.src]
  BY <1>2, PathAssumption
<1>4. SourceAnswered(e) \in Addr /\ Owner[SourceAnswered(e)] = Owner[e.src]
  BY <1>1, <1>2, <1>3, AddressAssumption DEF SourceAnswered
<1>5. QED
  BY <1>1, <1>4 DEF Flow, PathOf

\* The replies of a flow are replies, to nodes of its path.
LEMMA ReplyTypes ==
    ASSUME NEW src \in Addr, NEW dst \in Addr
    PROVE  Replies(src, dst, PathOf(<<src, dst>>)) \subseteq Reply
<1>1. <<src, dst>> \in Flow
  BY DEF Flow
<1>2. \A i \in 1 .. Len(PathOf(<<src, dst>>)) - 1 :
          /\ PathOf(<<src, dst>>)[i] \in Node
          /\ PathOf(<<src, dst>>)[i + 1] \in Node
  <2>1. TAKE i \in 1 .. Len(PathOf(<<src, dst>>)) - 1
  <2>2. i \in 1 .. Len(PathOf(<<src, dst>>))
        /\ i + 1 \in 1 .. Len(PathOf(<<src, dst>>))
    BY <1>1, PathFacts
  <2>3. QED
    BY <1>1, <2>2, PathFacts
<1>3. QED
  BY <1>2 DEF Replies, Reply

-------------------------------------------------------------------------------
(***************************************************************************)
(* Types.                                                                  *)
(***************************************************************************)
\* The types hold at the start.
LEMMA TypeInit == Init => TypeOK
BY DEF Init, TypeOK, Place

\* RouteOutput keeps the types, with a route or without.
LEMMA TypeSend ==
    ASSUME TypeOK, NEW u \in Uid, NEW t \in Traffic,
           SendAlongRoute(u, t) \/ SendRequest(u, t)
    PROVE  TypeOK'
<1>1. /\ t.node \in Node /\ t.dst \in Addr /\ t.oif \in Addr \cup {NoAddr}
      /\ SourceOf(t) \in Addr /\ LoopbackSourceOf(t) \in Addr
  BY TrafficAssumption, AddressAssumption DEF SourceOf, LoopbackSourceOf
<1>2. /\ <<SourceOf(t), t.dst>> \in Flow
      /\ <<LoopbackSourceOf(t), t.dst>> \in Flow
  BY <1>1 DEF Flow
<1>3. CASE SendAlongRoute(u, t)
  <2>1. m_flowtable[t.node][<<SourceOf(t), t.dst>>] \in Node
    BY <1>1, <1>2, <1>3 DEF SendAlongRoute, TypeOK
  <2>2. QED
    BY <1>2, <1>3, <2>1 DEF SendAlongRoute, TypeOK, Place, control
<1>4. CASE SendRequest(u, t)
  <2>1. [type |-> "RREQ", node |-> t.node, src |-> SourceOf(t),
         dst |-> t.dst, uid |-> u] \in Request
    BY <1>1 DEF Request
  <2>2. ControlPath(t.node) \in Node \X Node
    BY <1>1, AddressAssumption DEF ControlPath
  <2>3. /\ m_path' \in SUBSET (Node \X Node)
        /\ events' \in SUBSET (Request \cup Reply)
    BY <1>4, <2>1, <2>2 DEF SendRequest, TypeOK
  <2>4. QED
    BY <1>1, <1>2, <1>4, <2>3 DEF SendRequest, TypeOK, Place
<1>5. QED
  BY <1>3, <1>4

\* DeferredRouteOutput keeps the types.
LEMMA TypeDeferred ==
    ASSUME TypeOK, NEW u \in Uid, DeferredRouteOutput(u)
    PROVE  TypeOK'
<1>1. place' \in [Uid -> Place]
  BY DEF DeferredRouteOutput, TypeOK, Place
<1>2. \A v \in Uid : place'[v] # "unsent" => place[v] # "unsent"
  <2>1. MostAged(at[u]) \subseteq Queued(at[u])
    BY DEF MostAged, Fresh
  <2>2. \A v \in Outdated(at[u]) \cup MostAged(at[u]) : place[v] # "unsent"
    BY <2>1 DEF Outdated, Queued
  <2>3. QED
    BY <2>2 DEF DeferredRouteOutput
<1>3. QED
  BY <1>1, <1>2 DEF DeferredRouteOutput, TypeOK, control

\* RecvRREQ keeps the types, whether the path is new or known.
LEMMA TypeRequest ==
    ASSUME TypeOK, NEW e \in events, RecvNewRREQ(e)
    PROVE  TypeOK'
<1>1. e \in Request
  BY DEF RecvNewRREQ, TypeOK, Request, Reply
<1>2. PathOf(<<SourceAnswered(e), e.dst>>) = Path[<<Owner[e.src], Owner[e.dst]>>]
      /\ SourceAnswered(e) \in Addr /\ e.dst \in Addr
      /\ <<SourceAnswered(e), e.dst>> \in Flow
  BY <1>1, AnsweredFlow DEF Flow
<1> DEFINE p == Path[<<Owner[e.src], Owner[e.dst]>>]
<1>3. events' = (events \ {e}) \cup Replies(SourceAnswered(e), e.dst, p)
  BY DEF RecvNewRREQ, SourceAnswered
<1>4. Replies(SourceAnswered(e), e.dst, p) \subseteq Reply
  BY <1>2, ReplyTypes
<1>5. \A i \in 1 .. Len(p) - 1 : ControlPath(p[i]) \in Node \X Node
  <2>1. TAKE i \in 1 .. Len(p) - 1
  <2>2. p[i] \in Node
    BY <1>2, PathFacts
  <2>3. QED
    BY <2>2, AddressAssumption DEF ControlPath
<1>6. <<Owner[e.src], Owner[e.dst]>> \in Node \X Node
  BY <1>1, AddressAssumption DEF Request
<1>7. m_path' \in SUBSET (Node \X Node)
  <2>1. m_path' = m_path \cup {<<Owner[e.src], Owner[e.dst]>>}
                        \cup {ControlPath(p[i]) : i \in 1 .. Len(p) - 1}
    BY DEF RecvNewRREQ
  <2>2. {ControlPath(p[i]) : i \in 1 .. Len(p) - 1} \in SUBSET (Node \X Node)
    BY <1>5
  <2>3. QED
    BY <1>6, <2>1, <2>2 DEF TypeOK
<1>8. events' \in SUBSET (Request \cup Reply)
  BY <1>3, <1>4 DEF TypeOK
<1>9. QED
  BY <1>7, <1>8 DEF RecvNewRREQ, TypeOK, packets

\* RecvRREP keeps the types.
LEMMA TypeReply ==
    ASSUME TypeOK, NEW e \in events, RecvRREP(e)
    PROVE  TypeOK'
<1>1. e \in Reply
  BY DEF RecvRREP, TypeOK, Request, Reply
<1>2. e.node \in Node /\ e.next \in Node /\ <<e.src, e.dst>> \in Flow
  BY <1>1 DEF Reply, Flow
<1>3. m_flowtable' \in [Node -> [Flow -> Node \cup {NoRoute}]]
  BY <1>2 DEF RecvRREP, TypeOK
<1>4. place' \in [Uid -> Place] /\ at' \in [Uid -> Node \cup {NoRoute}]
  BY <1>2 DEF RecvRREP, TypeOK, Place
<1>5. \A u \in Uid : place'[u] # "unsent" => place[u] # "unsent"
  BY DEF RecvRREP, Released, Stopped, Mismatched, WaitingFor, Fresh, Outdated,
         Queued
<1>6. \A u \in Uid : place'[u] # "unsent" => at'[u] \in Node
  BY <1>2, <1>5 DEF RecvRREP, TypeOK
<1>7. overtaken' \in SUBSET Uid
  BY DEF RecvRREP, TypeOK, LeftBehind, WaitingFor, Fresh, Queued
<1>8. events' \in SUBSET (Request \cup Reply)
  BY DEF RecvRREP, TypeOK
<1>9. QED
  BY <1>3, <1>4, <1>5, <1>6, <1>7, <1>8 DEF RecvRREP, TypeOK

\* RouteInput keeps the types.
LEMMA TypeInput ==
    ASSUME TypeOK, NEW u \in Uid, RouteInput(u)
    PROVE  TypeOK'
<1>1. at[u] \in Node /\ flow[u] \in Flow
  BY DEF RouteInput, TypeOK
<1>2. InputTo(u) \in Place /\ InputTo(u) # "unsent"
  BY DEF InputTo, Place
<1>3. InputTo(u) = "wire" => NextHop(at[u], flow[u]) \in Node
  BY <1>1 DEF InputTo, NextHop, TypeOK
<1>4. QED
  BY <1>1, <1>2, <1>3 DEF RouteInput, TypeOK, control

\* Every step keeps the types.
LEMMA TypeNext == TypeOK /\ [Next]_vars => TypeOK'
<1> SUFFICES ASSUME TypeOK, [Next]_vars PROVE TypeOK'
  OBVIOUS
<1>1. CASE \E u \in Uid, t \in Traffic : SendAlongRoute(u, t) \/ SendRequest(u, t)
  BY <1>1, TypeSend
<1>2. CASE \E u \in Uid : DeferredRouteOutput(u)
  BY <1>2, TypeDeferred
<1>3. CASE \E u \in Uid : Expire(u)
  BY <1>3 DEF Expire, TypeOK, control
<1>4. CASE \E e \in events : RecvKnownRREQ(e)
  BY <1>4 DEF RecvKnownRREQ, TypeOK, packets
<1>5. CASE \E e \in events : RecvNewRREQ(e)
  BY <1>5, TypeRequest
<1>6. CASE \E e \in events : RecvRREP(e)
  BY <1>6, TypeReply
<1>7. CASE \E u \in Uid : RouteInput(u)
  BY <1>7, TypeInput
<1>8. CASE \E n \in Node : SendHello(n)
  BY <1>8, AddressAssumption DEF SendHello, ControlPath, TypeOK, packets
<1>9. CASE UNCHANGED vars
  BY <1>9 DEF vars, TypeOK
<1>10. QED
  BY <1>1, <1>2, <1>3, <1>4, <1>5, <1>6, <1>7, <1>8, <1>9 DEF Next, Control

(***************************************************************************)
(* The type invariant of the network.                                      *)
(***************************************************************************)
THEOREM TypeCorrect == Spec => []TypeOK
BY TypeInit, TypeNext, PTL DEF Spec

-------------------------------------------------------------------------------
(***************************************************************************)
(* The invariant from which forwarding is correct.  RoutesFollowPath is    *)
(* not inductive alone: an entry is what a reply says, so replies must     *)
(* follow the path; that a packet on a link meets an entry or a reply      *)
(* needs every switch of an answered flow to have one.                     *)
(***************************************************************************)
FlowInv ==
    /\ TypeOK
    /\ RoutesFollowPath
    /\ RepliesFollowPath
    /\ AnsweredEverywhere
    /\ WireOnPath

\* The steps that change neither entries nor replies.
KeepsRoutes ==
    /\ m_flowtable' = m_flowtable
    /\ {e \in events' : e.type = "RREP"} = {e \in events : e.type = "RREP"}

\* A step that touches neither replies nor entries keeps what is said of them.
LEMMA RoutesKept ==
    ASSUME FlowInv, KeepsRoutes
    PROVE  /\ RoutesFollowPath' /\ RepliesFollowPath' /\ AnsweredEverywhere'
           /\ \A f \in Flow : Answered(f)' <=> Answered(f)
<1>1. \A n \in Node, f \in Flow : ReplyPending(n, f)' <=> ReplyPending(n, f)
  BY DEF KeepsRoutes, ReplyPending
<1>2. \A n \in Node, f \in Flow : HasRoute(n, f)' <=> HasRoute(n, f)
  BY DEF KeepsRoutes, HasRoute
<1>3. \A f \in Flow : Answered(f)' <=> Answered(f)
  BY <1>1, <1>2 DEF Answered
<1>4. RoutesFollowPath'
  BY DEF FlowInv, RoutesFollowPath, HasRoute, KeepsRoutes
<1>5. RepliesFollowPath'
  BY DEF FlowInv, RepliesFollowPath, KeepsRoutes
<1>6. AnsweredEverywhere'
  BY <1>1, <1>2, <1>3 DEF FlowInv, AnsweredEverywhere
<1>7. QED
  BY <1>3, <1>4, <1>5, <1>6

\* The requests that give rise to no reply, and the packets' own steps.
LEMMA KeepingSteps ==
    ASSUME TypeOK, [Next]_vars,
           ~ \E e \in events : RecvNewRREQ(e) \/ RecvRREP(e)
    PROVE  KeepsRoutes
<1>1. CASE \E u \in Uid, t \in Traffic : SendAlongRoute(u, t) \/ SendRequest(u, t)
  BY <1>1 DEF SendAlongRoute, SendRequest, KeepsRoutes, control
<1>2. CASE \E u \in Uid : DeferredRouteOutput(u) \/ Expire(u) \/ RouteInput(u)
  BY <1>2 DEF DeferredRouteOutput, Expire, RouteInput, KeepsRoutes, control
<1>3. CASE \E e \in events : RecvKnownRREQ(e)
  BY <1>3 DEF RecvKnownRREQ, KeepsRoutes
<1>4. CASE \E n \in Node : SendHello(n)
  BY <1>4 DEF SendHello, KeepsRoutes
<1>5. CASE UNCHANGED vars
  BY <1>5 DEF vars, KeepsRoutes
<1>6. QED
  BY <1>1, <1>2, <1>3, <1>4, <1>5 DEF Next, Control

(***************************************************************************)
(* A new request: the replies of the whole path are scheduled at once.     *)
(***************************************************************************)
LEMMA RoutesAfterRequest ==
    ASSUME FlowInv, NEW e \in events, RecvNewRREQ(e)
    PROVE  /\ RoutesFollowPath' /\ RepliesFollowPath' /\ AnsweredEverywhere'
           /\ \A f \in Flow : Answered(f) => Answered(f)'
           /\ \A f \in Flow : Answered(f)' => \/ Answered(f)
                                             \/ f = <<SourceAnswered(e), e.dst>>
<1> DEFINE g == <<SourceAnswered(e), e.dst>>
           p == PathOf(g)
           new == Replies(SourceAnswered(e), e.dst, p)
<1>1. e \in Request /\ e.type = "RREQ"
  BY DEF RecvNewRREQ, FlowInv, TypeOK, Request, Reply
<1>2. g \in Flow /\ p = Path[<<Owner[e.src], Owner[e.dst]>>]
  BY <1>1, AnsweredFlow
<1>3. events' = (events \ {e}) \cup new
  BY <1>2 DEF RecvNewRREQ, SourceAnswered
<1>4. m_flowtable' = m_flowtable
  BY DEF RecvNewRREQ
<1>5. \A r \in new : /\ r.type = "RREP" /\ <<r.src, r.dst>> = g
                     /\ OnPath(g, r.node, r.next)
  BY DEF Replies, OnPath
<1>6. \A n \in Node, f \in Flow :
          ReplyPending(n, f)' <=> ReplyPending(n, f) \/ (f = g /\ OnWay(g, n))
  <2>1. TAKE n \in Node, f \in Flow
  <2>2. (\E r \in new : r.node = n) <=> OnWay(g, n)
    <3> DEFINE reply(i) == [type |-> "RREP", node |-> p[i],
                            src |-> SourceAnswered(e), dst |-> e.dst,
                            next |-> p[i + 1]]
    <3>1. new = {reply(i) : i \in 1 .. Len(p) - 1}
      BY DEF Replies
    <3>2. \A i : reply(i).node = p[i]
      OBVIOUS
    <3>3. OnWay(g, n) <=> \E i \in 1 .. Len(p) - 1 : p[i] = n
      BY DEF OnWay
    <3>. HIDE DEF reply, new, p
    <3>4. QED
      BY <3>1, <3>2, <3>3
  <2>3. ReplyPending(n, f) => ReplyPending(n, f)'
    BY <1>1, <1>3 DEF ReplyPending
  <2>4. ReplyPending(n, f)' <=>
          ReplyPending(n, f) \/ \E r \in new : r.node = n /\ <<r.src, r.dst>> = f
    BY <1>1, <1>3, <1>5, <2>3 DEF ReplyPending
  <2>5. QED
    BY <1>5, <2>2, <2>4
<1>7. \A n \in Node, f \in Flow : HasRoute(n, f)' <=> HasRoute(n, f)
  BY <1>4 DEF HasRoute
<1>8. \A f \in Flow : Answered(f) => Answered(f)'
  BY <1>6, <1>7 DEF Answered
<1>9. RoutesFollowPath'
  BY <1>4 DEF FlowInv, RoutesFollowPath, HasRoute
<1>10. RepliesFollowPath'
  BY <1>3, <1>5 DEF FlowInv, RepliesFollowPath
<1>11. AnsweredEverywhere'
  <2>1. SUFFICES ASSUME NEW f \in Flow, NEW n \in Node,
                        Answered(f)', OnWay(f, n)
                 PROVE  (HasRoute(n, f) \/ ReplyPending(n, f))'
    BY DEF AnsweredEverywhere, OnWay
  <2>2. CASE f = g
    BY <1>6, <2>1, <2>2
  <2>3. CASE f # g
    <3>1. Answered(f)
      BY <1>6, <1>7, <2>1, <2>3 DEF Answered
    <3>2. QED
      BY <1>6, <1>7, <2>1, <3>1 DEF FlowInv, AnsweredEverywhere
  <2>4. QED
    BY <2>2, <2>3
<1>12. \A f \in Flow : Answered(f)' => Answered(f) \/ f = g
  BY <1>6, <1>7 DEF Answered
<1>13. QED
  BY <1>8, <1>9, <1>10, <1>11, <1>12

(***************************************************************************)
(* A reply: the entry takes the place of the reply.                        *)
(***************************************************************************)
LEMMA RoutesAfterReply ==
    ASSUME FlowInv, NEW e \in events, RecvRREP(e)
    PROVE  /\ RoutesFollowPath' /\ RepliesFollowPath' /\ AnsweredEverywhere'
           /\ \A f \in Flow : Answered(f)' <=> Answered(f)
<1> DEFINE g == <<e.src, e.dst>>
<1>1. e \in Reply /\ e.type = "RREP"
  BY DEF RecvRREP, FlowInv, TypeOK, Request, Reply
<1>2. g \in Flow /\ e.node \in Node /\ e.next \in Node /\ e.next # NoRoute
  BY <1>1, AddressAssumption DEF Reply, Flow
<1>3. OnPath(g, e.node, e.next)
  BY <1>1 DEF FlowInv, RepliesFollowPath
<1>4. \A n \in Node, f \in Flow :
          m_flowtable'[n][f] = IF n = e.node /\ f = g THEN e.next
                               ELSE m_flowtable[n][f]
  BY <1>2 DEF RecvRREP, FlowInv, TypeOK
<1>5. events' = events \ {e}
  BY DEF RecvRREP
<1>6. \A n \in Node, f \in Flow :
          HasRoute(n, f)' <=> HasRoute(n, f) \/ (n = e.node /\ f = g)
  BY <1>2, <1>4 DEF HasRoute
<1>7. \A n \in Node, f \in Flow :
          (HasRoute(n, f) \/ ReplyPending(n, f))'
            <=> HasRoute(n, f) \/ ReplyPending(n, f)
  <2>1. TAKE n \in Node, f \in Flow
  <2>2. CASE n = e.node /\ f = g
    <3>1. ReplyPending(n, f)
      BY <1>1, <2>2 DEF ReplyPending
    <3>2. QED
      BY <1>6, <2>2, <3>1
  <2>3. CASE ~(n = e.node /\ f = g)
    <3>1. ReplyPending(n, f)' <=> ReplyPending(n, f)
      BY <1>5, <2>3 DEF ReplyPending
    <3>2. QED
      BY <1>6, <2>3, <3>1
  <2>4. QED
    BY <2>2, <2>3
<1>8. \A f \in Flow : Answered(f)' <=> Answered(f)
  BY <1>7 DEF Answered
<1>9. RoutesFollowPath'
  BY <1>3, <1>4, <1>6, SMTT(30) DEF FlowInv, RoutesFollowPath, OnPath
<1>10. RepliesFollowPath'
  BY <1>5 DEF FlowInv, RepliesFollowPath
<1>11. AnsweredEverywhere'
  BY <1>7, <1>8 DEF FlowInv, AnsweredEverywhere
<1>12. QED
  BY <1>8, <1>9, <1>10, <1>11

(***************************************************************************)
(* The packets.  A packet gets onto a link only by an entry of its flow.   *)
(***************************************************************************)
LEMMA RoutesAfter ==
    ASSUME FlowInv, [Next]_vars
    PROVE  /\ RoutesFollowPath' /\ RepliesFollowPath' /\ AnsweredEverywhere'
           /\ \A f \in Flow : Answered(f) => Answered(f)'
<1>1. CASE \E e \in events : RecvNewRREQ(e)
  BY <1>1, RoutesAfterRequest
<1>2. CASE \E e \in events : RecvRREP(e)
  BY <1>2, RoutesAfterReply
<1>3. CASE ~ \E e \in events : RecvNewRREQ(e) \/ RecvRREP(e)
  BY <1>3, KeepingSteps, RoutesKept DEF FlowInv
<1>4. QED
  BY <1>1, <1>2, <1>3

\* Where the route of a flow leads.
LEMMA RouteLeadsOn ==
    ASSUME FlowInv, NEW n \in Node, NEW f \in Flow, HasRoute(n, f)
    PROVE  /\ m_flowtable[n][f] \in Node
           /\ OnPath(f, n, m_flowtable[n][f])
           /\ Answered(f)
BY DEF FlowInv, TypeOK, RoutesFollowPath, HasRoute, Answered

\* What a step does to a packet on a link.
LEMMA WireStep ==
    ASSUME FlowInv, [Next]_vars, NEW u \in Uid, place'[u] = "wire"
    PROVE  \/ place[u] = "wire" /\ at'[u] = at[u] /\ flow'[u] = flow[u]
           \/ /\ Answered(flow'[u])
              /\ \E n \in Node : OnPath(flow'[u], n, at'[u])
              /\ place[u] = "wire" => /\ flow'[u] = flow[u]
                                     /\ OnPath(flow[u], at[u], at'[u])
<1> USE DEF FlowInv
<1>1. CASE \E t \in Traffic : SendAlongRoute(u, t)
  <2>1. PICK t \in Traffic : SendAlongRoute(u, t)
    BY <1>1
  <2> DEFINE f == <<SourceOf(t), t.dst>>
  <2>2. t.node \in Node /\ f \in Flow
    BY TrafficAssumption, AddressAssumption DEF SourceOf, Flow
  <2>3. HasRoute(t.node, f)
    BY <2>1 DEF SendAlongRoute, HasRoute
  <2>4. flow'[u] = f /\ at'[u] = m_flowtable[t.node][f] /\ place[u] # "wire"
    BY <2>1 DEF SendAlongRoute, NextUid, TypeOK
  <2>5. QED
    BY <2>2, <2>3, <2>4, RouteLeadsOn
<1>2. CASE \E v \in Uid, t \in Traffic :
             SendRequest(v, t) \/ (v # u /\ SendAlongRoute(v, t))
  BY <1>2 DEF SendRequest, SendAlongRoute, TypeOK, control
<1>3. CASE \E v \in Uid : DeferredRouteOutput(v) \/ Expire(v)
  BY <1>3 DEF DeferredRouteOutput, Expire, TypeOK
<1>4. CASE \E e \in events : RecvKnownRREQ(e) \/ RecvNewRREQ(e)
  BY <1>4 DEF RecvKnownRREQ, RecvNewRREQ, packets
<1>5. CASE \E e \in events : RecvRREP(e)
  <2>1. PICK e \in events : RecvRREP(e)
    BY <1>5
  <2>2. flow' = flow
    BY <2>1 DEF RecvRREP
  <2>3. CASE u \in Released(e.node, <<e.src, e.dst>>, e.next)
    <3>1. e \in Reply /\ e.type = "RREP"
      BY <2>1 DEF RecvRREP, TypeOK, Request, Reply
    <3>2. e.node \in Node /\ <<e.src, e.dst>> \in Flow
      BY <3>1 DEF Reply, Flow
    <3>3. flow[u] = <<e.src, e.dst>> /\ place[u] = "queued"
      BY <2>3 DEF Released, WaitingFor, Fresh, Queued
    <3>4. at'[u] = e.next
      BY <2>1, <2>3 DEF RecvRREP
    <3>5. OnPath(flow[u], e.node, e.next)
      BY <3>1, <3>3 DEF RepliesFollowPath
    <3>6. Answered(flow[u])
      BY <3>1, <3>2, <3>3 DEF Answered, ReplyPending
    <3>7. QED
      BY <2>2, <3>2, <3>3, <3>4, <3>5, <3>6
  <2>4. CASE u \notin Released(e.node, <<e.src, e.dst>>, e.next)
    <3>1. place[u] = "wire" /\ at'[u] = at[u]
      BY <2>1, <2>4 DEF RecvRREP
    <3>2. QED
      BY <2>2, <3>1
  <2>5. QED
    BY <2>3, <2>4
<1>6. CASE RouteInput(u)
  <2>1. at[u] \in Node /\ flow[u] \in Flow
    BY <1>6 DEF RouteInput, TypeOK
  <2>2. InputTo(u) = "wire"
    BY <1>6 DEF RouteInput, TypeOK
  <2>3. HasRoute(at[u], flow[u])
    BY <2>2 DEF InputTo, NextHop, HasRoute
  <2>4. at'[u] = m_flowtable[at[u]][flow[u]] /\ flow'[u] = flow[u]
    BY <1>6, <2>2 DEF RouteInput, NextHop, TypeOK
  <2>5. QED
    BY <2>1, <2>3, <2>4, RouteLeadsOn
<1>7. CASE \E v \in Uid : v # u /\ RouteInput(v)
  BY <1>7 DEF RouteInput, TypeOK
<1>8. CASE (\E n \in Node : SendHello(n)) \/ UNCHANGED vars
  BY <1>8 DEF SendHello, packets, vars
<1>9. QED
  BY <1>1, <1>2, <1>3, <1>4, <1>5, <1>6, <1>7, <1>8 DEF Next, Control

\* Every step keeps the inductive invariant.
LEMMA FlowInvNext == FlowInv /\ [Next]_vars => FlowInv'
<1> SUFFICES ASSUME FlowInv, [Next]_vars PROVE FlowInv'
  OBVIOUS
<1>1. TypeOK'
  BY TypeNext DEF FlowInv
<1>2. WireOnPath'
  <2>1. SUFFICES ASSUME NEW u \in Uid, place'[u] = "wire"
                 PROVE  /\ Answered(flow[u])'
                        /\ \E n \in Node : OnPath(flow'[u], n, at'[u])
    BY DEF WireOnPath, OnPath, PathOf
  <2>2. flow'[u] \in Flow
    BY <1>1, <2>1 DEF TypeOK
  <2>3. Answered(flow'[u]) => Answered(flow[u])'
    BY <2>2, RoutesAfter DEF Answered, HasRoute, ReplyPending
  <2>4. QED
    BY <2>1, <2>3, WireStep DEF FlowInv, WireOnPath
<1>3. QED
  BY <1>1, <1>2, RoutesAfter DEF FlowInv

\* The inductive invariant holds at the start.
LEMMA FlowInvInit == Init => FlowInv
BY TypeInit DEF Init, FlowInv, RoutesFollowPath, RepliesFollowPath,
   AnsweredEverywhere, WireOnPath, HasRoute, Answered, ReplyPending

\* The inductive invariant always holds.
LEMMA FlowCorrect == Spec => []FlowInv
BY FlowInvInit, FlowInvNext, PTL DEF Spec

(***************************************************************************)
(* In every network, an entry of a flow table leads to the next node of    *)
(* the flow's path.                                                        *)
(***************************************************************************)
THEOREM RoutesAreOnPath == Spec => []RoutesFollowPath
<1>1. FlowInv => RoutesFollowPath
  BY DEF FlowInv
<1>2. QED
  BY <1>1, FlowCorrect, PTL

(***************************************************************************)
(* A flow is answered at every switch of its path or at none.              *)
(***************************************************************************)
THEOREM RepliesAreComplete == Spec => []AnsweredEverywhere
<1>1. FlowInv => AnsweredEverywhere
  BY DEF FlowInv
<1>2. QED
  BY <1>1, FlowCorrect, PTL

(***************************************************************************)
(* Forwarding moves a packet one node on along the path of its flow, so it *)
(* never loops, in whatever order the replies arrive.                      *)
(***************************************************************************)
THEOREM ForwardingFollowsPath == Spec => ForwardsAlongPath
<1>1. FlowInv /\ [Next]_vars =>
        [ \A u \in Uid :
            place[u] = "wire" /\ place'[u] = "wire" /\ at'[u] # at[u]
              => OnPath(flow[u], at[u], at'[u]) ]_vars
  BY WireStep
<1>2. QED
  BY <1>1, FlowCorrect, PTL DEF Spec, ForwardsAlongPath

(***************************************************************************)
(* A packet on a link is dropped only by a switch that is about to get the *)
(* entry it lacks.                                                         *)
(***************************************************************************)
LEMMA DropStep ==
    ASSUME FlowInv, [Next]_vars, NEW u \in Uid,
           place[u] = "wire", place'[u] = "dropped"
    PROVE  ReplyPending(at[u], flow[u])
<1> USE DEF FlowInv
<1>1. RouteInput(u)
  <2>1. CASE \E v \in Uid, t \in Traffic : SendAlongRoute(v, t) \/ SendRequest(v, t)
    BY <2>1 DEF SendAlongRoute, SendRequest, NextUid, TypeOK
  <2>2. CASE \E v \in Uid : DeferredRouteOutput(v) \/ Expire(v)
    BY <2>2 DEF DeferredRouteOutput, Expire
  <2>3. CASE \E e \in events : RecvKnownRREQ(e) \/ RecvNewRREQ(e)
    BY <2>3 DEF RecvKnownRREQ, RecvNewRREQ, packets
  <2>4. CASE \E e \in events : RecvRREP(e)
    BY <2>4 DEF RecvRREP, Stopped, Mismatched, WaitingFor, Fresh, Outdated, Queued
  <2>5. CASE \E v \in Uid : v # u /\ RouteInput(v)
    BY <2>5 DEF RouteInput, TypeOK
  <2>6. CASE (\E n \in Node : SendHello(n)) \/ UNCHANGED vars
    BY <2>6 DEF SendHello, packets, vars
  <2>7. QED
    BY <2>1, <2>2, <2>3, <2>4, <2>5, <2>6 DEF Next, Control
<1>2. at[u] \in Node /\ flow[u] \in Flow /\ InputTo(u) = "dropped"
  BY <1>1 DEF RouteInput, TypeOK
<1>3. PICK n \in Node : OnPath(flow[u], n, at[u])
  BY DEF WireOnPath
<1>4. at[u] # Owner[flow[u][1]]
  BY <1>2, <1>3, NextOnPath
<1>5. at[u] # Owner[flow[u][2]] /\ ~HasRoute(at[u], flow[u])
  BY <1>2, <1>4 DEF InputTo, NextHop, HasRoute
<1>6. OnWay(flow[u], at[u])
  BY <1>2, <1>3, <1>5, NextOnPath
<1>7. QED
  BY <1>2, <1>5, <1>6 DEF AnsweredEverywhere, WireOnPath

\* In every network a switch drops for want of an entry only while the entry is
\* under way to it (sdn.cc:598).
THEOREM DropsAwaitReply == Spec => DropsOnlyBeforeReply
<1>1. FlowInv /\ [Next]_vars =>
        [ \A u \in Uid :
            place[u] = "wire" /\ place'[u] = "dropped"
              => ReplyPending(at[u], flow[u]) ]_vars
  BY DropStep
<1>2. QED
  BY <1>1, FlowCorrect, PTL DEF Spec, DropsOnlyBeforeReply

-------------------------------------------------------------------------------
(*****************************************************************************)
(* The packets that wait: each has a reason to, and none is passed by a      *)
(* later one of its flow unless it missed the reply.                         *)
(*****************************************************************************)
Held(u) == place[u] \in {"loopback", "queued"}

\* Only flows from the default address of a node are ever answered.
DefaultSources ==
    \A f \in Flow : Answered(f) => f[1] = DefaultAddress[Owner[f[1]]]

\* A request is that of the packet its uid names.
RequestsOfPackets ==
    \A e \in events :
        e.type = "RREQ" =>
            /\ e.node = Owner[e.src]
            /\ place[e.uid] # "unsent"
            /\ Held(e.uid) => at[e.uid] = e.node /\ flow[e.uid][2] = e.dst

\* A packet that is held is at the node of its source address.
HeldAtSource ==
    \A u \in Uid : Held(u) => at[u] = Owner[flow[u][1]]

\* A pair that is in m_path needs no route, is a control path, or is the
\* pair of a flow that was answered.
PathsAnswered ==
    \A i, j \in Node :
        <<i, j>> \in m_path =>
            \/ j = i
            \/ j = Controller[i]
            \/ \E d \in Addr : Owner[d] = j /\ Answered(<<DefaultAddress[i], d>>)

\* The request of a packet that is held is under way or was executed.
RequestsSeen ==
    \A u \in Uid :
        Held(u) => \/ RequestPending(u)
                   \/ <<at[u], Owner[flow[u][2]]>> \in m_path

\* Where there is an entry, the packets it would serve missed its reply.
MissedTheReply ==
    \A u \in Uid :
        Held(u) /\ u \notin expired /\ HasRoute(at[u], flow[u])
            => u \in overtaken

(***************************************************************************)
(* The invariant behind WaitingHasCause and LeavesInOrder.                 *)
(***************************************************************************)
QueueInv ==
    /\ DefaultSources
    /\ RequestsOfPackets
    /\ HeldAtSource
    /\ PathsAnswered
    /\ RequestsSeen
    /\ MissedTheReply

-------------------------------------------------------------------------------
\* RecvNewRREQ gives its node a reply unless the path ends there.
LEMMA RequestAnswered ==
    ASSUME FlowInv, NEW e \in events, RecvNewRREQ(e),
           Owner[e.src] # Owner[e.dst]
    PROVE  Answered(<<SourceAnswered(e), e.dst>>)'
<1> DEFINE g == <<SourceAnswered(e), e.dst>>
           p == PathOf(g)
           r == [type |-> "RREP", node |-> p[1], src |-> SourceAnswered(e),
                 dst |-> e.dst, next |-> p[1 + 1]]
<1>1. e \in Request
  BY DEF RecvNewRREQ, FlowInv, TypeOK, Request, Reply
<1>2. g \in Flow /\ p = Path[<<Owner[e.src], Owner[e.dst]>>]
  BY <1>1, AnsweredFlow
<1>3. events' = (events \ {e}) \cup Replies(SourceAnswered(e), e.dst, p)
  BY <1>2 DEF RecvNewRREQ, SourceAnswered
<1>4. Owner[e.src] \in Node /\ Owner[e.dst] \in Node
  BY <1>1, AddressAssumption DEF Request
<1>5. Len(p) \in Nat \ {0} /\ p[1] = Owner[e.src] /\ p[Len(p)] = Owner[e.dst]
  BY <1>2, <1>4, PathAssumption, PathFacts
<1>6. 1 \in 1 .. Len(p) - 1
  BY <1>5
<1>7. r \in Replies(SourceAnswered(e), e.dst, p)
  BY <1>6 DEF Replies
<1>8. p[1] \in Node
  BY <1>4, <1>5
<1>9. r.type = "RREP" /\ r.node = p[1] /\ <<r.src, r.dst>> = g
  OBVIOUS
<1> HIDE DEF r, g
<1>10. ReplyPending(p[1], g)'
  BY <1>3, <1>7, <1>9 DEF ReplyPending
<1>11. QED
  BY <1>8, <1>10 DEF Answered, g

\* A step that answers no new flow.
LEMMA AnsweredAfter ==
    ASSUME FlowInv, [Next]_vars, ~ \E e \in events : RecvNewRREQ(e)
    PROVE  \A f \in Flow : Answered(f)' <=> Answered(f)
<1>1. CASE \E e \in events : RecvRREP(e)
  BY <1>1, RoutesAfterReply
<1>2. CASE ~ \E e \in events : RecvRREP(e)
  <2>1. KeepsRoutes
    BY <1>2, KeepingSteps DEF FlowInv
  <2>2. QED
    BY <2>1, RoutesKept
<1>3. QED
  BY <1>1, <1>2

\* The entries after a reply.
LEMMA EntryAfterReply ==
    ASSUME FlowInv, NEW e \in events, RecvRREP(e), NEW n \in Node, NEW f \in Flow,
           HasRoute(n, f)'
    PROVE  HasRoute(n, f) \/ (n = e.node /\ f = <<e.src, e.dst>>)
<1>1. e \in Reply
  BY DEF RecvRREP, FlowInv, TypeOK, Request, Reply
<1>2. e.node \in Node /\ <<e.src, e.dst>> \in Flow
  BY <1>1 DEF Reply, Flow
<1>3. QED
  BY <1>2 DEF RecvRREP, FlowInv, TypeOK, HasRoute

\* Every other step keeps the entries.
LEMMA EntriesKept ==
    ASSUME FlowInv, [Next]_vars, ~ \E e \in events : RecvRREP(e)
    PROVE  m_flowtable' = m_flowtable
<1>1. CASE \E e \in events : RecvNewRREQ(e)
  BY <1>1 DEF RecvNewRREQ
<1>2. CASE ~ \E e \in events : RecvNewRREQ(e)
  BY <1>2, KeepingSteps DEF FlowInv, KeepsRoutes
<1>3. QED
  BY <1>1, <1>2

-------------------------------------------------------------------------------
(***************************************************************************)
(* How a packet comes to be held, or stays so.                             *)
(***************************************************************************)
\* The packet that is sent by SendRequest.
LEMMA SentPacket ==
    ASSUME FlowInv, NEW u \in Uid, NEW t \in Traffic, SendRequest(u, t)
    PROVE  /\ place[u] = "unsent" /\ place'[u] = "loopback"
           /\ at'[u] = t.node /\ t.node \in Node
           /\ flow'[u] = <<LoopbackSourceOf(t), t.dst>> /\ flow'[u] \in Flow
           /\ Owner[LoopbackSourceOf(t)] = t.node
           /\ SourceOf(t) \in Addr /\ Owner[SourceOf(t)] = t.node
           /\ \A v \in Uid \ {u} : /\ place'[v] = place[v]
                                   /\ at'[v] = at[v]
                                   /\ flow'[v] = flow[v]
<1>1. t.node \in Node /\ t.dst \in Addr
  BY TrafficAssumption
<1>2. DefaultAddress[t.node] \in Addr /\ Owner[DefaultAddress[t.node]] = t.node
  BY <1>1, AddressAssumption
<1>3. SourceOf(t) \in Addr /\ Owner[SourceOf(t)] = t.node
  BY <1>2, TrafficAssumption DEF SourceOf
<1>4. LoopbackSourceOf(t) \in Addr /\ Owner[LoopbackSourceOf(t)] = t.node
  BY <1>2, TrafficAssumption DEF LoopbackSourceOf
<1>5. <<LoopbackSourceOf(t), t.dst>> \in Flow
  BY <1>1, <1>4 DEF Flow
<1>6. QED
  BY <1>1, <1>3, <1>4, <1>5 DEF SendRequest, NextUid, FlowInv, TypeOK

\* Every other step keeps the packets that are still held, and their fields.
LEMMA StillHeld ==
    ASSUME FlowInv, [Next]_vars, NEW u \in Uid, Held(u)',
           ~ \E t \in Traffic : SendRequest(u, t)
    PROVE  Held(u) /\ at'[u] = at[u] /\ flow'[u] = flow[u]
<1> USE DEF FlowInv, TypeOK
<1>1. ASSUME NEW v \in Uid, NEW t \in Traffic, SendAlongRoute(v, t)
      PROVE  Held(u) /\ at'[u] = at[u] /\ flow'[u] = flow[u]
  BY <1>1 DEF SendAlongRoute, NextUid, Held
<1>2. ASSUME NEW v \in Uid, NEW t \in Traffic, SendRequest(v, t)
      PROVE  Held(u) /\ at'[u] = at[u] /\ flow'[u] = flow[u]
  <2>1. v # u
    BY <1>2
  <2>2. QED
    BY <1>2, <2>1, SentPacket DEF Held
<1>3. ASSUME NEW v \in Uid, DeferredRouteOutput(v)
      PROVE  Held(u) /\ at'[u] = at[u] /\ flow'[u] = flow[u]
  BY <1>3 DEF DeferredRouteOutput, Held
<1>4. ASSUME NEW v \in Uid, Expire(v)
      PROVE  Held(u) /\ at'[u] = at[u] /\ flow'[u] = flow[u]
  BY <1>4 DEF Expire, Held
<1>5. ASSUME NEW e \in events, RecvKnownRREQ(e) \/ RecvNewRREQ(e)
      PROVE  Held(u) /\ at'[u] = at[u] /\ flow'[u] = flow[u]
  BY <1>5 DEF RecvKnownRREQ, RecvNewRREQ, packets, Held
<1>6. ASSUME NEW e \in events, RecvRREP(e)
      PROVE  Held(u) /\ at'[u] = at[u] /\ flow'[u] = flow[u]
  BY <1>6 DEF RecvRREP, Held
<1>7. ASSUME NEW v \in Uid, RouteInput(v)
      PROVE  Held(u) /\ at'[u] = at[u] /\ flow'[u] = flow[u]
  <2>1. InputTo(v) \notin {"loopback", "queued"}
    BY DEF InputTo
  <2>2. v # u
    BY <1>7, <2>1 DEF RouteInput, Held
  <2>3. QED
    BY <1>7, <2>2 DEF RouteInput, Held
<1>8. CASE (\E n \in Node : SendHello(n)) \/ UNCHANGED vars
  BY <1>8 DEF SendHello, packets, vars, Held
<1>9. QED
  BY <1>1, <1>2, <1>3, <1>4, <1>5, <1>6, <1>7, <1>8 DEF Next, Control

\* No step takes a packet's place back to "unsent".
LEMMA StaysSent ==
    ASSUME FlowInv, [Next]_vars, NEW u \in Uid, place[u] # "unsent"
    PROVE  place'[u] # "unsent"
<1> USE DEF FlowInv, TypeOK
<1>1. ASSUME NEW v \in Uid, NEW t \in Traffic,
             SendAlongRoute(v, t) \/ SendRequest(v, t)
      PROVE  place'[u] # "unsent"
  BY <1>1 DEF SendAlongRoute, SendRequest
<1>2. ASSUME NEW v \in Uid,
             DeferredRouteOutput(v) \/ Expire(v) \/ RouteInput(v)
      PROVE  place'[u] # "unsent"
  BY <1>2 DEF DeferredRouteOutput, Expire, RouteInput, InputTo
<1>3. ASSUME NEW e \in events, RecvKnownRREQ(e) \/ RecvNewRREQ(e) \/ RecvRREP(e)
      PROVE  place'[u] # "unsent"
  BY <1>3 DEF RecvKnownRREQ, RecvNewRREQ, RecvRREP, packets
<1>4. CASE (\E n \in Node : SendHello(n)) \/ UNCHANGED vars
  BY <1>4 DEF SendHello, packets, vars
<1>5. QED
  BY <1>1, <1>2, <1>3, <1>4 DEF Next, Control

\* Where the requests and the computed paths come from and go.
LEMMA ControlStep ==
    ASSUME FlowInv, [Next]_vars
    PROVE  /\ m_path \subseteq m_path'
           /\ \A e \in events' : e.type = "RREQ" =>
                \/ e \in events
                \/ \E t \in Traffic : /\ SendRequest(e.uid, t) /\ e.uid \in Uid
                                      /\ e.node = t.node /\ e.src = SourceOf(t)
                                      /\ e.dst = t.dst
           /\ \A e \in events \ events' : e.type = "RREQ" =>
                <<Owner[e.src], Owner[e.dst]>> \in m_path'
<1>1. ASSUME NEW v \in Uid, NEW t \in Traffic, SendAlongRoute(v, t)
      PROVE  m_path' = m_path /\ events' = events
  BY <1>1 DEF SendAlongRoute, control
<1>2. ASSUME NEW v \in Uid, DeferredRouteOutput(v) \/ Expire(v) \/ RouteInput(v)
      PROVE  m_path' = m_path /\ events' = events
  BY <1>2 DEF DeferredRouteOutput, Expire, RouteInput, control
<1>3. ASSUME NEW n \in Node, SendHello(n)
      PROVE  m_path \subseteq m_path' /\ events' = events
  BY <1>3 DEF SendHello
<1>4. ASSUME NEW v \in Uid, NEW t \in Traffic, SendRequest(v, t)
      PROVE  /\ m_path \subseteq m_path' /\ events \subseteq events'
             /\ \A e \in events' \ events :
                  e.uid = v /\ e.node = t.node /\ e.src = SourceOf(t) /\ e.dst = t.dst
  BY <1>4 DEF SendRequest
<1>5. CASE \E e \in events : RecvKnownRREQ(e)
  BY <1>5 DEF RecvKnownRREQ
<1>6. CASE \E e \in events : RecvNewRREQ(e)
  <2>1. PICK d \in events : RecvNewRREQ(d)
    BY <1>6
  <2> DEFINE pair == <<Owner[d.src], Owner[d.dst]>>
             replies == Replies(IF d.node = Owner[d.src]
                                THEN DefaultAddress[Path[pair][1]] ELSE d.src,
                                d.dst, Path[pair])
  <2>2. m_path \subseteq m_path' /\ pair \in m_path'
        /\ events' = (events \ {d}) \cup replies
    BY <2>1 DEF RecvNewRREQ
  <2>3. \A r \in replies : r.type = "RREP"
    BY DEF Replies
  <2> HIDE DEF replies
  <2>4. QED
    BY <2>2, <2>3
<1>7. CASE \E e \in events : RecvRREP(e)
  BY <1>7 DEF RecvRREP
<1>8. CASE UNCHANGED vars
  BY <1>8 DEF vars
<1>9. QED
  BY <1>1, <1>2, <1>3, <1>4, <1>5, <1>6, <1>7, <1>8 DEF Next, Control

-------------------------------------------------------------------------------
(***************************************************************************)
(* The conjuncts of QueueInv, one by one.                                  *)
(***************************************************************************)
LEMMA DefaultSourcesNext ==
    ASSUME FlowInv, QueueInv, [Next]_vars
    PROVE  DefaultSources'
<1>1. CASE ~ \E e \in events : RecvNewRREQ(e)
  BY <1>1, AnsweredAfter DEF QueueInv, DefaultSources
<1>2. ASSUME NEW e \in events, RecvNewRREQ(e)
      PROVE  DefaultSources'
  <2>1. e \in Request /\ e.type = "RREQ"
    BY <1>2 DEF RecvNewRREQ, FlowInv, TypeOK, Request, Reply
  <2>2. e.node = Owner[e.src] /\ Owner[e.src] \in Node /\ Owner[e.dst] \in Node
    BY <2>1, AddressAssumption DEF QueueInv, RequestsOfPackets, Request
  <2>3. Path[<<Owner[e.src], Owner[e.dst]>>][1] = Owner[e.src]
    BY <2>2, PathAssumption
  <2>4. SourceAnswered(e) = DefaultAddress[Owner[e.src]]
    BY <2>2, <2>3 DEF SourceAnswered
  <2>5. Owner[SourceAnswered(e)] = Owner[e.src]
    BY <2>2, <2>4, AddressAssumption
  <2>6. \A f \in Flow : Answered(f)' =>
            Answered(f) \/ f = <<SourceAnswered(e), e.dst>>
    BY <1>2, RoutesAfterRequest
  <2>7. QED
    BY <2>4, <2>5, <2>6 DEF QueueInv, DefaultSources
<1>3. QED
  BY <1>1, <1>2

\* A request is sent with its packet, and the packet leaves with its fields.
LEMMA RequestsOfPacketsNext ==
    ASSUME FlowInv, QueueInv, [Next]_vars
    PROVE  RequestsOfPackets'
<1> SUFFICES ASSUME NEW e \in events', e.type = "RREQ"
             PROVE  /\ e.node = Owner[e.src]
                    /\ place'[e.uid] # "unsent"
                    /\ Held(e.uid)' => /\ at'[e.uid] = e.node
                                       /\ flow'[e.uid][2] = e.dst
  BY DEF RequestsOfPackets
<1>1. CASE e \in events
  <2>1. e.uid \in Uid
    BY <1>1 DEF FlowInv, TypeOK, Request, Reply
  <2>2. /\ e.node = Owner[e.src]
        /\ place[e.uid] # "unsent"
        /\ Held(e.uid) => at[e.uid] = e.node /\ flow[e.uid][2] = e.dst
    BY <1>1 DEF QueueInv, RequestsOfPackets
  <2>3. place'[e.uid] # "unsent"
    BY <2>1, <2>2, StaysSent
  <2>4. ~ \E t \in Traffic : SendRequest(e.uid, t)
    BY <2>2 DEF SendRequest, NextUid
  <2>5. Held(e.uid)' => at'[e.uid] = e.node /\ flow'[e.uid][2] = e.dst
    BY <2>1, <2>2, <2>4, StillHeld
  <2>6. QED
    BY <2>2, <2>3, <2>5
<1>2. CASE e \notin events
  <2>1. PICK t \in Traffic : /\ SendRequest(e.uid, t) /\ e.uid \in Uid
                             /\ e.node = t.node /\ e.src = SourceOf(t)
                             /\ e.dst = t.dst
    BY <1>2, ControlStep
  <2>2. QED
    BY <2>1, SentPacket
<1>3. QED
  BY <1>1, <1>2

\* A packet is held where it was sent.
LEMMA HeldAtSourceNext ==
    ASSUME FlowInv, QueueInv, [Next]_vars
    PROVE  HeldAtSource'
<1> SUFFICES ASSUME NEW u \in Uid, Held(u)'
             PROVE  at'[u] = Owner[flow'[u][1]]
  BY DEF HeldAtSource
<1>1. CASE \E t \in Traffic : SendRequest(u, t)
  BY <1>1, SentPacket
<1>2. CASE ~ \E t \in Traffic : SendRequest(u, t)
  BY <1>2, StillHeld DEF QueueInv, HeldAtSource
<1>3. QED
  BY <1>1, <1>2

\* The pairs that are added to m_path.
LEMMA PathsAnsweredNext ==
    ASSUME FlowInv, QueueInv, [Next]_vars
    PROVE  PathsAnswered'
<1> SUFFICES ASSUME NEW i \in Node, NEW j \in Node, <<i, j>> \in m_path',
                    j # i, j # Controller[i]
             PROVE  \E d \in Addr : Owner[d] = j /\ Answered(<<DefaultAddress[i], d>>)'
  BY DEF PathsAnswered
<1>1. \A d \in Addr : <<DefaultAddress[i], d>> \in Flow
  BY AddressAssumption DEF Flow
<1>2. CASE <<i, j>> \in m_path
  <2>1. PICK d \in Addr : Owner[d] = j /\ Answered(<<DefaultAddress[i], d>>)
    BY <1>2 DEF QueueInv, PathsAnswered
  <2>2. QED
    BY <1>1, <2>1, RoutesAfter
<1>3. CASE <<i, j>> \notin m_path
  <2>1. <<i, j>> # ControlPath(i) /\ \A n : <<i, j>> = ControlPath(n) => n = i
    BY DEF ControlPath
  <2>2. PICK e \in events : RecvNewRREQ(e)
    <3>1. CASE \E u \in Uid, t \in Traffic : SendAlongRoute(u, t)
      BY <1>3, <3>1 DEF SendAlongRoute, control
    <3>2. CASE \E u \in Uid, t \in Traffic : SendRequest(u, t)
      BY <1>3, <2>1, <3>2 DEF SendRequest
    <3>3. CASE \E u \in Uid : DeferredRouteOutput(u) \/ Expire(u) \/ RouteInput(u)
      BY <1>3, <3>3 DEF DeferredRouteOutput, Expire, RouteInput, control
    <3>4. CASE \E n \in Node : SendHello(n)
      BY <1>3, <2>1, <3>4 DEF SendHello
    <3>5. CASE \E e \in events : RecvKnownRREQ(e) \/ RecvRREP(e)
      BY <1>3, <3>5 DEF RecvKnownRREQ, RecvRREP
    <3>6. CASE UNCHANGED vars
      BY <1>3, <3>6 DEF vars
    <3>7. QED
      BY <3>1, <3>2, <3>3, <3>4, <3>5, <3>6 DEF Next, Control
  <2>3. e \in Request /\ e.type = "RREQ"
    BY <2>2 DEF RecvNewRREQ, FlowInv, TypeOK, Request, Reply
  <2>4. e.node = Owner[e.src] /\ Owner[e.src] \in Node /\ Owner[e.dst] \in Node
        /\ e.dst \in Addr
    BY <2>3, AddressAssumption DEF QueueInv, RequestsOfPackets, Request
  <2>5. <<i, j>> = <<Owner[e.src], Owner[e.dst]>>
    BY <1>3, <2>1, <2>2 DEF RecvNewRREQ
  <2>6. SourceAnswered(e) = DefaultAddress[i]
    BY <2>4, <2>5, PathAssumption DEF SourceAnswered
  <2>7. Answered(<<SourceAnswered(e), e.dst>>)'
    BY <2>2, <2>5, RequestAnswered
  <2>8. QED
    BY <2>4, <2>5, <2>6, <2>7
<1>4. QED
  BY <1>2, <1>3

\* A request is executed with its pair in m_path.
LEMMA RequestsSeenNext ==
    ASSUME FlowInv, QueueInv, [Next]_vars
    PROVE  RequestsSeen'
<1> SUFFICES ASSUME NEW u \in Uid, Held(u)'
             PROVE  \/ RequestPending(u)'
                    \/ <<at'[u], Owner[flow'[u][2]]>> \in m_path'
  BY DEF RequestsSeen
<1>1. ASSUME NEW t \in Traffic, SendRequest(u, t)
      PROVE  RequestPending(u)'
  <2> DEFINE r == [type |-> "RREQ", node |-> t.node, src |-> SourceOf(t),
                   dst |-> t.dst, uid |-> u]
  <2>1. events' = events \cup {r}
    BY <1>1 DEF SendRequest
  <2>2. r.type = "RREQ" /\ r.uid = u
    OBVIOUS
  <2>3. QED
    BY <2>1, <2>2 DEF RequestPending
<1>2. CASE ~ \E t \in Traffic : SendRequest(u, t)
  <2>1. Held(u) /\ at'[u] = at[u] /\ flow'[u] = flow[u]
    BY <1>2, StillHeld
  <2>2. CASE <<at[u], Owner[flow[u][2]]>> \in m_path
    BY <2>1, <2>2, ControlStep
  <2>3. CASE RequestPending(u)
    <3>1. PICK e \in events : e.type = "RREQ" /\ e.uid = u
      BY <2>3 DEF RequestPending
    <3>2. at[u] = Owner[e.src] /\ flow[u][2] = e.dst
      BY <2>1, <3>1 DEF QueueInv, RequestsOfPackets
    <3>3. CASE e \in events'
      BY <3>1, <3>3 DEF RequestPending
    <3>4. CASE e \notin events'
      BY <2>1, <3>1, <3>2, <3>4, ControlStep
    <3>5. QED
      BY <3>3, <3>4
  <2>4. QED
    BY <2>1, <2>2, <2>3 DEF QueueInv, RequestsSeen
<1>3. QED
  BY <1>1, <1>2

\* The packets of its flow that a reply leaves where they are.
LEMMA LeftByReply ==
    ASSUME FlowInv, NEW e \in events, RecvRREP(e), NEW u \in Uid, Held(u)',
           u \notin expired, at[u] = e.node, flow[u] = <<e.src, e.dst>>
    PROVE  u \in overtaken'
<1> DEFINE n == e.node
           f == <<e.src, e.dst>>
<1>1. Uid \subseteq Nat
  BY DEF Uid
<1>2. u \notin Released(n, f, e.next) /\ u \notin Stopped(n, f, e.next)
      /\ Held(u) /\ place'[u] = place[u]
  BY DEF RecvRREP, Held
<1>3. Mismatched(n, f, e.next) \subseteq Uid
  BY DEF Mismatched, WaitingFor, Fresh, Queued
<1>4. overtaken' = overtaken \cup LeftBehind(n, f, e.next)
  BY DEF RecvRREP
<1>5. CASE place[u] = "loopback"
  BY <1>4, <1>5 DEF LeftBehind
<1>6. CASE place[u] = "queued"
  <2>1. u \in WaitingFor(n, f)
    BY <1>6 DEF WaitingFor, Fresh, Queued
  <2>2. PICK v \in Mismatched(n, f, e.next) : ~(u < v)
    BY <1>2, <2>1 DEF Released
  <2>3. \E w \in Mismatched(n, f, e.next) : w < u
    <3>1. CASE v = u
      <4>1. PICK w \in Mismatched(n, f, e.next) : ~(u <= w)
        BY <1>2, <2>2, <3>1 DEF Stopped
      <4>2. w < u
        BY <1>1, <1>3, <4>1
      <4>3. QED
        BY <4>2
    <3>2. CASE v # u
      <4>1. u \in Nat /\ v \in Nat /\ ~(u < v)
        BY <1>1, <1>3, <2>2
      <4>2. v < u
        BY <3>2, <4>1
      <4>3. QED
        BY <4>2
    <3>3. QED
      BY <3>1, <3>2
  <2>4. QED
    BY <1>4, <2>1, <2>3 DEF LeftBehind
<1>7. QED
  BY <1>2, <1>5, <1>6 DEF Held

\* Nothing is forgotten of what was recorded.
LEMMA RecordsKept ==
    ASSUME FlowInv, [Next]_vars
    PROVE  expired \subseteq expired' /\ overtaken \subseteq overtaken'
<1>1. CASE \E u \in Uid, t \in Traffic : SendAlongRoute(u, t) \/ SendRequest(u, t)
  BY <1>1 DEF SendAlongRoute, SendRequest
<1>2. CASE \E u \in Uid : DeferredRouteOutput(u) \/ Expire(u) \/ RouteInput(u)
  BY <1>2 DEF DeferredRouteOutput, Expire, RouteInput
<1>3. CASE \E e \in events : RecvKnownRREQ(e) \/ RecvNewRREQ(e) \/ RecvRREP(e)
  BY <1>3 DEF RecvKnownRREQ, RecvNewRREQ, RecvRREP, packets
<1>4. CASE (\E n \in Node : SendHello(n)) \/ UNCHANGED vars
  BY <1>4 DEF SendHello, packets, vars
<1>5. QED
  BY <1>1, <1>2, <1>3, <1>4 DEF Next, Control

\* An entry that is new has served those it could.
LEMMA MissedTheReplyNext ==
    ASSUME FlowInv, QueueInv, [Next]_vars
    PROVE  MissedTheReply'
<1> SUFFICES ASSUME NEW u \in Uid, Held(u)', u \notin expired',
                    HasRoute(at[u], flow[u])'
             PROVE  u \in overtaken'
  BY DEF MissedTheReply
<1>1. u \notin expired /\ overtaken \subseteq overtaken'
  BY RecordsKept
<1>2. ASSUME NEW t \in Traffic, SendRequest(u, t)
      PROVE  FALSE
  <2> DEFINE f == <<SourceOf(t), t.dst>>
  <2>1. /\ at'[u] = t.node /\ t.node \in Node
        /\ flow'[u] = <<LoopbackSourceOf(t), t.dst>> /\ flow'[u] \in Flow
        /\ Owner[LoopbackSourceOf(t)] = t.node
    BY <1>2, SentPacket
  <2>2. m_flowtable' = m_flowtable /\ m_flowtable[t.node][f] = NoRoute
    BY <1>2 DEF SendRequest
  <2>3. HasRoute(t.node, flow'[u])
    BY <2>1, <2>2 DEF HasRoute
  <2>4. LoopbackSourceOf(t) = DefaultAddress[t.node]
    BY <2>1, <2>3 DEF QueueInv, DefaultSources, Answered
  <2>5. SourceOf(t) = LoopbackSourceOf(t)
    BY <2>4 DEF SourceOf, LoopbackSourceOf
  <2>6. QED
    BY <2>1, <2>2, <2>3, <2>5 DEF HasRoute
<1>3. CASE ~ \E t \in Traffic : SendRequest(u, t)
  <2>1. Held(u) /\ at'[u] = at[u] /\ flow'[u] = flow[u]
    BY <1>3, StillHeld
  <2>2. at[u] \in Node /\ flow[u] \in Flow
    BY <2>1 DEF Held, FlowInv, TypeOK
  <2>3. CASE HasRoute(at[u], flow[u])
    BY <1>1, <2>1, <2>3 DEF QueueInv, MissedTheReply
  <2>4. CASE ~HasRoute(at[u], flow[u])
    <3>1. PICK e \in events : RecvRREP(e)
      BY <2>1, <2>4, EntriesKept DEF HasRoute
    <3>2. at[u] = e.node /\ flow[u] = <<e.src, e.dst>>
      <4>1. HasRoute(at[u], flow[u])' /\ UNCHANGED <<at[u], flow[u]>>
        BY <2>1
      <4>2. PICK n \in Node, f \in Flow : n = at[u] /\ f = flow[u]
        BY <2>2
      <4>3. HasRoute(n, f)' /\ ~HasRoute(n, f)
        BY <2>4, <4>1, <4>2 DEF HasRoute
      <4>4. QED
        BY <3>1, <4>2, <4>3, EntryAfterReply
    <3>3. QED
      BY <1>1, <3>1, <3>2, LeftByReply
  <2>5. QED
    BY <2>3, <2>4
<1>4. QED
  BY <1>2, <1>3

-------------------------------------------------------------------------------
\* The inductive invariant holds initially.
LEMMA QueueInvInit == Init => QueueInv
BY DEF Init, QueueInv, DefaultSources, RequestsOfPackets, HeldAtSource,
       PathsAnswered, RequestsSeen, MissedTheReply, Answered, HasRoute,
       ReplyPending, Held

\* Every step keeps it.
LEMMA QueueInvNext == FlowInv /\ QueueInv /\ [Next]_vars => QueueInv'
BY DefaultSourcesNext, RequestsOfPacketsNext, HeldAtSourceNext,
   PathsAnsweredNext, RequestsSeenNext, MissedTheReplyNext DEF QueueInv

\* It always holds.
LEMMA QueueCorrect == Spec => []QueueInv
BY QueueInvInit, QueueInvNext, FlowCorrect, PTL DEF Spec

\* A node that an answered flow begins at has its reply or its entry.
LEMMA SourceAnsweredToo ==
    ASSUME FlowInv, NEW f \in Flow, Answered(f), Owner[f[1]] # Owner[f[2]]
    PROVE  HasRoute(Owner[f[1]], f) \/ ReplyPending(Owner[f[1]], f)
<1>1. 1 \in 1 .. Len(PathOf(f)) - 1 /\ PathOf(f)[1] = Owner[f[1]]
      /\ Owner[f[1]] \in Node
  BY PathFacts, AddressAssumption DEF Flow
<1>2. OnWay(f, Owner[f[1]])
  BY <1>1 DEF OnWay
<1>3. QED
  BY <1>1, <1>2 DEF FlowInv, AnsweredEverywhere

(***************************************************************************)
(* A packet waits only for a request or a reply that is under way, or has  *)
(* missed its reply, or is one of those that never get one                 *)
(* (sdn-netview.cc:286, sdn.cc:504).                                       *)
(***************************************************************************)
THEOREM WaitingIsExplained == Spec => []WaitingHasCause
<1>1. FlowInv /\ QueueInv => WaitingHasCause
  <2> SUFFICES ASSUME FlowInv, QueueInv, NEW u \in Uid, Waiting(u),
                      ~RequestPending(u), ~Unanswerable(u)
               PROVE  ReplyPending(at[u], flow[u]) \/ u \in overtaken
    BY DEF WaitingHasCause
  <2> DEFINE n == at[u]
             src == flow[u][1]
             dst == flow[u][2]
  <2>1. n \in Node /\ flow[u] \in Flow /\ Held(u) /\ u \notin expired
    BY DEF Waiting, Held, FlowInv, TypeOK
  <2>2. src \in Addr /\ dst \in Addr /\ flow[u] = <<src, dst>>
        /\ Owner[dst] \in Node
    BY <2>1, AddressAssumption DEF Flow
  <2>3. src = DefaultAddress[n] /\ Owner[dst] # n /\ Owner[dst] # Controller[n]
    BY DEF Unanswerable
  <2>4. n = Owner[src]
    BY <2>1 DEF QueueInv, HeldAtSource
  <2>5. <<n, Owner[dst]>> \in m_path
    BY <2>1 DEF QueueInv, RequestsSeen
  <2>6. PICK d \in Addr : Owner[d] = Owner[dst] /\ Answered(<<src, d>>)
    BY <2>1, <2>2, <2>3, <2>5, ZenonT(30) DEF QueueInv, PathsAnswered
  <2>7. HasRoute(n, <<src, d>>) \/ ReplyPending(n, <<src, d>>)
    <3>1. <<src, d>> \in Flow
      BY <2>2 DEF Flow
    <3>2. QED
      BY <2>3, <2>4, <2>6, <3>1, SourceAnsweredToo
  <2>8. d = dst
    BY <2>6, <2>7 DEF Unanswerable
  <2>9. QED
    BY <2>1, <2>2, <2>7, <2>8 DEF QueueInv, MissedTheReply
<1>2. QED
  BY <1>1, FlowCorrect, QueueCorrect, PTL

\* A packet that departs has an entry at the node of its source.
LEMMA DepartsByEntry ==
    ASSUME FlowInv, QueueInv, [Next]_vars, NEW v \in Uid, Departs(v)
    PROVE  /\ flow'[v] \in Flow /\ expired' = expired
           /\ HasRoute(Owner[flow[v][1]], flow[v])'
<1> USE DEF FlowInv, TypeOK
<1>1. ASSUME NEW w \in Uid, NEW t \in Traffic, SendAlongRoute(w, t)
      PROVE  /\ flow'[v] \in Flow /\ expired' = expired
             /\ HasRoute(Owner[flow[v][1]], flow[v])'
  <2>1. t.node \in Node /\ t.dst \in Addr
    BY TrafficAssumption
  <2>2. SourceOf(t) \in Addr /\ Owner[SourceOf(t)] = t.node
    BY <2>1, TrafficAssumption, AddressAssumption DEF SourceOf
  <2>3. w = v
    BY <1>1 DEF SendAlongRoute, Departs
  <2>4. flow'[v] = <<SourceOf(t), t.dst>> /\ m_flowtable' = m_flowtable
        /\ m_flowtable[t.node][<<SourceOf(t), t.dst>>] # NoRoute
    BY <1>1, <2>3 DEF SendAlongRoute, control
  <2>5. expired' = expired
    BY <1>1 DEF SendAlongRoute
  <2>6. QED
    BY <2>1, <2>2, <2>4, <2>5 DEF Flow, HasRoute
<1>2. ASSUME NEW e \in events, RecvRREP(e)
      PROVE  /\ flow'[v] \in Flow /\ expired' = expired
             /\ HasRoute(Owner[flow[v][1]], flow[v])'
  <2> DEFINE f == <<e.src, e.dst>>
  <2>1. e \in Reply
    BY <1>2 DEF RecvRREP, Request, Reply
  <2>2. e.node \in Node /\ f \in Flow /\ e.next \in Node /\ e.next # NoRoute
    BY <2>1, AddressAssumption DEF Reply, Flow
  <2>3. v \in Released(e.node, f, e.next)
    BY <1>2 DEF RecvRREP, Departs
  <2>4. place[v] = "queued" /\ at[v] = e.node /\ flow[v] = f
    BY <2>3 DEF Released, WaitingFor, Fresh, Queued
  <2>5. flow'[v] = f /\ e.node = Owner[f[1]]
    BY <1>2, <2>4 DEF RecvRREP, QueueInv, HeldAtSource, Held
  <2>6. m_flowtable'[e.node][f] = e.next
    BY <1>2, <2>2 DEF RecvRREP
  <2>7. expired' = expired
    BY <1>2 DEF RecvRREP
  <2>8. QED
    BY <2>2, <2>5, <2>6, <2>7 DEF HasRoute
<1>3. ASSUME NEW w \in Uid, NEW t \in Traffic, SendRequest(w, t)
      PROVE  FALSE
  BY <1>3, SentPacket DEF Departs
<1>4. ASSUME NEW w \in Uid,
             DeferredRouteOutput(w) \/ Expire(w) \/ RouteInput(w)
      PROVE  FALSE
  BY <1>4 DEF DeferredRouteOutput, Expire, RouteInput, Departs
<1>5. ASSUME NEW e \in events, RecvKnownRREQ(e) \/ RecvNewRREQ(e)
      PROVE  FALSE
  BY <1>5 DEF RecvKnownRREQ, RecvNewRREQ, packets, Departs
<1>6. CASE (\E n \in Node : SendHello(n)) \/ UNCHANGED vars
  BY <1>6 DEF SendHello, packets, vars, Departs
<1>7. QED
  BY <1>1, <1>2, <1>3, <1>4, <1>5, <1>6 DEF Next, Control

(***************************************************************************)
(* Packets of a flow leave their node in the order they were sent, unless  *)
(* one has missed the reply (sdn.cc:504, sdn-rqueue.cc:69).                *)
(***************************************************************************)
THEOREM FlowsLeaveInOrder == Spec => LeavesInOrder
<1>1. FlowInv /\ QueueInv /\ [Next]_vars =>
        [ \A u, v \in Uid :
            u < v /\ Departs(v) /\ StaysBehind(u, v) => u \in overtaken' ]_vars
  <2> SUFFICES ASSUME FlowInv, QueueInv, [Next]_vars, NEW u \in Uid, NEW v \in Uid,
                      u < v, Departs(v), StaysBehind(u, v)
               PROVE  u \in overtaken'
    OBVIOUS
  <2>1. Held(u)' /\ u \notin expired /\ flow[u] = flow'[v]
    BY DEF StaysBehind, Held
  <2>2. flow'[v] \in Flow /\ HasRoute(Owner[flow[v][1]], flow[v])'
    BY DepartsByEntry
  <2>3. ~ \E t \in Traffic : SendRequest(u, t)
    <3>1. ASSUME NEW t \in Traffic, SendRequest(u, t) PROVE FALSE
      <4>1. v # u /\ place'[v] = place[v]
        BY <3>1, SentPacket DEF Departs, Uid
      <4>2. QED
        BY <4>1 DEF Departs
    <3>2. QED
      BY <3>1
  <2>4. Held(u) /\ at'[u] = at[u] /\ flow'[u] = flow[u]
    BY <2>1, <2>3, StillHeld
  <2>5. at'[u] = Owner[flow'[u][1]]
    BY <2>1, HeldAtSourceNext DEF HeldAtSource
  <2>6. HasRoute(at[u], flow[u])'
    BY <2>1, <2>2, <2>4, <2>5 DEF HasRoute
  <2>7. u \notin expired'
    BY <2>1, DepartsByEntry
  <2>8. QED
    BY <2>1, <2>6, <2>7, MissedTheReplyNext DEF MissedTheReply
<1>2. QED
  BY <1>1, FlowCorrect, QueueCorrect, PTL DEF Spec, LeavesInOrder

-------------------------------------------------------------------------------
(*****************************************************************************)
(* The refinement: SdnFlow implements RouteDiscovery, for every network,     *)
(* traffic and order of the scheduled calls.                                 *)
(*****************************************************************************)
(***************************************************************************)
(* What the refinement needs beyond FlowInv.  A packet is held at the node *)
(* of its source (HeldAtSource), so its path begins there; a flow that was *)
(* answered has its path in m_path, so no other flow of the two nodes is.  *)
(***************************************************************************)
AnsweredInPath == \A f \in Flow : Answered(f) => PathKnown(f)

DiscoveryInv == FlowInv /\ HeldAtSource /\ AnsweredInPath

\* Every step keeps held packets at their sources.
LEMMA HeldNext ==
    ASSUME TypeOK, HeldAtSource, [Next]_vars
    PROVE  HeldAtSource'
<1> USE DEF HeldAtSource, Held
<1>1. CASE \E u \in Uid, t \in Traffic : SendRequest(u, t)
  <2>1. PICK u \in Uid, t \in Traffic : SendRequest(u, t)
    BY <1>1
  <2>2. /\ t.node \in Node
        /\ LoopbackSourceOf(t) \in Addr /\ Owner[LoopbackSourceOf(t)] = t.node
    BY TrafficAssumption, AddressAssumption DEF LoopbackSourceOf
  <2>3. place' = [place EXCEPT ![u] = "loopback"]
        /\ at' = [at EXCEPT ![u] = t.node]
        /\ flow' = [flow EXCEPT ![u] = <<LoopbackSourceOf(t), t.dst>>]
    BY <2>1 DEF SendRequest
  <2>4. QED
    BY <2>2, <2>3 DEF TypeOK
<1>2. CASE \E u \in Uid, t \in Traffic : SendAlongRoute(u, t)
  BY <1>2 DEF SendAlongRoute, NextUid, TypeOK
<1>3. CASE \E u \in Uid : DeferredRouteOutput(u) \/ Expire(u)
  BY <1>3 DEF DeferredRouteOutput, Expire, TypeOK
<1>4. CASE \E e \in events : RecvKnownRREQ(e) \/ RecvNewRREQ(e)
  BY <1>4 DEF RecvKnownRREQ, RecvNewRREQ, packets
<1>5. CASE \E e \in events : RecvRREP(e)
  BY <1>5 DEF RecvRREP
<1>6. CASE \E u \in Uid : RouteInput(u)
  BY <1>6 DEF RouteInput, InputTo, TypeOK
<1>7. CASE (\E n \in Node : SendHello(n)) \/ UNCHANGED vars
  BY <1>7 DEF SendHello, packets, vars
<1>8. QED
  BY <1>1, <1>2, <1>3, <1>4, <1>5, <1>6, <1>7 DEF Next, Control

\* The cache of paths only grows.
LEMMA PathsStay == TypeOK /\ [Next]_vars => m_path \subseteq m_path'
BY DEF Next, Control, SendAlongRoute, SendRequest, DeferredRouteOutput, Expire,
       RecvKnownRREQ, RecvNewRREQ, RecvRREP, RouteInput, SendHello, control, vars

\* What a step does to the flows that are answered.
LEMMA AnsweredStep ==
    ASSUME FlowInv, [Next]_vars
    PROVE  \/ \A f \in Flow : Answered(f)' <=> Answered(f)
           \/ /\ UNCHANGED packets
              /\ \E g \in Flow :
                    /\ ~PathKnown(g) /\ PathKnown(g)'
                    /\ \A f \in Flow : Answered(f) => Answered(f)'
                    /\ \A f \in Flow : Answered(f)' => Answered(f) \/ f = g
<1>1. CASE \E e \in events : RecvNewRREQ(e)
  <2>1. PICK e \in events : RecvNewRREQ(e)
    BY <1>1
  <2> DEFINE g == <<SourceAnswered(e), e.dst>>
  <2>2. e \in Request
    BY <2>1 DEF RecvNewRREQ, FlowInv, TypeOK, Request, Reply
  <2>3. e.src \in Addr /\ e.dst \in Addr
    BY <2>2 DEF Request
  <2>4. Owner[e.src] \in Node /\ Owner[e.dst] \in Node
    BY <2>3, AddressAssumption
  <2>5. SourceAnswered(e) \in Addr /\ Owner[SourceAnswered(e)] = Owner[e.src]
    BY <2>3, <2>4, AddressAssumption, PathAssumption DEF SourceAnswered
  <2>6. g \in Flow /\ ~PathKnown(g) /\ PathKnown(g)'
    BY <2>1, <2>3, <2>5 DEF RecvNewRREQ, PathKnown, Flow
  <2>7. UNCHANGED packets
    BY <2>1 DEF RecvNewRREQ
  <2>8. QED
    BY <2>1, <2>6, <2>7, RoutesAfterRequest
<1>2. CASE \E e \in events : RecvRREP(e)
  BY <1>2, RoutesAfterReply
<1>3. CASE ~ \E e \in events : RecvNewRREQ(e) \/ RecvRREP(e)
  BY <1>3, KeepingSteps, RoutesKept DEF FlowInv
<1>4. QED
  BY <1>1, <1>2, <1>3

\* Every step keeps the invariant.
LEMMA DiscoveryInvNext == DiscoveryInv /\ [Next]_vars => DiscoveryInv'
<1> SUFFICES ASSUME DiscoveryInv, [Next]_vars PROVE DiscoveryInv'
  OBVIOUS
<1>1. FlowInv' /\ HeldAtSource'
  BY FlowInvNext, HeldNext DEF DiscoveryInv, FlowInv
<1>2. \A f \in Flow : PathKnown(f) => PathKnown(f)'
  BY PathsStay DEF DiscoveryInv, FlowInv, PathKnown
<1>3. AnsweredInPath'
  BY <1>2, AnsweredStep DEF DiscoveryInv, AnsweredInPath
<1>4. QED
  BY <1>1, <1>3 DEF DiscoveryInv

-------------------------------------------------------------------------------
(***************************************************************************)
(* The steps of one packet, said of the packets of SdnFlow.                *)
(***************************************************************************)
Stays(u) ==
    /\ Stage(place'[u]) = Stage(place[u])
    /\ place[u] # "unsent" => at'[u] = at[u] /\ flow'[u] = flow[u]

IsAccepted(u) ==
    /\ place[u] = "unsent" /\ Held(u)'
    /\ at'[u] = Owner[flow'[u][1]]

MovesOn(u, n) ==
    /\ place'[u] = "wire"
    /\ flow'[u] \in Flow
    /\ Answered(flow'[u])
    /\ OnPath(flow'[u], n, at'[u])

IsGivenUp(u) ==
    /\ \/ Held(u)
       \/ place[u] = "wire" /\ at[u] # Owner[flow[u][2]]
    /\ place'[u] \in {"reported", "dropped"}
    /\ at'[u] = at[u] /\ flow'[u] = flow[u]

IsDelivered(u) ==
    /\ place[u] = "wire" /\ at[u] = Owner[flow[u][2]]
    /\ place'[u] = "delivered"
    /\ at'[u] = at[u] /\ flow'[u] = flow[u]

PacketStep(u) ==
    \/ Stays(u)
    \/ IsAccepted(u)
    \/ place[u] = "unsent" /\ MovesOn(u, Owner[flow'[u][1]])
    \/ /\ Held(u) \/ place[u] = "wire"
       /\ flow'[u] = flow[u]
       /\ MovesOn(u, at[u])
    \/ IsGivenUp(u)
    \/ IsDelivered(u)

\* A packet that an application sends is accepted or goes along its route.
LEMMA SendSteps ==
    ASSUME DiscoveryInv, NEW v \in Uid, NEW t \in Traffic,
           SendAlongRoute(v, t) \/ SendRequest(v, t), NEW u \in Uid
    PROVE  PacketStep(u)
<1> USE DEF DiscoveryInv, FlowInv
<1>1. CASE u # v
  BY <1>1 DEF SendAlongRoute, SendRequest, PacketStep, Stays, TypeOK
<1>2. CASE u = v /\ SendRequest(v, t)
  <2>1. LoopbackSourceOf(t) \in Addr /\ Owner[LoopbackSourceOf(t)] = t.node
    BY TrafficAssumption, AddressAssumption DEF LoopbackSourceOf
  <2>2. IsAccepted(u)
    BY <1>2, <2>1 DEF SendRequest, NextUid, IsAccepted, Held, TypeOK
  <2>3. QED
    BY <2>2 DEF PacketStep
<1>3. CASE u = v /\ SendAlongRoute(v, t)
  <2> DEFINE f == <<SourceOf(t), t.dst>>
  <2>1. t.node \in Node /\ f \in Flow /\ Owner[SourceOf(t)] = t.node
    BY TrafficAssumption, AddressAssumption DEF SourceOf, Flow
  <2>2. HasRoute(t.node, f)
    BY <1>3 DEF SendAlongRoute, HasRoute
  <2>3. /\ place[u] = "unsent" /\ place'[u] = "wire"
        /\ at'[u] = m_flowtable[t.node][f] /\ flow'[u] = f
    BY <1>3 DEF SendAlongRoute, NextUid, TypeOK
  <2>4. MovesOn(u, Owner[flow'[u][1]])
    BY <2>1, <2>2, <2>3, RouteLeadsOn DEF MovesOn
  <2>5. QED
    BY <2>3, <2>4 DEF PacketStep
<1>4. QED
  BY <1>1, <1>2, <1>3

\* RecvRREP sends held packets on along the path, or gives them up.
LEMMA ReplySteps ==
    ASSUME DiscoveryInv, NEW e \in events, RecvRREP(e), NEW u \in Uid
    PROVE  PacketStep(u)
<1> USE DEF DiscoveryInv, FlowInv
<1>1. e \in Reply /\ e.type = "RREP"
  BY DEF RecvRREP, TypeOK, Request, Reply
<1>2. e.node \in Node /\ <<e.src, e.dst>> \in Flow
  BY <1>1 DEF Reply, Flow
<1>3. flow'[u] = flow[u]
  BY DEF RecvRREP
<1>4. CASE u \in Released(e.node, <<e.src, e.dst>>, e.next)
  <2>1. /\ flow[u] = <<e.src, e.dst>> /\ place[u] = "queued"
        /\ at[u] = e.node
    BY <1>4 DEF Released, WaitingFor, Fresh, Queued
  <2>2. at'[u] = e.next /\ place'[u] = "wire"
    BY <1>4 DEF RecvRREP
  <2>3. OnPath(flow[u], at[u], at'[u])
    BY <1>1, <2>1, <2>2 DEF RepliesFollowPath
  <2>4. Answered(flow[u])
    BY <1>1, <1>2, <2>1 DEF Answered, ReplyPending
  <2>5. MovesOn(u, at[u])
    BY <1>2, <1>3, <2>1, <2>2, <2>3, <2>4 DEF MovesOn
  <2>6. QED
    BY <1>3, <2>1, <2>5 DEF PacketStep, Held
<1>5. CASE u \notin Released(e.node, <<e.src, e.dst>>, e.next)
  <2>1. at'[u] = at[u]
    BY <1>5 DEF RecvRREP
  <2>2. CASE place'[u] = place[u]
    BY <1>3, <2>1, <2>2 DEF PacketStep, Stays
  <2>3. CASE place'[u] # place[u]
    <3>1. place[u] = "queued" /\ place'[u] \in {"reported", "dropped"}
      BY <1>5, <2>3 DEF RecvRREP, Stopped, Mismatched, WaitingFor, Fresh,
                        Outdated, Queued
    <3>2. QED
      BY <1>3, <2>1, <3>1 DEF PacketStep, IsGivenUp, Held
  <2>4. QED
    BY <2>2, <2>3
<1>6. QED
  BY <1>4, <1>5

\* RouteInput delivers at the end of the path and nowhere else.
LEMMA InputSteps ==
    ASSUME DiscoveryInv, NEW u \in Uid, RouteInput(u)
    PROVE  PacketStep(u)
<1> USE DEF DiscoveryInv, FlowInv
<1>1. /\ at[u] \in Node /\ flow[u] \in Flow /\ place[u] = "wire"
      /\ flow'[u] = flow[u] /\ place'[u] = InputTo(u)
  BY DEF RouteInput, TypeOK
<1>2. PICK n \in Node : OnPath(flow[u], n, at[u])
  BY <1>1 DEF WireOnPath
<1>3. at[u] # Owner[flow[u][1]]
  BY <1>1, <1>2, NextOnPath
<1>4. CASE at[u] = Owner[flow[u][2]]
  <2>1. InputTo(u) = "delivered" /\ at'[u] = at[u]
    BY <1>1, <1>3, <1>4 DEF InputTo, RouteInput, TypeOK
  <2>2. QED
    BY <1>1, <1>4, <2>1 DEF PacketStep, IsDelivered
<1>5. CASE at[u] # Owner[flow[u][2]] /\ InputTo(u) = "wire"
  <2>1. HasRoute(at[u], flow[u])
    BY <1>3, <1>5 DEF InputTo, NextHop, HasRoute
  <2>2. at'[u] = m_flowtable[at[u]][flow[u]]
    BY <1>1, <1>5 DEF RouteInput, NextHop, TypeOK
  <2>3. MovesOn(u, at[u])
    BY <1>1, <1>5, <2>1, <2>2, RouteLeadsOn DEF MovesOn
  <2>4. QED
    BY <1>1, <2>3 DEF PacketStep
<1>6. CASE at[u] # Owner[flow[u][2]] /\ InputTo(u) # "wire"
  <2>1. InputTo(u) \in {"reported", "dropped"} /\ at'[u] = at[u]
    BY <1>1, <1>3, <1>6 DEF InputTo, RouteInput, TypeOK
  <2>2. QED
    BY <1>1, <1>6, <2>1 DEF PacketStep, IsGivenUp
<1>7. QED
  BY <1>4, <1>5, <1>6

\* The remaining steps: a full or aged queue gives packets up.
LEMMA PacketSteps ==
    ASSUME DiscoveryInv, [Next]_vars, NEW u \in Uid
    PROVE  PacketStep(u)
<1> USE DEF DiscoveryInv, FlowInv
<1>1. CASE \E v \in Uid, t \in Traffic : SendAlongRoute(v, t) \/ SendRequest(v, t)
  BY <1>1, SendSteps
<1>2. CASE \E v \in Uid : DeferredRouteOutput(v)
  <2>1. PICK v \in Uid : DeferredRouteOutput(v)
    BY <1>2
  <2>2. at'[u] = at[u] /\ flow'[u] = flow[u]
    BY <2>1 DEF DeferredRouteOutput
  <2>3. CASE u = v
    <3>1. place[u] = "loopback" /\ place'[u] = "queued"
      BY <2>1, <2>3 DEF DeferredRouteOutput
    <3>2. QED
      BY <2>2, <3>1 DEF PacketStep, Stays, Stage
  <2>4. CASE u # v /\ u \in Outdated(at[v]) \cup MostAged(at[v])
    <3>1. place[u] = "queued" /\ place'[u] = "reported"
      BY <2>1, <2>4 DEF DeferredRouteOutput, Outdated, MostAged, Fresh, Queued
    <3>2. QED
      BY <2>2, <3>1 DEF PacketStep, IsGivenUp, Held
  <2>5. CASE u # v /\ u \notin Outdated(at[v]) \cup MostAged(at[v])
    BY <2>1, <2>2, <2>5 DEF DeferredRouteOutput, PacketStep, Stays
  <2>6. QED
    BY <2>3, <2>4, <2>5
<1>3. CASE \E v \in Uid : Expire(v)
  BY <1>3 DEF Expire, PacketStep, Stays
<1>4. CASE \E e \in events : RecvKnownRREQ(e) \/ RecvNewRREQ(e)
  BY <1>4 DEF RecvKnownRREQ, RecvNewRREQ, packets, PacketStep, Stays
<1>5. CASE \E e \in events : RecvRREP(e)
  BY <1>5, ReplySteps
<1>6. CASE RouteInput(u)
  BY <1>6, InputSteps
<1>7. CASE \E v \in Uid : v # u /\ RouteInput(v)
  BY <1>7 DEF RouteInput, TypeOK, PacketStep, Stays
<1>8. CASE (\E n \in Node : SendHello(n)) \/ UNCHANGED vars
  BY <1>8 DEF SendHello, packets, vars, PacketStep, Stays
<1>9. QED
  BY <1>1, <1>2, <1>3, <1>4, <1>5, <1>6, <1>7, <1>8 DEF Next, Control

-------------------------------------------------------------------------------
\* A step of a packet is a step that RouteDiscovery allows it.
LEMMA PacketRefines ==
    ASSUME DiscoveryInv, NEW u \in Uid, PacketStep(u)
    PROVE  \/ Discovery!Stay(u) \/ Discovery!Accept(u) \/ Discovery!SendOn(u)
           \/ Discovery!Leave(u) \/ Discovery!Forward(u)
           \/ Discovery!Deliver(u) \/ Discovery!GiveUp(u)
<1> USE DEF Stage
<1>1. place[u] \in Place
  BY DEF DiscoveryInv, FlowInv, TypeOK
<1>2. \A f, n, m : OnPath(f, n, m) <=> Discovery!Successor(f, n, m)
  BY DEF OnPath, PathOf, Discovery!Successor, Discovery!Ends
<1>3. CASE Stays(u)
  BY <1>1, <1>3 DEF Stays, Place, Discovery!Stay
<1>4. CASE IsAccepted(u)
  BY <1>4 DEF IsAccepted, Held, Discovery!Accept
<1>5. CASE place[u] = "unsent" /\ MovesOn(u, Owner[flow'[u][1]])
  BY <1>2, <1>5 DEF MovesOn, Discovery!SendOn
<1>6. CASE Held(u) /\ flow'[u] = flow[u] /\ MovesOn(u, at[u])
  BY <1>2, <1>6 DEF MovesOn, Held, Discovery!Leave
<1>7. CASE place[u] = "wire" /\ flow'[u] = flow[u] /\ MovesOn(u, at[u])
  BY <1>2, <1>7 DEF MovesOn, Discovery!Forward
<1>8. CASE IsGivenUp(u)
  BY <1>8 DEF IsGivenUp, Held, Discovery!GiveUp
<1>9. CASE IsDelivered(u)
  BY <1>9 DEF IsDelivered, Discovery!Deliver
<1>10. QED
  BY <1>3, <1>4, <1>5, <1>6, <1>7, <1>8, <1>9 DEF PacketStep

\* A step of SdnFlow is a step of RouteDiscovery, or changes nothing there.
LEMMA StepRefines ==
    ASSUME DiscoveryInv, DiscoveryInv', [Next]_vars
    PROVE  [Discovery!Next]_Discovery!discoveryVars
<1>1. CASE \A f \in Flow : Answered(f)' <=> Answered(f)
  <2>1. {f \in Flow : Answered(f)}' = {f \in Flow : Answered(f)}
    BY <1>1
  <2>2. Discovery!Transport
    BY <2>1, PacketSteps, PacketRefines DEF Discovery!Transport
  <2>3. QED
    BY <2>2 DEF Discovery!Next
<1>2. CASE /\ UNCHANGED packets
           /\ \E g \in Flow :
                /\ ~PathKnown(g) /\ Answered(g)'
                /\ \A f \in Flow : Answered(f) => Answered(f)'
                /\ \A f \in Flow : Answered(f)' => Answered(f) \/ f = g
  <2>1. PICK g \in Flow :
          /\ ~PathKnown(g) /\ Answered(g)'
          /\ \A f \in Flow : Answered(f) => Answered(f)'
          /\ \A f \in Flow : Answered(f)' => Answered(f) \/ f = g
    BY <1>2
  <2>2. {f \in Flow : Answered(f)}' = {f \in Flow : Answered(f)} \cup {g}
    BY <2>1
  <2>3. \A f \in Flow : Answered(f) => Discovery!Ends(f) # Discovery!Ends(g)
    BY <2>1 DEF DiscoveryInv, AnsweredInPath, PathKnown, Discovery!Ends
  <2>4. UNCHANGED Discovery!packets
    BY <1>2 DEF packets, Discovery!packets
  <2>5. Discovery!Answer(g)
    BY <2>2, <2>3, <2>4 DEF Discovery!Answer
  <2>6. g \in {f \in Flow : Answered(f)}'
    BY <2>1
  <2>7. QED
    BY <2>5, <2>6 DEF Discovery!Next
<1>3. CASE ~ \A f \in Flow : Answered(f)' <=> Answered(f)
  <2>1. PICK g \in Flow :
          /\ ~PathKnown(g)
          /\ \A f \in Flow : Answered(f) => Answered(f)'
          /\ \A f \in Flow : Answered(f)' => Answered(f) \/ f = g
    BY <1>3, AnsweredStep DEF DiscoveryInv
  <2>2. Answered(g)'
    BY <1>3, <2>1
  <2>3. UNCHANGED packets
    BY <1>3, AnsweredStep DEF DiscoveryInv
  <2>4. QED
    BY <1>2, <2>1, <2>2, <2>3
<1>4. QED
  BY <1>1, <1>3

(***************************************************************************)
(* The switches, queues and the controller implement RouteDiscovery, in    *)
(* every network and for every order of the scheduled calls.               *)
(***************************************************************************)
THEOREM SdnFlowImplementsDiscovery == Spec => DiscoverySpec
<1>1. Init => DiscoveryInv /\ Discovery!Init
  <2>1. Init => FlowInv
    BY FlowInvInit
  <2>2. Init => \A f \in Flow : ~Answered(f)
    BY DEF Init, Answered, HasRoute, ReplyPending
  <2>3. Init => HeldAtSource /\ AnsweredInPath
    BY <2>2 DEF Init, HeldAtSource, Held, AnsweredInPath
  <2>4. Init => Discovery!Init
    BY <2>2 DEF Init, Discovery!Init, Stage
  <2>5. QED
    BY <2>1, <2>3, <2>4 DEF DiscoveryInv
<1>2. DiscoveryInv /\ [Next]_vars =>
        DiscoveryInv' /\ [Discovery!Next]_Discovery!discoveryVars
  BY DiscoveryInvNext, StepRefines
<1>3. QED
  BY <1>1, <1>2, PTL DEF Spec, DiscoverySpec, Discovery!Spec

===============================================================================
