---------------------------- MODULE RouteDiscovery ----------------------------
(***************************************************************************)
(* What src/sdn promises the packets of a network, without its switches,   *)
(* tables, queues and messages: a packet is held where it was sent until   *)
(* its flow is answered, then it goes along the one path of its flow, node *)
(* by node, until it is delivered at the end of the path or given up.      *)
(*                                                                         *)
(* Of the flows between two nodes only one is ever answered: m_path has a  *)
(* path for a pair of nodes, a flow is a pair of their addresses.          *)
(***************************************************************************)
EXTENDS Naturals, Sequences

CONSTANTS
    Node,    \* the switches
    Addr,    \* their addresses
    Owner,   \* the node of an address
    Path,    \* the path of a pair of nodes
    Uid      \* the packets

VARIABLES
    answered,   \* the flows the controller has answered a request for
    stage,      \* "unsent", "held", "travelling", or how the packet ended
    at,         \* the node that has the packet or is to receive it
    flow        \* the source and the destination address of the packet

packets == <<stage, at, flow>>
discoveryVars == <<answered, stage, at, flow>>

Ends(f) == <<Owner[f[1]], Owner[f[2]]>>

Successor(f, n, m) ==
    \E i \in 1 .. Len(Path[Ends(f)]) - 1 :
        Path[Ends(f)][i] = n /\ Path[Ends(f)][i + 1] = m

Init ==
    /\ answered = {}
    /\ stage = [u \in Uid |-> "unsent"]

-------------------------------------------------------------------------------
(***************************************************************************)
(* The controller answers the first request of the flows between two nodes.*)
(***************************************************************************)
Answer(f) ==
    /\ \A g \in answered : Ends(g) # Ends(f)
    /\ answered' = answered \cup {f}
    /\ UNCHANGED packets

(***************************************************************************)
(* What may happen to one packet.                                          *)
(***************************************************************************)
Stay(u) ==
    /\ stage'[u] = stage[u]
    /\ stage[u] # "unsent" => at'[u] = at[u] /\ flow'[u] = flow[u]

Accept(u) ==
    /\ stage[u] = "unsent"
    /\ stage'[u] = "held"
    /\ at'[u] = Owner[flow'[u][1]]

SendOn(u) ==
    /\ stage[u] = "unsent"
    /\ stage'[u] = "travelling"
    /\ flow'[u] \in answered
    /\ Successor(flow'[u], Owner[flow'[u][1]], at'[u])

Leave(u) ==
    /\ stage[u] = "held"
    /\ stage'[u] = "travelling"
    /\ flow'[u] = flow[u]
    /\ flow[u] \in answered
    /\ Successor(flow[u], at[u], at'[u])

Forward(u) ==
    /\ stage[u] = "travelling"
    /\ stage'[u] = "travelling"
    /\ flow'[u] = flow[u]
    /\ Successor(flow[u], at[u], at'[u])

Deliver(u) ==
    /\ stage[u] = "travelling"
    /\ at[u] = Owner[flow[u][2]]
    /\ stage'[u] = "delivered"
    /\ at'[u] = at[u]
    /\ flow'[u] = flow[u]

\* A packet that has reached its destination is not given up.
GiveUp(u) ==
    /\ \/ stage[u] = "held"
       \/ stage[u] = "travelling" /\ at[u] # Owner[flow[u][2]]
    /\ stage'[u] \in {"reported", "dropped"}
    /\ at'[u] = at[u]
    /\ flow'[u] = flow[u]

(***************************************************************************)
(* One call may move any number of packets.                                *)
(***************************************************************************)
Transport ==
    /\ UNCHANGED answered
    /\ \A u \in Uid :
          \/ Stay(u)
          \/ Accept(u) \/ SendOn(u) \/ Leave(u) \/ Forward(u)
          \/ Deliver(u) \/ GiveUp(u)

Next == Transport \/ \E f \in answered' : Answer(f)

Spec == Init /\ [][Next]_discoveryVars

==============================================================================
