-------------------------- MODULE MCPathCalculation --------------------------
(***************************************************************************)
(* CalculatePath on every connected topology of m_num nodes, while hellos  *)
(* change the delays.  Reports of the links to node 1 are enough: no other *)
(* entry of m_edges is read by CalculatePath.                              *)
(***************************************************************************)
EXTENDS PathCalculation

CONSTANTS
    m_num,    \* the number of nodes
    Delays    \* the delays links may have, in seconds

ASSUME NumAssumption == m_num \in Nat \ {0} /\ Delays \subseteq Nat

\* Every path can be paid.  Where one costs MaxCost or more the code finds no
\* link to go on by, and reads an uninitialised min_ind.
ASSUME DelaysAssumption == \A d \in Delays : d * (m_num - 1) < MaxCost

VARIABLES m_G, m_edges
vars == <<m_G, m_edges>>

Node == 0 .. m_num - 1

\* The nodes within k links of i.
Within(G, i, k) ==
    LET ball[n \in 0 .. k] ==
            IF n = 0 THEN {i}
            ELSE ball[n - 1] \cup {j \in Node : \E h \in ball[n - 1] : <<h, j>> \in G}
    IN  ball[k]

Connected(G) == Within(G, 0, m_num - 1) = Node

Topologies ==
    {G \in { S \cup {<<l[2], l[1]>> : l \in S} :
               S \in SUBSET {l \in Node \X Node : l[1] < l[2]} } : Connected(G)}

\* ControlCenter::Init: every link in m_G, and its delay in m_edges.
Init ==
    /\ m_G \in Topologies
    /\ m_edges \in [m_G -> {d \in Delays : \A e \in Delays : d <= e}]

\* ControlCenter::RecvHello.
RecvHello(from, to, delay) ==
    /\ m_edges' = [m_edges EXCEPT ![<<from, to>>] = delay]
    /\ UNCHANGED m_G

Next == \E l \in m_G, d \in Delays : l[2] = 1 /\ RecvHello(l[1], l[2], d)

Spec == Init /\ [][Next]_vars

-------------------------------------------------------------------------------
PathFrom(i, j) == CalculatePath(m_num, m_G, m_edges, i, j)

(***************************************************************************)
(* CalculatePath returns a path along links from src to dst that visits no *)
(* node twice, and no path has fewer links.  SdnFlow rests on it.          *)
(***************************************************************************)
PathsAreShortest ==
    \A i, j \in Node :
        LET p == PathFrom(i, j) IN
        /\ p[1] = i /\ p[Len(p)] = j
        /\ \A k \in 1 .. Len(p) - 1 : <<p[k], p[k + 1]>> \in m_G
        /\ \A k, l \in DOMAIN p : p[k] = p[l] => k = l
        /\ Len(p) > 1 => j \notin Within(m_G, i, Len(p) - 2)

(***************************************************************************)
(* No hello changes a path: whatever delays are reported, CalculatePath    *)
(* returns what it returns when all are 0, so what m_path stores first is  *)
(* what would be computed at any later time.                               *)
(***************************************************************************)
HellosKeepPaths ==
    \A i, j \in Node : PathFrom(i, j) = CalculatePath(m_num, m_G, <<>>, i, j)

===============================================================================
