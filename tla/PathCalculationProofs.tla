------------------------ MODULE PathCalculationProofs ------------------------
(***************************************************************************)
(* Theorems about CalculatePath, for every number of nodes, every          *)
(* connected topology and all delays: it is a breadth-first search.        *)
(*                                                                         *)
(* All links cost the same, the delay of the link from src to node 1, so   *)
(* that the cheapest link to go on by is the first one of the first row    *)
(* that has any.                                                           *)
(***************************************************************************)
EXTENDS MCPathCalculation, Iteration, FiniteSetTheorems

-------------------------------------------------------------------------------
(***************************************************************************)
(* Distances.                                                              *)
(***************************************************************************)
Wider(G, b) == b \cup {j \in Node : \E h \in b : <<h, j>> \in G}

\* The functions that Within takes the last value of.
Balls(G, i, k) ==
    LET ball[n \in 0 .. k] ==
            IF n = 0 THEN {i}
            ELSE ball[n - 1] \cup {j \in Node : \E h \in ball[n - 1] : <<h, j>> \in G}
    IN  ball

AreBalls(G, i, k, B) ==
    /\ B[0] = {i}
    /\ \A n \in 1 .. k : B[n] = Wider(G, B[n - 1])
    /\ \A n \in 0 .. k : B[n] \subseteq Node

LEMMA BallsDefined ==
    ASSUME NEW G, NEW i \in Node, NEW k \in Nat
    PROVE  AreBalls(G, i, k, Balls(G, i, k))
<1> DEFINE S == SUBSET Node
           F == [n \in 1 .. k |-> [b \in S |-> Wider(G, b)]]
           B == Balls(G, i, k)
<1>1. \A b \in S : Wider(G, b) \in S
  BY DEF Wider
<1>2. F \in [1 .. k -> [S -> S]]
  BY <1>1
<1>3. PICK f : Iterates(f, k, S, {i}, F)
  <2>1. {i} \in S
    OBVIOUS
  <2> HIDE DEF S, F
  <2>2. QED
    BY <1>2, <2>1, Iterated
<1>4. f[0] = {i} /\ \A n \in 0 .. k : f[n] \in S
  BY <1>3 DEF Iterates
<1>5. ASSUME NEW n \in 1 .. k
      PROVE  f[n] = Wider(G, f[n - 1])
  <2>1. f[n - 1] \in S
    BY <1>4
  <2> HIDE DEF S
  <2>2. F[n] = [b \in S |-> Wider(G, b)]
    OBVIOUS
  <2> HIDE DEF F
  <2>3. QED
    BY <1>3, <2>1, <2>2 DEF Iterates
<1>6. f = [n \in 0 .. k |-> IF n = 0 THEN {i} ELSE Wider(G, f[n - 1])]
  <2>1. f = [n \in 0 .. k |-> f[n]]
    BY <1>3 DEF Iterates
  <2>2. \A n \in 0 .. k : f[n] = IF n = 0 THEN {i} ELSE Wider(G, f[n - 1])
    <3> HIDE DEF F, S
    <3>1. SUFFICES ASSUME NEW n \in 0 .. k
                   PROVE  f[n] = IF n = 0 THEN {i} ELSE Wider(G, f[n - 1])
      OBVIOUS
    <3>2. n = 0 \/ n \in 1 .. k
      OBVIOUS
    <3>3. QED
      BY <1>4, <1>5, <3>2
  <2> HIDE DEF F, S
  <2>3. QED
    BY <2>1, <2>2
<1>7. B = [n \in 0 .. k |-> IF n = 0 THEN {i} ELSE Wider(G, B[n - 1])]
  BY <1>6, ZenonT(30) DEF Balls, Wider
<1> HIDE DEF B
<1>8. B[0] = {i} /\ \A n \in 1 .. k : B[n] = Wider(G, B[n - 1])
  <2>1. B[0] = {i}
    BY <1>7
  <2>2. ASSUME NEW n \in 1 .. k PROVE B[n] = Wider(G, B[n - 1])
    <3>1. n \in 0 .. k /\ n # 0
      OBVIOUS
    <3>2. QED
      BY <1>7, <3>1
  <2>3. QED
    BY <2>1, <2>2
<1>9. \A n \in 0 .. k : B[n] \subseteq Node
  <2> DEFINE T == {n \in 0 .. k : B[n] \subseteq Node}
  <2>1. 0 \in T
    BY <1>8
  <2>2. ASSUME NEW n \in 0 .. k - 1, n \in T
        PROVE  n + 1 \in T
    <3>1. n + 1 \in 1 .. k /\ (n + 1) - 1 = n /\ n + 1 \in 0 .. k
      OBVIOUS
    <3>2. B[n + 1] = Wider(G, B[n])
      BY <1>8, <3>1
    <3>3. QED
      BY <1>1, <2>2, <3>1, <3>2
  <2> HIDE DEF T
  <2>3. \A n \in 0 .. k : n \in T
    BY <2>1, <2>2, InductionUpTo
  <2>4. QED
    BY <2>3 DEF T
<1>10. QED
  BY <1>8, <1>9 DEF AreBalls, B

\* However far a ball is computed, it is the same.
LEMMA BallsAgree ==
    ASSUME NEW G, NEW i \in Node, NEW k \in Nat, NEW n \in 0 .. k
    PROVE  Balls(G, i, k)[n] = Balls(G, i, k + 1)[n]
<1> DEFINE A == Balls(G, i, k)
           B == Balls(G, i, k + 1)
           T == {l \in 0 .. k : A[l] = B[l]}
<1>1. /\ A[0] = {i} /\ \A l \in 1 .. k : A[l] = Wider(G, A[l - 1])
      /\ B[0] = {i} /\ \A l \in 1 .. k + 1 : B[l] = Wider(G, B[l - 1])
  <2>1. k + 1 \in Nat
    OBVIOUS
  <2>2. AreBalls(G, i, k, A) /\ AreBalls(G, i, k + 1, B)
    BY <2>1, BallsDefined, Zenon
  <2> HIDE DEF A, B
  <2>3. QED
    BY <2>2 DEF AreBalls
<1> HIDE DEF A, B
<1>2. 0 \in T
  BY <1>1
<1>3. ASSUME NEW l \in 0 .. k - 1, l \in T
      PROVE  l + 1 \in T
  <2>1. l + 1 \in 1 .. k /\ l + 1 \in 1 .. k + 1 /\ (l + 1) - 1 = l
    OBVIOUS
  <2>2. A[l + 1] = Wider(G, A[l]) /\ B[l + 1] = Wider(G, B[l])
    BY <1>1, <2>1
  <2>3. QED
    BY <1>3, <2>1, <2>2
<1> HIDE DEF T
<1>4. \A l \in 0 .. k : l \in T
  BY <1>2, <1>3, InductionUpTo
<1>5. QED
  BY <1>4 DEF T, A, B

(***************************************************************************)
(* The nodes within k links: src itself for 0, and one link more for each. *)
(***************************************************************************)
LEMMA WithinFacts ==
    ASSUME NEW G, NEW i \in Node
    PROVE  /\ Within(G, i, 0) = {i}
           /\ \A k \in Nat : /\ Within(G, i, k + 1) = Wider(G, Within(G, i, k))
                             /\ Within(G, i, k) \subseteq Node
<1>1. \A k \in Nat : Within(G, i, k) = Balls(G, i, k)[k]
  BY DEF Within, Balls
<1>2. Within(G, i, 0) = {i}
  <2>1. AreBalls(G, i, 0, Balls(G, i, 0))
    BY BallsDefined
  <2>2. QED
    BY <1>1, <2>1 DEF AreBalls
<1>3. ASSUME NEW k \in Nat
      PROVE  /\ Within(G, i, k + 1) = Wider(G, Within(G, i, k))
             /\ Within(G, i, k) \subseteq Node
  <2>1. k + 1 \in 1 .. k + 1 /\ (k + 1) - 1 = k /\ k \in 0 .. k /\ k + 1 \in Nat
    OBVIOUS
  <2>2. Balls(G, i, k + 1)[k + 1] = Wider(G, Balls(G, i, k + 1)[k])
    <3>1. AreBalls(G, i, k + 1, Balls(G, i, k + 1))
      BY <2>1, BallsDefined, Zenon
    <3>2. \A n \in 1 .. k + 1 :
             Balls(G, i, k + 1)[n] = Wider(G, Balls(G, i, k + 1)[n - 1])
      BY <3>1, Zenon DEF AreBalls
    <3>3. QED
      BY <2>1, <3>2
  <2>3. Balls(G, i, k + 1)[k] = Balls(G, i, k)[k]
    BY <2>1, BallsAgree
  <2>4. Balls(G, i, k)[k] \subseteq Node
    <3>1. AreBalls(G, i, k, Balls(G, i, k))
      BY BallsDefined
    <3>2. QED
      BY <2>1, <3>1, Zenon DEF AreBalls
  <2>5. QED
    BY <1>1, <2>1, <2>2, <2>3, <2>4
<1>4. QED
  BY <1>2, <1>3

LEMMA WithinGrows ==
    ASSUME NEW G, NEW i \in Node, NEW j \in Nat, NEW k \in Nat, j <= k
    PROVE  Within(G, i, j) \subseteq Within(G, i, k)
<1> DEFINE T == {n \in 0 .. k - j : Within(G, i, j) \subseteq Within(G, i, j + n)}
<1>1. 0 \in T
  OBVIOUS
<1>2. ASSUME NEW n \in 0 .. (k - j) - 1, n \in T
      PROVE  n + 1 \in T
  <2>1. j + n \in Nat /\ j + (n + 1) = (j + n) + 1
    OBVIOUS
  <2>2. Within(G, i, j + n) \subseteq Within(G, i, (j + n) + 1)
    <3>1. Within(G, i, (j + n) + 1) = Wider(G, Within(G, i, j + n))
      BY <2>1, WithinFacts, Zenon
    <3>2. QED
      BY <3>1 DEF Wider
  <2>3. QED
    BY <1>2, <2>1, <2>2
<1> HIDE DEF T
<1>3. k - j \in Nat
  OBVIOUS
<1>4. \A n \in 0 .. k - j : n \in T
  BY <1>1, <1>2, <1>3, InductionUpTo
<1>5. k - j \in T /\ j + (k - j) = k
  BY <1>3, <1>4
<1>6. QED
  BY <1>5 DEF T

-------------------------------------------------------------------------------
(***************************************************************************)
(* The table.                                                              *)
(***************************************************************************)
\* A path from src along links that visits no node twice, and that no path
\* to the same node is shorter than.
ShortestPath(G, src, p) ==
    /\ p \in Seq(Node) /\ Len(p) >= 1 /\ p[1] = src
    /\ \A k \in 1 .. Len(p) - 1 : <<p[k], p[k + 1]>> \in G
    /\ \A k, l \in 1 .. Len(p) : p[k] = p[l] => k = l
    /\ p[Len(p)] \in Within(G, src, Len(p) - 1)
    /\ Len(p) > 1 => p[Len(p)] \notin Within(G, src, Len(p) - 2)

\* A row is a shortest path, each node of which is the end of a row, and what
\* it costs is the number of its links times c.
RowOK(G, src, c, t, i) ==
    /\ ShortestPath(G, src, t[i].path)
    /\ t[i].cost = c * (Len(t[i].path) - 1)
    /\ \A k \in 1 .. Len(t[i].path) : t[i].path[k] \in Settled(t)

IsTable(t) == t \in Seq([path: Seq(Node), cost: Nat]) /\ Len(t) >= 1

Ordered(t) ==
    \A i, j \in 1 .. Len(t) : i < j => Len(t[i].path) <= Len(t[j].path)

EndsDiffer(t) ==
    \A i, j \in 1 .. Len(t) : Last(t[i].path) = Last(t[j].path) => i = j

\* All nodes that are nearer to src than the last one have rows.
NearerSettled(G, src, t) ==
    LET last == Len(t[Len(t)].path) IN
    last > 1 => Within(G, src, last - 2) \subseteq Settled(t)

(***************************************************************************)
(* What holds of the table in every round of CalculatePath.                *)
(***************************************************************************)
TableInv(G, src, dst, c, t) ==
    /\ IsTable(t)
    /\ \A i \in 1 .. Len(t) : RowOK(G, src, c, t, i)
    /\ Ordered(t)
    /\ EndsDiffer(t)
    /\ NearerSettled(G, src, t)
    /\ dst \in Settled(t) => Last(t[Len(t)].path) = dst

\* The first row there is a link to go on by, and the first node of it.
First(G, t, i, k) ==
    /\ i \in 1 .. Len(t) /\ k \in Node \ Settled(t)
    /\ <<Last(t[i].path), k>> \in G
    /\ \A j \in 1 .. Len(t), h \in Node \ Settled(t) :
          <<Last(t[j].path), h>> \in G => i < j \/ (i = j /\ k <= h)

\* Nodes that differ and are not all nodes are fewer than m_num.
LEMMA FewNodes ==
    ASSUME NEW S, S \subseteq Node, S # Node, NEW n \in Nat,
           NEW f \in [1 .. n -> S],
           \A i, j \in 1 .. n : f[i] = f[j] => i = j
    PROVE  n <= m_num - 1
<1>1. m_num \in Nat \ {0}
  BY NumAssumption
<1>2. IsFiniteSet(Node) /\ Cardinality(Node) = m_num
  BY <1>1, FS_Interval DEF Node
<1>3. IsFiniteSet(S) /\ Cardinality(S) <= m_num /\ Cardinality(S) # m_num
      /\ Cardinality(S) \in Nat
  BY <1>2, FS_Subset, FS_CardinalityType
<1>4. IsFiniteSet(1 .. n) /\ Cardinality(1 .. n) = n
  BY FS_Interval
<1>5. SUFFICES ASSUME n >= m_num PROVE FALSE
  BY <1>1
<1>6. Cardinality(S) < Cardinality(1 .. n)
  BY <1>1, <1>3, <1>4, <1>5
<1>7. \E i, j \in 1 .. n : i # j /\ f[i] = f[j]
  BY <1>3, <1>4, <1>6, FS_PigeonHole
<1>8. QED
  BY <1>7

\* The ends of the rows are nodes.
LEMMA SettledNodes ==
    ASSUME NEW t, IsTable(t), \A i \in 1 .. Len(t) : t[i].path \in Seq(Node)
                                                     /\ Len(t[i].path) >= 1
    PROVE  /\ Settled(t) = {Last(t[i].path) : i \in 1 .. Len(t)}
           /\ Settled(t) \subseteq Node
           /\ Len(t) \in Nat \ {0}
<1>1. DOMAIN t = 1 .. Len(t) /\ Len(t) \in Nat \ {0}
  <2> DEFINE R == [path: Seq(Node), cost: Nat]
  <2>1. t \in Seq(R) /\ Len(t) >= 1
    BY DEF IsTable
  <2> HIDE DEF R
  <2>2. QED
    BY <2>1
<1>2. \A i \in 1 .. Len(t) : Last(t[i].path) \in Node
  BY DEF Last
<1>3. QED
  BY <1>1, <1>2 DEF Settled

\* What the conjuncts of the invariant say of lengths and ends.
TableShape(src, c, t) ==
    /\ Settled(t) = {Last(t[i].path) : i \in 1 .. Len(t)}
    /\ Settled(t) \subseteq Node
    /\ Len(t) \in Nat \ {0}
    /\ \A i \in 1 .. Len(t) :
         /\ t[i].path \in Seq(Node)
         /\ Len(t[i].path) \in Nat \ {0}
         /\ Last(t[i].path) = t[i].path[Len(t[i].path)]
         /\ Last(t[i].path) \in Settled(t)
         /\ t[i].cost = c * (Len(t[i].path) - 1)
    /\ src \in Settled(t)

LEMMA TableFacts ==
    ASSUME NEW G, NEW src \in Node, NEW dst, NEW c \in Nat, NEW t,
           TableInv(G, src, dst, c, t)
    PROVE  TableShape(src, c, t)
<1>1. \A i \in 1 .. Len(t) : t[i].path \in Seq(Node) /\ Len(t[i].path) >= 1
                             /\ t[i].cost = c * (Len(t[i].path) - 1)
  BY DEF TableInv, RowOK, ShortestPath
<1>2. /\ Settled(t) = {Last(t[i].path) : i \in 1 .. Len(t)}
      /\ Settled(t) \subseteq Node
      /\ Len(t) \in Nat \ {0}
  BY <1>1, SettledNodes DEF TableInv
<1>3. src \in Settled(t)
  <2>1. RowOK(G, src, c, t, 1)
    BY <1>2 DEF TableInv
  <2>2. 1 \in 1 .. Len(t[1].path) /\ t[1].path[1] = src
    BY <2>1 DEF RowOK, ShortestPath
  <2>3. QED
    BY <2>1, <2>2 DEF RowOK
<1>4. QED
  BY <1>1, <1>2, <1>3 DEF TableShape, Last

\* While a node has no row, there are fewer rows than nodes, and all are short.
LEMMA RowsAreFew ==
    ASSUME NEW G, NEW src \in Node, NEW dst, NEW c \in Nat, NEW t,
           TableInv(G, src, dst, c, t), Settled(t) # Node
    PROVE  /\ Len(t) <= m_num - 1
           /\ \A i \in 1 .. Len(t) : Len(t[i].path) <= m_num - 1
<1>1. /\ Settled(t) \subseteq Node
      /\ Len(t) \in Nat
      /\ \A i \in 1 .. Len(t) : /\ Last(t[i].path) \in Settled(t)
                                /\ Len(t[i].path) \in Nat
                                /\ t[i].path \in Seq(Node)
  BY TableFacts DEF TableShape
<1>2. Len(t) <= m_num - 1
  <2> DEFINE f == [i \in 1 .. Len(t) |-> Last(t[i].path)]
  <2>1. f \in [1 .. Len(t) -> Settled(t)]
    BY <1>1
  <2>2. \A i, j \in 1 .. Len(t) : f[i] = f[j] => i = j
    BY DEF TableInv, EndsDiffer
  <2> HIDE DEF f
  <2>3. QED
    BY <1>1, <2>1, <2>2, FewNodes
<1>3. ASSUME NEW i \in 1 .. Len(t) PROVE Len(t[i].path) <= m_num - 1
  <2> DEFINE p == t[i].path
             f == [k \in 1 .. Len(p) |-> p[k]]
  <2>1. RowOK(G, src, c, t, i)
    BY DEF TableInv
  <2>2. f \in [1 .. Len(p) -> Settled(t)]
    BY <2>1 DEF RowOK
  <2>3. \A k, l \in 1 .. Len(p) : f[k] = f[l] => k = l
    BY <2>1 DEF RowOK, ShortestPath
  <2>4. Len(p) \in Nat
    BY <1>1
  <2> HIDE DEF f, p
  <2>5. Len(p) <= m_num - 1
    BY <1>1, <2>2, <2>3, <2>4, FewNodes
  <2>6. QED
    BY <2>5 DEF p
<1>4. QED
  BY <1>2, <1>3

\* The topologies are connected graphs of links in both directions.
LEMMA TopologyFacts ==
    ASSUME NEW G \in Topologies
    PROVE  /\ G \subseteq Node \X Node
           /\ \A i, j \in Node : <<i, j>> \in G => <<j, i>> \in G
           /\ Within(G, 0, m_num - 1) = Node
           /\ 0 \in Node /\ m_num \in Nat \ {0}
<1>1. PICK S \in SUBSET {l \in Node \X Node : l[1] < l[2]} :
          G = S \cup {<<l[2], l[1]>> : l \in S}
  BY DEF Topologies
<1>2. Connected(G)
  BY DEF Topologies
<1>3. \A l \in S : l \in Node \X Node /\ l = <<l[1], l[2]>>
  OBVIOUS
<1>4. ASSUME NEW i \in Node, NEW j \in Node, <<i, j>> \in G
      PROVE  <<j, i>> \in G
  <2>1. CASE <<i, j>> \in S
    BY <1>1, <2>1
  <2>2. CASE \E l \in S : <<i, j>> = <<l[2], l[1]>>
    BY <1>1, <1>3, <2>2
  <2>3. QED
    BY <1>1, <1>4, <2>1, <2>2
<1>5. QED
  BY <1>1, <1>2, <1>3, <1>4, NumAssumption DEF Connected, Node

\* A way out of a set of nodes leaves it by a link.
LEMMA WayOut ==
    ASSUME NEW G, NEW S, S \subseteq Node, NEW x \in S, NEW y \in Node \ S,
           NEW n \in Nat, y \in Within(G, x, n)
    PROVE  \E p \in S, k \in Node \ S : <<p, k>> \in G
<1>1. SUFFICES ASSUME \A p \in S, k \in Node \ S : <<p, k>> \notin G
               PROVE  FALSE
  OBVIOUS
<1> DEFINE T == {l \in 0 .. n : Within(G, x, l) \subseteq S}
<1>2. x \in Node
  OBVIOUS
<1>3. 0 \in T
  BY <1>2, WithinFacts
<1>4. ASSUME NEW l \in 0 .. n - 1, l \in T
      PROVE  l + 1 \in T
  <2>1. l \in Nat /\ l + 1 \in 0 .. n
    OBVIOUS
  <2>2. Within(G, x, l + 1) = Wider(G, Within(G, x, l))
    BY <1>2, <2>1, WithinFacts
  <2>3. QED
    BY <1>1, <1>4, <2>1, <2>2 DEF Wider
<1> HIDE DEF T
<1>5. n \in T
  BY <1>3, <1>4, InductionUpTo
<1>6. QED
  BY <1>5 DEF T

\* In a connected network there is a link to go on by.
LEMMA LinkLeft ==
    ASSUME NEW G \in Topologies, NEW S, S \subseteq Node, S # {}, S # Node
    PROVE  \E p \in S, k \in Node \ S : <<p, k>> \in G
<1>1. /\ \A i, j \in Node : <<i, j>> \in G => <<j, i>> \in G
      /\ 0 \in Node
      /\ \A y \in Node : \E n \in Nat : y \in Within(G, 0, n)
  <2>1. m_num - 1 \in Nat /\ Within(G, 0, m_num - 1) = Node
    BY TopologyFacts
  <2>2. \A y \in Node : \E n \in Nat : y \in Within(G, 0, n)
    BY <2>1
  <2>3. QED
    BY <2>2, TopologyFacts
<1>2. CASE 0 \in S
  <2>1. PICK y \in Node \ S : TRUE
    OBVIOUS
  <2>2. PICK n \in Nat : y \in Within(G, 0, n)
    BY <1>1, <2>1
  <2>3. QED
    BY <1>2, <2>1, <2>2, WayOut
<1>3. CASE 0 \notin S
  <2> DEFINE C == Node \ S
  <2>1. PICK y \in S : TRUE
    OBVIOUS
  <2>2. C \subseteq Node /\ 0 \in C /\ y \in Node \ C /\ S = Node \ C
    BY <1>1, <1>3
  <2> HIDE DEF C
  <2>3. PICK n \in Nat : y \in Within(G, 0, n)
    BY <1>1, <2>2
  <2>4. \E p \in C, k \in Node \ C : <<p, k>> \in G
    BY <2>2, <2>3, WayOut
  <2>5. QED
    BY <1>1, <2>2, <2>4
<1>4. QED
  BY <1>2, <1>3

\* While a node has no row, there is a first link.
LEMMA FirstExists ==
    ASSUME NEW G \in Topologies, NEW src \in Node, NEW dst, NEW c \in Nat, NEW t,
           TableInv(G, src, dst, c, t), Settled(t) # Node
    PROVE  \E i, k : First(G, t, i, k)
<1> DEFINE Link(i, k) == <<Last(t[i].path), k>> \in G
           New == Node \ Settled(t)
           R == {i \in 1 .. Len(t) : \E k \in New : Link(i, k)}
<1>1. /\ Settled(t) = {Last(t[i].path) : i \in 1 .. Len(t)}
      /\ Settled(t) \subseteq Node
      /\ src \in Settled(t)
      /\ Len(t) \in Nat
  BY TableFacts DEF TableShape
<1>2. R # {} /\ R \subseteq Nat
  <2>1. \E p \in Settled(t), k \in New : <<p, k>> \in G
    BY <1>1, LinkLeft
  <2>2. QED
    BY <1>1, <2>1
<1>3. PICK i \in R : \A j \in R : i <= j
  <2> HIDE DEF R
  <2>1. QED
    BY <1>2, LeastNatural
<1> DEFINE K == {k \in New : Link(i, k)}
<1>4. K # {} /\ K \subseteq Nat
  <2>1. K # {}
    BY <1>3
  <2>2. K \subseteq Nat
    BY NumAssumption DEF Node
  <2>3. QED
    BY <2>1, <2>2
<1>5. PICK k \in K : \A h \in K : k <= h
  <2> HIDE DEF K
  <2>1. QED
    BY <1>4, LeastNatural
<1>6. ASSUME NEW j \in 1 .. Len(t), NEW h \in New, Link(j, h)
      PROVE  i < j \/ (i = j /\ k <= h)
  <2>1. j \in R
    BY <1>6
  <2>2. i <= j /\ i \in Nat /\ j \in Nat
    <3> HIDE DEF R
    <3>1. QED
      BY <1>2, <1>3, <2>1
  <2>3. CASE i = j
    BY <1>5, <1>6, <2>3
  <2>4. CASE i # j
    BY <2>2, <2>4
  <2>5. QED
    BY <2>3, <2>4
<1>7. First(G, t, i, k)
  BY <1>3, <1>5, <1>6 DEF First
<1>8. QED
  BY <1>7

\* Two first links are the same.
LEMMA FirstUnique ==
    ASSUME NEW G, NEW t, Len(t) \in Nat, NEW i, NEW k, NEW j, NEW h,
           First(G, t, i, k), First(G, t, j, h)
    PROVE  i = j /\ k = h
<1>1. /\ i \in Nat /\ j \in Nat /\ k \in Nat /\ h \in Nat
  BY NumAssumption DEF First, Node
<1>2. (i < j \/ (i = j /\ k <= h)) /\ (j < i \/ (j = i /\ h <= k))
  BY DEF First
<1>3. QED
  BY <1>1, <1>2

\* What is as near as the row the first link goes on from has a row.
LEMMA AsNearSettled ==
    ASSUME NEW G, NEW src \in Node, NEW dst, NEW c \in Nat, NEW t,
           TableInv(G, src, dst, c, t), NEW i, NEW k, First(G, t, i, k)
    PROVE  Within(G, src, Len(t[i].path) - 1) \subseteq Settled(t)
<1> DEFINE l == Len(t[i].path)
           last == Len(t[Len(t)].path)
           W(n) == Within(G, src, n)
<1>1. /\ Len(t) \in Nat \ {0}
      /\ i \in 1 .. Len(t)
      /\ src \in Settled(t)
      /\ Settled(t) = {Last(t[j].path) : j \in 1 .. Len(t)}
      /\ \A j \in 1 .. Len(t) : /\ Len(t[j].path) \in Nat \ {0}
                                /\ Last(t[j].path) = t[j].path[Len(t[j].path)]
  <2>1. i \in 1 .. Len(t)
    BY DEF First
  <2>2. TableShape(src, c, t)
    BY TableFacts
  <2>3. QED
    BY <2>1, <2>2 DEF TableShape
<1>2. l \in Nat \ {0} /\ last \in Nat \ {0} /\ l <= last
  <2>1. CASE i = Len(t)
    BY <1>1, <2>1
  <2>2. CASE i < Len(t)
    BY <1>1, <2>2 DEF TableInv, Ordered
  <2>3. QED
    BY <1>1, <2>1, <2>2
<1>3. CASE l = 1
  <2>1. W(0) = {src}
    BY WithinFacts
  <2>2. QED
    BY <1>1, <1>3, <2>1
<1>4. CASE l > 1
  <2>1. W(l - 2) \subseteq Settled(t)
    <3>1. W(last - 2) \subseteq Settled(t)
      BY <1>2, <1>4 DEF TableInv, NearerSettled
    <3>2. l - 2 \in Nat /\ last - 2 \in Nat /\ l - 2 <= last - 2
      BY <1>2, <1>4
    <3>3. W(l - 2) \subseteq W(last - 2)
      BY <3>2, WithinGrows
    <3>4. QED
      BY <3>1, <3>3
  <2>2. W(l - 1) = Wider(G, W(l - 2))
    <3>1. l - 2 \in Nat /\ (l - 2) + 1 = l - 1
      BY <1>2, <1>4
    <3>2. Within(G, src, (l - 2) + 1) = Wider(G, Within(G, src, l - 2))
      BY <3>1, WithinFacts
    <3>3. QED
      BY <3>1, <3>2
  <2>3. ASSUME NEW x \in W(l - 1), x \notin Settled(t) PROVE FALSE
    <3>1. x \notin W(l - 2)
      BY <2>1, <2>3
    <3>2. PICK p \in W(l - 2) : <<p, x>> \in G /\ x \in Node
      BY <2>2, <2>3, <3>1 DEF Wider
    <3>3. PICK j \in 1 .. Len(t) : p = Last(t[j].path)
      BY <1>1, <2>1, <3>2
    <3>4. i <= j
      BY <2>3, <3>2, <3>3 DEF First
    <3> DEFINE m == Len(t[j].path)
    <3>5. m \in Nat \ {0} /\ l <= m
      <4>1. CASE i = j
        BY <1>1, <1>2, <4>1
      <4>2. CASE i < j
        BY <1>1, <4>2 DEF TableInv, Ordered
      <4>3. QED
        BY <1>1, <3>4, <4>1, <4>2
    <3>6. p \notin W(m - 2)
      <4>1. RowOK(G, src, c, t, j)
        BY DEF TableInv
      <4>2. QED
        BY <1>1, <1>4, <3>3, <3>5, <4>1 DEF RowOK, ShortestPath
    <3>7. W(l - 2) \subseteq W(m - 2)
      <4>1. l - 2 \in Nat /\ m - 2 \in Nat /\ l - 2 <= m - 2
        BY <1>2, <1>4, <3>5, SMTT(30)
      <4>2. QED
        BY <4>1, WithinGrows
    <3>8. QED
      BY <3>2, <3>6, <3>7
  <2>4. QED
    BY <2>3
<1>5. l = 1 \/ l > 1
  <2> HIDE DEF l, last
  <2>1. QED
    BY <1>2
<1>6. QED
  BY <1>3, <1>4, <1>5

\* Longer paths cost no less.
LEMMA CostsGrow ==
    ASSUME NEW c \in Nat, NEW l \in Nat, NEW m \in Nat, l <= m
    PROVE  c * l <= c * m
<1>1. m - l \in Nat /\ m = l + (m - l)
  OBVIOUS
<1>2. \A d \in Nat : c * d \in Nat /\ c * (l + d) = c * l + c * d
  OBVIOUS
<1>3. c * m = c * l + c * (m - l) /\ c * (m - l) \in Nat /\ c * l \in Nat
  BY <1>1, <1>2
<1>4. QED
  BY <1>3

-------------------------------------------------------------------------------
(***************************************************************************)
(* A round.                                                                *)
(***************************************************************************)
\* The entry of Candidates for row i and node k, when links cost c.
Candidate(t, c, i, k) ==
    [row |-> i, node |-> k, link |-> <<Last(t[i].path), k>>, cost |-> t[i].cost + c]

LEMMA CandidatesAre ==
    ASSUME NEW G, NEW e, NEW src \in Node, NEW dst,
           NEW c \in Nat, c = Delay(e, src, 1),
           NEW t, TableInv(G, src, dst, c, t)
    PROVE  /\ \A b \in Candidates(m_num, G, e, src, t) :
                 /\ b.row \in 1 .. Len(t) /\ b.node \in Node \ Settled(t)
                 /\ <<Last(t[b.row].path), b.node>> \in G
                 /\ b = Candidate(t, c, b.row, b.node)
           /\ \A i \in 1 .. Len(t), k \in Node \ Settled(t) :
                 (<<Last(t[i].path), k>> \in G /\ t[i].cost + c < MaxCost)
                   => Candidate(t, c, i, k) \in Candidates(m_num, G, e, src, t)
<1>1. DOMAIN t = 1 .. Len(t)
  <2> DEFINE R == [path: Seq(Node), cost: Nat]
  <2>1. t \in Seq(R)
    BY DEF TableInv, IsTable
  <2> HIDE DEF R
  <2>2. QED
    BY <2>1
<1> DEFINE New == Node \ Settled(t)
           All == {Candidate(t, c, i, k) : i \in 1 .. Len(t), k \in New}
<1>2. Candidates(m_num, G, e, src, t) = {b \in All : b.link \in G /\ b.cost < MaxCost}
  BY <1>1 DEF Candidates, LinkCost, Candidate, Node
<1>3. \A i, k : /\ Candidate(t, c, i, k).row = i /\ Candidate(t, c, i, k).node = k
                /\ Candidate(t, c, i, k).link = <<Last(t[i].path), k>>
                /\ Candidate(t, c, i, k).cost = t[i].cost + c
  BY DEF Candidate
<1>4. ASSUME NEW b \in Candidates(m_num, G, e, src, t)
      PROVE  /\ b.row \in 1 .. Len(t) /\ b.node \in New
             /\ <<Last(t[b.row].path), b.node>> \in G
             /\ b = Candidate(t, c, b.row, b.node)
  <2>1. b \in All /\ b.link \in G
    BY <1>2
  <2>2. PICK i \in 1 .. Len(t), k \in New : b = Candidate(t, c, i, k)
    BY <2>1
  <2>3. QED
    BY <1>3, <2>1, <2>2
<1>5. ASSUME NEW i \in 1 .. Len(t), NEW k \in New,
             <<Last(t[i].path), k>> \in G, t[i].cost + c < MaxCost
      PROVE  Candidate(t, c, i, k) \in Candidates(m_num, G, e, src, t)
  <2>1. Candidate(t, c, i, k) \in All
    OBVIOUS
  <2> HIDE DEF All
  <2>2. QED
    BY <1>2, <1>3, <1>5, <2>1
<1>6. QED
  BY <1>4, <1>5

(***************************************************************************)
(* The scan of the table takes the first link, and the path costs c for    *)
(* each of its links.                                                      *)
(***************************************************************************)
LEMMA NextRowIsFirst ==
    ASSUME NEW G, NEW e, NEW src \in Node, NEW dst,
           NEW c \in Nat, c = Delay(e, src, 1), c * (m_num - 1) < MaxCost,
           NEW t, TableInv(G, src, dst, c, t),
           NEW i, NEW k, First(G, t, i, k)
    PROVE  NextRow(m_num, G, e, src, t)
             = Row(Append(t[i].path, k), c * Len(t[i].path))
<1> DEFINE C == Candidates(m_num, G, e, src, t)
           l(j) == Len(t[j].path)
           a == Candidate(t, c, i, k)
<1>1. /\ m_num \in Nat \ {0}
      /\ i \in 1 .. Len(t) /\ k \in Node \ Settled(t) /\ <<Last(t[i].path), k>> \in G
      /\ Len(t) \in Nat
      /\ \A j \in 1 .. Len(t) : l(j) \in Nat \ {0} /\ t[j].cost = c * (l(j) - 1)
  <2>1. TableShape(src, c, t)
    BY TableFacts
  <2>2. QED
    BY <2>1, NumAssumption DEF TableShape, First
<1>2. ASSUME NEW j \in 1 .. Len(t)
      PROVE  t[j].cost + c = c * l(j) /\ c * l(j) \in Nat
  <2>1. \A n \in Nat \ {0} : c * (n - 1) + c = c * n /\ c * n \in Nat
    OBVIOUS
  <2>2. QED
    BY <1>1, <2>1
<1>3. /\ \A b \in C : /\ b.row \in 1 .. Len(t) /\ b.node \in Node \ Settled(t)
                      /\ <<Last(t[b.row].path), b.node>> \in G
                      /\ b = Candidate(t, c, b.row, b.node)
      /\ \A j \in 1 .. Len(t), h \in Node \ Settled(t) :
            (<<Last(t[j].path), h>> \in G /\ t[j].cost + c < MaxCost)
              => Candidate(t, c, j, h) \in C
  BY CandidatesAre
<1>4. a.row = i /\ a.node = k /\ a.cost = c * l(i)
  BY <1>1, <1>2 DEF Candidate
<1>5. a \in C
  <2>1. Settled(t) # Node
    BY <1>1
  <2>2. l(i) <= m_num - 1
    BY <1>1, <2>1, RowsAreFew
  <2>3. c * l(i) <= c * (m_num - 1) /\ c * (m_num - 1) \in Nat
    <3>1. m_num - 1 \in Nat /\ l(i) \in Nat
      BY <1>1
    <3>2. QED
      BY <2>2, <3>1, CostsGrow
  <2>4. t[i].cost + c < MaxCost
    BY <1>1, <1>2, <2>3, SMTT(30) DEF MaxCost
  <2> HIDE DEF C
  <2>5. QED
    BY <1>1, <1>3, <2>4
<1> HIDE DEF C
<1>6. ASSUME NEW b \in C
      PROVE  /\ b.row \in Nat /\ b.node \in Nat /\ b.cost \in Nat
             /\ i < b.row \/ (i = b.row /\ k <= b.node)
             /\ a.cost <= b.cost
             /\ b.row = i /\ b.node = k => b = a
  <2>1. b.row \in 1 .. Len(t) /\ b.node \in Node \ Settled(t)
        /\ <<Last(t[b.row].path), b.node>> \in G
        /\ b = Candidate(t, c, b.row, b.node)
    BY <1>3
  <2>2. b.row \in Nat /\ b.node \in Nat
    BY <1>1, <2>1 DEF Node
  <2>3. i < b.row \/ (i = b.row /\ k <= b.node)
    BY <2>1 DEF First
  <2>4. b.cost = c * l(b.row) /\ b.cost \in Nat
    <3>1. b.cost = t[b.row].cost + c
      BY <2>1 DEF Candidate
    <3>2. QED
      BY <1>2, <2>1, <3>1
  <2>5. l(i) <= l(b.row)
    <3>1. CASE i = b.row
      BY <1>1, <3>1
    <3>2. CASE i < b.row
      BY <1>1, <2>1, <3>2 DEF TableInv, Ordered
    <3>3. QED
      BY <2>3, <3>1, <3>2
  <2>6. c * l(i) <= c * l(b.row)
    <3>1. l(i) \in Nat /\ l(b.row) \in Nat
      BY <1>1, <2>1
    <3>2. QED
      BY <2>5, <3>1, CostsGrow
  <2>7. b.row = i /\ b.node = k => b = a
    BY <2>1
  <2>8. QED
    BY <1>4, <2>2, <2>3, <2>4, <2>6, <2>7
<1> HIDE DEF a
<1>7. \A b \in C \ {a} : Preferred(a, b)
  <2>1. SUFFICES ASSUME NEW b \in C, b # a PROVE Preferred(a, b)
    OBVIOUS
  <2>2. a.cost \in Nat /\ i \in Nat /\ k \in Nat
    BY <1>4, <1>5, <1>6
  <2>3. QED
    BY <1>4, <1>6, <2>1, <2>2 DEF Preferred, Earlier
<1>8. ASSUME NEW b \in C, \A x \in C \ {b} : Preferred(b, x)
      PROVE  b = a
  <2>1. SUFFICES ASSUME b # a PROVE FALSE
    OBVIOUS
  <2>2. Preferred(a, b) /\ Preferred(b, a)
    BY <1>5, <1>7, <1>8, <2>1
  <2>3. /\ a.row \in Nat /\ a.node \in Nat /\ a.cost \in Nat
        /\ b.row \in Nat /\ b.node \in Nat /\ b.cost \in Nat
    BY <1>5, <1>6
  <2>4. QED
    BY <2>2, <2>3 DEF Preferred, Earlier
<1> DEFINE best == CHOOSE b \in C : \A x \in C \ {b} : Preferred(b, x)
<1>9. best = a
  <2>1. \E b \in C : \A x \in C \ {b} : Preferred(b, x)
    BY <1>5, <1>7
  <2>2. best \in C /\ \A x \in C \ {best} : Preferred(best, x)
    BY <2>1, Zenon
  <2> HIDE DEF best
  <2>3. QED
    BY <1>8, <2>2
<1>10. NextRow(m_num, G, e, src, t) = Row(Append(t[best.row].path, best.node), best.cost)
  BY Zenon DEF NextRow, C
<1> HIDE DEF best
<1>11. QED
  BY <1>4, <1>9, <1>10

(***************************************************************************)
(* The row for src.                                                        *)
(***************************************************************************)
LEMMA InitialTable ==
    ASSUME NEW G, NEW src \in Node, NEW dst, NEW c \in Nat
    PROVE  TableInv(G, src, dst, c, <<Row(<<src>>, 0)>>)
<1> DEFINE p == <<src>>
           r == Row(p, 0)
           t == <<r>>
<1>1. p \in Seq(Node) /\ Len(p) = 1 /\ p[1] = src /\ Last(p) = src
  BY DEF Last
<1>2. r.path = p /\ r.cost = 0 /\ r \in [path: Seq(Node), cost: Nat]
  BY <1>1 DEF Row
<1> HIDE DEF p, r
<1>3. /\ t \in Seq([path: Seq(Node), cost: Nat])
      /\ Len(t) = 1 /\ DOMAIN t = 1 .. 1 /\ t[1] = r
  BY <1>2
<1> HIDE DEF t
<1>4. Settled(t) = {src}
  BY <1>1, <1>2, <1>3 DEF Settled
<1>5. ShortestPath(G, src, p)
  <2>1. Within(G, src, 0) = {src}
    BY WithinFacts
  <2>2. QED
    BY <1>1, <2>1 DEF ShortestPath
<1>6. c * (Len(p) - 1) = 0
  BY <1>1
<1>7. RowOK(G, src, c, t, 1)
  <2>1. t[1].path = p /\ t[1].cost = c * (Len(p) - 1)
    BY <1>2, <1>3, <1>6
  <2>2. \A k \in 1 .. Len(p) : p[k] \in Settled(t)
    BY <1>1, <1>4
  <2>3. QED
    BY <1>5, <2>1, <2>2 DEF RowOK
<1>8. TableInv(G, src, dst, c, t)
  <2>1. IsTable(t) /\ Len(t) = 1
    BY <1>3 DEF IsTable
  <2>2. t[1].path = p
    BY <1>2, <1>3
  <2>3. \A i \in 1 .. Len(t) : i = 1
    BY <1>3
  <2>4. Ordered(t) /\ EndsDiffer(t)
    BY <1>1, <2>2, <2>3 DEF Ordered, EndsDiffer
  <2>5. NearerSettled(G, src, t)
    <3>1. Len(t[Len(t)].path) = 1 /\ ~ (1 > 1)
      BY <1>1, <2>1, <2>2
    <3>2. QED
      BY <3>1, Zenon DEF NearerSettled
  <2>6. dst \in Settled(t) => Last(t[Len(t)].path) = dst
    BY <1>1, <1>4, <2>1, <2>2
  <2>7. \A i \in 1 .. Len(t) : RowOK(G, src, c, t, i)
    BY <1>7, <2>3
  <2>8. QED
    BY <2>1, <2>4, <2>5, <2>6, <2>7 DEF TableInv
<1>9. QED
  BY <1>8 DEF t, r, p

(***************************************************************************)
(* The row for the first link.                                             *)
(***************************************************************************)
LEMMA TableGrows ==
    ASSUME NEW G, NEW src \in Node, NEW dst, NEW c \in Nat,
           NEW t, TableInv(G, src, dst, c, t), dst \notin Settled(t),
           NEW i, NEW k, First(G, t, i, k)
    PROVE  TableInv(G, src, dst, c,
                    Append(t, Row(Append(t[i].path, k), c * Len(t[i].path))))
<1> DEFINE n == Len(t)
           p == t[i].path
           l == Len(p)
           q == Append(p, k)
           r == Row(q, c * l)
           u == Append(t, r)
           W(m) == Within(G, src, m)
<1>1. /\ n \in Nat \ {0}
      /\ i \in 1 .. n /\ k \in Node /\ k \notin Settled(t) /\ <<Last(p), k>> \in G
      /\ Settled(t) = {Last(t[j].path) : j \in 1 .. n}
      /\ \A j \in 1 .. n : /\ Len(t[j].path) \in Nat \ {0}
                           /\ Last(t[j].path) \in Settled(t)
  <2>1. TableShape(src, c, t)
    BY TableFacts
  <2>2. QED
    BY <2>1 DEF TableShape, First
<1>2. /\ RowOK(G, src, c, t, i) /\ p \in Seq(Node) /\ l \in Nat \ {0}
      /\ Last(p) = p[l] /\ \A m \in 1 .. l : p[m] \in Settled(t)
  BY <1>1 DEF TableInv, RowOK, ShortestPath, Last
<1> HIDE DEF p
<1>3. /\ q \in Seq(Node) /\ Len(q) = l + 1 /\ Last(q) = k /\ q[l + 1] = k
      /\ \A m \in 1 .. l : q[m] = p[m]
  BY <1>1, <1>2 DEF Last
<1>4. r.path = q /\ r.cost = c * l /\ r \in [path: Seq(Node), cost: Nat]
  <2>1. c * l \in Nat
    BY <1>2
  <2> HIDE DEF q, l
  <2>2. QED
    BY <1>3, <2>1 DEF Row
<1> HIDE DEF q, r
<1>5. /\ u \in Seq([path: Seq(Node), cost: Nat]) /\ Len(u) = n + 1 /\ DOMAIN u = 1 .. n + 1
      /\ u[n + 1] = r /\ \A j \in 1 .. n : u[j] = t[j]
  <2> DEFINE R == [path: Seq(Node), cost: Nat]
  <2>1. t \in Seq(R) /\ r \in R
    BY <1>4 DEF TableInv, IsTable
  <2> HIDE DEF R
  <2>2. /\ u \in Seq(R) /\ Len(u) = n + 1 /\ DOMAIN u = 1 .. n + 1
        /\ u[n + 1] = r /\ \A j \in 1 .. n : u[j] = t[j]
    BY <2>1
  <2>3. QED
    BY <2>2 DEF R
<1> HIDE DEF u
<1>6. Settled(u) = Settled(t) \cup {k}
  <2>1. Settled(u) = {Last(u[j].path) : j \in 1 .. n + 1}
    BY <1>5 DEF Settled
  <2>2. \A j \in 1 .. n : Last(u[j].path) = Last(t[j].path)
    BY <1>5
  <2>3. Last(u[n + 1].path) = k
    BY <1>3, <1>4, <1>5
  <2>4. \A j : j \in 1 .. n + 1 <=> j \in 1 .. n \/ j = n + 1
    BY <1>1
  <2>5. QED
    BY <1>1, <2>1, <2>2, <2>3, <2>4
<1>7. W(l - 1) \subseteq Settled(t)
  BY AsNearSettled DEF p
<1>8. k \in W(l)
  <2>1. p[l] \in W(l - 1)
    BY <1>2 DEF RowOK, ShortestPath, p
  <2>2. W(l) = Wider(G, W(l - 1))
    <3>1. l - 1 \in Nat /\ (l - 1) + 1 = l
      BY <1>2
    <3>2. Within(G, src, (l - 1) + 1) = Wider(G, Within(G, src, l - 1))
      BY <3>1, WithinFacts
    <3>3. QED
      BY <3>1, <3>2
  <2>3. QED
    BY <1>1, <1>2, <2>1, <2>2 DEF Wider
<1>9. ShortestPath(G, src, q)
  <2>1. ShortestPath(G, src, p)
    BY <1>2 DEF RowOK, p
  <2>2. q[1] = src
    BY <1>2, <1>3, <2>1 DEF ShortestPath
  <2>3. ASSUME NEW m \in 1 .. Len(q) - 1 PROVE <<q[m], q[m + 1]>> \in G
    <3>1. CASE m = l
      <4>1. l \in 1 .. l
        BY <1>2
      <4>2. q[m] = Last(p) /\ q[m + 1] = k
        BY <1>2, <1>3, <3>1, <4>1
      <4>3. QED
        BY <1>1, <4>2
    <3>2. CASE m \in 1 .. l - 1
      <4>1. q[m] = p[m] /\ q[m + 1] = p[m + 1]
        BY <1>2, <1>3, <3>2
      <4>2. QED
        BY <2>1, <3>2, <4>1 DEF ShortestPath
    <3>3. QED
      BY <1>2, <1>3, <3>1, <3>2
  <2>4. ASSUME NEW m \in 1 .. Len(q), NEW h \in 1 .. Len(q), q[m] = q[h]
        PROVE  m = h
    <3>1. (m \in 1 .. l \/ m = l + 1) /\ (h \in 1 .. l \/ h = l + 1)
      BY <1>2, <1>3
    <3>2. CASE m \in 1 .. l /\ h \in 1 .. l
      BY <1>3, <2>1, <2>4, <3>2 DEF ShortestPath
    <3>3. CASE m \in 1 .. l /\ h = l + 1
      BY <1>1, <1>2, <1>3, <2>4, <3>3
    <3>4. CASE m = l + 1 /\ h \in 1 .. l
      BY <1>1, <1>2, <1>3, <2>4, <3>4
    <3>5. QED
      BY <3>1, <3>2, <3>3, <3>4
  <2>5. q[Len(q)] \in Within(G, src, Len(q) - 1)
    BY <1>2, <1>3, <1>8
  <2>6. q[Len(q)] \notin Within(G, src, Len(q) - 2)
    <3>1. Len(q) - 2 = l - 1
      BY <1>2, <1>3
    <3>2. QED
      BY <1>1, <1>3, <1>7, <3>1
  <2>7. QED
    BY <1>2, <1>3, <2>2, <2>3, <2>4, <2>5, <2>6 DEF ShortestPath
<1>10. ASSUME NEW j \in 1 .. n + 1 PROVE RowOK(G, src, c, u, j)
  <2>1. CASE j \in 1 .. n
    <3>1. RowOK(G, src, c, t, j) /\ u[j] = t[j]
      BY <1>5, <2>1 DEF TableInv
    <3>2. QED
      BY <1>6, <3>1 DEF RowOK
  <2>2. CASE j = n + 1
    <3>1. u[j].path = q /\ u[j].cost = c * (Len(q) - 1)
      BY <1>2, <1>3, <1>4, <1>5, <2>2
    <3>2. ASSUME NEW m \in 1 .. Len(q) PROVE q[m] \in Settled(u)
      <4>1. m \in 1 .. l \/ m = l + 1
        BY <1>2, <1>3
      <4>2. QED
        BY <1>2, <1>3, <1>6, <4>1
    <3>3. QED
      BY <1>9, <3>1, <3>2 DEF RowOK
  <2>3. QED
    BY <1>1, <2>1, <2>2
<1>11. ASSUME NEW j \in 1 .. n PROVE Len(t[j].path) <= l + 1
  <2> DEFINE last == Len(t[n].path)
             m == Len(t[j].path)
  <2>1. last \in Nat \ {0} /\ m \in Nat \ {0} /\ j <= n /\ j \in Nat /\ n \in 1 .. n
    <3>1. n \in 1 .. n
      BY <1>1
    <3>2. j <= n /\ j \in Nat
      BY <1>1
    <3> HIDE DEF n
    <3>3. QED
      BY <1>1, <3>1, <3>2
  <2>2. m <= last
    <3>1. CASE j = n
      BY <2>1, <3>1
    <3>2. CASE j < n
      <4>1. Ordered(t)
        BY DEF TableInv
      <4>2. QED
        BY <2>1, <3>2, <4>1 DEF Ordered
    <3>3. QED
      BY <1>1, <2>1, <3>1, <3>2
  <2>3. ASSUME last > l + 1 PROVE FALSE
    <3>1. l \in Nat /\ last - 2 \in Nat /\ l <= last - 2 /\ last > 1
      BY <1>2, <2>1, <2>3
    <3>2. W(l) \subseteq W(last - 2)
      BY <3>1, WithinGrows
    <3>3. W(last - 2) \subseteq Settled(t)
      BY <3>1 DEF TableInv, NearerSettled
    <3>4. QED
      BY <1>1, <1>8, <3>2, <3>3
  <2> HIDE DEF last, m
  <2>4. m <= l + 1
    BY <1>2, <2>1, <2>2, <2>3
  <2>5. QED
    BY <2>4 DEF m
<1>12. Ordered(u)
  <2>1. SUFFICES ASSUME NEW g \in 1 .. n + 1, NEW j \in 1 .. n + 1, g < j
                 PROVE  Len(u[g].path) <= Len(u[j].path)
    BY <1>5 DEF Ordered
  <2>2. g \in 1 .. n /\ (j \in 1 .. n \/ j = n + 1)
    <3>1. n \in Nat
      BY <1>1
    <3> HIDE DEF n
    <3>2. QED
      BY <2>1, <3>1
  <2>3. CASE j \in 1 .. n
    BY <1>5, <2>1, <2>2, <2>3 DEF TableInv, Ordered
  <2>4. CASE j = n + 1
    BY <1>3, <1>4, <1>5, <1>11, <2>2, <2>4
  <2>5. QED
    BY <2>2, <2>3, <2>4
<1>13. EndsDiffer(u)
  <2>1. SUFFICES ASSUME NEW g \in 1 .. n + 1, NEW j \in 1 .. n + 1,
                        Last(u[g].path) = Last(u[j].path)
                 PROVE  g = j
    BY <1>5 DEF EndsDiffer
  <2>2. (g \in 1 .. n \/ g = n + 1) /\ (j \in 1 .. n \/ j = n + 1)
    BY <1>1
  <2>3. \A m \in 1 .. n : Last(u[m].path) = Last(t[m].path) /\ Last(t[m].path) # k
    BY <1>1, <1>5
  <2>4. Last(u[n + 1].path) = k
    BY <1>3, <1>4, <1>5
  <2>5. CASE g \in 1 .. n /\ j \in 1 .. n
    BY <2>1, <2>3, <2>5 DEF TableInv, EndsDiffer
  <2>6. QED
    BY <2>1, <2>2, <2>3, <2>4, <2>5
<1>14. NearerSettled(G, src, u)
  <2>1. Len(u[Len(u)].path) = l + 1 /\ (l + 1) - 2 = l - 1
    BY <1>2, <1>3, <1>4, <1>5
  <2>2. QED
    BY <1>6, <1>7, <2>1 DEF NearerSettled
<1>15. dst \in Settled(u) => Last(u[Len(u)].path) = dst
  BY <1>3, <1>4, <1>5, <1>6
<1>16. IsTable(u)
  BY <1>1, <1>5 DEF IsTable
<1>17. TableInv(G, src, dst, c, u)
  BY <1>5, <1>10, <1>12, <1>13, <1>14, <1>15, <1>16 DEF TableInv
<1>18. QED
  BY <1>17 DEF u, r, q, p

-------------------------------------------------------------------------------
(***************************************************************************)
(* All rounds.                                                             *)
(***************************************************************************)
Round(G, e, src, dst, t) ==
    IF Last(t).path[Len(Last(t).path)] = dst THEN t
    ELSE Append(t, NextRow(m_num, G, e, src, t))

\* The tables that CalculatePath takes the last one of.
Tables(G, e, src, dst) ==
    LET table[n \in 0 .. m_num - 1] ==
            IF n = 0 THEN <<Row(<<src>>, 0)>>
            ELSE LET t == table[n - 1] IN
                 IF Last(t).path[Len(Last(t).path)] = dst THEN t
                 ELSE Append(t, NextRow(m_num, G, e, src, t))
    IN  table

\* The table gets the row for the first link.
Extended(G, c, t, u) ==
    \E i, k : /\ First(G, t, i, k)
              /\ u = Append(t, Row(Append(t[i].path, k), c * Len(t[i].path)))

\* What a link costs, when paths can be paid.
IsCost(e, src, c) ==
    c \in Nat /\ c = Delay(e, src, 1) /\ c * (m_num - 1) < MaxCost

LEMMA RoundKeeps ==
    ASSUME NEW G \in Topologies, NEW e, NEW src \in Node, NEW dst \in Node,
           NEW c, IsCost(e, src, c),
           NEW t, TableInv(G, src, dst, c, t)
    PROVE  /\ TableInv(G, src, dst, c, Round(G, e, src, dst, t))
           /\ dst \in Settled(t) => Round(G, e, src, dst, t) = t
           /\ dst \notin Settled(t) => Extended(G, c, t, Round(G, e, src, dst, t))
<1>1. c \in Nat /\ c = Delay(e, src, 1) /\ c * (m_num - 1) < MaxCost
  BY DEF IsCost
<1>2. /\ Last(t) = t[Len(t)]
      /\ Last(t).path[Len(Last(t).path)] = Last(t[Len(t)].path)
  BY DEF Last
<1>3. Last(t[Len(t)].path) \in Settled(t)
  <2>1. TableShape(src, c, t)
    BY <1>1, TableFacts
  <2>2. Len(t) \in 1 .. Len(t)
    BY <2>1 DEF TableShape
  <2>3. QED
    BY <2>1, <2>2, Zenon DEF TableShape
<1>4. CASE dst \in Settled(t)
  <2>1. Last(t[Len(t)].path) = dst
    BY <1>4 DEF TableInv
  <2>2. Round(G, e, src, dst, t) = t
    BY <1>2, <2>1 DEF Round
  <2>3. QED
    BY <1>4, <2>2
<1>5. CASE dst \notin Settled(t)
  <2>1. Settled(t) # Node
    BY <1>5
  <2>2. PICK i, k : First(G, t, i, k)
    BY <1>1, <2>1, FirstExists
  <2>3. NextRow(m_num, G, e, src, t) = Row(Append(t[i].path, k), c * Len(t[i].path))
    BY <1>1, <2>2, NextRowIsFirst
  <2>4. Round(G, e, src, dst, t)
          = Append(t, Row(Append(t[i].path, k), c * Len(t[i].path)))
    BY <1>2, <1>3, <1>5, <2>3, Zenon DEF Round
  <2>5. TableInv(G, src, dst, c,
                 Append(t, Row(Append(t[i].path, k), c * Len(t[i].path))))
    BY <1>1, <1>5, <2>2, TableGrows
  <2>6. Extended(G, c, t, Round(G, e, src, dst, t))
    BY <2>2, <2>4, Zenon DEF Extended
  <2>7. QED
    BY <1>5, <2>4, <2>5, <2>6, Zenon
<1>6. QED
  BY <1>4, <1>5

AreTables(G, e, src, dst, c, T) ==
    /\ T[0] = <<Row(<<src>>, 0)>>
    /\ \A n \in 1 .. m_num - 1 : T[n] = Round(G, e, src, dst, T[n - 1])
    /\ \A n \in 0 .. m_num - 1 : TableInv(G, src, dst, c, T[n])

LEMMA TablesDefined ==
    ASSUME NEW G \in Topologies, NEW e, NEW src \in Node, NEW dst \in Node,
           NEW c, IsCost(e, src, c)
    PROVE  AreTables(G, e, src, dst, c, Tables(G, e, src, dst))
<1> DEFINE k == m_num - 1
           S == {t \in Seq([path: Seq(Node), cost: Nat]) : TableInv(G, src, dst, c, t)}
           x == <<Row(<<src>>, 0)>>
           F == [n \in 1 .. k |-> [t \in S |-> Round(G, e, src, dst, t)]]
           T == Tables(G, e, src, dst)
<1>1. /\ x \in S
      /\ \A t \in S : Round(G, e, src, dst, t) \in S
      /\ \A t \in S : TableInv(G, src, dst, c, t)
  <2>1. \A t : TableInv(G, src, dst, c, t) => t \in S
    BY DEF TableInv, IsTable
  <2>2. \A t \in S : TableInv(G, src, dst, c, t)
    OBVIOUS
  <2> HIDE DEF S
  <2>3. TableInv(G, src, dst, c, x)
    BY InitialTable DEF IsCost
  <2> HIDE DEF x
  <2>4. \A t \in S : TableInv(G, src, dst, c, Round(G, e, src, dst, t))
    BY <2>2, RoundKeeps
  <2>5. QED
    BY <2>1, <2>2, <2>3, <2>4
<1>2. k \in Nat
  BY NumAssumption
<1> HIDE DEF S, x, k
<1>3. F \in [1 .. k -> [S -> S]]
  BY <1>1
<1>4. PICK f : Iterates(f, k, S, x, F)
  <2> HIDE DEF F
  <2>1. QED
    BY <1>1, <1>2, <1>3, Iterated
<1>5. f[0] = x /\ \A n \in 0 .. k : f[n] \in S
  BY <1>2, <1>4 DEF Iterates
<1>6. ASSUME NEW n \in 1 .. k
      PROVE  f[n] = Round(G, e, src, dst, f[n - 1])
  <2>1. n - 1 \in 0 .. k
    BY <1>2
  <2>2. f[n - 1] \in S
    BY <1>5, <2>1
  <2>3. F[n] = [t \in S |-> Round(G, e, src, dst, t)]
    OBVIOUS
  <2> HIDE DEF F
  <2>4. f[n] = F[n][f[n - 1]]
    BY <1>4, Zenon DEF Iterates
  <2>5. QED
    BY <2>2, <2>3, <2>4
<1>7. f = [n \in 0 .. k |-> IF n = 0 THEN x ELSE Round(G, e, src, dst, f[n - 1])]
  <2>1. f = [n \in 0 .. k |-> f[n]]
    BY <1>4 DEF Iterates
  <2>2. ASSUME NEW n \in 0 .. k
        PROVE  f[n] = IF n = 0 THEN x ELSE Round(G, e, src, dst, f[n - 1])
    <3>1. n = 0 \/ n \in 1 .. k
      BY <1>2
    <3> HIDE DEF F
    <3>2. CASE n = 0
      BY <1>5, <3>2
    <3>3. CASE n # 0
      BY <1>6, <3>1, <3>3
    <3>4. QED
      BY <3>2, <3>3
  <2> HIDE DEF F
  <2>3. QED
    BY <2>1, <2>2
<1>8. T = [n \in 0 .. k |-> IF n = 0 THEN x ELSE Round(G, e, src, dst, T[n - 1])]
  BY <1>7, Zenon DEF Tables, Round, x, k
<1> HIDE DEF T, F
<1>9. T[0] = x /\ \A n \in 1 .. k : T[n] = Round(G, e, src, dst, T[n - 1])
  <2>1. T[0] = x
    BY <1>2, <1>8
  <2>2. ASSUME NEW n \in 1 .. k PROVE T[n] = Round(G, e, src, dst, T[n - 1])
    <3>1. n \in 0 .. k /\ n # 0
      BY <1>2
    <3>2. QED
      BY <1>8, <3>1
  <2>3. QED
    BY <2>1, <2>2
<1>10. \A n \in 0 .. k : T[n] \in S
  <2> DEFINE U == {n \in 0 .. k : T[n] \in S}
  <2>1. 0 \in U
    BY <1>1, <1>2, <1>9
  <2>2. ASSUME NEW n \in 0 .. k - 1, n \in U
        PROVE  n + 1 \in U
    <3>1. n + 1 \in 1 .. k /\ (n + 1) - 1 = n /\ n + 1 \in 0 .. k
      BY <1>2
    <3>2. T[n + 1] = Round(G, e, src, dst, T[n])
      BY <1>9, <3>1
    <3>3. QED
      BY <1>1, <2>2, <3>1, <3>2
  <2> HIDE DEF U
  <2>3. \A n \in 0 .. k : n \in U
    BY <1>2, <2>1, <2>2, InductionUpTo
  <2>4. QED
    BY <2>3 DEF U
<1>11. QED
  BY <1>1, <1>9, <1>10, Zenon DEF AreTables, T, x, k

\* A row added.
LEMMA AppendFacts ==
    ASSUME NEW R, NEW t \in Seq(R), NEW r
    PROVE  /\ Len(Append(t, r)) = Len(t) + 1
           /\ Append(t, r)[Len(t) + 1] = r
           /\ \A m \in 1 .. Len(t) : Append(t, r)[m] = t[m]
  OBVIOUS

\* A round adds a row until there is one for dst, and there is one for dst
\* when there is one for every node.
LEMMA TableEnds ==
    ASSUME NEW G \in Topologies, NEW e, NEW src \in Node, NEW dst \in Node,
           NEW c, IsCost(e, src, c), NEW T, AreTables(G, e, src, dst, c, T)
    PROVE  dst \in Settled(T[m_num - 1])
<1> DEFINE k == m_num - 1
           U == {n \in 0 .. k : dst \in Settled(T[n]) \/ Len(T[n]) = n + 1}
<1>1. /\ k \in Nat /\ c \in Nat
      /\ T[0] = <<Row(<<src>>, 0)>>
      /\ \A n \in 1 .. k : T[n] = Round(G, e, src, dst, T[n - 1])
      /\ \A n \in 0 .. k : TableInv(G, src, dst, c, T[n])
  BY NumAssumption DEF AreTables, IsCost
<1> HIDE DEF k
<1>2. 0 \in U
  <2>1. Len(T[0]) = 1
    BY <1>1
  <2>2. QED
    BY <1>1, <2>1
<1>3. ASSUME NEW n \in 0 .. k - 1, n \in U
      PROVE  n + 1 \in U
  <2>1. n + 1 \in 1 .. k /\ (n + 1) - 1 = n /\ n + 1 \in 0 .. k /\ n \in 0 .. k
        /\ (n + 1) + 1 = n + 2 /\ n \in Nat
    BY <1>1
  <2>2. T[n + 1] = Round(G, e, src, dst, T[n]) /\ TableInv(G, src, dst, c, T[n])
    BY <1>1, <2>1
  <2>3. CASE dst \in Settled(T[n])
    <3>1. T[n + 1] = T[n]
      BY <2>2, <2>3, RoundKeeps
    <3>2. QED
      BY <2>1, <2>3, <3>1
  <2>4. CASE dst \notin Settled(T[n])
    <3>1. Extended(G, c, T[n], T[n + 1])
      BY <2>2, <2>4, RoundKeeps
    <3>2. PICK r : T[n + 1] = Append(T[n], r)
      BY <3>1, Zenon DEF Extended
    <3>3. Len(T[n]) = n + 1
      BY <1>3, <2>4
    <3>4. \E R : T[n] \in Seq(R)
      BY <2>2 DEF TableInv, IsTable
    <3>5. Len(T[n + 1]) = (n + 1) + 1
      BY <3>2, <3>3, <3>4, AppendFacts
    <3>6. QED
      BY <2>1, <3>5
  <2>5. QED
    BY <2>3, <2>4
<1> HIDE DEF U
<1>4. k \in U
  <2>1. \A n \in 0 .. k : n \in U
    BY <1>1, <1>2, <1>3, InductionUpTo
  <2>2. QED
    BY <1>1, <2>1
<1>5. SUFFICES ASSUME dst \notin Settled(T[k]) PROVE FALSE
  BY DEF k
<1>6. Len(T[k]) = k + 1 /\ k \in 0 .. k
  BY <1>1, <1>4, <1>5 DEF U
<1>7. Len(T[k]) <= m_num - 1
  <2>1. Settled(T[k]) # Node
    BY <1>5
  <2>2. TableInv(G, src, dst, c, T[k])
    BY <1>1, <1>6
  <2>3. QED
    BY <1>1, <2>1, <2>2, RowsAreFew
<1>8. QED
  BY <1>1, <1>6, <1>7 DEF k

(***************************************************************************)
(* CalculatePath returns a shortest path from src to dst.                  *)
(***************************************************************************)
LEMMA PathFound ==
    ASSUME NEW G \in Topologies, NEW e, NEW src \in Node, NEW dst \in Node,
           NEW c, IsCost(e, src, c)
    PROVE  /\ ShortestPath(G, src, CalculatePath(m_num, G, e, src, dst))
           /\ Last(CalculatePath(m_num, G, e, src, dst)) = dst
<1> DEFINE T == Tables(G, e, src, dst)
           t == T[m_num - 1]
           n == Len(t)
<1>1. CalculatePath(m_num, G, e, src, dst) = t[n].path
  BY Zenon DEF CalculatePath, Tables, Last
<1>2. AreTables(G, e, src, dst, c, T)
  BY TablesDefined
<1> HIDE DEF T
<1>3. TableInv(G, src, dst, c, t)
  <2>1. m_num - 1 \in 0 .. m_num - 1
    BY NumAssumption
  <2>2. QED
    BY <1>2, <2>1, Zenon DEF AreTables
<1>4. dst \in Settled(t)
  BY <1>2, TableEnds
<1> HIDE DEF t
<1>5. Last(t[n].path) = dst
  BY <1>3, <1>4 DEF TableInv
<1>6. n \in 1 .. n
  <2>1. TableShape(src, c, t)
    BY <1>3, TableFacts DEF IsCost
  <2>2. QED
    BY <2>1 DEF TableShape
<1>7. ShortestPath(G, src, t[n].path)
  BY <1>3, <1>6 DEF TableInv, RowOK
<1>8. QED
  BY <1>1, <1>5, <1>7

-------------------------------------------------------------------------------
(***************************************************************************)
(* What a link costs matters to no path.                                   *)
(***************************************************************************)
SamePaths(t, u) ==
    Len(t) = Len(u) /\ \A i \in 1 .. Len(t) : t[i].path = u[i].path

LEMMA SameRound ==
    ASSUME NEW G \in Topologies, NEW src \in Node, NEW dst \in Node,
           NEW e, NEW c, IsCost(e, src, c),
           NEW f, NEW d, IsCost(f, src, d),
           NEW t, TableInv(G, src, dst, c, t),
           NEW u, TableInv(G, src, dst, d, u),
           SamePaths(t, u)
    PROVE  SamePaths(Round(G, e, src, dst, t), Round(G, f, src, dst, u))
<1>1. /\ Len(t) \in Nat \ {0} /\ Len(u) = Len(t)
      /\ \A i \in 1 .. Len(t) : t[i].path = u[i].path
      /\ Settled(t) = {Last(t[i].path) : i \in 1 .. Len(t)}
      /\ Settled(u) = {Last(u[i].path) : i \in 1 .. Len(u)}
  <2>1. TableShape(src, c, t) /\ TableShape(src, d, u)
    BY TableFacts DEF IsCost
  <2>2. QED
    BY <2>1, Zenon DEF TableShape, SamePaths
<1>2. Settled(t) = Settled(u)
  BY <1>1
<1>3. CASE dst \in Settled(t)
  <2>1. Round(G, e, src, dst, t) = t
    BY <1>3, RoundKeeps, Zenon
  <2>2. Round(G, f, src, dst, u) = u
    <3>1. dst \in Settled(u)
      BY <1>2, <1>3
    <3>2. QED
      BY <3>1, RoundKeeps, Zenon
  <2>3. QED
    BY <2>1, <2>2
<1>4. CASE dst \notin Settled(t)
  <2>1. Extended(G, c, t, Round(G, e, src, dst, t))
    BY <1>4, RoundKeeps
  <2>2. Extended(G, d, u, Round(G, f, src, dst, u))
    BY <1>2, <1>4, RoundKeeps
  <2>3. PICK i, k : /\ First(G, t, i, k)
                    /\ Round(G, e, src, dst, t)
                         = Append(t, Row(Append(t[i].path, k), c * Len(t[i].path)))
    BY <2>1, Zenon DEF Extended
  <2>4. PICK j, h : /\ First(G, u, j, h)
                    /\ Round(G, f, src, dst, u)
                         = Append(u, Row(Append(u[j].path, h), d * Len(u[j].path)))
    BY <2>2, Zenon DEF Extended
  <2>5. First(G, t, j, h)
    BY <1>1, <1>2, <2>4 DEF First
  <2>6. i = j /\ k = h /\ i \in 1 .. Len(t)
    <3>1. Len(t) \in Nat
      BY <1>1
    <3>2. i = j /\ k = h
      BY <2>3, <2>5, <3>1, FirstUnique, Zenon
    <3>3. QED
      BY <2>3, <3>2 DEF First
  <2>7. Append(t[i].path, k) = Append(u[j].path, h)
    BY <1>1, <2>6
  <2> DEFINE q == Append(t[i].path, k)
             r == Row(q, c * Len(t[i].path))
             s == Row(q, d * Len(u[j].path))
             R == [path: Seq(Node), cost: Nat]
  <2>8. r.path = q /\ s.path = q
    BY DEF Row
  <2>9. t \in Seq(R) /\ u \in Seq(R)
    BY DEF TableInv, IsTable
  <2>10. Round(G, e, src, dst, t) = Append(t, r)
         /\ Round(G, f, src, dst, u) = Append(u, s)
    BY <2>3, <2>4, <2>7
  <2> HIDE DEF q, r, s, R
  <2>11. /\ Len(Append(t, r)) = Len(t) + 1
         /\ Append(t, r)[Len(t) + 1] = r
         /\ \A m \in 1 .. Len(t) : Append(t, r)[m] = t[m]
    BY <2>9, AppendFacts
  <2>12. /\ Len(Append(u, s)) = Len(u) + 1
         /\ Append(u, s)[Len(u) + 1] = s
         /\ \A m \in 1 .. Len(u) : Append(u, s)[m] = u[m]
    BY <2>9, AppendFacts
  <2> DEFINE v == Append(t, r)
             w == Append(u, s)
  <2>13. SamePaths(v, w)
    <3> HIDE DEF v, w
    <3>1. Len(v) = Len(t) + 1 /\ Len(w) = Len(t) + 1
      BY <1>1, <2>11, <2>12 DEF v, w
    <3>2. v[Len(t) + 1].path = w[Len(t) + 1].path
      BY <1>1, <2>8, <2>11, <2>12 DEF v, w
    <3>3. \A m \in 1 .. Len(t) : v[m].path = w[m].path
      BY <1>1, <2>11, <2>12 DEF v, w
    <3>4. \A m \in 1 .. Len(t) + 1 : m \in 1 .. Len(t) \/ m = Len(t) + 1
      BY <1>1
    <3>5. QED
      BY <3>1, <3>2, <3>3, <3>4 DEF SamePaths
  <2>14. QED
    BY <2>10, <2>13
<1>5. QED
  BY <1>3, <1>4

LEMMA CostsDoNotMatter ==
    ASSUME NEW G \in Topologies, NEW src \in Node, NEW dst \in Node,
           NEW e, NEW c, IsCost(e, src, c),
           NEW f, NEW d, IsCost(f, src, d)
    PROVE  CalculatePath(m_num, G, e, src, dst) = CalculatePath(m_num, G, f, src, dst)
<1> DEFINE T == Tables(G, e, src, dst)
           V == Tables(G, f, src, dst)
           k == m_num - 1
           U == {n \in 0 .. k : SamePaths(T[n], V[n])}
<1>1. /\ CalculatePath(m_num, G, e, src, dst) = T[k][Len(T[k])].path
      /\ CalculatePath(m_num, G, f, src, dst) = V[k][Len(V[k])].path
  BY Zenon DEF CalculatePath, Tables, Last
<1>2. k \in Nat
  BY NumAssumption
<1>3. AreTables(G, e, src, dst, c, T) /\ AreTables(G, f, src, dst, d, V)
  BY TablesDefined
<1> HIDE DEF T, V
<1>4. /\ T[0] = <<Row(<<src>>, 0)>> /\ V[0] = <<Row(<<src>>, 0)>>
      /\ \A n \in 1 .. k : /\ T[n] = Round(G, e, src, dst, T[n - 1])
                           /\ V[n] = Round(G, f, src, dst, V[n - 1])
      /\ \A n \in 0 .. k : /\ TableInv(G, src, dst, c, T[n])
                           /\ TableInv(G, src, dst, d, V[n])
  BY <1>3 DEF AreTables
<1> HIDE DEF k
<1>5. 0 \in U
  <2>1. SamePaths(T[0], V[0])
    BY <1>4 DEF SamePaths
  <2>2. QED
    BY <1>2, <2>1
<1>6. ASSUME NEW n \in 0 .. k - 1, n \in U
      PROVE  n + 1 \in U
  <2>1. n + 1 \in 1 .. k /\ (n + 1) - 1 = n /\ n + 1 \in 0 .. k /\ n \in 0 .. k
    BY <1>2
  <2>2. /\ T[n + 1] = Round(G, e, src, dst, T[n]) /\ TableInv(G, src, dst, c, T[n])
        /\ V[n + 1] = Round(G, f, src, dst, V[n]) /\ TableInv(G, src, dst, d, V[n])
    BY <1>4, <2>1
  <2>3. SamePaths(T[n], V[n])
    BY <1>6
  <2>4. SamePaths(Round(G, e, src, dst, T[n]), Round(G, f, src, dst, V[n]))
    BY <2>2, <2>3, SameRound
  <2>5. QED
    BY <2>1, <2>2, <2>4
<1> HIDE DEF U
<1>7. SamePaths(T[k], V[k])
  <2>1. k \in U
    <3>1. \A n \in 0 .. k : n \in U
      BY <1>2, <1>5, <1>6, InductionUpTo
    <3>2. QED
      BY <1>2, <3>1
  <2>2. QED
    BY <2>1 DEF U
<1>8. Len(T[k]) \in 1 .. Len(T[k])
  <2>1. TableInv(G, src, dst, c, T[k]) /\ c \in Nat
    BY <1>2, <1>4 DEF IsCost
  <2>2. TableShape(src, c, T[k])
    BY <2>1, TableFacts
  <2>3. QED
    BY <2>2 DEF TableShape
<1>9. QED
  BY <1>1, <1>7, <1>8 DEF SamePaths

-------------------------------------------------------------------------------
(***************************************************************************)
(* The network is a topology, and hellos report delays of its links.       *)
(***************************************************************************)
NetworkInv == m_G \in Topologies /\ m_edges \in [m_G -> Delays]

LEMMA NetworkInvHolds == Spec => []NetworkInv
<1>1. Init => NetworkInv
  BY DEF Init, NetworkInv
<1>2. NetworkInv /\ [Next]_vars => NetworkInv'
  BY DEF NetworkInv, Next, RecvHello, vars
<1>3. QED
  BY <1>1, <1>2, PTL DEF Spec

\* Whatever is reported, paths can be paid.
LEMMA CostsOK ==
    ASSUME NEW G, NEW e \in [G -> Delays], NEW i \in Node
    PROVE  /\ IsCost(e, i, Delay(e, i, 1))
           /\ IsCost(<<>>, i, 0)
<1>1. 0 * (m_num - 1) < MaxCost
  BY NumAssumption DEF MaxCost
<1>2. IsCost(<<>>, i, 0)
  BY <1>1 DEF IsCost, Delay
<1>3. Delay(e, i, 1) = 0 \/ Delay(e, i, 1) \in Delays
  BY DEF Delay
<1>4. Delay(e, i, 1) \in Nat
  <2>1. \A d \in Delays : d \in Nat
    BY NumAssumption
  <2>2. 0 \in Nat
    OBVIOUS
  <2>3. QED
    BY <1>3, <2>1, <2>2, Zenon
<1>5. Delay(e, i, 1) * (m_num - 1) < MaxCost
  <2>1. CASE Delay(e, i, 1) = 0
    BY <1>1, <2>1
  <2>2. CASE Delay(e, i, 1) \in Delays
    BY <2>2, DelaysAssumption
  <2>3. QED
    BY <1>3, <2>1, <2>2
<1>6. QED
  BY <1>2, <1>4, <1>5 DEF IsCost

(***************************************************************************)
(* What CalculatePath returns has all that SdnFlow assumes of its paths    *)
(* (PathAssumption), in every network and for all delays.                  *)
(***************************************************************************)
THEOREM PathsAreUsable ==
    ASSUME NEW G \in Topologies, NEW e \in [G -> Delays],
           NEW i \in Node, NEW j \in Node, NEW p,
           p = CalculatePath(m_num, G, e, i, j)
    PROVE  /\ p \in Seq(Node)
           /\ Len(p) > 0
           /\ p[1] = i
           /\ p[Len(p)] = j
           /\ \A k, l \in 1 .. Len(p) : p[k] = p[l] => k = l
<1>1. ShortestPath(G, i, p) /\ Last(p) = j
  BY CostsOK, PathFound
<1>2. QED
  BY <1>1 DEF ShortestPath, Last

(***************************************************************************)
(* CalculatePath returns a shortest path along links, whatever delays the  *)
(* hellos have reported: on what SdnFlow rests for every network.          *)
(***************************************************************************)
THEOREM ShortestPaths == Spec => []PathsAreShortest
<1>1. NetworkInv => PathsAreShortest
  <2>1. SUFFICES ASSUME NetworkInv, NEW i \in Node, NEW j \in Node
                 PROVE  LET p == PathFrom(i, j) IN
                        /\ p[1] = i /\ p[Len(p)] = j
                        /\ \A k \in 1 .. Len(p) - 1 : <<p[k], p[k + 1]>> \in m_G
                        /\ \A k, l \in DOMAIN p : p[k] = p[l] => k = l
                        /\ Len(p) > 1 => j \notin Within(m_G, i, Len(p) - 2)
    BY DEF PathsAreShortest
  <2> DEFINE p == PathFrom(i, j)
  <2>2. IsCost(m_edges, i, Delay(m_edges, i, 1)) /\ m_G \in Topologies
    BY <2>1, CostsOK DEF NetworkInv
  <2>3. ShortestPath(m_G, i, p) /\ Last(p) = j
    BY <2>2, PathFound DEF PathFrom
  <2> HIDE DEF p
  <2>4. Last(p) = p[Len(p)] /\ DOMAIN p = 1 .. Len(p)
    BY <2>3 DEF Last, ShortestPath
  <2>5. /\ p[1] = i /\ p[Len(p)] = j
        /\ \A k \in 1 .. Len(p) - 1 : <<p[k], p[k + 1]>> \in m_G
        /\ \A k, l \in DOMAIN p : p[k] = p[l] => k = l
        /\ Len(p) > 1 => j \notin Within(m_G, i, Len(p) - 2)
    BY <2>3, <2>4 DEF ShortestPath
  <2>6. QED
    BY <2>5 DEF p
<1>2. QED
  BY <1>1, NetworkInvHolds, PTL

(***************************************************************************)
(* No hello changes a path, in any network: what m_path holds is what      *)
(* CalculatePath would return at any later time.                           *)
(***************************************************************************)
THEOREM PathsStay == Spec => []HellosKeepPaths
<1>1. NetworkInv => HellosKeepPaths
  <2>1. SUFFICES ASSUME NetworkInv, NEW i \in Node, NEW j \in Node
                 PROVE  PathFrom(i, j) = CalculatePath(m_num, m_G, <<>>, i, j)
    BY DEF HellosKeepPaths
  <2>2. /\ IsCost(m_edges, i, Delay(m_edges, i, 1))
        /\ IsCost(<<>>, i, 0) /\ m_G \in Topologies
    BY <2>1, CostsOK DEF NetworkInv
  <2>3. QED
    BY <2>2, CostsDoNotMatter DEF PathFrom
<1>2. QED
  BY <1>1, NetworkInvHolds, PTL

===============================================================================
