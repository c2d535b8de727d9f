----------------------- MODULE SdsnControlDomainProofs -----------------------
(***************************************************************************)
(* Theorems about SdsnControlDomain, for every finite network: the search  *)
(* of SetPair finds shortest paths, and the routes that all pairs together *)
(* leave in the tables lead along shortest paths to their destinations.    *)
(*                                                                         *)
(* The search, the paths and the distances are recursive functions.  What  *)
(* holds of them is proved by induction, in the form of a set of natural   *)
(* numbers that is shown to hold all of them.                              *)
(***************************************************************************)
EXTENDS SdsnControlDomain, Iteration, FiniteSetTheorems, TLAPS

-------------------------------------------------------------------------------
(***************************************************************************)
(* The neighbours of a node are nodes, and its neighbours in turn.         *)
(***************************************************************************)
LEMMA ViewFacts ==
    ASSUME NEW v \in Views, NEW n \in Node
    PROVE  /\ v[n] \in Seq(Node)
           /\ Range(v[n]) \subseteq Node \ {n}
           /\ \A m \in Range(v[n]) : n \in Range(v[m])
<1>1. /\ v \in [Node -> Seq(Node)]
      /\ ~ Contains(v[n], n)
      /\ \A m \in Range(v[n]) : Contains(v[m], n)
  BY ViewAssumption
<1>2. Range(v[n]) \subseteq Node
  BY <1>1 DEF Range
<1>3. n \notin Range(v[n])
  BY <1>1 DEF Range, Contains
<1>4. ASSUME NEW m \in Range(v[n])
      PROVE  n \in Range(v[m])
  <2>1. v[m] \in Seq(Node)
    BY <1>1, <1>2
  <2>2. Contains(v[m], n)
    BY <1>1
  <2>3. QED
    BY <2>1, <2>2 DEF Range, Contains
<1>5. QED
  BY <1>1, <1>2, <1>3, <1>4

LEMMA NumberOfNodes == Cardinality(Node) \in Nat
BY NodeAssumption, FS_CardinalityType

(***************************************************************************)
(* The ball is what its definition says, and holds nodes only.             *)
(***************************************************************************)
LEMMA BallDefined ==
    ASSUME NEW v \in Views, NEW m \in Node
    PROVE  /\ Ball(v, m)[0] = {m}
           /\ \A k \in 1 .. Cardinality(Node) :
                Ball(v, m)[k] = Ball(v, m)[k - 1]
                    \cup UNION {Range(v[p]) : p \in Ball(v, m)[k - 1]}
           /\ \A k \in 0 .. Cardinality(Node) : Ball(v, m)[k] \subseteq Node
<1> DEFINE S == SUBSET Node
           Wider(b) == b \cup UNION {Range(v[p]) : p \in b}
           C == Cardinality(Node)
           F == [k \in 1 .. C |-> [b \in S |-> Wider(b)]]
<1>1. F \in [1 .. C -> [S -> S]]
  BY ViewFacts
<1>2. C \in Nat
  BY NumberOfNodes
<1> HIDE DEF C
<1>3. PICK f : Iterates(f, C, S, {m}, F)
  <2>1. {m} \in S
    OBVIOUS
  <2> HIDE DEF S, F
  <2>2. QED
    BY <1>1, <1>2, <2>1, Iterated
<1>4. f = [k \in 0 .. C |-> IF k = 0 THEN {m} ELSE Wider(f[k - 1])]
  <2>1. ASSUME NEW k \in 1 .. C
        PROVE  f[k] = Wider(f[k - 1])
    <3>1. f[k - 1] \in S
      BY <1>2, <1>3 DEF Iterates
    <3> HIDE DEF S, Wider
    <3>2. F[k] = [b \in S |-> Wider(b)]
      BY <1>2
    <3> HIDE DEF F
    <3>3. QED
      BY <1>3, <3>1, <3>2 DEF Iterates
  <2> HIDE DEF F, Wider
  <2>2. QED
    BY <1>2, <1>3, <2>1 DEF Iterates
<1>5. Ball(v, m) = [k \in 0 .. C |-> IF k = 0 THEN {m} ELSE Wider(Ball(v, m)[k - 1])]
  BY <1>4 DEF Ball, C
<1>6. \A k \in 1 .. C : Ball(v, m)[k] = Ball(v, m)[k - 1]
                           \cup UNION {Range(v[p]) : p \in Ball(v, m)[k - 1]}
  BY <1>2, <1>5
<1>7. \A k \in 0 .. C : Ball(v, m)[k] \subseteq Node
  <2> DEFINE T == {k \in 0 .. C : Ball(v, m)[k] \subseteq Node}
  <2>1. 0 \in T
    BY <1>2, <1>5
  <2>2. ASSUME NEW k \in 0 .. C - 1, k \in T
        PROVE  k + 1 \in T
    <3>1. Ball(v, m)[k + 1] = Ball(v, m)[k] \cup UNION {Range(v[p]) : p \in Ball(v, m)[k]}
      BY <1>2, <1>6
    <3>2. QED
      BY <2>2, <3>1, <1>2, ViewFacts
  <2> HIDE DEF T
  <2>3. \A k \in 0 .. C : k \in T
    BY <1>2, <2>1, <2>2, InductionUpTo
  <2>4. QED
    BY <2>3 DEF T
<1>8. QED
  BY <1>2, <1>5, <1>6, <1>7, SMTT(30) DEF C

(***************************************************************************)
(* Balls grow, and by one link a step.                                     *)
(***************************************************************************)
LEMMA BallStep ==
    ASSUME NEW v \in Views, NEW m \in Node,
           NEW k \in 0 .. Cardinality(Node) - 1, NEW n \in Ball(v, m)[k]
    PROVE  /\ n \in Ball(v, m)[k + 1]
           /\ Range(v[n]) \subseteq Ball(v, m)[k + 1]
<1>1. Ball(v, m)[k + 1] =
         Ball(v, m)[k] \cup UNION {Range(v[p]) : p \in Ball(v, m)[k]}
  <2>1. k + 1 \in 1 .. Cardinality(Node) /\ (k + 1) - 1 = k
    BY NumberOfNodes
  <2>2. QED
    BY <2>1, BallDefined
<1>2. QED
  BY <1>1

LEMMA BallGrows ==
    ASSUME NEW v \in Views, NEW m \in Node,
           NEW j \in 0 .. Cardinality(Node), NEW k \in j .. Cardinality(Node)
    PROVE  Ball(v, m)[j] \subseteq Ball(v, m)[k]
<1> DEFINE C == Cardinality(Node)
           T == {i \in 0 .. C - j : Ball(v, m)[j] \subseteq Ball(v, m)[j + i]}
<1>1. C \in Nat
  BY NumberOfNodes
<1>2. 0 \in T
  BY <1>1
<1>3. ASSUME NEW i \in 0 .. C - j - 1, i \in T
      PROVE  i + 1 \in T
  <2>1. j + i \in 0 .. C - 1
    BY <1>1
  <2>2. Ball(v, m)[j + i] \subseteq Ball(v, m)[j + i + 1]
    BY <2>1, BallStep
  <2>3. QED
    BY <1>1, <1>3, <2>2
<1> HIDE DEF T
<1>4. C - j \in Nat
  BY <1>1
<1>5. \A i \in 0 .. C - j : i \in T
  <2> HIDE DEF C
  <2>1. QED
    BY <1>1, <1>2, <1>3, <1>4, InductionUpTo
<1>6. k - j \in T /\ j + (k - j) = k
  BY <1>1, <1>5
<1>7. QED
  BY <1>6 DEF T

(***************************************************************************)
(* The distance from a node that can be reached is the number of the first *)
(* ball it is in.                                                          *)
(***************************************************************************)
LEMMA DistanceFromBall ==
    ASSUME NEW v \in Views, NEW m \in Node, NEW k \in 0 .. Cardinality(Node),
           NEW n \in Ball(v, m)[k]
    PROVE  /\ Distance(v, n, m) \in 0 .. k
           /\ \A j \in 0 .. Cardinality(Node) :
                n \in Ball(v, m)[j] <=> Distance(v, n, m) <= j
<1> DEFINE C == Cardinality(Node)
           T == {i \in 0 .. C : n \in Ball(v, m)[i]}
           First(i) == /\ n \in Ball(v, m)[i]
                       /\ \A l \in 0 .. i - 1 : n \notin Ball(v, m)[l]
<1>1. C \in Nat
  BY NumberOfNodes
<1>2. PICK i \in T : \A j \in T : i <= j
  <2>1. T \subseteq Nat /\ T # {}
    BY <1>1
  <2> HIDE DEF T
  <2>2. QED
    BY <2>1, LeastNatural
<1>3. First(i)
  BY <1>1, <1>2
<1>4. Distance(v, n, m) = CHOOSE d \in 0 .. C : First(d)
  BY DEF Distance
<1>5. Distance(v, n, m) \in 0 .. C /\ First(Distance(v, n, m))
  <2> HIDE DEF First, C
  <2>1. QED
    BY <1>2, <1>3, <1>4
<1>6. ASSUME NEW j \in 0 .. C
      PROVE  n \in Ball(v, m)[j] <=> Distance(v, n, m) <= j
  <2>1. ASSUME n \in Ball(v, m)[j], j < Distance(v, n, m)
        PROVE  FALSE
    BY <1>1, <1>5, <2>1
  <2>2. ASSUME Distance(v, n, m) <= j
        PROVE  n \in Ball(v, m)[j]
    <3>1. j \in Distance(v, n, m) .. C
      BY <1>1, <1>5, <2>2
    <3>2. QED
      BY <1>5, <3>1, BallGrows
  <2>3. QED
    BY <1>1, <1>5, <2>1, <2>2
<1>7. QED
  BY <1>1, <1>5, <1>6

(***************************************************************************)
(* Ways can be joined, and gone the other way.                             *)
(***************************************************************************)
LEMMA BallsJoin ==
    ASSUME NEW v \in Views, NEW m \in Node,
           NEW k \in 0 .. Cardinality(Node), NEW n \in Ball(v, m)[k],
           NEW j \in 0 .. Cardinality(Node) - k, NEW p \in Ball(v, n)[j]
    PROVE  p \in Ball(v, m)[k + j]
<1> DEFINE C == Cardinality(Node)
           T == {i \in 0 .. C - k : Ball(v, n)[i] \subseteq Ball(v, m)[k + i]}
<1>1. C \in Nat /\ n \in Node
  BY NumberOfNodes, BallDefined
<1>2. 0 \in T
  BY <1>1, BallDefined
<1>3. ASSUME NEW i \in 0 .. C - k - 1, i \in T
      PROVE  i + 1 \in T
  <2>1. /\ k + i \in 0 .. C - 1
        /\ i \in 0 .. C - 1
        /\ i + 1 \in 1 .. C
        /\ (i + 1) - 1 = i
        /\ k + (i + 1) = (k + i) + 1
    BY <1>1
  <2>2. Ball(v, n)[i + 1] =
           Ball(v, n)[i] \cup UNION {Range(v[q]) : q \in Ball(v, n)[i]}
    BY <1>1, <2>1, BallDefined
  <2>3. \A q \in Ball(v, n)[i] :
           /\ q \in Ball(v, m)[k + i + 1]
           /\ Range(v[q]) \subseteq Ball(v, m)[k + i + 1]
    BY <1>3, <2>1, BallStep
  <2>4. QED
    BY <1>1, <2>1, <2>2, <2>3
<1> HIDE DEF T
<1>4. C - k \in Nat
  BY <1>1
<1>5. \A i \in 0 .. C - k : i \in T
  <2> HIDE DEF C
  <2>1. QED
    BY <1>1, <1>2, <1>3, <1>4, InductionUpTo
<1>6. QED
  BY <1>5 DEF T

LEMMA BallsSymmetric ==
    ASSUME NEW v \in Views, NEW m \in Node,
           NEW k \in 0 .. Cardinality(Node), NEW n \in Ball(v, m)[k]
    PROVE  m \in Ball(v, n)[k]
<1> DEFINE C == Cardinality(Node)
           T == {i \in 0 .. C : \A p \in Ball(v, m)[i] : m \in Ball(v, p)[i]}
<1>1. C \in Nat
  BY NumberOfNodes
<1>2. 0 \in T
  BY <1>1, BallDefined
<1>3. ASSUME NEW i \in 0 .. C - 1, i \in T
      PROVE  i + 1 \in T
  <2>1. /\ i \in 0 .. C
        /\ i + 1 \in 1 .. C
        /\ (i + 1) - 1 = i
        /\ 0 \in 0 .. C - 1
        /\ 1 \in 0 .. C
        /\ i \in 0 .. C - 1
    BY <1>1
  <2>2. SUFFICES ASSUME NEW p \in Ball(v, m)[i + 1]
                 PROVE  m \in Ball(v, p)[i + 1]
    BY <2>1
  <2>3. Ball(v, m)[i] \subseteq Node /\ p \in Node
    BY <2>1, BallDefined
  <2>4. CASE p \in Ball(v, m)[i]
    BY <1>3, <2>1, <2>3, <2>4, BallStep
  <2>5. CASE \E q \in Ball(v, m)[i] : p \in Range(v[q])
    <3>1. PICK q \in Ball(v, m)[i] : p \in Range(v[q])
      BY <2>5
    <3>2. q \in Node /\ q \in Range(v[p])
      BY <2>3, <3>1, ViewFacts
    <3>3. p \in Ball(v, p)[0]
      BY <2>3, BallDefined
    <3>4. q \in Ball(v, p)[0 + 1]
      BY <2>1, <2>3, <3>2, <3>3, BallStep
    <3>5. m \in Ball(v, q)[i]
      BY <1>3, <3>1
    <3>6. m \in Ball(v, p)[1 + i]
      <4>1. i \in 0 .. C - 1 /\ q \in Ball(v, p)[1]
        BY <2>1, <3>4
      <4>2. QED
        BY <2>1, <2>3, <3>5, <4>1, BallsJoin
    <3>7. QED
      BY <2>1, <3>6
  <2>6. QED
    BY <2>1, <2>4, <2>5, BallDefined
<1> HIDE DEF T
<1>4. \A i \in 0 .. C : i \in T
  <2> HIDE DEF C
  <2>1. QED
    BY <1>1, <1>2, <1>3, InductionUpTo
<1>5. QED
  BY <1>4 DEF T

-------------------------------------------------------------------------------
(***************************************************************************)
(* The elements of a sequence that is put together.                        *)
(***************************************************************************)
LEMMA RangeOfAppend ==
    ASSUME NEW S, NEW s \in Seq(S), NEW e \in S
    PROVE  /\ Append(s, e) \in Seq(S)
           /\ Range(Append(s, e)) = Range(s) \cup {e}
<1>1. /\ Append(s, e) \in Seq(S)
      /\ DOMAIN Append(s, e) = 1 .. Len(s) + 1
      /\ DOMAIN s = 1 .. Len(s)
      /\ Len(s) \in Nat
      /\ Append(s, e)[Len(s) + 1] = e
      /\ \A i \in 1 .. Len(s) : Append(s, e)[i] = s[i]
  OBVIOUS
<1>2. QED
  BY <1>1 DEF Range

LEMMA RangeOfConcat ==
    ASSUME NEW S, NEW s \in Seq(S), NEW t \in Seq(S)
    PROVE  /\ s \o t \in Seq(S)
           /\ Len(s \o t) = Len(s) + Len(t)
           /\ \A i \in 1 .. Len(s) : (s \o t)[i] = s[i]
           /\ \A i \in 1 .. Len(t) : (s \o t)[Len(s) + i] = t[i]
           /\ Range(s \o t) = Range(s) \cup Range(t)
<1>1. /\ s \o t \in Seq(S)
      /\ Len(s) \in Nat /\ Len(t) \in Nat
      /\ Len(s \o t) = Len(s) + Len(t)
      /\ DOMAIN (s \o t) = 1 .. Len(s) + Len(t)
      /\ DOMAIN s = 1 .. Len(s)
      /\ DOMAIN t = 1 .. Len(t)
      /\ \A i \in 1 .. Len(s) : (s \o t)[i] = s[i]
  OBVIOUS
<1>2. \A i \in 1 .. Len(t) : (s \o t)[Len(s) + i] = t[i]
  OBVIOUS
<1>3. Range(s) \cup Range(t) \subseteq Range(s \o t)
  <2>1. \A i \in 1 .. Len(s) : i \in DOMAIN (s \o t)
    BY <1>1
  <2>2. \A i \in 1 .. Len(t) : Len(s) + i \in DOMAIN (s \o t)
    BY <1>1
  <2>3. QED
    BY <1>1, <1>2, <2>1, <2>2 DEF Range
<1>4. Range(s \o t) \subseteq Range(s) \cup Range(t)
  <2>1. ASSUME NEW i \in 1 .. Len(s) + Len(t)
        PROVE  (s \o t)[i] \in Range(s) \cup Range(t)
    <3>1. CASE i <= Len(s)
      BY <1>1, <3>1 DEF Range
    <3>2. CASE i > Len(s)
      <4>1. i - Len(s) \in 1 .. Len(t) /\ Len(s) + (i - Len(s)) = i
        BY <1>1, <3>2
      <4>2. (s \o t)[i] = t[i - Len(s)]
        BY <1>2, <4>1
      <4>3. QED
        BY <1>1, <4>1, <4>2 DEF Range
    <3>3. QED
      BY <1>1, <3>1, <3>2
  <2>2. QED
    BY <1>1, <2>1 DEF Range
<1>5. QED
  BY <1>1, <1>2, <1>3, <1>4

(***************************************************************************)
(* Of the neighbours, those that are not noted are left.                   *)
(***************************************************************************)
LEMMA UnseenNeighbours ==
    ASSUME NEW nbrs \in Seq(Node), NEW noted
    PROVE  /\ Unseen(nbrs, noted) \in Seq(Node)
           /\ Range(Unseen(nbrs, noted)) = Range(nbrs) \ noted
<1> DEFINE S == Seq(Node)
           L == Len(nbrs)
           Next1(s, k) == IF nbrs[k] \in noted THEN s ELSE Append(s, nbrs[k])
           F == [k \in 1 .. L |-> [s \in S |-> Next1(s, k)]]
           Unfolds(f) == f = [k \in 0 .. L |-> IF k = 0 THEN <<>>
                                               ELSE Next1(f[k - 1], k)]
           new == CHOOSE f : Unfolds(f)
<1>1. L \in Nat /\ \A k \in 1 .. L : nbrs[k] \in Node
  OBVIOUS
<1>2. PICK f : Iterates(f, L, S, <<>>, F)
  <2>1. F \in [1 .. L -> [S -> S]] /\ <<>> \in S
    BY <1>1
  <2> HIDE DEF S, F, L
  <2>2. QED
    BY <1>1, <2>1, Iterated
<1>3. Unfolds(f)
  <2>1. ASSUME NEW k \in 1 .. L
        PROVE  f[k] = Next1(f[k - 1], k)
    <3>1. f[k - 1] \in S
      BY <1>1, <1>2, SMTT(30) DEF Iterates
    <3> HIDE DEF S, Next1
    <3>2. F[k] = [s \in S |-> Next1(s, k)]
      OBVIOUS
    <3> HIDE DEF F
    <3>3. QED
      BY <1>2, <3>1, <3>2 DEF Iterates
  <2> HIDE DEF F, Next1, L
  <2>2. QED
    BY <1>1, <1>2, <2>1 DEF Iterates
<1>4. Unfolds(new)
  <2> HIDE DEF Unfolds
  <2>1. QED
    BY <1>3
<1>5. Unseen(nbrs, noted) = new[L]
  BY DEF Unseen
<1> HIDE DEF new, L
<1>6. /\ new[0] = <<>>
      /\ \A k \in 1 .. L : new[k] = Next1(new[k - 1], k)
  <2> HIDE DEF Next1
  <2>1. new = [k \in 0 .. L |-> IF k = 0 THEN <<>> ELSE Next1(new[k - 1], k)]
    BY <1>4
  <2>2. QED
    BY <1>1, <2>1
<1> DEFINE Seen(k) == {nbrs[i] : i \in 1 .. k}
           T == {k \in 0 .. L : /\ new[k] \in Seq(Node)
                                /\ Range(new[k]) = Seen(k) \ noted}
<1>7. 0 \in T
  <2>1. Range(<<>>) = {} /\ Seen(0) = {}
    BY DEF Range
  <2>2. <<>> \in Seq(Node)
    OBVIOUS
  <2> HIDE DEF Seen
  <2>3. /\ new[0] \in Seq(Node)
        /\ Range(new[0]) = Seen(0) \ noted
    BY <1>6, <2>1, <2>2, Zenon
  <2>4. QED
    BY <1>1, <2>3
<1>8. ASSUME NEW k \in 0 .. L - 1, k \in T
      PROVE  k + 1 \in T
  <2>1. k + 1 \in 1 .. L /\ (k + 1) - 1 = k /\ nbrs[k + 1] \in Node
    BY <1>1
  <2>2. new[k + 1] = Next1(new[k], k + 1)
    BY <1>6, <2>1
  <2>3. Seen(k + 1) = Seen(k) \cup {nbrs[k + 1]}
    BY <1>1
  <2>4. new[k] \in Seq(Node) /\ Range(new[k]) = Seen(k) \ noted
    BY <1>8
  <2> HIDE DEF Seen
  <2>5. CASE nbrs[k + 1] \in noted
    BY <2>1, <2>2, <2>3, <2>4, <2>5
  <2>6. CASE nbrs[k + 1] \notin noted
    <3>1. new[k + 1] = Append(new[k], nbrs[k + 1])
      BY <2>2, <2>6
    <3>2. /\ new[k + 1] \in Seq(Node)
          /\ Range(new[k + 1]) = Range(new[k]) \cup {nbrs[k + 1]}
      BY <2>1, <2>4, <3>1, RangeOfAppend
    <3>3. QED
      BY <2>1, <2>3, <2>4, <2>6, <3>2
  <2>7. QED
    BY <2>5, <2>6
<1> HIDE DEF T
<1>9. L \in T
  <2>1. \A k \in 0 .. L : k \in T
    BY <1>1, <1>7, <1>8, InductionUpTo
  <2>2. QED
    BY <1>1, <2>1
<1>10. Seen(L) = Range(nbrs)
  BY DEF L, Range
<1>11. QED
  BY <1>5, <1>9, <1>10 DEF T

(***************************************************************************)
(* The states of the search: the nodes noted are those that were queued.   *)
(***************************************************************************)
SearchState ==
    {s \in [bfs: Seq(Node), traversed: UNION {[D -> Node] : D \in SUBSET Node}] :
        DOMAIN s.traversed = Range(s.bfs)}

(***************************************************************************)
(* What a visit of n queues and notes.                                     *)
(***************************************************************************)
Visited(v, n, s, t) ==
    /\ t \in SearchState
    /\ DOMAIN t.traversed = DOMAIN s.traversed \cup Range(v[n])
    /\ Len(t.bfs) >= Len(s.bfs)
    /\ \A i \in 1 .. Len(s.bfs) : t.bfs[i] = s.bfs[i]
    /\ \A i \in Len(s.bfs) + 1 .. Len(t.bfs) :
         t.bfs[i] \in Range(v[n]) \ DOMAIN s.traversed
    /\ \A m \in DOMAIN s.traversed : t.traversed[m] = s.traversed[m]
    /\ \A m \in DOMAIN t.traversed \ DOMAIN s.traversed :
         m \in Range(v[n]) /\ t.traversed[m] = n

LEMMA VisitFacts ==
    ASSUME NEW v \in Views, NEW s \in SearchState, NEW k \in 1 .. Len(s.bfs)
    PROVE  Visited(v, s.bfs[k], s, Visit(v, s, k))
<1> DEFINE n == s.bfs[k]
           new == Unseen(v[n], DOMAIN s.traversed)
           bfs == s.bfs \o new
           noted == DOMAIN s.traversed \cup Range(new)
           traversed == [m \in noted |-> IF m \in DOMAIN s.traversed
                                        THEN s.traversed[m] ELSE n]
<1>1. /\ s.bfs \in Seq(Node)
      /\ DOMAIN s.traversed = Range(s.bfs)
      /\ s.traversed \in UNION {[D -> Node] : D \in SUBSET Node}
  BY DEF SearchState
<1>2. /\ DOMAIN s.traversed \subseteq Node
      /\ \A m \in DOMAIN s.traversed : s.traversed[m] \in Node
  BY <1>1
<1>3. n \in Node
  BY <1>1
<1>4. v[n] \in Seq(Node) /\ Range(v[n]) \subseteq Node
  BY <1>3, ViewFacts
<1>5. new \in Seq(Node) /\ Range(new) = Range(v[n]) \ DOMAIN s.traversed
  BY <1>4, UnseenNeighbours
<1>6. /\ bfs \in Seq(Node)
      /\ Len(bfs) = Len(s.bfs) + Len(new)
      /\ \A i \in 1 .. Len(s.bfs) : bfs[i] = s.bfs[i]
      /\ \A i \in 1 .. Len(new) : bfs[Len(s.bfs) + i] = new[i]
      /\ Range(bfs) = Range(s.bfs) \cup Range(new)
  <2> DEFINE old == s.bfs
  <2>1. bfs = old \o new /\ old \in Seq(Node) /\ new \in Seq(Node)
    BY <1>1, <1>5
  <2> HIDE DEF old, new, bfs
  <2>2. /\ old \o new \in Seq(Node)
        /\ Len(old \o new) = Len(old) + Len(new)
        /\ \A i \in 1 .. Len(old) : (old \o new)[i] = old[i]
        /\ \A i \in 1 .. Len(new) : (old \o new)[Len(old) + i] = new[i]
        /\ Range(old \o new) = Range(old) \cup Range(new)
    BY <2>1, RangeOfConcat
  <2>3. QED
    BY <2>1, <2>2 DEF old
<1>7. Visit(v, s, k) = [bfs |-> bfs, traversed |-> traversed]
  BY DEF Visit
<1>8. noted \subseteq Node /\ noted = DOMAIN s.traversed \cup Range(v[n])
  BY <1>2, <1>4, <1>5
<1> HIDE DEF new, noted
<1>9. traversed \in [noted -> Node]
  BY <1>2, <1>3
<1>10. Len(s.bfs) \in Nat /\ Len(new) \in Nat
  BY <1>1, <1>5
<1>11. ASSUME NEW i \in Len(s.bfs) + 1 .. Len(bfs)
       PROVE  bfs[i] \in Range(v[n]) \ DOMAIN s.traversed
  <2>1. i - Len(s.bfs) \in 1 .. Len(new) /\ Len(s.bfs) + (i - Len(s.bfs)) = i
    BY <1>6, <1>10
  <2>2. bfs[i] = new[i - Len(s.bfs)]
    BY <1>6, <2>1
  <2>3. new[i - Len(s.bfs)] \in Range(new)
    BY <1>5, <2>1 DEF Range
  <2>4. QED
    BY <1>5, <2>2, <2>3
<1> DEFINE t == Visit(v, s, k)
<1>12. t.bfs = bfs /\ t.traversed = traversed /\ DOMAIN traversed = noted
  BY <1>7
<1>13. Len(bfs) >= Len(s.bfs)
  BY <1>6, <1>10
<1>14. /\ \A m \in DOMAIN s.traversed : traversed[m] = s.traversed[m]
       /\ \A m \in noted \ DOMAIN s.traversed : traversed[m] = n
  BY <1>8
<1>15. t \in SearchState
  <2>1. noted = Range(bfs)
    BY <1>1, <1>6 DEF noted
  <2>2. t \in [bfs: Seq(Node), traversed: UNION {[D -> Node] : D \in SUBSET Node}]
    <3> HIDE DEF bfs, traversed
    <3>1. traversed \in UNION {[D -> Node] : D \in SUBSET Node}
      BY <1>8, <1>9
    <3>2. QED
      BY <1>6, <1>7, <3>1
  <2> HIDE DEF t, bfs, traversed
  <2>3. QED
    BY <1>12, <2>1, <2>2 DEF SearchState
<1> HIDE DEF t, bfs, traversed
<1>16. QED
  BY <1>6, <1>8, <1>11, <1>12, <1>13, <1>14, <1>15 DEF t, n, Visited

(***************************************************************************)
(* The search is what its definition says.                                 *)
(***************************************************************************)
LEMMA SearchDefined ==
    ASSUME NEW v \in Views, NEW con \in Node
    PROVE  LET s == Search(v, con)
           IN  /\ s[0] = [bfs |-> <<con>>, traversed |-> [n \in {con} |-> con]]
               /\ \A k \in 1 .. Cardinality(Node) :
                    s[k] = IF k > Len(s[k - 1].bfs) THEN s[k - 1]
                           ELSE Visit(v, s[k - 1], k)
               /\ \A k \in 0 .. Cardinality(Node) : s[k] \in SearchState
<1> DEFINE C == Cardinality(Node)
           x == [bfs |-> <<con>>, traversed |-> [n \in {con} |-> con]]
           Round(s, k) == IF k > Len(s.bfs) THEN s ELSE Visit(v, s, k)
           F == [k \in 1 .. C |-> [s \in SearchState |-> Round(s, k)]]
           Unfolds(f) == f = [k \in 0 .. C |-> IF k = 0 THEN x
                                               ELSE Round(f[k - 1], k)]
           search == CHOOSE f : Unfolds(f)
<1>1. C \in Nat
  BY NumberOfNodes
<1> HIDE DEF C
<1>2. x \in SearchState
  <2>1. [n \in {con} |-> con] \in [{con} -> Node]
    OBVIOUS
  <2>2. [n \in {con} |-> con] \in UNION {[D -> Node] : D \in SUBSET Node}
    BY <2>1
  <2>3. <<con>> \in Seq(Node) /\ Range(<<con>>) = {con}
    BY DEF Range
  <2>4. QED
    BY <2>2, <2>3 DEF SearchState
<1>3. ASSUME NEW s \in SearchState, NEW k \in 1 .. C
      PROVE  Round(s, k) \in SearchState
  <2>1. CASE k > Len(s.bfs)
    BY <2>1
  <2>2. CASE k \in 1 .. Len(s.bfs)
    <3>1. ~ (k > Len(s.bfs))
      BY <1>1, <2>2 DEF SearchState
    <3>2. Visit(v, s, k) \in SearchState
      BY <2>2, VisitFacts DEF Visited
    <3>3. QED
      BY <3>1, <3>2
  <2>3. QED
    BY <1>1, <2>1, <2>2 DEF SearchState
<1> HIDE DEF x, Round
<1>4. PICK f : Iterates(f, C, SearchState, x, F)
  <2>1. F \in [1 .. C -> [SearchState -> SearchState]]
    BY <1>3
  <2> HIDE DEF F
  <2>2. QED
    BY <1>1, <1>2, <2>1, Iterated
<1>5. Unfolds(f)
  <2>1. ASSUME NEW k \in 1 .. C
        PROVE  f[k] = Round(f[k - 1], k)
    <3>1. f[k - 1] \in SearchState
      BY <1>1, <1>4 DEF Iterates
    <3>2. F[k] = [s \in SearchState |-> Round(s, k)]
      OBVIOUS
    <3> HIDE DEF F
    <3>3. QED
      BY <1>4, <3>1, <3>2 DEF Iterates
  <2> HIDE DEF F
  <2>2. QED
    BY <1>1, <1>4, <2>1 DEF Iterates
<1>6. Unfolds(search)
  <2> HIDE DEF Unfolds
  <2>1. QED
    BY <1>5
<1>7. Search(v, con) = search
  BY DEF Search, x, Round, C
<1> HIDE DEF search
<1>8. /\ search[0] = x
      /\ \A k \in 1 .. C : search[k] = Round(search[k - 1], k)
  BY <1>1, <1>6
<1>9. \A k \in 0 .. C : search[k] \in SearchState
  <2> DEFINE T == {k \in 0 .. C : search[k] \in SearchState}
  <2>1. 0 \in T
    BY <1>1, <1>2, <1>8
  <2>2. ASSUME NEW k \in 0 .. C - 1, k \in T
        PROVE  k + 1 \in T
    <3>1. k + 1 \in 1 .. C /\ (k + 1) - 1 = k
      BY <1>1
    <3>2. search[k + 1] = Round(search[k], k + 1)
      BY <1>8, <3>1
    <3>3. QED
      BY <1>3, <2>2, <3>1, <3>2
  <2> HIDE DEF T
  <2>3. \A k \in 0 .. C : k \in T
    BY <1>1, <2>1, <2>2, InductionUpTo
  <2>4. QED
    BY <2>3 DEF T
<1>10. QED
  BY <1>7, <1>8, <1>9 DEF x, Round, C

(***************************************************************************)
(* What holds after k rounds of the search: the nodes were queued in the   *)
(* order of their distance, those in the queue are one link further away   *)
(* than its front at most, those popped have no neighbour that is not      *)
(* noted, and a node was reached from one that is one link nearer.         *)
(***************************************************************************)
QueuedByDistance(v, con, s) ==
    \A i, j \in 1 .. Len(s.bfs) :
        i <= j => Distance(v, s.bfs[i], con) <= Distance(v, s.bfs[j], con)

FrontIsNear(v, con, k, s) ==
    k < Len(s.bfs) =>
        \A i \in 1 .. Len(s.bfs) :
            Distance(v, s.bfs[i], con) <= Distance(v, s.bfs[k + 1], con) + 1

PoppedAreDone(v, k, s) ==
    \A i \in 1 .. Len(s.bfs) :
        i <= k => Range(v[s.bfs[i]]) \subseteq DOMAIN s.traversed

ReachedFromNearer(v, con, s) ==
    \A m \in DOMAIN s.traversed \ {con} :
        /\ s.traversed[m] \in DOMAIN s.traversed
        /\ m \in Range(v[s.traversed[m]])
        /\ Distance(v, m, con) = Distance(v, s.traversed[m], con) + 1

SearchInv(v, con, k, s) ==
    /\ Len(s.bfs) >= 1
    /\ con \in DOMAIN s.traversed
    /\ DOMAIN s.traversed \subseteq Ball(v, con)[k]
    /\ QueuedByDistance(v, con, s)
    /\ FrontIsNear(v, con, k, s)
    /\ PoppedAreDone(v, k, s)
    /\ ReachedFromNearer(v, con, s)

(***************************************************************************)
(* Whatever is no further away than the front has been noted.              *)
(***************************************************************************)
LEMMA NearerIsNoted ==
    ASSUME NEW v \in Views, NEW con \in Node,
           NEW k \in 0 .. Cardinality(Node) - 1, NEW s \in SearchState,
           SearchInv(v, con, k, s), k < Len(s.bfs)
    PROVE  Ball(v, con)[Distance(v, s.bfs[k + 1], con)] \subseteq DOMAIN s.traversed
<1> DEFINE C == Cardinality(Node)
           d == Distance(v, s.bfs[k + 1], con)
           T == {l \in 0 .. d : Ball(v, con)[l] \subseteq DOMAIN s.traversed}
<1>1. /\ C \in Nat /\ k \in 0 .. C /\ k + 1 \in 1 .. Len(s.bfs)
      /\ s.bfs \in Seq(Node) /\ Len(s.bfs) \in Nat
      /\ DOMAIN s.traversed = Range(s.bfs)
  BY NumberOfNodes DEF SearchState
<1>2. \A i \in 1 .. Len(s.bfs) : s.bfs[i] \in Ball(v, con)[k]
  BY <1>1 DEF SearchInv, Range
<1>3. d \in 0 .. k
  BY <1>1, <1>2, DistanceFromBall
<1>4. 0 \in T
  BY <1>3, BallDefined DEF SearchInv
<1>5. ASSUME NEW l \in 0 .. d - 1, l \in T
      PROVE  l + 1 \in T
  <2>1. /\ l \in 0 .. C /\ l + 1 \in 1 .. C /\ (l + 1) - 1 = l /\ l < d
        /\ l + 1 \in 0 .. d
    BY <1>1, <1>3
  <2>2. Ball(v, con)[l + 1] =
           Ball(v, con)[l] \cup UNION {Range(v[p]) : p \in Ball(v, con)[l]}
    BY <2>1, BallDefined
  <2>3. ASSUME NEW p \in Ball(v, con)[l]
        PROVE  Range(v[p]) \subseteq DOMAIN s.traversed
    <3>1. PICK i \in 1 .. Len(s.bfs) : p = s.bfs[i]
      BY <1>1, <1>5 DEF Range
    <3>2. Distance(v, p, con) \in 0 .. l
      BY <2>1, DistanceFromBall
    <3>3. ~ (k + 1 <= i)
      <4>1. SUFFICES ASSUME k + 1 <= i PROVE FALSE
        OBVIOUS
      <4>2. d <= Distance(v, s.bfs[i], con)
        BY <1>1, <4>1 DEF SearchInv, QueuedByDistance
      <4>3. QED
        BY <1>3, <2>1, <3>1, <3>2, <4>2
    <3>4. i <= k
      BY <1>1, <3>3
    <3>5. QED
      BY <3>1, <3>4 DEF SearchInv, PoppedAreDone
  <2>4. QED
    BY <1>5, <2>1, <2>2, <2>3
<1> HIDE DEF T, d
<1>6. \A l \in 0 .. d : l \in T
  BY <1>3, <1>4, <1>5, InductionUpTo
<1>7. QED
  BY <1>3, <1>6 DEF T, d

(***************************************************************************)
(* A visit keeps all this.                                                 *)
(***************************************************************************)
LEMMA VisitKeepsOrder ==
    ASSUME NEW v \in Views, NEW con \in Node,
           NEW k \in 0 .. Cardinality(Node) - 1, NEW s \in SearchState,
           SearchInv(v, con, k, s), k < Len(s.bfs)
    PROVE  SearchInv(v, con, k + 1, Visit(v, s, k + 1))
<1> DEFINE C == Cardinality(Node)
           D(n) == Distance(v, n, con)
           n == s.bfs[k + 1]
           t == Visit(v, s, k + 1)
           d == D(n)
<1>1. /\ C \in Nat /\ k \in 0 .. C /\ k + 1 \in 1 .. Len(s.bfs) /\ k + 1 \in 0 .. C
      /\ s.bfs \in Seq(Node) /\ Len(s.bfs) \in Nat
      /\ DOMAIN s.traversed = Range(s.bfs)
  BY NumberOfNodes DEF SearchState
<1>2. /\ t \in SearchState
      /\ DOMAIN t.traversed = DOMAIN s.traversed \cup Range(v[n])
      /\ Len(t.bfs) >= Len(s.bfs)
      /\ \A i \in 1 .. Len(s.bfs) : t.bfs[i] = s.bfs[i]
      /\ \A i \in Len(s.bfs) + 1 .. Len(t.bfs) :
           t.bfs[i] \in Range(v[n]) \ DOMAIN s.traversed
      /\ \A m \in DOMAIN s.traversed : t.traversed[m] = s.traversed[m]
      /\ \A m \in DOMAIN t.traversed \ DOMAIN s.traversed :
           m \in Range(v[n]) /\ t.traversed[m] = n
  <2>1. Visited(v, s.bfs[k + 1], s, Visit(v, s, k + 1))
    BY <1>1, VisitFacts
  <2>2. QED
    BY <2>1 DEF Visited
<1> HIDE DEF t
<1>3. Len(t.bfs) \in Nat
  BY <1>2 DEF SearchState
<1>4. \A i \in 1 .. Len(s.bfs) : s.bfs[i] \in Ball(v, con)[k] /\ D(s.bfs[i]) \in 0 .. k
  <2>1. \A i \in 1 .. Len(s.bfs) : s.bfs[i] \in Ball(v, con)[k]
    BY <1>1 DEF SearchInv, Range
  <2>2. QED
    BY <1>1, <2>1, DistanceFromBall
<1>5. d \in 0 .. k /\ n \in Ball(v, con)[d]
  <2>1. d \in 0 .. k /\ d \in 0 .. C /\ n \in Ball(v, con)[k]
    BY <1>1, <1>4
  <2>2. QED
    BY <1>1, <2>1, DistanceFromBall
<1>6. ASSUME NEW m \in Range(v[n]), m \notin DOMAIN s.traversed
      PROVE  /\ m \in Ball(v, con)[k + 1]
             /\ D(m) = d + 1
  <2>1. d \in 0 .. C - 1 /\ d + 1 \in 0 .. C /\ d \in 0 .. C /\ k + 1 \in d + 1 .. C
    BY <1>1, <1>5
  <2>2. m \in Ball(v, con)[d + 1]
    BY <1>5, <2>1, BallStep
  <2>3. D(m) \in 0 .. d + 1 /\ (m \in Ball(v, con)[d] <=> D(m) <= d)
    BY <2>1, <2>2, DistanceFromBall
  <2>4. m \notin Ball(v, con)[d]
    BY <1>6, NearerIsNoted
  <2>5. m \in Ball(v, con)[k + 1]
    BY <2>1, <2>2, BallGrows
  <2>6. QED
    BY <2>1, <2>3, <2>4, <2>5
<1> HIDE DEF D, d
<1>7. /\ \A i \in 1 .. Len(t.bfs) :
           i \in 1 .. Len(s.bfs) \/ i \in Len(s.bfs) + 1 .. Len(t.bfs)
      /\ \A i \in Len(s.bfs) + 1 .. Len(t.bfs) : D(t.bfs[i]) = d + 1
      /\ \A i \in 1 .. Len(t.bfs) : D(t.bfs[i]) \in Nat
  <2>1. \A i \in 1 .. Len(t.bfs) :
           i \in 1 .. Len(s.bfs) \/ i \in Len(s.bfs) + 1 .. Len(t.bfs)
    BY <1>1, <1>3
  <2>2. \A i \in Len(s.bfs) + 1 .. Len(t.bfs) : D(t.bfs[i]) = d + 1
    BY <1>2, <1>6
  <2>3. \A i \in 1 .. Len(s.bfs) : D(t.bfs[i]) \in Nat
    BY <1>2, <1>4
  <2>4. QED
    BY <1>5, <2>1, <2>2, <2>3
<1>8. \A i \in 1 .. Len(s.bfs) : D(s.bfs[i]) <= d + 1
  BY DEF SearchInv, FrontIsNear, d, D
<1>9. QueuedByDistance(v, con, t)
  <2>1. SUFFICES ASSUME NEW i \in 1 .. Len(t.bfs), NEW j \in 1 .. Len(t.bfs), i <= j
                 PROVE  D(t.bfs[i]) <= D(t.bfs[j])
    BY DEF QueuedByDistance, D
  <2>2. CASE j \in 1 .. Len(s.bfs)
    <3>1. i \in 1 .. Len(s.bfs)
      BY <1>1, <2>1, <2>2
    <3>2. D(s.bfs[i]) <= D(s.bfs[j])
      BY <2>1, <2>2, <3>1 DEF SearchInv, QueuedByDistance, D
    <3>3. QED
      BY <1>2, <2>2, <3>1, <3>2
  <2>3. CASE j \in Len(s.bfs) + 1 .. Len(t.bfs)
    <3>1. D(t.bfs[j]) = d + 1
      BY <1>7, <2>3
    <3>2. CASE i \in 1 .. Len(s.bfs)
      BY <1>2, <1>8, <3>1, <3>2
    <3>3. CASE i \in Len(s.bfs) + 1 .. Len(t.bfs)
      <4>1. D(t.bfs[i]) = d + 1
        BY <1>7, <3>3
      <4>2. QED
        BY <1>5, <3>1, <4>1
    <3>4. QED
      BY <1>7, <3>2, <3>3
  <2>4. QED
    BY <1>7, <2>2, <2>3
<1>10. FrontIsNear(v, con, k + 1, t)
  <2>1. SUFFICES ASSUME k + 1 < Len(t.bfs), NEW i \in 1 .. Len(t.bfs)
                 PROVE  D(t.bfs[i]) <= D(t.bfs[k + 2]) + 1
    BY DEF FrontIsNear, D
  <2>2. k + 1 \in 1 .. Len(t.bfs) /\ k + 2 \in 1 .. Len(t.bfs)
    BY <1>1, <1>3, <2>1
  <2>3. d <= D(t.bfs[k + 2])
    <3>1. D(t.bfs[k + 1]) <= D(t.bfs[k + 2])
      BY <1>1, <1>9, <2>2 DEF QueuedByDistance, D
    <3>2. D(t.bfs[k + 1]) = d
      BY <1>1, <1>2 DEF d
    <3>3. QED
      BY <3>1, <3>2
  <2>4. D(t.bfs[i]) <= d + 1
    <3>1. CASE i \in 1 .. Len(s.bfs)
      BY <1>2, <1>8, <3>1
    <3>2. CASE i \in Len(s.bfs) + 1 .. Len(t.bfs)
      BY <1>5, <1>7, <3>2
    <3>3. QED
      BY <1>7, <3>1, <3>2
  <2>5. D(t.bfs[i]) \in Nat /\ D(t.bfs[k + 2]) \in Nat
    BY <1>7, <2>2
  <2>6. QED
    BY <1>5, <2>3, <2>4, <2>5
<1>11. PoppedAreDone(v, k + 1, t)
  <2>1. SUFFICES ASSUME NEW i \in 1 .. Len(t.bfs), i <= k + 1
                 PROVE  Range(v[t.bfs[i]]) \subseteq DOMAIN t.traversed
    BY DEF PoppedAreDone
  <2>2. i \in 1 .. Len(s.bfs) /\ t.bfs[i] = s.bfs[i]
    <3>1. i \in Nat /\ i >= 1 /\ k \in Nat
      OBVIOUS
    <3>2. i \in 1 .. Len(s.bfs)
      <4>1. Len(s.bfs) \in Nat /\ k + 1 \in 1 .. Len(s.bfs)
        BY <1>1
      <4>2. QED
        BY <2>1, <3>1, <4>1
    <3>3. QED
      BY <1>2, <3>2, Zenon
  <2>3. CASE i = k + 1
    BY <1>2, <2>2, <2>3
  <2>4. CASE i <= k
    BY <1>2, <2>2, <2>4 DEF SearchInv, PoppedAreDone
  <2>5. QED
    BY <1>1, <2>1, <2>3, <2>4
<1>12. ReachedFromNearer(v, con, t)
  <2>1. SUFFICES ASSUME NEW m \in DOMAIN t.traversed \ {con}
                 PROVE  /\ t.traversed[m] \in DOMAIN t.traversed
                        /\ m \in Range(v[t.traversed[m]])
                        /\ D(m) = D(t.traversed[m]) + 1
    BY DEF ReachedFromNearer, D
  <2>2. CASE m \in DOMAIN s.traversed
    BY <1>2, <2>2 DEF SearchInv, ReachedFromNearer, D
  <2>3. CASE m \notin DOMAIN s.traversed
    <3>1. m \in Range(v[n]) /\ t.traversed[m] = n
      BY <1>2, <2>3
    <3>2. n \in DOMAIN s.traversed
      BY <1>1 DEF Range
    <3>3. QED
      BY <1>2, <1>6, <2>3, <3>1, <3>2 DEF d
  <2>4. QED
    BY <2>2, <2>3
<1>13. DOMAIN t.traversed \subseteq Ball(v, con)[k + 1]
  <2>1. DOMAIN s.traversed \subseteq Ball(v, con)[k + 1]
    <3>1. Ball(v, con)[k] \subseteq Ball(v, con)[k + 1]
      BY BallStep
    <3>2. QED
      BY <3>1 DEF SearchInv
  <2>2. QED
    BY <1>2, <1>6, <2>1
<1>14. QED
  <2>1. Len(t.bfs) >= 1 /\ con \in DOMAIN t.traversed
    BY <1>1, <1>2, <1>3 DEF SearchInv
  <2>2. QED
    BY <1>9, <1>10, <1>11, <1>12, <1>13, <2>1 DEF SearchInv, t

(***************************************************************************)
(* All nodes that the search of SetPair has noted are one link further     *)
(* from the controller than the node they were reached from.               *)
(***************************************************************************)
LEMMA SearchIsShortest ==
    ASSUME NEW v \in Views, NEW con \in Node
    PROVE  LET up_hop == Traversed(v, con)
               C == Cardinality(Node)
           IN  /\ con \in DOMAIN up_hop
               /\ DOMAIN up_hop \subseteq Ball(v, con)[C]
               /\ \A m \in DOMAIN up_hop \ {con} :
                    /\ up_hop[m] \in DOMAIN up_hop
                    /\ m \in Range(v[up_hop[m]])
                    /\ Distance(v, m, con) = Distance(v, up_hop[m], con) + 1
<1> DEFINE C == Cardinality(Node)
           s == Search(v, con)
           T == {k \in 0 .. C : SearchInv(v, con, k, s[k])}
<1>1. C \in Nat /\ 0 \in 0 .. C
  BY NumberOfNodes
<1>2. /\ s[0] = [bfs |-> <<con>>, traversed |-> [n \in {con} |-> con]]
      /\ \A k \in 1 .. C : s[k] = IF k > Len(s[k - 1].bfs) THEN s[k - 1]
                                  ELSE Visit(v, s[k - 1], k)
      /\ \A k \in 0 .. C : s[k] \in SearchState
  BY SearchDefined
<1> HIDE DEF s
<1>3. 0 \in T
  <2>1. /\ s[0].bfs = <<con>> /\ Len(s[0].bfs) = 1 /\ s[0].bfs[1] = con
        /\ DOMAIN s[0].traversed = {con}
    BY <1>2
  <2>2. con \in Ball(v, con)[0] /\ Ball(v, con)[0] = {con}
    BY BallDefined
  <2>3. Distance(v, con, con) = 0
    BY <1>1, <2>2, DistanceFromBall
  <2>4. /\ QueuedByDistance(v, con, s[0])
        /\ FrontIsNear(v, con, 0, s[0])
        /\ PoppedAreDone(v, 0, s[0])
        /\ ReachedFromNearer(v, con, s[0])
    BY <2>1, <2>3 DEF QueuedByDistance, FrontIsNear, PoppedAreDone, ReachedFromNearer
  <2>5. QED
    BY <1>1, <2>1, <2>2, <2>4 DEF SearchInv
<1>4. ASSUME NEW k \in 0 .. C - 1, k \in T
      PROVE  k + 1 \in T
  <2>1. /\ k \in 0 .. C /\ k + 1 \in 1 .. C /\ (k + 1) - 1 = k
        /\ s[k] \in SearchState /\ Len(s[k].bfs) \in Nat
    BY <1>1, <1>2 DEF SearchState
  <2>2. CASE k < Len(s[k].bfs)
    <3>1. s[k + 1] = Visit(v, s[k], k + 1)
      BY <1>2, <2>1, <2>2
    <3>2. SearchInv(v, con, k + 1, Visit(v, s[k], k + 1))
      BY <1>4, <2>1, <2>2, VisitKeepsOrder
    <3>3. QED
      BY <2>1, <3>1, <3>2
  <2>3. CASE ~ (k < Len(s[k].bfs))
    <3>1. s[k + 1] = s[k]
      BY <1>2, <2>1, <2>3
    <3>2. Ball(v, con)[k] \subseteq Ball(v, con)[k + 1]
      BY BallStep
    <3>3. /\ FrontIsNear(v, con, k + 1, s[k])
          /\ PoppedAreDone(v, k + 1, s[k])
      BY <1>4, <2>1, <2>3 DEF SearchInv, FrontIsNear, PoppedAreDone
    <3>4. SearchInv(v, con, k + 1, s[k])
      BY <1>4, <3>2, <3>3 DEF SearchInv
    <3>5. QED
      BY <2>1, <3>1, <3>4
  <2>4. QED
    BY <2>2, <2>3
<1> HIDE DEF T
<1>5. SearchInv(v, con, C, s[C])
  <2>1. \A k \in 0 .. C : k \in T
    <3> HIDE DEF C
    <3>1. QED
      BY <1>1, <1>3, <1>4, InductionUpTo
  <2>2. QED
    BY <1>1, <2>1 DEF T
<1>6. Traversed(v, con) = s[C].traversed
  BY DEF Traversed, s
<1>7. QED
  BY <1>5, <1>6 DEF SearchInv, ReachedFromNearer

-------------------------------------------------------------------------------
(***************************************************************************)
(* A path from n to con along links, each of which leads one link nearer.  *)
(***************************************************************************)
ShortestPath(v, con, n, path) ==
    /\ path \in Seq(Node)
    /\ Len(path) = Distance(v, n, con) + 1
    /\ path[1] = n
    /\ path[Len(path)] = con
    /\ \A i \in 1 .. Len(path) : Distance(v, path[i], con) = Len(path) - i
    /\ \A i \in 1 .. Len(path) - 1 : path[i + 1] \in Range(v[path[i]])

(***************************************************************************)
(* The path to con goes on from the next node.                             *)
(***************************************************************************)
LEMMA PathGoesOn ==
    ASSUME NEW v \in Views, NEW con \in Node, NEW n \in Node, NEW m,
           NEW path, ShortestPath(v, con, m, path), m \in Range(v[n]),
           Distance(v, m, con) \in Nat,
           Distance(v, n, con) = Distance(v, m, con) + 1
    PROVE  ShortestPath(v, con, n, <<n>> \o path)
<1> DEFINE new == <<n>> \o path
           D(p) == Distance(v, p, con)
<1>1. /\ path \in Seq(Node)
      /\ Len(path) = D(m) + 1
      /\ path[1] = m
      /\ path[Len(path)] = con
      /\ \A i \in 1 .. Len(path) : D(path[i]) = Len(path) - i
      /\ \A i \in 1 .. Len(path) - 1 : path[i + 1] \in Range(v[path[i]])
  BY DEF ShortestPath
<1>2. /\ new \in Seq(Node)
      /\ Len(new) = Len(path) + 1
      /\ new[1] = n
      /\ \A i \in 2 .. Len(path) + 1 : new[i] = path[i - 1]
  BY <1>1
<1> HIDE DEF new
<1>3. Len(path) \in Nat /\ Len(path) >= 1
  BY <1>1
<1>4. ASSUME NEW i \in 1 .. Len(new)
      PROVE  D(new[i]) = Len(new) - i
  <2>1. CASE i = 1
    BY <1>1, <1>2, <2>1
  <2>2. CASE i # 1
    <3>1. i - 1 \in 1 .. Len(path) /\ new[i] = path[i - 1]
      BY <1>2, <1>3, <2>2
    <3>2. D(path[i - 1]) = Len(path) - (i - 1)
      BY <1>1, <3>1
    <3>3. QED
      BY <1>2, <1>3, <3>1, <3>2
  <2>3. QED
    BY <2>1, <2>2
<1>5. ASSUME NEW i \in 1 .. Len(new) - 1
      PROVE  new[i + 1] \in Range(v[new[i]])
  <2>1. new[i + 1] = path[i]
    BY <1>2, <1>3
  <2>2. CASE i = 1
    BY <1>1, <1>2, <2>1, <2>2
  <2>3. CASE i # 1
    <3>1. i - 1 \in 1 .. Len(path) - 1 /\ new[i] = path[i - 1] /\ (i - 1) + 1 = i
      BY <1>2, <1>3, <2>3
    <3>2. path[(i - 1) + 1] \in Range(v[path[i - 1]])
      BY <1>1, <3>1
    <3>3. QED
      BY <2>1, <3>1, <3>2
  <2>4. QED
    BY <2>2, <2>3
<1>6. new[Len(new)] = con
  BY <1>1, <1>2, <1>3
<1>7. Len(new) = D(n) + 1
  BY <1>1, <1>2
<1>8. QED
  BY <1>2, <1>4, <1>5, <1>6, <1>7 DEF ShortestPath, new

(***************************************************************************)
(* What SetPair finds for a switch that can be reached is a shortest path. *)
(***************************************************************************)
LEMMA ControlPathIsShortest ==
    ASSUME NEW v \in Views, NEW con \in Node, NEW swc \in DOMAIN Traversed(v, con)
    PROVE  ShortestPath(v, con, swc, ControlPath(v, con, swc))
<1> DEFINE C == Cardinality(Node)
           D(n) == Distance(v, n, con)
           up_hop == Traversed(v, con)
           Up == DOMAIN up_hop
           PathOf(f, n) == IF n = con THEN <<con>> ELSE <<n>> \o f[up_hop[n]]
           Nearer(d) == {n \in Up : D(n) <= d}
           Unfolds(f, S) == f = [n \in S |-> PathOf(f, n)]
           path == CHOOSE f : Unfolds(f, Up)
<1>1. /\ con \in Up
      /\ Up \subseteq Ball(v, con)[C]
      /\ \A n \in Up \ {con} : /\ up_hop[n] \in Up
                              /\ n \in Range(v[up_hop[n]])
                              /\ D(n) = D(up_hop[n]) + 1
  BY SearchIsShortest
<1>2. C \in Nat /\ C \in 0 .. C /\ 0 \in 0 .. C
  BY NumberOfNodes
<1>3. Up \subseteq Node /\ \A n \in Up : D(n) \in 0 .. C
  BY <1>1, <1>2, BallDefined, DistanceFromBall
<1>4. D(con) = 0
  <2>1. con \in Ball(v, con)[0]
    BY BallDefined
  <2>2. D(con) \in 0 .. 0
    BY <1>2, <2>1, DistanceFromBall
  <2>3. QED
    BY <2>2
<1>5. ControlPath(v, con, swc) = path[swc]
  BY DEF ControlPath
<1> HIDE DEF C, D, up_hop
<1>6. \E f : Unfolds(f, Up)
  <2> DEFINE T == {d \in 0 .. C : \E f : Unfolds(f, Nearer(d))}
  <2>1. 0 \in T
    <3> DEFINE f == [n \in {con} |-> <<con>>]
    <3>1. Nearer(0) = {con}
      BY <1>1, <1>3, <1>4
    <3>2. Unfolds(f, {con})
      OBVIOUS
    <3> HIDE DEF f, Unfolds, Nearer
    <3>3. QED
      BY <1>2, <3>1, <3>2
  <2>2. ASSUME NEW d \in 0 .. C - 1, d \in T
        PROVE  d + 1 \in T
    <3>1. PICK f : Unfolds(f, Nearer(d))
      BY <2>2
    <3> DEFINE g == [n \in Nearer(d + 1) |->
                        IF n \in Nearer(d) THEN f[n] ELSE PathOf(f, n)]
    <3>2. Nearer(d) \subseteq Nearer(d + 1)
      BY <1>2, <1>3
    <3>3. \A n \in Nearer(d) : g[n] = f[n] /\ f[n] = PathOf(f, n)
      <4> HIDE DEF PathOf, Nearer
      <4>1. QED
        BY <3>1, <3>2
    <3>4. \A n \in Nearer(d + 1) \ {con} : up_hop[n] \in Nearer(d)
      BY <1>1, <1>2, <1>3
    <3>5. ASSUME NEW n \in Nearer(d + 1)
          PROVE  g[n] = PathOf(g, n)
      <4>1. CASE n = con
        <5>1. con \in Nearer(d)
          BY <1>1, <1>2, <1>4
        <5> HIDE DEF g, Nearer
        <5>2. QED
          BY <3>3, <4>1, <5>1
      <4>2. CASE n # con
        <5>1. g[up_hop[n]] = f[up_hop[n]]
          BY <3>3, <3>4, <4>2
        <5>2. g[n] = PathOf(f, n)
          <6>1. CASE n \in Nearer(d)
            BY <3>3, <6>1
          <6>2. CASE n \notin Nearer(d)
            <7> HIDE DEF PathOf, Nearer
            <7>1. QED
              BY <6>2
          <6>3. QED
            BY <6>1, <6>2
        <5> HIDE DEF g, Nearer
        <5>3. QED
          BY <4>2, <5>1, <5>2
      <4>3. QED
        BY <4>1, <4>2
    <3>6. Unfolds(g, Nearer(d + 1))
      <4>1. g = [n \in Nearer(d + 1) |-> g[n]]
        OBVIOUS
      <4> HIDE DEF g, Nearer, PathOf
      <4>2. QED
        BY <3>5, <4>1
    <3> HIDE DEF g, Unfolds, Nearer
    <3>7. QED
      BY <1>2, <3>6
  <2> HIDE DEF T
  <2>3. \A d \in 0 .. C : d \in T
    BY <1>2, <2>1, <2>2, InductionUpTo
  <2>4. Nearer(C) = Up
    BY <1>2, <1>3
  <2> HIDE DEF Unfolds, Nearer
  <2>5. QED
    BY <1>2, <2>3, <2>4 DEF T
<1>7. Unfolds(path, Up)
  <2> HIDE DEF Unfolds
  <2>1. QED
    BY <1>6
<1> HIDE DEF path
<1>8. \A n \in Up : path[n] = PathOf(path, n)
  <2> HIDE DEF PathOf
  <2>1. QED
    BY <1>7
<1> DEFINE T == {d \in 0 .. C : \A n \in Nearer(d) : ShortestPath(v, con, n, path[n])}
<1>9. 0 \in T
  <2>1. SUFFICES ASSUME NEW n \in Nearer(0)
                 PROVE  ShortestPath(v, con, n, path[n])
    BY <1>2
  <2>2. n = con
    BY <1>1, <1>3
  <2>3. path[n] = <<con>>
    BY <1>1, <1>8, <2>2
  <2>4. QED
    BY <1>4, <2>2, <2>3 DEF ShortestPath, D
<1>10. ASSUME NEW d \in 0 .. C - 1, d \in T
       PROVE  d + 1 \in T
  <2>1. d \in 0 .. C /\ d + 1 \in 0 .. C
    BY <1>2
  <2>2. SUFFICES ASSUME NEW n \in Nearer(d + 1)
                 PROVE  ShortestPath(v, con, n, path[n])
    BY <2>1
  <2>3. CASE n = con
    <3>1. con \in Nearer(d)
      BY <1>1, <1>4, <2>1
    <3>2. QED
      BY <1>10, <2>3, <3>1
  <2>4. CASE n # con
    <3>1. /\ n \in Up /\ n \in Node
          /\ up_hop[n] \in Nearer(d)
          /\ up_hop[n] \in Node
          /\ D(up_hop[n]) \in Nat
          /\ n \in Range(v[up_hop[n]])
          /\ D(n) = D(up_hop[n]) + 1
      BY <1>1, <1>2, <1>3, <2>1, <2>4
    <3>2. ShortestPath(v, con, up_hop[n], path[up_hop[n]])
      BY <1>10, <3>1
    <3>3. up_hop[n] \in Range(v[n])
      BY <3>1, ViewFacts
    <3>4. path[n] = <<n>> \o path[up_hop[n]]
      BY <1>8, <2>4, <3>1
    <3>5. QED
      BY <3>1, <3>2, <3>3, <3>4, PathGoesOn DEF D
  <2>5. QED
    BY <2>3, <2>4
<1> HIDE DEF T
<1>11. \A d \in 0 .. C : d \in T
  BY <1>2, <1>9, <1>10, InductionUpTo
<1>12. swc \in Nearer(C)
  BY <1>2, <1>3 DEF up_hop
<1>13. QED
  BY <1>2, <1>5, <1>11, <1>12 DEF T

(***************************************************************************)
(* A shortest path to con is one from con, too.                            *)
(***************************************************************************)
LEMMA ShortestPathBack ==
    ASSUME NEW v \in Views, NEW con \in Node, NEW n \in Node,
           NEW k \in 0 .. Cardinality(Node), n \in Ball(v, con)[k],
           NEW path, ShortestPath(v, con, n, path)
    PROVE  \A i \in 1 .. Len(path) :
             /\ i - 1 \in 0 .. Cardinality(Node)
             /\ path[i] \in Ball(v, n)[i - 1]
             /\ Distance(v, path[i], n) = i - 1
             /\ path[i] \in Ball(v, con)[Len(path) - i]
<1> DEFINE C == Cardinality(Node)
           L == Len(path)
           T == {j \in 0 .. L - 1 : path[j + 1] \in Ball(v, n)[j]}
           U == {j \in 0 .. L - 1 : path[L - j] \in Ball(v, con)[j]}
<1>1. C \in Nat
  BY NumberOfNodes
<1>2. Distance(v, n, con) \in 0 .. k
  BY DistanceFromBall
<1>3. /\ path \in Seq(Node)
      /\ L = Distance(v, n, con) + 1
      /\ path[1] = n
      /\ path[L] = con
      /\ \A i \in 1 .. L : Distance(v, path[i], con) = L - i
      /\ \A i \in 1 .. L - 1 : path[i + 1] \in Range(v[path[i]])
  BY DEF ShortestPath
<1>4. L \in Nat /\ L - 1 \in 0 .. C
  BY <1>1, <1>2, <1>3
<1> HIDE DEF L, C
<1>5. 0 \in T
  BY <1>3, <1>4, BallDefined
<1>6. ASSUME NEW j \in 0 .. L - 1 - 1, j \in T
      PROVE  j + 1 \in T
  <2>1. j \in 0 .. C - 1 /\ j + 1 \in 1 .. L - 1 /\ j + 1 \in 0 .. L - 1
    BY <1>1, <1>4
  <2>2. path[(j + 1) + 1] \in Range(v[path[j + 1]])
    BY <1>3, <2>1
  <2>3. Range(v[path[j + 1]]) \subseteq Ball(v, n)[j + 1]
    BY <1>6, <2>1, BallStep DEF C
  <2>4. QED
    BY <2>1, <2>2, <2>3
<1>7. 0 \in U
  BY <1>3, <1>4, BallDefined
<1>8. ASSUME NEW j \in 0 .. L - 1 - 1, j \in U
      PROVE  j + 1 \in U
  <2>1. /\ j \in 0 .. C - 1 /\ j + 1 \in 0 .. L - 1
        /\ L - (j + 1) \in 1 .. L - 1 /\ L - (j + 1) \in 1 .. L
        /\ (L - (j + 1)) + 1 = L - j
    BY <1>1, <1>4
  <2>2. path[L - (j + 1)] \in Node
    BY <1>3, <2>1 DEF L
  <2>3. path[L - j] \in Range(v[path[L - (j + 1)]])
    BY <1>3, <2>1
  <2>4. path[L - (j + 1)] \in Range(v[path[L - j]])
    BY <2>2, <2>3, ViewFacts
  <2>5. Range(v[path[L - j]]) \subseteq Ball(v, con)[j + 1]
    BY <1>8, <2>1, BallStep DEF C
  <2>6. QED
    BY <2>1, <2>4, <2>5
<1> HIDE DEF T, U
<1>9. \A j \in 0 .. L - 1 : j \in T /\ j \in U
  BY <1>4, <1>5, <1>6, <1>7, <1>8, InductionUpTo
<1>10. ASSUME NEW i \in 1 .. L
       PROVE  /\ i - 1 \in 0 .. C
              /\ path[i] \in Ball(v, n)[i - 1]
              /\ Distance(v, path[i], n) = i - 1
              /\ path[i] \in Ball(v, con)[L - i]
  <2>1. /\ i - 1 \in 0 .. L - 1 /\ i - 1 \in 0 .. C /\ (i - 1) + 1 = i
        /\ L - i \in 0 .. L - 1 /\ L - i \in 0 .. C /\ L - (L - i) = i
    BY <1>1, <1>4
  <2>2. path[i] \in Ball(v, n)[i - 1] /\ path[i] \in Ball(v, con)[L - i]
    BY <1>9, <2>1 DEF T, U
  <2> DEFINE e == Distance(v, path[i], n)
  <2>3. e \in 0 .. i - 1 /\ path[i] \in Ball(v, n)[e]
    <3>1. /\ e \in 0 .. i - 1
          /\ \A j \in 0 .. C : path[i] \in Ball(v, n)[j] <=> e <= j
      BY <2>1, <2>2, DistanceFromBall DEF C
    <3>2. e \in 0 .. C /\ e <= e
      BY <1>1, <2>1, <3>1
    <3>3. QED
      BY <3>1, <3>2
  <2> HIDE DEF e
  <2>4. n \in Ball(v, path[i])[e]
    <3>1. e \in 0 .. C
      BY <1>1, <2>1, <2>3
    <3>2. QED
      BY <2>3, <3>1, BallsSymmetric DEF C
  <2>5. /\ e \in 0 .. C - (L - i)
        /\ (L - i) + e \in 0 .. C
    BY <1>1, <1>4, <2>1, <2>3
  <2>6. n \in Ball(v, con)[(L - i) + e]
    BY <2>1, <2>2, <2>4, <2>5, BallsJoin DEF C
  <2>7. Distance(v, n, con) \in 0 .. (L - i) + e
    BY <2>5, <2>6, DistanceFromBall DEF C
  <2>8. e = i - 1
    <3>1. L - 1 = Distance(v, n, con)
      BY <1>2, <1>3
    <3>2. L - 1 <= (L - i) + e
      BY <2>7, <3>1
    <3>3. QED
      BY <1>4, <2>3, <3>2
  <2>9. QED
    BY <2>1, <2>2, <2>8 DEF e
<1>11. QED
  BY <1>10 DEF L, C

-------------------------------------------------------------------------------
(***************************************************************************)
(* From n, next is one link nearer to the owner of a.                      *)
(***************************************************************************)
OneLinkNearer(v, n, a, next) ==
    /\ n \in Ball(v, Owner(a))[Cardinality(Node)]
    /\ next \in Ball(v, Owner(a))[Cardinality(Node)]
    /\ Distance(v, n, Owner(a)) = Distance(v, next, Owner(a)) + 1

RouteEntry == [node: Node, dst: Addr, next: Node, source: Addr]

(***************************************************************************)
(* The routes of a pair: each is one link of a shortest way, the last over *)
(* the link of the address, and is gone on from by another of them; the    *)
(* source of each is the address at the other end.                         *)
(***************************************************************************)
RoutesOfPair(v, con_ip, src_ip, routes) ==
    /\ con_ip \in Addr /\ src_ip \in Addr
    /\ routes \subseteq RouteEntry
    /\ \A r \in routes :
         /\ OneLinkNearer(v, r.node, r.dst, r.next)
         /\ \/ r.dst = con_ip /\ r.source = src_ip
            \/ r.dst = src_ip /\ r.source = con_ip
         /\ r.next = Owner(r.dst) => r.node = r.dst[2]
         /\ r.next # Owner(r.dst) =>
               \E q \in routes : q.node = r.next /\ q.dst = r.dst
    /\ \E r \in routes : r.node = Owner(src_ip) /\ r.dst = con_ip
    /\ \E r \in routes : r.node = Owner(con_ip) /\ r.dst = src_ip

(***************************************************************************)
(* Those are the routes that ControlPathRouting makes of the path that     *)
(* SetPair has found.                                                      *)
(***************************************************************************)
LEMMA ControlRoutesOfPair ==
    ASSUME NEW v \in Views, NEW con \in Node, NEW swc \in Node, con # swc,
           swc \in DOMAIN Traversed(v, con)
    PROVE  LET path == ControlPath(v, con, swc)
               con_ip == <<con, path[Len(path) - 1]>>
               src_ip == <<swc, path[2]>>
           IN  RoutesOfPair(v, con_ip, src_ip, ControlRoutes(path, con_ip, src_ip))
<1> DEFINE path == ControlPath(v, con, swc)
           C == Cardinality(Node)
           L == Len(path)
           con_ip == <<con, path[L - 1]>>
           src_ip == <<swc, path[2]>>
           To(i) == [node |-> path[i], dst |-> con_ip,
                     next |-> path[i + 1], source |-> src_ip]
           From(i) == [node |-> path[i + 1], dst |-> src_ip,
                       next |-> path[i], source |-> con_ip]
           routes == ControlRoutes(path, con_ip, src_ip)
<1>1. C \in Nat /\ C \in 0 .. C
  BY NumberOfNodes
<1>2. ShortestPath(v, con, swc, path)
  BY ControlPathIsShortest
<1>3. swc \in Ball(v, con)[C]
  BY SearchIsShortest
<1>4. routes = UNION {{To(i), From(i)} : i \in 1 .. L - 1}
  BY DEF ControlRoutes
<1> HIDE DEF path
<1>5. /\ path \in Seq(Node)
      /\ path[1] = swc /\ path[L] = con
      /\ L = Distance(v, swc, con) + 1
      /\ \A i \in 1 .. L : Distance(v, path[i], con) = L - i
  BY <1>2 DEF ShortestPath
<1>6. \A i \in 1 .. L : /\ i - 1 \in 0 .. C
                       /\ path[i] \in Ball(v, swc)[i - 1]
                       /\ Distance(v, path[i], swc) = i - 1
                       /\ path[i] \in Ball(v, con)[L - i]
  BY <1>1, <1>2, <1>3, ShortestPathBack DEF C
<1>7. L \in Nat /\ L >= 2
  <2>1. L \in Nat /\ L >= 1
    <3>1. Distance(v, swc, con) \in 0 .. C
      BY <1>1, <1>3, DistanceFromBall
    <3>2. QED
      BY <1>5, <3>1
  <2>2. L # 1
    BY <1>5
  <2> HIDE DEF L
  <2>3. QED
    BY <2>1, <2>2
<1> HIDE DEF C, L, routes
<1>8. \A i \in 1 .. L : /\ path[i] \in Node
                       /\ path[i] \in Ball(v, swc)[C]
                       /\ path[i] \in Ball(v, con)[C]
                       /\ (path[i] = swc => i = 1)
                       /\ (path[i] = con => i = L)
  <2>1. SUFFICES ASSUME NEW i \in 1 .. L
                 PROVE  /\ path[i] \in Node
                        /\ path[i] \in Ball(v, swc)[C]
                        /\ path[i] \in Ball(v, con)[C]
                        /\ (path[i] = swc => i = 1)
                        /\ (path[i] = con => i = L)
    OBVIOUS
  <2>2. path[i] \in Node
    BY <1>5 DEF L
  <2>3. L \in 1 .. L /\ L - 1 \in 0 .. C /\ 1 \in 1 .. L
    BY <1>6, <1>7
  <2>4. i - 1 \in 0 .. C /\ C \in (i - 1) .. C /\ L - i \in 0 .. C /\ C \in (L - i) .. C
    BY <1>1, <1>7, <2>3
  <2>5. path[i] \in Ball(v, swc)[C]
    BY <1>6, <2>4, BallGrows DEF C
  <2>6. path[i] \in Ball(v, con)[C]
    BY <1>6, <2>4, BallGrows DEF C
  <2>7. path[i] = swc => i = 1
    <3>1. Distance(v, path[i], swc) = i - 1 /\ Distance(v, path[1], swc) = 1 - 1
      BY <1>6, <2>3
    <3>2. QED
      BY <1>5, <3>1
  <2>8. path[i] = con => i = L
    <3>1. Distance(v, path[i], con) = L - i /\ Distance(v, path[L], con) = L - L
      BY <1>5, <2>3
    <3>2. QED
      BY <1>5, <1>7, <3>1
  <2>9. QED
    BY <2>2, <2>5, <2>6, <2>7, <2>8
<1>9. con_ip \in Addr /\ src_ip \in Addr /\ Owner(con_ip) = con /\ Owner(src_ip) = swc
  <2>1. /\ L - 1 \in 1 .. L /\ L - 1 # L /\ 2 \in 1 .. L /\ 2 # 1
    BY <1>7
  <2>2. path[L - 1] \in Node /\ path[L - 1] # con /\ path[2] \in Node /\ path[2] # swc
    BY <1>8, <2>1
  <2>3. QED
    BY <2>2 DEF Addr, Owner
<1>10. con_ip[2] = path[L - 1] /\ src_ip[2] = path[2]
  OBVIOUS
<1> HIDE DEF con_ip, src_ip
<1>11. ASSUME NEW i \in 1 .. L - 1
       PROVE  /\ To(i) \in RouteEntry
              /\ OneLinkNearer(v, path[i], con_ip, path[i + 1])
              /\ path[i + 1] = con => path[i] = con_ip[2]
              /\ path[i + 1] # con => \E q \in routes : q.node = path[i + 1] /\ q.dst = con_ip
  <2>1. i \in 1 .. L /\ i + 1 \in 1 .. L
    BY <1>7
  <2>2. To(i) \in RouteEntry
    BY <1>8, <1>9, <2>1 DEF RouteEntry
  <2>3. OneLinkNearer(v, path[i], con_ip, path[i + 1])
    <3>1. Distance(v, path[i], con) = L - i /\ Distance(v, path[i + 1], con) = L - (i + 1)
      BY <1>5, <2>1
    <3>2. L - i = (L - (i + 1)) + 1
      BY <1>7
    <3>3. QED
      BY <1>8, <1>9, <2>1, <3>1, <3>2 DEF OneLinkNearer, C
  <2>4. path[i + 1] = con => path[i] = con_ip[2]
    <3>1. path[i + 1] = con => i + 1 = L
      BY <1>8, <2>1
    <3>2. i + 1 = L => i = L - 1
      BY <1>7
    <3>3. QED
      BY <1>10, <3>1, <3>2
  <2>5. ASSUME path[i + 1] # con
        PROVE  \E q \in routes : q.node = path[i + 1] /\ q.dst = con_ip
    <3>1. i + 1 # L
      BY <1>5, <2>5
    <3>2. i + 1 \in 1 .. L - 1
      BY <1>7, <3>1
    <3>3. To(i + 1) \in routes
      BY <1>4, <3>2
    <3>4. QED
      BY <3>3
  <2>6. QED
    BY <2>2, <2>3, <2>4, <2>5
<1>12. ASSUME NEW i \in 1 .. L - 1
       PROVE  /\ From(i) \in RouteEntry
              /\ OneLinkNearer(v, path[i + 1], src_ip, path[i])
              /\ path[i] = swc => path[i + 1] = src_ip[2]
              /\ path[i] # swc => \E q \in routes : q.node = path[i] /\ q.dst = src_ip
  <2>1. i \in 1 .. L /\ i + 1 \in 1 .. L
    BY <1>7
  <2>2. From(i) \in RouteEntry
    BY <1>8, <1>9, <2>1 DEF RouteEntry
  <2>3. OneLinkNearer(v, path[i + 1], src_ip, path[i])
    <3>1. Distance(v, path[i], swc) = i - 1 /\ Distance(v, path[i + 1], swc) = (i + 1) - 1
      BY <1>6, <2>1
    <3>2. (i + 1) - 1 = (i - 1) + 1
      OBVIOUS
    <3>3. QED
      BY <1>8, <1>9, <2>1, <3>1, <3>2 DEF OneLinkNearer, C
  <2>4. path[i] = swc => path[i + 1] = src_ip[2]
    <3>1. path[i] = swc => i = 1
      BY <1>8, <2>1
    <3>2. QED
      BY <1>10, <3>1
  <2>5. ASSUME path[i] # swc
        PROVE  \E q \in routes : q.node = path[i] /\ q.dst = src_ip
    <3>1. i # 1
      BY <1>5, <2>5
    <3>2. i - 1 \in 1 .. L - 1 /\ (i - 1) + 1 = i
      BY <1>7, <3>1
    <3>3. From(i - 1) \in routes
      BY <1>4, <3>2
    <3>4. QED
      BY <3>2, <3>3
  <2>6. QED
    BY <2>2, <2>3, <2>4, <2>5
<1>13. ASSUME NEW r \in routes
       PROVE  /\ r \in RouteEntry
              /\ OneLinkNearer(v, r.node, r.dst, r.next)
              /\ \/ r.dst = con_ip /\ r.source = src_ip
                 \/ r.dst = src_ip /\ r.source = con_ip
              /\ r.next = Owner(r.dst) => r.node = r.dst[2]
              /\ r.next # Owner(r.dst) =>
                    \E q \in routes : q.node = r.next /\ q.dst = r.dst
  <2>1. PICK i \in 1 .. L - 1 : r = To(i) \/ r = From(i)
    BY <1>4
  <2>2. CASE r = To(i)
    <3>1. /\ r.node = path[i] /\ r.dst = con_ip /\ r.next = path[i + 1]
          /\ r.source = src_ip
      BY <2>2
    <3>2. QED
      BY <1>9, <1>11, <2>2, <3>1
  <2>3. CASE r = From(i)
    <3>1. /\ r.node = path[i + 1] /\ r.dst = src_ip /\ r.next = path[i]
          /\ r.source = con_ip
      BY <2>3
    <3>2. QED
      BY <1>9, <1>12, <2>3, <3>1
  <2>4. QED
    BY <2>1, <2>2, <2>3
<1>14. \E r \in routes : r.node = swc /\ r.dst = con_ip
  <2>1. 1 \in 1 .. L - 1
    BY <1>7
  <2>2. To(1) \in routes
    BY <1>4, <2>1
  <2>3. QED
    BY <1>5, <2>2
<1>15. \E r \in routes : r.node = con /\ r.dst = src_ip
  <2>1. L - 1 \in 1 .. L - 1 /\ (L - 1) + 1 = L
    BY <1>7
  <2>2. From(L - 1) \in routes
    BY <1>4, <2>1
  <2>3. QED
    BY <1>5, <2>1, <2>2
<1>16. RoutesOfPair(v, con_ip, src_ip, routes)
  BY <1>9, <1>13, <1>14, <1>15 DEF RoutesOfPair
<1>17. QED
  BY <1>16 DEF path, con_ip, src_ip, routes, L

-------------------------------------------------------------------------------
TableType == [Node -> [Addr -> Route \cup {NoRoute}]]

(***************************************************************************)
(* A table that routes are added to keeps what it has; what is new is one  *)
(* of the routes, and each destination of theirs has a route.              *)
(***************************************************************************)
AddedTo(table, routes, new) ==
    /\ new \in TableType
    /\ \A n \in Node, a \in Addr :
         \/ table[n][a] # NoRoute /\ new[n][a] = table[n][a]
         \/ /\ table[n][a] = NoRoute /\ new[n][a] = NoRoute
            /\ \A r \in routes : ~ (r.node = n /\ r.dst = a)
         \/ /\ table[n][a] = NoRoute /\ new[n][a] # NoRoute
            /\ \E r \in routes : /\ r.node = n /\ r.dst = a
                                 /\ new[n][a].next = r.next
                                 /\ new[n][a].source = r.source

LEMMA AddedRoutes ==
    ASSUME NEW table \in TableType, NEW routes, routes \subseteq RouteEntry
    PROVE  AddedTo(table, routes, Added(table, routes))
<1> DEFINE new(n, a) == {r \in routes : r.node = n /\ r.dst = a}
           r(n, a) == CHOOSE q \in new(n, a) : TRUE
           entry(n, a) == IF table[n][a] # NoRoute \/ new(n, a) = {} THEN table[n][a]
                          ELSE [next |-> r(n, a).next, source |-> r(n, a).source]
<1>1. Added(table, routes) = [n \in Node |-> [a \in Addr |-> entry(n, a)]]
  BY DEF Added
<1>2. ASSUME NEW n \in Node, NEW a \in Addr
      PROVE  /\ entry(n, a) \in Route \cup {NoRoute}
             /\ \/ table[n][a] # NoRoute /\ entry(n, a) = table[n][a]
                \/ /\ table[n][a] = NoRoute /\ entry(n, a) = NoRoute
                   /\ \A q \in routes : ~ (q.node = n /\ q.dst = a)
                \/ /\ table[n][a] = NoRoute /\ entry(n, a) # NoRoute
                   /\ \E q \in routes : /\ q.node = n /\ q.dst = a
                                        /\ entry(n, a).next = q.next
                                        /\ entry(n, a).source = q.source
  <2>1. table[n][a] \in Route \cup {NoRoute}
    BY DEF TableType
  <2>2. CASE table[n][a] # NoRoute
    BY <2>1, <2>2
  <2>3. CASE table[n][a] = NoRoute /\ new(n, a) = {}
    BY <2>1, <2>3
  <2>4. CASE table[n][a] = NoRoute /\ new(n, a) # {}
    <3>1. r(n, a) \in routes /\ r(n, a).node = n /\ r(n, a).dst = a
      BY <2>4
    <3>2. entry(n, a) = [next |-> r(n, a).next, source |-> r(n, a).source]
      BY <2>4
    <3> HIDE DEF r, entry
    <3>3. r(n, a).next \in Node /\ r(n, a).source \in Addr
      BY <3>1 DEF RouteEntry
    <3>4. entry(n, a) \in Route /\ entry(n, a) # NoRoute
      BY <3>2, <3>3, NullAssumption DEF Route
    <3>5. entry(n, a).next = r(n, a).next /\ entry(n, a).source = r(n, a).source
      BY <3>2
    <3>6. QED
      BY <2>4, <3>1, <3>4, <3>5
  <2>5. QED
    BY <2>2, <2>3, <2>4
<1> HIDE DEF entry
<1>3. QED
  BY <1>1, <1>2 DEF AddedTo, TableType

(***************************************************************************)
(* No route of a table is a detour.                                        *)
(***************************************************************************)
RoutesShorten(v, table) ==
    \A n \in Node, a \in Addr :
        table[n][a] # NoRoute => OneLinkNearer(v, n, a, table[n][a].next)

(***************************************************************************)
(* A route leads to a node that has one, or over the link of its address   *)
(* to the owner.                                                           *)
(***************************************************************************)
RoutesGoOn(table) ==
    \A n \in Node, a \in Addr :
        table[n][a] # NoRoute =>
            \/ table[n][a].next = Owner(a) /\ n = a[2]
            \/ table[n][a].next # Owner(a) /\ table[table[n][a].next][a] # NoRoute

LEMMA AddedShorten ==
    ASSUME NEW v \in Views, NEW table \in TableType,
           NEW routes, routes \subseteq RouteEntry,
           RoutesShorten(v, table),
           \A r \in routes : OneLinkNearer(v, r.node, r.dst, r.next)
    PROVE  RoutesShorten(v, Added(table, routes))
<1>1. AddedTo(table, routes, Added(table, routes))
  BY AddedRoutes
<1>2. QED
  BY <1>1 DEF AddedTo, RoutesShorten

LEMMA AddedGoOn ==
    ASSUME NEW v \in Views, NEW table \in TableType, NEW con_ip, NEW src_ip,
           NEW routes, RoutesOfPair(v, con_ip, src_ip, routes),
           RoutesGoOn(table)
    PROVE  RoutesGoOn(Added(table, routes))
<1> DEFINE new == Added(table, routes)
<1>1. routes \subseteq RouteEntry
  BY DEF RoutesOfPair
<1>2. AddedTo(table, routes, new)
  BY <1>1, AddedRoutes
<1> HIDE DEF new
<1>3. SUFFICES ASSUME NEW n \in Node, NEW a \in Addr, new[n][a] # NoRoute
               PROVE  \/ new[n][a].next = Owner(a) /\ n = a[2]
                      \/ new[n][a].next # Owner(a) /\ new[new[n][a].next][a] # NoRoute
  BY DEF RoutesGoOn, new
<1>4. new[n][a].next \in Node
  BY <1>2, <1>3 DEF AddedTo, TableType, Route
<1>5. CASE table[n][a] # NoRoute
  <2>1. new[n][a] = table[n][a]
    BY <1>2, <1>5 DEF AddedTo
  <2>2. \/ table[n][a].next = Owner(a) /\ n = a[2]
        \/ table[n][a].next # Owner(a) /\ table[table[n][a].next][a] # NoRoute
    BY <1>5 DEF RoutesGoOn
  <2>3. ASSUME NEW m \in Node, table[m][a] # NoRoute
        PROVE  new[m][a] # NoRoute
    BY <1>2, <2>3 DEF AddedTo
  <2>4. QED
    BY <1>4, <2>1, <2>2, <2>3
<1>6. CASE table[n][a] = NoRoute
  <2>1. PICK r \in routes : r.node = n /\ r.dst = a /\ new[n][a].next = r.next
    BY <1>2, <1>3, <1>6 DEF AddedTo
  <2>2. CASE r.next = Owner(a)
    BY <2>1, <2>2 DEF RoutesOfPair
  <2>3. CASE r.next # Owner(a)
    <3>1. \E q \in routes : q.node = r.next /\ q.dst = a
      BY <2>1, <2>3 DEF RoutesOfPair
    <3>2. new[r.next][a] # NoRoute
      BY <1>2, <1>4, <2>1, <3>1 DEF AddedTo
    <3>3. QED
      BY <2>1, <2>3, <3>2
  <2>4. QED
    BY <2>2, <2>3
<1>7. QED
  BY <1>5, <1>6

-------------------------------------------------------------------------------
(***************************************************************************)
(* What SetPair does.                                                      *)
(***************************************************************************)
PairIsSet(con, swc, con_ip, src_ip, routes) ==
    /\ RoutesOfPair(m_view, con_ip, src_ip, routes)
    /\ Owner(con_ip) = con /\ Owner(src_ip) = swc
    /\ \A r \in routes : Contains(ControlPath(m_view, con, swc), r.node)
    /\ m_routingtable' = Added(m_routingtable, routes)
    /\ m_conIP' = [m_conIP EXCEPT ![swc] = con_ip]
    /\ m_outSocket' = [m_outSocket EXCEPT ![swc] = src_ip]
    /\ domain' = domain \cup {[con |-> con, swc |-> swc,
                               con_ip |-> con_ip, src_ip |-> src_ip]}
    /\ m_type' = [m_type EXCEPT ![con] = "CONTROLLER", ![swc] = "SWITCH"]
    /\ m_view' = m_view

\* The routes are those of nodes of the path.
LEMMA RoutesOnPath ==
    ASSUME NEW path \in Seq(Node), NEW con_ip, NEW src_ip,
           NEW r \in ControlRoutes(path, con_ip, src_ip)
    PROVE  Contains(path, r.node)
<1>1. Len(path) \in Nat
  OBVIOUS
<1>2. PICK i \in 1 .. Len(path) - 1 : r.node = path[i] \/ r.node = path[i + 1]
  BY DEF ControlRoutes
<1>3. i \in 1 .. Len(path) /\ i + 1 \in 1 .. Len(path)
  BY <1>1
<1>4. QED
  BY <1>2, <1>3 DEF Contains

LEMMA SetPairSets ==
    ASSUME m_view \in Views, NEW con \in Node, NEW swc \in Node, SetPair(con, swc)
    PROVE  \E con_ip, src_ip, routes : PairIsSet(con, swc, con_ip, src_ip, routes)
<1> DEFINE path == ControlPath(m_view, con, swc)
           con_ip == <<con, path[Len(path) - 1]>>
           src_ip == <<swc, path[2]>>
           routes == ControlRoutes(path, con_ip, src_ip)
<1>1. con # swc /\ swc \in DOMAIN Traversed(m_view, con)
  BY DEF SetPair
<1>2. RoutesOfPair(m_view, con_ip, src_ip, routes)
  BY <1>1, ControlRoutesOfPair
<1>3. Owner(con_ip) = con /\ Owner(src_ip) = swc
  BY DEF Owner
<1>4. /\ m_routingtable' = Added(m_routingtable, routes)
      /\ m_conIP' = [m_conIP EXCEPT ![swc] = con_ip]
      /\ m_outSocket' = [m_outSocket EXCEPT ![swc] = src_ip]
      /\ domain' = domain \cup {[con |-> con, swc |-> swc,
                                 con_ip |-> con_ip, src_ip |-> src_ip]}
      /\ m_type' = [m_type EXCEPT ![con] = "CONTROLLER", ![swc] = "SWITCH"]
      /\ m_view' = m_view
  BY DEF SetPair
<1>5. \A r \in routes : Contains(path, r.node)
  <2>1. path \in Seq(Node)
    BY <1>1, ControlPathIsShortest DEF ShortestPath
  <2> HIDE DEF path
  <2>2. QED
    BY <2>1, RoutesOnPath
<1>6. PairIsSet(con, swc, con_ip, src_ip, routes)
  BY <1>2, <1>3, <1>4, <1>5 DEF PairIsSet
<1>7. QED
  BY <1>6

(***************************************************************************)
(* SetPair keeps the types, whatever else is in the tables.                *)
(***************************************************************************)
LEMMA SetPairType ==
    ASSUME DomainTypeOK, m_view \in Views,
           NEW con \in Node, NEW swc \in Node, SetPair(con, swc)
    PROVE  DomainTypeOK'
<1>1. PICK con_ip, src_ip, routes : PairIsSet(con, swc, con_ip, src_ip, routes)
  BY SetPairSets
<1>2. con_ip \in Addr /\ src_ip \in Addr /\ routes \subseteq RouteEntry
  BY <1>1 DEF PairIsSet, RoutesOfPair
<1>3. m_routingtable' \in [Node -> [Addr -> Route \cup {NoRoute}]]
  <2>1. AddedTo(m_routingtable, routes, m_routingtable')
    BY <1>1, <1>2, AddedRoutes DEF PairIsSet, DomainTypeOK, TableType
  <2>2. QED
    BY <2>1 DEF AddedTo, TableType
<1>4. /\ m_view' \in [Node -> Seq(Node)]
      /\ m_conIP' \in [Node -> Addr \cup {NoAddr}]
      /\ m_outSocket' \in [Node -> Addr \cup {NoAddr}]
      /\ m_type' \in [Node -> {"SWITCH", "CONTROLLER"}]
      /\ domain' \subseteq [con: Node, swc: Node, con_ip: Addr, src_ip: Addr]
  <2>1. m_view' \in [Node -> Seq(Node)]
    BY <1>1 DEF PairIsSet, DomainTypeOK
  <2>2. m_conIP' \in [Node -> Addr \cup {NoAddr}]
    BY <1>1, <1>2 DEF PairIsSet, DomainTypeOK
  <2>3. m_outSocket' \in [Node -> Addr \cup {NoAddr}]
    BY <1>1, <1>2 DEF PairIsSet, DomainTypeOK
  <2>4. m_type' \in [Node -> {"SWITCH", "CONTROLLER"}]
    BY <1>1 DEF PairIsSet, DomainTypeOK
  <2>5. [con |-> con, swc |-> swc, con_ip |-> con_ip, src_ip |-> src_ip]
            \in [con: Node, swc: Node, con_ip: Addr, src_ip: Addr]
    BY <1>2
  <2>6. domain' \subseteq [con: Node, swc: Node, con_ip: Addr, src_ip: Addr]
    BY <1>1, <2>5 DEF PairIsSet, DomainTypeOK
  <2>7. QED
    BY <2>1, <2>2, <2>3, <2>4, <2>6
<1>5. \A n \in Node : m_outSocket'[n] # NoAddr => Owner(m_outSocket'[n]) = n
  BY <1>1 DEF PairIsSet, DomainTypeOK
<1>6. QED
  BY <1>3, <1>4, <1>5 DEF DomainTypeOK

(***************************************************************************)
(* Each pair has the routes of both directions.                            *)
(***************************************************************************)
PairsHaveRoutes ==
    \A d \in domain :
        /\ Owner(d.con_ip) = d.con /\ Owner(d.src_ip) = d.swc
        /\ m_routingtable[d.swc][d.con_ip] # NoRoute
        /\ m_routingtable[d.con][d.src_ip] # NoRoute

(***************************************************************************)
(* A pair that is set has its routes, and leaves those of the others.      *)
(***************************************************************************)
LEMMA PairsKeepRoutes ==
    ASSUME PairsHaveRoutes, m_routingtable \in TableType,
           domain \subseteq [con: Node, swc: Node, con_ip: Addr, src_ip: Addr],
           NEW con \in Node, NEW swc \in Node, NEW con_ip, NEW src_ip, NEW routes,
           PairIsSet(con, swc, con_ip, src_ip, routes)
    PROVE  PairsHaveRoutes'
<1> DEFINE d == [con |-> con, swc |-> swc, con_ip |-> con_ip, src_ip |-> src_ip]
<1>1. /\ con_ip \in Addr /\ src_ip \in Addr /\ routes \subseteq RouteEntry
      /\ Owner(con_ip) = con /\ Owner(src_ip) = swc
      /\ domain' = domain \cup {d}
      /\ m_routingtable' = Added(m_routingtable, routes)
      /\ RoutesOfPair(m_view, con_ip, src_ip, routes)
  BY DEF PairIsSet, RoutesOfPair
<1>2. AddedTo(m_routingtable, routes, m_routingtable')
  BY <1>1, AddedRoutes
<1>3. d.con = con /\ d.swc = swc /\ d.con_ip = con_ip /\ d.src_ip = src_ip
  OBVIOUS
<1> HIDE DEF d
<1>4. ASSUME NEW e \in domain
      PROVE  /\ Owner(e.con_ip) = e.con /\ Owner(e.src_ip) = e.swc
             /\ m_routingtable'[e.swc][e.con_ip] # NoRoute
             /\ m_routingtable'[e.con][e.src_ip] # NoRoute
  <2>1. /\ e.con \in Node /\ e.swc \in Node
        /\ e.con_ip \in Addr /\ e.src_ip \in Addr
    OBVIOUS
  <2>2. QED
    BY <1>2, <2>1 DEF AddedTo, PairsHaveRoutes
<1>5. /\ m_routingtable'[swc][con_ip] # NoRoute
      /\ m_routingtable'[con][src_ip] # NoRoute
  BY <1>1, <1>2 DEF AddedTo, RoutesOfPair
<1>6. QED
  BY <1>1, <1>3, <1>4, <1>5 DEF PairsHaveRoutes

(***************************************************************************)
(* Each route is one of a pair that has the node on its path, and the      *)
(* source of the route is the other address of the pair.                   *)
(***************************************************************************)
RoutesHavePairs ==
    \A n \in Node, a \in Addr :
        m_routingtable[n][a] # NoRoute =>
            \E d \in domain :
                /\ Contains(ControlPath(m_view, d.con, d.swc), n)
                /\ \/ a = d.con_ip /\ m_routingtable[n][a].source = d.src_ip
                   \/ a = d.src_ip /\ m_routingtable[n][a].source = d.con_ip

DomainInv ==
    /\ DomainTypeOK
    /\ m_view \in Views
    /\ RoutesShorten(m_view, m_routingtable)
    /\ RoutesGoOn(m_routingtable)
    /\ PairsHaveRoutes
    /\ RoutesHavePairs

LEMMA DomainInvInit == DomainInit => DomainInv
<1>1. SUFFICES ASSUME DomainInit PROVE DomainInv
  OBVIOUS
<1>2. DomainTypeOK
  BY <1>1, ViewAssumption DEF DomainInit, DomainTypeOK
<1>3. \A n \in Node, a \in Addr : m_routingtable[n][a] = NoRoute
  BY <1>1 DEF DomainInit
<1>4. RoutesShorten(m_view, m_routingtable) /\ RoutesGoOn(m_routingtable)
  BY <1>3 DEF RoutesShorten, RoutesGoOn
<1>5. PairsHaveRoutes /\ RoutesHavePairs
  BY <1>1, <1>3 DEF DomainInit, PairsHaveRoutes, RoutesHavePairs
<1>6. QED
  BY <1>1, <1>2, <1>4, <1>5 DEF DomainInv, DomainInit

LEMMA SetPairKeepsDomainInv ==
    ASSUME DomainInv, NEW con \in Node, NEW swc \in Node, SetPair(con, swc)
    PROVE  DomainInv'
<1>1. PICK con_ip, src_ip, routes : PairIsSet(con, swc, con_ip, src_ip, routes)
  BY SetPairSets DEF DomainInv
<1> DEFINE d == [con |-> con, swc |-> swc, con_ip |-> con_ip, src_ip |-> src_ip]
<1>2. /\ con_ip \in Addr /\ src_ip \in Addr /\ routes \subseteq RouteEntry
      /\ Owner(con_ip) = con /\ Owner(src_ip) = swc
      /\ m_view' = m_view /\ m_view \in Views
      /\ domain' = domain \cup {d}
      /\ m_routingtable' = Added(m_routingtable, routes)
      /\ m_routingtable \in TableType
      /\ domain \subseteq [con: Node, swc: Node, con_ip: Addr, src_ip: Addr]
      /\ \A r \in routes : Contains(ControlPath(m_view, con, swc), r.node)
  BY <1>1 DEF PairIsSet, RoutesOfPair, DomainInv, DomainTypeOK, TableType
<1>3. RoutesOfPair(m_view, con_ip, src_ip, routes)
  BY <1>1 DEF PairIsSet
<1>4. AddedTo(m_routingtable, routes, m_routingtable')
  BY <1>2, AddedRoutes
<1>5. d.con = con /\ d.swc = swc /\ d.con_ip = con_ip /\ d.src_ip = src_ip
  OBVIOUS
<1> HIDE DEF d
<1>6. DomainTypeOK'
  BY SetPairType DEF DomainInv
<1>7. RoutesShorten(m_view, m_routingtable')
  <2>1. \A r \in routes : OneLinkNearer(m_view, r.node, r.dst, r.next)
    BY <1>3 DEF RoutesOfPair
  <2>2. QED
    BY <1>2, <2>1, AddedShorten DEF DomainInv
<1>8. RoutesGoOn(m_routingtable')
  BY <1>2, <1>3, AddedGoOn DEF DomainInv
<1>9. PairsHaveRoutes'
  BY <1>1, <1>2, PairsKeepRoutes DEF DomainInv
<1>10. RoutesHavePairs'
  <2>1. SUFFICES ASSUME NEW n \in Node, NEW a \in Addr, m_routingtable'[n][a] # NoRoute
                 PROVE  \E e \in domain' :
                          /\ Contains(ControlPath(m_view, e.con, e.swc), n)
                          /\ \/ a = e.con_ip /\ m_routingtable'[n][a].source = e.src_ip
                             \/ a = e.src_ip /\ m_routingtable'[n][a].source = e.con_ip
    BY <1>2 DEF RoutesHavePairs
  <2>2. CASE m_routingtable[n][a] # NoRoute
    <3>1. m_routingtable'[n][a] = m_routingtable[n][a]
      BY <1>4, <2>2 DEF AddedTo
    <3>2. QED
      BY <1>2, <2>2, <3>1 DEF DomainInv, RoutesHavePairs
  <2>3. CASE m_routingtable[n][a] = NoRoute
    <3>1. PICK r \in routes : /\ r.node = n /\ r.dst = a
                              /\ m_routingtable'[n][a].source = r.source
      BY <1>4, <2>1, <2>3 DEF AddedTo
    <3>2. \/ a = con_ip /\ m_routingtable'[n][a].source = src_ip
          \/ a = src_ip /\ m_routingtable'[n][a].source = con_ip
      BY <1>3, <3>1 DEF RoutesOfPair
    <3>3. Contains(ControlPath(m_view, d.con, d.swc), n)
      BY <1>2, <1>5, <3>1
    <3>4. QED
      BY <1>2, <1>5, <3>2, <3>3
  <2>4. QED
    BY <2>2, <2>3
<1>11. QED
  BY <1>2, <1>6, <1>7, <1>8, <1>9, <1>10 DEF DomainInv

(***************************************************************************)
(* A message is where the walk says, at a node.                            *)
(***************************************************************************)
LEMMA WalkDefined ==
    ASSUME NEW table \in TableType, NEW n \in Node, NEW a \in Addr
    PROVE  /\ Walk(table, n, a)[0] = n
           /\ \A k \in 1 .. Cardinality(Node) :
                LET p == Walk(table, n, a)[k - 1] IN
                Walk(table, n, a)[k] =
                    IF p = Owner(a) \/ table[p][a] = NoRoute THEN p
                    ELSE table[p][a].next
           /\ \A k \in 0 .. Cardinality(Node) : Walk(table, n, a)[k] \in Node
<1> DEFINE Hop(p) == IF p = Owner(a) \/ table[p][a] = NoRoute THEN p
                     ELSE table[p][a].next
           C == Cardinality(Node)
           F == [k \in 1 .. C |-> [p \in Node |-> Hop(p)]]
           W == Walk(table, n, a)
<1>1. F \in [1 .. C -> [Node -> Node]]
  BY DEF TableType, Route
<1>2. C \in Nat
  BY NumberOfNodes
<1> HIDE DEF C
<1>3. PICK f : Iterates(f, C, Node, n, F)
  <2> HIDE DEF F
  <2>1. QED
    BY <1>1, <1>2, Iterated
<1>4. f = [k \in 0 .. C |-> IF k = 0 THEN n ELSE Hop(f[k - 1])]
  <2>1. ASSUME NEW k \in 1 .. C
        PROVE  f[k] = Hop(f[k - 1])
    <3>1. f[k - 1] \in Node
      BY <1>2, <1>3 DEF Iterates
    <3> HIDE DEF Hop
    <3>2. F[k] = [p \in Node |-> Hop(p)]
      BY <1>2
    <3> HIDE DEF F
    <3>3. QED
      BY <1>3, <3>1, <3>2 DEF Iterates
  <2> HIDE DEF F, Hop
  <2>2. QED
    BY <1>2, <1>3, <2>1 DEF Iterates
<1>5. W = [k \in 0 .. C |-> IF k = 0 THEN n ELSE Hop(W[k - 1])]
  BY <1>4 DEF Walk, C
<1> HIDE DEF W
<1>6. \A k \in 1 .. C : W[k] = Hop(W[k - 1])
  <2> HIDE DEF Hop
  <2>1. QED
    BY <1>2, <1>5
<1>7. W[0] = n
  BY <1>2, <1>5
<1>8. \A k \in 0 .. C : W[k] \in Node
  <2> DEFINE T == {k \in 0 .. C : W[k] \in Node}
  <2>1. 0 \in T
    BY <1>2, <1>7
  <2>2. ASSUME NEW k \in 0 .. C - 1, k \in T
        PROVE  k + 1 \in T
    <3>1. k + 1 \in 1 .. C /\ (k + 1) - 1 = k /\ k + 1 \in 0 .. C
      BY <1>2
    <3>2. W[k + 1] = Hop(W[k])
      <4> HIDE DEF Hop
      <4>1. QED
        BY <1>6, <3>1
    <3>3. Hop(W[k]) \in Node
      BY <2>2 DEF TableType, Route
    <3>4. QED
      BY <3>1, <3>2, <3>3
  <2> HIDE DEF T
  <2>3. \A k \in 0 .. C : k \in T
    BY <1>2, <2>1, <2>2, InductionUpTo
  <2>4. QED
    BY <2>3 DEF T
<1>9. QED
  BY <1>6, <1>7, <1>8 DEF C, W

(***************************************************************************)
(* Only the node itself is no link away.                                   *)
(***************************************************************************)
LEMMA NoDistance ==
    ASSUME NEW v \in Views, NEW m \in Node, NEW n \in Ball(v, m)[Cardinality(Node)]
    PROVE  /\ Distance(v, n, m) \in 0 .. Cardinality(Node)
           /\ Distance(v, n, m) = 0 <=> n = m
<1>1. Cardinality(Node) \in Nat
  BY NumberOfNodes
<1>2. Ball(v, m)[0] = {m}
  BY BallDefined
<1>3. /\ Distance(v, n, m) \in 0 .. Cardinality(Node)
      /\ n \in Ball(v, m)[0] <=> Distance(v, n, m) <= 0
  BY <1>1, DistanceFromBall
<1>4. QED
  BY <1>1, <1>2, <1>3

(***************************************************************************)
(* From a node with a route to an address a message arrives.               *)
(***************************************************************************)
LEMMA RouteArrives ==
    ASSUME NEW v \in Views, NEW table \in TableType,
           RoutesShorten(v, table), RoutesGoOn(table),
           NEW n \in Node, NEW a \in Addr, table[n][a] # NoRoute
    PROVE  \E k \in 1 .. Cardinality(Node) :
             /\ Walk(table, n, a)[k - 1] = a[2]
             /\ Walk(table, n, a)[k] = a[1]
<1> DEFINE C == Cardinality(Node)
           m == Owner(a)
           W == Walk(table, n, a)
           D(p) == Distance(v, p, m)
           e == D(n)
           OnTheWay(k) == /\ W[k] \in Ball(v, m)[C]
                          /\ D(W[k]) = e - k
                          /\ k < e => table[W[k]][a] # NoRoute
           T == {k \in 0 .. e : OnTheWay(k)}
<1>1. C \in Nat /\ m \in Node /\ m = a[1]
  BY NumberOfNodes DEF Addr, Owner
<1>2. /\ W[0] = n
      /\ \A k \in 1 .. C : W[k] = IF W[k - 1] = m \/ table[W[k - 1]][a] = NoRoute
                                  THEN W[k - 1] ELSE table[W[k - 1]][a].next
      /\ \A k \in 0 .. C : W[k] \in Node
  BY WalkDefined
<1> HIDE DEF W
<1>3. \A p \in Ball(v, m)[C] : D(p) \in 0 .. C /\ (D(p) = 0 <=> p = m)
  BY <1>1, NoDistance
<1>4. ASSUME NEW p \in Node, table[p][a] # NoRoute
      PROVE  /\ p \in Ball(v, m)[C]
             /\ table[p][a].next \in Ball(v, m)[C]
             /\ D(p) = D(table[p][a].next) + 1
             /\ \/ table[p][a].next = m /\ p = a[2]
                \/ table[p][a].next # m /\ table[table[p][a].next][a] # NoRoute
  BY <1>4 DEF RoutesShorten, OneLinkNearer, RoutesGoOn
<1> HIDE DEF C, D, m
<1>5. e \in 1 .. C
  BY <1>1, <1>3, <1>4
<1>6. 0 \in T
  BY <1>1, <1>2, <1>4, <1>5
<1>7. ASSUME NEW k \in 0 .. e - 1, k \in T
      PROVE  /\ k + 1 \in T
             /\ table[W[k]][a] # NoRoute
             /\ W[k + 1] = table[W[k]][a].next
  <2> DEFINE p == W[k]
             q == table[p][a].next
  <2>1. k \in 0 .. C /\ k < e /\ k + 1 \in 1 .. C /\ (k + 1) - 1 = k /\ k + 1 \in 0 .. e
    BY <1>1, <1>5
  <2>2. p \in Node /\ p \in Ball(v, m)[C] /\ D(p) = e - k /\ table[p][a] # NoRoute
    BY <1>2, <1>7, <2>1
  <2>3. p # m
    BY <1>3, <1>5, <2>1, <2>2
  <2>4. W[k + 1] = q
    BY <1>2, <2>1, <2>2, <2>3
  <2> HIDE DEF p
  <2>5. /\ q \in Ball(v, m)[C]
        /\ D(p) = D(q) + 1
        /\ q = m \/ table[q][a] # NoRoute
    BY <1>4, <2>2
  <2> HIDE DEF q
  <2>6. D(q) \in 0 .. C /\ (D(q) = 0 <=> q = m)
    BY <1>3, <2>5
  <2>7. D(q) = e - (k + 1)
    BY <1>1, <1>5, <2>1, <2>2, <2>5, <2>6
  <2>8. k + 1 < e => table[q][a] # NoRoute
    BY <1>1, <1>5, <2>1, <2>5, <2>6, <2>7
  <2>9. OnTheWay(k + 1)
    BY <2>4, <2>5, <2>7, <2>8
  <2>10. QED
    BY <2>1, <2>2, <2>4, <2>9 DEF p, q
<1> HIDE DEF T
<1>8. \A k \in 0 .. e : k \in T
  <2>1. e \in Nat
    BY <1>1, <1>5
  <2> HIDE DEF e
  <2>2. \A k \in 0 .. e - 1 : k \in T => k + 1 \in T
    BY <1>7
  <2>3. QED
    BY <1>6, <2>1, <2>2, InductionUpTo
<1>9. /\ e - 1 \in 0 .. e - 1 /\ (e - 1) + 1 = e /\ e - 1 \in 0 .. e
      /\ e \in 0 .. e /\ e - 1 \in 0 .. C /\ e \in 0 .. C
  BY <1>1, <1>5
<1>10. table[W[e - 1]][a] # NoRoute /\ W[e] = table[W[e - 1]][a].next
  <2>1. e - 1 \in T
    BY <1>8, <1>9
  <2>2. QED
    BY <1>7, <1>9, <2>1
<1>11. W[e] = m
  <2>1. OnTheWay(e)
    BY <1>8, <1>9 DEF T
  <2>2. QED
    BY <1>1, <1>3, <1>5, <2>1
<1>12. W[e - 1] \in Node
  BY <1>2, <1>9
<1>13. W[e - 1] = a[2]
  BY <1>4, <1>10, <1>11, <1>12
<1>14. QED
  BY <1>1, <1>5, <1>11, <1>13 DEF W, C

-------------------------------------------------------------------------------
(***************************************************************************)
(* What holds in every state of the control domains, besides the types:    *)
(* the routes of the pairs, those that were there before and those that    *)
(* were added, make ways that go on to their ends.                         *)
(***************************************************************************)
THEOREM DomainInvariant == DomainSpec => []DomainInv
<1>1. DomainInv /\ [DomainNext]_domainVars => DomainInv'
  <2>1. SUFFICES ASSUME DomainInv, [DomainNext]_domainVars
                 PROVE  DomainInv'
    OBVIOUS
  <2>2. CASE DomainNext
    BY <2>1, <2>2, SetPairKeepsDomainInv DEF DomainNext
  <2>3. CASE UNCHANGED domainVars
    BY <2>1, <2>3 DEF domainVars, DomainInv, DomainTypeOK, RoutesShorten,
       RoutesGoOn, PairsHaveRoutes, RoutesHavePairs
  <2>4. QED
    BY <2>1, <2>2, <2>3
<1>2. QED
  BY <1>1, DomainInvInit, PTL DEF DomainSpec

(***************************************************************************)
(* The variables of the control domains have their types: no path has a    *)
(* node that is none, and a switch calls from a socket of its own.         *)
(***************************************************************************)
THEOREM DomainTypeInvariant == DomainSpec => []DomainTypeOK
<1>1. DomainInv => DomainTypeOK
  BY DEF DomainInv
<1>2. QED
  BY <1>1, DomainInvariant, PTL

(***************************************************************************)
(* No route of any table is a detour, in any network and after any pairs.  *)
(***************************************************************************)
THEOREM ShortestRoutes == DomainSpec => []RoutesAreShortest
<1>1. DomainInv => RoutesAreShortest
  BY DEF DomainInv, RoutesAreShortest, RoutesShorten, OneLinkNearer
<1>2. QED
  BY <1>1, DomainInvariant, PTL

(***************************************************************************)
(* Switch and controller of every pair reach each other by the tables,     *)
(* though a pair leaves in them only the routes that were missing.         *)
(***************************************************************************)
THEOREM PathsWork == DomainSpec => []ControlPathsWork
<1>1. ASSUME DomainInv PROVE ControlPathsWork
  <2>1. SUFFICES ASSUME NEW d \in domain
                 PROVE  Arrives(d.swc, d.con_ip) /\ Arrives(d.con, d.src_ip)
    BY DEF ControlPathsWork
  <2>2. /\ d.con \in Node /\ d.swc \in Node /\ d.con_ip \in Addr /\ d.src_ip \in Addr
        /\ m_view \in Views /\ m_routingtable \in TableType
        /\ RoutesShorten(m_view, m_routingtable) /\ RoutesGoOn(m_routingtable)
    BY <1>1 DEF DomainInv, DomainTypeOK, TableType
  <2>3. /\ m_routingtable[d.swc][d.con_ip] # NoRoute
        /\ m_routingtable[d.con][d.src_ip] # NoRoute
    BY <1>1 DEF DomainInv, PairsHaveRoutes
  <2>4. QED
    BY <2>2, <2>3, RouteArrives DEF Arrives
<1>2. QED
  BY <1>1, DomainInvariant, PTL

(***************************************************************************)
(* In any network, and after any pairs and hand-overs: a controller that   *)
(* is on no other path to the switch's address answers from the address    *)
(* the switch knows it by, for which SendReply has a socket.               *)
(***************************************************************************)
THEOREM RepliesHaveConIP == DomainSpec => []RepliesFromConIP
<1>1. ASSUME DomainInv PROVE RepliesFromConIP
  <2>1. SUFFICES ASSUME NEW d \in domain,
                        m_conIP[d.swc] = d.con_ip,
                        \A e \in domain : OnPathTo(e, d.con, d.src_ip) => e = d
                 PROVE  m_routingtable[d.con][d.src_ip].source = m_conIP[d.swc]
    BY DEF RepliesFromConIP
  <2>2. d.con \in Node /\ d.src_ip \in Addr /\ m_routingtable[d.con][d.src_ip] # NoRoute
    BY <1>1 DEF DomainInv, DomainTypeOK, PairsHaveRoutes
  <2>3. PICK e \in domain :
          /\ Contains(ControlPath(m_view, e.con, e.swc), d.con)
          /\ \/ d.src_ip = e.con_ip /\ m_routingtable[d.con][d.src_ip].source = e.src_ip
             \/ d.src_ip = e.src_ip /\ m_routingtable[d.con][d.src_ip].source = e.con_ip
    BY <1>1, <2>2 DEF DomainInv, RoutesHavePairs
  <2>4. e = d
    BY <2>1, <2>3 DEF OnPathTo
  <2>5. QED
    BY <2>1, <2>3, <2>4
<1>2. QED
  BY <1>1, DomainInvariant, PTL

===============================================================================
