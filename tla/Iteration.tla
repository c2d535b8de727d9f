------------------------------ MODULE Iteration ------------------------------
(*****************************************************************************)
(* Induction over the natural numbers in the form of a set that is shown     *)
(* to hold them, and what it says of functions that are defined by           *)
(* recursion: the searches, paths and distances of the other modules.        *)
(*****************************************************************************)
EXTENDS Naturals, WellFoundedInduction, TLAPS

(***************************************************************************)
(* A nonempty set of natural numbers has a least one.                      *)
(***************************************************************************)
LEMMA LeastNatural ==
    ASSUME NEW T, T \subseteq Nat, T # {}
    PROVE  \E x \in T : \A y \in T : x <= y
<1>1. IsWellFoundedOn(OpToRel(<, Nat), Nat)
  BY NatLessThanWellFounded, Zenon
<1>2. PICK x \in T : \A y \in T : <<y, x>> \notin OpToRel(<, Nat)
  BY <1>1, WFMin, Zenon
<1>3. \A y \in T : ~ (y < x)
  BY <1>2, Zenon DEF OpToRel
<1>4. QED
  BY <1>3

(***************************************************************************)
(* Induction up to n.                                                      *)
(***************************************************************************)
LEMMA InductionUpTo ==
    ASSUME NEW n \in Nat, NEW T, 0 \in T,
           \A k \in 0 .. n - 1 : k \in T => k + 1 \in T
    PROVE  \A k \in 0 .. n : k \in T
<1>1. SUFFICES ASSUME (0 .. n) \ T # {} PROVE FALSE
  OBVIOUS
<1>2. PICK k \in (0 .. n) \ T : \A j \in (0 .. n) \ T : k <= j
  <2> DEFINE U == (0 .. n) \ T
  <2>1. U \subseteq Nat /\ U # {}
    BY <1>1
  <2> HIDE DEF U
  <2>2. \E k \in U : \A j \in U : k <= j
    BY <2>1, LeastNatural
  <2>3. QED
    BY <2>2 DEF U
<1>3. k # 0 /\ k - 1 \in 0 .. n - 1
  BY <1>2
<1>4. k - 1 \in T
  BY <1>2, <1>3
<1>5. QED
  BY <1>2, <1>3, <1>4

(***************************************************************************)
(* f is what comes of x in up to n steps, the k-th of which is F[k].       *)
(***************************************************************************)
Iterates(f, n, S, x, F) ==
    /\ f \in [0 .. n -> S]
    /\ f[0] = x
    /\ \A k \in 1 .. n : f[k] = F[k][f[k - 1]]

(***************************************************************************)
(* A function of steps can be iterated.                                    *)
(***************************************************************************)
LEMMA Iterated ==
    ASSUME NEW n \in Nat, NEW S, NEW x \in S, NEW F \in [1 .. n -> [S -> S]]
    PROVE  \E f : Iterates(f, n, S, x, F)
<1> DEFINE T == {m \in 0 .. n : \E f : Iterates(f, m, S, x, F)}
<1>1. 0 \in T
  <2>1. Iterates([k \in 0 .. 0 |-> x], 0, S, x, F)
    BY DEF Iterates
  <2>2. QED
    BY <2>1
<1>2. ASSUME NEW m \in 0 .. n - 1, m \in T
      PROVE  m + 1 \in T
  <2>1. PICK f : Iterates(f, m, S, x, F)
    BY <1>2
  <2> DEFINE y == F[m + 1][f[m]]
             g == [k \in 0 .. m + 1 |-> IF k = m + 1 THEN y ELSE f[k]]
  <2>2. y \in S
    BY <2>1 DEF Iterates
  <2>3. /\ g \in [0 .. m + 1 -> S]
        /\ \A k \in 0 .. m : g[k] = f[k]
        /\ g[m + 1] = y
    <3> HIDE DEF y
    <3>1. QED
      BY <2>1, <2>2 DEF Iterates
  <2> HIDE DEF g
  <2>4. ASSUME NEW k \in 1 .. m + 1
        PROVE  g[k] = F[k][g[k - 1]]
    <3>1. CASE k = m + 1
      BY <2>3, <3>1
    <3>2. CASE k \in 1 .. m
      <4>1. k - 1 \in 0 .. m
        BY <3>2
      <4>2. QED
        BY <2>1, <2>3, <3>2, <4>1 DEF Iterates
    <3>3. QED
      BY <3>1, <3>2
  <2>5. Iterates(g, m + 1, S, x, F)
    BY <2>1, <2>3, <2>4 DEF Iterates
  <2>6. QED
    BY <2>5
<1> HIDE DEF T
<1>3. n \in T
  <2>1. \A k \in 0 .. n - 1 : k \in T => k + 1 \in T
    BY <1>2
  <2>2. \A k \in 0 .. n : k \in T
    BY <1>1, <2>1, InductionUpTo
  <2>3. QED
    BY <2>2
<1>4. QED
  BY <1>3 DEF T

===============================================================================
