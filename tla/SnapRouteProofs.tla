---------------------------- MODULE SnapRouteProofs ----------------------------
(***************************************************************************)
(* The properties of SnapRoute for any constellation, any links and any    *)
(* order of requests.                                                      *)
(***************************************************************************)
EXTENDS SnapRoute, TLAPS

(***************************************************************************)
(* The inductive invariant: a cached route is one of the two that the code *)
(* looks up, with the tables as they are.                                  *)
(***************************************************************************)
CacheInv ==
    /\ nPerPlane \in 0 .. PerPlane
    /\ nPerPlane = 0 => DOMAIN m_cal_route_cache = {}
    /\ \A p \in DOMAIN m_cal_route_cache :
          /\ p \in Satellite \X Satellite
          /\ m_cal_route_cache[p] \in {NoHop} \cup LookedUp(p[1], p[2])
          /\ p[1] \notin LookedUp(p[1], p[2])

LEMMA CacheInvInit == RoutesInit => CacheInv
BY ConstellationAssumption DEF RoutesInit, CacheInv

(***************************************************************************)
(* What is stored was looked up, or is empty.                              *)
(***************************************************************************)
LEMMA StoredWasLookedUp ==
    ASSUME NEW o, NEW d
    PROVE  Stored(o, d) \subseteq {NoHop} \cup LookedUp(o, d)
BY DEF Stored

LEMMA CacheInvStep == CacheInv /\ [RoutesNext]_routeVars => CacheInv'
<1> SUFFICES ASSUME CacheInv, [RoutesNext]_routeVars PROVE CacheInv'
  OBVIOUS
<1>1. CASE FillIndexTables
  BY <1>1, ConstellationAssumption DEF FillIndexTables, CacheInv
<1>2. ASSUME NEW o \in Satellite, NEW d \in Satellite,
             CalculateRouteFromSnap(o, d)
      PROVE  CacheInv'
  <2>1. nPerPlane' = nPerPlane /\ nPerPlane # 0
    BY <1>2 DEF CalculateRouteFromSnap
  <2>2. \A x, y : LookedUp(x, y)' = LookedUp(x, y)
    BY <2>1 DEF LookedUp, InPlane, IntraHop, NextInter
  <2>3. PICK hop \in Stored(o, d) :
            m_cal_route_cache' =
                [p \in DOMAIN m_cal_route_cache \cup {<<o, d>>} |->
                    IF p = <<o, d>> THEN hop ELSE m_cal_route_cache[p]]
    BY <1>2 DEF CalculateRouteFromSnap
  <2>4. hop \in {NoHop} \cup LookedUp(o, d)
    BY StoredWasLookedUp
  <2>5. ASSUME NEW p \in DOMAIN m_cal_route_cache'
        PROVE  /\ p \in Satellite \X Satellite
               /\ m_cal_route_cache'[p] \in {NoHop} \cup LookedUp(p[1], p[2])
               /\ p[1] \notin LookedUp(p[1], p[2])
    <3>1. CASE p = <<o, d>>
      <4>1. o \notin LookedUp(o, d)
        BY <1>2 DEF CalculateRouteFromSnap
      <4> QED
        BY <2>3, <2>4, <3>1, <4>1
    <3>2. CASE p # <<o, d>>
      BY <2>3, <2>5, <3>2 DEF CacheInv
    <3> QED
      BY <3>1, <3>2
  <2> QED
    BY <2>1, <2>2, <2>5 DEF CacheInv
<1>3. CASE UNCHANGED routeVars
  BY <1>3 DEF routeVars, CacheInv, LookedUp, InPlane, IntraHop, NextInter
<1> QED
  BY <1>1, <1>2, <1>3 DEF RoutesNext

(***************************************************************************)
(* A way round a plane that begins against its hops meets its destination  *)
(* at once only if this is numbered n, or n is 2.                          *)
(***************************************************************************)
LEMMA ReachedIsLast ==
    ASSUME NEW n \in Nat, n > 0,
           NEW o \in Nat, o > 0, NEW d \in Nat, d > 0, o # d,
           NextIntra(n, o, Wrapped(n, d - o)) = d
    PROVE  d = n \/ n = 2
<1> DEFINE w == Wrapped(n, d - o)
<1>1. w \in Int
  BY DEF Wrapped
<1>2. CASE w > 0
  <2>1. d = IF o = 1 THEN n ELSE o - 1
    BY <1>2 DEF NextIntra
  <2>2. ASSUME d = o - 1 PROVE FALSE
    BY <1>2, <2>2 DEF Wrapped
  <2> QED
    BY <2>1, <2>2
<1>3. CASE w < 0
  <2>1. d = IF o = n THEN 1 ELSE o + 1
    BY <1>1, <1>3 DEF NextIntra
  <2>2. ASSUME d = o + 1 PROVE FALSE
    BY <1>3, <2>2 DEF Wrapped
  <2>3. o = n /\ d = 1
    BY <2>1, <2>2
  <2>4. n <= 2
    BY <1>3, <2>3 DEF Wrapped
  <2> QED
    BY <2>3, <2>4
<1>4. CASE w = 0
  BY <1>4 DEF NextIntra
<1> QED
  BY <1>1, <1>2, <1>3, <1>4

(***************************************************************************)
(* OnlyLastIsReached holds for every constellation (sdsn.cc:1119).         *)
(***************************************************************************)
THEOREM SnapOnlyLastIsReached == RoutesSpec => []OnlyLastIsReached
<1>1. ASSUME CacheInv, NEW p \in DOMAIN m_cal_route_cache,
             m_cal_route_cache[p] = p[2]
      PROVE  p[2][2] = nPerPlane \/ nPerPlane = 2
  <2> DEFINE o == p[1]
             d == p[2]
  <2>1. o \in Satellite /\ d \in Satellite
    BY <1>1 DEF CacheInv
  <2>2. d \in LookedUp(o, d) /\ o # d
    BY <1>1, <2>1, ConstellationAssumption DEF CacheInv
  <2>3. o[1] = d[1]
    BY <2>2 DEF LookedUp, InPlane, NextInter
  <2>4. d = InPlane(o, d)
    BY <2>2, <2>3 DEF LookedUp
  <2>5. NextIntra(nPerPlane, o[2], Wrapped(nPerPlane, d[2] - o[2])) = d[2]
    BY <2>4 DEF InPlane, IntraHop
  <2>6. /\ o[2] \in 1 .. PerPlane /\ d[2] \in 1 .. PerPlane
        /\ o = <<o[1], o[2]>> /\ d = <<d[1], d[2]>>
    BY <2>1 DEF Satellite
  <2>7. o[2] # d[2]
    BY <2>2, <2>3, <2>6
  <2>8. nPerPlane \in Nat /\ nPerPlane > 0
    BY <1>1, ConstellationAssumption DEF CacheInv
  <2>9. o[2] \in Nat /\ o[2] > 0 /\ d[2] \in Nat /\ d[2] > 0
    BY <2>6, ConstellationAssumption
  <2> QED
    BY <2>5, <2>7, <2>8, <2>9, ReachedIsLast
<1>2. CacheInv => OnlyLastIsReached
  BY <1>1 DEF OnlyLastIsReached
<1> QED
  BY CacheInvInit, CacheInvStep, <1>2, PTL DEF RoutesSpec

===============================================================================
