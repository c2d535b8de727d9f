------------------------------- MODULE SnapRoute -------------------------------
(***************************************************************************)
(* NetView::CalculateRouteFromSnap of src/sdsn: the first hop from one     *)
(* satellite to another, which a controller computes for each request it   *)
(* gets and keeps in m_cal_route_cache.                                    *)
(*                                                                         *)
(* The simulation fills NodeToIndex and IndexToNode: a satellite has a     *)
(* plane and a number in the plane, both from 1; here it is its index.     *)
(* The code takes for nPerPlane the number of whichever node comes first   *)
(* in NodeToIndex, which is ordered by pointers (sdsn.cc:1100).            *)
(*                                                                         *)
(* Looking up an index that no satellite has, or the devices of a node     *)
(* that is its own next hop, is undefined and no step.  Delays are read    *)
(* and not used; the loads of two links may compare in any way.            *)
(***************************************************************************)
EXTENDS Integers, FiniteSets

CONSTANTS
    Planes,      \* how many planes there are
    PerPlane,    \* how many satellites a plane has
    Links,       \* the pairs of neighbours in m_view
    NoHop,       \* a route without device and gateway
    MaxRoutes    \* bound on the routes in the cache

Satellite == (1 .. Planes) \X (1 .. PerPlane)

ASSUME ConstellationAssumption ==
    /\ Planes \in Nat
    /\ PerPlane \in Nat \ {0}
    /\ Links \subseteq Satellite \X Satellite
    /\ NoHop \notin Satellite
    /\ MaxRoutes \in Nat

VARIABLES
    nPerPlane,          \* 0 until the index tables are filled
    m_cal_route_cache   \* the next hop of some pairs of satellites

routeVars == <<nPerPlane, m_cal_route_cache>>

RoutesInit ==
    /\ nPerPlane = 0
    /\ m_cal_route_cache = [p \in {} |-> NoHop]

-------------------------------------------------------------------------------
\* Defect: the shorter way is looked for in one direction only.
WrappedForward(n, hop) == IF 2 * hop > n THEN n - hop ELSE hop

\* intra_plane_hop: the code compares with a double, so that halves are exact.
Wrapped(n, hop) ==
    IF 2 * hop < -n THEN n + hop
    ELSE IF 2 * hop > n THEN n - hop
    ELSE hop

IntraHop(o, d) == Wrapped(nPerPlane, d[2] - o[2])

\* next_intra, the number of the next satellite in the plane.
NextIntra(n, number, hop) ==
    IF hop > 0 THEN (IF number = 1 THEN n ELSE number - 1)
    ELSE IF hop < 0 THEN (IF number = n THEN 1 ELSE number + 1)
    ELSE number

InPlane(o, d) == <<o[1], NextIntra(nPerPlane, o[2], IntraHop(o, d))>>

\* next_inter is a plane, and the code looks it up as the number of a
\* satellite of the plane it starts in (sdsn.cc:1143, sdsn.cc:1195).
NextInter(o, d) ==
    <<o[1], IF d[1] > o[1] THEN o[1] - 1 ELSE o[1] + 1>>

\* The satellites that are looked up as the next hop.
LookedUp(o, d) ==
    IF o[1] = d[1] THEN {InPlane(o, d)}
    ELSE IF IntraHop(o, d) = 0 THEN {NextInter(o, d)}
    ELSE {InPlane(o, d), NextInter(o, d)}

Neighbours(o) == {s \in Satellite : <<o, s>> \in Links}

\* The routes that may be stored.  Out of the plane and along it, the route
\* is stored whether or not its link was found.
Stored(o, d) ==
    (LookedUp(o, d) \cap Neighbours(o))
      \cup IF o[1] = d[1] \/ IntraHop(o, d) = 0
              \/ LookedUp(o, d) \subseteq Neighbours(o)
           THEN {} ELSE {NoHop}

\* The simulation fills the tables.
FillIndexTables ==
    /\ nPerPlane = 0
    /\ nPerPlane' \in 1 .. PerPlane
    /\ UNCHANGED m_cal_route_cache

CalculateRouteFromSnap(o, d) ==
    /\ nPerPlane # 0
    /\ LookedUp(o, d) \subseteq Satellite \ {o}
    /\ \E hop \in Stored(o, d) :
          m_cal_route_cache' =
              [p \in DOMAIN m_cal_route_cache \cup {<<o, d>>} |->
                  IF p = <<o, d>> THEN hop ELSE m_cal_route_cache[p]]
    /\ Cardinality(DOMAIN m_cal_route_cache') <= MaxRoutes
    /\ UNCHANGED nPerPlane

RoutesNext ==
    \/ FillIndexTables
    \/ \E o, d \in Satellite : CalculateRouteFromSnap(o, d)

RoutesSpec == RoutesInit /\ [][RoutesNext]_routeVars

-------------------------------------------------------------------------------
(***************************************************************************)
(* No computed route leads to a neighbour that is its destination, but for *)
(* one satellite of a plane, the one numbered nPerPlane: next_intra goes   *)
(* against the hops still to go (sdsn.cc:1119).  Planes of two are so      *)
(* short that both ways are the same.                                      *)
(***************************************************************************)
OnlyLastIsReached ==
    \A p \in DOMAIN m_cal_route_cache :
        m_cal_route_cache[p] = p[2] => p[2][2] = nPerPlane \/ nPerPlane = 2

===============================================================================
