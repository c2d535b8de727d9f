------------------------- MODULE MCSdsnControlDomain -------------------------
(***************************************************************************)
(* All connected networks of a set of nodes, as NetView::Install sees      *)
(* them: the devices of a node are in the order in which its links were    *)
(* made.                                                                   *)
(*                                                                         *)
(* The routes of SnapRoute are computed on a constellation of their own:   *)
(* pairs and computed routes share nothing but the links, which neither    *)
(* changes, so that a behaviour has either pairs or routes.                *)
(***************************************************************************)
EXTENDS SdsnControlDomain, SnapRoute, Graphs

\* A link is the set of its ends.
Ends == {l \in SUBSET Node : Cardinality(l) = 2}

Both(links) == {a \in Addr : {a[1], a[2]} \in links}

Connected(links) ==
    LET c == ConnectionsIn([node |-> Node, edge |-> Both(links)])
    IN \A n, m \in Node : n # m => c[n, m]

\* The network whose links were made in the order of made.
NeighboursIn(made) ==
    [n \in Node |->
        LET own == SelectSeq(made, LAMBDA l : n \in l)
        IN [i \in 1 .. Len(own) |-> CHOOSE m \in own[i] : m # n]]

AllViews ==
    UNION { {NeighboursIn(made) : made \in SetToSeqs(links)}
            : links \in {l \in SUBSET Ends : Connected(l)} }

Interchangeable == Permutations(Node)

-------------------------------------------------------------------------------
(***************************************************************************)
(* Three planes of four satellites, linked along the planes and to those   *)
(* of the same number in the next plane; one link is missing.              *)
(***************************************************************************)
Next4(k) == (k % 4) + 1
Next3(k) == (k % 3) + 1

Ahead ==
    { <<s, <<s[1], Next4(s[2])>> >> : s \in (1 .. 3) \X (1 .. 4) }
      \cup { <<s, <<Next3(s[1]), s[2]>> >> : s \in (1 .. 3) \X (1 .. 4) }

Torus ==
    (Ahead \cup {<<l[2], l[1]>> : l \in Ahead})
      \ { <<<<2, 2>>, <<2, 1>>>>, <<<<2, 1>>, <<2, 2>>>> }

-------------------------------------------------------------------------------
Init == DomainInit /\ RoutesInit

Next ==
    \/ nPerPlane = 0 /\ DomainNext /\ UNCHANGED routeVars
    \/ domain = {} /\ RoutesNext /\ UNCHANGED domainVars

Spec == Init /\ [][Next]_<<domainVars, routeVars>>

===============================================================================
