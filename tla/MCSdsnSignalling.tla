--------------------------- MODULE MCSdsnSignalling ---------------------------
(***************************************************************************)
(* Three networks: two switches between two controllers, one switch        *)
(* between two controllers, and one behind two controllers.                *)
(***************************************************************************)
EXTENDS SdsnSignalling

CONSTANTS c1, c2, s1, s2

Line ==
    { c1 :> <<s1>> @@ s1 :> <<c1, s2>> @@ s2 :> <<s1, c2>> @@ c2 :> <<s2>> }

Between == { c1 :> <<s1>> @@ s1 :> <<c1, c2>> @@ c2 :> <<s1>> }

Behind == { c1 :> <<c2>> @@ c2 :> <<c1, s1>> @@ s1 :> <<c2>> }

BetweenOrBehind == Between \cup Behind

Send(n, d, i) == [node |-> n, dst |-> d, oif |-> i]

\* From s1 to c2, with and without an output interface.  It is also the
\* address of a controller, so that a hand-over brings a route to it.
BetweenTraffic ==
    << Send(s1, <<c2, s1>>, NoAddr),
       Send(s1, <<c2, s1>>, <<s1, c1>>),
       Send(s1, <<c2, s1>>, NoAddr) >>

ReplyTraffic == << Send(s1, <<c2, s1>>, NoAddr) >>

\* A route the simulation adds, to an address of c2 as a controller.
LineRoutes ==
    { [node |-> s1, dst |-> <<c2, s2>>, next |-> s2, source |-> <<s1, s2>>] }

\* The same where s1 and c2 are neighbours.
BetweenRoutes ==
    { [node |-> s1, dst |-> <<c2, s1>>, next |-> c2, source |-> <<s1, c2>>] }

\* To the address of c2 that no switch knows it by.
BehindTraffic == << Send(s1, <<c2, c1>>, NoAddr) >>

\* The switch is handed over, and may become a controller itself.
BetweenPairs == { <<c1, s1>>, <<c2, s1>> }
RolePairs == BetweenPairs \cup { <<s1, c1>> }
LinePairs == { <<c1, s1>>, <<c2, s1>>, <<c2, s2>> }

NoTraffic == <<>>
NoRoutes == {}

===============================================================================
