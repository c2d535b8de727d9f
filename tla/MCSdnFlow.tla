------------------------------ MODULE MCSdnFlow ------------------------------
(***************************************************************************)
(* Small networks for SdnFlow.  The address of node n on its link to m is  *)
(* the pair <<n, m>>; the paths are those CalculatePath returns.           *)
(***************************************************************************)
EXTENDS SdnFlow, TLC

Calc == INSTANCE PathCalculation

OwnerOf(links) == [a \in links |-> a[1]]
PeerOf(links) == [a \in links |-> a[2]]
PathsOf(m_num, links) ==
    [p \in (0 .. m_num - 1) \X (0 .. m_num - 1) |->
        Calc!CalculatePath(m_num, links, <<>>, p[1], p[2])]

\* The nodes that do not forward.
AllForward == {}
OneStops == {1}

Send(n, src, dst, dev) == [node |-> n, src |-> src, dst |-> dst, oif |-> dev]

-------------------------------------------------------------------------------
(***************************************************************************)
(* A line of three switches, 0 - 1 - 2.  Switch 1 has two addresses.       *)
(***************************************************************************)
LineNode == 0 .. 2
LineAddr == {<<0, 1>>, <<1, 0>>, <<1, 2>>, <<2, 1>>}
LineOwner == OwnerOf(LineAddr)
LinePeer == PeerOf(LineAddr)
LinePath ==
    <<0, 0>> :> <<0>> @@ <<0, 1>> :> <<0, 1>> @@ <<0, 2>> :> <<0, 1, 2>> @@
    <<1, 0>> :> <<1, 0>> @@ <<1, 1>> :> <<1>> @@ <<1, 2>> :> <<1, 2>> @@
    <<2, 0>> :> <<2, 1, 0>> @@ <<2, 1>> :> <<2, 1>> @@ <<2, 2>> :> <<2>>
ASSUME LinePathAssumption == LinePath = PathsOf(3, LineAddr)
LineDefault == 0 :> <<0, 1>> @@ 1 :> <<1, 2>> @@ 2 :> <<2, 1>>

\* The controller at the end of the line.
EndController == [n \in LineNode |-> 0]

\* Every way a packet can be asked for: through a switch; to both addresses
\* of switch 1; from switch 1 with each of its addresses and with an
\* interface that the route will not use; to the controller; to itself.
LineTraffic ==
    { Send(0, NoAddr, <<2, 1>>, NoAddr),
      Send(2, NoAddr, <<1, 0>>, NoAddr),
      Send(2, NoAddr, <<1, 2>>, NoAddr),
      Send(1, NoAddr, <<2, 1>>, NoAddr),
      Send(1, <<1, 0>>, <<2, 1>>, NoAddr),
      Send(1, <<1, 2>>, <<2, 1>>, <<1, 0>>),
      Send(1, NoAddr, <<2, 1>>, <<1, 0>>),
      Send(2, NoAddr, <<0, 1>>, NoAddr),
      Send(1, NoAddr, <<1, 2>>, NoAddr) }

-------------------------------------------------------------------------------
(***************************************************************************)
(* A line of four switches, 0 - 1 - 2 - 3, with two controllers: the path  *)
(* between the ends has two switches that only forward.                    *)
(***************************************************************************)
ChainNode == 0 .. 3
ChainAddr == {<<0, 1>>, <<1, 0>>, <<1, 2>>, <<2, 1>>, <<2, 3>>, <<3, 2>>}
ChainOwner == OwnerOf(ChainAddr)
ChainPeer == PeerOf(ChainAddr)
ChainDefault == 0 :> <<0, 1>> @@ 1 :> <<1, 0>> @@ 2 :> <<2, 3>> @@ 3 :> <<3, 2>>
ChainPath ==
    <<0, 0>> :> <<0>> @@ <<0, 1>> :> <<0, 1>> @@
    <<0, 2>> :> <<0, 1, 2>> @@ <<0, 3>> :> <<0, 1, 2, 3>> @@
    <<1, 0>> :> <<1, 0>> @@ <<1, 1>> :> <<1>> @@
    <<1, 2>> :> <<1, 2>> @@ <<1, 3>> :> <<1, 2, 3>> @@
    <<2, 0>> :> <<2, 1, 0>> @@ <<2, 1>> :> <<2, 1>> @@
    <<2, 2>> :> <<2>> @@ <<2, 3>> :> <<2, 3>> @@
    <<3, 0>> :> <<3, 2, 1, 0>> @@ <<3, 1>> :> <<3, 2, 1>> @@
    <<3, 2>> :> <<3, 2>> @@ <<3, 3>> :> <<3>>
ASSUME ChainPathAssumption == ChainPath = PathsOf(4, ChainAddr)

TwoControllers == 0 :> 1 @@ 1 :> 1 @@ 2 :> 2 @@ 3 :> 2

\* Both directions of the longest flow, and flows to both addresses of a node
\* on its way.
ChainTraffic ==
    { Send(0, NoAddr, <<3, 2>>, NoAddr),
      Send(0, NoAddr, <<2, 1>>, NoAddr),
      Send(0, NoAddr, <<2, 3>>, NoAddr),
      Send(3, NoAddr, <<0, 1>>, NoAddr) }

-------------------------------------------------------------------------------
(***************************************************************************)
(* Traffic for single questions on the line of three.                      *)
(***************************************************************************)
\* From the far end to the node that is its controller.
ToController == { Send(2, NoAddr, <<0, 1>>, NoAddr) }

==============================================================================
