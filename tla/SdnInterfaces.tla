---------------------------- MODULE SdnInterfaces ----------------------------
(***************************************************************************)
(* The sockets and the hello timer of a switch while its interfaces go up  *)
(* and down and its addresses come and go, in sdn::RoutingProtocol and in  *)
(* sdsn::RoutingProtocol.  The two differ in the timer: sdsn never cancels *)
(* it.                                                                     *)
(*                                                                         *)
(* The IPv4 layer calls NotifyInterfaceUp, NotifyInterfaceDown,            *)
(* NotifyAddAddress and NotifyRemoveAddress after each change it has made: *)
(* an action is the change and the call.  The loopback interface has no    *)
(* socket and is left out.  A step whose NS_ASSERT fails ends the program  *)
(* and is no step here; DownFindsSocket says that it cannot fail.          *)
(***************************************************************************)
EXTENDS Naturals, Sequences, SequencesExt, Functions

CONSTANTS
    Interface,    \* the interfaces of the node but the loopback
    Addr,         \* IPv4 addresses
    MaxSockets    \* bound on the sockets when NotifyInterfaceUp makes one

ASSUME SocketAssumption == MaxSockets \in Nat

VARIABLES
    protocol,            \* "sdn" or "sdsn"
    m_ipv4,              \* whether SetIpv4 was called
    addresses,           \* the addresses of each interface, in order
    up,                  \* the interfaces that are up
    m_socketAddresses,   \* how many sockets have an address and a device
    m_htimer,            \* "pending" or "cancelled"
    announced,           \* history: a hello followed the last change of up
    given,               \* history: the interfaces each address was given to
    dark,                \* history: an sdn node had sockets and lost them all
    twice                \* history: an interface was brought up while it was up

routing == <<m_socketAddresses, m_htimer>>
vars == <<protocol, m_ipv4, addresses, up, m_socketAddresses, m_htimer,
          given, announced, dark, twice>>

Binding == Addr \X Interface

NodeOK ==
    /\ m_ipv4 \in BOOLEAN
    /\ addresses \in [Interface -> Seq(Addr)]
    /\ up \in SUBSET Interface
    /\ m_socketAddresses \in [Binding -> Nat]
    /\ m_htimer \in {"pending", "cancelled"}
    /\ given \in [Addr -> SUBSET Interface]
    /\ announced \in BOOLEAN
    /\ dark \in BOOLEAN
    /\ twice \in BOOLEAN

TypeOK == protocol \in {"sdn", "sdsn"} /\ NodeOK

\* The constructor schedules the first hello.
Init ==
    /\ protocol \in {"sdn", "sdsn"}
    /\ m_ipv4 = FALSE
    /\ addresses = [i \in Interface |-> <<>>]
    /\ up = {}
    /\ m_socketAddresses = [b \in Binding |-> 0]
    /\ m_htimer = "pending"
    /\ given = [a \in Addr |-> {}]
    /\ announced = TRUE
    /\ dark = FALSE
    /\ twice = FALSE

-------------------------------------------------------------------------------
\* Defect: a socket is returned that was closed before.
FindAnySocket(a) == {b \in Binding : b[1] = a}

\* The sockets that FindSocketWithInterfaceAddress may return: the order of
\* the map is that of pointers.
FindSocket(a) == {b \in Binding : b[1] = a /\ m_socketAddresses[b] > 0}

Opened(S, b) == [S EXCEPT ![b] = @ + 1]
Closed(S, b) == [S EXCEPT ![b] = @ - 1]

NoSocket(S) == \A b \in Binding : S[b] = 0

\* It is called before any interface is up: the loop over the sockets that
\* is to create routes to the loopback finds none.
SetIpv4 ==
    /\ ~m_ipv4
    /\ m_ipv4' = TRUE
    /\ UNCHANGED <<addresses, up, routing, given, announced, dark, twice>>

SocketCount == FoldFunction(+, 0, m_socketAddresses)

NotifyInterfaceUp(i) ==
    /\ m_ipv4
    /\ addresses[i] # <<>>
    /\ SocketCount < MaxSockets
    /\ up' = up \cup {i}
    /\ m_socketAddresses' = Opened(m_socketAddresses, <<Head(addresses[i]), i>>)
    /\ announced' = FALSE
    /\ twice' = (twice \/ i \in up)
    /\ UNCHANGED <<m_ipv4, addresses, m_htimer, given, dark>>

\* Defect: the timer is cancelled while other interfaces have sockets.
CancelAnyway ==
    /\ m_htimer' = "cancelled"
    /\ dark' = (dark \/ NoSocket(m_socketAddresses'))

\* m_htimer.Cancel () is in sdn only.
CancelWithoutSockets ==
    LET cancelled == protocol = "sdn" /\ NoSocket(m_socketAddresses') IN
    /\ m_htimer' = IF cancelled THEN "cancelled" ELSE m_htimer
    /\ dark' = (dark \/ cancelled)

NotifyInterfaceDown(i) ==
    /\ i \in up
    /\ addresses[i] # <<>>
    /\ up' = up \ {i}
    /\ \E b \in FindSocket(Head(addresses[i])) :
          m_socketAddresses' = Closed(m_socketAddresses, b)
    /\ CancelWithoutSockets
    /\ announced' = FALSE
    /\ UNCHANGED <<m_ipv4, addresses, given, twice>>

\* No address is given twice.
InUse(a) == \E i \in Interface : Contains(addresses[i], a)

NotifyAddAddress(i, a) ==
    /\ m_ipv4
    /\ ~InUse(a)
    /\ addresses' = [addresses EXCEPT ![i] = Append(@, a)]
    /\ m_socketAddresses' =
          IF i \in up /\ addresses[i] = <<>> /\ FindSocket(a) = {}
          THEN Opened(m_socketAddresses, <<a, i>>) ELSE m_socketAddresses
    /\ given' = [given EXCEPT ![a] = @ \cup {i}]
    /\ UNCHANGED <<m_ipv4, up, m_htimer, announced, dark, twice>>

\* Defect: no socket is made for the address that is first now.
Left(S, i, rest) == S

\* Closing the socket of a removed address opens one for the first that is
\* left.
Successor(S, i, rest) ==
    IF rest = <<>> THEN S ELSE Opened(S, <<Head(rest), i>>)

\* The address at position k of interface i is removed.
NotifyRemoveAddress(i, k) ==
    LET a == addresses[i][k]
        rest == RemoveAt(addresses[i], k)
    IN
    /\ addresses' = [addresses EXCEPT ![i] = rest]
    /\ \/ /\ FindSocket(a) = {}
          /\ UNCHANGED <<routing, dark>>
       \/ /\ \E b \in FindSocket(a) :
                m_socketAddresses' =
                    Successor(Closed(m_socketAddresses, b), i, rest)
          /\ CancelWithoutSockets
    /\ UNCHANGED <<m_ipv4, up, given, announced, twice>>

\* The timer's function sends the hellos and schedules the timer again.
HelloTimerExpire ==
    /\ m_htimer = "pending"
    /\ m_htimer' = "pending"
    /\ announced' = TRUE
    /\ UNCHANGED <<m_ipv4, addresses, up, m_socketAddresses, given, dark, twice>>

\* Ipv4AddressHelper brings an interface up with every address it gives it:
\* NotifyInterfaceUp may be called for an interface that is up.
Step ==
    \/ SetIpv4
    \/ HelloTimerExpire
    \/ \E i \in Interface : NotifyInterfaceUp(i) \/ NotifyInterfaceDown(i)
    \/ \E i \in Interface, a \in Addr : NotifyAddAddress(i, a)
    \/ \E i \in Interface : \E k \in DOMAIN addresses[i] :
          NotifyRemoveAddress(i, k)

\* The handlers of sdsn: what they do with the sockets is the same.
SdsnSetIpv4 == SetIpv4
SdsnInterfaceUp(i) == NotifyInterfaceUp(i)
SdsnInterfaceDown(i) == NotifyInterfaceDown(i)
SdsnAddAddress(i, a) == NotifyAddAddress(i, a)
SdsnRemoveAddress(i, k) == NotifyRemoveAddress(i, k)

SdsnStep ==
    \/ SdsnSetIpv4
    \/ HelloTimerExpire
    \/ \E i \in Interface : SdsnInterfaceUp(i) \/ SdsnInterfaceDown(i)
    \/ \E i \in Interface, a \in Addr : SdsnAddAddress(i, a)
    \/ \E i \in Interface : \E k \in DOMAIN addresses[i] :
          SdsnRemoveAddress(i, k)

Next ==
    /\ UNCHANGED protocol
    /\ \/ protocol = "sdn" /\ Step
       \/ protocol = "sdsn" /\ SdsnStep

Spec == Init /\ [][Next]_vars

\* The simulator executes the timer's function when its time has come.
FairSpec == Spec /\ WF_vars(HelloTimerExpire /\ UNCHANGED protocol)

-------------------------------------------------------------------------------
(***************************************************************************)
(* The node listens where it has to and nowhere else: one socket for the   *)
(* first address of every interface that is up and has addresses, and no   *)
(* other, in whatever order addresses were added and removed and           *)
(* interfaces went up and down, as long as none was brought up that was up *)
(* already.  IsMyOwnAddress and GetDefaultSourceAddress rest on it.        *)
(***************************************************************************)
Listening(a, i) == i \in up /\ addresses[i] # <<>> /\ a = Head(addresses[i])

ListensOnce ==
    \A a \in Addr, i \in Interface :
        m_socketAddresses[<<a, i>>] = IF Listening(a, i) THEN 1 ELSE 0

SocketsMatchInterfaces == ~twice => ListensOnce

(***************************************************************************)
(* Interfaces are also brought up that are up, and leave stale sockets     *)
(* behind.  Even then the node listens on an interface that is up, with a  *)
(* socket bound to its own device (sdn.cc:250), unless its address was on  *)
(* another interface before: NotifyAddAddress looks for a socket by the    *)
(* address alone (sdn.cc:292), takes the stale one of the other device for *)
(* its own, and the interface is deaf.                                     *)
(***************************************************************************)
UpInterfaceListens ==
    \A i \in up : \A a \in Addr :
        Listening(a, i) /\ given[a] = {i} => m_socketAddresses[<<a, i>>] > 0

(***************************************************************************)
(* Hellos go on as long as the node has not lost all its sockets: each     *)
(* change of its interfaces is followed by a hello.  Once an sdn node has, *)
(* they may have stopped for good: no operation schedules the timer again. *)
(* Those of an sdsn node always go on.                                     *)
(***************************************************************************)
ChangesAreAnnounced == ~announced ~> announced \/ dark

(***************************************************************************)
(* An interface that goes down has a socket: NS_ASSERT (socket) of         *)
(* NotifyInterfaceDown (sdn.cc:267).                                       *)
(***************************************************************************)
DownFindsSocket ==
    \A i \in up : addresses[i] # <<>> /\ FindSocket(Head(addresses[i])) # {}

===============================================================================
