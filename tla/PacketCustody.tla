---------------------------- MODULE PacketCustody ----------------------------
(***************************************************************************)
(* What a buffer of packets that wait for a route promises its client      *)
(* (sdn-rqueue.h:146-240).  A packet the buffer accepts is its             *)
(* responsibility until it is handed back to the client or reported to the *)
(* error callback that came with it: exactly one of the two, once.         *)
(***************************************************************************)

VARIABLES
    held,      \* the packets in the buffer's custody
    served,    \* the packets handed back to the client
    reported   \* the packets whose error callback was called

custodyVars == <<held, served, reported>>

Init ==
    /\ held = {}
    /\ served = {}
    /\ reported = {}

(***************************************************************************)
(* One call of the client: it may report any number of held packets, hand  *)
(* back held packets and accept packets never seen before.                 *)
(***************************************************************************)
Next ==
    /\ served \subseteq served'
    /\ reported \subseteq reported'
    /\ (served' \ served) \cap (reported' \ reported) = {}
    /\ held \ held' = (served' \ served) \cup (reported' \ reported)
    /\ (held' \ held) \cap (served \cup reported) = {}

Spec == Init /\ [][Next]_custodyVars

(***************************************************************************)
(* A packet is in one place: held, handed back or reported.                *)
(***************************************************************************)
OneFate ==
    /\ held \cap served = {}
    /\ held \cap reported = {}
    /\ served \cap reported = {}

==============================================================================
