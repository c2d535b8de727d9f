----------------------------- MODULE RequestQueue -----------------------------
(***************************************************************************)
(* sdn::RequestQueue (sdn-rqueue.h, sdn-rqueue.cc): the buffer in which a  *)
(* switch keeps the packets it has asked the controller a route for.       *)
(*                                                                         *)
(* The vector m_queue is modelled as a set of entries.  push_back is the   *)
(* only insertion and erase keeps the order, so the position of an entry   *)
(* is the order of its arrival: its ticket.  Only Enqueue and Dequeue are  *)
(* called by the routing protocol; the rest of the interface is public.    *)
(***************************************************************************)
EXTENDS Naturals, FiniteSets

CONSTANTS
    Uid,          \* packet uids
    Addr,         \* IPv4 addresses
    Limit,        \* the values given to m_maxLen
    Timeout,      \* the values given to m_queueTimeout
    MaxTime,      \* bound on the simulation time
    MaxArrivals   \* bound on the number of accepted packets

\* With m_maxLen = 0 Enqueue takes front() of an empty vector: undefined.
ASSUME LimitAssumption == Limit \subseteq Nat \ {0}
ASSUME TimeoutAssumption == Timeout \subseteq Nat
ASSUME BoundAssumption == MaxTime \in Nat /\ MaxArrivals \in Nat

VARIABLES
    m_queue,          \* the entries
    m_maxLen,         \* the maximum length
    m_queueTimeout,   \* the lifetime given to a new entry
    now,              \* Simulator::Now ()
    arrivals,         \* how many entries were ever pushed
    served,           \* the entries Dequeue has returned
    reported          \* the entries Drop has called the error callback of

custody == <<m_queue, served, reported>>
limits == <<m_maxLen, m_queueTimeout>>
vars == <<m_queue, m_maxLen, m_queueTimeout, now, arrivals, served, reported>>

Entry == [uid: Uid, src: Addr, dst: Addr, ticket: Nat, expire: Nat]

TypeOK ==
    /\ m_queue \in SUBSET Entry
    /\ IsFiniteSet(m_queue)
    /\ m_maxLen \in Limit
    /\ m_queueTimeout \in Timeout
    /\ now \in Nat
    /\ arrivals \in Nat
    /\ served \in SUBSET Entry
    /\ reported \in SUBSET Entry

Init ==
    /\ m_queue = {}
    /\ m_maxLen \in Limit
    /\ m_queueTimeout \in Timeout
    /\ now = 0
    /\ arrivals = 0
    /\ served = {}
    /\ reported = {}

-------------------------------------------------------------------------------
IsExpired(e) == e.expire < now

Expired == {e \in m_queue : IsExpired(e)}

\* What Purge leaves in m_queue: every operation but Find starts with it.
Unexpired == m_queue \ Expired

\* The first entry of a part of the vector, if it has one.
Earliest(S) == {e \in S : \A f \in S : e.ticket <= f.ticket}

\* Drop calls the error callback of each entry of S.
Drop(S) == reported' = reported \cup S

GetSize ==
    /\ m_queue' = Unexpired
    /\ Drop(Expired)
    /\ UNCHANGED <<limits, now, arrivals, served>>

\* Defect: the source is compared in place of the destination.
DuplicateBySource(u, d) == \E e \in Unexpired : e.uid = u /\ e.src = d

Duplicate(u, d) == \E e \in Unexpired : e.uid = u /\ e.dst = d

EnqueueDuplicate(u, s, d) ==
    /\ Duplicate(u, d)
    /\ m_queue' = Unexpired
    /\ Drop(Expired)
    /\ UNCHANGED <<limits, now, arrivals, served>>

NewEntry(u, s, d) ==
    [uid |-> u, src |-> s, dst |-> d, ticket |-> arrivals + 1,
     expire |-> now + m_queueTimeout]

\* Defect: back () is dropped in place of front ().
LeastAged ==
    IF Cardinality(Unexpired) = m_maxLen
    THEN {e \in Unexpired : \A f \in Unexpired : e.ticket >= f.ticket}
    ELSE {}

\* Defect: room is made only when the vector is longer than it may be.
MostAgedLate ==
    IF Cardinality(Unexpired) > m_maxLen THEN Earliest(Unexpired) ELSE {}

\* The entry at the front, when the vector has the maximum length.
MostAged ==
    IF Cardinality(Unexpired) = m_maxLen THEN Earliest(Unexpired) ELSE {}

\* Defect: the packet reported to make room is not erased.
EnqueueNewNoErase(u, s, d) ==
    /\ arrivals < MaxArrivals
    /\ ~Duplicate(u, d)
    /\ m_queue' = Unexpired \cup {NewEntry(u, s, d)}
    /\ Drop(Expired \cup MostAged)
    /\ arrivals' = arrivals + 1
    /\ UNCHANGED <<limits, now, served>>

EnqueueNew(u, s, d) ==
    /\ arrivals < MaxArrivals
    /\ ~Duplicate(u, d)
    /\ m_queue' = (Unexpired \ MostAged) \cup {NewEntry(u, s, d)}
    /\ Drop(Expired \cup MostAged)
    /\ arrivals' = arrivals + 1
    /\ UNCHANGED <<limits, now, served>>

Enqueue(u, s, d) == EnqueueDuplicate(u, s, d) \/ EnqueueNew(u, s, d)

DropPacketWithDst(d) ==
    LET matching == {e \in Unexpired : e.dst = d} IN
    /\ m_queue' = Unexpired \ matching
    /\ Drop(Expired \cup matching)
    /\ UNCHANGED <<limits, now, arrivals, served>>

\* Defect: the search does not start with Purge.
FoundUnpurged(s, d) ==
    Earliest({e \in m_queue : e.dst = d /\ e.src = s})

\* The entry Dequeue finds: none or one.
Found(s, d) ==
    Earliest({e \in Unexpired : e.dst = d /\ e.src = s})

Dequeue(s, d) ==
    /\ m_queue' = Unexpired \ Found(s, d)
    /\ served' = served \cup Found(s, d)
    /\ Drop(Expired)
    /\ UNCHANGED <<limits, now, arrivals>>

\* Defect: the limit is taken as the largest index.
SetMaxQueueIndex(len) ==
    /\ m_maxLen' = len - 1
    /\ UNCHANGED <<custody, m_queueTimeout, now, arrivals>>

SetMaxQueueLen(len) ==
    /\ m_maxLen' = len
    /\ UNCHANGED <<custody, m_queueTimeout, now, arrivals>>

SetQueueTimeout(t) ==
    /\ m_queueTimeout' = t
    /\ UNCHANGED <<custody, m_maxLen, now, arrivals>>

\* The simulator goes on to a later event.
Tick ==
    /\ now < MaxTime
    /\ now' = now + 1
    /\ UNCHANGED <<custody, limits, arrivals>>

\* What sdn::RoutingProtocol does with its queue.
ProtocolNext ==
    \/ Tick
    \/ \E u \in Uid, s, d \in Addr : Enqueue(u, s, d)
    \/ \E s, d \in Addr : Dequeue(s, d)

Next ==
    \/ ProtocolNext
    \/ GetSize
    \/ \E d \in Addr : DropPacketWithDst(d)
    \/ \E len \in Limit : SetMaxQueueLen(len)
    \/ \E t \in Timeout : SetQueueTimeout(t)

Spec == Init /\ [][Next]_vars
ProtocolSpec == Init /\ [][ProtocolNext]_vars

-------------------------------------------------------------------------------
(***************************************************************************)
(* Every accepted packet leaves the queue by one of two doors, once: it is *)
(* returned by Dequeue or its error callback is called.  No operation      *)
(* loses a packet, reports one twice or returns one it has reported.       *)
(***************************************************************************)
Custody == INSTANCE PacketCustody WITH held <- m_queue
CustodySpec == Custody!Spec

(***************************************************************************)
(* No two entries are for the same packet and destination, whatever was    *)
(* enqueued, purged and enqueued again (sdn-rqueue.h:161).                 *)
(***************************************************************************)
NoDuplicate ==
    \A e, f \in m_queue : e.uid = f.uid /\ e.dst = f.dst => e = f

(***************************************************************************)
(* Dequeue returns a packet whose time is not over, and of those of the    *)
(* flow the one that arrived first: packets of a flow leave in the order   *)
(* they came (sdn-rqueue.h:167).                                           *)
(***************************************************************************)
ServesEarliestFresh ==
    [][ \A e \in served' \ served :
          /\ e.expire >= now
          /\ \A f \in m_queue :
               f.src = e.src /\ f.dst = e.dst /\ f.expire >= now
                 => e.ticket <= f.ticket ]_vars

(***************************************************************************)
(* The queue never holds more packets than it may (sdn-rqueue.h:235).      *)
(* Enqueue compares the length with m_maxLen for equality only, so this    *)
(* rests on the limit not being changed while packets wait.                *)
(***************************************************************************)
SizeBound == Cardinality(m_queue) <= m_maxLen

(***************************************************************************)
(* Whatever is called, a queue that holds no more packets than it may goes *)
(* on so until its limit is lowered.  Once the limit is below the length,  *)
(* the test for equality (sdn-rqueue.cc:32) never holds again, and the     *)
(* queue grows until enough packets have expired or been served.           *)
(***************************************************************************)
StaysWithinLimit == [][ SizeBound /\ m_maxLen' >= m_maxLen => SizeBound' ]_vars

(***************************************************************************)
(* Enqueue gives up a packet before its time only to make room, when the   *)
(* queue holds as many unexpired packets as it may, and then no packet     *)
(* that stays has waited longer.                                           *)
(***************************************************************************)
EvictsMostAged ==
    [][ \A e \in reported' \ reported :
          arrivals' # arrivals /\ e.expire >= now
            => /\ Cardinality(Unexpired) = m_maxLen
               /\ \A f \in m_queue' : e.ticket <= f.ticket ]_vars

===============================================================================
