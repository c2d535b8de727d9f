-------------------------- MODULE RequestQueueProofs --------------------------
(***************************************************************************)
(* Theorems about RequestQueue, for every set of packets, addresses,       *)
(* limits and timeouts.                                                    *)
(***************************************************************************)
EXTENDS RequestQueue, FiniteSetTheorems, WellFoundedInduction, TLAPS

(***************************************************************************)
(* Purge and the search for the earliest entry take parts of the queue.    *)
(***************************************************************************)
LEMMA PartsOfQueue ==
    /\ Expired \subseteq m_queue
    /\ Unexpired \subseteq m_queue
    /\ Unexpired \cup Expired = m_queue
    /\ Unexpired \cap Expired = {}
    /\ MostAged \subseteq Unexpired
    /\ \A s, d : Found(s, d) \subseteq Unexpired
BY DEF Expired, Unexpired, MostAged, Found, Earliest

(***************************************************************************)
(* A nonempty set of entries has an earliest one.                          *)
(***************************************************************************)
LEMMA EarliestExists ==
    ASSUME NEW S \in SUBSET Entry, S # {}
    PROVE  Earliest(S) # {}
<1> DEFINE T == {0 .. e.ticket : e \in S}
           R == StrictSubsetOrdering(Nat)
<1>1. \A e \in S : e.ticket \in Nat
  BY DEF Entry
<1>2. \A e \in S : 0 .. e.ticket \in FiniteSubsetsOf(Nat)
  BY <1>1, FS_Interval DEF FiniteSubsetsOf
<1>3. T \subseteq FiniteSubsetsOf(Nat) /\ T # {}
  BY <1>2
<1>4. PICK x \in T : \A y \in T : <<y, x>> \notin R
  <2>1. IsWellFoundedOn(R, FiniteSubsetsOf(Nat))
    BY FS_StrictSubsetOrderingWellFounded
  <2>. HIDE DEF T, R
  <2>2. QED
    BY <1>3, <2>1, WFMin
<1>5. PICK e \in S : x = 0 .. e.ticket
  OBVIOUS
<1>6. ASSUME NEW f \in S
      PROVE  e.ticket <= f.ticket
  <2>1. SUFFICES ASSUME f.ticket < e.ticket PROVE FALSE
    BY <1>1
  <2>2. (0 .. f.ticket) \subseteq (0 .. e.ticket) /\ (0 .. f.ticket) # (0 .. e.ticket)
    BY <1>1, <2>1
  <2>3. <<0 .. f.ticket, 0 .. e.ticket>> \in R
    BY <1>1, <2>2 DEF StrictSubsetOrdering
  <2>4. QED
    BY <1>4, <1>5, <2>3
<1>7. QED
  BY <1>6 DEF Earliest

(***************************************************************************)
(* The queue, its limits and its history keep their types.                 *)
(***************************************************************************)
LEMMA NewEntryType ==
    ASSUME TypeOK, NEW u \in Uid, NEW s \in Addr, NEW d \in Addr
    PROVE  NewEntry(u, s, d) \in Entry
BY TimeoutAssumption DEF TypeOK, NewEntry, Entry

\* The types hold at the start.
LEMMA TypeInit == Init => TypeOK
BY FS_EmptySet DEF Init, TypeOK

\* Enqueue keeps the types.
LEMMA TypeEnqueue ==
    ASSUME TypeOK, NEW u \in Uid, NEW s \in Addr, NEW d \in Addr,
           Enqueue(u, s, d)
    PROVE  TypeOK'
<1>1. CASE EnqueueDuplicate(u, s, d)
  <2>1. IsFiniteSet(Unexpired)
    BY PartsOfQueue, FS_Subset DEF TypeOK
  <2>2. QED
    BY <1>1, <2>1, PartsOfQueue
    DEF EnqueueDuplicate, Drop, TypeOK, limits
<1>2. CASE EnqueueNew(u, s, d)
  <2>1. IsFiniteSet(Unexpired \ MostAged)
    BY PartsOfQueue, FS_Subset DEF TypeOK
  <2>2. IsFiniteSet((Unexpired \ MostAged) \cup {NewEntry(u, s, d)})
    BY <2>1, FS_AddElement
  <2>3. QED
    BY <1>2, <2>2, PartsOfQueue, NewEntryType
    DEF EnqueueNew, Drop, TypeOK, limits
<1>3. QED
  BY <1>1, <1>2 DEF Enqueue

\* Dequeue keeps the types.
LEMMA TypeDequeue ==
    ASSUME TypeOK, NEW s \in Addr, NEW d \in Addr, Dequeue(s, d)
    PROVE  TypeOK'
<1>1. IsFiniteSet(Unexpired \ Found(s, d))
  BY PartsOfQueue, FS_Subset DEF TypeOK
<1>2. QED
  BY <1>1, PartsOfQueue DEF Dequeue, Drop, TypeOK, limits

\* Every operation keeps the types.
LEMMA TypeNext == TypeOK /\ [Next]_vars => TypeOK'
<1> SUFFICES ASSUME TypeOK, [Next]_vars PROVE TypeOK'
  OBVIOUS
<1>1. CASE Tick
  BY <1>1 DEF Tick, TypeOK, custody, limits
<1>2. CASE \E u \in Uid, s, d \in Addr : Enqueue(u, s, d)
  BY <1>2, TypeEnqueue
<1>3. CASE \E s, d \in Addr : Dequeue(s, d)
  BY <1>3, TypeDequeue
<1>4. CASE GetSize
  <2>1. IsFiniteSet(Unexpired)
    BY PartsOfQueue, FS_Subset DEF TypeOK
  <2>2. QED
    BY <1>4, <2>1, PartsOfQueue DEF GetSize, Drop, TypeOK, limits
<1>5. CASE \E d \in Addr : DropPacketWithDst(d)
  <2>1. PICK d \in Addr : DropPacketWithDst(d)
    BY <1>5
  <2>2. IsFiniteSet(Unexpired \ {e \in Unexpired : e.dst = d})
    BY PartsOfQueue, FS_Subset DEF TypeOK
  <2>3. QED
    BY <2>1, <2>2, PartsOfQueue DEF DropPacketWithDst, Drop, TypeOK, limits
<1>6. CASE \E len \in Limit : SetMaxQueueLen(len)
  BY <1>6 DEF SetMaxQueueLen, TypeOK, custody
<1>7. CASE \E t \in Timeout : SetQueueTimeout(t)
  BY <1>7 DEF SetQueueTimeout, TypeOK, custody
<1>8. CASE UNCHANGED vars
  BY <1>8 DEF vars, TypeOK
<1>9. QED
  BY <1>1, <1>2, <1>3, <1>4, <1>5, <1>6, <1>7, <1>8 DEF Next, ProtocolNext

(***************************************************************************)
(* The type invariant, for every use of the public interface.              *)
(***************************************************************************)
THEOREM TypeCorrect == Spec => []TypeOK
BY TypeInit, TypeNext, PTL DEF Spec

(***************************************************************************)
(* No operation makes two entries for one packet and destination.          *)
(***************************************************************************)
LEMMA NoDuplicateNext == NoDuplicate /\ [Next]_vars => NoDuplicate'
<1> SUFFICES ASSUME NoDuplicate, [Next]_vars PROVE NoDuplicate'
  OBVIOUS
<1>1. m_queue' \subseteq m_queue => NoDuplicate'
  BY DEF NoDuplicate
<1>2. CASE \E u \in Uid, s, d \in Addr : EnqueueNew(u, s, d)
  <2>1. PICK u \in Uid, s \in Addr, d \in Addr : EnqueueNew(u, s, d)
    BY <1>2
  <2>2. \A e \in m_queue' : e \in Unexpired \/ e = NewEntry(u, s, d)
    BY <2>1 DEF EnqueueNew
  <2>3. \A e \in Unexpired : e.uid # u \/ e.dst # d
    BY <2>1 DEF EnqueueNew, Duplicate
  <2>4. NewEntry(u, s, d).uid = u /\ NewEntry(u, s, d).dst = d
    BY DEF NewEntry
  <2>5. QED
    BY <2>2, <2>3, <2>4, PartsOfQueue DEF NoDuplicate
<1>3. CASE \E u \in Uid, s, d \in Addr : EnqueueDuplicate(u, s, d)
  BY <1>1, <1>3, PartsOfQueue DEF EnqueueDuplicate
<1>4. CASE \E s, d \in Addr : Dequeue(s, d)
  BY <1>1, <1>4, PartsOfQueue DEF Dequeue
<1>5. CASE GetSize
  BY <1>1, <1>5, PartsOfQueue DEF GetSize
<1>6. CASE \E d \in Addr : DropPacketWithDst(d)
  BY <1>1, <1>6, PartsOfQueue DEF DropPacketWithDst
<1>7. CASE UNCHANGED m_queue
  BY <1>1, <1>7
<1>8. QED
  BY <1>2, <1>3, <1>4, <1>5, <1>6, <1>7
  DEF Next, ProtocolNext, Enqueue, Tick, SetMaxQueueLen, SetQueueTimeout,
      custody, vars

(***************************************************************************)
(* The queue never holds a packet twice for one destination, for every use *)
(* of the public interface.                                                *)
(***************************************************************************)
THEOREM QueueHasNoDuplicate == Spec => []NoDuplicate
<1>1. Init => NoDuplicate
  BY DEF Init, NoDuplicate
<1>2. QED
  BY <1>1, NoDuplicateNext, PTL DEF Spec

-------------------------------------------------------------------------------
(***************************************************************************)
(* The queue implements PacketCustody.  The invariant that makes every     *)
(* step a step of the abstract buffer: a new ticket is a number no entry   *)
(* ever had, and an entry is in one place.                                 *)
(***************************************************************************)
TicketsUsed == \A e \in m_queue \cup served \cup reported : e.ticket <= arrivals
CustodyInv == TypeOK /\ TicketsUsed /\ Custody!OneFate

\* A step that reports R, hands back S and accepts A.
LEMMA HandOver ==
    ASSUME Custody!OneFate,
           NEW R \in SUBSET m_queue, NEW S \in SUBSET m_queue, NEW A,
           R \cap S = {}, A \cap (m_queue \cup served \cup reported) = {},
           m_queue' = (m_queue \ (R \cup S)) \cup A,
           served' = served \cup S,
           reported' = reported \cup R
    PROVE  Custody!Next /\ Custody!OneFate'
<1>1. served' \ served = S /\ reported' \ reported = R
  BY DEF Custody!OneFate
<1>2. m_queue \ m_queue' = R \cup S /\ m_queue' \ m_queue = A
  OBVIOUS
<1>3. Custody!Next
  BY <1>1, <1>2 DEF Custody!Next
<1>4. Custody!OneFate'
  BY DEF Custody!OneFate
<1>5. QED
  BY <1>3, <1>4

\* An Enqueue that takes the packet is a step of PacketCustody.
LEMMA CustodyEnqueueNew ==
    ASSUME CustodyInv, NEW u \in Uid, NEW s \in Addr, NEW d \in Addr,
           EnqueueNew(u, s, d)
    PROVE  Custody!Next /\ Custody!OneFate' /\ TicketsUsed'
<1> DEFINE new == NewEntry(u, s, d)
<1>1. new.ticket = arrivals + 1
  BY DEF NewEntry
<1>2. arrivals \in Nat /\ \A e \in m_queue \cup served \cup reported :
                            e.ticket \in Nat
  BY DEF CustodyInv, TypeOK, Entry
<1>3. new \notin m_queue \cup served \cup reported
  BY <1>1, <1>2 DEF CustodyInv, TicketsUsed
<1>4. m_queue' = (m_queue \ ((Expired \cup MostAged) \cup {})) \cup {new}
  BY PartsOfQueue DEF EnqueueNew, Unexpired
<1>5. served' = served \cup {} /\ reported' = reported \cup (Expired \cup MostAged)
  BY DEF EnqueueNew, Drop
<1>6. Custody!Next /\ Custody!OneFate'
  <2> DEFINE R == Expired \cup MostAged
             A == {new}
  <2>1. R \in SUBSET m_queue /\ {} \in SUBSET m_queue /\ R \cap {} = {}
    BY PartsOfQueue
  <2>2. A \cap (m_queue \cup served \cup reported) = {}
    BY <1>3
  <2>3. m_queue' = (m_queue \ (R \cup {})) \cup A
    BY <1>4
  <2>4. served' = served \cup {} /\ reported' = reported \cup R
    BY <1>5
  <2>. HIDE DEF new, R, A
  <2>5. QED
    BY <2>1, <2>2, <2>3, <2>4, HandOver DEF CustodyInv
<1>7. TicketsUsed'
  <2>1. arrivals' = arrivals + 1
    BY DEF EnqueueNew
  <2>2. \A e \in (m_queue \cup served \cup reported)' :
           e \in m_queue \cup served \cup reported \/ e = new
    BY <1>4, <1>5, PartsOfQueue
  <2>3. QED
    BY <1>1, <1>2, <2>1, <2>2 DEF CustodyInv, TicketsUsed
<1>8. QED
  BY <1>6, <1>7

\* An operation that only removes entries is a step of PacketCustody.
LEMMA CustodyRemoval ==
    ASSUME CustodyInv,
           NEW R \in SUBSET m_queue, NEW S \in SUBSET m_queue,
           R \cap S = {},
           m_queue' = m_queue \ (R \cup S),
           served' = served \cup S,
           reported' = reported \cup R,
           arrivals' = arrivals
    PROVE  Custody!Next /\ Custody!OneFate' /\ TicketsUsed'
<1>1. m_queue' = (m_queue \ (R \cup S)) \cup {}
  OBVIOUS
<1>2. Custody!Next /\ Custody!OneFate'
  BY <1>1, HandOver DEF CustodyInv
<1>3. TicketsUsed'
  BY DEF CustodyInv, TicketsUsed
<1>4. QED
  BY <1>2, <1>3

\* Every operation is a step of PacketCustody or a stutter of it.
LEMMA CustodyNext ==
    CustodyInv /\ [Next]_vars
      => [Custody!Next]_custody /\ CustodyInv'
<1> SUFFICES ASSUME CustodyInv, [Next]_vars
             PROVE  [Custody!Next]_custody /\ CustodyInv'
  OBVIOUS
<1> USE PartsOfQueue
<1>1. TypeOK'
  BY TypeNext DEF CustodyInv
<1>2. CASE \E u \in Uid, s, d \in Addr : EnqueueNew(u, s, d)
  BY <1>1, <1>2, CustodyEnqueueNew DEF CustodyInv
<1>3. ASSUME m_queue' = Unexpired, Drop(Expired),
             served' = served, arrivals' = arrivals
      PROVE  Custody!Next /\ Custody!OneFate' /\ TicketsUsed'
  <2>1. m_queue' = m_queue \ (Expired \cup {}) /\ served' = served \cup {}
    BY <1>3 DEF Unexpired
  <2>2. QED
    BY <1>3, <2>1, CustodyRemoval DEF Drop
<1>4. CASE \E u \in Uid, s, d \in Addr : EnqueueDuplicate(u, s, d)
  BY <1>1, <1>3, <1>4 DEF EnqueueDuplicate, CustodyInv
<1>5. CASE GetSize
  BY <1>1, <1>3, <1>5 DEF GetSize, CustodyInv
<1>6. CASE \E s, d \in Addr : Dequeue(s, d)
  <2>1. PICK s \in Addr, d \in Addr : Dequeue(s, d)
    BY <1>6
  <2>2. m_queue' = m_queue \ (Expired \cup Found(s, d))
    BY <2>1 DEF Dequeue, Unexpired
  <2>3. Expired \cap Found(s, d) = {} /\ Found(s, d) \in SUBSET m_queue
    BY PartsOfQueue
  <2>4. Custody!Next /\ Custody!OneFate' /\ TicketsUsed'
    BY <2>1, <2>2, <2>3, CustodyRemoval DEF Dequeue, Drop
  <2>5. QED
    BY <1>1, <2>4 DEF CustodyInv
<1>7. CASE \E d \in Addr : DropPacketWithDst(d)
  <2>1. PICK d \in Addr : DropPacketWithDst(d)
    BY <1>7
  <2> DEFINE R == Expired \cup {e \in Unexpired : e.dst = d}
  <2>2. m_queue' = m_queue \ (R \cup {}) /\ reported' = reported \cup R
    BY <2>1 DEF DropPacketWithDst, Drop, Unexpired
  <2>3. R \in SUBSET m_queue
    BY PartsOfQueue
  <2>4. served' = served \cup {} /\ arrivals' = arrivals
    BY <2>1 DEF DropPacketWithDst
  <2>5. Custody!Next /\ Custody!OneFate' /\ TicketsUsed'
    <3>. HIDE DEF R
    <3>1. QED
      BY <2>2, <2>3, <2>4, CustodyRemoval
  <2>6. QED
    BY <1>1, <2>5 DEF CustodyInv
<1>8. CASE UNCHANGED <<custody, arrivals>>
  BY <1>1, <1>8 DEF custody, CustodyInv, TicketsUsed, Custody!OneFate
<1>9. CASE \/ Tick
           \/ \E len \in Limit : SetMaxQueueLen(len)
           \/ \E t \in Timeout : SetQueueTimeout(t)
           \/ UNCHANGED vars
  <2>1. UNCHANGED <<custody, arrivals>>
    BY <1>9 DEF Tick, SetMaxQueueLen, SetQueueTimeout, vars, custody
  <2>2. QED
    BY <1>8, <2>1
<1>10. QED
  BY <1>2, <1>4, <1>5, <1>6, <1>7, <1>9 DEF Next, ProtocolNext, Enqueue

(***************************************************************************)
(* Every packet the queue accepts leaves it once, returned by Dequeue or   *)
(* reported to its error callback, for every use of the public interface.  *)
(***************************************************************************)
THEOREM QueueImplementsCustody == Spec => CustodySpec
<1>1. Init => CustodyInv /\ Custody!Init
  BY TypeInit DEF Init, CustodyInv, TicketsUsed, Custody!OneFate, Custody!Init
<1>2. QED
  BY <1>1, CustodyNext, PTL
  DEF Spec, CustodySpec, Custody!Spec, Custody!custodyVars, custody

-------------------------------------------------------------------------------
(***************************************************************************)
(* As the routing protocol uses the queue, its limit is never passed.      *)
(***************************************************************************)
BoundInv == TypeOK /\ SizeBound

\* An Enqueue that takes the packet leaves no more packets than m_maxLen.
LEMMA BoundEnqueueNew ==
    ASSUME BoundInv, NEW u \in Uid, NEW s \in Addr, NEW d \in Addr,
           EnqueueNew(u, s, d)
    PROVE  SizeBound'
<1> DEFINE kept == Unexpired \ MostAged
<1>1. m_queue \in SUBSET Entry /\ IsFiniteSet(m_queue) /\ m_maxLen \in Nat \ {0}
  BY LimitAssumption DEF BoundInv, TypeOK
<1>2. /\ IsFiniteSet(Unexpired)
      /\ Cardinality(Unexpired) \in Nat
      /\ Cardinality(m_queue) \in Nat
      /\ Cardinality(Unexpired) <= m_maxLen
  BY <1>1, PartsOfQueue, FS_Subset, FS_CardinalityType DEF BoundInv, SizeBound
<1>3. IsFiniteSet(kept) /\ Cardinality(kept) \in Nat
  BY <1>2, FS_Subset, FS_CardinalityType
<1>4. Cardinality(kept) < m_maxLen
  <2>1. CASE Cardinality(Unexpired) = m_maxLen
    <3>1. Unexpired # {}
      BY <1>1, <2>1, FS_EmptySet
    <3>2. MostAged # {}
      BY <1>1, <2>1, <3>1, PartsOfQueue, EarliestExists DEF MostAged
    <3>3. kept # Unexpired
      BY <3>2, PartsOfQueue
    <3>4. QED
      BY <1>1, <1>2, <1>3, <2>1, <3>3, FS_Subset
  <2>2. CASE Cardinality(Unexpired) < m_maxLen
    BY <1>1, <1>2, <1>3, <2>2, FS_Subset
  <2>3. QED
    BY <1>1, <1>2, <2>1, <2>2
<1>5. Cardinality(kept \cup {NewEntry(u, s, d)}) <= m_maxLen
  <2>. HIDE DEF kept
  <2>1. Cardinality(kept \cup {NewEntry(u, s, d)})
          = IF NewEntry(u, s, d) \in kept THEN Cardinality(kept)
                                          ELSE Cardinality(kept) + 1
    BY <1>3, FS_AddElement
  <2>2. QED
    BY <1>1, <1>3, <1>4, <2>1
<1>6. QED
  BY <1>5 DEF EnqueueNew, SizeBound, limits

\* Every operation that does not lower the limit keeps the queue within it.
LEMMA BoundNext ==
    BoundInv /\ [Next]_vars /\ m_maxLen' >= m_maxLen => SizeBound'
<1> SUFFICES ASSUME BoundInv, [Next]_vars, m_maxLen' >= m_maxLen
             PROVE  SizeBound'
  OBVIOUS
<1>1. CASE \E u \in Uid, s, d \in Addr : EnqueueNew(u, s, d)
  BY <1>1, BoundEnqueueNew
<1>2. ASSUME m_queue' \subseteq m_queue
      PROVE  SizeBound'
  <2>1. /\ Cardinality(m_queue') <= Cardinality(m_queue)
        /\ Cardinality(m_queue') \in Nat /\ Cardinality(m_queue) \in Nat
    BY <1>2, FS_Subset, FS_CardinalityType DEF BoundInv, TypeOK
  <2>2. m_maxLen \in Nat /\ m_maxLen' \in Nat
    BY TypeNext, LimitAssumption DEF BoundInv, TypeOK
  <2>3. QED
    BY <2>1, <2>2 DEF BoundInv, SizeBound
<1>3. CASE \E u \in Uid, s, d \in Addr : EnqueueDuplicate(u, s, d)
  BY <1>2, <1>3, PartsOfQueue DEF EnqueueDuplicate
<1>4. CASE \E s, d \in Addr : Dequeue(s, d)
  BY <1>2, <1>4, PartsOfQueue DEF Dequeue
<1>5. CASE GetSize
  BY <1>2, <1>5, PartsOfQueue DEF GetSize
<1>6. CASE \E d \in Addr : DropPacketWithDst(d)
  BY <1>2, <1>6, PartsOfQueue DEF DropPacketWithDst
<1>7. CASE \/ Tick
           \/ \E len \in Limit : SetMaxQueueLen(len)
           \/ \E t \in Timeout : SetQueueTimeout(t)
           \/ UNCHANGED vars
  BY <1>2, <1>7 DEF Tick, SetMaxQueueLen, SetQueueTimeout, custody, vars
<1>8. QED
  BY <1>1, <1>3, <1>4, <1>5, <1>6, <1>7 DEF Next, ProtocolNext, Enqueue

(***************************************************************************)
(* A queue within its limit leaves it only when the limit is lowered, for  *)
(* every use of the public interface.                                      *)
(***************************************************************************)
THEOREM QueueStaysWithinLimit == Spec => StaysWithinLimit
<1>1. TypeOK /\ [Next]_vars => [SizeBound /\ m_maxLen' >= m_maxLen => SizeBound']_vars
  BY BoundNext DEF BoundInv
<1>2. QED
  BY <1>1, TypeCorrect, PTL DEF Spec, StaysWithinLimit

(***************************************************************************)
(* The queue never holds more than m_maxLen packets, for every positive    *)
(* limit, as long as nobody changes the limit.                             *)
(***************************************************************************)
THEOREM QueueIsBounded == ProtocolSpec => []SizeBound
<1>1. Init => BoundInv
  <2> SUFFICES ASSUME Init PROVE SizeBound
    BY TypeInit DEF BoundInv
  <2>1. Cardinality(m_queue) = 0
    BY FS_EmptySet DEF Init
  <2>2. m_maxLen \in Nat
    BY LimitAssumption DEF Init
  <2>3. QED
    BY <2>1, <2>2 DEF SizeBound
<1>2. BoundInv /\ [ProtocolNext]_vars => BoundInv'
  <2> SUFFICES ASSUME BoundInv, [ProtocolNext]_vars PROVE BoundInv'
    OBVIOUS
  <2>1. [Next]_vars
    BY DEF Next
  <2>2. TypeOK'
    BY <2>1, TypeNext DEF BoundInv
  <2>3. m_maxLen' = m_maxLen
    BY DEF ProtocolNext, Tick, Enqueue, EnqueueDuplicate, EnqueueNew, Dequeue,
           limits, vars
  <2>4. m_maxLen' >= m_maxLen
    BY <2>3, LimitAssumption DEF BoundInv, TypeOK
  <2>5. QED
    BY <2>1, <2>2, <2>4, BoundNext DEF BoundInv
<1>3. BoundInv => SizeBound
  BY DEF BoundInv
<1>4. QED
  BY <1>1, <1>2, <1>3, PTL DEF ProtocolSpec

-------------------------------------------------------------------------------
(***************************************************************************)
(* What leaves the queue, and in which order.                              *)
(***************************************************************************)
\* Only Dequeue returns packets, and only an Enqueue that takes the packet
\* pushes an entry.
LEMMA OneDoor ==
    ASSUME [Next]_vars
    PROVE  /\ served' # served => \E s, d \in Addr : Dequeue(s, d)
           /\ arrivals' # arrivals => \E u \in Uid, s, d \in Addr : EnqueueNew(u, s, d)
  BY DEF Next, ProtocolNext, Enqueue, EnqueueDuplicate, EnqueueNew, Dequeue, Tick,
         GetSize, DropPacketWithDst, SetMaxQueueLen, SetQueueTimeout,
         vars, custody, limits

(***************************************************************************)
(* A packet is returned before its time is over, and after all that came   *)
(* before it in its flow, for every use of the public interface.           *)
(***************************************************************************)
THEOREM QueueServesInOrder == Spec => ServesEarliestFresh
<1> DEFINE InOrder ==
               \A e \in served' \ served :
                  /\ e.expire >= now
                  /\ \A f \in m_queue :
                       f.src = e.src /\ f.dst = e.dst /\ f.expire >= now
                         => e.ticket <= f.ticket
<1>1. TypeOK /\ [Next]_vars => InOrder
  <2>1. SUFFICES ASSUME TypeOK, [Next]_vars, NEW e \in served' \ served
                 PROVE  /\ e.expire >= now
                        /\ \A f \in m_queue :
                             f.src = e.src /\ f.dst = e.dst /\ f.expire >= now
                               => e.ticket <= f.ticket
    OBVIOUS
  <2>2. PICK s \in Addr, d \in Addr : Dequeue(s, d)
    BY <2>1, OneDoor
  <2>3. e \in Found(s, d)
    BY <2>1, <2>2 DEF Dequeue
  <2>4. /\ e \in Unexpired /\ e.src = s /\ e.dst = d
        /\ \A f \in Unexpired : f.dst = d /\ f.src = s => e.ticket <= f.ticket
    BY <2>3 DEF Found, Earliest
  <2>5. /\ now \in Nat
        /\ \A f \in m_queue : f.expire \in Nat /\ (f \in Unexpired <=> f.expire >= now)
    BY <2>1 DEF TypeOK, Entry, Unexpired, Expired, IsExpired
  <2>6. QED
    BY <2>4, <2>5, PartsOfQueue
<1>2. QED
  BY <1>1, TypeCorrect, PTL DEF Spec, ServesEarliestFresh

(***************************************************************************)
(* Enqueue gives up a packet before its time only when the queue is full,  *)
(* and then the one that has waited longest, for every use of the public   *)
(* interface.                                                              *)
(***************************************************************************)
THEOREM QueueEvictsMostAged == Spec => EvictsMostAged
<1> DEFINE InTurn ==
               \A e \in reported' \ reported :
                  arrivals' # arrivals /\ e.expire >= now
                    => /\ Cardinality(Unexpired) = m_maxLen
                       /\ \A f \in m_queue' : e.ticket <= f.ticket
<1>1. CustodyInv /\ [Next]_vars => InTurn
  <2>1. SUFFICES ASSUME CustodyInv, [Next]_vars, NEW e \in reported' \ reported,
                        arrivals' # arrivals, e.expire >= now
                 PROVE  /\ Cardinality(Unexpired) = m_maxLen
                        /\ \A f \in m_queue' : e.ticket <= f.ticket
    OBVIOUS
  <2>2. PICK u \in Uid, s \in Addr, d \in Addr : EnqueueNew(u, s, d)
    BY <2>1, OneDoor
  <2>3. /\ now \in Nat /\ arrivals \in Nat
        /\ \A f \in m_queue : /\ f.expire \in Nat /\ f.ticket \in Nat
                              /\ f.ticket <= arrivals
    BY <2>1 DEF CustodyInv, TypeOK, TicketsUsed, Entry
  <2>4. e \in Expired \cup MostAged
    BY <2>1, <2>2 DEF EnqueueNew, Drop
  <2>5. e \notin Expired
    BY <2>1, <2>3 DEF Expired, IsExpired
  <2>6. /\ Cardinality(Unexpired) = m_maxLen /\ e \in Earliest(Unexpired)
    BY <2>4, <2>5 DEF MostAged
  <2>7. e \in m_queue /\ \A f \in Unexpired : e.ticket <= f.ticket
    BY <2>6, PartsOfQueue DEF Earliest
  <2>8. e.ticket <= NewEntry(u, s, d).ticket
    BY <2>3, <2>7 DEF NewEntry
  <2>9. \A f \in m_queue' : f \in Unexpired \/ f = NewEntry(u, s, d)
    BY <2>2 DEF EnqueueNew
  <2>10. QED
    BY <2>6, <2>7, <2>8, <2>9
<1>2. Spec => []CustodyInv
  <2>1. Init => CustodyInv
    BY TypeInit DEF Init, CustodyInv, TicketsUsed, Custody!OneFate
  <2>2. QED
    BY <2>1, CustodyNext, PTL DEF Spec
<1>3. QED
  BY <1>1, <1>2, PTL DEF Spec, EvictsMostAged

===============================================================================
