------------------------- MODULE SdnInterfacesProofs -------------------------
(***************************************************************************)
(* Proofs about SdnInterfaces: a node listens on the first address of each *)
(* interface that is up, once, and nowhere else.                           *)
(***************************************************************************)
EXTENDS SdnInterfaces, SequenceTheorems, TLAPS

(***************************************************************************)
(* No address is on two interfaces, or twice on one: a socket that is      *)
(* found by its address is that of the interface it is looked for.         *)
(***************************************************************************)
AddressesDistinct ==
    \A i, j \in Interface :
        \A k \in 1 .. Len(addresses[i]), l \in 1 .. Len(addresses[j]) :
            addresses[i][k] = addresses[j][l] => i = j /\ k = l

ListenInv == NodeOK /\ AddressesDistinct /\ ListensOnce

(***************************************************************************)
(* What is left when an element is removed from a sequence.                *)
(***************************************************************************)
LEMMA RemoveAtFacts ==
    ASSUME NEW S, NEW s \in Seq(S), NEW k \in 1 .. Len(s)
    PROVE  /\ RemoveAt(s, k) \in Seq(S)
           /\ Len(RemoveAt(s, k)) = Len(s) - 1
           /\ \A m \in 1 .. Len(s) - 1 :
                RemoveAt(s, k)[m] = IF m < k THEN s[m] ELSE s[m + 1]
<1> DEFINE s1 == SubSeq(s, 1, k - 1)
           s2 == SubSeq(s, k + 1, Len(s))
<1>1. Len(s) \in Nat /\ \A m \in 1 .. Len(s) : s[m] \in S
  BY LenProperties, ElementOfSeq
<1>2. /\ s1 \in Seq(S)
      /\ Len(s1) = k - 1
      /\ \A m \in 1 .. k - 1 : s1[m] = s[m]
  <2>1. 1 \in Int /\ k - 1 \in Int /\ \A m \in 1 .. k - 1 : s[m] \in S
    BY <1>1
  <2>2. /\ s1 \in Seq(S)
        /\ Len(s1) = IF 1 <= k - 1 THEN (k - 1) - 1 + 1 ELSE 0
        /\ \A m \in 1 .. (k - 1) - 1 + 1 : s1[m] = s[1 + m - 1]
    BY <2>1, SubSeqProperties
  <2>3. QED
    BY <1>1, <2>2
<1>3. /\ s2 \in Seq(S)
      /\ Len(s2) = Len(s) - k
      /\ \A m \in 1 .. Len(s) - k : s2[m] = s[k + m]
  <2>1. k + 1 \in Int /\ Len(s) \in Int /\ \A m \in k + 1 .. Len(s) : s[m] \in S
    BY <1>1
  <2>2. /\ s2 \in Seq(S)
        /\ Len(s2) = IF k + 1 <= Len(s) THEN Len(s) - (k + 1) + 1 ELSE 0
        /\ \A m \in 1 .. Len(s) - (k + 1) + 1 : s2[m] = s[k + 1 + m - 1]
    BY <2>1, SubSeqProperties
  <2>3. QED
    BY <1>1, <2>2
<1>4. /\ s1 \o s2 \in Seq(S)
      /\ Len(s1 \o s2) = Len(s1) + Len(s2)
      /\ \A m \in 1 .. Len(s1) + Len(s2) :
            (s1 \o s2)[m] = IF m <= Len(s1) THEN s1[m] ELSE s2[m - Len(s1)]
  BY <1>2, <1>3, ConcatProperties
<1>5. RemoveAt(s, k) = s1 \o s2
  BY DEF RemoveAt
<1> HIDE DEF s1, s2
<1>6. ASSUME NEW m \in 1 .. Len(s) - 1
      PROVE  (s1 \o s2)[m] = IF m < k THEN s[m] ELSE s[m + 1]
  <2> m \in Int /\ k \in Int
    BY <1>1
  <2>1. CASE m < k
    <3>1. m \in 1 .. k - 1 /\ m <= Len(s1) /\ m \in 1 .. Len(s1) + Len(s2)
      BY <1>1, <1>2, <1>3, <2>1
    <3>2. (s1 \o s2)[m] = s1[m]
      BY <1>4, <3>1
    <3>3. s1[m] = s[m]
      BY <1>2, <3>1
    <3>4. QED
      BY <2>1, <3>2, <3>3
  <2>2. CASE m >= k
    <3>1. m - Len(s1) \in 1 .. Len(s) - k /\ ~(m <= Len(s1))
          /\ m \in 1 .. Len(s1) + Len(s2)
      BY <1>1, <1>2, <1>3, <2>2
    <3>2. s2[m - Len(s1)] = s[k + (m - Len(s1))]
      BY <1>3, <3>1
    <3>3. k + (m - Len(s1)) = m + 1
      BY <1>1, <1>2
    <3>4. (s1 \o s2)[m] = s2[m - Len(s1)]
      BY <1>4, <3>1
    <3>5. ~(m < k)
      BY <2>2
    <3>6. QED
      BY <3>2, <3>3, <3>4, <3>5
  <2>3. m < k \/ m >= k
    OBVIOUS
  <2>4. QED
    BY <2>1, <2>2, <2>3, Zenon
<1>7. QED
  BY <1>1, <1>2, <1>3, <1>4, <1>5, <1>6

(***************************************************************************)
(* An address that is found has a socket on the one interface whose first  *)
(* address it is.                                                          *)
(***************************************************************************)
LEMMA FoundListens ==
    ASSUME ListenInv, NEW a \in Addr, NEW b \in FindSocket(a)
    PROVE  /\ b = <<a, b[2]>>
           /\ b[2] \in Interface
           /\ Listening(a, b[2])
           /\ m_socketAddresses[b] = 1
<1>1. b \in Binding /\ b[1] = a /\ m_socketAddresses[b] > 0
  BY DEF FindSocket
<1>2. b = <<a, b[2]>> /\ b[2] \in Interface
  BY <1>1 DEF Binding
<1>3. m_socketAddresses[<<a, b[2]>>] = IF Listening(a, b[2]) THEN 1 ELSE 0
  BY <1>2 DEF ListenInv, ListensOnce
<1>4. Listening(a, b[2]) /\ m_socketAddresses[b] = 1
  BY <1>1, <1>2, <1>3
<1>5. QED
  BY <1>2, <1>4

\* An address of an interface that listens on it is found.
LEMMA ListeningFound ==
    ASSUME ListenInv, NEW a \in Addr, NEW i \in Interface, FindSocket(a) = {}
    PROVE  ~Listening(a, i)
<1>1. <<a, i>> \in Binding /\ <<a, i>>[1] = a
  BY DEF Binding
<1>2. ~(m_socketAddresses[<<a, i>>] > 0)
  BY <1>1 DEF FindSocket
<1>3. QED
  BY <1>2 DEF ListenInv, ListensOnce

-------------------------------------------------------------------------------
\* An interface comes up.
LEMMA ListenUp ==
    ASSUME ListenInv, NEW i \in Interface \ up, NotifyInterfaceUp(i)
    PROVE  ListenInv'
<1> DEFINE h == Head(addresses[i])
<1>1. addresses[i] \in Seq(Addr) /\ addresses[i] # <<>> /\ h \in Addr
  BY DEF ListenInv, NodeOK, NotifyInterfaceUp
<1>2. <<h, i>> \in Binding
  BY <1>1 DEF Binding
<1>3. m_socketAddresses[<<h, i>>] = 0
  BY <1>1 DEF ListenInv, ListensOnce, Listening
<1>4. /\ m_socketAddresses' = [m_socketAddresses EXCEPT ![<<h, i>>] = @ + 1]
      /\ up' = up \cup {i}
      /\ UNCHANGED <<m_ipv4, addresses, m_htimer, given, dark>>
      /\ announced' = FALSE
      /\ twice' = (twice \/ i \in up)
  BY DEF NotifyInterfaceUp, Opened
<1>5. NodeOK'
  <2>1. m_socketAddresses' \in [Binding -> Nat]
    BY <1>2, <1>3, <1>4 DEF ListenInv, NodeOK
  <2>2. QED
    BY <1>4, <2>1 DEF ListenInv, NodeOK
<1>6. AddressesDistinct'
  BY <1>4 DEF ListenInv, AddressesDistinct
<1>7. ListensOnce'
  <2>1. SUFFICES ASSUME NEW a \in Addr, NEW j \in Interface
                 PROVE  m_socketAddresses'[<<a, j>>]
                          = IF Listening(a, j)' THEN 1 ELSE 0
    BY DEF ListensOnce
  <2>2. <<a, j>> \in Binding
    BY DEF Binding
  <2>3. m_socketAddresses[<<a, j>>] = IF Listening(a, j) THEN 1 ELSE 0
    BY DEF ListenInv, ListensOnce
  <2>4. CASE <<a, j>> = <<h, i>>
    BY <1>1, <1>2, <1>3, <1>4, <2>2, <2>4 DEF ListenInv, NodeOK, Listening
  <2>5. CASE <<a, j>> # <<h, i>>
    BY <1>1, <1>2, <1>4, <2>2, <2>3, <2>5 DEF ListenInv, NodeOK, Listening
  <2>6. QED
    BY <2>4, <2>5
<1>8. QED
  BY <1>5, <1>6, <1>7 DEF ListenInv

\* An interface goes down.
LEMMA ListenDown ==
    ASSUME ListenInv, NEW i \in Interface, NotifyInterfaceDown(i)
    PROVE  ListenInv'
<1> DEFINE h == Head(addresses[i])
<1>1. addresses[i] \in Seq(Addr) /\ addresses[i] # <<>> /\ h \in Addr /\ i \in up
  BY DEF ListenInv, NodeOK, NotifyInterfaceDown
<1>2. PICK b \in FindSocket(h) : m_socketAddresses' = Closed(m_socketAddresses, b)
  BY DEF NotifyInterfaceDown
<1>3. b = <<h, b[2]>> /\ b[2] \in Interface /\ Listening(h, b[2])
      /\ m_socketAddresses[b] = 1
  BY <1>1, FoundListens
<1>4. b = <<h, i>>
  <2>1. addresses[b[2]] \in Seq(Addr) /\ addresses[b[2]] # <<>>
        /\ h = addresses[b[2]][1] /\ h = addresses[i][1]
    BY <1>1, <1>3 DEF Listening, ListenInv, NodeOK
  <2>2. 1 \in 1 .. Len(addresses[i]) /\ 1 \in 1 .. Len(addresses[b[2]])
    BY <1>1, <2>1
  <2>3. b[2] = i
    BY <1>3, <2>1, <2>2 DEF ListenInv, AddressesDistinct
  <2>4. QED
    BY <1>3, <2>3
<1>5. <<h, i>> \in Binding
  BY <1>1 DEF Binding
<1>6. /\ m_socketAddresses' = [m_socketAddresses EXCEPT ![<<h, i>>] = 0]
      /\ up' = up \ {i}
      /\ UNCHANGED <<m_ipv4, addresses, given>>
  <2>1. m_socketAddresses[<<h, i>>] = 1
    BY <1>3, <1>4
  <2>2. m_socketAddresses' = [m_socketAddresses EXCEPT ![<<h, i>>] = @ - 1]
    BY <1>2, <1>4 DEF Closed
  <2>3. m_socketAddresses' = [m_socketAddresses EXCEPT ![<<h, i>>] = 0]
    BY <2>1, <2>2
  <2>4. QED
    BY <2>3 DEF NotifyInterfaceDown
<1>7. NodeOK'
  BY <1>5, <1>6 DEF ListenInv, NodeOK, NotifyInterfaceDown, CancelWithoutSockets
<1>8. AddressesDistinct'
  BY <1>6 DEF ListenInv, AddressesDistinct
<1>9. ListensOnce'
  <2>1. SUFFICES ASSUME NEW a \in Addr, NEW j \in Interface
                 PROVE  m_socketAddresses'[<<a, j>>]
                          = IF Listening(a, j)' THEN 1 ELSE 0
    BY DEF ListensOnce
  <2>2. <<a, j>> \in Binding
    BY DEF Binding
  <2>3. m_socketAddresses[<<a, j>>] = IF Listening(a, j) THEN 1 ELSE 0
    BY DEF ListenInv, ListensOnce
  <2>4. CASE <<a, j>> = <<h, i>>
    BY <1>5, <1>6, <2>2, <2>4 DEF ListenInv, NodeOK, Listening
  <2>5. CASE <<a, j>> # <<h, i>>
    BY <1>6, <2>2, <2>3, <2>5 DEF ListenInv, NodeOK, Listening
  <2>6. QED
    BY <2>4, <2>5
<1>10. QED
  BY <1>7, <1>8, <1>9 DEF ListenInv

\* An address that is added is on no interface yet.
LEMMA DistinctAdd ==
    ASSUME NodeOK, AddressesDistinct, NEW i \in Interface, NEW a \in Addr,
           NotifyAddAddress(i, a)
    PROVE  AddressesDistinct'
<1> DEFINE s == addresses[i]
           t == Append(s, a)
<1>1. s \in Seq(Addr) /\ t \in Seq(Addr) /\ Len(s) \in Nat
      /\ Len(t) = Len(s) + 1 /\ t[Len(s) + 1] = a
      /\ (\A k \in 1 .. Len(s) : t[k] = s[k]) /\ t # <<>>
  <2>1. s \in Seq(Addr)
    BY DEF NodeOK
  <2>2. Len(s) \in Nat
    BY <2>1, LenProperties
  <2>3. t \in Seq(Addr) /\ Len(t) = Len(s) + 1
        /\ \A k \in 1 .. Len(s) + 1 : t[k] = IF k <= Len(s) THEN s[k] ELSE a
    BY <2>1, AppendProperties
  <2>4. t # <<>>
    BY <2>2, <2>3, EmptySeq
  <2>5. QED
    BY <2>1, <2>2, <2>3, <2>4
<1>2. /\ addresses' = [addresses EXCEPT ![i] = t]
      /\ given' = [given EXCEPT ![a] = @ \cup {i}]
      /\ UNCHANGED <<m_ipv4, up, m_htimer, announced, dark, twice>>
  BY DEF NotifyAddAddress
<1>3. addresses'[i] = t /\ \A j \in Interface \ {i} : addresses'[j] = addresses[j]
  BY <1>2 DEF NodeOK
<1>4. \A j \in Interface : \A k \in 1 .. Len(addresses[j]) : addresses[j][k] # a
  BY DEF NotifyAddAddress, InUse, Contains
<1>5. AddressesDistinct'
  <2>1. SUFFICES ASSUME NEW j \in Interface, NEW l \in Interface,
                        NEW m \in 1 .. Len(addresses'[j]),
                        NEW n \in 1 .. Len(addresses'[l]),
                        addresses'[j][m] = addresses'[l][n]
                 PROVE  j = l /\ m = n
    BY DEF AddressesDistinct
  <2>2. ASSUME NEW q \in Interface, NEW r \in 1 .. Len(addresses'[q])
        PROVE  \/ q = i /\ r = Len(s) + 1 /\ addresses'[q][r] = a
               \/ r \in 1 .. Len(addresses[q]) /\ addresses'[q][r] = addresses[q][r]
                  /\ addresses'[q][r] # a
    <3>1. CASE q = i
      BY <1>1, <1>3, <1>4, <2>2, <3>1
    <3>2. CASE q # i
      BY <1>3, <1>4, <2>2, <3>2
    <3>3. QED
      BY <3>1, <3>2
  <2>3. QED
    BY <2>1, <2>2 DEF AddressesDistinct
<1>6. QED
  BY <1>5

\* The addresses that are left stay distinct.
LEMMA DistinctRemove ==
    ASSUME NodeOK, AddressesDistinct, NEW i \in Interface,
           NEW k \in DOMAIN addresses[i], NotifyRemoveAddress(i, k)
    PROVE  AddressesDistinct'
<1> DEFINE s == addresses[i]
           a == s[k]
           rest == RemoveAt(s, k)
<1>1. s \in Seq(Addr) /\ k \in 1 .. Len(s) /\ a \in Addr /\ Len(s) \in Nat
  BY LenProperties DEF NodeOK
<1>2. /\ rest \in Seq(Addr)
      /\ Len(rest) = Len(s) - 1
      /\ \A m \in 1 .. Len(s) - 1 : rest[m] = IF m < k THEN s[m] ELSE s[m + 1]
  BY <1>1, RemoveAtFacts
<1>3. /\ addresses' = [addresses EXCEPT ![i] = rest]
      /\ UNCHANGED <<m_ipv4, up, given, announced, twice>>
  BY DEF NotifyRemoveAddress
<1> HIDE DEF rest
<1>4. addresses'[i] = rest /\ \A j \in Interface \ {i} : addresses'[j] = addresses[j]
  BY <1>3 DEF NodeOK
<1>5. AddressesDistinct'
  <2>1. SUFFICES ASSUME NEW j \in Interface, NEW l \in Interface,
                        NEW m \in 1 .. Len(addresses'[j]),
                        NEW n \in 1 .. Len(addresses'[l]),
                        addresses'[j][m] = addresses'[l][n]
                 PROVE  j = l /\ m = n
    BY DEF AddressesDistinct
  <2>2. ASSUME NEW q \in Interface, NEW r \in 1 .. Len(addresses'[q])
        PROVE  LET o == IF q = i /\ r >= k THEN r + 1 ELSE r IN
               o \in 1 .. Len(addresses[q]) /\ addresses'[q][r] = addresses[q][o]
    <3>1. CASE q = i
      <4>1. r \in 1 .. Len(s) - 1 /\ addresses'[q][r] = rest[r]
        BY <1>2, <1>4, <2>2, <3>1
      <4>2. rest[r] = IF r < k THEN s[r] ELSE s[r + 1]
        BY <1>2, <4>1
      <4>3. r \in Int /\ k \in Int /\ Len(s) \in Int
        BY <1>1, <4>1
      <4>4. CASE r >= k
        BY <3>1, <4>1, <4>2, <4>3, <4>4
      <4>5. CASE r < k
        BY <3>1, <4>1, <4>2, <4>3, <4>5
      <4>6. QED
        BY <4>3, <4>4, <4>5
    <3>2. CASE q # i
      BY <1>4, <2>2, <3>2
    <3>3. QED
      BY <3>1, <3>2
  <2>3. j = l /\ (IF j = i /\ m >= k THEN m + 1 ELSE m)
                   = (IF l = i /\ n >= k THEN n + 1 ELSE n)
    <3> DEFINE o(q, r) == IF q = i /\ r >= k THEN r + 1 ELSE r
    <3>1. o(j, m) \in 1 .. Len(addresses[j]) /\ o(l, n) \in 1 .. Len(addresses[l])
          /\ addresses'[j][m] = addresses[j][o(j, m)]
          /\ addresses'[l][n] = addresses[l][o(l, n)]
      BY <2>2
    <3>2. addresses[j][o(j, m)] = addresses[l][o(l, n)]
      BY <2>1, <3>1
    <3> HIDE DEF o
    <3>3. j = l /\ o(j, m) = o(l, n)
      BY <3>1, <3>2 DEF AddressesDistinct
    <3>4. QED
      BY <3>3 DEF o
  <2>4. k \in Int /\ m \in Int /\ n \in Int
    BY <1>1
  <2>5. QED
    BY <2>3, <2>4
<1>6. QED
  BY <1>5

\* An interface gets another address.
LEMMA ListenAdd ==
    ASSUME ListenInv, NEW i \in Interface, NEW a \in Addr, NotifyAddAddress(i, a)
    PROVE  ListenInv'
<1> DEFINE s == addresses[i]
           t == Append(s, a)
<1>1. s \in Seq(Addr) /\ t \in Seq(Addr) /\ Len(s) \in Nat
      /\ Len(t) = Len(s) + 1 /\ t[Len(s) + 1] = a
      /\ (\A k \in 1 .. Len(s) : t[k] = s[k]) /\ t # <<>>
  <2>1. s \in Seq(Addr)
    BY DEF ListenInv, NodeOK
  <2>2. Len(s) \in Nat
    BY <2>1, LenProperties
  <2>3. t \in Seq(Addr) /\ Len(t) = Len(s) + 1
        /\ \A k \in 1 .. Len(s) + 1 : t[k] = IF k <= Len(s) THEN s[k] ELSE a
    BY <2>1, AppendProperties
  <2>4. t # <<>>
    BY <2>2, <2>3, EmptySeq
  <2>5. QED
    BY <2>1, <2>2, <2>3, <2>4
<1>2. /\ addresses' = [addresses EXCEPT ![i] = t]
      /\ given' = [given EXCEPT ![a] = @ \cup {i}]
      /\ UNCHANGED <<m_ipv4, up, m_htimer, announced, dark, twice>>
  BY DEF NotifyAddAddress
<1>3. addresses'[i] = t /\ \A j \in Interface \ {i} : addresses'[j] = addresses[j]
  BY <1>2 DEF ListenInv, NodeOK
<1>4. \A j \in Interface : \A k \in 1 .. Len(addresses[j]) : addresses[j][k] # a
  BY DEF NotifyAddAddress, InUse, Contains
<1>5. AddressesDistinct'
  BY DistinctAdd DEF ListenInv
<1>6. \A j \in Interface : m_socketAddresses[<<a, j>>] = 0
  <2>1. SUFFICES ASSUME NEW j \in Interface
                 PROVE  m_socketAddresses[<<a, j>>] = 0
    OBVIOUS
  <2>2. ~Listening(a, j)
    BY <1>4 DEF Listening, ListenInv, NodeOK
  <2>3. QED
    BY <2>2 DEF ListenInv, ListensOnce
<1>7. FindSocket(a) = {}
  BY <1>6 DEF FindSocket, Binding
<1>8. <<a, i>> \in Binding
  BY DEF Binding
<1>9. CASE i \in up /\ s = <<>>
  <2>1. m_socketAddresses' = [m_socketAddresses EXCEPT ![<<a, i>>] = 1]
    <3>1. m_socketAddresses' = [m_socketAddresses EXCEPT ![<<a, i>>] = @ + 1]
      BY <1>7, <1>9 DEF NotifyAddAddress, Opened
    <3>2. m_socketAddresses[<<a, i>>] = 0
      BY <1>6
    <3>3. QED
      BY <3>1, <3>2
  <2>2. NodeOK'
    <3>1. m_socketAddresses' \in [Binding -> Nat]
      BY <2>1, <1>8 DEF ListenInv, NodeOK
    <3>2. QED
      BY <1>1, <1>2, <3>1 DEF ListenInv, NodeOK
  <2>3. Head(t) = a
    BY <1>1, <1>9
  <2>4. ASSUME NEW c \in Addr, NEW j \in Interface
        PROVE  m_socketAddresses'[<<c, j>>] = IF Listening(c, j)' THEN 1 ELSE 0
    <3>1. <<c, j>> \in Binding
      BY DEF Binding
    <3>2. m_socketAddresses[<<c, j>>] = IF Listening(c, j) THEN 1 ELSE 0
      BY DEF ListenInv, ListensOnce
    <3>3. CASE j # i
      BY <1>2, <1>3, <2>1, <3>1, <3>2, <3>3 DEF Listening, ListenInv, NodeOK
    <3>4. CASE j = i /\ c = a
      BY <1>1, <1>2, <1>3, <1>9, <2>1, <2>3, <3>1, <3>4
      DEF Listening, ListenInv, NodeOK
    <3>5. CASE j = i /\ c # a
      <4>1. ~Listening(c, j) /\ ~Listening(c, j)'
        BY <1>3, <1>9, <2>3, <3>5 DEF Listening
      <4>2. QED
        BY <2>1, <3>1, <3>2, <3>5, <4>1 DEF ListenInv, NodeOK
    <3>6. QED
      BY <3>3, <3>4, <3>5
  <2>5. QED
    BY <1>5, <2>2, <2>4 DEF ListenInv, ListensOnce
<1>10. CASE ~(i \in up /\ s = <<>>)
  <2>1. m_socketAddresses' = m_socketAddresses
    BY <1>10 DEF NotifyAddAddress
  <2>2. NodeOK'
    BY <1>1, <1>2, <2>1 DEF ListenInv, NodeOK
  <2>3. ASSUME NEW c \in Addr, NEW j \in Interface
        PROVE  Listening(c, j)' <=> Listening(c, j)
    <3>1. CASE j # i
      BY <1>2, <1>3, <3>1 DEF Listening
    <3>2. CASE j = i
      <4>1. i \in up => s # <<>> /\ Head(t) = Head(s)
        BY <1>1, <1>10
      <4>2. QED
        BY <1>1, <1>2, <1>3, <3>2, <4>1 DEF Listening
    <3>3. QED
      BY <3>1, <3>2
  <2>4. QED
    BY <1>5, <2>1, <2>2, <2>3 DEF ListenInv, ListensOnce
<1>11. QED
  BY <1>9, <1>10

\* An interface loses an address.
LEMMA ListenRemove ==
    ASSUME ListenInv, NEW i \in Interface, NEW k \in DOMAIN addresses[i],
           NotifyRemoveAddress(i, k)
    PROVE  ListenInv'
<1> DEFINE s == addresses[i]
           a == s[k]
           rest == RemoveAt(s, k)
<1>1. s \in Seq(Addr) /\ k \in 1 .. Len(s) /\ a \in Addr /\ Len(s) \in Nat
  BY LenProperties DEF ListenInv, NodeOK
<1>2. /\ rest \in Seq(Addr)
      /\ Len(rest) = Len(s) - 1
      /\ \A m \in 1 .. Len(s) - 1 : rest[m] = IF m < k THEN s[m] ELSE s[m + 1]
  BY <1>1, RemoveAtFacts
<1>3. /\ addresses' = [addresses EXCEPT ![i] = rest]
      /\ UNCHANGED <<m_ipv4, up, given, announced, twice>>
  BY DEF NotifyRemoveAddress
<1> HIDE DEF rest
<1>4. addresses'[i] = rest /\ \A j \in Interface \ {i} : addresses'[j] = addresses[j]
  BY <1>3 DEF ListenInv, NodeOK
<1>5. AddressesDistinct'
  BY DistinctRemove DEF ListenInv
<1>6. rest # <<>> => Head(rest) = (IF k = 1 THEN s[2] ELSE s[1]) /\ 1 < Len(s)
  BY <1>1, <1>2
<1>7. CASE FindSocket(a) = {} /\ UNCHANGED <<routing, dark>>
  <2>1. NodeOK'
    BY <1>2, <1>3, <1>7 DEF ListenInv, NodeOK, routing
  <2>2. i \in up => k # 1
    BY <1>1, <1>7, ListeningFound DEF Listening
  <2>3. ASSUME NEW c \in Addr, NEW j \in Interface
        PROVE  Listening(c, j)' <=> Listening(c, j)
    <3>1. CASE j # i
      BY <1>3, <1>4, <3>1 DEF Listening
    <3>2. CASE j = i
      <4>1. i \in up => s # <<>> /\ rest # <<>> /\ Head(rest) = Head(s)
        BY <1>1, <1>2, <1>6, <2>2
      <4>2. QED
        BY <1>3, <1>4, <3>2, <4>1 DEF Listening
    <3>3. QED
      BY <3>1, <3>2
  <2>4. QED
    BY <1>5, <1>7, <2>1, <2>3 DEF ListenInv, ListensOnce, routing
<1>8. ASSUME NEW b \in FindSocket(a),
             m_socketAddresses' =
                 Successor(Closed(m_socketAddresses, b), i, rest),
             CancelWithoutSockets
      PROVE  ListenInv'
  <2>1. b = <<a, b[2]>> /\ b[2] \in Interface /\ Listening(a, b[2])
        /\ m_socketAddresses[b] = 1
    BY <1>1, <1>8, FoundListens
  <2>2. b = <<a, i>> /\ k = 1 /\ i \in up
    <3>1. addresses[b[2]] \in Seq(Addr) /\ addresses[b[2]] # <<>>
          /\ addresses[i][k] = addresses[b[2]][1]
      BY <2>1 DEF Listening, ListenInv, NodeOK
    <3>2. 1 \in 1 .. Len(addresses[b[2]])
      BY <3>1
    <3>3. b[2] = i /\ k = 1
      BY <1>1, <2>1, <3>1, <3>2 DEF ListenInv, AddressesDistinct
    <3>4. QED
      BY <2>1, <3>3 DEF Listening
  <2>3. <<a, i>> \in Binding /\ m_socketAddresses[<<a, i>>] = 1
    BY <1>1, <2>1, <2>2 DEF Binding
  <2> DEFINE closed == [m_socketAddresses EXCEPT ![<<a, i>>] = 0]
  <2>4. Closed(m_socketAddresses, b) = closed
    BY <2>2, <2>3 DEF Closed
  <2>5. /\ closed \in [Binding -> Nat]
        /\ closed[<<a, i>>] = 0
        /\ \A d \in Binding \ {<<a, i>>} : closed[d] = m_socketAddresses[d]
    BY <2>3 DEF ListenInv, NodeOK
  <2> HIDE DEF closed
  <2>6. ASSUME NEW c \in Addr, NEW j \in Interface
        PROVE  <<c, j>> \in Binding
               /\ closed[<<c, j>>] =
                     IF j # i /\ Listening(c, j) THEN 1 ELSE 0
    <3>1. <<c, j>> \in Binding
      BY DEF Binding
    <3>2. m_socketAddresses[<<c, j>>] = IF Listening(c, j) THEN 1 ELSE 0
      BY DEF ListenInv, ListensOnce
    <3>3. CASE <<c, j>> = <<a, i>>
      BY <2>5, <3>1, <3>3
    <3>4. CASE <<c, j>> # <<a, i>>
      <4>1. j = i => ~Listening(c, j)
        BY <1>1, <2>2, <3>4 DEF Listening
      <4>2. QED
        BY <2>5, <3>1, <3>2, <3>4, <4>1
    <3>5. QED
      BY <3>1, <3>3, <3>4
  <2>7. CASE rest = <<>>
    <3>1. m_socketAddresses' = closed
      BY <1>8, <2>4, <2>7 DEF Successor
    <3>2. ASSUME NEW c \in Addr, NEW j \in Interface
          PROVE  Listening(c, j)' <=> (j # i /\ Listening(c, j))
      BY <1>3, <1>4, <2>7 DEF Listening
    <3>3. ListensOnce'
      BY <2>6, <3>1, <3>2 DEF ListensOnce
    <3>4. NodeOK'
      BY <1>2, <1>3, <1>8, <2>5, <3>1 DEF ListenInv, NodeOK, CancelWithoutSockets
    <3>5. QED
      BY <1>5, <3>3, <3>4 DEF ListenInv
  <2>8. CASE rest # <<>>
    <3> DEFINE h == Head(rest)
    <3>1. h \in Addr /\ <<h, i>> \in Binding
      BY <1>2, <2>8 DEF Binding
    <3>2. m_socketAddresses' = [closed EXCEPT ![<<h, i>>] = 1]
      <4>1. closed[<<h, i>>] = 0
        BY <2>6, <3>1
      <4>2. m_socketAddresses' = [closed EXCEPT ![<<h, i>>] = @ + 1]
        BY <1>8, <2>4, <2>8 DEF Successor, Opened
      <4>3. QED
        BY <4>1, <4>2
    <3>3. ASSUME NEW c \in Addr, NEW j \in Interface
          PROVE  Listening(c, j)' <=>
                   (j # i /\ Listening(c, j)) \/ <<c, j>> = <<h, i>>
      BY <1>3, <1>4, <2>2, <2>8 DEF Listening
    <3>4. m_socketAddresses' \in [Binding -> Nat]
      BY <2>5, <3>1, <3>2
    <3>5. ASSUME NEW c \in Addr, NEW j \in Interface
          PROVE  m_socketAddresses'[<<c, j>>] = IF Listening(c, j)' THEN 1 ELSE 0
      <4>1. CASE <<c, j>> = <<h, i>>
        BY <2>5, <3>1, <3>2, <3>3, <4>1
      <4>2. CASE <<c, j>> # <<h, i>>
        <5>1. m_socketAddresses'[<<c, j>>] = closed[<<c, j>>]
          BY <2>5, <2>6, <3>1, <3>2, <4>2
        <5>2. QED
          BY <2>6, <3>3, <4>2, <5>1
      <4>3. QED
        BY <4>1, <4>2
    <3>6. NodeOK'
      BY <1>2, <1>3, <1>8, <3>4 DEF ListenInv, NodeOK, CancelWithoutSockets
    <3>7. QED
      BY <1>5, <3>5, <3>6 DEF ListenInv, ListensOnce
  <2>9. QED
    BY <2>7, <2>8
<1>9. QED
  BY <1>7, <1>8 DEF NotifyRemoveAddress, rest

\* SetIpv4 and the timer leave the sockets alone.
LEMMA ListenElse ==
    ASSUME ListenInv, SetIpv4 \/ HelloTimerExpire \/ UNCHANGED vars
    PROVE  ListenInv'
<1>1. UNCHANGED <<addresses, up, m_socketAddresses>>
  BY DEF SetIpv4, HelloTimerExpire, vars, routing
<1>2. NodeOK'
  <2>1. CASE SetIpv4
    BY <2>1 DEF SetIpv4, ListenInv, NodeOK, routing
  <2>2. CASE HelloTimerExpire
    BY <2>2 DEF HelloTimerExpire, ListenInv, NodeOK
  <2>3. CASE UNCHANGED vars
    BY <2>3 DEF vars, ListenInv, NodeOK
  <2>4. QED
    BY <2>1, <2>2, <2>3
<1>3. AddressesDistinct' /\ ListensOnce'
  BY <1>1 DEF ListenInv, AddressesDistinct, ListensOnce, Listening
<1>4. QED
  BY <1>2, <1>3 DEF ListenInv

(***************************************************************************)
(* A step after which no interface has been brought up twice keeps the     *)
(* invariant.                                                              *)
(***************************************************************************)
LEMMA ListenStep ==
    ASSUME ~twice => ListenInv, [Step]_vars, ~twice'
    PROVE  ListenInv'
<1>1. SetIpv4 \/ HelloTimerExpire \/ UNCHANGED vars => ListenInv'
  <2>1. SetIpv4 \/ HelloTimerExpire \/ UNCHANGED vars => ~twice
    BY DEF SetIpv4, HelloTimerExpire, vars
  <2>2. QED
    BY <2>1, ListenElse
<1>2. ASSUME NEW i \in Interface, NotifyInterfaceUp(i)
      PROVE  ListenInv'
  <2>1. ~twice /\ i \in Interface \ up
    BY <1>2 DEF NotifyInterfaceUp
  <2>2. QED
    BY <1>2, <2>1, ListenUp
<1>3. ASSUME NEW i \in Interface, NotifyInterfaceDown(i)
      PROVE  ListenInv'
  <2>1. ~twice
    BY <1>3 DEF NotifyInterfaceDown
  <2>2. QED
    BY <1>3, <2>1, ListenDown
<1>4. ASSUME NEW i \in Interface, NEW a \in Addr, NotifyAddAddress(i, a)
      PROVE  ListenInv'
  <2>1. ~twice
    BY <1>4 DEF NotifyAddAddress
  <2>2. QED
    BY <1>4, <2>1, ListenAdd
<1>5. ASSUME NEW i \in Interface, NEW k \in DOMAIN addresses[i],
             NotifyRemoveAddress(i, k)
      PROVE  ListenInv'
  <2>1. ~twice
    BY <1>5 DEF NotifyRemoveAddress
  <2>2. QED
    BY <1>5, <2>1, ListenRemove
<1>6. QED
  BY <1>1, <1>2, <1>3, <1>4, <1>5 DEF Step

\* The inductive invariant holds initially.
LEMMA ListenInit == Init => ListenInv
<1> SUFFICES ASSUME Init PROVE ListenInv
  OBVIOUS
<1>1. \A i \in Interface : addresses[i] = <<>> /\ i \notin up
  BY DEF Init
<1>2. <<>> \in Seq(Addr) /\ Len(<<>>) = 0
  BY EmptySeq
<1>3. NodeOK
  BY <1>2 DEF Init, NodeOK
<1>4. AddressesDistinct
  BY <1>1, <1>2 DEF AddressesDistinct
<1>5. ListensOnce
  <2>1. \A b \in Binding : m_socketAddresses[b] = 0
    BY DEF Init
  <2>2. \A a \in Addr, i \in Interface : <<a, i>> \in Binding
    BY DEF Binding
  <2>3. QED
    BY <1>1, <2>1, <2>2 DEF ListensOnce, Listening
<1>6. QED
  BY <1>3, <1>4, <1>5 DEF ListenInv

\* A removal leaves a sequence of addresses.
LEMMA Remains ==
    ASSUME NodeOK, NEW i \in Interface, NEW k \in DOMAIN addresses[i]
    PROVE  RemoveAt(addresses[i], k) \in Seq(Addr)
<1>1. addresses[i] \in Seq(Addr) /\ k \in 1 .. Len(addresses[i])
  BY LenProperties DEF NodeOK
<1>2. QED
  BY <1>1, RemoveAtFacts

\* A socket that was found can be closed.
LEMMA ClosedType ==
    ASSUME NodeOK, NEW a, NEW b \in FindSocket(a)
    PROVE  Closed(m_socketAddresses, b) \in [Binding -> Nat]
BY DEF NodeOK, FindSocket, Closed

\* The types are kept by every step.
LEMMA TypeStep == NodeOK /\ [Step]_vars => NodeOK'
<1> SUFFICES ASSUME NodeOK, [Step]_vars
             PROVE  NodeOK'
  OBVIOUS
<1>1. CASE SetIpv4
  BY <1>1 DEF SetIpv4, NodeOK, routing
<1>2. CASE HelloTimerExpire
  BY <1>2 DEF HelloTimerExpire, NodeOK
<1>3. ASSUME NEW i \in Interface, NotifyInterfaceUp(i)
      PROVE  NodeOK'
  <2>1. Head(addresses[i]) \in Addr
    BY <1>3 DEF NotifyInterfaceUp, NodeOK
  <2>2. m_socketAddresses' \in [Binding -> Nat]
    BY <1>3, <2>1 DEF NotifyInterfaceUp, NodeOK, Opened, Binding
  <2>3. QED
    BY <1>3, <2>2 DEF NotifyInterfaceUp, NodeOK
<1>4. ASSUME NEW i \in Interface, NotifyInterfaceDown(i)
      PROVE  NodeOK'
  <2>1. m_socketAddresses' \in [Binding -> Nat]
    BY <1>4, ClosedType DEF NotifyInterfaceDown
  <2>2. QED
    BY <1>4, <2>1 DEF NotifyInterfaceDown, CancelWithoutSockets, NodeOK
<1>5. ASSUME NEW i \in Interface, NEW a \in Addr, NotifyAddAddress(i, a)
      PROVE  NodeOK'
  <2>1. addresses' \in [Interface -> Seq(Addr)]
    BY <1>5 DEF NotifyAddAddress, NodeOK
  <2>2. m_socketAddresses' \in [Binding -> Nat]
    BY <1>5 DEF NotifyAddAddress, NodeOK, Opened, Binding
  <2>3. given' \in [Addr -> SUBSET Interface]
    BY <1>5 DEF NotifyAddAddress, NodeOK
  <2>4. QED
    BY <1>5, <2>1, <2>2, <2>3 DEF NotifyAddAddress, NodeOK
<1>6. ASSUME NEW i \in Interface, NEW k \in DOMAIN addresses[i],
             NotifyRemoveAddress(i, k)
      PROVE  NodeOK'
  <2> DEFINE rest == RemoveAt(addresses[i], k)
  <2>1. rest \in Seq(Addr)
    BY Remains
  <2> HIDE DEF rest
  <2>2. addresses' \in [Interface -> Seq(Addr)]
    BY <1>6, <2>1 DEF NotifyRemoveAddress, NodeOK, rest
  <2>3. UNCHANGED <<m_ipv4, up, given, announced, twice>>
    BY <1>6 DEF NotifyRemoveAddress
  <2>4. CASE UNCHANGED <<routing, dark>>
    BY <2>2, <2>3, <2>4 DEF NodeOK, routing
  <2>5. ASSUME NEW b \in FindSocket(addresses[i][k]),
               m_socketAddresses' =
                   Successor(Closed(m_socketAddresses, b), i, rest),
               CancelWithoutSockets
        PROVE  NodeOK'
    <3>1. Closed(m_socketAddresses, b) \in [Binding -> Nat]
      BY ClosedType
    <3>2. m_socketAddresses' \in [Binding -> Nat]
      <4>1. CASE rest = <<>>
        BY <2>5, <3>1, <4>1 DEF Successor
      <4>2. CASE rest # <<>>
        <5>1. <<Head(rest), i>> \in Binding
          BY <2>1, <4>2 DEF Binding
        <5>2. QED
          BY <2>5, <3>1, <4>2, <5>1 DEF Successor, Opened
      <4>3. QED
        BY <4>1, <4>2
    <3>3. QED
      BY <2>2, <2>3, <2>5, <3>2 DEF CancelWithoutSockets, NodeOK
  <2>6. QED
    BY <1>6, <2>4, <2>5 DEF NotifyRemoveAddress, rest
<1>7. CASE UNCHANGED vars
  BY <1>7 DEF vars, NodeOK
<1>8. QED
  BY <1>1, <1>2, <1>3, <1>4, <1>5, <1>6, <1>7 DEF Step

(***************************************************************************)
(* A step of either protocol is one of the common ones.                    *)
(***************************************************************************)
LEMMA EitherProtocol == [Next]_vars => [Step]_vars /\ UNCHANGED protocol
BY DEF Next, Step, SdsnStep, SdsnSetIpv4, SdsnInterfaceUp, SdsnInterfaceDown,
       SdsnAddAddress, SdsnRemoveAddress, vars

(***************************************************************************)
(* The type invariant, for any interfaces and addresses.                   *)
(***************************************************************************)
THEOREM TypeCorrect == Spec => []TypeOK
<1>1. Init => TypeOK
  BY ListenInit DEF ListenInv, Init, TypeOK
<1>2. TypeOK /\ [Next]_vars => TypeOK'
  BY TypeStep, EitherProtocol DEF TypeOK
<1>3. QED
  BY <1>1, <1>2, PTL DEF Spec

(***************************************************************************)
(* For any interfaces and addresses: as long as no interface is brought up *)
(* twice, the node listens on the first address of every interface that is *)
(* up, once, and nowhere else.                                             *)
(***************************************************************************)
THEOREM ListensWhereItMust == Spec => []SocketsMatchInterfaces
<1> DEFINE Inv == ~twice => ListenInv
<1>1. Init => Inv
  BY ListenInit
<1>2. Inv /\ [Next]_vars => Inv'
  BY ListenStep, EitherProtocol
<1>3. Inv => SocketsMatchInterfaces
  BY DEF ListenInv, SocketsMatchInterfaces
<1>4. QED
  BY <1>1, <1>2, <1>3, PTL DEF Spec

(***************************************************************************)
(* The first address of an interface that is up has a socket, be it a      *)
(* stale one of another interface: it is what NotifyAddAddress looks for.  *)
(***************************************************************************)
UpInterfaceHasSocket ==
    \A i \in up :
        addresses[i] # <<>> => FindSocket(Head(addresses[i])) # {}

(***************************************************************************)
(* Addresses and sockets, the stale ones too, are on interfaces that were  *)
(* given the address.                                                      *)
(***************************************************************************)
OnlyWhereGiven ==
    /\ \A i \in Interface : \A k \in 1 .. Len(addresses[i]) :
          i \in given[addresses[i][k]]
    /\ \A a \in Addr, i \in Interface :
          m_socketAddresses[<<a, i>>] > 0 => i \in given[a]

(***************************************************************************)
(* The invariant of UpInterfaceListens: it needs the addresses to be       *)
(* distinct, so that a socket closed for one is no other interface's.      *)
(***************************************************************************)
SocketInv == NodeOK /\ AddressesDistinct /\ UpInterfaceHasSocket

\* A socket that is there stays when another is opened.
LEMMA OpenedKeeps ==
    ASSUME NEW S \in [Binding -> Nat], NEW c \in Binding, NEW b \in Binding
    PROVE  /\ Opened(S, c) \in [Binding -> Nat]
           /\ S[b] > 0 => Opened(S, c)[b] > 0
           /\ Opened(S, c)[c] > 0
BY DEF Opened

\* An address has a socket after one for it was opened, or none of its own
\* was closed.
LEMMA SocketStep ==
    ASSUME SocketInv, Step
    PROVE  UpInterfaceHasSocket'
<1> SUFFICES ASSUME NEW j \in up', addresses'[j] # <<>>
             PROVE  \E b \in Binding : /\ b[1] = Head(addresses'[j])
                                       /\ m_socketAddresses'[b] > 0
  BY DEF UpInterfaceHasSocket, FindSocket
<1> USE DEF SocketInv
<1>1. NodeOK'
  BY TypeStep
<1>2. j \in Interface /\ addresses'[j] \in Seq(Addr) /\ Head(addresses'[j]) \in Addr
  BY <1>1 DEF NodeOK
<1>3. m_socketAddresses \in [Binding -> Nat]
  BY DEF NodeOK
<1>4. ASSUME j \in up, addresses[j] # <<>>
      PROVE  \E b \in Binding : b[1] = Head(addresses[j]) /\ m_socketAddresses[b] > 0
  BY <1>4 DEF UpInterfaceHasSocket, FindSocket
<1>5. CASE SetIpv4 \/ HelloTimerExpire
  BY <1>4, <1>5 DEF SetIpv4, HelloTimerExpire, routing
<1>6. ASSUME NEW i \in Interface, NotifyInterfaceUp(i)
      PROVE  \E b \in Binding : /\ b[1] = Head(addresses'[j])
                                /\ m_socketAddresses'[b] > 0
  <2> DEFINE c == <<Head(addresses[i]), i>>
  <2>1. addresses' = addresses /\ up' = up \cup {i}
        /\ m_socketAddresses' = Opened(m_socketAddresses, c)
    BY <1>6 DEF NotifyInterfaceUp
  <2>2. c \in Binding /\ c[1] = Head(addresses[i])
    BY <1>6 DEF NotifyInterfaceUp, NodeOK, Binding
  <2>3. CASE j = i
    BY <1>3, <2>1, <2>2, <2>3, OpenedKeeps
  <2>4. CASE j # i
    <3>1. PICK b \in Binding : b[1] = Head(addresses[j]) /\ m_socketAddresses[b] > 0
      BY <1>4, <2>1, <2>4
    <3>2. m_socketAddresses'[b] > 0
      BY <1>3, <2>1, <2>2, <3>1, OpenedKeeps
    <3>3. QED
      BY <2>1, <3>1, <3>2
  <2>5. QED
    BY <2>3, <2>4
<1>7. ASSUME NEW i \in Interface, NotifyInterfaceDown(i)
      PROVE  \E b \in Binding : /\ b[1] = Head(addresses'[j])
                                /\ m_socketAddresses'[b] > 0
  <2>1. addresses' = addresses /\ up' = up \ {i} /\ addresses[i] # <<>>
    BY <1>7 DEF NotifyInterfaceDown
  <2>2. PICK c \in FindSocket(Head(addresses[i])) :
            m_socketAddresses' = Closed(m_socketAddresses, c)
    BY <1>7 DEF NotifyInterfaceDown
  <2>3. PICK b \in Binding : b[1] = Head(addresses[j]) /\ m_socketAddresses[b] > 0
    BY <1>4, <2>1
  <2>4. Head(addresses[j]) # Head(addresses[i])
    <3>1. j # i
      BY <2>1
    <3>2. 1 \in 1 .. Len(addresses[i]) /\ 1 \in 1 .. Len(addresses[j])
          /\ Head(addresses[i]) = addresses[i][1]
          /\ Head(addresses[j]) = addresses[j][1]
      BY <1>2, <2>1 DEF NodeOK
    <3>3. QED
      BY <1>2, <3>1, <3>2 DEF AddressesDistinct
  <2>5. b # c
    BY <2>2, <2>3, <2>4 DEF FindSocket
  <2>6. m_socketAddresses'[b] > 0
    BY <1>3, <2>2, <2>3, <2>5 DEF Closed
  <2>7. QED
    BY <2>1, <2>3, <2>6
<1>8. ASSUME NEW i \in Interface, NEW a \in Addr, NotifyAddAddress(i, a)
      PROVE  \E b \in Binding : /\ b[1] = Head(addresses'[j])
                                /\ m_socketAddresses'[b] > 0
  <2> DEFINE c == <<a, i>>
  <2>1. c \in Binding /\ c[1] = a
    BY DEF Binding
  <2>2. addresses' = [addresses EXCEPT ![i] = Append(@, a)] /\ up' = up
    BY <1>8 DEF NotifyAddAddress
  <2>3. m_socketAddresses' = Opened(m_socketAddresses, c)
          \/ m_socketAddresses' = m_socketAddresses
    BY <1>8 DEF NotifyAddAddress
  <2>4. CASE addresses[j] # <<>>
    <3>1. Head(addresses'[j]) = Head(addresses[j])
      BY <1>2, <2>2, <2>4 DEF NodeOK
    <3>2. PICK b \in Binding : b[1] = Head(addresses[j]) /\ m_socketAddresses[b] > 0
      BY <1>4, <2>2, <2>4
    <3>3. m_socketAddresses'[b] > 0
      BY <1>3, <2>1, <2>3, <3>2, OpenedKeeps
    <3>4. QED
      BY <3>1, <3>2, <3>3
  <2>5. CASE addresses[j] = <<>>
    <3>1. j = i /\ Head(addresses'[j]) = a /\ i \in up
      BY <1>2, <2>2, <2>5 DEF NodeOK
    <3>2. CASE FindSocket(a) = {}
      <4>1. m_socketAddresses' = Opened(m_socketAddresses, c)
        BY <1>8, <2>5, <3>1, <3>2 DEF NotifyAddAddress
      <4>2. m_socketAddresses'[c] > 0
        BY <1>3, <2>1, <4>1, OpenedKeeps
      <4>3. QED
        BY <2>1, <3>1, <4>2
    <3>3. CASE FindSocket(a) # {}
      <4>1. m_socketAddresses' = m_socketAddresses
        BY <1>8, <3>3 DEF NotifyAddAddress
      <4>2. QED
        BY <3>1, <3>3, <4>1 DEF FindSocket
    <3>4. QED
      BY <3>2, <3>3
  <2>6. QED
    BY <2>4, <2>5
<1>9. ASSUME NEW i \in Interface, NEW k \in DOMAIN addresses[i],
             NotifyRemoveAddress(i, k)
      PROVE  \E b \in Binding : /\ b[1] = Head(addresses'[j])
                                /\ m_socketAddresses'[b] > 0
  <2> DEFINE s == addresses[i]
             a == s[k]
             rest == RemoveAt(s, k)
  <2>1. s \in Seq(Addr) /\ Len(s) \in Nat /\ k \in 1 .. Len(s) /\ a \in Addr
    BY LenProperties DEF NodeOK
  <2>2. /\ rest \in Seq(Addr)
        /\ Len(rest) = Len(s) - 1
        /\ \A m \in 1 .. Len(s) - 1 : rest[m] = IF m < k THEN s[m] ELSE s[m + 1]
    BY <2>1, RemoveAtFacts
  <2>3. addresses' = [addresses EXCEPT ![i] = rest] /\ up' = up
    BY <1>9 DEF NotifyRemoveAddress
  <2>4. \/ FindSocket(a) = {} /\ m_socketAddresses' = m_socketAddresses
        \/ \E b \in FindSocket(a) :
              m_socketAddresses' = Successor(Closed(m_socketAddresses, b), i, rest)
    BY <1>9 DEF NotifyRemoveAddress, routing
  <2> HIDE DEF rest
  <2>5. addresses[j] # <<>> /\ j \in up
    BY <1>2, <2>1, <2>3 DEF NodeOK
  <2>6. PICK b \in Binding : b[1] = Head(addresses[j]) /\ m_socketAddresses[b] > 0
    BY <1>4, <2>5
  <2>7. CASE j = i /\ k = 1
    <3>1. a = Head(addresses[j]) /\ rest # <<>> /\ addresses'[j] = rest
      BY <1>2, <2>1, <2>3, <2>7 DEF NodeOK
    <3>2. b \in FindSocket(a)
      BY <2>6, <3>1 DEF FindSocket
    <3>3. PICK c \in FindSocket(a) :
              m_socketAddresses' = Successor(Closed(m_socketAddresses, c), i, rest)
      BY <2>4, <3>2
    <3>4. Closed(m_socketAddresses, c) \in [Binding -> Nat]
      BY ClosedType
    <3> DEFINE d == <<Head(rest), i>>
    <3>5. d \in Binding /\ d[1] = Head(rest)
      BY <2>2, <3>1 DEF Binding
    <3>6. m_socketAddresses'[d] > 0
      BY <3>1, <3>3, <3>4, <3>5, OpenedKeeps DEF Successor
    <3>7. QED
      BY <3>1, <3>5, <3>6
  <2>8. CASE ~(j = i /\ k = 1)
    <3>1. Head(addresses'[j]) = Head(addresses[j])
      <4>1. CASE j # i
        BY <2>3, <4>1 DEF NodeOK
      <4>2. CASE j = i
        <5>1. addresses'[j] = rest /\ rest # <<>> /\ k # 1
          BY <1>2, <2>3, <2>8, <4>2 DEF NodeOK
        <5>2. 1 \in 1 .. Len(s) - 1 /\ 1 < k
          BY <2>1, <2>2, <5>1
        <5>3. rest[1] = s[1]
          BY <2>2, <5>2
        <5>4. QED
          BY <2>1, <2>2, <2>5, <4>2, <5>1, <5>3
      <4>3. QED
        BY <4>1, <4>2
    <3>2. a # Head(addresses[j])
      <4>1. 1 \in 1 .. Len(addresses[j]) /\ Head(addresses[j]) = addresses[j][1]
        BY <1>2, <2>5 DEF NodeOK
      <4>2. QED
        BY <1>2, <2>1, <2>8, <4>1 DEF AddressesDistinct
    <3>3. CASE m_socketAddresses' = m_socketAddresses
      BY <2>6, <3>1, <3>3
    <3>4. ASSUME NEW c \in FindSocket(a),
                 m_socketAddresses' = Successor(Closed(m_socketAddresses, c), i, rest)
          PROVE  m_socketAddresses'[b] > 0
      <4>1. Closed(m_socketAddresses, c) \in [Binding -> Nat]
        BY ClosedType
      <4>2. b # c
        BY <2>6, <3>2 DEF FindSocket
      <4>3. Closed(m_socketAddresses, c)[b] > 0
        BY <1>3, <2>6, <4>2 DEF Closed
      <4>4. CASE rest = <<>>
        BY <3>4, <4>3, <4>4 DEF Successor
      <4>5. CASE rest # <<>>
        <5>1. <<Head(rest), i>> \in Binding
          BY <2>2, <4>5 DEF Binding
        <5>2. QED
          BY <3>4, <4>1, <4>3, <4>5, <5>1, OpenedKeeps DEF Successor
      <4>6. QED
        BY <4>4, <4>5
    <3>5. QED
      BY <2>4, <2>6, <3>1, <3>3, <3>4
  <2>9. QED
    BY <2>7, <2>8
<1>10. QED
  BY <1>5, <1>6, <1>7, <1>8, <1>9 DEF Step

\* The addresses stay distinct.
LEMMA DistinctStep ==
    ASSUME NodeOK, AddressesDistinct, Step
    PROVE  AddressesDistinct'
<1>1. ASSUME UNCHANGED addresses PROVE AddressesDistinct'
  BY <1>1 DEF AddressesDistinct
<1>2. CASE SetIpv4 \/ HelloTimerExpire
  BY <1>1, <1>2 DEF SetIpv4, HelloTimerExpire
<1>3. ASSUME NEW i \in Interface, NotifyInterfaceUp(i) \/ NotifyInterfaceDown(i)
      PROVE  AddressesDistinct'
  BY <1>1, <1>3 DEF NotifyInterfaceUp, NotifyInterfaceDown
<1>4. QED
  BY <1>2, <1>3, DistinctAdd, DistinctRemove DEF Step

\* A sequence of addresses that were given to an interface and a socket
\* for one of them are where they may be.
LEMMA GivenStep ==
    ASSUME NodeOK, OnlyWhereGiven, Step
    PROVE  OnlyWhereGiven'
<1>1. ASSUME UNCHANGED <<addresses, m_socketAddresses, given>>
      PROVE  OnlyWhereGiven'
  BY <1>1 DEF OnlyWhereGiven
<1>2. CASE SetIpv4 \/ HelloTimerExpire
  BY <1>1, <1>2 DEF SetIpv4, HelloTimerExpire, routing
<1>3. ASSUME NEW i \in Interface, NotifyInterfaceUp(i)
      PROVE  OnlyWhereGiven'
  <2> DEFINE h == Head(addresses[i])
  <2>1. /\ addresses[i] \in Seq(Addr) /\ addresses[i] # <<>> /\ h \in Addr
        /\ h = addresses[i][1] /\ 1 \in 1 .. Len(addresses[i])
    BY <1>3 DEF NotifyInterfaceUp, NodeOK
  <2>2. i \in given[h]
    BY <2>1 DEF OnlyWhereGiven
  <2>3. /\ m_socketAddresses' = [m_socketAddresses EXCEPT ![<<h, i>>] = @ + 1]
        /\ UNCHANGED <<addresses, given>>
    BY <1>3 DEF NotifyInterfaceUp, Opened
  <2> HIDE DEF h
  <2>4. ASSUME NEW a \in Addr, NEW j \in Interface,
               m_socketAddresses'[<<a, j>>] > 0
        PROVE  j \in given[a]
    <3>1. CASE <<a, j>> = <<h, i>>
      BY <2>2, <3>1
    <3>2. CASE <<a, j>> # <<h, i>>
      <4>1. <<a, j>> \in Binding
        BY DEF Binding
      <4>2. m_socketAddresses'[<<a, j>>] = m_socketAddresses[<<a, j>>]
        BY <2>3, <3>2, <4>1 DEF NodeOK
      <4>3. QED
        BY <2>4, <4>2 DEF OnlyWhereGiven
    <3>3. QED
      BY <3>1, <3>2
  <2>5. QED
    BY <2>3, <2>4 DEF OnlyWhereGiven
<1>4. ASSUME NEW i \in Interface, NotifyInterfaceDown(i)
      PROVE  OnlyWhereGiven'
  <2>1. PICK b \in Binding : m_socketAddresses' = [m_socketAddresses EXCEPT ![b] = @ - 1]
    BY <1>4 DEF NotifyInterfaceDown, FindSocket, Closed
  <2>2. UNCHANGED <<addresses, given>>
    BY <1>4 DEF NotifyInterfaceDown
  <2>3. ASSUME NEW a \in Addr, NEW j \in Interface,
               m_socketAddresses'[<<a, j>>] > 0
        PROVE  j \in given[a]
    <3>1. <<a, j>> \in Binding
      BY DEF Binding
    <3>2. m_socketAddresses[<<a, j>>] \in Nat
      BY <3>1 DEF NodeOK
    <3>3. m_socketAddresses'[<<a, j>>] =
              IF b = <<a, j>> THEN m_socketAddresses[<<a, j>>] - 1
              ELSE m_socketAddresses[<<a, j>>]
      BY <2>1, <3>1 DEF NodeOK
    <3>4. m_socketAddresses[<<a, j>>] > 0
      BY <2>3, <3>2, <3>3
    <3>5. QED
      BY <3>4 DEF OnlyWhereGiven
  <2>4. QED
    BY <2>2, <2>3 DEF OnlyWhereGiven
<1>5. ASSUME NEW i \in Interface, NEW a \in Addr, NotifyAddAddress(i, a)
      PROVE  OnlyWhereGiven'
  <2> DEFINE s == addresses[i]
             t == Append(s, a)
  <2>1. /\ s \in Seq(Addr) /\ Len(s) \in Nat /\ Len(t) = Len(s) + 1
        /\ \A k \in 1 .. Len(s) + 1 : t[k] = IF k <= Len(s) THEN s[k] ELSE a
    BY LenProperties, AppendProperties DEF NodeOK
  <2>2. /\ addresses' = [addresses EXCEPT ![i] = t]
        /\ given' = [given EXCEPT ![a] = @ \cup {i}]
    BY <1>5 DEF NotifyAddAddress
  <2>3. \/ m_socketAddresses' = m_socketAddresses
        \/ m_socketAddresses' = [m_socketAddresses EXCEPT ![<<a, i>>] = @ + 1]
    BY <1>5 DEF NotifyAddAddress, Opened
  <2>4. i \in given'[a] /\ \A b \in Addr : given[b] \subseteq given'[b]
    BY <2>2 DEF NodeOK
  <2> HIDE DEF t
  <2>5. ASSUME NEW j \in Interface, NEW k \in 1 .. Len(addresses'[j])
        PROVE  j \in given'[addresses'[j][k]]
    <3>1. CASE j = i /\ k = Len(s) + 1
      <4>1. addresses'[j][k] = a
        BY <2>1, <2>2, <3>1 DEF NodeOK
      <4>2. QED
        BY <2>4, <3>1, <4>1
    <3>2. CASE ~(j = i /\ k = Len(s) + 1)
      <4>1. k \in 1 .. Len(addresses[j]) /\ addresses'[j][k] = addresses[j][k]
        <5>1. CASE j = i
          <6>1. addresses'[j] = t
            BY <2>2, <5>1 DEF NodeOK
          <6>2. k \in 1 .. Len(s) + 1 /\ k # Len(s) + 1
            BY <2>1, <2>5, <3>2, <5>1, <6>1
          <6>3. QED
            BY <2>1, <5>1, <6>1, <6>2
        <5>2. CASE j # i
          BY <2>2, <2>5, <5>2 DEF NodeOK
        <5>3. QED
          BY <5>1, <5>2
      <4>2. addresses[j][k] \in Addr
        BY <4>1, ElementOfSeq DEF NodeOK
      <4>3. j \in given[addresses[j][k]]
        BY <4>1 DEF OnlyWhereGiven
      <4>4. QED
        BY <2>4, <4>1, <4>2, <4>3
    <3>3. QED
      BY <3>1, <3>2
  <2>6. ASSUME NEW b \in Addr, NEW j \in Interface,
               m_socketAddresses'[<<b, j>>] > 0
        PROVE  j \in given'[b]
    <3>1. CASE <<b, j>> = <<a, i>>
      BY <2>4, <3>1
    <3>2. CASE <<b, j>> # <<a, i>>
      <4>1. <<b, j>> \in Binding
        BY DEF Binding
      <4>2. m_socketAddresses'[<<b, j>>] = m_socketAddresses[<<b, j>>]
        BY <2>3, <3>2, <4>1 DEF NodeOK
      <4>3. QED
        BY <2>4, <2>6, <4>2 DEF OnlyWhereGiven
    <3>3. QED
      BY <3>1, <3>2
  <2>7. QED
    BY <2>5, <2>6 DEF OnlyWhereGiven
<1>6. ASSUME NEW i \in Interface, NEW k \in DOMAIN addresses[i],
             NotifyRemoveAddress(i, k)
      PROVE  OnlyWhereGiven'
  <2> DEFINE s == addresses[i]
             rest == RemoveAt(s, k)
  <2>1. s \in Seq(Addr) /\ Len(s) \in Nat /\ k \in 1 .. Len(s)
    BY LenProperties DEF NodeOK
  <2>2. /\ rest \in Seq(Addr)
        /\ Len(rest) = Len(s) - 1
        /\ \A m \in 1 .. Len(s) - 1 : rest[m] = IF m < k THEN s[m] ELSE s[m + 1]
    BY <2>1, RemoveAtFacts
  <2>3. addresses' = [addresses EXCEPT ![i] = rest] /\ given' = given
    BY <1>6 DEF NotifyRemoveAddress
  <2>4. \/ m_socketAddresses' = m_socketAddresses
        \/ \E b \in FindSocket(s[k]) :
              m_socketAddresses' = Successor(Closed(m_socketAddresses, b), i, rest)
    BY <1>6 DEF NotifyRemoveAddress, routing
  <2> HIDE DEF rest
  <2>5. ASSUME NEW m \in 1 .. Len(rest)
        PROVE  rest[m] \in Addr /\ i \in given[rest[m]]
    <3>1. m \in 1 .. Len(s) - 1 /\ m \in 1 .. Len(s) /\ m + 1 \in 1 .. Len(s)
      BY <2>1, <2>2
    <3>2. rest[m] = s[m] \/ rest[m] = s[m + 1]
      BY <2>2, <3>1
    <3>3. QED
      BY <2>1, <3>1, <3>2, ElementOfSeq DEF OnlyWhereGiven
  <2>6. ASSUME NEW j \in Interface, NEW m \in 1 .. Len(addresses'[j])
        PROVE  j \in given'[addresses'[j][m]]
    <3>1. CASE j = i
      BY <2>3, <2>5, <2>6, <3>1 DEF NodeOK
    <3>2. CASE j # i
      BY <2>3, <2>6, <3>2 DEF NodeOK, OnlyWhereGiven
    <3>3. QED
      BY <3>1, <3>2
  <2>7. ASSUME NEW b \in Addr, NEW j \in Interface,
               m_socketAddresses'[<<b, j>>] > 0
        PROVE  j \in given'[b]
    <3>1. <<b, j>> \in Binding
      BY DEF Binding
    <3>2. CASE m_socketAddresses[<<b, j>>] > 0
      BY <2>3, <3>2 DEF OnlyWhereGiven
    <3>3. CASE ~(m_socketAddresses[<<b, j>>] > 0)
      <4>1. PICK c \in FindSocket(s[k]) :
               m_socketAddresses' = Successor(Closed(m_socketAddresses, c), i, rest)
        BY <2>4, <2>7, <3>3
      <4> DEFINE S == Closed(m_socketAddresses, c)
      <4>2. S \in [Binding -> Nat] /\ ~(S[<<b, j>>] > 0)
        <5>1. S \in [Binding -> Nat]
          BY ClosedType
        <5>2. c \in Binding /\ <<b, j>> # c
          BY <3>3 DEF FindSocket
        <5>3. S[<<b, j>>] = m_socketAddresses[<<b, j>>]
          BY <3>1, <5>2 DEF Closed, NodeOK
        <5>4. QED
          BY <3>3, <5>1, <5>3
      <4> HIDE DEF S
      <4>3. rest # <<>> /\ m_socketAddresses' = Opened(S, <<Head(rest), i>>)
        BY <2>7, <4>1, <4>2 DEF Successor, S
      <4>4. <<b, j>> = <<Head(rest), i>>
        BY <2>7, <3>1, <4>2, <4>3 DEF Opened
      <4>5. Head(rest) = rest[1] /\ 1 \in 1 .. Len(rest)
        BY <2>2, <4>3
      <4>6. QED
        BY <2>3, <2>5, <4>4, <4>5
    <3>4. QED
      BY <3>2, <3>3
  <2>8. QED
    BY <2>6, <2>7 DEF OnlyWhereGiven
<1>7. QED
  BY <1>2, <1>3, <1>4, <1>5, <1>6 DEF Step

(***************************************************************************)
(* For any interfaces and addresses, and however often interfaces are      *)
(* brought up: the node listens on every interface that is up, with a      *)
(* socket of its own device, whose first address was never another's.      *)
(***************************************************************************)
THEOREM UpListens == Spec => []UpInterfaceListens
<1> DEFINE Inv == SocketInv /\ OnlyWhereGiven
<1>1. Init => Inv
  <2> SUFFICES ASSUME Init PROVE Inv
    OBVIOUS
  <2>1. SocketInv
    BY ListenInit DEF ListenInv, SocketInv, Init, UpInterfaceHasSocket
  <2>2. \A i \in Interface : 1 .. Len(addresses[i]) = {}
    BY DEF Init
  <2>3. \A a \in Addr, i \in Interface : ~(m_socketAddresses[<<a, i>>] > 0)
    BY DEF Init, Binding
  <2>4. QED
    BY <2>1, <2>2, <2>3 DEF OnlyWhereGiven
<1>2. Inv /\ [Next]_vars => Inv'
  <2> SUFFICES ASSUME Inv, [Next]_vars PROVE Inv'
    OBVIOUS
  <2>1. CASE UNCHANGED vars
    <3>1. UNCHANGED <<addresses, up, m_socketAddresses, given>>
      BY <2>1 DEF vars
    <3>2. NodeOK'
      BY <2>1, TypeStep DEF SocketInv
    <3>3. AddressesDistinct' /\ UpInterfaceHasSocket' /\ OnlyWhereGiven'
      BY <3>1 DEF SocketInv, AddressesDistinct, UpInterfaceHasSocket,
                  FindSocket, OnlyWhereGiven
    <3>4. QED
      BY <3>2, <3>3 DEF SocketInv
  <2>2. CASE Step
    BY <2>2, TypeStep, DistinctStep, SocketStep, GivenStep DEF SocketInv
  <2>3. QED
    BY <2>1, <2>2, EitherProtocol
<1>3. Inv => UpInterfaceListens
  <2> SUFFICES ASSUME Inv,
                      NEW i \in up, NEW a \in Addr,
                      Listening(a, i), given[a] = {i}
               PROVE  m_socketAddresses[<<a, i>>] > 0
    BY DEF UpInterfaceListens
  <2>1. PICK b \in Binding : b[1] = a /\ m_socketAddresses[b] > 0
    BY DEF SocketInv, UpInterfaceHasSocket, Listening, FindSocket
  <2>2. PICK j \in Interface : b = <<a, j>>
    BY <2>1 DEF Binding
  <2>3. j = i
    BY <2>1, <2>2 DEF OnlyWhereGiven
  <2>4. QED
    BY <2>1, <2>2, <2>3
<1>4. QED
  BY <1>1, <1>2, <1>3, PTL DEF Spec

===============================================================================
