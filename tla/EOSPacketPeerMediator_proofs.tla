-------------------- MODULE EOSPacketPeerMediator_proofs --------------------
(***************************************************************************)
(* Proofs about EOSPacketPeerMediator, for every set of sockets, users and *)
(* instances, every queue limit and any number of arrivals.                *)
(***************************************************************************)
EXTENDS EOSPacketPeerMediator, TLAPS, FiniteSetTheorems, SequenceTheorems

----------------------------------------------------------------------------
\* Listing a finite set of naturals in order

Enumerates(place, I) ==
    /\ place \in [1..Cardinality(I) -> I]
    /\ \A j, k \in 1..Cardinality(I) : j < k => place[j] < place[k]

\* Every set of naturals that is not empty has a least element.
LEMMA LeastElement ==
  ASSUME NEW T \in SUBSET Nat, T # {}
  PROVE  \E x \in T : \A y \in T : x <= y
<1> DEFINE Less == {ss \in Nat \X Nat : ss[1] < ss[2]}
<1>1. IsWellFoundedOn(Less, Nat)
  BY NatLessThanWellFounded DEF OpToRel
<1>2. \E x \in T : \A y \in T : ~ (<<y, x>> \in Less)
  <2> HIDE DEF Less
  <2> QED
    BY <1>1, WFMin
<1>3. PICK x \in T : \A y \in T : ~ (<<y, x>> \in Less)
  BY <1>2
<1>4. ASSUME NEW y \in T PROVE x <= y
  <2>1. <<y, x>> \in Nat \X Nat /\ ~ (<<y, x>> \in Less)
    BY <1>3
  <2>2. ~ (y < x)
    BY <2>1
  <2> QED
    BY <2>2
<1> QED
  BY <1>4

\* A set of naturals in 1..N can be listed in increasing order: were there one
\* that cannot, take one with the least bound, list it without that bound, and
\* append the bound.
LEMMA EnumerationExists ==
  ASSUME NEW N \in Nat, NEW I \in SUBSET (1..N)
  PROVE  \E place : Enumerates(place, I)
<1> DEFINE Bad == {n \in Nat : \E J \in SUBSET (1..n) : ~ \E place : Enumerates(place, J)}
<1>1. SUFFICES ASSUME Bad # {} PROVE FALSE
  OBVIOUS
<1>2. PICK m \in Bad : \A n \in Bad : m <= n
  BY <1>1, LeastElement
<1>3. PICK J \in SUBSET (1..m) : ~ \E place : Enumerates(place, J)
  BY <1>2
<1>4. m \in J
  <2>1. SUFFICES ASSUME m \notin J PROVE FALSE
    OBVIOUS
  <2>2. CASE m = 0
    <3>1. J = {} /\ Cardinality(J) = 0
      <4>1. J = {}
        BY <2>2
      <4> QED
        BY <4>1, FS_EmptySet
    <3>2. Enumerates([i \in 1..0 |-> 0], J)
      BY <3>1 DEF Enumerates
    <3> QED
      BY <1>3, <3>2
  <2>3. CASE m # 0
    <3>1. m - 1 \in Nat /\ J \in SUBSET (1..(m - 1))
      BY <2>1, <2>3
    <3> QED
      BY <1>2, <1>3, <3>1
  <2> QED
    BY <2>2, <2>3
<1> DEFINE K == J \ {m}
<1>5. m \in Nat \ {0} /\ K \in SUBSET (1..(m - 1))
  BY <1>4
<1>6. PICK place : Enumerates(place, K)
  <2>1. m - 1 \in Nat /\ ~ (m <= m - 1)
    BY <1>5
  <2>2. m - 1 \notin Bad
    BY <1>2, <2>1 
  <2>3. \A L \in SUBSET (1..(m - 1)) : \E place : Enumerates(place, L)
    BY <2>1, <2>2
  <2> QED
    BY <1>5, <2>3
<1>7. Cardinality(K) \in Nat /\ Cardinality(J) = Cardinality(K) + 1
  <2>1. IsFiniteSet(J)
    <3>1. IsFiniteSet(1..m) /\ J \subseteq 1..m
      BY <1>5, FS_Interval
    <3> QED
      BY <3>1, FS_Subset
  <2>2. IsFiniteSet(K) /\ Cardinality(K) = Cardinality(J) - 1 /\ Cardinality(J) \in Nat
    BY <1>4, <2>1, FS_RemoveElement, FS_CardinalityType
  <2> QED
    BY <2>2, FS_CardinalityType
<1> DEFINE longer == [j \in 1..Cardinality(J) |-> IF j = Cardinality(J) THEN m ELSE place[j]]
<1>8. Enumerates(longer, J)
  <2>1. ASSUME NEW j \in 1..Cardinality(K)
        PROVE  longer[j] = place[j] /\ place[j] \in K /\ place[j] \in Nat /\ place[j] < m
    <3>1. place[j] \in K
      BY <1>6 DEF Enumerates
    <3>2. place[j] \in 1..(m - 1)
      BY <1>5, <3>1
    <3>3. longer[j] = place[j]
      BY <1>7
    <3> QED
      BY <1>5, <3>1, <3>2, <3>3
  <2>2. longer[Cardinality(J)] = m
    BY <1>7
  <2>3. longer \in [1..Cardinality(J) -> J]
    <3>1. ASSUME NEW j \in 1..Cardinality(J) PROVE longer[j] \in J
      <4>1. CASE j = Cardinality(J)
        BY <1>4, <2>2, <4>1
      <4>2. CASE j # Cardinality(J)
        <5>1. j \in 1..Cardinality(K)
          BY <1>7, <4>2
        <5> QED
          BY <2>1, <5>1
      <4> QED
        BY <4>1, <4>2
    <3> QED
      BY <3>1
  <2>4. ASSUME NEW j \in 1..Cardinality(J), NEW k \in 1..Cardinality(J), j < k
        PROVE  longer[j] < longer[k]
    <3>1. j \in 1..Cardinality(K)
      BY <1>7, <2>4
    <3>2. CASE k = Cardinality(J)
      BY <2>1, <2>2, <3>1, <3>2
    <3>3. CASE k # Cardinality(J)
      <4>1. k \in 1..Cardinality(K)
        BY <1>7, <3>3
      <4>2. place[j] < place[k]
        BY <1>6, <2>4, <3>1, <4>1 DEF Enumerates
      <4> QED
        BY <2>1, <3>1, <4>1, <4>2
    <3> QED
      BY <3>2, <3>3
  <2> HIDE DEF longer
  <2> QED
    BY <2>3, <2>4 DEF Enumerates
<1> QED
  BY <1>3, <1>8

\* What InOrder chooses is an increasing listing.
LEMMA InOrderEnumerates ==
  ASSUME NEW N \in Nat, NEW I \in SUBSET (1..N)
  PROVE  Enumerates(InOrder(I), I)
<1>1. PICK place : Enumerates(place, I)
  BY EnumerationExists
<1> QED
  BY <1>1 DEF Enumerates, InOrder

----------------------------------------------------------------------------
\* The queue helpers

\* Without keeps packets of the queue, in their order.
LEMMA WithoutKeepsOrder ==
  ASSUME NEW queue \in Seq(Packet), NEW u
  PROVE  /\ Without(queue, u) \in Seq(Packet)
         /\ Len(Without(queue, u)) <= Len(queue)
         /\ \E place \in [1..Len(Without(queue, u)) -> 1..Len(queue)] :
               /\ \A j, k \in 1..Len(Without(queue, u)) : j < k => place[j] < place[k]
               /\ \A k \in 1..Len(Without(queue, u)) : Without(queue, u)[k] = queue[place[k]]
<1> DEFINE I == {i \in 1..Len(queue) : queue[i].sender # u}
           kept == InOrder(I)
<1>1. Enumerates(kept, I)
  <2>1. Len(queue) \in Nat /\ I \in SUBSET (1..Len(queue))
    OBVIOUS
  <2> HIDE DEF I
  <2> QED
    BY <2>1, InOrderEnumerates
<1>2. Cardinality(I) \in Nat /\ Cardinality(I) <= Len(queue)
  <2>1. IsFiniteSet(1..Len(queue)) /\ Cardinality(1..Len(queue)) = Len(queue)
    <3>1. Len(queue) \in Nat
      OBVIOUS
    <3>2. /\ IsFiniteSet(1..Len(queue))
          /\ Cardinality(1..Len(queue)) = IF 1 > Len(queue) THEN 0 ELSE Len(queue) - 1 + 1
      BY <3>1, FS_Interval
    <3> QED
      BY <3>1, <3>2
  <2>2. IsFiniteSet(I) /\ Cardinality(I) <= Len(queue)
    BY <2>1, FS_Subset
  <2> QED
    BY <2>2, FS_CardinalityType
<1>3. Without(queue, u) = [k \in 1..Cardinality(I) |-> queue[kept[k]]]
  BY <1>1 DEF Without, Enumerates
<1> HIDE DEF kept
<1>4. \A k \in 1..Cardinality(I) : kept[k] \in 1..Len(queue) /\ queue[kept[k]] \in Packet
  BY <1>1, ElementOfSeq DEF Enumerates
<1>5. Without(queue, u) \in Seq(Packet) /\ Len(Without(queue, u)) = Cardinality(I)
  BY <1>2, <1>3, <1>4
<1>6. kept \in [1..Cardinality(I) -> 1..Len(queue)]
  BY <1>1, <1>4 DEF Enumerates
<1> HIDE DEF I
<1> QED
  BY <1>1, <1>2, <1>3, <1>5, <1>6 DEF Enumerates

\* What is left of a queue after k packets were polled.
LEMMA SuffixProperties ==
  ASSUME NEW queue \in Seq(Packet), NEW k \in 1..Len(queue)
  PROVE  /\ SubSeq(queue, k + 1, Len(queue)) \in Seq(Packet)
         /\ Len(SubSeq(queue, k + 1, Len(queue))) = Len(queue) - k
         /\ \A i \in 1..(Len(queue) - k) : SubSeq(queue, k + 1, Len(queue))[i] = queue[i + k]
<1>1. Len(queue) \in Nat /\ k \in Nat /\ k <= Len(queue)
  BY LenProperties
<1>2. \A i \in (k + 1)..Len(queue) : queue[i] \in Packet
  BY <1>1, ElementOfSeq
<1>3. /\ SubSeq(queue, k + 1, Len(queue)) \in Seq(Packet)
      /\ Len(SubSeq(queue, k + 1, Len(queue))) =
           IF k + 1 <= Len(queue) THEN Len(queue) - (k + 1) + 1 ELSE 0
      /\ \A i \in 1..(Len(queue) - (k + 1) + 1) :
           SubSeq(queue, k + 1, Len(queue))[i] = queue[(k + 1) + i - 1]
  BY <1>1, <1>2, SubSeqProperties
<1>4. \A i \in 1..(Len(queue) - k) :
        i \in 1..(Len(queue) - (k + 1) + 1) /\ (k + 1) + i - 1 = i + k
  BY <1>1
<1> QED
  BY <1>1, <1>3, <1>4

\* A filed packet makes its queue longer by one, at the front or at the back.
LEMMA FiledProperties ==
  ASSUME NEW queue \in Seq(Packet), NEW m \in Packet
  PROVE  /\ Filed(queue, m) \in Seq(Packet)
         /\ Len(Filed(queue, m)) = Len(queue) + 1
         /\ IsPeerIdPacket(m) =>
              /\ Filed(queue, m)[1] = m
              /\ \A i \in 1..Len(queue) : Filed(queue, m)[i + 1] = queue[i]
         /\ ~IsPeerIdPacket(m) =>
              /\ Filed(queue, m)[Len(queue) + 1] = m
              /\ \A i \in 1..Len(queue) : Filed(queue, m)[i] = queue[i]
<1>1. CASE IsPeerIdPacket(m)
  <2>1. <<m>> \in Seq(Packet) /\ Len(<<m>>) = 1 /\ <<m>>[1] = m
    OBVIOUS
  <2>2. Filed(queue, m) = <<m>> \o queue
    BY <1>1 DEF Filed
  <2> QED
    BY <1>1, <2>1, <2>2, ConcatProperties, LenProperties
<1>2. CASE ~IsPeerIdPacket(m)
  BY <1>2, AppendProperties DEF Filed
<1> QED
  BY <1>1, <1>2

----------------------------------------------------------------------------
\* Types

\* What unregister_peer leaves are the other sockets, untouched.
LEMMA UnregisteredRestricts ==
  ASSUME NEW s, Unregistered(s)
  PROVE  /\ active_peers' = [x \in DOMAIN active_peers \ {s} |-> active_peers[x]]
         /\ socket_packet_queues' = [x \in DOMAIN socket_packet_queues \ {s} |-> socket_packet_queues[x]]
BY DEF Unregistered, Restrict

LEMMA UnregisteredType ==
  ASSUME TypeOK, NEW s, Unregistered(s)
  PROVE  /\ active_peers' \in [DOMAIN active_peers' -> Peer]
         /\ DOMAIN active_peers' \subseteq Socket
         /\ socket_packet_queues' \in [DOMAIN socket_packet_queues' -> Seq(Packet)]
<1>1. active_peers' \in [DOMAIN active_peers' -> Peer] /\ DOMAIN active_peers' \subseteq Socket
  <2>1. active_peers \in [DOMAIN active_peers -> Peer] /\ DOMAIN active_peers \subseteq Socket
    BY DEF TypeOK
  <2>2. active_peers' = [x \in DOMAIN active_peers \ {s} |-> active_peers[x]]
    BY UnregisteredRestricts
  <2> QED
    BY <2>1, <2>2
<1>2. socket_packet_queues' \in [DOMAIN socket_packet_queues' -> Seq(Packet)]
  <2>1. socket_packet_queues \in [DOMAIN socket_packet_queues -> Seq(Packet)]
    BY DEF TypeOK
  <2>2. socket_packet_queues' = [x \in DOMAIN socket_packet_queues \ {s} |-> socket_packet_queues[x]]
    BY UnregisteredRestricts
  <2> QED
    BY <2>1, <2>2
<1> QED
  BY <1>1, <1>2

LEMMA TypeStep == TypeOK /\ [Next]_vars => TypeOK'
<1> SUFFICES ASSUME TypeOK, [Next]_vars PROVE TypeOK'
  OBVIOUS
<1> USE DEF TypeOK, registry, network
<1>1. CASE UNCHANGED vars
  BY <1>1 DEF vars
<1>2. ASSUME NEW s \in Socket, NEW u \in User, NEW e \in Event, NEW i \in PeerId, PacketArrives(s, u, e, i)
      PROVE  TypeOK'
  <2>1. [socket |-> s, sender |-> u, event |-> e, peer_id |-> i, n |-> arrivals + 1] \in Packet
    BY <1>2, BoundAssumption DEF PacketArrives, Packet
  <2>2. received' \in Seq(Packet)
    BY <1>2, <2>1, AppendProperties DEF PacketArrives
  <2>3. arrivals' \in 0..MaxArrivals
    BY <1>2, BoundAssumption DEF PacketArrives
  <2> QED
    BY <1>2, <2>2, <2>3 DEF PacketArrives
<1>3. CASE OnProcessFrame
  BY <1>3 DEF OnProcessFrame
<1>4. CASE NoPacketLeft
  BY <1>4 DEF NoPacketLeft
<1>5. CASE DropPacket
  BY <1>5, HeadTailProperties DEF DropPacket
<1>6. CASE FilePacket
  <2>1. Head(received) \in Packet /\ received' \in Seq(Packet)
    BY <1>6, HeadTailProperties DEF FilePacket
  <2>2. socket_packet_queues' \in [DOMAIN socket_packet_queues' -> Seq(Packet)]
    BY <1>6, <2>1, FiledProperties DEF FilePacket
  <2>3. receiving' \in BOOLEAN
    BY <1>6 DEF FilePacket, Room
  <2> QED
    BY <1>6, <2>1, <2>2, <2>3 DEF FilePacket
<1>7. ASSUME NEW s \in Socket, PollNextPackets(s) PROVE TypeOK'
  BY <1>7, SuffixProperties DEF PollNextPackets
<1>8. ASSUME NEW p \in Peer, NEW s \in Socket, RegisterPeer(p, s) PROVE TypeOK'
  <2>1. active_peers' \in [DOMAIN active_peers' -> Peer] /\ DOMAIN active_peers' \subseteq Socket
    BY <1>8 DEF RegisterPeer, Insert
  <2>2. socket_packet_queues' \in [DOMAIN socket_packet_queues' -> Seq(Packet)]
    BY <1>8, EmptySeq DEF RegisterPeer, Insert
  <2>3. pending_connection_requests' \in [Socket -> [User -> Nat]]
    BY <1>8 DEF RegisterPeer, ForwardPendingConnectionRequests
  <2> QED
    BY <1>8, <2>1, <2>2, <2>3 DEF RegisterPeer
<1>9. ASSUME NEW s \in Socket, RegisterAndUnregisterPeer(s) PROVE TypeOK'
  <2>1. pending_connection_requests' \in [Socket -> [User -> Nat]]
    BY <1>9 DEF RegisterAndUnregisterPeer, ForwardPendingConnectionRequests
  <2>2. UNCHANGED <<active_peers, socket_packet_queues, max_queue_size, initialized, receiving, received, arrivals>>
    BY <1>9 DEF RegisterAndUnregisterPeer, network
  <2> QED
    BY <2>1, <2>2
<1>10. ASSUME NEW s \in Socket, UnregisterPeer(s) PROVE TypeOK'
  <2>1. Unregistered(s) /\ UNCHANGED <<pending_connection_requests, max_queue_size, initialized, receiving, received, arrivals>>
    BY <1>10 DEF UnregisterPeer, network
  <2> QED
    BY <2>1, UnregisteredType
<1>11. ASSUME NEW s \in Socket, NEW u \in User, HoldConnectionRequest(s, u) PROVE TypeOK'
  BY <1>11 DEF HoldConnectionRequest
<1>12. ASSUME NEW s \in Socket, NEW u \in User, OnRemoteConnectionClosed(s, u) PROVE TypeOK'
  <2>1. pending_connection_requests' \in [Socket -> [User -> Nat]]
    BY <1>12 DEF OnRemoteConnectionClosed
  <2>2. /\ active_peers' \in [DOMAIN active_peers' -> Peer]
        /\ DOMAIN active_peers' \subseteq Socket
        /\ socket_packet_queues' \in [DOMAIN socket_packet_queues' -> Seq(Packet)]
    <3> DEFINE Goal == /\ active_peers' \in [DOMAIN active_peers' -> Peer]
                       /\ DOMAIN active_peers' \subseteq Socket
                       /\ socket_packet_queues' \in [DOMAIN socket_packet_queues' -> Seq(Packet)]
    <3>1. UNCHANGED <<active_peers, socket_packet_queues>> => Goal
      OBVIOUS
    <3>2. ASSUME NEW t \in DOMAIN active_peers, ClearedPacketsFromRemoteUser(t, u) PROVE Goal
      <4>1. /\ t \in DOMAIN socket_packet_queues => socket_packet_queues[t] \in Seq(Packet)
            /\ active_peers' = active_peers
            /\ socket_packet_queues' = [socket_packet_queues EXCEPT ![t] = Without(@, u)]
        BY <3>2 DEF ClearedPacketsFromRemoteUser
      <4>2. t \in DOMAIN socket_packet_queues => Without(socket_packet_queues[t], u) \in Seq(Packet)
        BY <4>1, WithoutKeepsOrder
      <4> QED
        BY <4>1, <4>2
    <3>3. ASSUME NEW t \in DOMAIN active_peers, Unregistered(t) PROVE Goal
      BY <3>3, UnregisteredType
    <3>4. \/ UNCHANGED <<active_peers, socket_packet_queues>>
          \/ \E t \in DOMAIN active_peers : ClearedPacketsFromRemoteUser(t, u) \/ Unregistered(t)
      BY <1>12 DEF OnRemoteConnectionClosed
    <3> HIDE DEF Goal
    <3>5. Goal
      BY <3>1, <3>2, <3>3, <3>4
    <3> QED
      BY <3>5 DEF Goal
  <2> QED
    BY <1>12, <2>1, <2>2 DEF OnRemoteConnectionClosed
<1>13. CASE Login
  BY <1>13 DEF Login
<1>14. CASE Terminate
  BY <1>14, EmptySeq DEF Terminate
<1>15. ASSUME NEW limit \in QueueLimit, SetQueueSizeLimit(limit) PROVE TypeOK'
  BY <1>15, QueueLimitAssumption DEF SetQueueSizeLimit
<1> QED
  BY <1>1, <1>2, <1>3, <1>4, <1>5, <1>6, <1>7, <1>8, <1>9, <1>10, <1>11, <1>12, <1>13, <1>14, <1>15
  DEF Next, ReceivePacket

LEMMA InitTypeOK == Init => TypeOK
<1>1. /\ << >> \in [DOMAIN << >> -> Peer]
      /\ << >> \in [DOMAIN << >> -> Seq(Packet)]
      /\ DOMAIN << >> \subseteq Socket
      /\ << >> \in Seq(Packet)
  BY EmptySeq
<1>2. 0 \in 0..MaxArrivals /\ DefaultQueueLimit \in Nat \ {0}
  BY QueueLimitAssumption, BoundAssumption
<1> SUFFICES ASSUME Init PROVE TypeOK
  OBVIOUS
<1>3. active_peers \in [DOMAIN active_peers -> Peer] /\ DOMAIN active_peers \subseteq Socket
  BY <1>1 DEF Init
<1>4. socket_packet_queues \in [DOMAIN socket_packet_queues -> Seq(Packet)]
  BY <1>1 DEF Init
<1>5. received \in Seq(Packet)
  BY <1>1 DEF Init
<1>6. pending_connection_requests \in [Socket -> [User -> Nat]]
  BY DEF Init
<1> QED
  BY <1>2, <1>3, <1>4, <1>5, <1>6 DEF Init, TypeOK

\* Every variable keeps its type: queues and the SDK's list hold packets, the
\* two maps are keyed by sockets, and no held request is counted below zero.
THEOREM TypeCorrect == Spec => []TypeOK
<1>1. Init => TypeOK
  BY InitTypeOK
<1>2. TypeOK /\ [Next]_vars => TypeOK'
  BY TypeStep
<1> QED
  BY <1>1, <1>2, PTL DEF Spec

----------------------------------------------------------------------------
\* Registrations, queues and held requests

LEMMA RegistryStep ==
  TypeOK /\ QueuesMatchPeers /\ NoRequestHeldBack /\ [Next]_vars => QueuesMatchPeers' /\ NoRequestHeldBack'
<1> SUFFICES ASSUME TypeOK, QueuesMatchPeers, NoRequestHeldBack, [Next]_vars
             PROVE  QueuesMatchPeers' /\ NoRequestHeldBack'
  OBVIOUS
<1> USE DEF QueuesMatchPeers, NoRequestHeldBack, registry, network
<1>1. CASE UNCHANGED registry
  BY <1>1
<1>2. CASE FilePacket
  BY <1>2 DEF FilePacket
<1>3. ASSUME NEW s \in Socket, PollNextPackets(s) PROVE QueuesMatchPeers' /\ NoRequestHeldBack'
  BY <1>3 DEF PollNextPackets
<1>4. ASSUME NEW p \in Peer, NEW s \in Socket, RegisterPeer(p, s)
      PROVE  QueuesMatchPeers' /\ NoRequestHeldBack'
  <2>1. QueuesMatchPeers'
    BY <1>4 DEF RegisterPeer, Insert
  <2>2. ASSUME NEW r \in DOMAIN active_peers', NEW u \in User
        PROVE  pending_connection_requests'[r][u] = 0
    <3>1. r = s \/ r \in DOMAIN active_peers
      BY <1>4, <2>2 DEF RegisterPeer, Insert
    <3>2. r \in Socket
      BY <3>1 DEF TypeOK
    <3> QED
      BY <1>4, <3>1, <3>2 DEF RegisterPeer, ForwardPendingConnectionRequests, TypeOK
  <2> QED
    BY <2>1, <2>2
<1>5. ASSUME NEW s \in Socket, RegisterAndUnregisterPeer(s) PROVE QueuesMatchPeers' /\ NoRequestHeldBack'
  BY <1>5 DEF RegisterAndUnregisterPeer, ForwardPendingConnectionRequests, TypeOK
<1>6. ASSUME NEW s \in Socket, UnregisterPeer(s) PROVE QueuesMatchPeers' /\ NoRequestHeldBack'
  BY <1>6, UnregisteredRestricts DEF UnregisterPeer
<1>7. ASSUME NEW s \in Socket, NEW u \in User, HoldConnectionRequest(s, u)
      PROVE  QueuesMatchPeers' /\ NoRequestHeldBack'
  <2>1. ASSUME NEW r \in DOMAIN active_peers', NEW v \in User PROVE pending_connection_requests'[r][v] = 0
    <3>1. r \in DOMAIN active_peers /\ r \in Socket /\ r # s
      BY <1>7, <2>1 DEF HoldConnectionRequest, TypeOK
    <3> QED
      BY <1>7, <3>1 DEF HoldConnectionRequest, TypeOK
  <2> QED
    BY <1>7, <2>1 DEF HoldConnectionRequest
<1>8. ASSUME NEW s \in Socket, NEW u \in User, OnRemoteConnectionClosed(s, u)
      PROVE  QueuesMatchPeers' /\ NoRequestHeldBack'
  <2>1. QueuesMatchPeers' /\ DOMAIN active_peers' \subseteq DOMAIN active_peers
    <3>1. \/ UNCHANGED <<active_peers, socket_packet_queues>>
          \/ \E t \in DOMAIN active_peers : ClearedPacketsFromRemoteUser(t, u) \/ Unregistered(t)
      BY <1>8 DEF OnRemoteConnectionClosed
    <3>2. CASE UNCHANGED <<active_peers, socket_packet_queues>>
      BY <3>2
    <3>3. CASE \E t \in DOMAIN active_peers : ClearedPacketsFromRemoteUser(t, u)
      BY <3>3 DEF ClearedPacketsFromRemoteUser
    <3>4. CASE \E t \in DOMAIN active_peers : Unregistered(t)
      BY <3>4, UnregisteredRestricts
    <3> QED
      BY <3>1, <3>2, <3>3, <3>4
  <2>2. ASSUME NEW r \in DOMAIN active_peers, NEW v \in User PROVE pending_connection_requests'[r][v] = 0
    BY <1>8, <2>2 DEF OnRemoteConnectionClosed, TypeOK
  <2> QED
    BY <2>1, <2>2
<1>9. CASE OnProcessFrame \/ NoPacketLeft \/ DropPacket \/ Login \/ Terminate
  BY <1>1, <1>9 DEF OnProcessFrame, NoPacketLeft, DropPacket, Login, Terminate
<1>10. ASSUME NEW s \in Socket, NEW u \in User, NEW e \in Event, NEW i \in PeerId, PacketArrives(s, u, e, i)
       PROVE  QueuesMatchPeers' /\ NoRequestHeldBack'
  BY <1>1, <1>10 DEF PacketArrives
<1>11. ASSUME NEW limit \in QueueLimit, SetQueueSizeLimit(limit)
       PROVE  QueuesMatchPeers' /\ NoRequestHeldBack'
  BY <1>1, <1>11 DEF SetQueueSizeLimit
<1> QED
  BY <1>1, <1>2, <1>3, <1>4, <1>5, <1>6, <1>7, <1>8, <1>9, <1>10, <1>11 DEF Next, ReceivePacket, vars

LEMMA InitRegistry == Init => QueuesMatchPeers /\ NoRequestHeldBack
BY DEF Init, QueuesMatchPeers, NoRequestHeldBack

LEMMA RegistryCorrect == Spec => [](QueuesMatchPeers /\ NoRequestHeldBack)
<1>1. Init => QueuesMatchPeers /\ NoRequestHeldBack
  BY InitRegistry
<1> QED
  BY <1>1, RegistryStep, TypeCorrect, PTL DEF Spec

\* The map of registered instances and the map of queues always have the same
\* sockets, so that none of the lookups that test one and index the other can
\* miss.
THEOREM QueuesAlwaysMatchPeers == Spec => []QueuesMatchPeers
<1>1. Spec => [](QueuesMatchPeers /\ NoRequestHeldBack)
  BY RegistryCorrect
<1> QED
  BY <1>1, PTL

\* However requests, registrations, closed connections and logins interleave,
\* no connection request stays in the mediator once its socket is registered.
THEOREM NoRequestIsHeldBack == Spec => []NoRequestHeldBack
<1>1. Spec => [](QueuesMatchPeers /\ NoRequestHeldBack)
  BY RegistryCorrect
<1> QED
  BY <1>1, PTL

----------------------------------------------------------------------------
\* The order of the packets

\* The packets of a queue, those still in the SDK and the number of arrivals:
\* every packet is numbered, the SDK's are numbered in order, and all of them
\* after those already filed.
PeerIdFirst(queue) ==
    \A i, j \in 1..Len(queue) : i < j /\ IsPeerIdPacket(queue[j]) => IsPeerIdPacket(queue[i])

OthersInOrder(queue) ==
    \A i, j \in 1..Len(queue) :
       i < j /\ ~IsPeerIdPacket(queue[i]) /\ ~IsPeerIdPacket(queue[j]) => queue[i].n < queue[j].n

QueueInOrder(queue, rest, last) ==
    /\ PeerIdFirst(queue)
    /\ OthersInOrder(queue)
    /\ \A i \in 1..Len(queue) : queue[i].n <= last
    /\ \A i \in 1..Len(queue), j \in 1..Len(rest) : queue[i].n < rest[j].n

SdkInOrder(rest, last) ==
    /\ \A i, j \in 1..Len(rest) : i < j => rest[i].n < rest[j].n
    /\ \A i \in 1..Len(rest) : rest[i].n <= last

\* The inductive invariant.
ArrivalOrder ==
    /\ \A s \in DOMAIN socket_packet_queues : QueueInOrder(socket_packet_queues[s], received, arrivals)
    /\ SdkInOrder(received, arrivals)

\* Taking packets out of a queue keeps it in order.
LEMMA SubqueueInOrder ==
  ASSUME NEW queue \in Seq(Packet), NEW part \in Seq(Packet), NEW rest \in Seq(Packet), NEW last \in Nat,
         NEW place \in [1..Len(part) -> 1..Len(queue)],
         \A j, k \in 1..Len(part) : j < k => place[j] < place[k],
         \A k \in 1..Len(part) : part[k] = queue[place[k]],
         QueueInOrder(queue, rest, last)
  PROVE  QueueInOrder(part, rest, last)
<1>1. \A k \in 1..Len(part) : place[k] \in 1..Len(queue)
  OBVIOUS
<1>2. PeerIdFirst(part)
  BY <1>1 DEF QueueInOrder, PeerIdFirst
<1>3. OthersInOrder(part)
  BY <1>1 DEF QueueInOrder, OthersInOrder
<1>4. \A i \in 1..Len(part) : part[i].n <= last
  BY <1>1 DEF QueueInOrder
<1>5. \A i \in 1..Len(part), j \in 1..Len(rest) : part[i].n < rest[j].n
  BY <1>1 DEF QueueInOrder
<1> QED
  BY <1>2, <1>3, <1>4, <1>5 DEF QueueInOrder

\* Filing the SDK's first packet keeps its queue in order.
LEMMA FiledInOrder ==
  ASSUME NEW queue \in Seq(Packet), NEW rest \in Seq(Packet), rest # << >>, NEW last \in Nat,
         QueueInOrder(queue, rest, last), SdkInOrder(rest, last)
  PROVE  QueueInOrder(Filed(queue, Head(rest)), Tail(rest), last)
<1> DEFINE m == Head(rest)
           filed == Filed(queue, m)
           tail == Tail(rest)
<1>1. /\ m \in Packet /\ m = rest[1] /\ 1 \in 1..Len(rest)
      /\ tail \in Seq(Packet) /\ Len(tail) = Len(rest) - 1
      /\ \A j \in 1..Len(tail) : j + 1 \in 1..Len(rest) /\ 1 < j + 1 /\ tail[j] = rest[j + 1]
  BY HeadTailProperties
<1>2. /\ Len(filed) = Len(queue) + 1 /\ Len(queue) \in Nat
      /\ IsPeerIdPacket(m) =>
           filed[1] = m /\ \A i \in 1..Len(queue) : filed[i + 1] = queue[i]
      /\ ~IsPeerIdPacket(m) =>
           filed[Len(queue) + 1] = m /\ \A i \in 1..Len(queue) : filed[i] = queue[i]
  <2>1. m \in Packet /\ Len(queue) \in Nat
    BY <1>1
  <2> HIDE DEF m
  <2> QED
    BY <2>1, FiledProperties
<1>3. /\ m.n \in Nat /\ m.n <= last
      /\ \A i \in 1..Len(queue) : queue[i].n \in Nat /\ queue[i].n < m.n
      /\ \A j \in 1..Len(tail) : tail[j].n \in Nat /\ m.n < tail[j].n
  <2>1. \A e \in Packet : e.n \in Nat
    BY BoundAssumption DEF Packet
  <2>2. \A i \in 1..Len(queue) : queue[i] \in Packet
    BY ElementOfSeq
  <2>3. \A j \in 1..Len(rest) : rest[j] \in Packet
    BY ElementOfSeq
  <2>4. m.n <= last /\ \A i \in 1..Len(queue) : queue[i].n < m.n
    BY <1>1 DEF QueueInOrder, SdkInOrder
  <2>5. ASSUME NEW j \in 1..Len(tail) PROVE tail[j].n \in Nat /\ m.n < tail[j].n
    <3>1. j + 1 \in 1..Len(rest) /\ 1 < j + 1 /\ tail[j] = rest[j + 1]
      BY <1>1
    <3>2. rest[1].n < rest[j + 1].n
      BY <1>1, <3>1 DEF SdkInOrder
    <3> QED
      BY <1>1, <2>1, <2>3, <3>1, <3>2
  <2> QED
    BY <1>1, <2>1, <2>2, <2>4, <2>5
<1>4. \A i \in 1..Len(queue), j \in 1..Len(tail) : queue[i].n < tail[j].n
  BY <1>1 DEF QueueInOrder
<1> HIDE DEF m, filed, tail
<1>5. CASE IsPeerIdPacket(m)
  <2>1. \A i \in 1..Len(filed) : i = 1 \/ (i - 1 \in 1..Len(queue) /\ filed[i] = queue[i - 1])
    BY <1>2, <1>5
  <2>2. PeerIdFirst(filed) /\ OthersInOrder(filed)
    <3>1. ASSUME NEW i \in 1..Len(filed), NEW j \in 1..Len(filed), i < j
          PROVE  /\ IsPeerIdPacket(filed[j]) => IsPeerIdPacket(filed[i])
                 /\ ~IsPeerIdPacket(filed[i]) /\ ~IsPeerIdPacket(filed[j]) => filed[i].n < filed[j].n
      <4>1. CASE i = 1
        BY <1>2, <1>5, <4>1
      <4>2. CASE i # 1
        <5>1. /\ i - 1 \in 1..Len(queue) /\ filed[i] = queue[i - 1]
              /\ j - 1 \in 1..Len(queue) /\ filed[j] = queue[j - 1]
              /\ i - 1 < j - 1
          BY <2>1, <3>1, <4>2
        <5> QED
          BY <5>1 DEF QueueInOrder, PeerIdFirst, OthersInOrder
      <4> QED
        BY <4>1, <4>2
    <3> QED
      BY <3>1 DEF PeerIdFirst, OthersInOrder
  <2>3. \A i \in 1..Len(filed) : filed[i] = m \/ \E k \in 1..Len(queue) : filed[i] = queue[k]
    BY <1>2, <1>5, <2>1
  <2> QED
    BY <1>3, <1>4, <2>2, <2>3 DEF QueueInOrder, m, filed, tail
<1>6. CASE ~IsPeerIdPacket(m)
  <2>1. \A i \in 1..Len(filed) : i = Len(queue) + 1 \/ (i \in 1..Len(queue) /\ filed[i] = queue[i])
    BY <1>2, <1>6
  <2>2. PeerIdFirst(filed) /\ OthersInOrder(filed)
    <3>1. ASSUME NEW i \in 1..Len(filed), NEW j \in 1..Len(filed), i < j
          PROVE  /\ IsPeerIdPacket(filed[j]) => IsPeerIdPacket(filed[i])
                 /\ ~IsPeerIdPacket(filed[i]) /\ ~IsPeerIdPacket(filed[j]) => filed[i].n < filed[j].n
      <4>1. i \in 1..Len(queue) /\ filed[i] = queue[i]
        BY <1>2, <2>1, <3>1
      <4>2. CASE j = Len(queue) + 1
        BY <1>2, <1>3, <1>6, <4>1, <4>2
      <4>3. CASE j # Len(queue) + 1
        <5>1. j \in 1..Len(queue) /\ filed[j] = queue[j]
          BY <2>1, <4>3
        <5> QED
          BY <3>1, <4>1, <5>1 DEF QueueInOrder, PeerIdFirst, OthersInOrder
      <4> QED
        BY <4>2, <4>3
    <3> QED
      BY <3>1 DEF PeerIdFirst, OthersInOrder
  <2>3. \A i \in 1..Len(filed) : filed[i] = m \/ \E k \in 1..Len(queue) : filed[i] = queue[k]
    BY <1>2, <1>6, <2>1
  <2> QED
    BY <1>3, <1>4, <2>2, <2>3 DEF QueueInOrder, m, filed, tail
<1> QED
  BY <1>5, <1>6

\* The SDK's list stays in order when its first packet is taken.
LEMMA TailInOrder ==
  ASSUME NEW rest \in Seq(Packet), rest # << >>, NEW last \in Nat, SdkInOrder(rest, last)
  PROVE  /\ SdkInOrder(Tail(rest), last)
         /\ \A queue : QueueInOrder(queue, rest, last) => QueueInOrder(queue, Tail(rest), last)
<1>1. \A j \in 1..Len(Tail(rest)) : j + 1 \in 1..Len(rest) /\ Tail(rest)[j] = rest[j + 1]
  BY HeadTailProperties
<1>2. \A i, j \in 1..Len(Tail(rest)) : i < j => i + 1 < j + 1
  BY HeadTailProperties
<1>3. SdkInOrder(Tail(rest), last)
  BY <1>1, <1>2 DEF SdkInOrder
<1>4. ASSUME NEW queue, QueueInOrder(queue, rest, last) PROVE QueueInOrder(queue, Tail(rest), last)
  BY <1>1, <1>4 DEF QueueInOrder
<1> QED
  BY <1>3, <1>4

\* An arriving packet has the highest number.
LEMMA ArrivalInOrder ==
  ASSUME NEW rest \in Seq(Packet), NEW last \in Nat, SdkInOrder(rest, last),
         NEW m \in Packet, m.n = last + 1
  PROVE  /\ SdkInOrder(Append(rest, m), last + 1)
         /\ \A queue \in Seq(Packet) :
               QueueInOrder(queue, rest, last) => QueueInOrder(queue, Append(rest, m), last + 1)
<1>1. /\ Len(rest) \in Nat /\ Len(Append(rest, m)) = Len(rest) + 1
      /\ \A i \in 1..Len(rest) : Append(rest, m)[i] = rest[i]
      /\ Append(rest, m)[Len(rest) + 1] = m
  BY AppendProperties
<1>2. \A e \in Packet : e.n \in Nat
  BY BoundAssumption DEF Packet
<1>3. \A j \in 1..Len(Append(rest, m)) : j = Len(rest) + 1 \/ j \in 1..Len(rest)
  BY <1>1
<1>4. \A j \in 1..Len(rest) : rest[j].n \in Nat /\ rest[j].n <= last
  BY <1>2, ElementOfSeq DEF SdkInOrder
<1>5. SdkInOrder(Append(rest, m), last + 1)
  <2>1. ASSUME NEW i \in 1..Len(Append(rest, m)), NEW j \in 1..Len(Append(rest, m)), i < j
        PROVE  Append(rest, m)[i].n < Append(rest, m)[j].n
    <3>1. i \in 1..Len(rest)
      BY <1>1, <2>1
    <3>2. CASE j = Len(rest) + 1
      BY <1>1, <1>4, <3>1, <3>2
    <3>3. CASE j \in 1..Len(rest)
      BY <1>1, <2>1, <3>1, <3>3 DEF SdkInOrder
    <3> QED
      BY <1>3, <3>2, <3>3
  <2>2. ASSUME NEW i \in 1..Len(Append(rest, m)) PROVE Append(rest, m)[i].n <= last + 1
    BY <1>1, <1>3, <1>4
  <2> QED
    BY <2>1, <2>2 DEF SdkInOrder
<1>6. ASSUME NEW queue \in Seq(Packet), QueueInOrder(queue, rest, last)
      PROVE  QueueInOrder(queue, Append(rest, m), last + 1)
  <2>1. \A i \in 1..Len(queue) : queue[i].n \in Nat /\ queue[i].n <= last
    BY <1>2, <1>6, ElementOfSeq DEF QueueInOrder
  <2>2. ASSUME NEW i \in 1..Len(queue), NEW j \in 1..Len(Append(rest, m))
        PROVE  queue[i].n < Append(rest, m)[j].n
    <3>1. CASE j = Len(rest) + 1
      BY <1>1, <2>1, <3>1
    <3>2. CASE j \in 1..Len(rest)
      BY <1>1, <1>6, <3>2 DEF QueueInOrder
    <3> QED
      BY <1>3, <3>1, <3>2
  <2>3. \A i \in 1..Len(queue) : queue[i].n <= last + 1
    BY <2>1
  <2> QED
    BY <1>6, <2>2, <2>3 DEF QueueInOrder
<1> QED
  BY <1>5, <1>6

LEMMA ArrivalOrderStep == TypeOK /\ QueuesMatchPeers /\ ArrivalOrder /\ [Next]_vars => ArrivalOrder'
<1> SUFFICES ASSUME TypeOK, QueuesMatchPeers, ArrivalOrder, [Next]_vars
             PROVE  ArrivalOrder'
  OBVIOUS
<1> DEFINE Q == socket_packet_queues
<1>0. /\ \A s \in DOMAIN Q : Q[s] \in Seq(Packet) /\ QueueInOrder(Q[s], received, arrivals)
      /\ received \in Seq(Packet) /\ arrivals \in Nat /\ SdkInOrder(received, arrivals)
  BY BoundAssumption DEF TypeOK, ArrivalOrder
<1>1. CASE UNCHANGED <<socket_packet_queues, received, arrivals>>
  BY <1>1 DEF ArrivalOrder
<1>2. ASSUME NEW s \in Socket, NEW u \in User, NEW e \in Event, NEW i \in PeerId, PacketArrives(s, u, e, i)
      PROVE  ArrivalOrder'
  <2> DEFINE m == [socket |-> s, sender |-> u, event |-> e, peer_id |-> i, n |-> arrivals + 1]
  <2>1. /\ m \in Packet /\ m.n = arrivals + 1
        /\ received' = Append(received, m) /\ arrivals' = arrivals + 1 /\ UNCHANGED Q
    BY <1>2, BoundAssumption DEF PacketArrives, Packet, TypeOK, registry
  <2> HIDE DEF m
  <2> QED
    BY <1>0, <2>1, ArrivalInOrder DEF ArrivalOrder
<1>3. CASE DropPacket
  BY <1>0, <1>3, TailInOrder DEF DropPacket, ArrivalOrder, registry
<1>4. CASE FilePacket
  <2> DEFINE s == Head(received).socket
  <2>1. /\ s \in DOMAIN Q /\ received # << >>
        /\ Q' = [Q EXCEPT ![s] = Filed(@, Head(received))]
        /\ received' = Tail(received) /\ UNCHANGED arrivals
    BY <1>4 DEF FilePacket
  <2> HIDE DEF s
  <2>2. QueueInOrder(Q'[s], received', arrivals')
    BY <1>0, <2>1, FiledInOrder
  <2>3. \A t \in DOMAIN Q \ {s} : QueueInOrder(Q'[t], received', arrivals')
    BY <1>0, <2>1, TailInOrder
  <2>4. SdkInOrder(received', arrivals')
    BY <1>0, <2>1, TailInOrder
  <2> QED
    BY <2>1, <2>2, <2>3, <2>4 DEF ArrivalOrder
<1>5. ASSUME NEW s \in Socket, PollNextPackets(s) PROVE ArrivalOrder'
  <2>1. PICK k \in 1..Len(Q[s]) : Q' = [Q EXCEPT ![s] = SubSeq(Q[s], k + 1, Len(Q[s]))]
    BY <1>5 DEF PollNextPackets
  <2>2. s \in DOMAIN Q /\ UNCHANGED <<received, arrivals>>
    BY <1>5 DEF PollNextPackets, network
  <2>3. QueueInOrder(Q'[s], received, arrivals)
    <3> DEFINE part == SubSeq(Q[s], k + 1, Len(Q[s]))
               place == [i \in 1..Len(part) |-> i + k]
    <3>1. /\ part \in Seq(Packet) /\ Len(part) = Len(Q[s]) - k
          /\ \A i \in 1..(Len(Q[s]) - k) : part[i] = Q[s][i + k]
      BY <1>0, <2>2, SuffixProperties
    <3>2. Len(Q[s]) \in Nat /\ k \in Nat
      BY <1>0, <2>2
    <3> HIDE DEF part
    <3>3. /\ place \in [1..Len(part) -> 1..Len(Q[s])]
          /\ \A i, j \in 1..Len(part) : i < j => place[i] < place[j]
          /\ \A i \in 1..Len(part) : part[i] = Q[s][place[i]]
      BY <3>1, <3>2
    <3> HIDE DEF place
    <3>4. QueueInOrder(part, received, arrivals)
      BY <1>0, <2>2, <3>1, <3>3, SubqueueInOrder
    <3> QED
      BY <2>1, <2>2, <3>4 DEF part
  <2> QED
    BY <1>0, <2>1, <2>2, <2>3 DEF ArrivalOrder
<1>6. ASSUME NEW p \in Peer, NEW s \in Socket, RegisterPeer(p, s) PROVE ArrivalOrder'
  <2>1. /\ \A t \in DOMAIN Q' : t = s \/ (t \in DOMAIN Q /\ Q'[t] = Q[t]) 
        /\ Q'[s] = << >> /\ UNCHANGED <<received, arrivals>>
    BY <1>6 DEF RegisterPeer, Insert, QueuesMatchPeers, network
  <2>2. QueueInOrder(<< >>, received, arrivals)
    BY DEF QueueInOrder, PeerIdFirst, OthersInOrder
  <2> QED
    BY <1>0, <2>1, <2>2 DEF ArrivalOrder
<1>7. ASSUME NEW s, Unregistered(s), UNCHANGED <<received, arrivals>> PROVE ArrivalOrder'
  BY <1>0, <1>7, UnregisteredRestricts DEF ArrivalOrder
<1>8. ASSUME NEW s \in DOMAIN active_peers, NEW u \in User, ClearedPacketsFromRemoteUser(s, u),
             UNCHANGED <<received, arrivals>>
      PROVE  ArrivalOrder'
  <2>1. s \in DOMAIN Q /\ Q' = [Q EXCEPT ![s] = Without(Q[s], u)]
    BY <1>8 DEF ClearedPacketsFromRemoteUser, QueuesMatchPeers
  <2>2. QueueInOrder(Without(Q[s], u), received, arrivals)
    <3> DEFINE part == Without(Q[s], u)
    <3>1. part \in Seq(Packet) /\ Q[s] \in Seq(Packet)
      BY <1>0, <2>1, WithoutKeepsOrder
    <3>2. PICK place \in [1..Len(part) -> 1..Len(Q[s])] :
             /\ \A j, k \in 1..Len(part) : j < k => place[j] < place[k]
             /\ \A k \in 1..Len(part) : part[k] = Q[s][place[k]]
      BY <3>1, WithoutKeepsOrder
    <3> HIDE DEF part
    <3>3. QueueInOrder(part, received, arrivals)
      BY <1>0, <2>1, <3>1, <3>2, SubqueueInOrder
    <3> QED
      BY <3>3 DEF part
  <2> QED
    BY <1>0, <1>8, <2>1, <2>2 DEF ArrivalOrder
<1>9. ASSUME NEW s \in Socket, UnregisterPeer(s) PROVE ArrivalOrder'
  BY <1>7, <1>9 DEF UnregisterPeer, network
<1>10. ASSUME NEW s \in Socket, NEW u \in User, OnRemoteConnectionClosed(s, u) PROVE ArrivalOrder'
  BY <1>1, <1>7, <1>8, <1>10 DEF OnRemoteConnectionClosed, network
<1>11. CASE Terminate
  <2>1. received' = received \/ received' = << >>
    BY <1>11 DEF Terminate
  <2>2. UNCHANGED <<socket_packet_queues, arrivals>>
    BY <1>11 DEF Terminate, registry
  <2>3. CASE received' = << >>
    <3>1. SdkInOrder(received', arrivals')
      BY <2>3 DEF SdkInOrder
    <3>2. \A s \in DOMAIN Q : QueueInOrder(Q[s], received', arrivals)
      BY <1>0, <2>3 DEF QueueInOrder
    <3> QED
      BY <2>2, <3>1, <3>2 DEF ArrivalOrder
  <2> QED
    BY <1>1, <2>1, <2>2, <2>3
<1>12. CASE OnProcessFrame \/ NoPacketLeft \/ Login
  BY <1>1, <1>12 DEF OnProcessFrame, NoPacketLeft, Login, registry, network
<1>13. ASSUME NEW s \in Socket, RegisterAndUnregisterPeer(s) PROVE ArrivalOrder'
  BY <1>1, <1>13 DEF RegisterAndUnregisterPeer, network
<1>14. ASSUME NEW s \in Socket, NEW u \in User, HoldConnectionRequest(s, u) PROVE ArrivalOrder'
  BY <1>1, <1>14 DEF HoldConnectionRequest, network
<1>15. ASSUME NEW limit \in QueueLimit, SetQueueSizeLimit(limit) PROVE ArrivalOrder'
  BY <1>1, <1>15 DEF SetQueueSizeLimit, registry, network
<1>16. CASE UNCHANGED vars
  BY <1>1, <1>16 DEF vars, registry, network
<1> QED
  BY <1>2, <1>3, <1>4, <1>5, <1>6, <1>9, <1>10, <1>11, <1>12, <1>13, <1>14, <1>15, <1>16
  DEF Next, ReceivePacket

LEMMA InitArrivalOrder == Init => ArrivalOrder
BY DEF Init, ArrivalOrder, SdkInOrder

LEMMA ArrivalOrderCorrect == Spec => []ArrivalOrder
<1>1. Init => ArrivalOrder
  BY InitArrivalOrder
<1> QED
  BY <1>1, ArrivalOrderStep, TypeCorrect, QueuesAlwaysMatchPeers, PTL DEF Spec

\* Whatever was filed, polled or cleared in between, no packet of another kind
\* stands before a peer id packet in its queue.
THEOREM PeerIdPacketsStayFirst == Spec => []PeerIdPacketsFirst
<1>1. ArrivalOrder => PeerIdPacketsFirst
  BY DEF ArrivalOrder, QueueInOrder, PeerIdFirst, PeerIdPacketsFirst
<1> QED
  BY <1>1, ArrivalOrderCorrect, PTL

\* All other packets of a socket are handed to its instance in the order in
\* which they reached the SDK.
THEOREM PacketsAreDeliveredInOrder == Spec => []DeliveredInOrder
<1>1. ArrivalOrder => DeliveredInOrder
  BY DEF ArrivalOrder, QueueInOrder, OthersInOrder, DeliveredInOrder
<1> QED
  BY <1>1, ArrivalOrderCorrect, PTL

----------------------------------------------------------------------------
\* The size of the queues

\* The inductive invariant: the total is a number, and a frame inside its loop
\* has room for the packet it is about to file.
RoomWhileReceiving ==
    /\ IsFiniteSet(Places(socket_packet_queues))
    /\ receiving => Room(socket_packet_queues)

LEMMA PlacesOfQueues ==
  ASSUME NEW queues, NEW s, NEW i
  PROVE  <<s, i>> \in Places(queues) <=> s \in DOMAIN queues /\ i \in 1..Len(queues[s])
BY DEF Places

\* Every place is a pair, so that places can be compared one by one.
LEMMA PlacesCompare ==
  ASSUME NEW P, NEW Q, \A s, i : <<s, i>> \in Places(P) => <<s, i>> \in Places(Q)
  PROVE  Places(P) \subseteq Places(Q)
<1> SUFFICES ASSUME NEW x \in Places(P) PROVE x \in Places(Q)
  OBVIOUS
<1>1. PICK s \in DOMAIN P : x \in {s} \X (1..Len(P[s]))
  BY DEF Places
<1>2. x = <<x[1], x[2]>>
  BY <1>1
<1> QED
  BY <1>2

\* Only FilePacket adds a place, and it adds one.
LEMMA PlacesStep ==
  ASSUME TypeOK, QueuesMatchPeers, [Next]_vars
  PROVE  \/ Places(socket_packet_queues') \subseteq Places(socket_packet_queues)
         \/ FilePacket /\ \E x : Places(socket_packet_queues') \subseteq Places(socket_packet_queues) \cup {x}
<1> DEFINE Q == socket_packet_queues
           Fewer == \A s, i : <<s, i>> \in Places(Q') => <<s, i>> \in Places(Q)
<1>0. \A s \in DOMAIN Q : Q[s] \in Seq(Packet) /\ Len(Q[s]) \in Nat
  BY DEF TypeOK
<1>1. SUFFICES Fewer \/ (FilePacket /\ \E x : Places(Q') \subseteq Places(Q) \cup {x})
  BY PlacesCompare
<1>2. CASE UNCHANGED Q
  BY <1>2 DEF Places
<1>3. CASE FilePacket
  <2> DEFINE m == Head(received)
             s == m.socket
             x == <<s, Len(Q[s]) + 1>>
  <2>1. s \in DOMAIN Q /\ Q' = [Q EXCEPT ![s] = Filed(@, m)] /\ m \in Packet
    BY <1>3, HeadTailProperties DEF FilePacket, TypeOK
  <2> HIDE DEF m, s
  <2>2. Len(Q'[s]) = Len(Q[s]) + 1 /\ DOMAIN Q' = DOMAIN Q
    BY <1>0, <2>1, FiledProperties
  <2>3. ASSUME NEW y \in Places(Q') PROVE y \in Places(Q) \cup {x}
    <3>1. PICK t \in DOMAIN Q' : y \in {t} \X (1..Len(Q'[t]))
      BY <2>3 DEF Places
    <3>2. y = <<t, y[2]>> /\ y[2] \in 1..Len(Q'[t])
      BY <3>1
    <3>3. CASE t = s
      <4>1. y[2] \in 1..Len(Q[s]) \/ y[2] = Len(Q[s]) + 1
        BY <1>0, <2>1, <2>2, <3>2, <3>3
      <4> QED
        BY <2>1, <3>2, <3>3, <4>1, PlacesOfQueues
    <3>4. CASE t # s
      <4>1. t \in DOMAIN Q /\ Q'[t] = Q[t]
        BY <2>1, <2>2, <3>4
      <4> QED
        BY <3>2, <4>1, PlacesOfQueues
    <3> QED
      BY <3>3, <3>4
  <2> QED
    BY <1>3, <2>3
<1>4. ASSUME NEW s \in Socket, PollNextPackets(s) PROVE Fewer
  <2>1. PICK k \in 1..Len(Q[s]) : Q' = [Q EXCEPT ![s] = SubSeq(Q[s], k + 1, Len(Q[s]))]
    BY <1>4 DEF PollNextPackets
  <2>2. s \in DOMAIN Q
    BY <1>4 DEF PollNextPackets
  <2>3. Len(Q'[s]) = Len(Q[s]) - k /\ DOMAIN Q' = DOMAIN Q
    BY <1>0, <2>1, <2>2, SuffixProperties
  <2>4. ASSUME NEW t \in DOMAIN Q, NEW i \in 1..Len(Q'[t]) PROVE i \in 1..Len(Q[t])
    BY <1>0, <2>1, <2>2, <2>3
  <2> QED
    BY <2>3, <2>4, PlacesOfQueues
<1>5. ASSUME NEW p \in Peer, NEW s \in Socket, RegisterPeer(p, s) PROVE Fewer
  <2>1. \A t \in DOMAIN Q' : Q'[t] = << >> \/ (t \in DOMAIN Q /\ Q'[t] = Q[t])
    BY <1>5 DEF RegisterPeer, Insert
  <2>2. 1..Len(<< >>) = {}
    OBVIOUS
  <2> QED
    BY <2>1, <2>2, PlacesOfQueues
<1>6. ASSUME NEW s, Unregistered(s) PROVE Fewer
  BY <1>6, UnregisteredRestricts, PlacesOfQueues
<1>7. ASSUME NEW s \in DOMAIN active_peers, NEW u \in User, ClearedPacketsFromRemoteUser(s, u) PROVE Fewer
  <2>1. s \in DOMAIN Q /\ Q' = [Q EXCEPT ![s] = Without(Q[s], u)]
    BY <1>7 DEF ClearedPacketsFromRemoteUser, QueuesMatchPeers
  <2>2. Len(Q'[s]) \in Nat /\ Len(Q'[s]) <= Len(Q[s]) /\ DOMAIN Q' = DOMAIN Q
    BY <1>0, <2>1, WithoutKeepsOrder
  <2>3. ASSUME NEW t \in DOMAIN Q, NEW i \in 1..Len(Q'[t]) PROVE i \in 1..Len(Q[t])
    BY <1>0, <2>1, <2>2
  <2> QED
    BY <2>2, <2>3, PlacesOfQueues
<1>8. ASSUME NEW s \in Socket, NEW u \in User, OnRemoteConnectionClosed(s, u) PROVE Fewer
  BY <1>2, <1>6, <1>7, <1>8 DEF OnRemoteConnectionClosed
<1>9. ASSUME NEW s \in Socket, UnregisterPeer(s) PROVE Fewer
  BY <1>6, <1>9 DEF UnregisterPeer
<1>10. ASSUME NEW s \in Socket, NEW u \in User, NEW e \in Event, NEW i \in PeerId, PacketArrives(s, u, e, i)
       PROVE  Fewer
  BY <1>2, <1>10 DEF PacketArrives, registry
<1>11. CASE OnProcessFrame \/ NoPacketLeft \/ DropPacket \/ Login \/ Terminate
  BY <1>2, <1>11 DEF OnProcessFrame, NoPacketLeft, DropPacket, Login, Terminate, registry
<1>12. ASSUME NEW s \in Socket, RegisterAndUnregisterPeer(s) PROVE Fewer
  BY <1>2, <1>12 DEF RegisterAndUnregisterPeer
<1>13. ASSUME NEW s \in Socket, NEW u \in User, HoldConnectionRequest(s, u) PROVE Fewer
  BY <1>2, <1>13 DEF HoldConnectionRequest
<1>14. ASSUME NEW limit \in QueueLimit, SetQueueSizeLimit(limit) PROVE Fewer
  BY <1>2, <1>14 DEF SetQueueSizeLimit, registry
<1>15. CASE UNCHANGED vars
  BY <1>2, <1>15 DEF vars, registry
<1> HIDE DEF Fewer
<1> QED
  BY <1>3, <1>4, <1>5, <1>8, <1>9, <1>10, <1>11, <1>12, <1>13, <1>14, <1>15 DEF Next, ReceivePacket

LEMMA RoomStep == TypeOK /\ QueuesMatchPeers /\ RoomWhileReceiving /\ [Next]_vars => RoomWhileReceiving'
<1> SUFFICES ASSUME TypeOK, QueuesMatchPeers, RoomWhileReceiving, [Next]_vars
             PROVE  RoomWhileReceiving'
  OBVIOUS
<1>1. IsFiniteSet(Places(socket_packet_queues'))
  <2>1. CASE Places(socket_packet_queues') \subseteq Places(socket_packet_queues)
    BY <2>1, FS_Subset DEF RoomWhileReceiving
  <2>2. ASSUME NEW x, Places(socket_packet_queues') \subseteq Places(socket_packet_queues) \cup {x}
        PROVE  IsFiniteSet(Places(socket_packet_queues'))
    <3>1. IsFiniteSet(Places(socket_packet_queues) \cup {x})
      BY FS_AddElement DEF RoomWhileReceiving
    <3> QED
      BY <2>2, <3>1, FS_Subset
  <2> QED
    BY <2>1, <2>2, PlacesStep
<1>2. ASSUME receiving' PROVE Room(socket_packet_queues)'
  <2>1. CASE OnProcessFrame
    BY <2>1 DEF OnProcessFrame, Room, registry
  <2>2. CASE FilePacket
    BY <1>2, <2>2 DEF FilePacket, Room
  <2>3. CASE UNCHANGED vars
    BY <1>2, <2>3 DEF RoomWhileReceiving, Room, vars, registry
  <2>4. CASE ~receiving /\ UNCHANGED receiving
    BY <1>2, <2>4
  <2>5. CASE NoPacketLeft \/ DropPacket
    BY <1>2, <2>5 DEF NoPacketLeft, DropPacket
  <2>6. OnProcessFrame \/ FilePacket \/ UNCHANGED vars \/ (~receiving /\ UNCHANGED receiving) \/ NoPacketLeft \/ DropPacket
    BY DEF Next, ReceivePacket, PacketArrives, PollNextPackets, RegisterPeer, RegisterAndUnregisterPeer,
           UnregisterPeer, HoldConnectionRequest, OnRemoteConnectionClosed, Login, Terminate, SetQueueSizeLimit
  <2> QED
    BY <2>1, <2>2, <2>3, <2>4, <2>5, <2>6
<1> QED
  BY <1>1, <1>2 DEF RoomWhileReceiving

LEMMA RoomCorrect == Spec => []RoomWhileReceiving
<1>1. Init => RoomWhileReceiving
  <2> SUFFICES ASSUME Init PROVE RoomWhileReceiving
    OBVIOUS
  <2>1. DOMAIN socket_packet_queues = {}
    BY DEF Init
  <2>2. Places(socket_packet_queues) = {}
    BY <2>1 DEF Places
  <2> QED
    BY <2>2, FS_EmptySet DEF Init, RoomWhileReceiving
<1> QED
  BY <1>1, RoomStep, TypeCorrect, QueuesAlwaysMatchPeers, PTL DEF Spec

LEMMA BoundStep ==
  ASSUME TypeOK, QueuesMatchPeers, RoomWhileReceiving, [Next]_vars,
         TotalPacketCount(socket_packet_queues') > TotalPacketCount(socket_packet_queues)
  PROVE  TotalPacketCount(socket_packet_queues') <= max_queue_size
<1> DEFINE old == Places(socket_packet_queues)
           new == Places(socket_packet_queues')
<1>1. IsFiniteSet(old) /\ Cardinality(old) \in Nat /\ max_queue_size \in Nat
  BY FS_CardinalityType DEF RoomWhileReceiving, TypeOK
<1>2. Cardinality(new) > Cardinality(old)
  BY DEF TotalPacketCount
<1> HIDE DEF old, new
<1>3. ~ (new \subseteq old)
  <2>1. SUFFICES ASSUME new \subseteq old PROVE FALSE
    OBVIOUS
  <2>2. IsFiniteSet(new) /\ Cardinality(new) <= Cardinality(old)
    BY <1>1, <2>1, FS_Subset
  <2>3. Cardinality(new) \in Nat
    BY <2>2, FS_CardinalityType
  <2> QED
    BY <1>1, <1>2, <2>2, <2>3
<1>4. FilePacket /\ \E x : new \subseteq old \cup {x}
  BY <1>3, PlacesStep DEF old, new
<1>5. PICK x : new \subseteq old \cup {x}
  BY <1>4
<1>6. Cardinality(old) < max_queue_size
  BY <1>4 DEF FilePacket, RoomWhileReceiving, Room, TotalPacketCount, old
<1>7. IsFiniteSet(old \cup {x}) /\ Cardinality(old \cup {x}) <= Cardinality(old) + 1
  BY <1>1, FS_AddElement
<1>8. Cardinality(new) <= Cardinality(old \cup {x}) /\ Cardinality(new) \in Nat /\ Cardinality(old \cup {x}) \in Nat
  BY <1>5, <1>7, FS_Subset, FS_CardinalityType
<1> QED
  BY <1>1, <1>6, <1>7, <1>8 DEF TotalPacketCount, new

\* The queues only grow while their total is within the limit, even after the
\* application lowered the limit below what is already queued.
THEOREM QueuesStayBounded == Spec => QueuesBounded
<1>1. TypeOK /\ QueuesMatchPeers /\ RoomWhileReceiving /\ [Next]_vars
        => [ TotalPacketCount(socket_packet_queues') > TotalPacketCount(socket_packet_queues)
               => TotalPacketCount(socket_packet_queues') <= max_queue_size ]_vars
  BY BoundStep
<1> QED
  BY <1>1, TypeCorrect, QueuesAlwaysMatchPeers, RoomCorrect, PTL DEF Spec, QueuesBounded

----------------------------------------------------------------------------
\* Packets that leave the SDK

LEMMA FiledStep ==
  ASSUME TypeOK, [Next]_vars, initialized',
         NEW i \in 1..Len(received), received[i].socket \in DOMAIN socket_packet_queues,
         \A j \in 1..Len(received') : received'[j].n # received[i].n
  PROVE  \E k \in 1..Len(socket_packet_queues'[received[i].socket]) :
            socket_packet_queues'[received[i].socket][k] = received[i]
<1>1. received \in Seq(Packet) /\ received # << >> /\ i \in Nat /\ Len(received) \in Nat
  BY DEF TypeOK
<1>2. CASE UNCHANGED received
  BY <1>2
<1>3. ASSUME received' = Tail(received) PROVE received[i] = Head(received)
  <2>1. SUFFICES ASSUME i # 1 PROVE FALSE
    BY <1>1
  <2>2. /\ i - 1 \in 1..Len(Tail(received)) /\ (i - 1) + 1 = i
        /\ Tail(received)[i - 1] = received[(i - 1) + 1]
    BY <1>1, <2>1, HeadTailProperties
  <2> QED
    BY <1>3, <2>2
<1>4. CASE DropPacket
  BY <1>3, <1>4 DEF DropPacket
<1>5. CASE FilePacket
  <2> DEFINE m == Head(received)
             queue == socket_packet_queues[m.socket]
  <2>1. /\ m = received[i] /\ m \in Packet /\ m.socket \in DOMAIN socket_packet_queues
        /\ socket_packet_queues' = [socket_packet_queues EXCEPT ![m.socket] = Filed(@, m)]
    BY <1>1, <1>3, <1>5, HeadTailProperties DEF FilePacket
  <2>2. queue \in Seq(Packet) /\ socket_packet_queues'[m.socket] = Filed(queue, m)
    BY <2>1 DEF TypeOK
  <2> HIDE DEF m, queue
  <2>3. /\ Len(queue) \in Nat /\ Len(Filed(queue, m)) = Len(queue) + 1
        /\ (Filed(queue, m)[1] = m \/ Filed(queue, m)[Len(queue) + 1] = m)
    <3>1. Len(queue) \in Nat /\ m \in Packet
      BY <2>1, <2>2
    <3>2. Len(Filed(queue, m)) = Len(queue) + 1
      BY <2>2, <3>1, FiledProperties
    <3>3. IsPeerIdPacket(m) => Filed(queue, m)[1] = m
      BY <2>2, <3>1, FiledProperties
    <3>4. ~IsPeerIdPacket(m) => Filed(queue, m)[Len(queue) + 1] = m
      BY <2>2, <3>1, FiledProperties
    <3> QED
      BY <3>1, <3>2, <3>3, <3>4
  <2>4. \E k \in 1..Len(Filed(queue, m)) : Filed(queue, m)[k] = m
    BY <2>3
  <2> QED
    BY <2>1, <2>2, <2>4
<1>6. ASSUME NEW s \in Socket, NEW u \in User, NEW e \in Event, NEW p \in PeerId, PacketArrives(s, u, e, p)
      PROVE  FALSE
  <2> DEFINE m == [socket |-> s, sender |-> u, event |-> e, peer_id |-> p, n |-> arrivals + 1]
  <2>1. m \in Packet /\ received' = Append(received, m)
    BY <1>6, BoundAssumption DEF PacketArrives, Packet, TypeOK
  <2> HIDE DEF m
  <2>2. i \in 1..Len(received') /\ received'[i] = received[i]
    BY <1>1, <2>1, AppendProperties
  <2> QED
    BY <2>2
<1>7. CASE Terminate
  BY <1>7 DEF Terminate
<1>8. UNCHANGED received \/ DropPacket \/ FilePacket \/ Terminate
      \/ \E s \in Socket, u \in User, e \in Event, p \in PeerId : PacketArrives(s, u, e, p)
  BY DEF Next, ReceivePacket, OnProcessFrame, NoPacketLeft, PollNextPackets, RegisterPeer, RegisterAndUnregisterPeer,
         UnregisterPeer, HoldConnectionRequest, OnRemoteConnectionClosed, Login, SetQueueSizeLimit, vars, network
<1> QED
  BY <1>2, <1>4, <1>5, <1>6, <1>7, <1>8

\* A packet of a registered socket leaves the SDK only into the queue of that
\* socket, whatever ends the frame: while the user stays logged in, no frame
\* drops it.
THEOREM RegisteredPacketsAreAlwaysFiled == Spec => RegisteredPacketsAreFiled
<1>1. TypeOK /\ [Next]_vars
        => [ \A i \in 1..Len(received) :
                /\ received[i].socket \in DOMAIN socket_packet_queues
                /\ \A j \in 1..Len(received') : received'[j].n # received[i].n
                /\ initialized'
                => \E k \in 1..Len(socket_packet_queues'[received[i].socket]) :
                      socket_packet_queues'[received[i].socket][k] = received[i] ]_vars
  BY FiledStep
<1> QED
  BY <1>1, TypeCorrect, PTL DEF Spec, RegisteredPacketsAreFiled

----------------------------------------------------------------------------
\* Where packets come from

\* A step files nothing but the first of the packets received.
LEMMA QueueSources ==
  TypeOK /\ QueuesMatchPeers /\ [Next]_vars =>
    \A s \in DOMAIN socket_packet_queues' : \A i \in 1..Len(socket_packet_queues'[s]) :
       \/ /\ s \in DOMAIN socket_packet_queues
          /\ \E j \in 1..Len(socket_packet_queues[s]) : socket_packet_queues'[s][i] = socket_packet_queues[s][j]
       \/ received # << >> /\ socket_packet_queues'[s][i] = Head(received)
<1> DEFINE Q == socket_packet_queues
           Known == \A s \in DOMAIN Q' : \A i \in 1..Len(Q'[s]) :
                       \/ s \in DOMAIN Q /\ \E j \in 1..Len(Q[s]) : Q'[s][i] = Q[s][j]
                       \/ received # << >> /\ Q'[s][i] = Head(received)
<1> SUFFICES ASSUME TypeOK, QueuesMatchPeers, [Next]_vars PROVE Known
  OBVIOUS
<1>0. \A s \in DOMAIN Q : Q[s] \in Seq(Packet) /\ Len(Q[s]) \in Nat
  BY DEF TypeOK
<1>1. ASSUME \A s \in DOMAIN Q' : Q'[s] = << >> \/ (s \in DOMAIN Q /\ Q'[s] = Q[s]) PROVE Known
  <2>1. 1..Len(<< >>) = {}
    OBVIOUS
  <2> QED
    BY <1>1, <2>1
<1>2. CASE UNCHANGED Q
  BY <1>1, <1>2
\* One queue is replaced by another.
<1>3. ASSUME NEW s \in DOMAIN Q, NEW q, Q' = [Q EXCEPT ![s] = q],
             \A i \in 1..Len(q) : \/ \E j \in 1..Len(Q[s]) : q[i] = Q[s][j]
                                  \/ received # << >> /\ q[i] = Head(received)
      PROVE  Known
  <2>1. DOMAIN Q' = DOMAIN Q /\ Q'[s] = q /\ \A t \in DOMAIN Q \ {s} : Q'[t] = Q[t]
    BY <1>3
  <2> QED
    BY <1>3, <2>1
<1>4. CASE FilePacket
  <2>1. PICK m \in Packet : m = Head(received) /\ received # << >>
    BY <1>4, HeadTailProperties DEF FilePacket, TypeOK
  <2>2. m.socket \in DOMAIN Q /\ Q' = [Q EXCEPT ![m.socket] = Filed(Q[m.socket], m)]
    BY <1>4, <2>1 DEF FilePacket
  <2> DEFINE old == Q[m.socket]
             new == Filed(old, m)
  <2>3. /\ Len(old) \in Nat /\ Len(new) = Len(old) + 1
        /\ IsPeerIdPacket(m) => new[1] = m /\ \A i \in 1..Len(old) : new[i + 1] = old[i]
        /\ ~IsPeerIdPacket(m) => new[Len(old) + 1] = m /\ \A i \in 1..Len(old) : new[i] = old[i]
    BY <1>0, <2>2, FiledProperties
  <2> HIDE DEF new, old
  <2>4. \A i \in 1..Len(new) : new[i] = m \/ \E j \in 1..Len(old) : new[i] = old[j]
    <3> TAKE i \in 1..Len(new)
    <3>1. CASE IsPeerIdPacket(m)
      <4>1. i = 1 \/ (i - 1 \in 1..Len(old) /\ (i - 1) + 1 = i)
        BY <2>3
      <4> QED
        BY <2>3, <3>1, <4>1
    <3>2. CASE ~IsPeerIdPacket(m)
      <4>1. i = Len(old) + 1 \/ i \in 1..Len(old)
        BY <2>3
      <4> QED
        BY <2>3, <3>2, <4>1
    <3> QED
      BY <3>1, <3>2
  <2> QED
    BY <1>3, <2>1, <2>2, <2>4 DEF new, old
<1>5. ASSUME NEW s \in Socket, PollNextPackets(s) PROVE Known
  <2>1. PICK k \in 1..Len(Q[s]) : Q' = [Q EXCEPT ![s] = SubSeq(Q[s], k + 1, Len(Q[s]))]
    BY <1>5 DEF PollNextPackets
  <2>2. s \in DOMAIN Q
    BY <1>5 DEF PollNextPackets
  <2> DEFINE rest == SubSeq(Q[s], k + 1, Len(Q[s]))
  <2>3. /\ Len(Q[s]) \in Nat /\ k \in Nat /\ Len(rest) = Len(Q[s]) - k
        /\ \A i \in 1..(Len(Q[s]) - k) : rest[i] = Q[s][i + k]
    BY <1>0, <2>2, SuffixProperties
  <2> HIDE DEF rest
  <2>4. ASSUME NEW i \in 1..Len(rest) PROVE \E j \in 1..Len(Q[s]) : rest[i] = Q[s][j]
    <3>1. i + k \in 1..Len(Q[s])
      BY <2>3
    <3> QED
      BY <2>3, <3>1
  <2> QED
    BY <1>3, <2>1, <2>2, <2>4 DEF rest
<1>6. ASSUME NEW p \in Peer, NEW s \in Socket, RegisterPeer(p, s) PROVE Known
  <2>1. \A t \in DOMAIN Q' : Q'[t] = << >> \/ (t \in DOMAIN Q /\ Q'[t] = Q[t])
    BY <1>6 DEF RegisterPeer, Insert
  <2> QED
    BY <1>1, <2>1
<1>7. ASSUME NEW s, Unregistered(s) PROVE Known
  <2>1. \A t \in DOMAIN Q' : t \in DOMAIN Q /\ Q'[t] = Q[t]
    BY <1>7, UnregisteredRestricts
  <2> QED
    BY <1>1, <2>1
<1>8. ASSUME NEW s \in DOMAIN active_peers, NEW u \in User, ClearedPacketsFromRemoteUser(s, u) PROVE Known
  <2>1. s \in DOMAIN Q /\ Q' = [Q EXCEPT ![s] = Without(Q[s], u)]
    BY <1>8 DEF ClearedPacketsFromRemoteUser, QueuesMatchPeers
  <2>2. PICK place \in [1..Len(Without(Q[s], u)) -> 1..Len(Q[s])] :
           \A k \in 1..Len(Without(Q[s], u)) : Without(Q[s], u)[k] = Q[s][place[k]]
    BY <1>0, <2>1, WithoutKeepsOrder
  <2> QED
    BY <1>3, <2>1, <2>2
<1>9. ASSUME NEW s \in Socket, NEW u \in User, OnRemoteConnectionClosed(s, u) PROVE Known
  BY <1>2, <1>7, <1>8, <1>9 DEF OnRemoteConnectionClosed
<1>10. ASSUME NEW s \in Socket, UnregisterPeer(s) PROVE Known
  BY <1>7, <1>10 DEF UnregisterPeer
<1>11. ASSUME NEW s \in Socket, NEW u \in User, NEW e \in Event, NEW i \in PeerId, PacketArrives(s, u, e, i)
       PROVE  Known
  BY <1>2, <1>11 DEF PacketArrives, registry
<1>12. CASE OnProcessFrame \/ NoPacketLeft \/ DropPacket \/ Login \/ Terminate
  BY <1>2, <1>12 DEF OnProcessFrame, NoPacketLeft, DropPacket, Login, Terminate, registry
<1>13. ASSUME NEW s \in Socket, NEW u \in User, HoldConnectionRequest(s, u) PROVE Known
  BY <1>2, <1>13 DEF HoldConnectionRequest
<1>14. ASSUME NEW s \in Socket, RegisterAndUnregisterPeer(s) PROVE Known
  BY <1>2, <1>14 DEF RegisterAndUnregisterPeer
<1>15. ASSUME NEW limit \in QueueLimit, SetQueueSizeLimit(limit) PROVE Known
  BY <1>2, <1>15 DEF SetQueueSizeLimit, registry
<1>16. CASE UNCHANGED vars
  BY <1>2, <1>16 DEF vars, registry
<1> HIDE DEF Known
<1> QED
  BY <1>4, <1>5, <1>6, <1>9, <1>10, <1>11, <1>12, <1>13, <1>14, <1>15, <1>16 DEF Next, ReceivePacket

\* What the SDK has after a step it had before, but for one new arrival.
LEMMA ReceivedSources ==
  TypeOK /\ [Next]_vars =>
    /\ arrivals' \in Nat /\ arrivals <= arrivals'
    /\ \A i \in 1..Len(received') :
          received'[i].n = arrivals + 1 \/ \E j \in 1..Len(received) : received'[i] = received[j]
<1> SUFFICES ASSUME TypeOK, [Next]_vars
             PROVE  /\ arrivals' \in Nat /\ arrivals <= arrivals'
                    /\ \A i \in 1..Len(received') :
                          received'[i].n = arrivals + 1 \/ \E j \in 1..Len(received) : received'[i] = received[j]
  OBVIOUS
<1>1. received \in Seq(Packet) /\ Len(received) \in Nat /\ arrivals \in Nat
  BY BoundAssumption DEF TypeOK
<1>2. ASSUME NEW s, NEW u, NEW e, NEW i, PacketArrives(s, u, e, i)
      PROVE  /\ arrivals' = arrivals + 1
             /\ \A k \in 1..Len(received') :
                   received'[k].n = arrivals + 1 \/ \E j \in 1..Len(received) : received'[k] = received[j]
  <2> DEFINE m == [socket |-> s, sender |-> u, event |-> e, peer_id |-> i, n |-> arrivals + 1]
  <2>1. arrivals' = arrivals + 1 /\ received' = Append(received, m) /\ m.n = arrivals + 1
    BY <1>2 DEF PacketArrives
  <2> HIDE DEF m
  <2>2. /\ Len(received') = Len(received) + 1 /\ received'[Len(received) + 1] = m
        /\ \A k \in 1..Len(received) : received'[k] = received[k]
    BY <1>1, <2>1
  <2>3. \A k \in 1..Len(received') : k = Len(received) + 1 \/ k \in 1..Len(received)
    BY <1>1, <2>2
  <2> QED
    BY <2>1, <2>2, <2>3
<1>3. ASSUME received # << >>, received' = Tail(received)
      PROVE  \A k \in 1..Len(received') : \E j \in 1..Len(received) : received'[k] = received[j]
  <2>1. /\ Len(received') = Len(received) - 1
        /\ \A k \in 1..Len(received') : received'[k] = received[k + 1]
    BY <1>1, <1>3, HeadTailProperties
  <2>2. \A k \in 1..Len(received') : k + 1 \in 1..Len(received)
    BY <1>1, <2>1
  <2> QED
    BY <2>1, <2>2
<1>4. \/ \E s \in Socket, u \in User, e \in Event, i \in PeerId : PacketArrives(s, u, e, i)
      \/ arrivals' = arrivals /\ received # << >> /\ received' = Tail(received)
      \/ arrivals' = arrivals /\ received' \in {received, << >>}
  BY DEF Next, ReceivePacket, OnProcessFrame, NoPacketLeft, DropPacket, FilePacket, PollNextPackets, RegisterPeer,
         RegisterAndUnregisterPeer, UnregisterPeer, HoldConnectionRequest, OnRemoteConnectionClosed, Login,
         Terminate, SetQueueSizeLimit, network, vars
<1>5. 1..Len(<< >>) = {}
  OBVIOUS
<1> QED
  BY <1>1, <1>2, <1>3, <1>4, <1>5

----------------------------------------------------------------------------
\* The mediator implements EOSMailboxes: a step of it is a step of the
\* mailboxes or changes none of them.

\* The mailboxes and the waiting users, of the mediator's variables.
MailOf(queues) == [s \in Socket |-> IF s \in DOMAIN queues THEN Range(queues[s]) ELSE {}]
WaitingOf(requests) == [s \in Socket |-> {u \in User : requests[s][u] > 0}]

MailboxInv == TypeOK /\ QueuesMatchPeers /\ ArrivalOrder

----------------------------------------------------------------------------
\* Sequences as sets

\* What is in a queue without a user's packets: all the others.
LEMMA RangeWithout ==
  ASSUME NEW queue \in Seq(Packet), NEW u
  PROVE  Range(Without(queue, u)) = {m \in Range(queue) : m.sender # u}
<1> DEFINE I == {i \in 1..Len(queue) : queue[i].sender # u}
           kept == InOrder(I)
<1>1. Len(queue) \in Nat /\ I \in SUBSET (1..Len(queue))
  OBVIOUS
<1>2. Enumerates(kept, I)
  <2> HIDE DEF I
  <2> QED
    BY <1>1, InOrderEnumerates
<1>3. IsFiniteSet(I) /\ Cardinality(I) \in Nat
  <2>1. IsFiniteSet(1..Len(queue))
    BY <1>1, FS_Interval
  <2> HIDE DEF I
  <2> QED
    BY <1>1, <2>1, FS_Subset, FS_CardinalityType
<1> DEFINE N == 1..Cardinality(I)
<1>4. IsFiniteSet(N) /\ Cardinality(N) = Cardinality(I)
  <2> HIDE DEF I
  <2> QED
    BY <1>3, FS_Interval
<1>5. kept \in Injection(N, I)
  <2>1. kept \in [N -> I] /\ \A j, k \in N : j < k => kept[j] < kept[k]
    BY <1>2 DEF Enumerates
  <2>2. \A j \in N : kept[j] \in Nat
    BY <2>1
  <2> HIDE DEF I, kept
  <2>3. ASSUME NEW j \in N, NEW k \in N, kept[j] = kept[k] PROVE j = k
    <3>1. j \in Nat /\ k \in Nat /\ kept[j] \in Nat /\ kept[k] \in Nat
      BY <1>3, <2>2
    <3>2. ~ (kept[j] < kept[k]) /\ ~ (kept[k] < kept[j])
      BY <2>3, <3>1
    <3>3. ~ (j < k) /\ ~ (k < j)
      BY <2>1, <3>2
    <3> QED
      BY <3>1, <3>3
  <2> HIDE DEF N
  <2>4. IsInjective(kept)
    BY <2>1, <2>3 DEF IsInjective
  <2> QED
    BY <2>1, <2>4 DEF Injection
<1>6. kept \in Surjection(N, I)
  <2> HIDE DEF kept, I, N
  <2> QED
    BY <1>3, <1>4, <1>5, FS_Injection
<1>7. Without(queue, u) = [k \in N |-> queue[kept[k]]]
  BY <1>2 DEF Without, Enumerates
<1>8. kept \in [N -> I] /\ \A i \in I : \E k \in N : kept[k] = i
  BY <1>6 DEF Surjection
<1> HIDE DEF kept, N
<1>9. Range(Without(queue, u)) = {queue[i] : i \in I}
  BY <1>7, <1>8 DEF Range
<1> QED
  BY <1>9 DEF Range

\* Filing adds one packet.
LEMMA RangeFiled ==
  ASSUME NEW queue \in Seq(Packet), NEW m \in Packet
  PROVE  Range(Filed(queue, m)) = Range(queue) \cup {m}
<1> DEFINE filed == Filed(queue, m)
<1>1. /\ Len(queue) \in Nat /\ filed \in Seq(Packet) /\ Len(filed) = Len(queue) + 1
      /\ DOMAIN queue = 1..Len(queue) /\ DOMAIN filed = 1..Len(filed)
  BY FiledProperties
<1>2. CASE IsPeerIdPacket(m)
  <2>1. filed[1] = m /\ \A i \in 1..Len(queue) : filed[i + 1] = queue[i]
    BY <1>2, FiledProperties
  <2> HIDE DEF filed
  <2>2. \A j \in 1..Len(filed) : j = 1 \/ (j - 1 \in 1..Len(queue) /\ filed[j] = queue[j - 1])
    BY <1>1, <2>1
  <2>3. \A i \in 1..Len(queue) : i + 1 \in 1..Len(filed)
    BY <1>1
  <2>4. 1 \in 1..Len(filed)
    BY <1>1
  <2> QED
    BY <1>1, <2>1, <2>2, <2>3, <2>4 DEF Range, filed
<1>3. CASE ~IsPeerIdPacket(m)
  <2>1. filed[Len(queue) + 1] = m /\ \A i \in 1..Len(queue) : filed[i] = queue[i]
    BY <1>3, FiledProperties
  <2> HIDE DEF filed
  <2>2. \A j \in 1..Len(filed) : j = Len(queue) + 1 \/ j \in 1..Len(queue)
    BY <1>1
  <2>3. Len(queue) + 1 \in 1..Len(filed) /\ \A i \in 1..Len(queue) : i \in 1..Len(filed)
    BY <1>1
  <2> QED
    BY <1>1, <2>1, <2>2, <2>3 DEF Range, filed
<1> QED
  BY <1>2, <1>3

\* The first of the packets in the SDK is the oldest, and leaves the others.
LEMMA RangeTail ==
  ASSUME MailboxInv, received # << >>
  PROVE  /\ Head(received) \in Packet /\ Head(received) \in Range(received)
         /\ \A k \in Range(received) : Head(received).n <= k.n
         /\ Range(Tail(received)) = Range(received) \ {Head(received)}
<1>1. /\ received \in Seq(Packet) /\ Len(received) \in Nat /\ Len(received) > 0
      /\ DOMAIN received = 1..Len(received) /\ SdkInOrder(received, arrivals)
  BY DEF MailboxInv, TypeOK, ArrivalOrder
<1>2. /\ Head(received) = received[1] /\ Tail(received) \in Seq(Packet)
      /\ Len(Tail(received)) = Len(received) - 1
      /\ \A i \in 1..Len(Tail(received)) : Tail(received)[i] = received[i + 1]
  BY <1>1, HeadTailProperties
<1>3. \A i \in 1..Len(received) : received[i] \in Packet /\ received[i].n \in Nat
  <2>1. \A e \in Packet : e.n \in Nat
    BY BoundAssumption DEF Packet
  <2>2. \A i \in 1..Len(received) : received[i] \in Packet
    BY <1>1, ElementOfSeq
  <2> QED
    BY <2>1, <2>2
<1>4. 1 \in 1..Len(received) /\ \A i \in 1..Len(received) : i # 1 => received[1].n < received[i].n
  BY <1>1 DEF SdkInOrder
<1>5. DOMAIN Tail(received) = 1..Len(Tail(received))
  BY <1>2
<1>6. \A i \in 1..Len(Tail(received)) : i + 1 \in 1..Len(received) /\ i + 1 # 1
  BY <1>1, <1>2
<1>7. \A i \in 1..Len(received) : i # 1 => i - 1 \in 1..Len(Tail(received)) /\ (i - 1) + 1 = i
  BY <1>1, <1>2
<1>8. \A k \in Range(received) : Head(received).n <= k.n
  BY <1>1, <1>2, <1>3, <1>4 DEF Range
<1>9. Range(Tail(received)) = Range(received) \ {Head(received)}
  <2>1. ASSUME NEW k \in Range(Tail(received)) PROVE k \in Range(received) /\ k # Head(received)
    <3>1. PICK i \in 1..Len(Tail(received)) : k = received[i + 1]
      BY <1>2, <1>5 DEF Range
    <3>2. i + 1 \in 1..Len(received) /\ received[1].n < received[i + 1].n
      BY <1>4, <1>6
    <3> QED
      BY <1>1, <1>2, <1>3, <1>4, <3>1, <3>2 DEF Range
  <2>2. ASSUME NEW k \in Range(received), k # Head(received) PROVE k \in Range(Tail(received))
    <3>1. PICK i \in 1..Len(received) : k = received[i]
      BY <1>1 DEF Range
    <3>2. i # 1
      BY <1>2, <2>2, <3>1
    <3>3. i - 1 \in DOMAIN Tail(received) /\ Tail(received)[i - 1] = k
      <4>1. i - 1 \in 1..Len(Tail(received)) /\ (i - 1) + 1 = i
        BY <1>7, <3>2
      <4>2. Tail(received)[i - 1] = received[(i - 1) + 1]
        BY <1>2, <4>1
      <4> QED
        BY <1>5, <3>1, <4>1, <4>2
    <3> QED
      BY <3>3 DEF Range
  <2> QED
    BY <2>1, <2>2
<1> QED
  BY <1>1, <1>2, <1>3, <1>4, <1>8, <1>9 DEF Range

----------------------------------------------------------------------------
\* The mailboxes after a step

LEMMA OneMailChanged ==
  ASSUME NEW queues, NEW s \in DOMAIN queues, NEW q, DOMAIN queues \subseteq Socket
  PROVE  MailOf([queues EXCEPT ![s] = q]) = [MailOf(queues) EXCEPT ![s] = Range(q)]
BY DEF MailOf

LEMMA MailOfClosed ==
  ASSUME TypeOK, NEW s \in Socket, Unregistered(s)
  PROVE  /\ DOMAIN active_peers' = DOMAIN active_peers \ {s}
         /\ MailOf(socket_packet_queues') = [MailOf(socket_packet_queues) EXCEPT ![s] = {}]
<1>1. /\ DOMAIN active_peers' = DOMAIN active_peers \ {s}
      /\ DOMAIN socket_packet_queues' = DOMAIN socket_packet_queues \ {s}
      /\ \A x \in DOMAIN socket_packet_queues \ {s} : socket_packet_queues'[x] = socket_packet_queues[x]
  BY UnregisteredRestricts
<1> QED
  BY <1>1 DEF MailOf

LEMMA MailOfCleared ==
  ASSUME MailboxInv, NEW t \in DOMAIN active_peers, NEW u, ClearedPacketsFromRemoteUser(t, u)
  PROVE  MailOf(socket_packet_queues')
           = [MailOf(socket_packet_queues) EXCEPT ![t] = {m \in @ : m.sender # u}]
<1>1. /\ t \in DOMAIN socket_packet_queues /\ DOMAIN socket_packet_queues \subseteq Socket
      /\ socket_packet_queues[t] \in Seq(Packet)
      /\ socket_packet_queues' = [socket_packet_queues EXCEPT ![t] = Without(socket_packet_queues[t], u)]
  BY DEF MailboxInv, TypeOK, QueuesMatchPeers, ClearedPacketsFromRemoteUser
<1>2. MailOf(socket_packet_queues)[t] = Range(socket_packet_queues[t])
  BY <1>1 DEF MailOf
<1>3. MailOf(socket_packet_queues')
        = [MailOf(socket_packet_queues) EXCEPT ![t] = Range(Without(socket_packet_queues[t], u))]
  BY <1>1, OneMailChanged
<1>4. Range(Without(socket_packet_queues[t], u)) = {m \in MailOf(socket_packet_queues)[t] : m.sender # u}
  BY <1>1, <1>2, RangeWithout
<1> QED
  BY <1>3, <1>4 DEF MailOf

----------------------------------------------------------------------------
\* One lemma for each action that changes a mailbox

MailboxStep == [Mailboxes!Next]_(Mailboxes!vars)

\* A frame takes in the oldest packet.
LEMMA FilePacketStep == MailboxInv /\ FilePacket => MailboxStep
<1> SUFFICES ASSUME MailboxInv, FilePacket PROVE Mailboxes!Next
  BY DEF MailboxStep
<1>1. /\ received # << >> /\ received' = Tail(received)
      /\ UNCHANGED <<active_peers, pending_connection_requests>>
  BY DEF FilePacket
<1>2. PICK m \in Range(received) : m = Head(received)
  BY <1>1, RangeTail
<1> DEFINE queue == socket_packet_queues[m.socket]
<1>3. /\ m \in Packet /\ \A k \in Range(received) : m.n <= k.n
      /\ Range(received') = Range(received) \ {m}
  BY <1>1, <1>2, RangeTail
<1>4. /\ m.socket \in DOMAIN socket_packet_queues
      /\ socket_packet_queues' = [socket_packet_queues EXCEPT ![m.socket] = Filed(queue, m)]
  BY <1>2 DEF FilePacket
<1>5. queue \in Seq(Packet) /\ DOMAIN socket_packet_queues \subseteq Socket /\ m.socket \in DOMAIN active_peers
  BY <1>4 DEF MailboxInv, TypeOK, QueuesMatchPeers
<1>6. MailOf(socket_packet_queues)' = [MailOf(socket_packet_queues) EXCEPT ![m.socket] = @ \cup {m}]
  <2>1. Range(Filed(queue, m)) = Range(queue) \cup {m}
    BY <1>3, <1>5, RangeFiled
  <2>2. MailOf(socket_packet_queues)[m.socket] = Range(queue)
    BY <1>4, <1>5 DEF MailOf
  <2>3. MailOf([socket_packet_queues EXCEPT ![m.socket] = Filed(queue, m)])
          = [MailOf(socket_packet_queues) EXCEPT ![m.socket] = Range(Filed(queue, m))]
    BY <1>4, <1>5, OneMailChanged
  <2> QED
    BY <1>4, <2>1, <2>2, <2>3
<1>7. Mailboxes!TakeIn(m)
  BY <1>1, <1>3, <1>5, <1>6 DEF Mailboxes!TakeIn, Mailboxes!IsOldest, MailOf
<1> QED
  BY <1>7, Zenon DEF Mailboxes!Next

\* A frame throws a packet away only if its socket is not open.
LEMMA DropPacketStep == MailboxInv /\ DropPacket => MailboxStep
<1> SUFFICES ASSUME MailboxInv, DropPacket PROVE Mailboxes!Next
  BY DEF MailboxStep
<1> DEFINE m == Head(received)
<1>1. /\ received # << >> /\ m.socket \notin DOMAIN active_peers
      /\ received' = Tail(received)
      /\ UNCHANGED <<active_peers, socket_packet_queues, pending_connection_requests>>
  BY DEF DropPacket, registry, MailboxInv, QueuesMatchPeers
<1>2. /\ m \in Range(received) /\ \A k \in Range(received) : m.n <= k.n
      /\ Range(received') = Range(received) \ {m}
  BY <1>1, RangeTail
<1> HIDE DEF m
<1>3. Mailboxes!ThrowAway(m)
  BY <1>1, <1>2 DEF Mailboxes!ThrowAway, Mailboxes!IsOldest
<1> QED
  BY <1>2, <1>3 DEF Mailboxes!Next

\* The packet that arrives has a higher number than any before it.
LEMMA PacketArrivesStep ==
  ASSUME MailboxInv, NEW s \in Socket, NEW u \in User, NEW e \in Event, NEW i \in PeerId,
         PacketArrives(s, u, e, i)
  PROVE  MailboxStep
<1> SUFFICES Mailboxes!Next
  BY DEF MailboxStep
<1> DEFINE m == [socket |-> s, sender |-> u, event |-> e, peer_id |-> i, n |-> arrivals + 1]
           mail == MailOf(socket_packet_queues)
<1>1. /\ m \in Packet /\ m.n = arrivals + 1 /\ arrivals \in Nat
      /\ received' = Append(received, m) /\ received \in Seq(Packet)
      /\ UNCHANGED <<active_peers, socket_packet_queues, pending_connection_requests>>
  BY BoundAssumption DEF PacketArrives, Packet, MailboxInv, TypeOK, registry
<1> HIDE DEF m
<1>2. Range(received') = Range(received) \cup {m}
  <2>1. /\ Len(received) \in Nat /\ DOMAIN received = 1..Len(received)
        /\ DOMAIN received' = 1..(Len(received) + 1)
        /\ received'[Len(received) + 1] = m
        /\ \A j \in 1..Len(received) : received'[j] = received[j]
    BY <1>1, AppendProperties
  <2>2. DOMAIN received' = DOMAIN received \cup {Len(received) + 1}
    BY <2>1
  <2> QED
    BY <2>1, <2>2 DEF Range
<1>3. ASSUME NEW k \in Range(received) PROVE k.n < m.n
  <2>1. PICK j \in 1..Len(received) : k = received[j]
    BY <1>1 DEF Range
  <2>2. received[j] \in Packet /\ received[j].n <= arrivals
    BY <1>1, ElementOfSeq DEF MailboxInv, ArrivalOrder, SdkInOrder
  <2>3. k.n \in Nat
    BY <2>1, <2>2, BoundAssumption DEF Packet
  <2> QED
    BY <1>1, <2>1, <2>2, <2>3
<1>4. ASSUME NEW k \in UNION {mail[x] : x \in Socket} PROVE k.n < m.n
  <2>1. PICK x \in DOMAIN socket_packet_queues : k \in Range(socket_packet_queues[x])
    BY <1>4 DEF MailOf
  <2>2. socket_packet_queues[x] \in Seq(Packet) /\ QueueInOrder(socket_packet_queues[x], received, arrivals)
    BY DEF MailboxInv, TypeOK, ArrivalOrder
  <2>3. PICK j \in 1..Len(socket_packet_queues[x]) : k = socket_packet_queues[x][j]
    BY <2>1, <2>2 DEF Range
  <2>4. k \in Packet /\ k.n <= arrivals
    BY <2>2, <2>3, ElementOfSeq DEF QueueInOrder
  <2>5. k.n \in Nat
    BY <2>4, BoundAssumption DEF Packet
  <2> QED
    BY <1>1, <2>4, <2>5
<1>5. Mailboxes!Arrive(m)
  BY <1>1, <1>2, <1>3, <1>4 DEF Mailboxes!Arrive, MailOf
<1>6. \E k \in Packet : Mailboxes!Arrive(k)
  BY <1>1, <1>5
<1> QED
  BY <1>6, Zenon DEF Mailboxes!Next

\* What is polled must precede what stays: the queue's order is the order the
\* mailbox promises.
LEMMA PollStep ==
  ASSUME MailboxInv, NEW s \in Socket, PollNextPackets(s)
  PROVE  MailboxStep
<1> SUFFICES Mailboxes!Next
  BY DEF MailboxStep
<1> DEFINE queue == socket_packet_queues[s]
           mail == MailOf(socket_packet_queues)
<1>1. PICK k \in 1..Len(queue) :
        socket_packet_queues' = [socket_packet_queues EXCEPT ![s] = SubSeq(queue, k + 1, Len(queue))]
  BY DEF PollNextPackets
<1> DEFINE rest == SubSeq(queue, k + 1, Len(queue))
           D == Range(queue) \ Range(rest)
<1>2. /\ s \in DOMAIN socket_packet_queues /\ s \in DOMAIN active_peers
      /\ DOMAIN socket_packet_queues \subseteq Socket
      /\ queue \in Seq(Packet) /\ QueueInOrder(queue, received, arrivals)
      /\ UNCHANGED <<active_peers, pending_connection_requests, received>>
  BY DEF PollNextPackets, MailboxInv, TypeOK, QueuesMatchPeers, ArrivalOrder, network
<1>3. mail[s] = Range(queue)
  BY <1>2 DEF MailOf
<1>4. /\ Len(queue) \in Nat /\ k \in Nat /\ k <= Len(queue)
      /\ DOMAIN queue = 1..Len(queue) /\ DOMAIN rest = 1..(Len(queue) - k)
      /\ \A i \in 1..(Len(queue) - k) : rest[i] = queue[i + k]
  BY <1>2, SuffixProperties
<1> HIDE DEF queue, rest
<1>5. Range(rest) \subseteq Range(queue)
  <2>1. \A i \in 1..(Len(queue) - k) : i + k \in 1..Len(queue)
    BY <1>4
  <2> QED
    BY <1>4, <2>1 DEF Range
<1>6. ASSUME NEW a \in D, NEW b \in Range(queue) \ D PROVE Mailboxes!MayPrecede(a, b)
  <2>1. PICK i \in 1..Len(queue) : a = queue[i]
    BY <1>4 DEF Range
  <2>2. PICK j \in 1..(Len(queue) - k) : b = rest[j]
    BY <1>4, <1>6 DEF Range
  <2>3. ~ (i > k)
    <3>1. SUFFICES ASSUME i > k PROVE FALSE
      OBVIOUS
    <3>2. i - k \in 1..(Len(queue) - k) /\ (i - k) + k = i
      BY <1>4, <3>1
    <3>3. rest[i - k] = a
      BY <1>4, <2>1, <3>2
    <3> QED
      BY <1>4, <1>6, <3>2, <3>3 DEF Range
  <2>4. j + k \in 1..Len(queue) /\ i < j + k /\ b = queue[j + k]
    BY <1>4, <2>2, <2>3
  <2>5. /\ IsPeerIdPacket(b) => IsPeerIdPacket(a)
        /\ ~IsPeerIdPacket(a) /\ ~IsPeerIdPacket(b) => a.n < b.n
    BY <1>2, <2>1, <2>4 DEF QueueInOrder, PeerIdFirst, OthersInOrder
  <2> QED
    BY <2>5 DEF Mailboxes!MayPrecede, Mailboxes!Urgent, IsPeerIdPacket
<1>7. MailOf(socket_packet_queues') = [mail EXCEPT ![s] = mail[s] \ D]
  <2>1. MailOf(socket_packet_queues') = [mail EXCEPT ![s] = Range(rest)]
    BY <1>1, <1>2, OneMailChanged DEF queue, rest
  <2>2. Range(rest) = mail[s] \ D
    BY <1>3, <1>5
  <2> QED
    BY <2>1, <2>2
<1>8. D \in SUBSET mail[s]
  BY <1>3
<1>9. Mailboxes!HandOut(s, D)
  <2> HIDE DEF D
  <2>1. \A a \in D, b \in mail[s] \ D : Mailboxes!MayPrecede(a, b)
    BY <1>3, <1>6
  <2> QED
    BY <1>2, <1>7, <1>8, <2>1 DEF Mailboxes!HandOut, MailOf
<1>10. \E x \in Socket : \E E \in SUBSET MailOf(socket_packet_queues)[x] : Mailboxes!HandOut(x, E)
  <2> HIDE DEF D, mail
  <2>1. D \in SUBSET MailOf(socket_packet_queues)[s]
    BY <1>8 DEF mail
  <2> DEFINE Out(x, E) == Mailboxes!HandOut(x, E)
  <2>2. Out(s, D)
    BY <1>9
  <2> HIDE DEF Out
  <2>3. \E x \in Socket : \E E \in SUBSET MailOf(socket_packet_queues)[x] : Out(x, E)
    BY <2>1, <2>2
  <2> QED
    BY <2>3 DEF Out
<1> QED
  BY <1>10, Zenon DEF Mailboxes!Next, MailOf

\* Registering opens a mailbox, empty, and hands over the requests.
LEMMA RegisterStep ==
  ASSUME MailboxInv, NEW s \in Socket,
         (\E p \in Peer : RegisterPeer(p, s)) \/ RegisterAndUnregisterPeer(s)
  PROVE  MailboxStep
<1> SUFFICES Mailboxes!Next
  BY DEF MailboxStep
<1>1. /\ s \notin DOMAIN active_peers /\ s \notin DOMAIN socket_packet_queues
      /\ pending_connection_requests' = [pending_connection_requests EXCEPT ![s] = [u \in User |-> 0]]
      /\ pending_connection_requests \in [Socket -> [User -> Nat]]
      /\ received' = received
  BY DEF RegisterPeer, RegisterAndUnregisterPeer, ForwardPendingConnectionRequests,
         MailboxInv, QueuesMatchPeers, TypeOK, network
<1>2. DOMAIN active_peers' \in {DOMAIN active_peers, DOMAIN active_peers \cup {s}}
  BY DEF RegisterPeer, RegisterAndUnregisterPeer, Insert
<1>3. MailOf(socket_packet_queues') = MailOf(socket_packet_queues)
  <2>1. CASE RegisterAndUnregisterPeer(s)
    BY <2>1 DEF RegisterAndUnregisterPeer
  <2>2. CASE \E p \in Peer : RegisterPeer(p, s)
    <3>1. /\ DOMAIN socket_packet_queues' = DOMAIN socket_packet_queues \cup {s}
          /\ socket_packet_queues'[s] = << >>
          /\ \A x \in DOMAIN socket_packet_queues : socket_packet_queues'[x] = socket_packet_queues[x]
      BY <1>1, <2>2 DEF RegisterPeer, Insert
    <3>2. Range(<< >>) = {}
      BY DEF Range
    <3> QED
      BY <1>1, <3>1, <3>2 DEF MailOf
  <2> QED
    BY <2>1, <2>2
<1>4. WaitingOf(pending_connection_requests') = [WaitingOf(pending_connection_requests) EXCEPT ![s] = {}]
  <2>1. \A x \in Socket, u \in User :
          pending_connection_requests'[x][u] > 0 <=> x # s /\ pending_connection_requests[x][u] > 0
    BY <1>1
  <2> QED
    BY <2>1 DEF WaitingOf
<1>5. Mailboxes!Open(s)
  BY <1>1, <1>2, <1>3, <1>4 DEF Mailboxes!Open, MailOf, WaitingOf
<1>6. \E x \in Socket : Mailboxes!Open(x) \/ Mailboxes!Close(x)
  BY <1>5, Zenon
<1> QED
  BY <1>6, Zenon DEF Mailboxes!Next

\* Unregistering closes the mailbox and empties it.
LEMMA UnregisterStep ==
  ASSUME MailboxInv, NEW s \in Socket, UnregisterPeer(s)
  PROVE  MailboxStep
<1> SUFFICES Mailboxes!Next
  BY DEF MailboxStep
<1>1. /\ s \in DOMAIN active_peers /\ Unregistered(s)
      /\ UNCHANGED <<pending_connection_requests, received>>
  BY DEF UnregisterPeer, network
<1>2. /\ DOMAIN active_peers' = DOMAIN active_peers \ {s}
      /\ MailOf(socket_packet_queues') = [MailOf(socket_packet_queues) EXCEPT ![s] = {}]
  BY <1>1, MailOfClosed DEF MailboxInv
<1>3. Mailboxes!Close(s)
  BY <1>1, <1>2 DEF Mailboxes!Close, Mailboxes!Closed, MailOf
<1>4. \E x \in Socket : Mailboxes!Open(x) \/ Mailboxes!Close(x)
  BY <1>3, Zenon
<1> QED
  BY <1>4, Zenon DEF Mailboxes!Next

\* A request held for a socket waits there.
LEMMA HoldStep ==
  ASSUME MailboxInv, NEW s \in Socket, NEW u \in User, HoldConnectionRequest(s, u)
  PROVE  MailboxStep
<1> SUFFICES Mailboxes!Next
  BY DEF MailboxStep
<1>1. /\ s \notin DOMAIN active_peers
      /\ pending_connection_requests' = [pending_connection_requests EXCEPT ![s][u] = @ + 1]
      /\ pending_connection_requests \in [Socket -> [User -> Nat]]
      /\ UNCHANGED <<active_peers, socket_packet_queues, received>>
  BY DEF HoldConnectionRequest, MailboxInv, TypeOK, network
<1>2. WaitingOf(pending_connection_requests')
        = [WaitingOf(pending_connection_requests) EXCEPT ![s] = @ \cup {u}]
  <2>1. \A x \in Socket, y \in User :
          pending_connection_requests'[x][y] > 0
            <=> (x = s /\ y = u) \/ pending_connection_requests[x][y] > 0
    BY <1>1
  <2> QED
    BY <2>1 DEF WaitingOf
<1>3. Mailboxes!Ask(s, u)
  BY <1>1, <1>2 DEF Mailboxes!Ask, WaitingOf
<1>4. \E x \in Socket, y \in User : Mailboxes!Ask(x, y) \/ Mailboxes!Disconnect(x, y)
  BY <1>3, Zenon
<1> QED
  BY <1>4, Zenon DEF Mailboxes!Next

\* A closing takes at most that user's request away, and lets go of nothing
\* but the user's packets, or of a socket.
LEMMA RemoteClosedStep ==
  ASSUME MailboxInv, NEW s \in Socket, NEW u \in User, OnRemoteConnectionClosed(s, u)
  PROVE  MailboxStep
<1> SUFFICES Mailboxes!Next
  BY DEF MailboxStep
<1> DEFINE requests == pending_connection_requests
<1>1. /\ requests' = [requests EXCEPT ![s][u] = IF @ > 0 THEN @ - 1 ELSE 0]
      /\ requests \in [Socket -> [User -> Nat]]
      /\ DOMAIN active_peers \subseteq Socket
      /\ received' = received
      /\ \/ UNCHANGED <<active_peers, socket_packet_queues>>
         \/ /\ s \in DOMAIN active_peers
            /\ \E t \in DOMAIN active_peers :
                  ClearedPacketsFromRemoteUser(t, u) \/ Unregistered(t)
  BY DEF OnRemoteConnectionClosed, MailboxInv, TypeOK, network
<1>2. WaitingOf(requests') \in {WaitingOf(requests), [WaitingOf(requests) EXCEPT ![s] = @ \ {u}]}
  <2>1. CASE requests'[s][u] > 0
    <3>1. \A x \in Socket, y \in User : requests'[x][y] > 0 <=> requests[x][y] > 0
      BY <1>1, <2>1
    <3> QED
      BY <3>1 DEF WaitingOf
  <2>2. CASE ~ (requests'[s][u] > 0)
    <3>1. \A x \in Socket, y \in User : <<x, y>> # <<s, u>> => requests'[x][y] = requests[x][y]
      BY <1>1
    <3>2. \A x \in Socket, y \in User :
             requests'[x][y] > 0 <=> requests[x][y] > 0 /\ ~ (x = s /\ y = u)
      BY <2>2, <3>1
    <3> QED
      BY <3>2 DEF WaitingOf
  <2> QED
    BY <2>1, <2>2
<1>3. ASSUME NEW t \in DOMAIN active_peers, ClearedPacketsFromRemoteUser(t, u)
      PROVE  Mailboxes!Discarded(t, u)
  <2>1. active_peers' = active_peers
    BY <1>3 DEF ClearedPacketsFromRemoteUser
  <2>2. MailOf(socket_packet_queues')
          = [MailOf(socket_packet_queues) EXCEPT ![t] = {m \in @ : m.sender # u}]
    BY <1>3, MailOfCleared
  <2> QED
    BY <2>1, <2>2 DEF Mailboxes!Discarded, MailOf
<1>4. ASSUME NEW t \in DOMAIN active_peers, Unregistered(t)
      PROVE  Mailboxes!Closed(t)
  <2>1. /\ DOMAIN active_peers' = DOMAIN active_peers \ {t}
        /\ MailOf(socket_packet_queues') = [MailOf(socket_packet_queues) EXCEPT ![t] = {}]
    BY <1>1, <1>4, MailOfClosed DEF MailboxInv
  <2> QED
    BY <2>1 DEF Mailboxes!Closed, MailOf
<1>5. Mailboxes!Disconnect(s, u)
  <2>1. \/ DOMAIN active_peers' = DOMAIN active_peers /\ MailOf(socket_packet_queues') = MailOf(socket_packet_queues)
        \/ /\ s \in DOMAIN active_peers
           /\ \E t \in DOMAIN active_peers : Mailboxes!Discarded(t, u) \/ Mailboxes!Closed(t)
    <3>1. CASE UNCHANGED <<active_peers, socket_packet_queues>>
      BY <3>1
    <3>2. CASE /\ s \in DOMAIN active_peers
               /\ \E t \in DOMAIN active_peers :
                     ClearedPacketsFromRemoteUser(t, u) \/ Unregistered(t)
      BY <1>3, <1>4, <3>2
    <3> QED
      BY <1>1, <3>1, <3>2
  <2>2. Range(received)' = Range(received)
    BY <1>1
  <2> QED
    BY <1>2, <2>1, <2>2, Zenon DEF Mailboxes!Disconnect, MailOf, WaitingOf, requests
<1>6. \E x \in Socket, y \in User : Mailboxes!Ask(x, y) \/ Mailboxes!Disconnect(x, y)
  BY <1>5, Zenon
<1> QED
  BY <1>6, Zenon DEF Mailboxes!Next

\* What is left: nothing changes, or the SDK forgets its packets.
LEMMA OtherStep ==
  ASSUME MailboxInv,
         \/ OnProcessFrame \/ NoPacketLeft \/ Login \/ Terminate
         \/ \E limit \in QueueLimit : SetQueueSizeLimit(limit)
         \/ UNCHANGED vars
  PROVE  MailboxStep
<1>1. UNCHANGED registry /\ received' \in {received, << >>}
  BY DEF OnProcessFrame, NoPacketLeft, Login, Terminate, SetQueueSizeLimit, vars, network
<1>2. UNCHANGED <<active_peers, socket_packet_queues, pending_connection_requests>>
  BY <1>1 DEF registry
<1>3. CASE received' = received
  BY <1>2, <1>3 DEF MailboxStep, Mailboxes!vars
<1>4. CASE received' = << >>
  <2>1. Range(received') = {}
    BY <1>4 DEF Range
  <2>2. Mailboxes!Forget
    BY <1>2, <2>1 DEF Mailboxes!Forget
  <2> QED
    BY <2>2, Zenon DEF MailboxStep, Mailboxes!Next
<1> QED
  BY <1>1, <1>3, <1>4

LEMMA NextImplements == MailboxInv /\ [Next]_vars => MailboxStep
<1> SUFFICES ASSUME MailboxInv, [Next]_vars PROVE MailboxStep
  OBVIOUS
<1>1. CASE \E s \in Socket, u \in User, e \in Event, i \in PeerId : PacketArrives(s, u, e, i)
  BY <1>1, PacketArrivesStep
<1>2. CASE ReceivePacket
  BY <1>2, FilePacketStep, DropPacketStep, OtherStep DEF ReceivePacket
<1>3. CASE \E s \in Socket : PollNextPackets(s)
  BY <1>3, PollStep
<1>4. CASE \E s \in Socket : (\E p \in Peer : RegisterPeer(p, s)) \/ RegisterAndUnregisterPeer(s)
  BY <1>4, RegisterStep
<1>5. CASE \E s \in Socket : UnregisterPeer(s)
  BY <1>5, UnregisterStep
<1>6. CASE \E s \in Socket, u \in User : HoldConnectionRequest(s, u)
  BY <1>6, HoldStep
<1>7. CASE \E s \in Socket, u \in User : OnRemoteConnectionClosed(s, u)
  BY <1>7, RemoteClosedStep
<1>8. CASE \/ OnProcessFrame \/ NoPacketLeft \/ Login \/ Terminate
           \/ \E limit \in QueueLimit : SetQueueSizeLimit(limit)
           \/ UNCHANGED vars
  BY <1>8, OtherStep
<1> QED
  BY <1>1, <1>2, <1>3, <1>4, <1>5, <1>6, <1>7, <1>8 DEF Next

LEMMA InitImplements == Init => Mailboxes!Init
<1>1. Range(<< >>) = {}
  BY DEF Range
<1> QED
  BY <1>1 DEF Init, Mailboxes!Init

LEMMA MailboxInvCorrect == Spec => []MailboxInv
BY TypeCorrect, QueuesAlwaysMatchPeers, ArrivalOrderCorrect, PTL DEF MailboxInv

\* The mediator keeps what its instances are promised: every packet for a
\* socket somebody registered is taken in, oldest first, and handed out in the
\* promised order; it is let go only with its socket or its sender, and no
\* request waits for a socket that is open.
THEOREM ImplementsMailboxes == Spec => MailboxSpec
<1>1. Init => Mailboxes!Init
  BY InitImplements
<1>2. MailboxInv /\ [Next]_vars => [Mailboxes!Next]_(Mailboxes!vars)
  BY NextImplements DEF MailboxStep
<1> QED
  BY <1>1, <1>2, MailboxInvCorrect, PTL DEF Spec, MailboxSpec, Mailboxes!Spec
=============================================================================
