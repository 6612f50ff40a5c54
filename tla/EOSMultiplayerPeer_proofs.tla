---------------------- MODULE EOSMultiplayerPeer_proofs ----------------------
(***************************************************************************)
(* Proofs about EOSMultiplayerPeer, for every set of instances, names and  *)
(* users and every behaviour of the application: the instances implement   *)
(* the mediator's specification, so that its theorems hold of them too;    *)
(* and the invariants of the instances themselves.                         *)
(***************************************************************************)
EXTENDS EOSMultiplayerPeer, TLAPS, FiniteSetTheorems, SequenceTheorems

Proofs == INSTANCE EOSPacketPeerMediator_proofs

----------------------------------------------------------------------------
\* The theorems about the mediator are those of an instance of their own; its
\* definitions are the ones of M.

LEMMA SameNext == (Proofs!Next <=> M!Next) /\ (UNCHANGED Proofs!vars <=> UNCHANGED M!vars)
<1> USE DEF Proofs!registry, M!registry, Proofs!network, M!network
<1>0. ASSUME NEW S PROVE Proofs!Cardinality(S) = M!Cardinality(S)
  BY DEF Proofs!Cardinality, M!Cardinality
<1>1. ASSUME NEW q PROVE Proofs!Room(q) <=> M!Room(q)
  <2>1. Proofs!Places(q) = M!Places(q)
    BY Zenon DEF Proofs!Places, M!Places
  <2> QED
    BY <1>0, <2>1 DEF Proofs!Room, M!Room, Proofs!TotalPacketCount, M!TotalPacketCount
<1>2. ASSUME NEW q, NEW u PROVE Proofs!Without(q, u) = M!Without(q, u)
  <2>1. ASSUME NEW I PROVE Proofs!InOrder(I) = M!InOrder(I)
    BY <1>0 DEF Proofs!InOrder, M!InOrder
  <2> QED
    BY <2>1 DEF Proofs!Without, M!Without
<1>3. ASSUME NEW q, NEW m PROVE Proofs!Filed(q, m) = M!Filed(q, m)
  BY DEF Proofs!Filed, M!Filed, Proofs!IsPeerIdPacket, M!IsPeerIdPacket
<1>4. ASSUME NEW s, NEW u, NEW e, NEW i PROVE Proofs!PacketArrives(s, u, e, i) <=> M!PacketArrives(s, u, e, i)
  BY DEF Proofs!PacketArrives, M!PacketArrives
<1>5. Proofs!OnProcessFrame <=> M!OnProcessFrame
  BY <1>1 DEF Proofs!OnProcessFrame, M!OnProcessFrame
<1>6. Proofs!ReceivePacket <=> M!ReceivePacket
  <2>1. Proofs!FilePacket <=> M!FilePacket
    BY <1>1, <1>3 DEF Proofs!FilePacket, M!FilePacket
  <2> QED
    BY <2>1 DEF Proofs!ReceivePacket, M!ReceivePacket, Proofs!NoPacketLeft, M!NoPacketLeft,
                Proofs!DropPacket, M!DropPacket
<1>7. ASSUME NEW s PROVE Proofs!PollNextPackets(s) <=> M!PollNextPackets(s)
  BY DEF Proofs!PollNextPackets, M!PollNextPackets
<1>8. ASSUME NEW s PROVE Proofs!ForwardPendingConnectionRequests(s) <=> M!ForwardPendingConnectionRequests(s)
  BY DEF Proofs!ForwardPendingConnectionRequests, M!ForwardPendingConnectionRequests
<1>9. ASSUME NEW p, NEW s PROVE Proofs!RegisterPeer(p, s) <=> M!RegisterPeer(p, s)
  BY <1>8 DEF Proofs!RegisterPeer, M!RegisterPeer, Proofs!Insert, M!Insert
<1>10. ASSUME NEW s PROVE Proofs!RegisterAndUnregisterPeer(s) <=> M!RegisterAndUnregisterPeer(s)
  BY <1>8 DEF Proofs!RegisterAndUnregisterPeer, M!RegisterAndUnregisterPeer
<1>11. ASSUME NEW s PROVE Proofs!Unregistered(s) <=> M!Unregistered(s)
  BY DEF Proofs!Unregistered, M!Unregistered, Proofs!Restrict, M!Restrict
<1>12. ASSUME NEW s PROVE Proofs!UnregisterPeer(s) <=> M!UnregisterPeer(s)
  BY <1>11 DEF Proofs!UnregisterPeer, M!UnregisterPeer
<1>13. ASSUME NEW s, NEW u
       PROVE  Proofs!ClearedPacketsFromRemoteUser(s, u) <=> M!ClearedPacketsFromRemoteUser(s, u)
  BY <1>2 DEF Proofs!ClearedPacketsFromRemoteUser, M!ClearedPacketsFromRemoteUser
<1>14. ASSUME NEW s, NEW u PROVE Proofs!HoldConnectionRequest(s, u) <=> M!HoldConnectionRequest(s, u)
  BY DEF Proofs!HoldConnectionRequest, M!HoldConnectionRequest
<1>15. ASSUME NEW s, NEW u PROVE Proofs!OnRemoteConnectionClosed(s, u) <=> M!OnRemoteConnectionClosed(s, u)
  BY <1>11, <1>13 DEF Proofs!OnRemoteConnectionClosed, M!OnRemoteConnectionClosed
<1>16. (Proofs!Login <=> M!Login) /\ (Proofs!Terminate <=> M!Terminate)
  BY DEF Proofs!Login, M!Login, Proofs!Terminate, M!Terminate
<1>17. ASSUME NEW l PROVE Proofs!SetQueueSizeLimit(l) <=> M!SetQueueSizeLimit(l)
  BY DEF Proofs!SetQueueSizeLimit, M!SetQueueSizeLimit
<1>18. UNCHANGED Proofs!vars <=> UNCHANGED M!vars
  BY DEF Proofs!vars, M!vars
<1>19. Proofs!Next <=> M!Next
  BY <1>4, <1>5, <1>6, <1>7, <1>9, <1>10, <1>12, <1>14, <1>15, <1>16, <1>17, Zenon
  DEF Proofs!Next, M!Next, Proofs!Event, M!Event
<1> QED
  BY <1>18, <1>19

LEMMA SameInvariants ==
  /\ Proofs!Init <=> M!Init
  /\ Proofs!TypeOK <=> M!TypeOK
  /\ Proofs!QueuesMatchPeers <=> M!QueuesMatchPeers
  /\ Proofs!NoRequestHeldBack <=> M!NoRequestHeldBack
  /\ Proofs!ArrivalOrder => M!PeerIdPacketsFirst /\ M!DeliveredInOrder
<1>1. Proofs!Init <=> M!Init
  BY DEF Proofs!Init, M!Init
<1>2. Proofs!TypeOK <=> M!TypeOK
  BY DEF Proofs!TypeOK, M!TypeOK, Proofs!Packet, M!Packet, Proofs!Event, M!Event
<1>3. Proofs!QueuesMatchPeers <=> M!QueuesMatchPeers
  BY DEF Proofs!QueuesMatchPeers, M!QueuesMatchPeers
<1>4. Proofs!NoRequestHeldBack <=> M!NoRequestHeldBack
  BY DEF Proofs!NoRequestHeldBack, M!NoRequestHeldBack
<1>5. Proofs!ArrivalOrder => M!PeerIdPacketsFirst /\ M!DeliveredInOrder
  BY DEF Proofs!ArrivalOrder, Proofs!QueueInOrder, Proofs!PeerIdFirst, Proofs!OthersInOrder, Proofs!IsPeerIdPacket,
         M!PeerIdPacketsFirst, M!DeliveredInOrder, M!IsPeerIdPacket
<1> QED
  BY <1>1, <1>2, <1>3, <1>4, <1>5

----------------------------------------------------------------------------
\* The refinement

\* What the step needs of the reachable states: the two maps of the mediator
\* agree, and no _poll is in progress during a frame.
OneAtATime ==
    /\ polled \in [by : Peer \cup {NoPeer}, packets : Seq(M!Packet \cup {NullPacket}), in_signal : BOOLEAN]
    /\ polled.by = NoPeer => polled.packets = << >>
    /\ receiving => polled.by = NoPeer

RefinementInv == M!TypeOK /\ M!QueuesMatchPeers /\ M!NoRequestHeldBack /\ OneAtATime

LEMMA MediatorUnchanged == UNCHANGED mediatorVars => UNCHANGED M!vars
BY DEF mediatorVars, M!vars, M!registry, M!network

\* UnregisterIf is the mediator's UnregisterPeer or changes nothing.
LEMMA UnregisterIfRefines ==
  ASSUME M!TypeOK, ~receiving, NEW cond, NEW s, UnregisterIf(cond, s),
         UNCHANGED <<pending_connection_requests, max_queue_size, initialized, receiving, received, arrivals>>
  PROVE  [M!Next]_(M!vars)
<1>1. CASE cond /\ s \in DOMAIN active_peers
  <2>1. s \in Socket
    BY <1>1 DEF M!TypeOK
  <2>2. M!UnregisterPeer(s)
    BY <1>1 DEF UnregisterIf, M!UnregisterPeer, M!network
  <2> QED
    BY <2>1, <2>2 DEF M!Next
<1>2. CASE ~(cond /\ s \in DOMAIN active_peers)
  <2>1. UNCHANGED mediatorVars
    BY <1>2 DEF UnregisterIf, mediatorVars
  <2> QED
    BY <2>1, MediatorUnchanged
<1> QED
  BY <1>1, <1>2

\* What a _poll takes is a prefix of the queue.
LEMMA LeadingPeerIdsBound ==
  ASSUME NEW queue \in Seq(M!Packet)
  PROVE  LeadingPeerIds(queue) \in 0..Len(queue)
<1> DEFINE I == {i \in 1..Len(queue) : \A j \in 1..i : M!IsPeerIdPacket(queue[j])}
<1>1. Len(queue) \in Nat /\ I \subseteq 1..Len(queue)
  OBVIOUS
<1> HIDE DEF I
<1>2. IsFiniteSet(1..Len(queue)) /\ Cardinality(1..Len(queue)) <= Len(queue)
  <2>1. /\ IsFiniteSet(1..Len(queue))
        /\ Cardinality(1..Len(queue)) = IF 1 > Len(queue) THEN 0 ELSE Len(queue) - 1 + 1
    BY <1>1, FS_Interval
  <2> QED
    BY <1>1, <2>1
<1>3. IsFiniteSet(I) /\ Cardinality(I) <= Cardinality(1..Len(queue)) /\ Cardinality(I) \in Nat
  BY <1>1, <1>2, FS_Subset, FS_CardinalityType
<1>4. Cardinality(1..Len(queue)) \in Nat
  BY <1>2, FS_CardinalityType
<1> QED
  BY <1>1, <1>2, <1>3, <1>4 DEF LeadingPeerIds, I

LEMMA PollRefines ==
  ASSUME RefinementInv, NEW p \in Peer, Poll(p)
  PROVE  M!Next /\ OneAtATime'
<1> DEFINE x == instance[p]
           queue == socket_packet_queues[x.socket]
           taken == IF x.polling THEN Len(queue) ELSE LeadingPeerIds(queue)
<1>1. /\ Idle /\ x.socket \in DOMAIN socket_packet_queues /\ taken > 0
      /\ socket_packet_queues' = [socket_packet_queues EXCEPT ![x.socket] = SubSeq(queue, taken + 1, Len(queue))]
      /\ polled' = [by |-> p, in_signal |-> FALSE,
                    packets |-> [k \in 1..taken |-> IF x.polling THEN queue[k] ELSE NullPacket]]
      /\ UNCHANGED <<active_peers, pending_connection_requests, max_queue_size, initialized,
                     receiving, received, arrivals, instance, link>>
  BY DEF Poll
<1>2. queue \in Seq(M!Packet) /\ x.socket \in Socket
  BY <1>1 DEF RefinementInv, M!TypeOK, M!QueuesMatchPeers
<1>3. taken \in 1..Len(queue)
  BY <1>1, <1>2, LeadingPeerIdsBound
<1> HIDE DEF queue, taken
<1>4. M!PollNextPackets(x.socket)
  BY <1>1, <1>3 DEF M!PollNextPackets, Idle, M!network, queue
<1>5. [k \in 1..taken |-> IF x.polling THEN queue[k] ELSE NullPacket] \in Seq(M!Packet \cup {NullPacket})
  BY <1>2, <1>3
<1>6. p # NoPeer
  BY NoneAssumption
<1>7. OneAtATime'
  BY <1>1, <1>5, <1>6 DEF OneAtATime, Idle
<1> QED
  BY <1>2, <1>4, <1>7 DEF M!Next

\* A step that leaves `polled` and `receiving` alone.
LEMMA StillOneAtATime == OneAtATime /\ UNCHANGED <<polled, receiving>> => OneAtATime'
BY DEF OneAtATime

LEMMA ApplicationRefines ==
  ASSUME RefinementInv, NEW p \in Peer, Application(p)
  PROVE  [M!Next]_(M!vars) /\ OneAtATime'
<1> USE DEF RefinementInv
<1> DEFINE Goal == [M!Next]_(M!vars) /\ OneAtATime'
<1> SUFFICES Goal
  OBVIOUS
<1>1. CASE UNCHANGED mediatorVars /\ UNCHANGED polled
  BY <1>1, MediatorUnchanged, StillOneAtATime DEF mediatorVars
<1>2. ASSUME NEW s \in Socket, NEW mode, CreateHost(p, s, mode) PROVE Goal
  BY <1>2, StillOneAtATime DEF CreateHost, M!RegisterPeer, M!Next
<1>3. ASSUME NEW s, NEW mode, CreateHostFails(p, s, mode) PROVE Goal
  BY <1>3, StillOneAtATime, UnregisterIfRefines DEF CreateHostFails, MayCreate, Callable
<1>4. ASSUME NEW s \in Socket, NEW u, CreateClient(p, s, u) PROVE Goal
  BY <1>4, StillOneAtATime DEF CreateClient, M!RegisterPeer, M!Next
<1>5. ASSUME NEW s \in Socket, CreateClientCannotSend(p, s) PROVE Goal
  <2>1. M!RegisterAndUnregisterPeer(s) \/ M!RegisterPeer(p, s)
    BY <1>5 DEF CreateClientCannotSend
  <2>2. UNCHANGED <<polled, receiving>>
    BY <1>5, <2>1 DEF CreateClientCannotSend, M!RegisterAndUnregisterPeer, M!RegisterPeer
  <2>3. M!Next
    BY <2>1 DEF M!Next
  <2> QED
    BY <2>2, <2>3, StillOneAtATime
<1>6. CASE Close(p)
  BY <1>6, StillOneAtATime, UnregisterIfRefines DEF Close, Closing, Callable
<1>7. CASE Free(p)
  <2>1. CASE IsActive(instance[p])
    BY <1>7, <2>1, StillOneAtATime, UnregisterIfRefines DEF Free, Closing, Callable
  <2>2. CASE ~IsActive(instance[p])
    <3>1. UNCHANGED mediatorVars /\ UNCHANGED polled
      BY <1>7, <2>2 DEF Free, mediatorVars
    <3> QED
      BY <1>1, <3>1
  <2> QED
    BY <2>1, <2>2
<1>8. ASSUME NEW s, CreateClientFails(p, s) PROVE Goal
  BY <1>1, <1>8 DEF CreateClientFails
<1>9. ASSUME NEW u, AddMeshPeer(p, u) \/ AcceptConnectionRequest(p, u) \/ DenyConnectionRequest(p, u) PROVE Goal
  BY <1>1, <1>9 DEF AddMeshPeer, AcceptConnectionRequest, DenyConnectionRequest, AnswerRequest
<1>10. ASSUME NEW i, NEW force, DisconnectPeer(p, i, force) PROVE Goal
  BY <1>1, <1>10 DEF DisconnectPeer
<1>11. CASE AcceptAllConnectionRequests(p) \/ DenyAllConnectionRequests(p)
  BY <1>1, <1>11 DEF AcceptAllConnectionRequests, DenyAllConnectionRequests, AnswerAll
<1>12. ASSUME NEW field, NEW value, Set(p, field, value) PROVE Goal
  BY <1>1, <1>12 DEF Set
<1>13. CASE GetPacket(p) \/ PutPacket(p)
  BY <1>1, <1>13 DEF GetPacket, PutPacket
<1> HIDE DEF Goal
<1> QED
  BY <1>2, <1>3, <1>4, <1>5, <1>6, <1>7, <1>8, <1>9, <1>10, <1>11, <1>12, <1>13 DEF Application

LEMMA PollStepRefines ==
  ASSUME RefinementInv, PollStep
  PROVE  [M!Next]_(M!vars) /\ OneAtATime'
<1> USE DEF RefinementInv
<1>1. polled.by # NoPeer /\ ~receiving
  BY DEF PollStep, PollStorePacket, PollMeshConnectionRequest, PollUnwantedPeerId, PollNotAServer, PollInvalidPeerId,
         PollPeerId, PollReturns, Handling, OneAtATime
<1>2. \/ polled' = NoPoll
      \/ polled.packets # << >> /\ polled' = Rest
      \/ polled.packets # << >> /\ polled' = [polled EXCEPT !.packets = Tail(@), !.in_signal = TRUE]
  BY DEF PollStep, PollStorePacket, PollMeshConnectionRequest, PollUnwantedPeerId, PollNotAServer, PollInvalidPeerId,
         PollPeerId, PollReturns, Handling
<1>3. /\ polled' \in [by : Peer \cup {NoPeer}, packets : Seq(M!Packet \cup {NullPacket}), in_signal : BOOLEAN]
      /\ polled'.by = NoPeer => polled'.packets = << >>
  <2>1. NoPoll \in [by : Peer \cup {NoPeer}, packets : Seq(M!Packet \cup {NullPacket}), in_signal : BOOLEAN]
        /\ NoPoll.packets = << >>
    BY DEF NoPoll
  <2>2. ASSUME polled.packets # << >>, NEW b \in BOOLEAN
        PROVE  /\ [polled EXCEPT !.packets = Tail(@), !.in_signal = b] \in
                     [by : Peer \cup {NoPeer}, packets : Seq(M!Packet \cup {NullPacket}), in_signal : BOOLEAN]
               /\ [polled EXCEPT !.packets = Tail(@), !.in_signal = b].by # NoPeer
    <3>1. Tail(polled.packets) \in Seq(M!Packet \cup {NullPacket})
      BY <2>2, HeadTailProperties DEF OneAtATime
    <3> QED
      BY <1>1, <3>1 DEF OneAtATime
  <2> QED
    BY <1>2, <2>1, <2>2 DEF Rest
<1>4. UNCHANGED mediatorVars \/ PollNotAServer
  BY DEF PollStep, PollStorePacket, PollMeshConnectionRequest, PollUnwantedPeerId, PollInvalidPeerId,
         PollPeerId, PollReturns
<1>5. CASE UNCHANGED mediatorVars
  BY <1>1, <1>3, <1>5, MediatorUnchanged DEF OneAtATime, mediatorVars
<1>6. CASE PollNotAServer
  BY <1>1, <1>3, <1>6, UnregisterIfRefines DEF PollNotAServer, Closing, OneAtATime
<1> QED
  BY <1>4, <1>5, <1>6

LEMMA TickRefines ==
  ASSUME RefinementInv, NEW s \in Socket, NEW u \in User, Tick(s, u)
  PROVE  [M!Next]_(M!vars) /\ OneAtATime'
<1> USE DEF RefinementInv
<1>1. CASE OnHeldConnectionRequest(s, u)
  BY <1>1, StillOneAtATime DEF OnHeldConnectionRequest, M!HoldConnectionRequest, M!Next
<1>2. CASE OnConnectionRequest(s, u) \/ OnPeerConnectionEstablished(s, u)
  BY <1>2, MediatorUnchanged, StillOneAtATime DEF OnConnectionRequest, OnPeerConnectionEstablished, mediatorVars
<1>3. ASSUME NEW notice, OnUnregisteredConnectionClosed(s, u, notice) PROVE [M!Next]_(M!vars) /\ OneAtATime'
  BY <1>3, StillOneAtATime DEF OnUnregisteredConnectionClosed, M!OnRemoteConnectionClosed, M!Next
<1>4. ASSUME NEW notice, OnRemoteConnectionClosed(s, u, notice) PROVE [M!Next]_(M!vars) /\ OneAtATime'
  <2>1. /\ ~receiving /\ initialized /\ s \in DOMAIN active_peers
        /\ pending_connection_requests' =
              [pending_connection_requests EXCEPT ![s][u] = IF @ > 0 THEN @ - 1 ELSE 0]
        /\ UNCHANGED <<max_queue_size, initialized, receiving, received, arrivals, polled>>
    BY <1>4 DEF OnRemoteConnectionClosed, Notified, Idle
  <2>2. \/ UNCHANGED <<active_peers, socket_packet_queues>>
        \/ \E t \in DOMAIN active_peers : M!ClearedPacketsFromRemoteUser(t, u) \/ M!Unregistered(t)
    BY <1>4 DEF OnRemoteConnectionClosed, UnregisterIf
  <2>3. M!OnRemoteConnectionClosed(s, u)
    BY <2>1, <2>2 DEF M!OnRemoteConnectionClosed, M!network
  <2> QED
    BY <2>1, <2>3, StillOneAtATime DEF M!Next
<1> QED
  BY <1>1, <1>2, <1>3, <1>4 DEF Tick

LEMMA NextRefines == RefinementInv /\ [Next]_vars => [M!Next]_(M!vars) /\ OneAtATime'
<1> SUFFICES ASSUME RefinementInv, [Next]_vars
             PROVE  [M!Next]_(M!vars) /\ OneAtATime'
  OBVIOUS
<1>1. CASE UNCHANGED vars
  BY <1>1, MediatorUnchanged, StillOneAtATime DEF vars, mediatorVars, RefinementInv
<1>2. ASSUME NEW s \in Socket, NEW u \in User, RemoteStep(s, u) PROVE [M!Next]_(M!vars) /\ OneAtATime'
  BY <1>2, MediatorUnchanged, StillOneAtATime DEF RemoteStep, mediatorVars, RefinementInv
<1>3. ASSUME NEW s \in Socket, NEW u \in User, NEW e \in RemoteEvent, NEW i \in RemoteId, RemotePacket(s, u, e, i)
      PROVE  [M!Next]_(M!vars) /\ OneAtATime'
  <2>1. e \in M!Event /\ i \in PeerId
    BY EventAssumption DEF PeerId
  <2>2. M!PacketArrives(s, u, e, i) /\ UNCHANGED polled
    BY <1>3 DEF RemotePacket
  <2>3. UNCHANGED receiving
    BY <2>2 DEF M!PacketArrives
  <2>4. M!Next
    BY <2>1, <2>2 DEF M!Next
  <2> QED
    BY <2>2, <2>3, <2>4, StillOneAtATime DEF RefinementInv
<1>4. CASE Frame
  BY <1>4 DEF Frame, Idle, M!Next, RefinementInv, OneAtATime
<1>5. CASE FrameReceives
  <2>1. M!ReceivePacket /\ UNCHANGED polled
    BY <1>5 DEF FrameReceives
  <2>2. receiving
    BY <2>1 DEF M!ReceivePacket, M!NoPacketLeft, M!DropPacket, M!FilePacket
  <2> QED
    BY <2>1, <2>2 DEF M!Next, RefinementInv, OneAtATime
<1>6. CASE Login \/ Logout
  <2>1. (M!Login \/ M!Terminate) /\ UNCHANGED polled
    BY <1>6 DEF Login, Logout
  <2>2. UNCHANGED receiving
    BY <2>1 DEF M!Login, M!Terminate
  <2> QED
    BY <2>1, <2>2, StillOneAtATime DEF M!Next, RefinementInv
<1> QED
  BY <1>1, <1>2, <1>3, <1>4, <1>5, <1>6, ApplicationRefines, PollRefines, PollStepRefines, TickRefines DEF Next

\* The assumptions the mediator's theorems were proved from.
LEMMA MediatorAssumptions ==
  /\ QueueLimit \subseteq Nat /\ DefaultQueueLimit \in Nat \ {0}
  /\ MaxArrivals \in Nat /\ MaxHeld \in Nat
BY BoundAssumption

LEMMA MediatorInvStep ==
  ASSUME M!TypeOK, M!QueuesMatchPeers, M!NoRequestHeldBack, [M!Next]_(M!vars)
  PROVE  M!TypeOK' /\ M!QueuesMatchPeers' /\ M!NoRequestHeldBack'
<1>1. Proofs!TypeOK /\ Proofs!QueuesMatchPeers /\ Proofs!NoRequestHeldBack
  BY SameInvariants
<1>2. [Proofs!Next]_(Proofs!vars)
  BY SameNext
<1>3. Proofs!TypeOK'
  BY <1>1, <1>2, Proofs!TypeStep, MediatorAssumptions
<1>4. Proofs!QueuesMatchPeers' /\ Proofs!NoRequestHeldBack'
  BY <1>1, <1>2, Proofs!RegistryStep, MediatorAssumptions
<1> QED
  BY <1>3, <1>4, SameInvariants, PTL

LEMMA RefinementInvCorrect == Spec => []RefinementInv
<1>1. Init => RefinementInv
  <2>1. M!Init => M!TypeOK /\ M!QueuesMatchPeers /\ M!NoRequestHeldBack
    <3>1. Proofs!Init => Proofs!TypeOK /\ Proofs!QueuesMatchPeers /\ Proofs!NoRequestHeldBack
      BY Proofs!InitTypeOK, Proofs!InitRegistry, MediatorAssumptions
    <3> QED
      BY <3>1, SameInvariants
  <2>2. Init => OneAtATime
    BY EmptySeq DEF Init, M!Init, OneAtATime, NoPoll
  <2> QED
    BY <2>1, <2>2 DEF Init, RefinementInv
<1>2. RefinementInv /\ [Next]_vars => RefinementInv'
  BY NextRefines, MediatorInvStep DEF RefinementInv
<1> QED
  BY <1>1, <1>2, PTL DEF Spec

\* Whatever the instances and their application do - creating under taken
\* names, closing from inside peer_connected, forcing disconnections, being
\* freed - every behaviour is one of the mediator's specification.
THEOREM ImplementsMediator == Spec => MediatorSpec
<1>1. Init => M!Init
  BY DEF Init
<1>2. RefinementInv /\ [Next]_vars => [M!Next]_(M!vars)
  BY NextRefines
<1> QED
  BY <1>1, <1>2, RefinementInvCorrect, PTL DEF Spec, MediatorSpec, M!Spec

\* In the whole system, too, the registry and the queues agree and no request
\* waits at the mediator for a socket that is registered.
THEOREM RegistryHoldsForPeers == Spec => [](M!QueuesMatchPeers /\ M!NoRequestHeldBack)
<1>1. RefinementInv => M!QueuesMatchPeers /\ M!NoRequestHeldBack
  BY DEF RefinementInv
<1> QED
  BY <1>1, RefinementInvCorrect, PTL

LEMMA ArrivalOrderForPeers == Spec => []Proofs!ArrivalOrder
<1>1. Init => Proofs!ArrivalOrder
  <2>1. Proofs!Init => Proofs!ArrivalOrder
    BY Proofs!InitArrivalOrder, MediatorAssumptions
  <2> QED
    BY <2>1, SameInvariants DEF Init
<1>2. RefinementInv /\ Proofs!ArrivalOrder /\ [Next]_vars => Proofs!ArrivalOrder'
  <2> SUFFICES ASSUME RefinementInv, Proofs!ArrivalOrder, [Next]_vars PROVE Proofs!ArrivalOrder'
    OBVIOUS
  <2>1. [Proofs!Next]_(Proofs!vars)
    <3>1. [M!Next]_(M!vars)
      BY NextRefines
    <3> QED
      BY <3>1, SameNext
  <2>2. Proofs!TypeOK /\ Proofs!QueuesMatchPeers
    BY SameInvariants DEF RefinementInv
  <2> QED
    BY <2>1, <2>2, Proofs!ArrivalOrderStep, MediatorAssumptions
<1> QED
  BY <1>1, <1>2, RefinementInvCorrect, PTL DEF Spec

\* What an instance polls is in order: peer id packets first, all others as
\* they arrived.
THEOREM QueuesInOrderForPeers == Spec => [](M!PeerIdPacketsFirst /\ M!DeliveredInOrder)
<1>1. Proofs!ArrivalOrder => M!PeerIdPacketsFirst /\ M!DeliveredInOrder
  BY SameInvariants
<1> QED
  BY <1>1, ArrivalOrderForPeers, PTL

----------------------------------------------------------------------------
\* The invariants of EOSMultiplayerPeer, for any number of packets.  Where a
\* theorem needs more than the assumptions of the module - that instances are
\* not used twice, say - its statement assumes it.

----------------------------------------------------------------------------
\* Types

Peers == UNION {[D -> User] : D \in SUBSET (PeerId \ {0})}

InstanceType ==
    [active_mode : Mode, connection_status : ConnectionStatus, unique_id : PeerId, peers : Peers,
     requests : [User -> Nat], socket : SocketName, incoming_packets : Seq(IncomingPacket),
     polling : BOOLEAN, auto_accept : BOOLEAN, refusing : BOOLEAN, alive : BOOLEAN]

TypeInv ==
    /\ instance \in [Peer -> InstanceType]
    /\ link \in [Socket -> [User -> Link]]
    /\ \A p \in Peer : IsActive(instance[p]) => instance[p].socket \in Socket

\* A function on ids is in Peers whatever its domain.
LEMMA PeersType ==
  ASSUME NEW f PROVE f \in Peers <=> f \in [DOMAIN f -> User] /\ DOMAIN f \subseteq PeerId \ {0}
<1>1. ASSUME f \in Peers PROVE f \in [DOMAIN f -> User] /\ DOMAIN f \subseteq PeerId \ {0}
  <2>1. PICK D \in SUBSET (PeerId \ {0}) : f \in [D -> User]
    BY <1>1 DEF Peers
  <2> QED
    BY <2>1
<1>2. ASSUME f \in [DOMAIN f -> User], DOMAIN f \subseteq PeerId \ {0} PROVE f \in Peers
  BY <1>2 DEF Peers
<1> QED
  BY <1>1, <1>2

LEMMA RestrictType ==
  ASSUME NEW f \in Peers, NEW D PROVE Restrict(f, DOMAIN f \ D) \in Peers
<1>1. f \in [DOMAIN f -> User] /\ DOMAIN f \subseteq PeerId \ {0}
  BY PeersType
<1>2. Restrict(f, DOMAIN f \ D) = [x \in DOMAIN f \ D |-> f[x]]
  BY DEF Restrict
<1>3. /\ DOMAIN Restrict(f, DOMAIN f \ D) = DOMAIN f \ D
      /\ Restrict(f, DOMAIN f \ D) \in [DOMAIN f \ D -> User]
  BY <1>1, <1>2
<1> QED
  BY <1>1, <1>3, PeersType

LEMMA InsertType ==
  ASSUME NEW f \in Peers, NEW i \in PeerId \ {0}, NEW u \in User PROVE M!Insert(f, i, u) \in Peers
<1>1. f \in [DOMAIN f -> User] /\ DOMAIN f \subseteq PeerId \ {0}
  BY PeersType
<1>2. M!Insert(f, i, u) = [x \in DOMAIN f \cup {i} |-> IF x = i THEN u ELSE f[x]]
  BY DEF M!Insert
<1>3. /\ DOMAIN M!Insert(f, i, u) = DOMAIN f \cup {i}
      /\ M!Insert(f, i, u) \in [DOMAIN f \cup {i} -> User]
  BY <1>1, <1>2
<1> QED
  BY <1>1, <1>3, PeersType

\* What is left of an inbox are packets of it, in their order.
LEMMA InboxWithoutProperties ==
  ASSUME NEW inbox \in Seq(IncomingPacket), NEW ids
  PROVE  /\ InboxWithout(inbox, ids) \in Seq(IncomingPacket)
         /\ \E place \in [1..Len(InboxWithout(inbox, ids)) -> 1..Len(inbox)] :
               /\ \A j, k \in 1..Len(InboxWithout(inbox, ids)) : j < k => place[j] < place[k]
               /\ \A k \in 1..Len(InboxWithout(inbox, ids)) : InboxWithout(inbox, ids)[k] = inbox[place[k]]
<1> DEFINE I == {i \in 1..Len(inbox) : inbox[i].peer_id \notin ids}
           kept == M!InOrder(I)
<1>1. Len(inbox) \in Nat /\ I \in SUBSET (1..Len(inbox))
  OBVIOUS
<1>2. InboxWithout(inbox, ids) = [k \in DOMAIN kept |-> inbox[kept[k]]]
  BY DEF InboxWithout
<1> HIDE DEF I
<1>3. /\ kept \in [1..Cardinality(I) -> I]
      /\ \A j, k \in 1..Cardinality(I) : j < k => kept[j] < kept[k]
  <2>1. Proofs!Enumerates(Proofs!InOrder(I), I)
    BY <1>1, Proofs!InOrderEnumerates, MediatorAssumptions
  <2>2. Proofs!Cardinality(I) = Cardinality(I) /\ M!Cardinality(I) = Cardinality(I)
    BY DEF Proofs!Cardinality, M!Cardinality, Cardinality
  <2>3. Proofs!InOrder(I) = kept
    BY <2>2 DEF Proofs!InOrder, M!InOrder
  <2> QED
    BY <2>1, <2>2, <2>3 DEF Proofs!Enumerates
<1>4. Cardinality(I) \in Nat
  <2>1. IsFiniteSet(1..Len(inbox))
    BY <1>1, FS_Interval
  <2> QED
    BY <1>1, <2>1, FS_Subset, FS_CardinalityType
<1> HIDE DEF kept
<1>5. \A k \in 1..Cardinality(I) : kept[k] \in 1..Len(inbox) /\ inbox[kept[k]] \in IncomingPacket
  BY <1>1, <1>3, ElementOfSeq
<1>6. /\ InboxWithout(inbox, ids) \in Seq(IncomingPacket)
      /\ Len(InboxWithout(inbox, ids)) = Cardinality(I)
  BY <1>2, <1>3, <1>4, <1>5
<1>7. kept \in [1..Cardinality(I) -> 1..Len(inbox)]
  BY <1>3, <1>5
<1> QED
  BY <1>2, <1>3, <1>6, <1>7

LEMMA NewInstanceType == NewInstance \in InstanceType
<1>1. << >> \in Peers
  <2>1. DOMAIN << >> = {} /\ << >> \in [{} -> User]
    OBVIOUS
  <2> QED
    BY <2>1, PeersType
<1> QED
  BY <1>1, EmptySeq DEF NewInstance, InstanceType, Mode, ConnectionStatus, PeerId, NoRequests, SocketName

LEMMA ResetType == ASSUME NEW x \in InstanceType PROVE Reset(x) \in InstanceType
BY EmptySeq DEF Reset, InstanceType, Mode, ConnectionStatus, PeerId, NoRequests

LEMMA HostingType ==
  ASSUME TypeInv, NEW p \in Peer, NEW s \in SocketName, NEW mode \in {"MODE_SERVER", "MODE_MESH"}, NEW id \in PeerId
  PROVE  Hosting(p, s, mode, id) \in InstanceType
<1>1. PICK x \in InstanceType : x = instance[p]
  BY DEF TypeInv
<1>2. mode \in Mode /\ "CONNECTION_CONNECTED" \in ConnectionStatus
  BY DEF Mode, ConnectionStatus
<1>3. (IF mode = "MODE_SERVER" THEN FALSE ELSE x.refusing) \in BOOLEAN
  BY DEF InstanceType
<1>4. [x EXCEPT !.active_mode = mode, !.connection_status = "CONNECTION_CONNECTED",
                !.unique_id = id, !.polling = TRUE, !.socket = s, !.incoming_packets = << >>,
                !.refusing = IF mode = "MODE_SERVER" THEN FALSE ELSE @] \in InstanceType
  BY <1>2, <1>3, EmptySeq DEF InstanceType
<1> QED
  BY <1>1, <1>4 DEF Hosting

LEMMA DiallingType ==
  ASSUME TypeInv, NEW p \in Peer, NEW s \in SocketName
  PROVE  Dialling(p, s) \in InstanceType
<1>1. PICK x \in InstanceType : x = instance[p]
  BY DEF TypeInv
<1>2. [x EXCEPT !.polling = TRUE, !.refusing = FALSE, !.socket = s, !.incoming_packets = << >>]
         \in InstanceType
  BY EmptySeq DEF InstanceType
<1> QED
  BY <1>1, <1>2 DEF Dialling

LEMMA ClientType ==
  ASSUME NEW x \in InstanceType, NEW id \in PeerId
  PROVE  Client(x, id) \in InstanceType
BY DEF Client, InstanceType, Mode, ConnectionStatus

LEMMA RequestsTakenType ==
  ASSUME NEW x \in InstanceType, NEW asked \in [User -> Nat]
  PROVE  RequestsTaken(x, asked) \in InstanceType
<1>1. [u \in User |-> x.requests[u] + asked[u]] \in [User -> Nat]
  BY DEF InstanceType
<1> QED
  BY <1>1 DEF RequestsTaken, InstanceType

LEMMA WithoutUserType ==
  ASSUME NEW x \in InstanceType, NEW u
  PROVE  WithoutUser(x, u) \in Peers
BY RestrictType DEF WithoutUser, InstanceType

LEMMA WithoutRemoteUserType ==
  ASSUME NEW x \in InstanceType, NEW u \in User
  PROVE  WithoutRemoteUser(x, u) \in InstanceType
<1>1. WithoutUser(x, u) \in Peers
  BY WithoutUserType
<1>2. InboxWithout(x.incoming_packets, IdsOf(x, u)) \in Seq(IncomingPacket)
  BY InboxWithoutProperties DEF InstanceType
<1>3. [x.requests EXCEPT ![u] = IF @ > 0 THEN @ - 1 ELSE 0] \in [User -> Nat]
  BY DEF InstanceType
<1> QED
  BY <1>1, <1>2, <1>3 DEF WithoutRemoteUser, InstanceType

\* What can be done to a link.
LEMMA LinkType ==
  ASSUME NEW l \in Link
  PROVE  /\ Sent(l) \in Link /\ Accepted(l) \in Link /\ Closed(l) \in Link
         /\ RemoteRequested(l) \in Link /\ RemoteAccepted(l) \in Link /\ RemoteClosed(l) \in Link
         /\ l.notices # << >> => Dispatched(l) \in Link
<1>1. ASSUME NEW status \in Status, NEW notice \in Notice PROVE Moved(l, status, notice) \in Link
  BY AppendProperties DEF Moved, Link
<1>2. [l EXCEPT !.status = "outgoing"] \in Link
  BY DEF Link, Status
<1>3. l.notices # << >> => Dispatched(l) \in Link
  BY HeadTailProperties DEF Dispatched, Link
<1>4. /\ "open" \in Status /\ "none" \in Status /\ "incoming" \in Status
      /\ "established" \in Notice /\ "closed_by_local_user" \in Notice /\ "request" \in Notice
      /\ "closed_by_remote" \in Notice
  BY DEF Status, Notice
<1> QED
  BY <1>1, <1>2, <1>3, <1>4 DEF Sent, Accepted, Closed, RemoteRequested, RemoteAccepted, RemoteClosed

LEMMA NoLinkType == NoLink \in Link
BY EmptySeq DEF NoLink, Link, Status

Links == [Socket -> [User -> Link]]

LEMMA SocketClosedType == ASSUME NEW ln \in Links, NEW s PROVE SocketClosed(ln, s) \in Links
BY LinkType DEF SocketClosed, Links

LEMMA RequestsAcceptedType ==
  ASSUME NEW ln \in Links, NEW x, NEW s, NEW asked PROVE RequestsAccepted(ln, x, s, asked) \in Links
BY LinkType DEF RequestsAccepted, Links

\* A step that changes one instance.
LEMMA OneInstanceTyped ==
  ASSUME TypeInv, NEW p \in Peer, NEW y \in InstanceType, IsActive(y) => y.socket \in Socket,
         instance' = [instance EXCEPT ![p] = y], link' \in Links
  PROVE  TypeInv'
BY DEF TypeInv, Links

LEMMA NoInstanceTyped == ASSUME TypeInv, UNCHANGED instance, link' \in Links PROVE TypeInv'
BY DEF TypeInv, Links

\* One link of an active instance's socket.
LEMMA OneLinkTyped ==
  ASSUME TypeInv, NEW s, NEW u, NEW l, s \in Socket /\ u \in User => l \in Link,
         link' = [link EXCEPT ![s][u] = l]
  PROVE  link' \in Links
BY DEF TypeInv, Links

LEMMA InstanceFacts ==
  ASSUME TypeInv, NEW p \in Peer
  PROVE  /\ instance[p] \in InstanceType
         /\ DOMAIN instance[p].peers \subseteq PeerId \ {0}
         /\ \A i \in DOMAIN instance[p].peers : instance[p].peers[i] \in User
         /\ IsActive(instance[p]) => instance[p].socket \in Socket
<1>1. instance[p] \in InstanceType /\ instance[p].peers \in Peers
  BY DEF TypeInv, InstanceType
<1> QED
  BY <1>1, PeersType DEF TypeInv

LEMMA CreateTyped ==
  ASSUME TypeInv, M!TypeOK, NEW p \in Peer,
         \/ \E s \in Socket, mode \in {"MODE_SERVER", "MODE_MESH"} : CreateHost(p, s, mode)
         \/ \E s \in SocketName, mode \in {"MODE_SERVER", "MODE_MESH"} : CreateHostFails(p, s, mode)
         \/ \E s \in Socket, u \in User : CreateClient(p, s, u)
         \/ \E s \in Socket : CreateClientCannotSend(p, s)
         \/ \E s \in SocketName : CreateClientFails(p, s)
  PROVE  TypeInv'
<1>0. link \in Links /\ ServerId \in PeerId /\ GeneratedId \subseteq PeerId /\ Socket \subseteq SocketName
  BY DEF TypeInv, Links, PeerId, SocketName
<1>1. ASSUME NEW s \in Socket, NEW mode \in {"MODE_SERVER", "MODE_MESH"}, CreateHost(p, s, mode) PROVE TypeInv'
  <2>1. PICK id \in HostIds(mode) :
           /\ instance' = [instance EXCEPT ![p] = RequestsTaken(Hosting(p, s, mode, id), pending_connection_requests[s])]
           /\ link' = RequestsAccepted(link, Hosting(p, s, mode, id), s, pending_connection_requests[s])
    BY <1>1 DEF CreateHost
  <2>2. id \in PeerId
    BY <1>0 DEF HostIds
  <2>3. Hosting(p, s, mode, id) \in InstanceType /\ Hosting(p, s, mode, id).socket = s
    <3>1. Hosting(p, s, mode, id) \in InstanceType
      BY <1>0, <2>2, HostingType
    <3> QED
      BY <3>1 DEF Hosting, TypeInv, InstanceType
  <2>4. pending_connection_requests[s] \in [User -> Nat]
    BY DEF M!TypeOK
  <2>5. /\ RequestsTaken(Hosting(p, s, mode, id), pending_connection_requests[s]) \in InstanceType
        /\ RequestsTaken(Hosting(p, s, mode, id), pending_connection_requests[s]).socket = s
    <3>1. RequestsTaken(Hosting(p, s, mode, id), pending_connection_requests[s]) \in InstanceType
      BY <2>3, <2>4, RequestsTakenType
    <3> QED
      BY <2>3, <3>1 DEF RequestsTaken, InstanceType
  <2> QED
    BY <1>0, <2>1, <2>5, RequestsAcceptedType, OneInstanceTyped
<1>2. ASSUME NEW s \in SocketName, NEW mode \in {"MODE_SERVER", "MODE_MESH"}, CreateHostFails(p, s, mode)
      PROVE  TypeInv'
  <2>1. Reset(Hosting(p, s, mode, ServerId)) \in InstanceType
    BY <1>0, HostingType, ResetType
  <2>2. ~IsActive(Reset(Hosting(p, s, mode, ServerId)))
    BY <2>1 DEF Reset, IsActive, InstanceType
  <2>3. link' \in Links
    BY <1>0, <1>2, SocketClosedType DEF CreateHostFails
  <2> QED
    BY <1>2, <2>1, <2>2, <2>3, OneInstanceTyped DEF CreateHostFails
<1>3. ASSUME NEW s \in Socket, NEW u \in User, CreateClient(p, s, u) PROVE TypeInv'
  <2> DEFINE x == RequestsTaken(Dialling(p, s), pending_connection_requests[s])
  <2>1. PICK id \in GeneratedId : instance' = [instance EXCEPT ![p] = Client(x, id)]
    BY <1>3 DEF CreateClient
  <2>2. Dialling(p, s) \in InstanceType /\ Dialling(p, s).socket = s
    <3>1. Dialling(p, s) \in InstanceType
      BY <1>0, DiallingType
    <3> QED
      BY <3>1 DEF Dialling, TypeInv, InstanceType
  <2>3. pending_connection_requests[s] \in [User -> Nat]
    BY DEF M!TypeOK
  <2>4. x \in InstanceType /\ x.socket = s
    <3>1. x \in InstanceType
      BY <2>2, <2>3, RequestsTakenType
    <3> QED
      BY <2>2, <3>1 DEF RequestsTaken, InstanceType
  <2> HIDE DEF x
  <2>5. Client(x, id) \in InstanceType /\ Client(x, id).socket = s
    <3>1. Client(x, id) \in InstanceType
      BY <1>0, <2>4, ClientType
    <3> QED
      BY <2>4, <3>1 DEF Client, InstanceType
  <2>6. link' \in Links
    <3>1. link' = [link EXCEPT ![s][u] = Sent(link[s][u])]
      BY <1>3 DEF CreateClient
    <3>2. Sent(link[s][u]) \in Link
      BY LinkType DEF TypeInv
    <3> QED
      BY <3>1, <3>2, OneLinkTyped
  <2> QED
    BY <2>1, <2>5, <2>6, OneInstanceTyped
<1>4. ASSUME NEW s \in Socket, CreateClientCannotSend(p, s) PROVE TypeInv'
  <2>1. Reset(Dialling(p, s)) \in InstanceType
    BY <1>0, DiallingType, ResetType
  <2>2. ~IsActive(Reset(Dialling(p, s)))
    BY <2>1 DEF Reset, IsActive, InstanceType
  <2>3. link' \in Links
    BY <1>0, <1>4, SocketClosedType DEF CreateClientCannotSend
  <2> QED
    BY <1>4, <2>1, <2>2, <2>3, OneInstanceTyped DEF CreateClientCannotSend
<1>5. ASSUME NEW s \in SocketName, CreateClientFails(p, s) PROVE TypeInv'
  <2>1. Dialling(p, s) \in InstanceType /\ ~IsActive(Dialling(p, s))
    <3>1. Dialling(p, s) \in InstanceType
      BY <1>0, DiallingType
    <3> QED
      BY <1>5, <3>1 DEF Dialling, TypeInv, InstanceType, CreateClientFails, MayCreate, IsActive
  <2> QED
    BY <1>0, <1>5, <2>1, OneInstanceTyped DEF CreateClientFails
<1> QED
  BY <1>1, <1>2, <1>3, <1>4, <1>5

\* A _close of an instance, whatever else it does.
LEMMA ClosingTyped ==
  ASSUME TypeInv, NEW p \in Peer, Closing(p) PROVE link' \in Links
BY SocketClosedType DEF Closing, TypeInv, Links

LEMMA AnswerTyped ==
  ASSUME TypeInv, NEW p \in Peer, NEW u \in User,
         AcceptConnectionRequest(p, u) \/ DenyConnectionRequest(p, u)
  PROVE  TypeInv'
<1> DEFINE x == instance[p]
           y == [x EXCEPT !.requests[u] = @ - 1]
<1>1. x \in InstanceType /\ IsHost(x) /\ x.requests[u] > 0
  BY InstanceFacts DEF AcceptConnectionRequest, DenyConnectionRequest, AnswerRequest
<1>2. x.socket \in Socket
  BY <1>1 DEF IsHost, IsActive, TypeInv
<1>3. y \in InstanceType /\ y.socket = x.socket
  <2>1. [x.requests EXCEPT ![u] = @ - 1] \in [User -> Nat]
    BY <1>1 DEF InstanceType
  <2> QED
    BY <1>1, <2>1 DEF InstanceType
<1>4. instance' = [instance EXCEPT ![p] = y]
  BY DEF AcceptConnectionRequest, DenyConnectionRequest, AnswerRequest
<1>5. link' \in Links
  <2>1. link[x.socket][u] \in Link
    BY <1>2 DEF TypeInv
  <2>2. \/ link' = [link EXCEPT ![x.socket][u] = Accepted(link[x.socket][u])]
        \/ link' = [link EXCEPT ![x.socket][u] = Closed(link[x.socket][u])]
    BY DEF AcceptConnectionRequest, DenyConnectionRequest, AnswerRequest
  <2> QED
    BY <2>1, <2>2, LinkType, OneLinkTyped
<1> HIDE DEF y
<1> QED
  BY <1>2, <1>3, <1>4, <1>5, OneInstanceTyped

LEMMA AnswerAllTyped ==
  ASSUME TypeInv, NEW p \in Peer, AcceptAllConnectionRequests(p) \/ DenyAllConnectionRequests(p)
  PROVE  TypeInv'
<1> DEFINE x == instance[p]
<1>1. PICK reached \in SUBSET User :
         /\ AnswerAll(p, reached)
         /\ \/ /\ link' = [link EXCEPT ![x.socket] = [u \in User |-> IF u \in reached THEN Accepted(@[u]) ELSE @[u]]]
               /\ instance' = [instance EXCEPT ![p].requests = [u \in User |-> IF u \in reached THEN @[u] - 1 ELSE @[u]]]
            \/ /\ link' = [link EXCEPT ![x.socket] = [u \in User |-> IF u \in reached THEN Closed(@[u]) ELSE @[u]]]
               /\ instance' = [instance EXCEPT ![p].requests = NoRequests]
  BY DEF AcceptAllConnectionRequests, DenyAllConnectionRequests
<1>2. x \in InstanceType /\ IsHost(x) /\ \A u \in reached : x.requests[u] > 0
  BY <1>1, InstanceFacts DEF AnswerAll
<1>3. x.socket \in Socket
  BY <1>2 DEF IsHost, IsActive, TypeInv
<1>4. PICK r \in [User -> Nat] : instance' = [instance EXCEPT ![p] = [x EXCEPT !.requests = r]]
  <2>1. [u \in User |-> IF u \in reached THEN x.requests[u] - 1 ELSE x.requests[u]] \in [User -> Nat]
    BY <1>2 DEF InstanceType
  <2>2. NoRequests \in [User -> Nat]
    BY DEF NoRequests
  <2> QED
    BY <1>1, <2>1, <2>2
<1>5. [x EXCEPT !.requests = r] \in InstanceType /\ [x EXCEPT !.requests = r].socket = x.socket
  BY <1>2 DEF InstanceType
<1>6. link' \in Links
  <2>1. \A u \in User : link[x.socket][u] \in Link
    BY <1>3 DEF TypeInv
  <2>2. /\ [u \in User |-> IF u \in reached THEN Accepted(link[x.socket][u]) ELSE link[x.socket][u]] \in [User -> Link]
        /\ [u \in User |-> IF u \in reached THEN Closed(link[x.socket][u]) ELSE link[x.socket][u]] \in [User -> Link]
    BY <2>1, LinkType
  <2>3. PICK l \in [User -> Link] : link' = [link EXCEPT ![x.socket] = l]
    BY <1>1, <2>2
  <2> QED
    BY <2>3 DEF TypeInv, Links
<1> QED
  BY <1>3, <1>4, <1>5, <1>6, OneInstanceTyped

LEMMA ApplicationTyped ==
  ASSUME TypeInv, RefinementInv, NEW p \in Peer, Application(p)
  PROVE  TypeInv'
<1> DEFINE x == instance[p]
<1>1. /\ x \in InstanceType /\ x.peers \in Peers /\ link \in Links /\ M!TypeOK
      /\ \A i \in DOMAIN x.peers : x.peers[i] \in User
      /\ IsActive(x) => x.socket \in Socket
  BY InstanceFacts DEF TypeInv, Links, InstanceType, RefinementInv
<1>2. ASSUME NEW u \in User, AddMeshPeer(p, u) PROVE TypeInv'
  <2>1. x.socket \in Socket
    BY <1>1, <1>2 DEF AddMeshPeer, IsActive
  <2>2. Sent(link[x.socket][u]) \in Link
    BY <1>1, <2>1, LinkType DEF Links
  <2>3. link' = [link EXCEPT ![x.socket][u] = Sent(link[x.socket][u])] /\ UNCHANGED instance
    BY <1>2 DEF AddMeshPeer
  <2> QED
    BY <2>2, <2>3, OneLinkTyped, NoInstanceTyped
<1>3. CASE Close(p)
  <2>1. Reset(x) \in InstanceType /\ ~IsActive(Reset(x))
    BY <1>1, ResetType DEF Reset, IsActive, InstanceType
  <2> QED
    BY <1>3, <2>1, ClosingTyped, OneInstanceTyped DEF Close
<1>4. CASE Free(p)
  <2> DEFINE y == [(IF IsActive(x) THEN Reset(x) ELSE x) EXCEPT !.alive = FALSE]
  <2>1. Reset(x) \in InstanceType /\ ~IsActive(Reset(x))
    BY <1>1, ResetType DEF Reset, IsActive, InstanceType
  <2>2. y \in InstanceType /\ ~IsActive(y)
    BY <1>1, <2>1 DEF InstanceType, IsActive
  <2>3. link' \in Links
    BY <1>1, <1>4, ClosingTyped DEF Free
  <2>4. instance' = [instance EXCEPT ![p] = y]
    BY <1>4 DEF Free
  <2> HIDE DEF y
  <2> QED
    BY <2>2, <2>3, <2>4, OneInstanceTyped
<1>5. ASSUME NEW i \in PeerId, NEW force \in Forcible, DisconnectPeer(p, i, force) PROVE TypeInv'
  <2>1. x.socket \in Socket /\ x.peers[i] \in User
    BY <1>1, <1>5 DEF DisconnectPeer
  <2>2. link' \in Links
    <3>1. Closed(link[x.socket][x.peers[i]]) \in Link
      BY <1>1, <2>1, LinkType DEF Links
    <3>2. link' = [link EXCEPT ![x.socket][x.peers[i]] = Closed(link[x.socket][x.peers[i]])]
      BY <1>5 DEF DisconnectPeer
    <3> QED
      BY <3>1, <3>2, OneLinkTyped
  <2>3. CASE force
    <3> DEFINE y == [x EXCEPT !.peers = Restrict(@, DOMAIN @ \ {i})]
    <3>1. Restrict(x.peers, DOMAIN x.peers \ {i}) \in Peers
      BY <1>1, RestrictType
    <3>2. y \in InstanceType /\ y.socket = x.socket
      BY <1>1, <3>1 DEF InstanceType
    <3>3. instance' = [instance EXCEPT ![p] = y]
      BY <1>5, <2>3 DEF DisconnectPeer
    <3> HIDE DEF y
    <3> QED
      BY <2>1, <2>2, <3>2, <3>3, OneInstanceTyped
  <2>4. CASE ~force
    BY <1>5, <2>2, <2>4, NoInstanceTyped DEF DisconnectPeer
  <2> QED
    BY <2>3, <2>4
<1>6. ASSUME NEW field \in {"auto_accept", "refusing", "polling"}, NEW value \in BOOLEAN, Set(p, field, value)
      PROVE  TypeInv'
  <2>1. [x EXCEPT ![field] = value] \in InstanceType
    BY <1>1, <1>6 DEF InstanceType
  <2>2. /\ [x EXCEPT ![field] = value].socket = x.socket
        /\ [x EXCEPT ![field] = value].active_mode = x.active_mode
    BY <1>1, <1>6 DEF InstanceType
  <2>3. instance' = [instance EXCEPT ![p] = [x EXCEPT ![field] = value]] /\ UNCHANGED link
    BY <1>6 DEF Set
  <2> QED
    BY <1>1, <2>1, <2>2, <2>3, OneInstanceTyped DEF IsActive
<1>7. CASE GetPacket(p)
  <2>1. Tail(x.incoming_packets) \in Seq(IncomingPacket)
    BY <1>1, <1>7, HeadTailProperties DEF GetPacket, InstanceType
  <2>2. [x EXCEPT !.incoming_packets = Tail(@)] \in InstanceType
    BY <1>1, <2>1 DEF InstanceType
  <2>3. /\ [x EXCEPT !.incoming_packets = Tail(@)].socket = x.socket
        /\ [x EXCEPT !.incoming_packets = Tail(@)].active_mode = x.active_mode
    BY <1>1 DEF InstanceType
  <2>4. instance' = [instance EXCEPT ![p] = [x EXCEPT !.incoming_packets = Tail(@)]] /\ UNCHANGED link
    BY <1>7 DEF GetPacket
  <2> QED
    BY <1>1, <2>2, <2>3, <2>4, OneInstanceTyped DEF IsActive
<1>8. CASE PutPacket(p)
  <2>1. PICK reached : link' = [link EXCEPT ![x.socket] =
           [u \in User |-> IF \E i \in reached : x.peers[i] = u THEN Sent(@[u]) ELSE @[u]]]
    BY <1>8 DEF PutPacket
  <2>2. link' \in Links
    BY <1>1, <2>1, LinkType DEF Links
  <2> QED
    BY <1>8, <2>2, NoInstanceTyped DEF PutPacket
<1>9. \A b \in AutoAccept \cup Refuse \cup Polling : b \in BOOLEAN
  BY SettingAssumption
<1> HIDE DEF x
<1> QED
  BY <1>1, <1>2, <1>3, <1>4, <1>5, <1>6, <1>7, <1>8, <1>9, CreateTyped, AnswerTyped, AnswerAllTyped DEF Application

\* The packet _poll is at: one of the mediator's.
LEMMA PolledFacts ==
  ASSUME OneAtATime, NEW event \in M!Event, Handling(event)
  PROVE  polled.by \in Peer /\ Head(polled.packets) \in M!Packet
<1>1. polled.packets # << >> /\ Head(polled.packets).event = event
  BY DEF Handling
<1>2. polled.by \in Peer
  BY <1>1 DEF OneAtATime
<1>3. Head(polled.packets) \in M!Packet \cup {NullPacket}
  BY <1>1, HeadTailProperties DEF OneAtATime
<1>4. NullPacket.event = "null" /\ "null" \notin M!Event
  BY DEF NullPacket, M!Event
<1> QED
  BY <1>1, <1>2, <1>3, <1>4

LEMMA Events ==
  "EVENT_STORE_PACKET" \in M!Event /\ "EVENT_RECEIVE_PEER_ID" \in M!Event
BY DEF M!Event

LEMMA PollStepTyped ==
  ASSUME TypeInv, RefinementInv, PollStep
  PROVE  TypeInv'
<1> DEFINE p == polled.by
           x == instance[p]
           m == Head(polled.packets)
<1>0. link \in Links /\ OneAtATime
  BY DEF TypeInv, Links, RefinementInv
<1>1. CASE PollStorePacket
  <2>1. p \in Peer /\ m \in M!Packet
    BY <1>0, <1>1, Events, PolledFacts DEF PollStorePacket
  <2>2. [peer_id |-> m.peer_id, n |-> m.n] \in IncomingPacket
    BY <2>1 DEF M!Packet, IncomingPacket
  <2>3. x \in InstanceType
    BY <2>1, InstanceFacts
  <2> DEFINE y == [x EXCEPT !.incoming_packets = Stored(@, m)]
  <2>4. Stored(x.incoming_packets, m) \in Seq(IncomingPacket)
    BY <2>2, <2>3, AppendProperties DEF Stored, InstanceType
  <2>5. y \in InstanceType /\ y.socket = x.socket /\ y.active_mode = x.active_mode
    BY <2>3, <2>4 DEF InstanceType
  <2>6. instance' = [instance EXCEPT ![p] = y] \/ UNCHANGED instance
    BY <1>1 DEF PollStorePacket
  <2>7. link' \in Links
    BY <1>0, <1>1 DEF PollStorePacket
  <2>8. IsActive(y) => y.socket \in Socket
    BY <2>1, <2>5, InstanceFacts DEF IsActive
  <2> HIDE DEF y, p
  <2> QED
    BY <2>1, <2>5, <2>6, <2>7, <2>8, OneInstanceTyped, NoInstanceTyped
<1>2. CASE PollNotAServer
  <2>1. p \in Peer /\ x \in InstanceType
    BY <1>0, <1>2, Events, PolledFacts, InstanceFacts DEF PollNotAServer
  <2>2. Reset(x) \in InstanceType /\ ~IsActive(Reset(x))
    BY <2>1, ResetType DEF Reset, IsActive, InstanceType
  <2>3. link' \in Links
    BY <1>2, <2>1, ClosingTyped DEF PollNotAServer
  <2>4. instance' = [instance EXCEPT ![p] = Reset(x)]
    BY <1>2 DEF PollNotAServer
  <2> QED
    BY <2>1, <2>2, <2>3, <2>4, OneInstanceTyped
<1>3. CASE PollInvalidPeerId
  <2>1. link' = [link EXCEPT ![x.socket][m.sender] = Closed(link[x.socket][m.sender])] /\ UNCHANGED instance
    BY <1>3 DEF PollInvalidPeerId
  <2>2. x.socket \in Socket /\ m.sender \in User => Closed(link[x.socket][m.sender]) \in Link
    BY <1>0, LinkType DEF Links
  <2> QED
    BY <2>1, <2>2, OneLinkTyped, NoInstanceTyped
<1>4. CASE PollPeerId
  <2>1. p \in Peer /\ x \in InstanceType /\ m \in M!Packet
    BY <1>0, <1>4, Events, PolledFacts, InstanceFacts DEF PollPeerId
  <2>2. m.peer_id \in PeerId \ {0} /\ m.sender \in User
    <3>1. m.peer_id \in PeerId /\ m.sender \in User
      BY <2>1 DEF M!Packet
    <3>2. ~(m.peer_id < 1)
      BY <1>4 DEF PollPeerId, Invalid
    <3> QED
      BY <3>1, <3>2
  <2>3. M!Insert(WithoutUser(x, m.sender), m.peer_id, m.sender) \in Peers
    BY <2>1, <2>2, WithoutUserType, InsertType
  <2> DEFINE y == [x EXCEPT !.peers = M!Insert(WithoutUser(x, m.sender), m.peer_id, m.sender),
                            !.connection_status =
                               IF x.active_mode = "MODE_CLIENT" THEN "CONNECTION_CONNECTED" ELSE @]
  <2>4. y \in InstanceType /\ y.socket = x.socket /\ y.active_mode = x.active_mode
    BY <2>1, <2>3 DEF InstanceType, ConnectionStatus
  <2>5. instance' = [instance EXCEPT ![p] = y] /\ link' \in Links
    BY <1>0, <1>4, <2>1 DEF PollPeerId, TypeInv
  <2>6. IsActive(y) => y.socket \in Socket
    BY <2>1, <2>4, InstanceFacts DEF IsActive
  <2> HIDE DEF y, p
  <2> QED
    BY <2>1, <2>4, <2>5, <2>6, OneInstanceTyped
<1>5. CASE PollMeshConnectionRequest \/ PollUnwantedPeerId \/ PollReturns
  BY <1>0, <1>5, NoInstanceTyped DEF PollMeshConnectionRequest, PollUnwantedPeerId, PollReturns
<1> QED
  BY <1>1, <1>2, <1>3, <1>4, <1>5 DEF PollStep

LEMMA TickTyped ==
  ASSUME TypeInv, RefinementInv, NEW s \in Socket, NEW u \in User, Tick(s, u)
  PROVE  TypeInv'
<1>0. link \in Links /\ M!TypeOK
  BY DEF TypeInv, Links, RefinementInv
<1>1. LinkDispatched(s, u) \in Links
  <2>1. link[s][u].notices # << >>
    BY DEF Tick, OnHeldConnectionRequest, OnConnectionRequest, OnPeerConnectionEstablished,
           OnUnregisteredConnectionClosed, OnRemoteConnectionClosed, Notified
  <2>2. Dispatched(link[s][u]) \in Link
    BY <1>0, <2>1, LinkType DEF Links
  <2> QED
    BY <1>0, <2>2 DEF LinkDispatched, Links
<1>2. ASSUME s \in DOMAIN active_peers
      PROVE  active_peers[s] \in Peer /\ instance[active_peers[s]] \in InstanceType
  BY <1>0, <1>2, InstanceFacts DEF M!TypeOK
<1>3. CASE OnHeldConnectionRequest(s, u)
  BY <1>1, <1>3, NoInstanceTyped DEF OnHeldConnectionRequest
<1>4. CASE OnConnectionRequest(s, u)
  <2> DEFINE p == active_peers[s]
             asked == [NoRequests EXCEPT ![u] = 1]
             y == RequestsTaken(instance[p], asked)
  <2>1. s \in DOMAIN active_peers
    BY <1>4 DEF OnConnectionRequest
  <2>2. p \in Peer /\ instance[p] \in InstanceType
    BY <1>2, <2>1
  <2>3. asked \in [User -> Nat]
    BY DEF NoRequests
  <2>4. y \in InstanceType
    BY <2>2, <2>3, RequestsTakenType
  <2>5. y.socket = instance[p].socket /\ y.active_mode = instance[p].active_mode
    BY <2>2 DEF RequestsTaken, InstanceType
  <2>6. instance' = [instance EXCEPT ![p] = y] /\ link' = RequestsAccepted(LinkDispatched(s, u), instance[p], instance[p].socket, asked)
    BY <1>4 DEF OnConnectionRequest
  <2>7. link' \in Links
    BY <1>1, <2>6, RequestsAcceptedType
  <2>8. IsActive(y) => y.socket \in Socket
    BY <2>2, <2>5, InstanceFacts DEF IsActive
  <2> HIDE DEF y, p
  <2> QED
    BY <2>2, <2>4, <2>6, <2>7, <2>8, OneInstanceTyped
<1>5. CASE OnPeerConnectionEstablished(s, u)
  <2> DEFINE t == instance[active_peers[s]].socket
  <2>1. \/ link' = LinkDispatched(s, u)
        \/ t \in Socket /\ link' = [LinkDispatched(s, u) EXCEPT ![t][u] = Sent(@)]
    BY <1>5 DEF OnPeerConnectionEstablished
  <2>2. t \in Socket => Sent(LinkDispatched(s, u)[t][u]) \in Link
    BY <1>1, LinkType DEF Links
  <2> HIDE DEF t
  <2>3. link' \in Links
    BY <1>1, <2>1, <2>2 DEF Links
  <2> QED
    BY <1>5, <2>3, NoInstanceTyped DEF OnPeerConnectionEstablished
<1>6. ASSUME NEW notice, OnUnregisteredConnectionClosed(s, u, notice) PROVE TypeInv'
  BY <1>1, <1>6, NoInstanceTyped DEF OnUnregisteredConnectionClosed
<1>7. ASSUME NEW notice, OnRemoteConnectionClosed(s, u, notice) PROVE TypeInv'
  <2> DEFINE p == active_peers[s]
             x == instance[p]
             y == IF LostServer(x, notice) THEN Reset(WithoutRemoteUser(x, u)) ELSE WithoutRemoteUser(x, u)
  <2>1. p \in Peer /\ x \in InstanceType
    BY <1>2, <1>7 DEF OnRemoteConnectionClosed
  <2>2. WithoutRemoteUser(x, u) \in InstanceType
    BY <2>1, WithoutRemoteUserType
  <2>3. y \in InstanceType
    BY <2>2, ResetType
  <2>4. y.socket = x.socket /\ (IsActive(y) => IsActive(x))
    <3>1. /\ WithoutRemoteUser(x, u).socket = x.socket
          /\ WithoutRemoteUser(x, u).active_mode = x.active_mode
      BY <2>1 DEF WithoutRemoteUser, InstanceType
    <3>2. /\ Reset(WithoutRemoteUser(x, u)).socket = x.socket
          /\ ~IsActive(Reset(WithoutRemoteUser(x, u)))
      BY <2>2, <3>1 DEF Reset, IsActive, InstanceType
    <3> QED
      BY <3>1, <3>2 DEF IsActive
  <2>5. instance' = [instance EXCEPT ![p] = y]
    BY <1>7 DEF OnRemoteConnectionClosed
  <2>6. link' \in Links
    BY <1>1, <1>7, SocketClosedType DEF OnRemoteConnectionClosed
  <2>7. IsActive(y) => y.socket \in Socket
    BY <2>1, <2>4, InstanceFacts
  <2> HIDE DEF y, p
  <2> QED
    BY <2>1, <2>3, <2>5, <2>6, <2>7, OneInstanceTyped
<1> QED
  BY <1>3, <1>4, <1>5, <1>6, <1>7 DEF Tick

LEMMA TypeInvStep == TypeInv /\ RefinementInv /\ [Next]_vars => TypeInv'
<1> SUFFICES ASSUME TypeInv, RefinementInv, [Next]_vars PROVE TypeInv'
  OBVIOUS
<1>0. link \in Links
  BY DEF TypeInv, Links
<1>1. CASE UNCHANGED vars
  BY <1>0, <1>1, NoInstanceTyped DEF vars
<1>2. ASSUME NEW s \in Socket, NEW u \in User, RemoteStep(s, u) PROVE TypeInv'
  <2>1. link[s][u] \in Link
    BY <1>0 DEF Links
  <2>2. PICK l \in Link : link' = [link EXCEPT ![s][u] = l]
    BY <1>2, <2>1, LinkType DEF RemoteStep
  <2> QED
    BY <1>2, <2>2, OneLinkTyped, NoInstanceTyped DEF RemoteStep
<1>3. ASSUME NEW s, NEW u, NEW e, NEW i, RemotePacket(s, u, e, i) PROVE TypeInv'
  BY <1>0, <1>3, NoInstanceTyped DEF RemotePacket
<1>4. ASSUME NEW p \in Peer, Poll(p) PROVE TypeInv'
  BY <1>0, <1>4, NoInstanceTyped DEF Poll
<1>5. CASE Frame \/ FrameReceives \/ Login
  BY <1>0, <1>5, NoInstanceTyped DEF Frame, FrameReceives, Login
<1>6. CASE Logout
  <2>1. link' \in Links /\ UNCHANGED instance
    BY <1>6, NoLinkType DEF Logout, Links
  <2> QED
    BY <2>1, NoInstanceTyped
<1> QED
  BY <1>1, <1>2, <1>3, <1>4, <1>5, <1>6, ApplicationTyped, PollStepTyped, TickTyped DEF Next

LEMMA InitTypeInv == Init => TypeInv
<1>1. ~IsActive(NewInstance)
  BY DEF NewInstance, IsActive
<1> QED
  BY <1>1, NewInstanceType, NoLinkType DEF Init, TypeInv

PeerInv == TypeInv /\ RefinementInv

LEMMA PeerInvCorrect == Spec => []PeerInv
<1>1. Init => TypeInv
  BY InitTypeInv
<1>2. TypeInv /\ RefinementInv /\ [Next]_vars => TypeInv'
  BY TypeInvStep
<1> QED
  BY <1>1, <1>2, RefinementInvCorrect, PTL DEF Spec, PeerInv

\* Every field of every instance, the _poll in progress and the SDK's links
\* keep their types, whatever the application calls from its handlers.
THEOREM PeerTypeCorrect == Spec => []TypeOK
<1>1. PeerInv => TypeOK
  <2> SUFFICES ASSUME PeerInv PROVE TypeOK
    OBVIOUS
  <2>1. ASSUME NEW p \in Peer
        PROVE  /\ instance[p] \in InstanceType
               /\ instance[p].peers \in [DOMAIN instance[p].peers -> User]
               /\ DOMAIN instance[p].peers \subseteq PeerId \ {0}
    <3>1. instance[p] \in InstanceType /\ instance[p].peers \in Peers
      BY DEF PeerInv, TypeInv, InstanceType
    <3> QED
      BY <3>1, PeersType
  <2>2. ASSUME NEW p \in Peer
        PROVE  instance[p] \in
               [active_mode : Mode, connection_status : ConnectionStatus, unique_id : PeerId,
                peers : [DOMAIN instance[p].peers -> User], requests : [User -> Nat],
                socket : SocketName, incoming_packets : Seq(IncomingPacket), polling : BOOLEAN,
                auto_accept : BOOLEAN, refusing : BOOLEAN, alive : BOOLEAN]
    BY <2>1 DEF InstanceType
  <2> QED
    BY <2>1, <2>2 DEF TypeOK, PeerInv, TypeInv, RefinementInv, OneAtATime
<1> QED
  BY <1>1, PeerInvCorrect, PTL

----------------------------------------------------------------------------
\* What a step does to the identity of an instance: it loses peers and perhaps
\* its session, or is joined by the sender of a peer id packet, or is created.

Shrunk(x, y) ==
    /\ y.socket = x.socket
    /\ DOMAIN y.peers \subseteq DOMAIN x.peers
    /\ \A i \in DOMAIN y.peers : y.peers[i] = x.peers[i]
    /\ \/ /\ y.active_mode = x.active_mode
          /\ y.connection_status = x.connection_status
          /\ y.unique_id = x.unique_id
       \/ /\ y.active_mode = "MODE_NONE"
          /\ y.connection_status = "CONNECTION_DISCONNECTED"
          /\ y.unique_id = 0

Joined(p, x, y) ==
    /\ polled.by = p
    /\ \E m \in M!Packet :
          /\ ~Unwanted(x) /\ ~NotAServer(x, m) /\ ~Invalid(x, m)
          /\ y.peers = M!Insert(WithoutUser(x, m.sender), m.peer_id, m.sender)
    /\ y.socket = x.socket
    /\ y.active_mode = x.active_mode
    /\ y.unique_id = x.unique_id
    /\ y.connection_status = IF x.active_mode = "MODE_CLIENT" THEN "CONNECTION_CONNECTED" ELSE x.connection_status

Created(p, x, y) ==
    /\ MayCreate(p)
    /\ y.peers = x.peers
    /\ IsActive(y) => y.connection_status # "CONNECTION_DISCONNECTED" /\ y.socket # NoSocket

KeptStep(p) == Shrunk(instance[p], instance[p]') \/ Joined(p, instance[p], instance[p]')

IdentityStep(p) == KeptStep(p) \/ Created(p, instance[p], instance[p]')

Creation(p) ==
    \/ \E s \in Socket, mode \in {"MODE_SERVER", "MODE_MESH"} : CreateHost(p, s, mode)
    \/ \E s \in SocketName, mode \in {"MODE_SERVER", "MODE_MESH"} : CreateHostFails(p, s, mode)
    \/ \E s \in Socket, u \in User : CreateClient(p, s, u)
    \/ \E s \in Socket : CreateClientCannotSend(p, s)
    \/ \E s \in SocketName : CreateClientFails(p, s)

LEMMA SameIdentity ==
  ASSUME NEW x, NEW y, y.socket = x.socket, y.peers = x.peers, y.active_mode = x.active_mode,
         y.connection_status = x.connection_status, y.unique_id = x.unique_id
  PROVE  Shrunk(x, y)
BY DEF Shrunk

LEMMA ResetShrinks ==
  ASSUME NEW x \in InstanceType, NEW y \in InstanceType, Shrunk(x, y) PROVE Shrunk(x, Reset(y))
<1>1. /\ Reset(y).socket = y.socket /\ Reset(y).peers = y.peers /\ Reset(y).active_mode = "MODE_NONE"
      /\ Reset(y).connection_status = "CONNECTION_DISCONNECTED" /\ Reset(y).unique_id = 0
  BY DEF Reset, InstanceType
<1> QED
  BY <1>1 DEF Shrunk

LEMMA RestrictShrinks ==
  ASSUME NEW x, NEW y, NEW D, y.peers = Restrict(x.peers, DOMAIN x.peers \ D),
         y.socket = x.socket, y.active_mode = x.active_mode,
         y.connection_status = x.connection_status, y.unique_id = x.unique_id
  PROVE  Shrunk(x, y)
<1>1. Restrict(x.peers, DOMAIN x.peers \ D) = [i \in DOMAIN x.peers \ D |-> x.peers[i]]
  BY DEF Restrict
<1>2. DOMAIN y.peers = DOMAIN x.peers \ D /\ \A i \in DOMAIN y.peers : y.peers[i] = x.peers[i]
  BY <1>1
<1> QED
  BY <1>2 DEF Shrunk

\* Only the instance a step is of can change otherwise.
LEMMA NotTouched ==
  ASSUME TypeInv, NEW q \in Peer, NEW y, instance' = [instance EXCEPT ![q] = y]
  PROVE  /\ instance'[q] = y
         /\ \A p \in Peer \ {q} : instance'[p] = instance[p] /\ Shrunk(instance[p], instance'[p])
<1>1. instance'[q] = y /\ \A p \in Peer \ {q} : instance'[p] = instance[p]
  BY DEF TypeInv
<1>2. \A p \in Peer \ {q} : Shrunk(instance[p], instance'[p])
  BY <1>1, SameIdentity
<1> QED
  BY <1>1, <1>2

LEMMA OneKept ==
  ASSUME TypeInv, NEW q \in Peer, NEW y, instance' = [instance EXCEPT ![q] = y],
         Shrunk(instance[q], y) \/ Joined(q, instance[q], y)
  PROVE  \A p \in Peer : KeptStep(p)
BY NotTouched DEF KeptStep

LEMMA OneCreated ==
  ASSUME TypeInv, NEW q \in Peer, NEW y, instance' = [instance EXCEPT ![q] = y], Created(q, instance[q], y)
  PROVE  \A p \in Peer : IdentityStep(p)
BY NotTouched DEF KeptStep, IdentityStep

LEMMA NoneChanged == ASSUME UNCHANGED instance PROVE \A p \in Peer : KeptStep(p)
<1> TAKE p \in Peer
<1>1. Shrunk(instance[p], instance'[p])
  BY SameIdentity
<1> QED
  BY <1>1 DEF KeptStep

LEMMA CreateIdentity ==
  ASSUME TypeInv, M!TypeOK, NEW q \in Peer, Creation(q)
  PROVE  \A p \in Peer : IdentityStep(p)
<1> DEFINE x == instance[q]
<1>0. /\ x \in InstanceType /\ Socket \subseteq SocketName /\ NoSocket \notin Socket
      /\ ServerId \in PeerId /\ GeneratedId \subseteq PeerId
  BY InstanceFacts, NoneAssumption DEF SocketName, PeerId
<1>1. MayCreate(q)
  BY DEF Creation, CreateHost, CreateHostFails, CreateClient, CreateClientCannotSend, CreateClientFails
<1>2. ASSUME NEW s \in Socket, NEW mode \in {"MODE_SERVER", "MODE_MESH"}, CreateHost(q, s, mode)
      PROVE  \A p \in Peer : IdentityStep(p)
  <2>1. PICK id \in HostIds(mode) :
           instance' = [instance EXCEPT ![q] = RequestsTaken(Hosting(q, s, mode, id), pending_connection_requests[s])]
    BY <1>2 DEF CreateHost
  <2> DEFINE h == Hosting(q, s, mode, id)
             y == RequestsTaken(h, pending_connection_requests[s])
  <2>2. h.peers = x.peers /\ h.connection_status = "CONNECTION_CONNECTED" /\ h.socket = s
    BY <1>0 DEF Hosting, InstanceType
  <2>3. h \in InstanceType
    <3>1. id \in PeerId
      BY <1>0 DEF HostIds
    <3> QED
      BY <1>0, <3>1, HostingType
  <2>4. y.peers = h.peers /\ y.connection_status = h.connection_status /\ y.socket = h.socket
    <3> HIDE DEF h
    <3> QED
      BY <2>3 DEF RequestsTaken, InstanceType
  <2>5. Created(q, x, y)
    BY <1>0, <1>1, <2>2, <2>4 DEF Created
  <2> HIDE DEF y
  <2> QED
    BY <2>1, <2>5, OneCreated DEF y
<1>3. ASSUME NEW s \in SocketName, NEW mode \in {"MODE_SERVER", "MODE_MESH"}, CreateHostFails(q, s, mode)
      PROVE  \A p \in Peer : IdentityStep(p)
  <2> DEFINE h == Hosting(q, s, mode, ServerId)
  <2>1. h \in InstanceType /\ h.peers = x.peers
    <3>1. h.peers = x.peers
      BY <1>0 DEF Hosting, InstanceType
    <3> QED
      BY <1>0, <3>1, HostingType
  <2>2. Reset(h).peers = x.peers /\ ~IsActive(Reset(h))
    <3> HIDE DEF h
    <3> QED
      BY <2>1 DEF Reset, IsActive, InstanceType
  <2>3. Created(q, x, Reset(h))
    BY <1>1, <2>2 DEF Created
  <2>4. instance' = [instance EXCEPT ![q] = Reset(h)]
    BY <1>3 DEF CreateHostFails
  <2> HIDE DEF h
  <2> QED
    BY <2>3, <2>4, OneCreated
<1>4. ASSUME NEW s \in Socket, NEW u \in User, CreateClient(q, s, u) PROVE \A p \in Peer : IdentityStep(p)
  <2> DEFINE d == Dialling(q, s)
             r == RequestsTaken(d, pending_connection_requests[s])
  <2>1. PICK id \in GeneratedId : instance' = [instance EXCEPT ![q] = Client(r, id)]
    BY <1>4 DEF CreateClient
  <2>2. d \in InstanceType /\ d.peers = x.peers /\ d.socket = s
    <3>1. d.peers = x.peers /\ d.socket = s
      BY <1>0 DEF Dialling, InstanceType
    <3> QED
      BY <1>0, <3>1, DiallingType
  <2>3. r \in InstanceType /\ r.peers = x.peers /\ r.socket = s
    <3> HIDE DEF d
    <3>1. pending_connection_requests[s] \in [User -> Nat]
      BY DEF M!TypeOK
    <3>2. r \in InstanceType
      BY <2>2, <3>1, RequestsTakenType
    <3> QED
      BY <2>2, <3>2 DEF RequestsTaken, InstanceType
  <2> HIDE DEF r
  <2>4. /\ Client(r, id).peers = x.peers /\ Client(r, id).socket = s
        /\ Client(r, id).connection_status = "CONNECTION_CONNECTING"
    BY <2>3 DEF Client, InstanceType
  <2>5. Created(q, x, Client(r, id))
    BY <1>0, <1>1, <2>4 DEF Created
  <2> QED
    BY <2>1, <2>5, OneCreated
<1>5. ASSUME NEW s \in SocketName, NEW y, y \in {Dialling(q, s), Reset(Dialling(q, s))},
             instance' = [instance EXCEPT ![q] = y]
      PROVE  \A p \in Peer : IdentityStep(p)
  <2> DEFINE d == Dialling(q, s)
  <2>1. d \in InstanceType /\ d.peers = x.peers /\ ~IsActive(d)
    <3>1. d.peers = x.peers /\ d.active_mode = x.active_mode
      BY <1>0 DEF Dialling, InstanceType
    <3> QED
      BY <1>0, <1>1, <3>1, DiallingType DEF MayCreate, IsActive
  <2>2. Reset(d).peers = x.peers /\ ~IsActive(Reset(d))
    <3> HIDE DEF d
    <3> QED
      BY <2>1 DEF Reset, IsActive, InstanceType
  <2>3. Created(q, x, d) /\ Created(q, x, Reset(d))
    BY <1>1, <2>1, <2>2 DEF Created
  <2> HIDE DEF d
  <2>4. Created(q, x, y)
    BY <1>5, <2>3 DEF d
  <2> QED
    BY <1>5, <2>4, OneCreated
<1>6. ASSUME NEW s \in Socket, CreateClientCannotSend(q, s) PROVE \A p \in Peer : IdentityStep(p)
  BY <1>0, <1>5, <1>6 DEF CreateClientCannotSend
<1>7. ASSUME NEW s \in SocketName, CreateClientFails(q, s) PROVE \A p \in Peer : IdentityStep(p)
  BY <1>5, <1>7 DEF CreateClientFails
<1> QED
  BY <1>2, <1>3, <1>4, <1>6, <1>7 DEF Creation

LEMMA ApplicationKeeps ==
  ASSUME TypeInv, RefinementInv, NEW q \in Peer, Application(q), ~Creation(q)
  PROVE  \A p \in Peer : KeptStep(p)
<1> DEFINE x == instance[q]
           Goal == \A p \in Peer : KeptStep(p)
<1> SUFFICES Goal
  OBVIOUS
<1>0. x \in InstanceType /\ M!TypeOK
  BY InstanceFacts DEF RefinementInv
<1>1. Shrunk(x, x)
  BY SameIdentity
<1>2. ASSUME NEW y \in InstanceType, Shrunk(x, y), instance' = [instance EXCEPT ![q] = y] PROVE Goal
  BY <1>2, OneKept
<1>3. CASE UNCHANGED instance
  BY <1>3, NoneChanged
<1>4. Reset(x) \in InstanceType /\ Shrunk(x, Reset(x))
  BY <1>0, <1>1, ResetType, ResetShrinks
<1>5. ASSUME NEW field \in {"auto_accept", "refusing", "polling"}, NEW value \in BOOLEAN, Set(q, field, value)
      PROVE  Goal
  <2> DEFINE y == [x EXCEPT ![field] = value]
  <2>1. y \in InstanceType
    BY <1>0 DEF InstanceType
  <2>2. /\ y.socket = x.socket /\ y.peers = x.peers /\ y.active_mode = x.active_mode
        /\ y.connection_status = x.connection_status /\ y.unique_id = x.unique_id
    BY <1>0 DEF InstanceType
  <2>3. instance' = [instance EXCEPT ![q] = y]
    BY <1>5 DEF Set
  <2> HIDE DEF y, Goal, x
  <2> QED
    BY <1>2, <2>1, <2>2, <2>3, SameIdentity
<1>6. ASSUME NEW r, instance' = [instance EXCEPT ![q] = [x EXCEPT !.requests = r]] PROVE Goal
  <2> DEFINE y == [x EXCEPT !.requests = r]
  <2>1. /\ y.socket = x.socket /\ y.peers = x.peers /\ y.active_mode = x.active_mode
        /\ y.connection_status = x.connection_status /\ y.unique_id = x.unique_id
    BY <1>0 DEF InstanceType
  <2>2. Shrunk(x, y)
    BY <2>1, SameIdentity
  <2> QED
    BY <1>6, <2>2, OneKept
<1>7. CASE GetPacket(q)
  <2> DEFINE y == [x EXCEPT !.incoming_packets = Tail(@)]
  <2>1. /\ y.socket = x.socket /\ y.peers = x.peers /\ y.active_mode = x.active_mode
        /\ y.connection_status = x.connection_status /\ y.unique_id = x.unique_id
    BY <1>0 DEF InstanceType
  <2>2. Shrunk(x, y)
    BY <2>1, SameIdentity
  <2> QED
    BY <1>7, <2>2, OneKept DEF GetPacket
<1>8. CASE Close(q)
  BY <1>2, <1>4, <1>8 DEF Close
<1>9. CASE Free(q)
  <2> DEFINE z == IF IsActive(x) THEN Reset(x) ELSE x
             y == [z EXCEPT !.alive = FALSE]
  <2>1. z \in InstanceType /\ Shrunk(x, z)
    BY <1>0, <1>1, <1>4
  <2> HIDE DEF z
  <2>2. /\ y.socket = z.socket /\ y.peers = z.peers /\ y.active_mode = z.active_mode
        /\ y.connection_status = z.connection_status /\ y.unique_id = z.unique_id
    BY <2>1 DEF InstanceType
  <2>3. Shrunk(x, y)
    BY <2>1, <2>2 DEF Shrunk
  <2>4. instance' = [instance EXCEPT ![q] = y]
    BY <1>9 DEF Free, z
  <2> QED
    BY <2>3, <2>4, OneKept
<1>10. ASSUME NEW i \in PeerId, NEW force \in Forcible, DisconnectPeer(q, i, force) PROVE Goal
  <2> DEFINE y == [x EXCEPT !.peers = Restrict(@, DOMAIN @ \ {i})]
  <2>1. /\ y.socket = x.socket /\ y.peers = Restrict(x.peers, DOMAIN x.peers \ {i})
        /\ y.active_mode = x.active_mode
        /\ y.connection_status = x.connection_status /\ y.unique_id = x.unique_id
    BY <1>0 DEF InstanceType
  <2> HIDE DEF y
  <2>2. Shrunk(x, y)
    BY <2>1, RestrictShrinks
  <2>3. instance' = [instance EXCEPT ![q] = y] \/ UNCHANGED instance
    BY <1>10 DEF DisconnectPeer, y
  <2> QED
    BY <1>3, <2>2, <2>3, OneKept
<1>11. ASSUME NEW u \in User, AcceptConnectionRequest(q, u) \/ DenyConnectionRequest(q, u) PROVE Goal
  <2>1. instance' = [instance EXCEPT ![q] = [x EXCEPT !.requests = [x.requests EXCEPT ![u] = @ - 1]]]
    BY <1>11 DEF AcceptConnectionRequest, DenyConnectionRequest, AnswerRequest
  <2> HIDE DEF Goal
  <2> QED
    BY <1>6, <2>1
<1>12. CASE AcceptAllConnectionRequests(q)
  <2>1. PICK reached \in SUBSET User : instance' =
          [instance EXCEPT ![q] = [x EXCEPT !.requests = [u \in User |-> IF u \in reached THEN @[u] - 1 ELSE @[u]]]]
    BY <1>12 DEF AcceptAllConnectionRequests
  <2>2. PICK r : instance' = [instance EXCEPT ![q] = [x EXCEPT !.requests = r]]
    BY <2>1
  <2> HIDE DEF Goal
  <2> QED
    BY <1>6, <2>2
<1>13. CASE DenyAllConnectionRequests(q)
  <2>1. instance' = [instance EXCEPT ![q] = [x EXCEPT !.requests = NoRequests]]
    BY <1>13 DEF DenyAllConnectionRequests
  <2> HIDE DEF Goal
  <2> QED
    BY <1>6, <2>1
<1>14. ASSUME NEW u, AddMeshPeer(q, u) \/ PutPacket(q) PROVE Goal
  BY <1>3, <1>14 DEF AddMeshPeer, PutPacket
<1>15. \A b \in AutoAccept \cup Refuse \cup Polling : b \in BOOLEAN
  BY SettingAssumption
<1> HIDE DEF Goal
<1>16. \A b : Set(q, "auto_accept", b) /\ b \in BOOLEAN => Goal
  BY <1>5
<1>17. \A b : Set(q, "refusing", b) /\ b \in BOOLEAN => Goal
  BY <1>5
<1>18. \A b : Set(q, "polling", b) /\ b \in BOOLEAN => Goal
  BY <1>5
<1> QED
  BY <1>7, <1>8, <1>9, <1>10, <1>11, <1>12, <1>13, <1>14, <1>15,
     <1>16, <1>17, <1>18 DEF Application, Creation

LEMMA PollStepKeeps ==
  ASSUME TypeInv, RefinementInv, PollStep
  PROVE  \A p \in Peer : KeptStep(p)
<1> DEFINE q == polled.by
           x == instance[q]
           m == Head(polled.packets)
<1>0. OneAtATime
  BY DEF RefinementInv
<1>1. CASE PollStorePacket
  <2>1. q \in Peer /\ x \in InstanceType
    BY <1>0, <1>1, Events, PolledFacts, InstanceFacts DEF PollStorePacket
  <2> DEFINE y == [x EXCEPT !.incoming_packets = Stored(@, m)]
  <2>2. /\ y.socket = x.socket /\ y.peers = x.peers /\ y.active_mode = x.active_mode
        /\ y.connection_status = x.connection_status /\ y.unique_id = x.unique_id
    BY <2>1 DEF InstanceType
  <2>3. Shrunk(x, y)
    BY <2>2, SameIdentity
  <2>4. instance' = [instance EXCEPT ![q] = y] \/ UNCHANGED instance
    BY <1>1 DEF PollStorePacket
  <2> HIDE DEF y
  <2> QED
    BY <2>1, <2>3, <2>4, OneKept, NoneChanged
<1>2. CASE PollNotAServer
  <2>1. q \in Peer /\ x \in InstanceType
    BY <1>0, <1>2, Events, PolledFacts, InstanceFacts DEF PollNotAServer
  <2>2. Shrunk(x, Reset(x))
    BY <2>1, SameIdentity, ResetShrinks
  <2>3. instance' = [instance EXCEPT ![q] = Reset(x)]
    BY <1>2 DEF PollNotAServer
  <2> QED
    BY <2>1, <2>2, <2>3, OneKept
<1>3. CASE PollPeerId
  <2>1. q \in Peer /\ x \in InstanceType /\ m \in M!Packet
    BY <1>0, <1>3, Events, PolledFacts, InstanceFacts DEF PollPeerId
  <2> DEFINE y == [x EXCEPT !.peers = M!Insert(WithoutUser(x, m.sender), m.peer_id, m.sender),
                            !.connection_status =
                               IF x.active_mode = "MODE_CLIENT" THEN "CONNECTION_CONNECTED" ELSE @]
  <2>2. /\ y.socket = x.socket /\ y.peers = M!Insert(WithoutUser(x, m.sender), m.peer_id, m.sender)
        /\ y.active_mode = x.active_mode /\ y.unique_id = x.unique_id
        /\ y.connection_status =
              IF x.active_mode = "MODE_CLIENT" THEN "CONNECTION_CONNECTED" ELSE x.connection_status
    BY <2>1 DEF InstanceType
  <2>3. ~Unwanted(x) /\ ~NotAServer(x, m) /\ ~Invalid(x, m)
    BY <1>3 DEF PollPeerId
  <2>4. instance' = [instance EXCEPT ![q] = y]
    BY <1>3 DEF PollPeerId
  <2> HIDE DEF y, m, x
  <2>5. Joined(q, x, y)
    BY <2>1, <2>2, <2>3 DEF Joined
  <2> QED
    BY <2>1, <2>4, <2>5, OneKept DEF x
<1>4. CASE PollInvalidPeerId \/ PollMeshConnectionRequest \/ PollUnwantedPeerId \/ PollReturns
  BY <1>4, NoneChanged DEF PollInvalidPeerId, PollMeshConnectionRequest, PollUnwantedPeerId, PollReturns
<1> QED
  BY <1>1, <1>2, <1>3, <1>4 DEF PollStep

LEMMA TickKeeps ==
  ASSUME TypeInv, RefinementInv, NEW s \in Socket, NEW u \in User, Tick(s, u)
  PROVE  \A p \in Peer : KeptStep(p)
<1>1. ASSUME s \in DOMAIN active_peers
      PROVE  active_peers[s] \in Peer /\ instance[active_peers[s]] \in InstanceType
  BY <1>1, InstanceFacts DEF M!TypeOK, RefinementInv
<1> DEFINE q == active_peers[s]
           x == instance[q]
<1>2. CASE OnHeldConnectionRequest(s, u) \/ OnPeerConnectionEstablished(s, u)
  BY <1>2, NoneChanged DEF OnHeldConnectionRequest, OnPeerConnectionEstablished
<1>3. CASE OnConnectionRequest(s, u)
  <2> DEFINE y == RequestsTaken(x, [NoRequests EXCEPT ![u] = 1])
  <2>1. q \in Peer /\ x \in InstanceType
    BY <1>1, <1>3 DEF OnConnectionRequest
  <2>2. /\ y.socket = x.socket /\ y.peers = x.peers /\ y.active_mode = x.active_mode
        /\ y.connection_status = x.connection_status /\ y.unique_id = x.unique_id
    BY <2>1 DEF RequestsTaken, InstanceType
  <2>3. Shrunk(x, y)
    BY <2>2, SameIdentity
  <2>4. instance' = [instance EXCEPT ![q] = y]
    BY <1>3 DEF OnConnectionRequest
  <2> HIDE DEF y
  <2> QED
    BY <2>1, <2>3, <2>4, OneKept
<1>4. ASSUME NEW notice, OnUnregisteredConnectionClosed(s, u, notice) PROVE \A p \in Peer : KeptStep(p)
  BY <1>4, NoneChanged DEF OnUnregisteredConnectionClosed
<1>5. ASSUME NEW notice, OnRemoteConnectionClosed(s, u, notice) PROVE \A p \in Peer : KeptStep(p)
  <2> DEFINE w == WithoutRemoteUser(x, u)
  <2>1. q \in Peer /\ x \in InstanceType /\ w \in InstanceType
    BY <1>1, <1>5, WithoutRemoteUserType DEF OnRemoteConnectionClosed
  <2>2. /\ w.socket = x.socket /\ w.peers = WithoutUser(x, u) /\ w.active_mode = x.active_mode
        /\ w.connection_status = x.connection_status /\ w.unique_id = x.unique_id
    BY <2>1 DEF WithoutRemoteUser, InstanceType
  <2> HIDE DEF w
  <2>3. Shrunk(x, w)
    BY <2>2, RestrictShrinks DEF WithoutUser
  <2>4. Shrunk(x, Reset(w))
    BY <2>1, <2>3, ResetShrinks
  <2>5. instance' = [instance EXCEPT ![q] = w] \/ instance' = [instance EXCEPT ![q] = Reset(w)]
    BY <1>5 DEF OnRemoteConnectionClosed, w
  <2> QED
    BY <2>1, <2>3, <2>4, <2>5, OneKept
<1> QED
  BY <1>2, <1>3, <1>4, <1>5 DEF Tick

LEMMA NextKeeps ==
  ASSUME PeerInv, [Next]_vars, \A q \in Peer : ~Creation(q)
  PROVE  \A p \in Peer : KeptStep(p)
<1> USE DEF PeerInv
<1>1. CASE UNCHANGED vars
  BY <1>1, NoneChanged DEF vars
<1>2. ASSUME NEW s, NEW u, RemoteStep(s, u) PROVE UNCHANGED instance
  BY <1>2 DEF RemoteStep
<1>3. ASSUME NEW s, NEW u, NEW e, NEW i, RemotePacket(s, u, e, i) PROVE UNCHANGED instance
  BY <1>3 DEF RemotePacket
<1>4. ASSUME NEW p, Poll(p) PROVE UNCHANGED instance
  BY <1>4 DEF Poll
<1>5. CASE Frame \/ FrameReceives \/ Login \/ Logout
  BY <1>5, NoneChanged DEF Frame, FrameReceives, Login, Logout
<1> QED
  BY <1>1, <1>2, <1>3, <1>4, <1>5, NoneChanged, ApplicationKeeps, PollStepKeeps, TickKeeps DEF Next

LEMMA NextIdentity ==
  ASSUME PeerInv, [Next]_vars
  PROVE  \A p \in Peer : IdentityStep(p)
<1>1. CASE \E q \in Peer : Creation(q)
  BY <1>1, CreateIdentity DEF PeerInv, RefinementInv
<1>2. CASE \A q \in Peer : ~Creation(q)
  BY <1>2, NextKeeps DEF IdentityStep
<1> QED
  BY <1>1, <1>2

----------------------------------------------------------------------------
\* What follows for ids

\* A user who comes back with a new id, before or after the end of the former
\* connection was noticed, never has two.
THEOREM OneIdPerUserAlways == Spec => []OneIdPerUser
<1>1. Init => OneIdPerUser
  BY DEF Init, OneIdPerUser, NewInstance, IsInjective
<1>2. OneIdPerUser /\ PeerInv /\ [Next]_vars => OneIdPerUser'
  <2> SUFFICES ASSUME OneIdPerUser, PeerInv, [Next]_vars, NEW p \in Peer
               PROVE  IsInjective(instance[p].peers)'
    BY DEF OneIdPerUser
  <2> DEFINE x == instance[p]
             y == instance'[p]
  <2>1. \A a, b \in DOMAIN x.peers : x.peers[a] = x.peers[b] => a = b
    BY DEF OneIdPerUser, IsInjective
  <2>2. IdentityStep(p)
    BY NextIdentity
  <2>3. CASE Shrunk(x, y) \/ Created(p, x, y)
    <3>1. \A i \in DOMAIN y.peers : i \in DOMAIN x.peers /\ y.peers[i] = x.peers[i]
      BY <2>3 DEF Shrunk, Created
    <3> QED
      BY <2>1, <3>1 DEF IsInjective
  <2>4. CASE Joined(p, x, y)
    <3>1. PICK m \in M!Packet : y.peers = M!Insert(WithoutUser(x, m.sender), m.peer_id, m.sender)
      BY <2>4 DEF Joined
    <3> HIDE DEF x, y
    <3>2. LET g == M!Insert(WithoutUser(x, m.sender), m.peer_id, m.sender) IN
          /\ DOMAIN g = (DOMAIN x.peers \ IdsOf(x, m.sender)) \cup {m.peer_id}
          /\ g[m.peer_id] = m.sender
          /\ \A j \in DOMAIN x.peers \ IdsOf(x, m.sender) : j # m.peer_id => g[j] = x.peers[j]
      BY DEF WithoutUser, Restrict, M!Insert
    <3>3. /\ y.peers[m.peer_id] = m.sender
          /\ DOMAIN y.peers = (DOMAIN x.peers \ IdsOf(x, m.sender)) \cup {m.peer_id}
          /\ \A j \in DOMAIN y.peers :
                j # m.peer_id => j \in DOMAIN x.peers \ IdsOf(x, m.sender) /\ y.peers[j] = x.peers[j]
      BY <3>1, <3>2
    <3>4. \A j \in DOMAIN y.peers : j # m.peer_id => y.peers[j] # m.sender
      BY <3>3 DEF IdsOf
    <3>5. \A a, b \in DOMAIN y.peers : y.peers[a] = y.peers[b] => a = b
      BY <2>1, <3>3, <3>4 DEF x, y
    <3> QED
      BY <3>5 DEF IsInjective, x, y
  <2> QED
    BY <2>2, <2>3, <2>4 DEF IdentityStep, KeptStep
<1> QED
  BY <1>1, <1>2, PeerInvCorrect, PTL DEF Spec

LEMMA ApplicationDoesNotPoll == ASSUME NEW p \in Peer, Application(p) PROVE UNCHANGED polled
<1>1. ASSUME NEW s, NEW mode, CreateHost(p, s, mode) \/ CreateHostFails(p, s, mode) PROVE UNCHANGED polled
  BY <1>1 DEF CreateHost, CreateHostFails
<1>2. ASSUME NEW s, NEW u, \/ CreateClient(p, s, u) \/ CreateClientCannotSend(p, s) \/ CreateClientFails(p, s)
      PROVE  UNCHANGED polled
  BY <1>2 DEF CreateClient, CreateClientCannotSend, CreateClientFails
<1>3. ASSUME NEW u, AddMeshPeer(p, u) \/ AcceptConnectionRequest(p, u) \/ DenyConnectionRequest(p, u)
      PROVE  UNCHANGED polled
  BY <1>3 DEF AddMeshPeer, AcceptConnectionRequest, DenyConnectionRequest, AnswerRequest
<1>4. CASE \/ Close(p) \/ Free(p) \/ AcceptAllConnectionRequests(p) \/ DenyAllConnectionRequests(p)
           \/ GetPacket(p) \/ PutPacket(p)
  BY <1>4 DEF Close, Free, AcceptAllConnectionRequests, DenyAllConnectionRequests, AnswerAll, GetPacket, PutPacket
<1>5. ASSUME NEW i, NEW force, DisconnectPeer(p, i, force) PROVE UNCHANGED polled
  BY <1>5 DEF DisconnectPeer
<1>6. ASSUME NEW field, NEW value, Set(p, field, value) PROVE UNCHANGED polled
  BY <1>6 DEF Set
<1> QED
  BY <1>1, <1>2, <1>3, <1>4, <1>5, <1>6 DEF Application

\* Only a _poll itself changes the _poll in progress.
LEMMA OnlyPollsPoll ==
  ASSUME [Next]_vars
  PROVE  UNCHANGED polled \/ PollStep \/ \E p \in Peer : Poll(p)
<1>1. ASSUME NEW p \in Peer, Application(p) PROVE UNCHANGED polled
  BY <1>1, ApplicationDoesNotPoll
<1>2. ASSUME NEW s, NEW u, Tick(s, u) \/ RemoteStep(s, u) PROVE UNCHANGED polled
  BY <1>2 DEF Tick, RemoteStep, OnHeldConnectionRequest, OnConnectionRequest, OnPeerConnectionEstablished,
              OnUnregisteredConnectionClosed, OnRemoteConnectionClosed
<1>3. ASSUME NEW s, NEW u, NEW e, NEW i, RemotePacket(s, u, e, i) PROVE UNCHANGED polled
  BY <1>3 DEF RemotePacket
<1>4. CASE Frame \/ FrameReceives \/ Login \/ Logout \/ UNCHANGED vars
  BY <1>4 DEF Frame, FrameReceives, Login, Logout, vars
<1> QED
  BY <1>1, <1>2, <1>3, <1>4 DEF Next

\* An instance that is used once: without a socket it has not been created and
\* knows nobody, and one whose _poll is in progress has a socket.
UsedOnce ==
    /\ \A p \in Peer : instance[p].socket = NoSocket => DOMAIN instance[p].peers = {}
    /\ polled.by \in Peer => instance[polled.by].socket # NoSocket

LEMMA UsedOnceStep == ~Reuses /\ UsedOnce /\ PeerInv /\ [Next]_vars => UsedOnce'
<1> SUFFICES ASSUME ~Reuses, UsedOnce, PeerInv, [Next]_vars PROVE UsedOnce'
  OBVIOUS
<1>1. \A p \in Peer : IdentityStep(p)
  BY NextIdentity
<1>2. ASSUME NEW p \in Peer, instance'[p].socket = NoSocket PROVE DOMAIN instance'[p].peers = {}
  <2>1. CASE Shrunk(instance[p], instance[p]')
    BY <1>2, <2>1 DEF Shrunk, UsedOnce
  <2>2. CASE Joined(p, instance[p], instance[p]')
    BY <1>2, <2>2 DEF Joined, UsedOnce
  <2>3. CASE Created(p, instance[p], instance[p]')
    BY <2>3 DEF Created, MayCreate, UsedOnce
  <2> QED
    BY <1>1, <2>1, <2>2, <2>3 DEF IdentityStep, KeptStep
<1>3. ASSUME NEW p \in Peer, instance[p].socket # NoSocket PROVE instance'[p].socket # NoSocket
  BY <1>1, <1>3 DEF IdentityStep, KeptStep, Shrunk, Joined, Created, MayCreate
<1>4. polled'.by \in Peer => polled'.by = polled.by \/ \E p \in Peer : Poll(p) /\ polled'.by = p
  <2>1. ASSUME NEW p \in Peer, Poll(p) PROVE polled'.by = p
    BY <2>1 DEF Poll
  <2>2. CASE PollStep
    <3>1. polled' = NoPoll \/ polled' = Rest \/ polled' = [polled EXCEPT !.packets = Tail(@), !.in_signal = TRUE]
      BY <2>2 DEF PollStep, PollStorePacket, PollMeshConnectionRequest, PollUnwantedPeerId, PollNotAServer,
                  PollInvalidPeerId, PollPeerId, PollReturns
    <3>2. NoPoll.by = NoPeer /\ NoPeer \notin Peer
      BY NoneAssumption DEF NoPoll
    <3> QED
      BY <3>1, <3>2 DEF Rest, PeerInv, RefinementInv, OneAtATime
  <2>3. UNCHANGED polled \/ PollStep \/ \E p \in Peer : Poll(p)
    BY OnlyPollsPoll
  <2> QED
    BY <2>1, <2>2, <2>3
<1>5. ASSUME NEW p \in Peer, Poll(p) PROVE instance'[p].socket # NoSocket
  BY <1>5, NoneAssumption DEF Poll, PeerInv, RefinementInv, M!TypeOK, M!QueuesMatchPeers
<1>6. polled'.by \in Peer => instance'[polled'.by].socket # NoSocket
  BY <1>3, <1>4, <1>5 DEF UsedOnce
<1> QED
  BY <1>2, <1>6 DEF UsedOnce

LEMMA InitUsedOnce == Init => UsedOnce
BY NoneAssumption DEF Init, UsedOnce, NewInstance, NoPoll

\* An instance used once never counts itself among its peers.  (Used again, it
\* may be given the id of a peer whose connection is still being closed.)
THEOREM OwnIdIsNeverAPeer ==
  ASSUME ~Reuses
  PROVE  Spec => []OwnIdIsNoPeer
<1>1. Init => OwnIdIsNoPeer
  BY DEF Init, OwnIdIsNoPeer, NewInstance
<1>2. OwnIdIsNoPeer /\ UsedOnce /\ PeerInv /\ [Next]_vars => OwnIdIsNoPeer'
  <2> SUFFICES ASSUME OwnIdIsNoPeer, UsedOnce, PeerInv, [Next]_vars, NEW p \in Peer
               PROVE  instance'[p].unique_id \notin DOMAIN instance'[p].peers
    BY DEF OwnIdIsNoPeer
  <2> DEFINE x == instance[p]
             y == instance'[p]
  <2>1. x.unique_id \notin DOMAIN x.peers /\ 0 \notin DOMAIN x.peers
    BY InstanceFacts DEF OwnIdIsNoPeer, PeerInv
  <2>2. IdentityStep(p)
    BY NextIdentity
  <2>3. CASE Shrunk(x, y)
    BY <2>1, <2>3 DEF Shrunk
  <2>4. CASE Created(p, x, y)
    BY <2>4 DEF Created, MayCreate, UsedOnce
  <2>5. CASE Joined(p, x, y)
    <3>1. PICK m \in M!Packet : /\ ~Invalid(x, m)
                                /\ y.peers = M!Insert(WithoutUser(x, m.sender), m.peer_id, m.sender)
      BY <2>5 DEF Joined
    <3>2. y.unique_id = x.unique_id /\ x.unique_id # m.peer_id
      BY <2>5, <3>1 DEF Joined, Invalid
    <3> HIDE DEF x, y
    <3>3. DOMAIN y.peers \subseteq DOMAIN x.peers \cup {m.peer_id}
      <4>1. DOMAIN M!Insert(WithoutUser(x, m.sender), m.peer_id, m.sender) =
               (DOMAIN x.peers \ IdsOf(x, m.sender)) \cup {m.peer_id}
        BY DEF WithoutUser, Restrict, M!Insert
      <4> QED
        BY <3>1, <4>1
    <3> QED
      BY <2>1, <3>2, <3>3 DEF x, y
  <2> QED
    BY <2>2, <2>3, <2>4, <2>5 DEF IdentityStep, KeptStep
<1>3. UsedOnce /\ PeerInv /\ [Next]_vars => UsedOnce'
  BY UsedOnceStep
<1> QED
  BY <1>1, <1>2, <1>3, InitUsedOnce, PeerInvCorrect, PTL DEF Spec

\* A client that is used once takes nobody but a server, and the server makes it
\* connected.
THEOREM ClientsKnowOnlyServers ==
  ASSUME ~Reuses
  PROVE  Spec => []ClientKnowsOnlyServer
<1>1. Init => ClientKnowsOnlyServer
  BY DEF Init, ClientKnowsOnlyServer, NewInstance
<1>2. ClientKnowsOnlyServer /\ UsedOnce /\ PeerInv /\ [Next]_vars => ClientKnowsOnlyServer'
  <2> SUFFICES ASSUME ClientKnowsOnlyServer, UsedOnce, PeerInv, [Next]_vars, NEW p \in Peer,
                      instance'[p].active_mode = "MODE_CLIENT"
               PROVE  /\ DOMAIN instance'[p].peers \subseteq {ServerId}
                      /\ DOMAIN instance'[p].peers # {} =>
                            instance'[p].connection_status = "CONNECTION_CONNECTED"
    BY DEF ClientKnowsOnlyServer
  <2> DEFINE x == instance[p]
             y == instance'[p]
  <2>1. x.active_mode = "MODE_CLIENT" =>
           DOMAIN x.peers \subseteq {ServerId} /\ (DOMAIN x.peers # {} => x.connection_status = "CONNECTION_CONNECTED")
    BY DEF ClientKnowsOnlyServer
  <2>2. IdentityStep(p)
    BY NextIdentity
  <2>3. CASE Shrunk(x, y)
    BY <2>1, <2>3 DEF Shrunk
  <2>4. CASE Created(p, x, y)
    BY <2>4 DEF Created, MayCreate, UsedOnce
  <2>5. CASE Joined(p, x, y)
    <3>1. PICK m \in M!Packet : /\ ~NotAServer(x, m)
                                /\ y.peers = M!Insert(WithoutUser(x, m.sender), m.peer_id, m.sender)
      BY <2>5 DEF Joined
    <3>2. x.active_mode = "MODE_CLIENT" /\ y.connection_status = "CONNECTION_CONNECTED"
      BY <2>5 DEF Joined
    <3>3. m.peer_id = ServerId
      BY <3>1, <3>2 DEF NotAServer
    <3> HIDE DEF x, y
    <3>4. DOMAIN y.peers \subseteq DOMAIN x.peers \cup {m.peer_id}
      <4>1. DOMAIN M!Insert(WithoutUser(x, m.sender), m.peer_id, m.sender) =
               (DOMAIN x.peers \ IdsOf(x, m.sender)) \cup {m.peer_id}
        BY DEF WithoutUser, Restrict, M!Insert
      <4> QED
        BY <3>1, <4>1
    <3> QED
      BY <2>1, <3>2, <3>3, <3>4 DEF x, y
  <2> QED
    BY <2>2, <2>3, <2>4, <2>5 DEF IdentityStep, KeptStep
<1>3. UsedOnce /\ PeerInv /\ [Next]_vars => UsedOnce'
  BY UsedOnceStep
<1> QED
  BY <1>1, <1>2, <1>3, InitUsedOnce, PeerInvCorrect, PTL DEF Spec

----------------------------------------------------------------------------
\* Active instances stay registered

\* One instance only, or clients only: what a create_server or create_mesh under
\* a taken name does to its owner is out of the picture.
HostsAreAlone == \A p, q \in Peer : p # q => ModesOf[p] \subseteq {"MODE_CLIENT"}

Registered ==
    /\ \A s \in DOMAIN active_peers : instance[active_peers[s]].socket = s
    /\ ActiveIsRegistered
    /\ \A p \in Peer : IsActive(instance[p]) => instance[p].connection_status # "CONNECTION_DISCONNECTED"

RegisteredInv == Registered /\ UsedOnce /\ PeerInv

LEMMA RegistryFacts ==
  ASSUME RegisteredInv
  PROVE  /\ \A s \in DOMAIN active_peers : s \in Socket /\ s # NoSocket /\ active_peers[s] \in Peer
         /\ DOMAIN socket_packet_queues = DOMAIN active_peers
BY NoneAssumption DEF RegisteredInv, PeerInv, RefinementInv, M!TypeOK, M!QueuesMatchPeers

LEMMA StillConnected ==
  ASSUME RegisteredInv, [Next]_vars, NEW p \in Peer, IsActive(instance'[p])
  PROVE  instance'[p].connection_status # "CONNECTION_DISCONNECTED"
<1>1. IdentityStep(p)
  BY NextIdentity DEF RegisteredInv
<1> QED
  BY <1>1 DEF IdentityStep, KeptStep, Shrunk, Joined, Created, IsActive, RegisteredInv, Registered

\* Nobody is created, and at most one registration is removed: of an instance
\* that is not active any more.
LEMMA RegistrationRemoved ==
  ASSUME RegisteredInv, [Next]_vars, \A p \in Peer : KeptStep(p), NEW s,
         DOMAIN active_peers' \in {DOMAIN active_peers, DOMAIN active_peers \ {s}},
         \A t \in DOMAIN active_peers' : active_peers'[t] = active_peers[t],
         s \in DOMAIN active_peers /\ s \notin DOMAIN active_peers' => ~IsActive(instance'[active_peers[s]])
  PROVE  Registered'
<1>1. \A p \in Peer : instance'[p].socket = instance[p].socket /\ (IsActive(instance'[p]) => IsActive(instance[p]))
  BY DEF KeptStep, Shrunk, Joined, IsActive
<1>2. \A t \in DOMAIN active_peers' : t \in DOMAIN active_peers /\ instance'[active_peers'[t]].socket = t
  BY <1>1, RegistryFacts DEF RegisteredInv, Registered
<1>3. ActiveIsRegistered'
  <2> SUFFICES ASSUME NEW p \in Peer, IsActive(instance'[p])
               PROVE  instance'[p].socket \in DOMAIN active_peers' /\ active_peers'[instance'[p].socket] = p
    BY DEF ActiveIsRegistered
  <2>1. instance[p].socket \in DOMAIN active_peers /\ active_peers[instance[p].socket] = p
    BY <1>1 DEF RegisteredInv, Registered, ActiveIsRegistered
  <2>2. instance[p].socket \in DOMAIN active_peers'
    BY <2>1
  <2> QED
    BY <1>1, <2>1, <2>2
<1> QED
  BY <1>2, <1>3, StillConnected DEF Registered

LEMMA RegistrationAdded ==
  ASSUME RegisteredInv, [Next]_vars, NEW p \in Peer, NEW s \in Socket, s \notin DOMAIN active_peers,
         active_peers' = M!Insert(active_peers, s, p), instance[p].socket = NoSocket, instance'[p].socket = s,
         \A q \in Peer \ {p} : instance'[q] = instance[q]
  PROVE  Registered'
<1>1. /\ DOMAIN active_peers' = DOMAIN active_peers \cup {s}
      /\ active_peers'[s] = p
      /\ \A t \in DOMAIN active_peers : active_peers'[t] = active_peers[t]
  BY DEF M!Insert
<1>2. \A t \in DOMAIN active_peers : active_peers[t] # p /\ active_peers[t] \in Peer
  BY RegistryFacts DEF RegisteredInv, Registered
<1>3. \A t \in DOMAIN active_peers' : instance'[active_peers'[t]].socket = t
  BY <1>1, <1>2 DEF RegisteredInv, Registered
<1>4. ActiveIsRegistered'
  BY <1>1 DEF ActiveIsRegistered, RegisteredInv, Registered
<1> QED
  BY <1>3, <1>4, StillConnected DEF Registered

\* An instance that was created in vain: the registry is as before.
LEMMA NothingRegistered ==
  ASSUME RegisteredInv, [Next]_vars, NEW p \in Peer, instance[p].socket = NoSocket, ~IsActive(instance'[p]),
         UNCHANGED active_peers, \A q \in Peer \ {p} : instance'[q] = instance[q]
  PROVE  Registered'
<1>1. \A t \in DOMAIN active_peers : active_peers[t] # p /\ active_peers[t] \in Peer
  BY RegistryFacts DEF RegisteredInv, Registered
<1>2. \A t \in DOMAIN active_peers' : instance'[active_peers'[t]].socket = t
  BY <1>1 DEF RegisteredInv, Registered
<1>3. ActiveIsRegistered'
  BY DEF ActiveIsRegistered, RegisteredInv, Registered
<1> QED
  BY <1>2, <1>3, StillConnected DEF Registered

LEMMA CreationRegisters ==
  ASSUME ~Reuses, HostsAreAlone, RegisteredInv, [Next]_vars, NEW p \in Peer, Creation(p)
  PROVE  Registered'
<1>0. TypeInv /\ M!TypeOK /\ Socket \subseteq SocketName /\ ServerId \in PeerId /\ GeneratedId \subseteq PeerId
  BY DEF RegisteredInv, PeerInv, RefinementInv, SocketName, PeerId
<1>1. instance[p].socket = NoSocket /\ DOMAIN instance[p].peers = {} /\ ~IsActive(instance[p])
  BY DEF Creation, CreateHost, CreateHostFails, CreateClient, CreateClientCannotSend, CreateClientFails, MayCreate,
         RegisteredInv, UsedOnce
<1>2. ASSUME NEW y, instance' = [instance EXCEPT ![p] = y]
      PROVE  instance'[p] = y /\ \A q \in Peer \ {p} : instance'[q] = instance[q]
  BY <1>0, <1>2, NotTouched
<1>3. ASSUME NEW s \in Socket, NEW mode \in {"MODE_SERVER", "MODE_MESH"}, CreateHost(p, s, mode) PROVE Registered'
  <2>1. PICK id \in HostIds(mode) :
           instance' = [instance EXCEPT ![p] = RequestsTaken(Hosting(p, s, mode, id), pending_connection_requests[s])]
    BY <1>3 DEF CreateHost
  <2>2. Hosting(p, s, mode, id).socket = s /\ Hosting(p, s, mode, id) \in InstanceType
    <3>1. id \in PeerId
      BY <1>0 DEF HostIds
    <3>2. Hosting(p, s, mode, id).socket = s
      BY <1>0 DEF Hosting, TypeInv, InstanceType
    <3> QED
      BY <1>0, <3>1, <3>2, HostingType
  <2>3. RequestsTaken(Hosting(p, s, mode, id), pending_connection_requests[s]).socket = s
    BY <2>2 DEF RequestsTaken, InstanceType
  <2>4. s \notin DOMAIN active_peers /\ active_peers' = M!Insert(active_peers, s, p)
    BY <1>3 DEF CreateHost, M!RegisterPeer
  <2>5. instance'[p].socket = s /\ \A q \in Peer \ {p} : instance'[q] = instance[q]
    BY <1>2, <2>1, <2>3
  <2> QED
    BY <1>1, <2>4, <2>5, RegistrationAdded
<1>4. ASSUME NEW s \in SocketName, NEW mode \in {"MODE_SERVER", "MODE_MESH"}, CreateHostFails(p, s, mode)
      PROVE  Registered'
  <2>1. s \notin DOMAIN active_peers
    <3>1. SUFFICES ASSUME s \in DOMAIN active_peers PROVE FALSE
      OBVIOUS
    <3>2. active_peers[s] # p /\ active_peers[s] \in Peer
      BY <1>1, <3>1, RegistryFacts DEF RegisteredInv, Registered
    <3>3. mode \in ModesOf[p]
      BY <1>4 DEF CreateHostFails
    <3> QED
      BY <3>2, <3>3 DEF HostsAreAlone
  <2>2. UNCHANGED active_peers
    BY <1>4, <2>1 DEF CreateHostFails, UnregisterIf
  <2>3. instance' = [instance EXCEPT ![p] = Reset(Hosting(p, s, mode, ServerId))]
    BY <1>4 DEF CreateHostFails
  <2>4. ~IsActive(Reset(Hosting(p, s, mode, ServerId)))
    <3>1. Hosting(p, s, mode, ServerId) \in InstanceType
      BY <1>0, HostingType
    <3> QED
      BY <3>1 DEF Reset, IsActive, InstanceType
  <2>5. ~IsActive(instance'[p]) /\ \A q \in Peer \ {p} : instance'[q] = instance[q]
    BY <1>2, <2>3, <2>4
  <2> QED
    BY <1>1, <2>2, <2>5, NothingRegistered
<1>5. ASSUME NEW s \in Socket, NEW u \in User, CreateClient(p, s, u) PROVE Registered'
  <2>1. PICK id \in GeneratedId :
           instance' = [instance EXCEPT ![p] = Client(RequestsTaken(Dialling(p, s), pending_connection_requests[s]), id)]
    BY <1>5 DEF CreateClient
  <2> DEFINE d == Dialling(p, s)
             r == RequestsTaken(d, pending_connection_requests[s])
  <2>2. d \in InstanceType /\ d.socket = s
    <3>1. d.socket = s
      BY <1>0 DEF Dialling, TypeInv, InstanceType
    <3> QED
      BY <1>0, <3>1, DiallingType
  <2>3. r \in InstanceType /\ r.socket = s
    <3> HIDE DEF d
    <3>1. pending_connection_requests[s] \in [User -> Nat]
      BY <1>0 DEF M!TypeOK
    <3>2. r \in InstanceType
      BY <2>2, <3>1, RequestsTakenType
    <3> QED
      BY <2>2, <3>2 DEF RequestsTaken, InstanceType
  <2>4. Client(r, id).socket = s
    <3> HIDE DEF r
    <3> QED
      BY <2>3 DEF Client, InstanceType
  <2>5. s \notin DOMAIN active_peers /\ active_peers' = M!Insert(active_peers, s, p)
    BY <1>5 DEF CreateClient, M!RegisterPeer
  <2>6. instance'[p].socket = s /\ \A q \in Peer \ {p} : instance'[q] = instance[q]
    BY <1>2, <2>1, <2>4
  <2> QED
    BY <1>1, <2>5, <2>6, RegistrationAdded
<1>6. ASSUME NEW s \in SocketName, NEW y, y \in {Dialling(p, s), Reset(Dialling(p, s))},
             instance' = [instance EXCEPT ![p] = y], UNCHANGED active_peers
      PROVE  Registered'
  <2>1. Dialling(p, s) \in InstanceType /\ ~IsActive(Dialling(p, s))
    <3>1. Dialling(p, s).active_mode = instance[p].active_mode
      BY <1>0 DEF Dialling, TypeInv, InstanceType
    <3> QED
      BY <1>0, <1>1, <3>1, DiallingType DEF IsActive
  <2>2. ~IsActive(y)
    BY <1>6, <2>1 DEF Reset, IsActive, InstanceType
  <2>3. ~IsActive(instance'[p]) /\ \A q \in Peer \ {p} : instance'[q] = instance[q]
    BY <1>2, <1>6, <2>2
  <2> QED
    BY <1>1, <1>6, <2>3, NothingRegistered
<1>7. ASSUME NEW s \in Socket, CreateClientCannotSend(p, s) PROVE Registered'
  <2>1. M!RegisterAndUnregisterPeer(s)
    BY <1>1, <1>7 DEF CreateClientCannotSend
  <2>2. UNCHANGED active_peers /\ instance' = [instance EXCEPT ![p] = Reset(Dialling(p, s))]
    BY <1>7, <2>1 DEF M!RegisterAndUnregisterPeer, CreateClientCannotSend
  <2> QED
    BY <1>0, <1>6, <2>2
<1>8. ASSUME NEW s \in SocketName, CreateClientFails(p, s) PROVE Registered'
  BY <1>6, <1>8 DEF CreateClientFails, mediatorVars
<1> QED
  BY <1>3, <1>4, <1>5, <1>7, <1>8 DEF Creation

LEMMA UnregisterIfFacts ==
  ASSUME NEW cond, NEW s, UnregisterIf(cond, s)
  PROVE  /\ DOMAIN active_peers' \in {DOMAIN active_peers, DOMAIN active_peers \ {s}}
         /\ \A t \in DOMAIN active_peers' : active_peers'[t] = active_peers[t]
<1>1. active_peers' \in {active_peers, Restrict(active_peers, DOMAIN active_peers \ {s})}
  BY DEF UnregisterIf, M!Unregistered, M!Restrict, Restrict
<1> QED
  BY <1>1 DEF Restrict

\* An active instance closes: the registration that goes is its own.
LEMMA ClosingRegistered ==
  ASSUME RegisteredInv, [Next]_vars, \A q \in Peer : KeptStep(q), NEW p \in Peer, IsActive(instance[p]),
         Closing(p), ~IsActive(instance'[p])
  PROVE  Registered'
<1> DEFINE s == instance[p].socket
<1>1. /\ DOMAIN active_peers' \in {DOMAIN active_peers, DOMAIN active_peers \ {s}}
      /\ \A t \in DOMAIN active_peers' : active_peers'[t] = active_peers[t]
  BY UnregisterIfFacts DEF Closing
<1>2. active_peers[s] = p
  BY DEF RegisteredInv, Registered, ActiveIsRegistered
<1> HIDE DEF s
<1> QED
  BY <1>1, <1>2, RegistrationRemoved

LEMMA RegistryKept ==
  ASSUME RegisteredInv, [Next]_vars, \A q \in Peer : KeptStep(q), UNCHANGED active_peers
  PROVE  Registered'
<1>1. NoSocket \notin DOMAIN active_peers
  BY RegistryFacts
<1> QED
  BY <1>1, RegistrationRemoved

LEMMA ApplicationRegistered ==
  ASSUME RegisteredInv, [Next]_vars, \A q \in Peer : KeptStep(q), NEW p \in Peer, Application(p), ~Creation(p)
  PROVE  Registered'
<1>0. TypeInv
  BY DEF RegisteredInv, PeerInv
<1>1. CASE UNCHANGED active_peers
  BY <1>1, RegistryKept
<1>2. ~IsActive(Reset(instance[p])) /\ Reset(instance[p]) \in InstanceType
  <2>1. PICK x \in InstanceType : x = instance[p]
    BY <1>0 DEF TypeInv
  <2>2. Reset(x) \in InstanceType
    BY ResetType
  <2>3. Reset(x).active_mode = "MODE_NONE"
    BY DEF Reset, InstanceType
  <2> QED
    BY <2>1, <2>2, <2>3 DEF IsActive
<1>3. CASE Close(p)
  <2>1. instance'[p] = Reset(instance[p])
    BY <1>0, <1>3 DEF Close, TypeInv
  <2> QED
    BY <1>2, <1>3, <2>1, ClosingRegistered DEF Close
<1>4. CASE Free(p)
  <2>1. CASE IsActive(instance[p])
    <3>1. instance'[p] = [Reset(instance[p]) EXCEPT !.alive = FALSE]
      BY <1>0, <1>4, <2>1 DEF Free, TypeInv
    <3>2. ~IsActive(instance'[p])
      BY <1>2, <3>1 DEF IsActive, InstanceType
    <3> QED
      BY <1>4, <2>1, <3>2, ClosingRegistered DEF Free
  <2>2. CASE ~IsActive(instance[p])
    BY <1>1, <1>4, <2>2 DEF Free
  <2> QED
    BY <2>1, <2>2
<1>5. ASSUME NEW u, AddMeshPeer(p, u) \/ AcceptConnectionRequest(p, u) \/ DenyConnectionRequest(p, u)
      PROVE  UNCHANGED active_peers
  BY <1>5 DEF AddMeshPeer, AcceptConnectionRequest, DenyConnectionRequest, AnswerRequest, mediatorVars
<1>6. ASSUME NEW i, NEW force, DisconnectPeer(p, i, force) PROVE UNCHANGED active_peers
  BY <1>6 DEF DisconnectPeer, mediatorVars
<1>7. ASSUME NEW field, NEW value, Set(p, field, value) PROVE UNCHANGED active_peers
  BY <1>7 DEF Set, mediatorVars
<1>8. CASE AcceptAllConnectionRequests(p) \/ DenyAllConnectionRequests(p) \/ GetPacket(p) \/ PutPacket(p)
  <2>1. UNCHANGED active_peers
    BY <1>8 DEF AcceptAllConnectionRequests, DenyAllConnectionRequests, AnswerAll, GetPacket, PutPacket, mediatorVars
  <2> QED
    BY <1>1, <2>1
<1> QED
  BY <1>1, <1>3, <1>4, <1>5, <1>6, <1>7, <1>8 DEF Application, Creation

LEMMA PollStepRegistered ==
  ASSUME RegisteredInv, [Next]_vars, \A q \in Peer : KeptStep(q), PollStep
  PROVE  Registered'
<1>1. CASE PollNotAServer
  <2> DEFINE p == polled.by
  <2>1. p \in Peer /\ TypeInv
    BY <1>1, Events, PolledFacts DEF PollNotAServer, RegisteredInv, PeerInv, RefinementInv
  <2>2. instance'[p] = Reset(instance[p])
    BY <1>1, <2>1 DEF PollNotAServer, TypeInv
  <2>3. ~IsActive(instance'[p])
    BY <2>1, <2>2, InstanceFacts DEF Reset, IsActive, InstanceType
  <2>4. IsActive(instance[p]) /\ Closing(p)
    BY <1>1 DEF PollNotAServer, NotAServer, IsActive
  <2> QED
    BY <2>1, <2>3, <2>4, ClosingRegistered
<1>2. CASE ~PollNotAServer
  <2>1. UNCHANGED active_peers
    BY <1>2 DEF PollStep, PollStorePacket, PollMeshConnectionRequest, PollUnwantedPeerId, PollInvalidPeerId,
                PollPeerId, PollReturns, mediatorVars
  <2> QED
    BY <2>1, RegistryKept
<1> QED
  BY <1>1, <1>2

LEMMA TickRegistered ==
  ASSUME RegisteredInv, [Next]_vars, \A q \in Peer : KeptStep(q), NEW s \in Socket, NEW u \in User, Tick(s, u)
  PROVE  Registered'
<1>0. TypeInv
  BY DEF RegisteredInv, PeerInv
<1>1. CASE OnHeldConnectionRequest(s, u) \/ OnConnectionRequest(s, u) \/ OnPeerConnectionEstablished(s, u)
  <2>1. UNCHANGED active_peers
    BY <1>1 DEF OnHeldConnectionRequest, OnConnectionRequest, OnPeerConnectionEstablished, M!HoldConnectionRequest,
                mediatorVars
  <2> QED
    BY <2>1, RegistryKept
<1>2. ASSUME NEW notice, OnUnregisteredConnectionClosed(s, u, notice) PROVE Registered'
  <2>1. UNCHANGED active_peers
    BY <1>2 DEF OnUnregisteredConnectionClosed, M!OnRemoteConnectionClosed
  <2> QED
    BY <2>1, RegistryKept
<1>3. ASSUME NEW notice, OnRemoteConnectionClosed(s, u, notice) PROVE Registered'
  <2> DEFINE p == active_peers[s]
             x == instance[p]
             w == WithoutRemoteUser(x, u)
  <2>1. s \in DOMAIN active_peers /\ p \in Peer /\ x.socket = s /\ x \in InstanceType
    BY <1>0, <1>3, RegistryFacts, InstanceFacts DEF OnRemoteConnectionClosed, RegisteredInv, Registered
  <2>2. w \in InstanceType /\ w.active_mode = x.active_mode /\ w.connection_status = x.connection_status
    <3>1. w \in InstanceType
      BY <2>1, WithoutRemoteUserType
    <3> QED
      BY <2>1, <3>1 DEF WithoutRemoteUser, InstanceType
  <2>3. instance'[p] = IF LostServer(x, notice) THEN Reset(w) ELSE w
    BY <1>0, <1>3, <2>1 DEF OnRemoteConnectionClosed, TypeInv
  <2>4. ~IsActive(Reset(w))
    BY <2>2 DEF Reset, IsActive, InstanceType
  <2>5. CASE LostServer(x, notice) \/ LastPeerGone(instance'[p])
    <3>1. UnregisterIf(TRUE, s)
      BY <1>0, <1>3, <2>1, <2>3, <2>5 DEF OnRemoteConnectionClosed
    <3>2. ~IsActive(instance'[p])
      <4>1. CASE LostServer(x, notice)
        BY <2>3, <2>4, <4>1
      <4>2. CASE ~LostServer(x, notice)
        BY <2>1, <2>2, <2>3, <2>5, <4>2 DEF LastPeerGone, IsActive, RegisteredInv, Registered
      <4> QED
        BY <4>1, <4>2
    <3>3. /\ DOMAIN active_peers' \in {DOMAIN active_peers, DOMAIN active_peers \ {s}}
          /\ \A t \in DOMAIN active_peers' : active_peers'[t] = active_peers[t]
      BY <3>1, UnregisterIfFacts
    <3> QED
      BY <3>2, <3>3, RegistrationRemoved
  <2>6. CASE ~(LostServer(x, notice) \/ LastPeerGone(instance'[p]))
    <3>1. UNCHANGED active_peers
      BY <1>3, <2>3, <2>6 DEF OnRemoteConnectionClosed, M!ClearedPacketsFromRemoteUser
    <3> QED
      BY <3>1, RegistryKept
  <2> QED
    BY <2>5, <2>6
<1> QED
  BY <1>1, <1>2, <1>3 DEF Tick

LEMMA RegisteredInvCorrect ==
  ASSUME ~Reuses, HostsAreAlone
  PROVE  Spec => []RegisteredInv
<1>1. Init => Registered
  BY DEF Init, M!Init, Registered, ActiveIsRegistered, NewInstance, IsActive
<1>2. Registered /\ UsedOnce /\ PeerInv /\ [Next]_vars => Registered'
  <2> SUFFICES ASSUME RegisteredInv, [Next]_vars PROVE Registered'
    BY DEF RegisteredInv
  <2>1. CASE \E p \in Peer : Creation(p)
    BY <2>1, CreationRegisters
  <2>2. CASE \A p \in Peer : ~Creation(p)
    <3>1. \A q \in Peer : KeptStep(q)
      BY <2>2, NextKeeps DEF RegisteredInv
    <3>2. ASSUME NEW s \in Socket, NEW u \in User, RemoteStep(s, u) PROVE UNCHANGED active_peers
      BY <3>2 DEF RemoteStep, mediatorVars
    <3>3. ASSUME NEW s, NEW u, NEW e, NEW i, RemotePacket(s, u, e, i) PROVE UNCHANGED active_peers
      BY <3>3 DEF RemotePacket, M!PacketArrives, M!registry
    <3>4. ASSUME NEW p \in Peer, Poll(p) PROVE UNCHANGED active_peers
      BY <3>4 DEF Poll
    <3>5. CASE Frame \/ FrameReceives \/ Login \/ Logout \/ UNCHANGED vars
      <4>1. UNCHANGED active_peers
        BY <3>5 DEF Frame, FrameReceives, Login, Logout, vars, mediatorVars, M!OnProcessFrame, M!ReceivePacket,
                    M!NoPacketLeft, M!DropPacket, M!FilePacket, M!Login, M!Terminate, M!registry
      <4> QED
        BY <3>1, <4>1, RegistryKept
    <3> QED
      BY <2>2, <3>1, <3>2, <3>3, <3>4, <3>5, RegistryKept, ApplicationRegistered, PollStepRegistered, TickRegistered
      DEF Next
  <2> QED
    BY <2>1, <2>2
<1>3. UsedOnce /\ PeerInv /\ [Next]_vars => UsedOnce'
  BY UsedOnceStep
<1> QED
  BY <1>1, <1>2, <1>3, InitUsedOnce, PeerInvCorrect, PTL DEF Spec, RegisteredInv

\* An active instance stays the one registered under its name if instances are
\* used once and hosts have the process to themselves; without either, the
\* code breaks it (the run name_taken is the simplest case).
THEOREM ActiveStaysRegistered ==
  ASSUME ~Reuses, HostsAreAlone
  PROVE  Spec => []ActiveIsRegistered
<1>1. RegisteredInv => ActiveIsRegistered
  BY DEF RegisteredInv, Registered
<1> QED
  BY <1>1, RegisteredInvCorrect, PTL
=============================================================================
