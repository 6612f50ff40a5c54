-------------------------- MODULE EOSInboxOrder_proofs --------------------------
(***************************************************************************)
(* The way of a packet from the SDK to the application of an instance:     *)
(* received by the mediator's frame, filed in the queue of its socket,     *)
(* taken by a _poll, stored in the inbox, read by MultiplayerAPI.  For     *)
(* every set of instances, names and users, every use of the instances and *)
(* any number of packets, the packets keep their order all the way.        *)
(***************************************************************************)
EXTENDS EOSMultiplayerPeer_proofs

IsStore(m) == m.event = "EVENT_STORE_PACKET"

Inbox(p) == instance[p].incoming_packets

\* The packet of number n has left its queue for p: it is in p's inbox, or in
\* the list of the _poll in progress.
Taken(p, n) ==
    \/ \E i \in 1..Len(Inbox(p)) : Inbox(p)[i].n = n
    \/ /\ polled.by = p
       /\ \E k \in 1..Len(polled.packets) : IsStore(polled.packets[k]) /\ polled.packets[k].n = n

\* It is older than all that is received, and than all that waits in a queue.
Past(n) == n <= arrivals /\ \A j \in 1..Len(received) : n < received[j].n

Ahead(n, s) ==
    s \in DOMAIN socket_packet_queues =>
       \A j \in 1..Len(socket_packet_queues[s]) :
          IsStore(socket_packet_queues[s][j]) => n < socket_packet_queues[s][j].n

PolledInOrder ==
    \A j, k \in 1..Len(polled.packets) :
       j < k /\ IsStore(polled.packets[j]) /\ IsStore(polled.packets[k])
       => polled.packets[j].n < polled.packets[k].n

InboxFirst ==
    polled.by \in Peer =>
       \A i \in 1..Len(Inbox(polled.by)), k \in 1..Len(polled.packets) :
          IsStore(polled.packets[k]) => Inbox(polled.by)[i].n < polled.packets[k].n

TakenIsPast == \A p \in Peer, n \in Nat : Taken(p, n) => Past(n)

\* Of a closed instance nothing can be said: another may own its socket.
TakenIsAhead ==
    \A p \in Peer, n \in Nat :
       Taken(p, n) /\ IsActive(instance[p]) => Ahead(n, instance[p].socket)

\* The inductive invariant.
InboxInv == InboxInOrder /\ PolledInOrder /\ InboxFirst /\ TakenIsPast /\ TakenIsAhead

LEMMA Numbers ==
  ASSUME PeerInv
  PROVE  /\ arrivals \in Nat
         /\ received \in Seq(M!Packet) /\ \A j \in 1..Len(received) : received[j].n \in Nat
         /\ \A s \in DOMAIN socket_packet_queues :
               /\ socket_packet_queues[s] \in Seq(M!Packet)
               /\ \A j \in 1..Len(socket_packet_queues[s]) : socket_packet_queues[s][j].n \in Nat
         /\ \A p \in Peer :
               /\ Inbox(p) \in Seq(IncomingPacket)
               /\ \A i \in 1..Len(Inbox(p)) : Inbox(p)[i].n \in Nat
         /\ polled.packets \in Seq(M!Packet \cup {NullPacket})
         /\ \A k \in 1..Len(polled.packets) :
               IsStore(polled.packets[k]) => polled.packets[k] \in M!Packet /\ polled.packets[k].n \in Nat
<1>1. (\A m \in M!Packet : m.n \in Nat) /\ (\A m \in IncomingPacket : m.n \in Nat)
  BY BoundAssumption DEF M!Packet, IncomingPacket
<1>2. /\ arrivals \in Nat /\ received \in Seq(M!Packet)
      /\ \A s \in DOMAIN socket_packet_queues : socket_packet_queues[s] \in Seq(M!Packet)
  BY BoundAssumption DEF PeerInv, RefinementInv, M!TypeOK
<1>3. \A p \in Peer : Inbox(p) \in Seq(IncomingPacket)
  BY DEF PeerInv, TypeInv, InstanceType, Inbox
<1>4. polled.packets \in Seq(M!Packet \cup {NullPacket})
  BY DEF PeerInv, RefinementInv, OneAtATime
<1>5. \A j \in 1..Len(received) : received[j] \in M!Packet
  BY <1>2, ElementOfSeq
<1>6. ASSUME NEW s \in DOMAIN socket_packet_queues, NEW j \in 1..Len(socket_packet_queues[s])
      PROVE  socket_packet_queues[s][j] \in M!Packet
  BY <1>2, ElementOfSeq
<1>7. ASSUME NEW p \in Peer, NEW i \in 1..Len(Inbox(p)) PROVE Inbox(p)[i] \in IncomingPacket
  BY <1>3, ElementOfSeq
<1>8. ASSUME NEW k \in 1..Len(polled.packets), IsStore(polled.packets[k])
      PROVE  polled.packets[k] \in M!Packet
  <2>1. polled.packets[k] \in M!Packet \cup {NullPacket}
    BY <1>4, ElementOfSeq
  <2>2. ~IsStore(NullPacket)
    BY DEF IsStore, NullPacket
  <2> QED
    BY <1>8, <2>1, <2>2
<1> QED
  BY <1>1, <1>2, <1>3, <1>4, <1>5, <1>6, <1>7, <1>8

----------------------------------------------------------------------------
\* A sequence that has lost elements

Part(x, y) ==
    \E place \in [1..Len(y) -> 1..Len(x)] :
       /\ \A j, k \in 1..Len(y) : j < k => place[j] < place[k]
       /\ \A k \in 1..Len(y) : y[k] = x[place[k]]

LEMMA PartSame == ASSUME NEW x PROVE Part(x, x)
<1> DEFINE place == [k \in 1..Len(x) |-> k]
<1>1. /\ place \in [1..Len(x) -> 1..Len(x)]
      /\ \A j, k \in 1..Len(x) : j < k => place[j] < place[k]
      /\ \A k \in 1..Len(x) : x[k] = x[place[k]]
  OBVIOUS
<1> HIDE DEF place
<1> QED
  BY <1>1 DEF Part

LEMMA PartEmpty == ASSUME NEW x PROVE Part(x, << >>)
<1> DEFINE place == [k \in {} |-> 0]
<1>1. 1..Len(<< >>) = {} /\ place \in [{} -> 1..Len(x)]
  OBVIOUS
<1> HIDE DEF place
<1> QED
  BY <1>1 DEF Part

LEMMA PartTail == ASSUME NEW S, NEW x \in Seq(S), x # << >> PROVE Part(x, Tail(x))
<1> DEFINE place == [k \in 1..Len(Tail(x)) |-> k + 1]
<1>1. /\ Len(x) \in Nat /\ Len(Tail(x)) = Len(x) - 1
      /\ \A k \in 1..Len(Tail(x)) : Tail(x)[k] = x[k + 1]
  BY HeadTailProperties
<1>2. \A k \in 1..Len(Tail(x)) : k + 1 \in 1..Len(x)
  BY <1>1
<1>3. /\ place \in [1..Len(Tail(x)) -> 1..Len(x)]
      /\ \A j, k \in 1..Len(Tail(x)) : j < k => place[j] < place[k]
      /\ \A k \in 1..Len(Tail(x)) : Tail(x)[k] = x[place[k]]
  BY <1>1, <1>2
<1> HIDE DEF place
<1> QED
  BY <1>3 DEF Part

LEMMA PartInbox == ASSUME NEW x \in Seq(IncomingPacket), NEW ids PROVE Part(x, InboxWithout(x, ids))
BY InboxWithoutProperties DEF Part

----------------------------------------------------------------------------
\* What a step does to the inboxes: all but PollStorePacket only take packets
\* out, and an instance that becomes active has an empty queue.

InboxKept(p) == Part(instance[p].incoming_packets, instance[p].incoming_packets')

SessionKept(p) ==
    IsActive(instance[p]') => \/ IsActive(instance[p]) /\ instance[p].socket' = instance[p].socket
                              \/ socket_packet_queues[instance[p].socket]' = << >>

LEMMA OneInboxKept ==
  ASSUME TypeInv, NEW q \in Peer, NEW y, instance' = [instance EXCEPT ![q] = y],
         Part(instance[q].incoming_packets, y.incoming_packets)
  PROVE  \A p \in Peer : InboxKept(p)
BY NotTouched, PartSame DEF InboxKept

LEMMA InboxesKept == ASSUME UNCHANGED instance PROVE \A p \in Peer : InboxKept(p)
BY PartSame DEF InboxKept

LEMMA KeptSession ==
  ASSUME NEW p \in Peer, KeptStep(p) PROVE SessionKept(p)
BY DEF KeptStep, Shrunk, Joined, SessionKept, IsActive

LEMMA ResetInbox ==
  ASSUME NEW x \in InstanceType PROVE Reset(x).incoming_packets = << >> /\ ~IsActive(Reset(x))
BY DEF Reset, IsActive, InstanceType

\* Creating empties the inbox and, if it succeeds, opens an empty queue.
LEMMA CreationInbox ==
  ASSUME TypeInv, M!TypeOK, NEW q \in Peer, Creation(q)
  PROVE  \A p \in Peer : InboxKept(p) /\ SessionKept(p)
<1> DEFINE x == instance[q]
           Goal == \A p \in Peer : InboxKept(p) /\ SessionKept(p)
<1>0. /\ x \in InstanceType /\ Socket \subseteq SocketName
      /\ ServerId \in PeerId /\ GeneratedId \subseteq PeerId
  BY InstanceFacts DEF SocketName, PeerId
<1>1. ASSUME NEW y, instance' = [instance EXCEPT ![q] = y], y.incoming_packets = << >>,
             IsActive(y) => socket_packet_queues'[y.socket] = << >>
      PROVE  Goal
  <2>1. \A p \in Peer : InboxKept(p)
    BY <1>1, PartEmpty, OneInboxKept
  <2>2. instance'[q] = y /\ \A p \in Peer \ {q} : instance'[p] = instance[p]
    BY <1>1, NotTouched
  <2>3. \A p \in Peer : SessionKept(p)
    BY <1>1, <2>2 DEF SessionKept
  <2> QED
    BY <2>1, <2>3
<1> HIDE DEF Goal
<1>2. ASSUME NEW s \in Socket, NEW mode \in {"MODE_SERVER", "MODE_MESH"}, CreateHost(q, s, mode) PROVE Goal
  <2>1. PICK id \in HostIds(mode) :
           instance' = [instance EXCEPT ![q] = RequestsTaken(Hosting(q, s, mode, id), pending_connection_requests[s])]
    BY <1>2 DEF CreateHost
  <2> DEFINE h == Hosting(q, s, mode, id)
             y == RequestsTaken(h, pending_connection_requests[s])
  <2>2. h.incoming_packets = << >> /\ h.socket = s
    BY <1>0 DEF Hosting, InstanceType
  <2>3. h \in InstanceType
    <3>1. id \in PeerId
      BY <1>0 DEF HostIds
    <3> QED
      BY <1>0, <3>1, HostingType
  <2> HIDE DEF h
  <2>4. y.incoming_packets = << >> /\ y.socket = s
    BY <2>2, <2>3 DEF RequestsTaken, InstanceType
  <2>5. socket_packet_queues'[s] = << >>
    BY <1>2 DEF CreateHost, M!RegisterPeer, M!Insert
  <2>6. instance' = [instance EXCEPT ![q] = y]
    BY <2>1 DEF h
  <2> HIDE DEF y
  <2> QED
    BY <1>1, <2>4, <2>5, <2>6
<1>3. ASSUME NEW s \in SocketName, NEW mode \in {"MODE_SERVER", "MODE_MESH"}, CreateHostFails(q, s, mode) PROVE Goal
  <2> DEFINE h == Hosting(q, s, mode, ServerId)
  <2>1. h \in InstanceType
    BY <1>0, HostingType
  <2>2. instance' = [instance EXCEPT ![q] = Reset(h)]
    BY <1>3 DEF CreateHostFails
  <2> HIDE DEF h
  <2>3. Reset(h).incoming_packets = << >> /\ ~IsActive(Reset(h))
    BY <2>1, ResetInbox
  <2> QED
    BY <1>1, <2>2, <2>3
<1>4. ASSUME NEW s \in Socket, NEW u \in User, CreateClient(q, s, u) PROVE Goal
  <2> DEFINE d == Dialling(q, s)
             r == RequestsTaken(d, pending_connection_requests[s])
  <2>1. PICK id \in GeneratedId : instance' = [instance EXCEPT ![q] = Client(r, id)]
    BY <1>4 DEF CreateClient
  <2>2. d \in InstanceType /\ d.incoming_packets = << >> /\ d.socket = s
    <3>1. d.incoming_packets = << >> /\ d.socket = s
      BY <1>0 DEF Dialling, InstanceType
    <3> QED
      BY <1>0, <3>1, DiallingType
  <2>3. r \in InstanceType /\ r.incoming_packets = << >> /\ r.socket = s
    <3> HIDE DEF d
    <3>1. pending_connection_requests[s] \in [User -> Nat]
      BY DEF M!TypeOK
    <3>2. r \in InstanceType
      BY <2>2, <3>1, RequestsTakenType
    <3> QED
      BY <2>2, <3>2 DEF RequestsTaken, InstanceType
  <2> HIDE DEF r
  <2>4. Client(r, id).incoming_packets = << >> /\ Client(r, id).socket = s
    BY <2>3 DEF Client, InstanceType
  <2>5. socket_packet_queues'[s] = << >>
    BY <1>4 DEF CreateClient, M!RegisterPeer, M!Insert
  <2> QED
    BY <1>1, <2>1, <2>4, <2>5
<1>5. ASSUME NEW s \in SocketName, NEW y, y \in {Dialling(q, s), Reset(Dialling(q, s))},
             instance' = [instance EXCEPT ![q] = y], ~IsActive(x)
      PROVE  Goal
  <2> DEFINE d == Dialling(q, s)
  <2>1. d \in InstanceType /\ d.incoming_packets = << >> /\ ~IsActive(d)
    <3>1. d.incoming_packets = << >> /\ d.active_mode = x.active_mode
      BY <1>0 DEF Dialling, InstanceType
    <3> QED
      BY <1>5, <3>1, DiallingType DEF IsActive
  <2>2. Reset(d).incoming_packets = << >> /\ ~IsActive(Reset(d))
    BY <2>1, ResetInbox
  <2>3. y = d \/ y = Reset(d)
    BY <1>5
  <2> HIDE DEF d
  <2> QED
    BY <1>1, <1>5, <2>1, <2>2, <2>3
<1>6. ASSUME NEW s \in Socket, CreateClientCannotSend(q, s) PROVE Goal
  <2>1. ~IsActive(x) /\ s \in SocketName /\ instance' = [instance EXCEPT ![q] = Reset(Dialling(q, s))]
    BY <1>0, <1>6 DEF CreateClientCannotSend, MayCreate
  <2> QED
    BY <1>5, <2>1
<1>7. ASSUME NEW s \in SocketName, CreateClientFails(q, s) PROVE Goal
  <2>1. ~IsActive(x) /\ instance' = [instance EXCEPT ![q] = Dialling(q, s)]
    BY <1>7 DEF CreateClientFails, MayCreate
  <2> QED
    BY <1>5, <2>1
<1>8. Goal
  BY <1>2, <1>3, <1>4, <1>6, <1>7 DEF Creation
<1> QED
  BY <1>8 DEF Goal

LEMMA ApplicationInbox ==
  ASSUME TypeInv, NEW q \in Peer, Application(q), ~Creation(q)
  PROVE  \A p \in Peer : InboxKept(p)
<1> DEFINE x == instance[q]
           Goal == \A p \in Peer : InboxKept(p)
<1> SUFFICES Goal
  OBVIOUS
<1>0. x \in InstanceType /\ x.incoming_packets \in Seq(IncomingPacket)
  BY InstanceFacts DEF InstanceType
<1>1. ASSUME NEW y, instance' = [instance EXCEPT ![q] = y],
             y.incoming_packets \in {x.incoming_packets, << >>}
      PROVE  Goal
  BY <1>1, PartSame, PartEmpty, OneInboxKept
<1>2. CASE UNCHANGED instance
  BY <1>2, InboxesKept
<1> HIDE DEF Goal
<1>3. ASSUME NEW y \in InstanceType, NEW field \in {"auto_accept", "refusing", "polling", "requests", "peers", "alive"},
             NEW value, instance' = [instance EXCEPT ![q] = [y EXCEPT ![field] = value]],
             y.incoming_packets \in {x.incoming_packets, << >>}
      PROVE  Goal
  <2> DEFINE z == [y EXCEPT ![field] = value]
  <2>1. z.incoming_packets = y.incoming_packets
    BY DEF InstanceType
  <2> HIDE DEF z
  <2>2. instance' = [instance EXCEPT ![q] = z]
    BY <1>3 DEF z
  <2> QED
    BY <1>1, <1>3, <2>1, <2>2
<1>4. ASSUME NEW field \in {"auto_accept", "refusing", "polling"}, NEW value, Set(q, field, value) PROVE Goal
  <2>1. instance' = [instance EXCEPT ![q] = [x EXCEPT ![field] = value]]
    BY <1>4 DEF Set
  <2> QED
    BY <1>0, <1>3, <2>1
<1>5. CASE GetPacket(q)
  <2> DEFINE y == [x EXCEPT !.incoming_packets = Tail(@)]
  <2>1. x.incoming_packets # << >> /\ instance' = [instance EXCEPT ![q] = y]
    BY <1>5 DEF GetPacket
  <2>2. y.incoming_packets = Tail(x.incoming_packets)
    BY <1>0 DEF InstanceType
  <2>3. Part(x.incoming_packets, Tail(x.incoming_packets))
    BY <1>0, <2>1, PartTail
  <2> HIDE DEF y
  <2> QED
    BY <2>1, <2>2, <2>3, OneInboxKept DEF Goal
<1>6. Reset(x).incoming_packets = << >> /\ Reset(x) \in InstanceType
  BY <1>0, ResetInbox, ResetType
<1>7. CASE Close(q)
  <2>1. instance' = [instance EXCEPT ![q] = Reset(x)]
    BY <1>7 DEF Close
  <2> QED
    BY <1>1, <1>6, <2>1
<1>8. CASE Free(q)
  <2> DEFINE z == IF IsActive(x) THEN Reset(x) ELSE x
  <2>1. instance' = [instance EXCEPT ![q] = [z EXCEPT !["alive"] = FALSE]]
    BY <1>8 DEF Free
  <2>2. z \in InstanceType /\ z.incoming_packets \in {x.incoming_packets, << >>}
    BY <1>0, <1>6
  <2> HIDE DEF z
  <2> QED
    BY <1>3, <2>1, <2>2
<1>9. ASSUME NEW i, NEW force, DisconnectPeer(q, i, force) PROVE Goal
  <2>1. UNCHANGED instance
        \/ instance' = [instance EXCEPT ![q] = [x EXCEPT !["peers"] = Restrict(@, DOMAIN @ \ {i})]]
    BY <1>9 DEF DisconnectPeer
  <2> QED
    BY <1>0, <1>2, <1>3, <2>1
<1>10. ASSUME NEW u, AcceptConnectionRequest(q, u) \/ DenyConnectionRequest(q, u) PROVE Goal
  <2>1. instance' = [instance EXCEPT ![q] = [x EXCEPT !["requests"] = [x.requests EXCEPT ![u] = @ - 1]]]
    BY <1>10 DEF AcceptConnectionRequest, DenyConnectionRequest, AnswerRequest
  <2> QED
    BY <1>0, <1>3, <2>1
<1>11. CASE AcceptAllConnectionRequests(q)
  <2>1. PICK reached \in SUBSET User : instance' =
          [instance EXCEPT ![q] = [x EXCEPT !["requests"] = [u \in User |-> IF u \in reached THEN @[u] - 1 ELSE @[u]]]]
    BY <1>11 DEF AcceptAllConnectionRequests
  <2> QED
    BY <1>0, <1>3, <2>1
<1>12. CASE DenyAllConnectionRequests(q)
  <2>1. instance' = [instance EXCEPT ![q] = [x EXCEPT !["requests"] = NoRequests]]
    BY <1>12 DEF DenyAllConnectionRequests
  <2> QED
    BY <1>0, <1>3, <2>1
<1>13. ASSUME NEW u, AddMeshPeer(q, u) \/ PutPacket(q) PROVE Goal
  BY <1>2, <1>13 DEF AddMeshPeer, PutPacket
<1> QED
  BY <1>4, <1>5, <1>7, <1>8, <1>9, <1>10, <1>11, <1>12, <1>13 DEF Application, Creation

\* The _poll in progress, in a step that takes nothing from a queue.
PolledKept ==
    /\ Part(polled.packets, polled.packets')
    /\ polled.packets' = << >> \/ polled.by' = polled.by

LEMMA PollStepPolled == ASSUME OneAtATime, PollStep PROVE PolledKept
<1>1. \/ polled' = NoPoll
      \/ polled.packets # << >> /\ polled' = Rest
      \/ polled.packets # << >> /\ polled' = [polled EXCEPT !.packets = Tail(@), !.in_signal = TRUE]
  BY DEF PollStep, PollStorePacket, PollMeshConnectionRequest, PollUnwantedPeerId, PollNotAServer, PollInvalidPeerId,
         PollPeerId, PollReturns, Handling
<1>2. CASE polled' = NoPoll
  <2>1. polled.packets' = << >>
    BY <1>2 DEF NoPoll
  <2> QED
    BY <2>1, PartEmpty DEF PolledKept
<1>3. ASSUME polled.packets # << >>, NEW b, polled' = [polled EXCEPT !.packets = Tail(@), !.in_signal = b]
      PROVE  PolledKept
  <2>1. polled.packets \in Seq(M!Packet \cup {NullPacket})
    BY DEF OneAtATime
  <2>2. polled.by' = polled.by /\ polled.packets' = Tail(polled.packets)
    BY <1>3 DEF OneAtATime
  <2> QED
    BY <1>3, <2>1, <2>2, PartTail DEF PolledKept
<1> QED
  BY <1>1, <1>2, <1>3 DEF Rest

LEMMA PollStepInbox ==
  ASSUME TypeInv, RefinementInv, PollStep, ~PollStorePacket
  PROVE  \A p \in Peer : InboxKept(p)
<1> DEFINE q == polled.by
           x == instance[q]
           m == Head(polled.packets)
<1>0. OneAtATime
  BY DEF RefinementInv
<1>1. CASE PollNotAServer
  <2>1. q \in Peer /\ x \in InstanceType
    BY <1>0, <1>1, Events, PolledFacts, InstanceFacts DEF PollNotAServer
  <2>2. Reset(x).incoming_packets = << >>
    BY <2>1, ResetInbox
  <2>3. instance' = [instance EXCEPT ![q] = Reset(x)]
    BY <1>1 DEF PollNotAServer
  <2> HIDE DEF q, x
  <2>4. Part(x.incoming_packets, Reset(x).incoming_packets)
    BY <2>2, PartEmpty, Zenon
  <2>5. Part(instance[q].incoming_packets, Reset(x).incoming_packets)
    BY <2>4 DEF x
  <2> QED
    BY <2>1, <2>3, <2>5, OneInboxKept
<1>2. CASE PollPeerId
  <2>1. q \in Peer /\ x \in InstanceType
    BY <1>0, <1>2, Events, PolledFacts, InstanceFacts DEF PollPeerId
  <2> DEFINE y == [x EXCEPT !.peers = M!Insert(WithoutUser(x, m.sender), m.peer_id, m.sender),
                            !.connection_status =
                               IF x.active_mode = "MODE_CLIENT" THEN "CONNECTION_CONNECTED" ELSE @]
  <2>2. y.incoming_packets = x.incoming_packets
    BY <2>1 DEF InstanceType
  <2>3. instance' = [instance EXCEPT ![q] = y]
    BY <1>2 DEF PollPeerId
  <2> HIDE DEF y
  <2> QED
    BY <2>1, <2>2, <2>3, PartSame, OneInboxKept
<1>3. CASE PollInvalidPeerId \/ PollMeshConnectionRequest \/ PollUnwantedPeerId \/ PollReturns
  BY <1>3, InboxesKept DEF PollInvalidPeerId, PollMeshConnectionRequest, PollUnwantedPeerId, PollReturns
<1> QED
  BY <1>1, <1>2, <1>3 DEF PollStep

LEMMA TickInbox ==
  ASSUME TypeInv, RefinementInv, NEW s \in Socket, NEW u \in User, Tick(s, u)
  PROVE  \A p \in Peer : InboxKept(p)
<1>1. ASSUME s \in DOMAIN active_peers
      PROVE  active_peers[s] \in Peer /\ instance[active_peers[s]] \in InstanceType
  BY <1>1, InstanceFacts DEF M!TypeOK, RefinementInv
<1> DEFINE q == active_peers[s]
           x == instance[q]
<1>2. CASE OnHeldConnectionRequest(s, u) \/ OnPeerConnectionEstablished(s, u)
  BY <1>2, InboxesKept DEF OnHeldConnectionRequest, OnPeerConnectionEstablished
<1>3. CASE OnConnectionRequest(s, u)
  <2> DEFINE y == RequestsTaken(x, [NoRequests EXCEPT ![u] = 1])
  <2>1. q \in Peer /\ x \in InstanceType
    BY <1>1, <1>3 DEF OnConnectionRequest
  <2>2. y.incoming_packets = x.incoming_packets
    BY <2>1 DEF RequestsTaken, InstanceType
  <2>3. instance' = [instance EXCEPT ![q] = y]
    BY <1>3 DEF OnConnectionRequest
  <2> HIDE DEF y
  <2> QED
    BY <2>1, <2>2, <2>3, PartSame, OneInboxKept
<1>4. ASSUME NEW notice, OnUnregisteredConnectionClosed(s, u, notice) PROVE \A p \in Peer : InboxKept(p)
  BY <1>4, InboxesKept DEF OnUnregisteredConnectionClosed
<1>5. ASSUME NEW notice, OnRemoteConnectionClosed(s, u, notice) PROVE \A p \in Peer : InboxKept(p)
  <2> DEFINE w == WithoutRemoteUser(x, u)
  <2>1. q \in Peer /\ x \in InstanceType /\ w \in InstanceType
    BY <1>1, <1>5, WithoutRemoteUserType DEF OnRemoteConnectionClosed
  <2>2. x.incoming_packets \in Seq(IncomingPacket)
    BY <2>1 DEF InstanceType
  <2>3. w.incoming_packets = InboxWithout(x.incoming_packets, IdsOf(x, u))
    BY <2>1 DEF WithoutRemoteUser, InstanceType
  <2>4. instance' = [instance EXCEPT ![q] = w] \/ instance' = [instance EXCEPT ![q] = Reset(w)]
    BY <1>5 DEF OnRemoteConnectionClosed
  <2> HIDE DEF w
  <2>5. Part(x.incoming_packets, w.incoming_packets)
    BY <2>2, <2>3, PartInbox
  <2>6. Reset(w).incoming_packets = << >>
    BY <2>1, ResetInbox
  <2> QED
    BY <2>1, <2>4, <2>5, <2>6, PartEmpty, OneInboxKept
<1> QED
  BY <1>2, <1>3, <1>4, <1>5 DEF Tick

\* Every step but one that stores a packet.
LEMMA NextInbox ==
  ASSUME PeerInv, [Next]_vars
  PROVE  /\ \A p \in Peer : SessionKept(p)
         /\ PollStorePacket \/ \A p \in Peer : InboxKept(p)
<1> USE DEF PeerInv
<1>1. CASE \E q \in Peer : Creation(q)
  BY <1>1, CreationInbox DEF RefinementInv
<1>2. CASE \A q \in Peer : ~Creation(q)
  <2>1. \A p \in Peer : SessionKept(p)
    BY <1>2, NextKeeps, KeptSession
  <2>2. ASSUME NEW s, NEW u, RemoteStep(s, u) PROVE UNCHANGED instance
    BY <2>2 DEF RemoteStep
  <2>3. ASSUME NEW s, NEW u, NEW e, NEW i, RemotePacket(s, u, e, i) PROVE UNCHANGED instance
    BY <2>3 DEF RemotePacket
  <2>4. ASSUME NEW p, Poll(p) PROVE UNCHANGED instance
    BY <2>4 DEF Poll
  <2>5. ASSUME Frame \/ FrameReceives \/ Login \/ Logout \/ UNCHANGED vars PROVE UNCHANGED instance
    BY <2>5 DEF Frame, FrameReceives, Login, Logout, vars
  <2>6. PollStorePacket \/ \A p \in Peer : InboxKept(p)
    BY <1>2, <2>2, <2>3, <2>4, <2>5, InboxesKept, ApplicationInbox, PollStepInbox, TickInbox DEF Next
  <2> QED
    BY <2>1, <2>6
<1> QED
  BY <1>1, <1>2

----------------------------------------------------------------------------
\* A packet that was taken stays older than what is received or waits

OrderInv == PeerInv /\ Proofs!ArrivalOrder

LEMMA MediatorStep ==
  ASSUME PeerInv, [Next]_vars
  PROVE  Proofs!TypeOK /\ Proofs!QueuesMatchPeers /\ [Proofs!Next]_(Proofs!vars)
<1>1. [M!Next]_(M!vars)
  BY NextRefines DEF PeerInv
<1> QED
  BY <1>1, SameNext, SameInvariants DEF PeerInv, RefinementInv

LEMMA PastStays ==
  ASSUME PeerInv, [Next]_vars, NEW n \in Nat, Past(n)
  PROVE  Past(n)'
<1>1. /\ arrivals' \in Nat /\ arrivals <= arrivals'
      /\ \A i \in 1..Len(received') :
            received'[i].n = arrivals + 1 \/ \E j \in 1..Len(received) : received'[i] = received[j]
  BY MediatorStep, Proofs!ReceivedSources, MediatorAssumptions
<1>2. arrivals \in Nat
  BY Numbers
<1> QED
  BY <1>1, <1>2 DEF Past

LEMMA AheadStays ==
  ASSUME PeerInv, [Next]_vars, NEW n \in Nat, NEW s, Past(n), Ahead(n, s)
  PROVE  Ahead(n, s)'
<1> SUFFICES ASSUME s \in DOMAIN socket_packet_queues', NEW i \in 1..Len(socket_packet_queues'[s]),
                    IsStore(socket_packet_queues'[s][i])
             PROVE  n < socket_packet_queues'[s][i].n
  BY DEF Ahead, IsStore
<1>1. \/ /\ s \in DOMAIN socket_packet_queues
         /\ \E j \in 1..Len(socket_packet_queues[s]) : socket_packet_queues'[s][i] = socket_packet_queues[s][j]
      \/ received # << >> /\ socket_packet_queues'[s][i] = Head(received)
  BY MediatorStep, Proofs!QueueSources, MediatorAssumptions
<1>2. received # << >> => 1 \in 1..Len(received) /\ Head(received) = received[1]
  BY Numbers, HeadTailProperties
<1> QED
  BY <1>1, <1>2 DEF Ahead, Past, IsStore

\* Unless it is a _poll, a step takes nothing: what was taken stays behind.
LEMMA TakenStays ==
  ASSUME PeerInv, InboxInv, [Next]_vars, \A p \in Peer, n \in Nat : Taken(p, n)' => Taken(p, n)
  PROVE  TakenIsPast' /\ TakenIsAhead'
<1>1. TakenIsPast'
  <2> SUFFICES ASSUME NEW p \in Peer, NEW n \in Nat, Taken(p, n)' PROVE Past(n)'
    BY DEF TakenIsPast
  <2> QED
    BY PastStays DEF InboxInv, TakenIsPast
<1>2. TakenIsAhead'
  <2> SUFFICES ASSUME NEW p \in Peer, NEW n \in Nat, Taken(p, n)', IsActive(instance[p])'
               PROVE  Ahead(n, instance[p].socket)'
    BY DEF TakenIsAhead
  <2>1. Taken(p, n) /\ Past(n)
    BY DEF InboxInv, TakenIsPast
  <2>2. SessionKept(p)
    BY NextInbox
  <2>3. CASE IsActive(instance[p]) /\ instance[p].socket' = instance[p].socket
    <3>1. Ahead(n, instance[p].socket)
      BY <2>1, <2>3 DEF InboxInv, TakenIsAhead
    <3>2. PICK s : s = instance[p].socket
      OBVIOUS
    <3>3. Ahead(n, s)'
      BY <2>1, <3>1, <3>2, AheadStays
    <3> QED
      BY <2>3, <3>2, <3>3 DEF Ahead, IsStore
  <2>4. CASE socket_packet_queues[instance[p].socket]' = << >>
    <3>1. 1..Len(<< >>) = {}
      OBVIOUS
    <3> QED
      BY <2>4, <3>1 DEF Ahead
  <2> QED
    BY <2>2, <2>3, <2>4 DEF SessionKept, IsActive
<1> QED
  BY <1>1, <1>2

\* What was polled and not handled yet is in order, after the inbox.
LEMMA PolledStays ==
  ASSUME PeerInv, InboxInv, PolledKept
  PROVE  /\ PolledInOrder'
         /\ \A p \in Peer : \A k \in 1..Len(polled'.packets) :
               polled'.by = p /\ IsStore(polled'.packets[k])
               => /\ polled.by = p
                  /\ \E l \in 1..Len(polled.packets) : polled'.packets[k] = polled.packets[l]
<1>1. PICK place \in [1..Len(polled'.packets) -> 1..Len(polled.packets)] :
         /\ \A j, k \in 1..Len(polled'.packets) : j < k => place[j] < place[k]
         /\ \A k \in 1..Len(polled'.packets) : polled'.packets[k] = polled.packets[place[k]]
  BY DEF PolledKept, Part
<1>2. polled'.packets = << >> \/ polled'.by = polled.by
  BY DEF PolledKept
<1>3. 1..Len(<< >>) = {}
  OBVIOUS
<1>4. PolledInOrder'
  BY <1>1 DEF InboxInv, PolledInOrder, IsStore
<1> QED
  BY <1>1, <1>2, <1>3, <1>4

----------------------------------------------------------------------------
\* The inductive steps

\* A step that takes packets out of inboxes and of the _poll in progress.
LEMMA QuietStep ==
  ASSUME PeerInv, InboxInv, [Next]_vars, PolledKept, \A p \in Peer : InboxKept(p)
  PROVE  InboxInv'
<1>1. ASSUME NEW p \in Peer
      PROVE  \E place \in [1..Len(Inbox(p)') -> 1..Len(Inbox(p))] :
                /\ \A j, k \in 1..Len(Inbox(p)') : j < k => place[j] < place[k]
                /\ \A k \in 1..Len(Inbox(p)') : Inbox(p)'[k] = Inbox(p)[place[k]]
  BY DEF InboxKept, Part, Inbox
<1>2. \A p \in Peer : \A i \in 1..Len(Inbox(p)') : \E j \in 1..Len(Inbox(p)) : Inbox(p)'[i] = Inbox(p)[j]
  BY <1>1
<1>3. /\ PolledInOrder'
      /\ \A p \in Peer : \A k \in 1..Len(polled'.packets) :
            polled'.by = p /\ IsStore(polled'.packets[k])
            => /\ polled.by = p
               /\ \E l \in 1..Len(polled.packets) : polled'.packets[k] = polled.packets[l]
  BY PolledStays
<1>4. InboxInOrder'
  <2> SUFFICES ASSUME NEW p \in Peer, NEW i \in 1..Len(Inbox(p)'), NEW j \in 1..Len(Inbox(p)'), i < j
               PROVE  Inbox(p)'[i].n < Inbox(p)'[j].n
    BY DEF InboxInOrder, Inbox
  <2>1. \A k, l \in 1..Len(Inbox(p)) : k < l => Inbox(p)[k].n < Inbox(p)[l].n
    BY DEF InboxInv, InboxInOrder, Inbox
  <2> QED
    BY <1>1, <2>1
<1>5. InboxFirst'
  <2> SUFFICES ASSUME polled'.by \in Peer, NEW p, p = polled'.by, NEW i \in 1..Len(Inbox(p)'),
                      NEW k \in 1..Len(polled'.packets), IsStore(polled'.packets[k])
               PROVE  Inbox(p)'[i].n < polled'.packets[k].n
    BY DEF InboxFirst, IsStore, Inbox
  <2>1. PICK j \in 1..Len(Inbox(p)) : Inbox(p)'[i] = Inbox(p)[j]
    BY <1>2
  <2>2. polled.by = p /\ \E l \in 1..Len(polled.packets) : polled'.packets[k] = polled.packets[l]
    BY <1>3
  <2>3. PICK l \in 1..Len(polled.packets) : polled'.packets[k] = polled.packets[l]
    BY <2>2
  <2> QED
    BY <2>1, <2>2, <2>3 DEF InboxInv, InboxFirst, IsStore
<1>6. ASSUME NEW p \in Peer, NEW n \in Nat, Taken(p, n)' PROVE Taken(p, n)
  <2>1. \/ \E i \in 1..Len(Inbox(p)') : Inbox(p)'[i].n = n
        \/ polled'.by = p /\ \E k \in 1..Len(polled'.packets) : IsStore(polled'.packets[k]) /\ polled'.packets[k].n = n
    BY <1>6 DEF Taken, IsStore
  <2> QED
    BY <1>2, <1>3, <2>1 DEF Taken, IsStore
<1>7. TakenIsPast' /\ TakenIsAhead'
  BY <1>6, TakenStays
<1> QED
  BY <1>3, <1>4, <1>5, <1>7 DEF InboxInv

\* The first packet of the _poll in progress moves to the end of the inbox.
LEMMA StoreStep ==
  ASSUME PeerInv, InboxInv, [Next]_vars, PolledKept, PollStorePacket
  PROVE  InboxInv'
<1>1. polled.by \in Peer
  BY Events, PolledFacts DEF PollStorePacket, PeerInv, RefinementInv
<1>2. PICK q \in Peer : q = polled.by
  BY <1>1
<1>3. PICK m : m = Head(polled.packets)
  OBVIOUS
<1>4. UNCHANGED instance \/ (polled' = Rest
        /\ instance' = [instance EXCEPT ![q].incoming_packets = Stored(@, m)])
  BY <1>2, <1>3 DEF PollStorePacket
<1>5. CASE UNCHANGED instance
  BY <1>5, InboxesKept, QuietStep
<1>6. CASE polled' = Rest /\ instance' = [instance EXCEPT ![q].incoming_packets = Stored(@, m)]
  <2>1. instance[q] \in InstanceType /\ polled.packets # << >> /\ IsStore(m)
    BY <1>3, InstanceFacts DEF PollStorePacket, Handling, IsStore, PeerInv
  <2>2. /\ Len(polled.packets) \in Nat /\ 1 \in 1..Len(polled.packets) /\ m = polled.packets[1]
        /\ Tail(polled.packets) \in Seq(M!Packet \cup {NullPacket})
        /\ Len(Tail(polled.packets)) = Len(polled.packets) - 1
        /\ \A k \in 1..Len(Tail(polled.packets)) : Tail(polled.packets)[k] = polled.packets[k + 1]
    BY <1>3, <2>1, Numbers, HeadTailProperties
  <2>3. m.n \in Nat
    BY <2>1, <2>2, Numbers
  <2>4. Inbox(q)' = Append(Inbox(q), [peer_id |-> m.peer_id, n |-> m.n])
    BY <1>6, <2>1 DEF Inbox, Stored, PeerInv, TypeInv, InstanceType
  <2>5. /\ Len(Inbox(q)) \in Nat /\ Len(Inbox(q)') = Len(Inbox(q)) + 1
        /\ Inbox(q)'[Len(Inbox(q)) + 1].n = m.n
        /\ \A i \in 1..Len(Inbox(q)) : Inbox(q)'[i] = Inbox(q)[i]
    BY <2>1, <2>4, Numbers, AppendProperties
  <2>6. \A p \in Peer \ {q} : Inbox(p)' = Inbox(p)
    BY <1>6 DEF Inbox, PeerInv, TypeInv
  <2>7. \A i \in 1..Len(Inbox(q)') : Inbox(q)'[i].n = m.n \/ (i \in 1..Len(Inbox(q)) /\ Inbox(q)'[i] = Inbox(q)[i])
    BY <2>5
  <2>8. \A i \in 1..Len(Inbox(q)) : Inbox(q)[i].n < m.n
    BY <1>2, <2>1, <2>2 DEF InboxInv, InboxFirst
  <2>9. InboxInOrder'
    <3> SUFFICES ASSUME NEW p \in Peer, NEW i \in 1..Len(Inbox(p)'), NEW j \in 1..Len(Inbox(p)'), i < j
                 PROVE  Inbox(p)'[i].n < Inbox(p)'[j].n
      BY DEF InboxInOrder, Inbox
    <3>1. \A k, l \in 1..Len(Inbox(p)) : k < l => Inbox(p)[k].n < Inbox(p)[l].n
      BY DEF InboxInv, InboxInOrder, Inbox
    <3>2. CASE p # q
      BY <2>6, <3>1, <3>2
    <3>3. CASE p = q
      <4>1. i \in 1..Len(Inbox(q)) /\ (j = Len(Inbox(q)) + 1 \/ j \in 1..Len(Inbox(q)))
        BY <2>5, <3>3
      <4> QED
        BY <2>5, <2>8, <3>1, <3>3, <4>1
    <3> QED
      BY <3>2, <3>3
  <2>10. /\ PolledInOrder'
         /\ \A p \in Peer : \A k \in 1..Len(polled'.packets) :
               polled'.by = p /\ IsStore(polled'.packets[k])
               => /\ polled.by = p
                  /\ \E l \in 1..Len(polled.packets) : polled'.packets[k] = polled.packets[l]
    BY PolledStays
  <2>11. ASSUME NEW k \in 1..Len(polled'.packets), IsStore(polled'.packets[k])
         PROVE  /\ polled'.by = q
                /\ \E l \in 1..Len(polled.packets) : 1 < l /\ polled'.packets[k] = polled.packets[l]
    <3>1. NoPoll.packets = << >> /\ 1..Len(<< >>) = {}
      BY DEF NoPoll
    <3>2. polled' = [polled EXCEPT !.packets = Tail(@), !.in_signal = FALSE]
      BY <1>6, <2>11, <3>1 DEF Rest
    <3>3. polled'.by = q /\ polled'.packets = Tail(polled.packets)
      BY <1>2, <3>2 DEF PeerInv, RefinementInv, OneAtATime
    <3>4. k + 1 \in 1..Len(polled.packets) /\ 1 < k + 1 /\ polled'.packets[k] = polled.packets[k + 1]
      BY <2>2, <3>3
    <3> QED
      BY <3>3, <3>4
  <2>12. InboxFirst'
    <3> SUFFICES ASSUME NEW i \in 1..Len(Inbox(q)'), NEW k \in 1..Len(polled'.packets),
                        IsStore(polled'.packets[k])
                 PROVE  Inbox(q)'[i].n < polled'.packets[k].n
      BY <2>11 DEF InboxFirst, IsStore, Inbox
    <3>1. PICK l \in 1..Len(polled.packets) : 1 < l /\ polled'.packets[k] = polled.packets[l]
      BY <2>11
    <3>2. m.n < polled.packets[l].n
      BY <2>1, <2>2, <3>1 DEF InboxInv, PolledInOrder, IsStore
    <3>3. i \in 1..Len(Inbox(q)) => Inbox(q)[i].n < polled.packets[l].n
      BY <1>2, <3>1 DEF InboxInv, InboxFirst, IsStore
    <3> QED
      BY <2>7, <3>1, <3>2, <3>3
  <2>13. ASSUME NEW p \in Peer, NEW n \in Nat, Taken(p, n)' PROVE Taken(p, n)
    <3>1. \/ \E i \in 1..Len(Inbox(p)') : Inbox(p)'[i].n = n
          \/ polled'.by = p /\ \E k \in 1..Len(polled'.packets) : IsStore(polled'.packets[k]) /\ polled'.packets[k].n = n
      BY <2>13 DEF Taken, IsStore
    <3>2. CASE \E i \in 1..Len(Inbox(p)') : Inbox(p)'[i].n = n
      <4>1. Taken(q, m.n)
        BY <1>2, <2>1, <2>2 DEF Taken
      <4> QED
        BY <2>6, <2>7, <3>2, <4>1 DEF Taken
    <3>3. CASE polled'.by = p /\ \E k \in 1..Len(polled'.packets) : IsStore(polled'.packets[k]) /\ polled'.packets[k].n = n
      BY <2>10, <3>3 DEF Taken, IsStore
    <3> QED
      BY <3>1, <3>2, <3>3
  <2>14. TakenIsPast' /\ TakenIsAhead'
    BY <2>13, TakenStays
  <2> QED
    BY <2>9, <2>10, <2>12, <2>14 DEF InboxInv
<1> QED
  BY <1>4, <1>5, <1>6

\* A _poll moves the front of the queue to its list: packets in order, after
\* those in the inbox, before those that stay.
LEMMA PollTakes ==
  ASSUME OrderInv, InboxInv, [Next]_vars, NEW p \in Peer, Poll(p)
  PROVE  InboxInv'
<1>1. PICK s : s = instance[p].socket
  OBVIOUS
<1> DEFINE queue == socket_packet_queues[s]
<1>2. PICK taken : taken = IF instance[p].polling THEN Len(queue) ELSE LeadingPeerIds(queue)
  OBVIOUS
<1>3. /\ IsActive(instance[p]) /\ s \in DOMAIN socket_packet_queues /\ taken > 0
      /\ socket_packet_queues' = [socket_packet_queues EXCEPT ![s] = SubSeq(queue, taken + 1, Len(queue))]
      /\ polled' = [by |-> p, in_signal |-> FALSE,
                    packets |-> [k \in 1..taken |-> IF instance[p].polling THEN queue[k] ELSE NullPacket]]
      /\ UNCHANGED <<received, arrivals, instance>>
  BY <1>1, <1>2 DEF Poll
<1>4. /\ queue \in Seq(M!Packet) /\ Len(queue) \in Nat
      /\ \A j \in 1..Len(queue) : queue[j].n \in Nat
      /\ Proofs!QueueInOrder(queue, received, arrivals)
  BY <1>3, Numbers DEF OrderInv, Proofs!ArrivalOrder
<1>5. taken \in 1..Len(queue)
  BY <1>2, <1>3, <1>4, LeadingPeerIdsBound
<1>6. ASSUME NEW j \in 1..Len(queue), NEW k \in 1..Len(queue), IsStore(queue[j]), IsStore(queue[k]), j < k
      PROVE  queue[j].n < queue[k].n
  BY <1>4, <1>6 DEF Proofs!QueueInOrder, Proofs!OthersInOrder, Proofs!IsPeerIdPacket, IsStore
<1>7. ASSUME NEW j \in 1..Len(queue), NEW n \in Nat, n = queue[j].n PROVE Past(n)
  BY <1>4, <1>7 DEF Proofs!QueueInOrder, Past
<1>8. socket_packet_queues'[s] = SubSeq(queue, taken + 1, Len(queue))
  BY <1>3
<1> HIDE DEF queue
<1>9. /\ Len(socket_packet_queues'[s]) = Len(queue) - taken
      /\ \A i \in 1..(Len(queue) - taken) : socket_packet_queues'[s][i] = queue[i + taken]
  <2>1. queue \in Seq(Proofs!Packet)
    BY <1>4 DEF M!Packet, Proofs!Packet, M!Event, Proofs!Event
  <2> QED
    BY <1>5, <1>8, <2>1, Proofs!SuffixProperties, MediatorAssumptions
<1>10. polled'.by = p /\ \A q \in Peer : Inbox(q)' = Inbox(q)
  BY <1>3 DEF Inbox
<1>11. /\ Len(polled'.packets) = taken
       /\ \A k \in 1..taken : IsStore(polled'.packets[k]) => polled'.packets[k] = queue[k]
  <2>1. ~IsStore(NullPacket)
    BY DEF IsStore, NullPacket
  <2>2. polled'.packets = [k \in 1..taken |-> IF instance[p].polling THEN queue[k] ELSE NullPacket]
    BY <1>3
  <2>3. Len(polled'.packets) = taken
    BY <1>4, <1>5, <2>2
  <2> QED
    BY <2>1, <2>2, <2>3
<1>12. ASSUME NEW k \in 1..Len(polled'.packets), IsStore(polled'.packets[k])
       PROVE  k \in 1..Len(queue) /\ k <= taken /\ polled'.packets[k] = queue[k] /\ IsStore(queue[k])
  BY <1>4, <1>5, <1>11, <1>12
<1>13. InboxInOrder'
  BY <1>3 DEF InboxInv, InboxInOrder
<1>14. PolledInOrder'
  <2> SUFFICES ASSUME NEW j \in 1..Len(polled'.packets), NEW k \in 1..Len(polled'.packets), j < k,
                      IsStore(polled'.packets[j]), IsStore(polled'.packets[k])
               PROVE  polled'.packets[j].n < polled'.packets[k].n
    BY DEF PolledInOrder, IsStore
  <2> QED
    BY <1>6, <1>12
<1>15. \A i \in 1..Len(Inbox(p)) : Inbox(p)[i].n \in Nat /\ Taken(p, Inbox(p)[i].n)
  BY Numbers DEF OrderInv, Taken
<1>16. InboxFirst'
  <2> SUFFICES ASSUME NEW i \in 1..Len(Inbox(p)), NEW k \in 1..Len(polled'.packets), IsStore(polled'.packets[k])
               PROVE  Inbox(p)[i].n < polled'.packets[k].n
    BY <1>10 DEF InboxFirst, IsStore, Inbox
  <2>1. Ahead(Inbox(p)[i].n, s)
    BY <1>1, <1>3, <1>15 DEF InboxInv, TakenIsAhead
  <2>2. k \in 1..Len(queue) /\ polled'.packets[k] = queue[k] /\ IsStore(queue[k])
    BY <1>12
  <2> QED
    BY <1>3, <2>1, <2>2 DEF Ahead, queue
<1>17. ASSUME NEW q \in Peer, NEW n \in Nat, Taken(q, n)'
       PROVE  Taken(q, n) \/ (q = p /\ \E k \in 1..Len(queue) : k <= taken /\ IsStore(queue[k]) /\ queue[k].n = n)
  <2>1. \/ \E i \in 1..Len(Inbox(q)') : Inbox(q)'[i].n = n
        \/ polled'.by = q /\ \E k \in 1..Len(polled'.packets) : IsStore(polled'.packets[k]) /\ polled'.packets[k].n = n
    BY <1>17 DEF Taken, IsStore
  <2>2. CASE \E i \in 1..Len(Inbox(q)') : Inbox(q)'[i].n = n
    BY <1>10, <2>2 DEF Taken
  <2>3. CASE polled'.by = q /\ \E k \in 1..Len(polled'.packets) : IsStore(polled'.packets[k]) /\ polled'.packets[k].n = n
    BY <1>10, <1>12, <2>3
  <2> QED
    BY <2>1, <2>2, <2>3
<1>18. ASSUME NEW q \in Peer, NEW n \in Nat, Taken(q, n)' PROVE Past(n)
  BY <1>7, <1>17, <1>18 DEF InboxInv, TakenIsPast
<1>19. TakenIsPast'
  BY <1>3, <1>18 DEF TakenIsPast, Past
<1>20. TakenIsAhead'
  <2> SUFFICES ASSUME NEW q \in Peer, NEW n \in Nat, Taken(q, n)', IsActive(instance[q])
               PROVE  Ahead(n, instance[q].socket)'
    BY <1>3 DEF TakenIsAhead
  <2>1. PICK t : t = instance[q].socket
    OBVIOUS
  <2>2. CASE Taken(q, n)
    <3>1. Past(n) /\ Ahead(n, t)
      BY <1>18, <2>1, <2>2 DEF InboxInv, TakenIsAhead
    <3>2. Ahead(n, t)'
      BY <3>1, AheadStays DEF OrderInv
    <3> QED
      BY <1>3, <2>1, <3>2 DEF Ahead, IsStore
  <2>3. CASE q = p /\ \E k \in 1..Len(queue) : k <= taken /\ IsStore(queue[k]) /\ queue[k].n = n
    <3>1. PICK k \in 1..Len(queue) : k <= taken /\ IsStore(queue[k]) /\ queue[k].n = n
      BY <2>3
    <3>2. ASSUME NEW j \in 1..Len(socket_packet_queues'[s]), IsStore(socket_packet_queues'[s][j])
          PROVE  n < socket_packet_queues'[s][j].n
      <4>1. /\ j + taken \in 1..Len(queue) /\ k < j + taken
            /\ socket_packet_queues'[s][j] = queue[j + taken]
        BY <1>4, <1>5, <1>9, <3>1
      <4> QED
        BY <1>6, <3>1, <3>2, <4>1
    <3> QED
      BY <1>1, <1>3, <2>3, <3>2 DEF Ahead, IsStore
  <2> QED
    BY <1>17, <2>2, <2>3
<1> QED
  BY <1>13, <1>14, <1>16, <1>19, <1>20 DEF InboxInv

LEMMA InboxStep == OrderInv /\ InboxInv /\ [Next]_vars => InboxInv'
<1> SUFFICES ASSUME OrderInv, InboxInv, [Next]_vars PROVE InboxInv'
  OBVIOUS
<1>1. CASE \E p \in Peer : Poll(p)
  BY <1>1, PollTakes
<1>2. CASE UNCHANGED polled \/ PollStep
  <2>1. PolledKept
    BY <1>2, PartSame, PollStepPolled DEF PolledKept, OrderInv, PeerInv, RefinementInv
  <2> QED
    BY <2>1, NextInbox, QuietStep, StoreStep DEF OrderInv
<1> QED
  BY <1>1, <1>2, OnlyPollsPoll

LEMMA InitInbox == Init => InboxInv
<1> SUFFICES ASSUME Init PROVE InboxInv
  OBVIOUS
<1>1. /\ polled.packets = << >> /\ polled.by \notin Peer
      /\ \A p \in Peer : instance[p].incoming_packets = << >>
  BY NoneAssumption DEF Init, NoPoll, NewInstance
<1>2. 1..Len(<< >>) = {}
  OBVIOUS
<1> QED
  BY <1>1, <1>2 DEF InboxInv, InboxInOrder, PolledInOrder, InboxFirst, TakenIsPast, TakenIsAhead, Taken, Inbox

\* Whatever the application does from inside peer_connected - closing, creating
\* again under another name, dropping peers, turning polling off -, and however
\* closings and frames come in between, what MultiplayerAPI reads from an
\* instance is in the order in which it reached the SDK.
THEOREM InboxAlwaysInOrder == Spec => []InboxInOrder
<1>1. Init => InboxInv
  BY InitInbox
<1>2. OrderInv /\ InboxInv /\ [Next]_vars => InboxInv'
  BY InboxStep
<1>3. Spec => []OrderInv
  BY PeerInvCorrect, ArrivalOrderForPeers, PTL DEF OrderInv
<1>4. InboxInv => InboxInOrder
  BY DEF InboxInv
<1> QED
  BY <1>1, <1>2, <1>3, <1>4, PTL DEF Spec
=================================================================================
