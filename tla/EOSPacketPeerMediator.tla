----------------------- MODULE EOSPacketPeerMediator -----------------------
(***************************************************************************)
(* The EOSPacketPeerMediator singleton                                     *)
(* (src/gd_eos/src/eos_packet_peer_mediator.cpp and its header): it drains *)
(* the packets of the EOS SDK once per process frame, files them by socket *)
(* for the multiplayer instances to poll, and holds the connection         *)
(* requests of sockets nobody has opened yet.                              *)
(*                                                                         *)
(* The do-while loop of _on_process_frame is one action per iteration;     *)
(* `receiving` is TRUE inside the loop and no other action is enabled then,*)
(* because a frame runs to its end on the main thread.  A packet is its    *)
(* socket, its sender, its event byte, the peer id of its header and n,    *)
(* the position of its arrival.  The list of held requests is a bag: two   *)
(* equal requests are indistinguishable and the list's order is never used.*)
(***************************************************************************)
EXTENDS Naturals, Sequences, FiniteSets, Functions

CONSTANTS
    Peer,               \* multiplayer instances
    Socket,             \* socket names
    User,               \* remote product user ids
    PeerId,             \* peer ids a packet header can carry
    QueueLimit,         \* the limits the application may set
    DefaultQueueLimit,  \* 5000 in the code
    MaxArrivals,        \* bound: packets that reach the SDK
    MaxHeld             \* bound: equal requests held at once

ASSUME QueueLimitAssumption ==
    /\ QueueLimit \subseteq Nat
    /\ DefaultQueueLimit \in Nat \ {0}
ASSUME BoundAssumption == MaxArrivals \in Nat /\ MaxHeld \in Nat

Event == {"EVENT_STORE_PACKET", "EVENT_RECEIVE_PEER_ID", "EVENT_MESH_CONNECTION_REQUEST"}

Packet == [socket : Socket, sender : User, event : Event, peer_id : PeerId, n : 1..MaxArrivals]

VARIABLES
    active_peers,                 \* socket name -> the instance registered for it
    socket_packet_queues,         \* socket name -> its queue
    pending_connection_requests,  \* socket name -> remote user -> requests held
    max_queue_size,
    initialized,
    receiving,                    \* inside the loop of _on_process_frame
    received,                     \* the SDK's queue of received packets
    arrivals                      \* packets that reached the SDK so far

registry == <<active_peers, socket_packet_queues, pending_connection_requests>>
network  == <<received, arrivals>>
vars == <<registry, max_queue_size, initialized, receiving, network>>

----------------------------------------------------------------------------
\* The queues

IsPeerIdPacket(m) == m.event = "EVENT_RECEIVE_PEER_ID"

\* Every place of every queue, so that the total is a number of places.
Places(queues) == UNION { {s} \X (1..Len(queues[s])) : s \in DOMAIN queues }

TotalPacketCount(queues) == Cardinality(Places(queues))

\* get_total_packet_count() < max_queue_size.  (RoomOffByOne and the other
\* definitions marked "variant" are bugs the properties are tried on.)
RoomOffByOne(queues) == TotalPacketCount(queues) <= max_queue_size  \* variant
Room(queues) == TotalPacketCount(queues) < max_queue_size

FiledAtBack(queue, m) == Append(queue, m)      \* variant
FiledAtFront(queue, m) == <<m>> \o queue       \* variant

\* Peer id packets go to the front of their queue, all others to the back.
Filed(queue, m) == IF IsPeerIdPacket(m) THEN <<m>> \o queue ELSE Append(queue, m)

\* The places a set of naturals 1..n takes when it is listed in order.
InOrder(I) == CHOOSE place \in [1..Cardinality(I) -> I] :
                 \A j, k \in 1..Cardinality(I) : j < k => place[j] < place[k]

\* A queue without the packets of one remote user, the others in their order.
Without(queue, u) ==
    LET kept == InOrder({i \in 1..Len(queue) : queue[i].sender # u})
    IN  [k \in DOMAIN kept |-> queue[kept[k]]]

Insert(f, k, v) == [x \in DOMAIN f \cup {k} |-> IF x = k THEN v ELSE f[x]]

----------------------------------------------------------------------------
Init ==
    /\ active_peers = << >>
    /\ socket_packet_queues = << >>
    /\ pending_connection_requests = [s \in Socket |-> [u \in User |-> 0]]
    /\ max_queue_size = DefaultQueueLimit
    /\ initialized = FALSE
    /\ receiving = FALSE
    /\ received = << >>
    /\ arrivals = 0

\* A packet reaches the SDK; it may be addressed to any socket name.
PacketArrives(s, u, e, i) ==
    /\ ~receiving
    /\ arrivals < MaxArrivals
    /\ arrivals' = arrivals + 1
    /\ received' = Append(received,
                          [socket |-> s, sender |-> u, event |-> e, peer_id |-> i, n |-> arrivals + 1])
    /\ UNCHANGED <<registry, max_queue_size, initialized, receiving>>

\* _on_process_frame enters its loop.  (With nothing received the first
\* iteration ends it and the frame changes nothing.)
OnProcessFrame ==
    /\ ~receiving
    /\ initialized
    /\ DOMAIN socket_packet_queues # {}
    /\ Room(socket_packet_queues)
    /\ received # << >>
    /\ receiving' = TRUE
    /\ UNCHANGED <<registry, max_queue_size, initialized, network>>

\* One iteration: EOS_P2P_GetNextReceivedPacketSize has no packet left.
NoPacketLeft ==
    /\ receiving
    /\ received = << >>
    /\ receiving' = FALSE
    /\ UNCHANGED <<registry, max_queue_size, initialized, network>>

StrayPacketStays ==  \* variant
    receiving /\ receiving' = FALSE /\ UNCHANGED <<registry, max_queue_size, initialized, network>>

StrayPacketFlushes ==  \* variant
    /\ receiving /\ received # << >> /\ Head(received).socket \notin DOMAIN socket_packet_queues
    /\ received' = << >> /\ receiving' = FALSE
    /\ UNCHANGED <<registry, max_queue_size, initialized, arrivals>>

\* One iteration: the packet's socket has no queue.  The packet is dropped
\* and the frame returns.
DropPacket ==
    /\ receiving
    /\ received # << >>
    /\ Head(received).socket \notin DOMAIN socket_packet_queues
    /\ received' = Tail(received)
    /\ receiving' = FALSE
    /\ UNCHANGED <<registry, max_queue_size, initialized, arrivals>>

\* One iteration: the packet is filed; the loop goes on while there is room.
FilePacket ==
    /\ receiving
    /\ received # << >>
    /\ LET m == Head(received) IN
         /\ m.socket \in DOMAIN socket_packet_queues
         /\ socket_packet_queues' = [socket_packet_queues EXCEPT ![m.socket] = Filed(@, m)]
    /\ received' = Tail(received)
    /\ receiving' = Room(socket_packet_queues')
    /\ UNCHANGED <<active_peers, pending_connection_requests, max_queue_size, initialized, arrivals>>

PollLastPackets(s) ==  \* variant
    /\ ~receiving
    /\ s \in DOMAIN socket_packet_queues
    /\ \E k \in 1..Len(socket_packet_queues[s]) :
          socket_packet_queues' = [socket_packet_queues EXCEPT ![s] = SubSeq(@, 1, Len(@) - k)]
    /\ UNCHANGED <<active_peers, pending_connection_requests, max_queue_size, initialized, receiving, network>>

\* poll_next_packet, called some number of times in a row by one _poll.
PollNextPackets(s) ==
    /\ ~receiving
    /\ s \in DOMAIN socket_packet_queues
    /\ LET queue == socket_packet_queues[s] IN
         \E k \in 1..Len(queue) :
            socket_packet_queues' = [socket_packet_queues EXCEPT ![s] = SubSeq(queue, k + 1, Len(queue))]
    /\ UNCHANGED <<active_peers, pending_connection_requests, max_queue_size, initialized, receiving, network>>

ForwardFirstConnectionRequest(s) ==  \* variant
    pending_connection_requests' =
        [pending_connection_requests EXCEPT ![s] = [u \in User |-> IF @[u] > 1 THEN @[u] - 1 ELSE 0]]

ForwardAndKeep(s) == UNCHANGED pending_connection_requests  \* variant

ForwardPendingConnectionRequests(s) ==
    pending_connection_requests' = [pending_connection_requests EXCEPT ![s] = [u \in User |-> 0]]

\* register_peer of an instance whose socket is named s.
RegisterPeer(p, s) ==
    /\ ~receiving
    /\ initialized
    /\ s \notin DOMAIN active_peers
    /\ active_peers' = Insert(active_peers, s, p)
    /\ socket_packet_queues' = Insert(socket_packet_queues, s, << >>)
    /\ ForwardPendingConnectionRequests(s)
    /\ UNCHANGED <<max_queue_size, initialized, receiving, network>>

\* A registration undone by the same call (create_client when its first packet
\* cannot be sent): what remains is that the held requests were forwarded.
RegisterAndUnregisterPeer(s) ==
    /\ ~receiving
    /\ initialized
    /\ s \notin DOMAIN active_peers
    /\ ForwardPendingConnectionRequests(s)
    /\ UNCHANGED <<active_peers, socket_packet_queues, max_queue_size, initialized, receiving, network>>

UnregisteredKeepingQueue(s) ==  \* variant
    /\ active_peers' = Restrict(active_peers, DOMAIN active_peers \ {s})
    /\ UNCHANGED socket_packet_queues

\* What unregister_peer does to a registered socket: the instance is not compared.
Unregistered(s) ==
    /\ active_peers' = Restrict(active_peers, DOMAIN active_peers \ {s})
    /\ socket_packet_queues' = Restrict(socket_packet_queues, DOMAIN socket_packet_queues \ {s})

UnregisterPeer(s) ==
    /\ ~receiving
    /\ s \in DOMAIN active_peers
    /\ Unregistered(s)
    /\ UNCHANGED <<pending_connection_requests, max_queue_size, initialized, receiving, network>>

ClearedPacketsFromRemoteUser(s, u) ==
    /\ socket_packet_queues' = [socket_packet_queues EXCEPT ![s] = Without(@, u)]
    /\ UNCHANGED active_peers

\* _on_incoming_connection_request for a socket nobody registered.
HoldConnectionRequest(s, u) ==
    /\ ~receiving
    /\ initialized
    /\ s \notin DOMAIN active_peers
    /\ pending_connection_requests[s][u] < MaxHeld
    /\ pending_connection_requests' = [pending_connection_requests EXCEPT ![s][u] = @ + 1]
    /\ UNCHANGED <<active_peers, socket_packet_queues, max_queue_size, initialized, receiving, network>>

\* _on_remote_connection_closed: one held request of the closed connection is
\* removed, then the callback of the instance registered for s runs.  It may
\* clear the packets of the remote user or unregister, both for the socket the
\* instance has by then, t.
OnRemoteConnectionClosed(s, u) ==
    /\ ~receiving
    /\ initialized
    /\ pending_connection_requests' =
          [pending_connection_requests EXCEPT ![s][u] = IF @ > 0 THEN @ - 1 ELSE 0]
    /\ \/ UNCHANGED <<active_peers, socket_packet_queues>>
       \/ /\ s \in DOMAIN active_peers
          /\ \E t \in DOMAIN active_peers :
                ClearedPacketsFromRemoteUser(t, u) \/ Unregistered(t)
    /\ UNCHANGED <<max_queue_size, initialized, receiving, network>>

\* _on_connect_interface_login and _init.
Login ==
    /\ ~receiving
    /\ ~initialized
    /\ initialized' = TRUE
    /\ UNCHANGED <<registry, max_queue_size, receiving, network>>

\* _on_connect_interface_login_statues_changed and _terminate: registrations,
\* queues and held requests stay.  The SDK may forget what it had received.
Terminate ==
    /\ ~receiving
    /\ initialized
    /\ initialized' = FALSE
    /\ received' \in {received, << >>}
    /\ UNCHANGED <<registry, max_queue_size, receiving, arrivals>>

SetQueueSizeLimitUnchecked(limit) ==  \* variant
    max_queue_size' = limit /\ UNCHANGED <<registry, initialized, receiving, network>>

SetQueueSizeLimit(limit) ==
    /\ ~receiving
    /\ limit > 0
    /\ max_queue_size' = limit
    /\ UNCHANGED <<registry, initialized, receiving, network>>

----------------------------------------------------------------------------
ReceivePacket == NoPacketLeft \/ DropPacket \/ FilePacket

Next ==
    \/ \E s \in Socket, u \in User, e \in Event, i \in PeerId : PacketArrives(s, u, e, i)
    \/ OnProcessFrame
    \/ ReceivePacket
    \/ \E s \in Socket : PollNextPackets(s)
    \/ \E p \in Peer, s \in Socket : RegisterPeer(p, s)
    \/ \E s \in Socket : RegisterAndUnregisterPeer(s)
    \/ \E s \in Socket : UnregisterPeer(s)
    \/ \E s \in Socket, u \in User : HoldConnectionRequest(s, u)
    \/ \E s \in Socket, u \in User : OnRemoteConnectionClosed(s, u)
    \/ Login
    \/ Terminate
    \/ \E limit \in QueueLimit : SetQueueSizeLimit(limit)

Spec == Init /\ [][Next]_vars

\* process_frame is emitted every frame and MultiplayerAPI polls every frame.
FairSpec ==
    /\ Spec
    /\ WF_vars(OnProcessFrame)
    /\ WF_vars(ReceivePacket)
    /\ \A s \in Socket : WF_vars(PollNextPackets(s))

----------------------------------------------------------------------------
\* Properties

TypeOK ==
    /\ active_peers \in [DOMAIN active_peers -> Peer]
    /\ DOMAIN active_peers \subseteq Socket
    /\ socket_packet_queues \in [DOMAIN socket_packet_queues -> Seq(Packet)]
    /\ pending_connection_requests \in [Socket -> [User -> Nat]]
    /\ max_queue_size \in Nat \ {0}
    /\ initialized \in BOOLEAN
    /\ receiving \in BOOLEAN
    /\ received \in Seq(Packet)
    /\ arrivals \in 0..MaxArrivals

\* A socket has a queue exactly while an instance is registered for it: the
\* two maps are kept apart and every entry point indexes one after testing
\* the other.
QueuesMatchPeers == DOMAIN socket_packet_queues = DOMAIN active_peers

\* A connection request is held by the mediator only while nobody is
\* registered for its socket: registration hands over every one of them.
NoRequestHeldBack ==
    \A s \in DOMAIN active_peers, u \in User : pending_connection_requests[s][u] = 0

\* _on_process_frame: "packets that are peer id packets are pushed to the
\* front", whatever was polled, cleared or filed in between.
PeerIdPacketsFirst ==
    \A s \in DOMAIN socket_packet_queues :
       \A i, j \in 1..Len(socket_packet_queues[s]) :
          i < j /\ IsPeerIdPacket(socket_packet_queues[s][j]) => IsPeerIdPacket(socket_packet_queues[s][i])

\* Apart from peer id packets, a socket's packets are delivered in the order
\* in which they reached the SDK.
DeliveredInOrder ==
    \A s \in DOMAIN socket_packet_queues :
       LET queue == socket_packet_queues[s] IN
       /\ \A i, j \in 1..Len(queue) :
             i < j /\ ~IsPeerIdPacket(queue[i]) /\ ~IsPeerIdPacket(queue[j]) => queue[i].n < queue[j].n
       /\ \A i \in 1..Len(queue), j \in 1..Len(received) : queue[i].n < received[j].n

\* "Packets will stop being polled if the queue size limit is reached": the
\* queues only grow while their total is within the limit, even when the limit
\* was lowered below it.
QueuesBounded ==
    [][ TotalPacketCount(socket_packet_queues') > TotalPacketCount(socket_packet_queues)
          => TotalPacketCount(socket_packet_queues') <= max_queue_size ]_vars

\* A packet whose socket is registered is never dropped by a frame: it leaves
\* the SDK only into the queue of its socket, whatever stray packet or full
\* queue ends the frame.
RegisteredPacketsAreFiled ==
    [][ \A i \in 1..Len(received) :
          /\ received[i].socket \in DOMAIN socket_packet_queues
          /\ \A j \in 1..Len(received') : received'[j].n # received[i].n
          /\ initialized'
          => \E k \in 1..Len(socket_packet_queues'[received[i].socket]) :
                socket_packet_queues'[received[i].socket][k] = received[i] ]_vars

\* What the instances are promised, a mailbox for each registered socket, is
\* kept: whatever ends a frame, is cleared, unregistered or forgotten, packets
\* are taken in and handed out as EOSMailboxes says, and only a user's own are
\* let go with the user.
Mailboxes == INSTANCE EOSMailboxes WITH
    open    <- DOMAIN active_peers,
    mail    <- [s \in Socket |-> IF s \in DOMAIN socket_packet_queues
                                    THEN Range(socket_packet_queues[s]) ELSE {}],
    transit <- Range(received),
    waiting <- [s \in Socket |-> {u \in User : pending_connection_requests[s][u] > 0}]

MailboxSpec == Mailboxes!Spec

\* A packet nobody wants does not block the ones behind it: while the user is
\* logged in and some socket is registered, every packet leaves the SDK.
IsReceived(n) == \E i \in 1..Len(received) : received[i].n = n
SdkQueueDrains ==
    <>[](initialized /\ DOMAIN socket_packet_queues # {})
      => \A n \in 1..MaxArrivals : IsReceived(n) ~> ~IsReceived(n)
=============================================================================
