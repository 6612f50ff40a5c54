-------------------------- MODULE EOSMultiplayerPeer --------------------------
(***************************************************************************)
(* The EOSMultiplayerPeer instances of one process                         *)
(* (src/gd_eos/src/eos_multiplayer_peer.cpp and its header), together with *)
(* the mediator they share (EOSPacketPeerMediator) and the EOS SDK         *)
(* (EOSP2P, external).                                                     *)
(*                                                                         *)
(* Everything runs on the main thread: a call of the application or of     *)
(* MultiplayerAPI, the callback of one SDK notification and one iteration  *)
(* of the mediator's frame are one action each.  The exception is _poll,   *)
(* which moves its socket's queue into a local list and then handles that  *)
(* list packet by packet: it emits peer_connected in between, and a        *)
(* handler of that signal may call any method of any instance but _poll    *)
(* itself: a _poll within a _poll is not modelled.  `polled` is the _poll  *)
(* in progress.  The other signals' handlers call nothing here.            *)
(***************************************************************************)
EXTENDS Naturals, Sequences, FiniteSets, Functions, EOSP2P

CONSTANTS
    Peer, Socket, User,
    NoPeer,            \* no instance
    NoSocket,          \* the empty socket name
    GeneratedId,       \* what generate_unique_id can return
    RemoteId,          \* the peer ids remote headers carry
    ModesOf,           \* instance -> the modes the application creates it in
    RemoteEvent,       \* the event bytes remote packets carry
    AutoAccept, Refuse, Polling,  \* the values the application sets these to
    Forcible,          \* the values of p_force it passes to disconnect_peer
    Sends,             \* whether it sends packets
    Reuses,            \* whether it creates on an instance it used before
    Frees,             \* the instances it drops its reference to
    LogsOut,           \* whether the user logs out
    QueueLimit, DefaultQueueLimit,
    MaxArrivals,       \* bound: packets that reach the SDK
    MaxHeld,           \* bound: equal requests listed in one place
    MaxNotices         \* bound: notifications of a link when a connection is opened

ServerId == 1
PeerId == {0, ServerId} \cup GeneratedId \cup RemoteId

ASSUME IdAssumption ==
    /\ GeneratedId \cup RemoteId \subseteq Nat
    /\ GeneratedId \cap {0, ServerId} = {}
ASSUME SettingAssumption == AutoAccept \cup Refuse \cup Polling \subseteq BOOLEAN
ASSUME NoneAssumption == NoSocket \notin Socket /\ NoPeer \notin Peer
ASSUME BoundAssumption ==
    /\ QueueLimit \subseteq Nat
    /\ DefaultQueueLimit \in Nat \ {0}
    /\ MaxArrivals \in Nat /\ MaxHeld \in Nat

VARIABLES
    active_peers, socket_packet_queues, pending_connection_requests,
    max_queue_size, initialized, receiving, received, arrivals,  \* of the mediator
    instance,   \* the fields of each EOSMultiplayerPeer
    polled,     \* the _poll in progress
    link        \* the SDK's links

mediatorVars == <<active_peers, socket_packet_queues, pending_connection_requests,
                  max_queue_size, initialized, receiving, received, arrivals>>
vars == <<mediatorVars, instance, polled, link>>

M == INSTANCE EOSPacketPeerMediator

ASSUME EventAssumption == RemoteEvent \subseteq M!Event

Mode == {"MODE_NONE", "MODE_SERVER", "MODE_CLIENT", "MODE_MESH"}
ConnectionStatus == {"CONNECTION_DISCONNECTED", "CONNECTION_CONNECTING", "CONNECTION_CONNECTED"}

\* pending_connection_requests of an instance, as a bag of remote users.
NoRequests == [u \in User |-> 0]

IncomingPacket == [peer_id : PeerId, n : 1..MaxArrivals]
NullPacket == [event |-> "null"]
NoPoll == [by |-> NoPeer, packets |-> << >>, in_signal |-> FALSE]

----------------------------------------------------------------------------
\* The fields of an instance

\* The header gives unique_id no value; nothing reads it before a create method
\* has set it.
NewInstance ==
    [active_mode |-> "MODE_NONE", connection_status |-> "CONNECTION_DISCONNECTED",
     unique_id |-> 0, peers |-> << >>, requests |-> NoRequests, socket |-> NoSocket,
     incoming_packets |-> << >>, polling |-> FALSE, auto_accept |-> TRUE,
     refusing |-> FALSE, alive |-> TRUE]

IsActive(x) == x.active_mode # "MODE_NONE"
IsHost(x) == x.active_mode \in {"MODE_SERVER", "MODE_MESH"}
\* The ids of a user: _get_peer_id finds one, and OneIdPerUser says there is no
\* other.
HasUser(x, u) == \E i \in DOMAIN x.peers : x.peers[i] = u
IdsOf(x, u) == {i \in DOMAIN x.peers : x.peers[i] = u}
KeepingFormerId(x, u) == x.peers  \* variant
WithoutUser(x, u) == Restrict(x.peers, DOMAIN x.peers \ IdsOf(x, u))

\* _close resets these; peers and the socket name stay.
Reset(x) ==
    [x EXCEPT !.polling = FALSE, !.incoming_packets = << >>, !.active_mode = "MODE_NONE",
              !.connection_status = "CONNECTION_DISCONNECTED", !.requests = NoRequests,
              !.unique_id = 0, !.refusing = FALSE]

\* socket.close(): every connection of the socket name is closed.
SocketClosed(ln, s) == IF s \in Socket
                       THEN [ln EXCEPT ![s] = [u \in User |-> Closed(@[u])]]
                       ELSE ln

RegistryOnlyIf(cond, s) ==  \* variant
    /\ active_peers' = IF cond THEN Restrict(active_peers, DOMAIN active_peers \ {s}) ELSE active_peers
    /\ UNCHANGED socket_packet_queues

UnregisterIf(cond, s) ==
    IF cond /\ s \in DOMAIN active_peers THEN M!Unregistered(s)
                                         ELSE UNCHANGED <<active_peers, socket_packet_queues>>

----------------------------------------------------------------------------
\* Who may run

\* The application's code: between the handlers, or in a peer_connected handler.
Callable(p) ==
    /\ ~receiving
    /\ polled.by = NoPeer \/ polled.in_signal
    /\ instance[p].alive

\* Handlers of the main loop: process_frame, poll, the SDK's callbacks.
Idle == ~receiving /\ polled.by = NoPeer

MayCreate(p) ==
    /\ Callable(p)
    /\ initialized                \* local_user_id is set
    /\ ~IsActive(instance[p])
    /\ Reuses \/ instance[p].socket = NoSocket

\* connection_request_callback, for all of a bag of requests at once.
Takes(x) == x.active_mode # "MODE_CLIENT" /\ ~x.refusing
Accepts(x) == Takes(x) /\ x.auto_accept /\ IsHost(x)

RequestsTaken(x, asked) ==
    IF Takes(x) /\ ~Accepts(x) THEN [x EXCEPT !.requests = [u \in User |-> @[u] + asked[u]]] ELSE x

RequestsAccepted(ln, x, s, asked) ==
    IF Accepts(x) THEN [ln EXCEPT ![s] = [u \in User |-> IF asked[u] > 0 THEN Accepted(@[u]) ELSE @[u]]]
                  ELSE ln

----------------------------------------------------------------------------
\* create_server, create_mesh, create_client

Hosting(p, s, mode, id) ==
    [instance[p] EXCEPT !.active_mode = mode, !.connection_status = "CONNECTION_CONNECTED",
                        !.unique_id = id, !.polling = TRUE, !.socket = s, !.incoming_packets = << >>,
                        !.refusing = IF mode = "MODE_SERVER" THEN FALSE ELSE @]

HostIds(mode) == IF mode = "MODE_SERVER" THEN {ServerId} ELSE GeneratedId

\* create_server or create_mesh on a free socket name: the requests held for
\* it are forwarded on the way.
CreateHost(p, s, mode) ==
    /\ MayCreate(p)
    /\ mode \in ModesOf[p]
    /\ \E id \in HostIds(mode) :
         LET x == Hosting(p, s, mode, id)
             asked == pending_connection_requests[s] IN
         /\ instance' = [instance EXCEPT ![p] = RequestsTaken(x, asked)]
         /\ link' = RequestsAccepted(link, x, s, asked)
    /\ M!RegisterPeer(p, s)
    /\ UNCHANGED polled

\* The socket name is invalid or taken: _close() runs on an instance that is
\* already active under that name.
CreateHostFails(p, s, mode) ==
    /\ MayCreate(p)
    /\ mode \in ModesOf[p]
    /\ s = NoSocket \/ s \in DOMAIN active_peers
    /\ instance' = [instance EXCEPT ![p] = Reset(Hosting(p, s, mode, ServerId))]
    /\ link' = SocketClosed(link, s)
    /\ UnregisterIf(DOMAIN instance[p].peers = {}, s)
    /\ UNCHANGED <<pending_connection_requests, max_queue_size, initialized, receiving,
                   received, arrivals, polled>>

\* Where create_client is when it registers: the mode is not set yet.
Dialling(p, s) ==
    [instance[p] EXCEPT !.polling = TRUE, !.refusing = FALSE, !.socket = s, !.incoming_packets = << >>]

Client(x, id) ==
    [x EXCEPT !.active_mode = "MODE_CLIENT", !.connection_status = "CONNECTION_CONNECTING",
              !.unique_id = id]

MayOpen(s, u) == Len(link[s][u].notices) < MaxNotices

CreateClient(p, s, u) ==
    /\ MayCreate(p)
    /\ "MODE_CLIENT" \in ModesOf[p]
    /\ MayOpen(s, u)
    /\ \E id \in GeneratedId :
         instance' = [instance EXCEPT ![p] =
                        Client(RequestsTaken(Dialling(p, s), pending_connection_requests[s]), id)]
    /\ link' = [link EXCEPT ![s][u] = Sent(@)]
    /\ M!RegisterPeer(p, s)
    /\ UNCHANGED polled

\* The peer id packet cannot be sent: _close() undoes the registration, unless
\* the instance still has peers of an earlier use.
CreateClientCannotSend(p, s) ==
    /\ MayCreate(p)
    /\ "MODE_CLIENT" \in ModesOf[p]
    /\ instance' = [instance EXCEPT ![p] = Reset(Dialling(p, s))]
    /\ link' = SocketClosed(link, s)
    /\ IF DOMAIN instance[p].peers = {} THEN M!RegisterAndUnregisterPeer(s) ELSE M!RegisterPeer(p, s)
    /\ UNCHANGED polled

CreateClientFailsLate(p, s) ==  \* variant
    /\ MayCreate(p)
    /\ s \in DOMAIN active_peers
    /\ \E id \in GeneratedId : instance' = [instance EXCEPT ![p] = Client(Dialling(p, s), id)]
    /\ UNCHANGED <<mediatorVars, polled, link>>

\* The socket name is invalid or taken: _close() does nothing, the mode being
\* MODE_NONE.
CreateClientFails(p, s) ==
    /\ MayCreate(p)
    /\ "MODE_CLIENT" \in ModesOf[p]
    /\ s = NoSocket \/ s \in DOMAIN active_peers
    /\ instance' = [instance EXCEPT ![p] = Dialling(p, s)]
    /\ UNCHANGED <<mediatorVars, polled, link>>

----------------------------------------------------------------------------
\* Other methods the application or MultiplayerAPI calls

AddMeshPeer(p, u) ==
    LET x == instance[p] IN
    /\ Callable(p)
    /\ initialized
    /\ x.active_mode = "MODE_MESH"
    /\ ~HasUser(x, u)
    /\ MayOpen(x.socket, u)
    /\ link' = [link EXCEPT ![x.socket][u] = Sent(@)]
    /\ UNCHANGED <<mediatorVars, instance, polled>>

ClosingWithoutUnregistering(p) ==  \* variant
    link' = SocketClosed(link, instance[p].socket) /\ UNCHANGED <<active_peers, socket_packet_queues>>

\* _close, and the destructor of an active instance.
Closing(p) ==
    LET x == instance[p] IN
    /\ link' = SocketClosed(link, x.socket)
    /\ UnregisterIf(DOMAIN x.peers = {}, x.socket)

Close(p) ==
    /\ Callable(p)
    /\ IsActive(instance[p])
    /\ instance' = [instance EXCEPT ![p] = Reset(@)]
    /\ Closing(p)
    /\ UNCHANGED <<pending_connection_requests, max_queue_size, initialized, receiving,
                   received, arrivals, polled>>

\* The last reference is dropped and ~EOSMultiplayerPeer runs.
Free(p) ==
    /\ Callable(p)
    /\ polled.by # p
    /\ instance' = [instance EXCEPT ![p] = [(IF IsActive(@) THEN Reset(@) ELSE @) EXCEPT !.alive = FALSE]]
    /\ IF IsActive(instance[p]) THEN Closing(p) ELSE UNCHANGED <<link, active_peers, socket_packet_queues>>
    /\ UNCHANGED <<pending_connection_requests, max_queue_size, initialized, receiving,
                   received, arrivals, polled>>

DisconnectPeer(p, i, force) ==
    LET x == instance[p] IN
    /\ Callable(p)
    /\ initialized
    /\ IsActive(x)
    /\ i \in DOMAIN x.peers
    /\ link' = [link EXCEPT ![x.socket][x.peers[i]] = Closed(@)]
    /\ instance' = IF force
                   THEN [instance EXCEPT ![p].peers = Restrict(@, DOMAIN @ \ {i})]
                   ELSE instance
    /\ UNCHANGED <<mediatorVars, polled>>

\* accept_connection_request and deny_connection_request of one request of u,
\* which leave the link as `answered`.
AnswerRequest(p, u, answered) ==
    /\ Callable(p)
    /\ initialized
    /\ IsHost(instance[p])
    /\ instance[p].requests[u] > 0
    /\ link' = [link EXCEPT ![instance[p].socket][u] = answered]
    /\ instance' = [instance EXCEPT ![p].requests[u] = @ - 1]
    /\ UNCHANGED <<mediatorVars, polled>>

AcceptConnectionRequest(p, u) == AnswerRequest(p, u, Accepted(link[instance[p].socket][u]))
DenyConnectionRequest(p, u) == AnswerRequest(p, u, Closed(link[instance[p].socket][u]))

\* accept_all_connection_requests and deny_all_connection_requests erase from
\* the list they iterate over: the iterator steps through a freed element, so
\* the walk may end after any of them.
AnswerAll(p, reached) ==
    /\ Callable(p)
    /\ initialized
    /\ IsHost(instance[p])
    /\ reached # {}
    /\ \A u \in reached : instance[p].requests[u] > 0
    /\ UNCHANGED <<mediatorVars, polled>>

AcceptAllConnectionRequests(p) ==
    \E reached \in SUBSET User :
       /\ AnswerAll(p, reached)
       /\ link' = [link EXCEPT ![instance[p].socket] =
                      [u \in User |-> IF u \in reached THEN Accepted(@[u]) ELSE @[u]]]
       /\ instance' = [instance EXCEPT ![p].requests =
                          [u \in User |-> IF u \in reached THEN @[u] - 1 ELSE @[u]]]

DenyAllConnectionRequests(p) ==
    \E reached \in SUBSET User :
       /\ AnswerAll(p, reached)
       /\ link' = [link EXCEPT ![instance[p].socket] =
                      [u \in User |-> IF u \in reached THEN Closed(@[u]) ELSE @[u]]]
       /\ instance' = [instance EXCEPT ![p].requests = NoRequests]

Set(p, field, value) ==
    /\ Callable(p)
    /\ instance' = [instance EXCEPT ![p][field] = value]
    /\ UNCHANGED <<mediatorVars, polled, link>>

\* _get_packet; MultiplayerAPI calls it while packets are available.
GetPacket(p) ==
    /\ Callable(p)
    /\ instance[p].incoming_packets # << >>
    /\ instance' = [instance EXCEPT ![p].incoming_packets = Tail(@)]
    /\ UNCHANGED <<mediatorVars, polled, link>>

\* _put_packet to the server, to one peer, to all or to all but one; a
\* broadcast ends at the first peer it cannot send to.
PutPacket(p) ==
    LET x == instance[p]
        targets == IF x.active_mode = "MODE_CLIENT" THEN {ServerId} ELSE DOMAIN x.peers IN
    /\ Callable(p)
    /\ initialized
    /\ x.connection_status = "CONNECTION_CONNECTED"
    /\ \E reached \in SUBSET (targets \cap DOMAIN x.peers) :
         /\ \A i \in reached : MayOpen(x.socket, x.peers[i])
         /\ link' = [link EXCEPT ![x.socket] =
                        [u \in User |-> IF \E i \in reached : x.peers[i] = u THEN Sent(@[u]) ELSE @[u]]]
    /\ UNCHANGED <<mediatorVars, instance, polled>>

----------------------------------------------------------------------------
\* _poll

\* The packets at the front of a queue that next_packet_is_peer_id_packet takes.
LeadingPeerIds(queue) ==
    Cardinality({i \in 1..Len(queue) : \A j \in 1..i : M!IsPeerIdPacket(queue[j])})

\* The queue is moved into a local list.  Without `polling` only peer id
\* packets are taken, and each becomes a null reference in the ERR_CONTINUE
\* that tests it (_SharedPtr::is_null assigns).
Poll(p) ==
    LET x == instance[p]
        queue == socket_packet_queues[x.socket]
        taken == IF x.polling THEN Len(queue) ELSE LeadingPeerIds(queue) IN
    /\ Idle
    /\ x.alive
    /\ IsActive(x)
    /\ x.socket \in DOMAIN socket_packet_queues
    /\ taken > 0
    /\ socket_packet_queues' = [socket_packet_queues EXCEPT ![x.socket] = SubSeq(queue, taken + 1, Len(queue))]
    /\ polled' = [by |-> p, in_signal |-> FALSE,
                  packets |-> [k \in 1..taken |-> IF x.polling THEN queue[k] ELSE NullPacket]]
    /\ UNCHANGED <<active_peers, pending_connection_requests, max_queue_size, initialized,
                   receiving, received, arrivals, instance, link>>

\* The list after its first packet has been handled; the call returns at its end.
Rest == IF Len(polled.packets) = 1 THEN NoPoll
        ELSE [polled EXCEPT !.packets = Tail(@), !.in_signal = FALSE]

\* The packet the loop is at.
Handling(event) ==
    /\ polled.packets # << >>
    /\ Head(polled.packets).event = event

StoredInFront(inbox, m) == <<[peer_id |-> m.peer_id, n |-> m.n]>> \o inbox  \* variant
Stored(inbox, m) == Append(inbox, [peer_id |-> m.peer_id, n |-> m.n])

PollStorePacket ==
    LET x == instance[polled.by]
        m == Head(polled.packets) IN
    /\ Handling("EVENT_STORE_PACKET")
    /\ IF m.peer_id \in DOMAIN x.peers
       THEN /\ instance' = [instance EXCEPT ![polled.by].incoming_packets = Stored(@, m)]
            /\ polled' = Rest
       ELSE polled' = NoPoll /\ UNCHANGED instance    \* return: the rest of the list is lost
    /\ UNCHANGED <<mediatorVars, link>>

PollMeshConnectionRequest ==
    /\ Handling("EVENT_MESH_CONNECTION_REQUEST")
    /\ polled' = Rest
    /\ UNCHANGED <<mediatorVars, instance, link>>

\* A client takes one peer id packet only, and only of a server.
Unwanted(x) == x.active_mode = "MODE_CLIENT" /\ x.connection_status = "CONNECTION_CONNECTED"
AnyoneIsAServer(x, m) == FALSE  \* variant
NotAServer(x, m) == x.active_mode = "MODE_CLIENT" /\ m.peer_id # ServerId
InvalidBarZero(x, m) == m.peer_id \in DOMAIN x.peers \/ x.unique_id = m.peer_id  \* variant
InvalidBarOwn(x, m) == m.peer_id < 1 \/ m.peer_id \in DOMAIN x.peers  \* variant
Invalid(x, m) == m.peer_id < 1 \/ m.peer_id \in DOMAIN x.peers \/ x.unique_id = m.peer_id

PollUnwantedPeerId ==
    /\ Handling("EVENT_RECEIVE_PEER_ID")
    /\ Unwanted(instance[polled.by])
    /\ polled' = NoPoll
    /\ UNCHANGED <<mediatorVars, instance, link>>

PollNotAServer ==
    LET x == instance[polled.by] IN
    /\ Handling("EVENT_RECEIVE_PEER_ID")
    /\ ~Unwanted(x)
    /\ NotAServer(x, Head(polled.packets))
    /\ instance' = [instance EXCEPT ![polled.by] = Reset(@)]
    /\ Closing(polled.by)
    /\ polled' = NoPoll
    /\ UNCHANGED <<pending_connection_requests, max_queue_size, initialized, receiving,
                   received, arrivals>>

PollInvalidPeerId ==
    LET x == instance[polled.by]
        m == Head(polled.packets) IN
    /\ Handling("EVENT_RECEIVE_PEER_ID")
    /\ ~Unwanted(x)
    /\ ~NotAServer(x, m)
    /\ Invalid(x, m)
    /\ link' = [link EXCEPT ![x.socket][m.sender] = Closed(@)]
    /\ polled' = Rest
    /\ UNCHANGED <<mediatorVars, instance>>

\* The sender becomes a peer, in place of its former id if it had one.
PollPeerId ==
    LET x == instance[polled.by]
        m == Head(polled.packets) IN
    /\ Handling("EVENT_RECEIVE_PEER_ID")
    /\ ~Unwanted(x)
    /\ ~NotAServer(x, m)
    /\ ~Invalid(x, m)
    /\ instance' = [instance EXCEPT
          ![polled.by].peers = M!Insert(WithoutUser(x, m.sender), m.peer_id, m.sender),
          ![polled.by].connection_status =
             IF x.active_mode = "MODE_CLIENT" THEN "CONNECTION_CONNECTED" ELSE @]
    /\ polled' = [polled EXCEPT !.packets = Tail(@), !.in_signal = TRUE]
    /\ UNCHANGED <<mediatorVars, link>>

\* The handler of the last packet's peer_connected returns.
PollReturns ==
    /\ polled.by # NoPeer
    /\ polled.packets = << >>
    /\ polled' = NoPoll
    /\ UNCHANGED <<mediatorVars, instance, link>>

----------------------------------------------------------------------------
\* The SDK's callbacks, dispatched by EOS_Platform_Tick

\* The oldest notification of a link is dispatched.  A notification for an
\* instance that was freed while registered calls a dangling pointer: nothing
\* is said of what follows.
Notified(s, u, notice) ==
    /\ Idle
    /\ initialized
    /\ link[s][u].notices # << >>
    /\ Head(link[s][u].notices) = notice
    /\ s \in DOMAIN active_peers => instance[active_peers[s]].alive

LinkDispatched(s, u) == [link EXCEPT ![s][u] = Dispatched(@)]

OnHeldConnectionRequest(s, u) ==
    /\ Notified(s, u, "request")
    /\ M!HoldConnectionRequest(s, u)
    /\ link' = LinkDispatched(s, u)
    /\ UNCHANGED <<instance, polled>>

OnConnectionRequest(s, u) ==
    /\ Notified(s, u, "request")
    /\ s \in DOMAIN active_peers
    /\ LET p == active_peers[s]
           asked == [NoRequests EXCEPT ![u] = 1] IN
         /\ instance' = [instance EXCEPT ![p] = RequestsTaken(@, asked)]
         /\ link' = RequestsAccepted(LinkDispatched(s, u), instance[p], instance[p].socket, asked)
    /\ UNCHANGED <<mediatorVars, polled>>

\* Anyone but a client answers with its peer id.
OnPeerConnectionEstablished(s, u) ==
    /\ Notified(s, u, "established")
    /\ link' = IF s \in DOMAIN active_peers /\ instance[active_peers[s]].active_mode # "MODE_CLIENT"
                 /\ instance[active_peers[s]].socket \in Socket
               THEN [LinkDispatched(s, u) EXCEPT ![instance[active_peers[s]].socket][u] = Sent(@)]
               ELSE LinkDispatched(s, u)
    /\ UNCHANGED <<mediatorVars, instance, polled>>

\* The inbox without the packets of some peers, the others in their order.
InboxWithout(inbox, ids) ==
    LET kept == M!InOrder({i \in 1..Len(inbox) : inbox[i].peer_id \notin ids})
    IN  [k \in DOMAIN kept |-> inbox[kept[k]]]

KeepingRequest(x, u) ==  \* variant
    [x EXCEPT !.incoming_packets = InboxWithout(@, IdsOf(x, u)),
              !.peers = WithoutUser(x, u)]

\* remote_connection_closed_callback on the instance's fields.
WithoutRemoteUser(x, u) ==
    [x EXCEPT !.requests[u] = IF @ > 0 THEN @ - 1 ELSE 0,
              !.incoming_packets = InboxWithout(@, IdsOf(x, u)),
              !.peers = WithoutUser(x, u)]

NoPeerLeft(x) == DOMAIN x.peers = {}  \* variant
LastPeerGone(x) == x.connection_status = "CONNECTION_DISCONNECTED" /\ DOMAIN x.peers = {}

LostServer(x, notice) == x.active_mode = "MODE_CLIENT" /\ notice = "closed_by_remote"

OnUnregisteredConnectionClosed(s, u, notice) ==
    /\ Notified(s, u, notice)
    /\ s \notin DOMAIN active_peers
    /\ M!OnRemoteConnectionClosed(s, u)
    /\ link' = LinkDispatched(s, u)
    /\ UNCHANGED <<instance, polled>>

OnRemoteConnectionClosed(s, u, notice) ==
    /\ Notified(s, u, notice)
    /\ s \in DOMAIN active_peers
    /\ LET p == active_peers[s]
           x == instance[p]
           y == IF LostServer(x, notice) THEN Reset(WithoutRemoteUser(x, u)) ELSE WithoutRemoteUser(x, u) IN
         /\ instance' = [instance EXCEPT ![p] = y]
         /\ link' = IF LostServer(x, notice) THEN SocketClosed(LinkDispatched(s, u), x.socket)
                                             ELSE LinkDispatched(s, u)
         /\ IF LostServer(x, notice) \/ LastPeerGone(y)
            THEN UnregisterIf(TRUE, x.socket)
            ELSE IF HasUser(x, u) /\ x.socket \in DOMAIN active_peers
                 THEN M!ClearedPacketsFromRemoteUser(x.socket, u)
                 ELSE UNCHANGED <<active_peers, socket_packet_queues>>
    /\ pending_connection_requests' =
          [pending_connection_requests EXCEPT ![s][u] = IF @ > 0 THEN @ - 1 ELSE 0]
    /\ UNCHANGED <<max_queue_size, initialized, receiving, received, arrivals, polled>>

----------------------------------------------------------------------------
\* The mediator's own handlers

Frame ==
    /\ Idle
    /\ M!OnProcessFrame
    /\ UNCHANGED <<instance, polled, link>>

FrameReceives ==
    /\ M!ReceivePacket
    /\ UNCHANGED <<instance, polled, link>>

Login ==
    /\ Idle
    /\ M!Login
    /\ UNCHANGED <<instance, polled, link>>

\* With the user gone the SDK has no links left.
Logout ==
    /\ Idle
    /\ M!Terminate
    /\ link' = [s \in Socket |-> [u \in User |-> NoLink]]
    /\ UNCHANGED <<instance, polled>>

\* The remote users and the network, as far as the SDK shows them.  The SDK
\* takes them in during its tick.
RemoteStep(s, u) ==
    /\ Idle
    /\ initialized
    /\ UNCHANGED <<mediatorVars, instance, polled>>
    /\ \/ /\ link[s][u].status = "none"
          /\ MayOpen(s, u)
          /\ \A p \in Peer : instance[p].requests[u] < MaxHeld
          /\ link' = [link EXCEPT ![s][u] = RemoteRequested(@)]
       \/ /\ link[s][u].status = "outgoing"
          /\ link' = [link EXCEPT ![s][u] = RemoteAccepted(@)]
       \/ /\ link[s][u].status # "none"
          /\ link' = [link EXCEPT ![s][u] = RemoteClosed(@)]

RemotePacket(s, u, e, i) ==
    /\ Idle
    /\ initialized
    /\ link[s][u].status = "open"
    /\ M!PacketArrives(s, u, e, i)
    /\ UNCHANGED <<instance, polled, link>>

----------------------------------------------------------------------------
Init ==
    /\ M!Init
    /\ instance = [p \in Peer |-> NewInstance]
    /\ polled = NoPoll
    /\ link = [s \in Socket |-> [u \in User |-> NoLink]]

SocketName == Socket \cup {NoSocket}

Application(p) ==
    \/ \E s \in Socket, mode \in {"MODE_SERVER", "MODE_MESH"} : CreateHost(p, s, mode)
    \/ \E s \in SocketName, mode \in {"MODE_SERVER", "MODE_MESH"} : CreateHostFails(p, s, mode)
    \/ \E s \in Socket, u \in User : CreateClient(p, s, u)
    \/ \E s \in Socket : CreateClientCannotSend(p, s)
    \/ \E s \in SocketName : CreateClientFails(p, s)
    \/ \E u \in User : AddMeshPeer(p, u)
    \/ Close(p)
    \/ p \in Frees /\ Free(p)
    \/ \E i \in PeerId, force \in Forcible : DisconnectPeer(p, i, force)
    \/ \E u \in User : AcceptConnectionRequest(p, u) \/ DenyConnectionRequest(p, u)
    \/ AcceptAllConnectionRequests(p)
    \/ DenyAllConnectionRequests(p)
    \/ \E b \in AutoAccept : Set(p, "auto_accept", b)
    \/ \E b \in Refuse : Set(p, "refusing", b)
    \/ \E b \in Polling : Set(p, "polling", b)
    \/ GetPacket(p)
    \/ Sends /\ PutPacket(p)

PollStep ==
    \/ PollStorePacket
    \/ PollMeshConnectionRequest
    \/ PollUnwantedPeerId
    \/ PollNotAServer
    \/ PollInvalidPeerId
    \/ PollPeerId
    \/ PollReturns

Tick(s, u) ==
    \/ OnHeldConnectionRequest(s, u)
    \/ OnConnectionRequest(s, u)
    \/ OnPeerConnectionEstablished(s, u)
    \/ \E notice \in {"closed_by_local_user", "closed_by_remote"} :
          OnUnregisteredConnectionClosed(s, u, notice) \/ OnRemoteConnectionClosed(s, u, notice)

Next ==
    \/ \E p \in Peer : Application(p) \/ Poll(p)
    \/ PollStep
    \/ \E s \in Socket, u \in User : Tick(s, u) \/ RemoteStep(s, u)
    \/ \E s \in Socket, u \in User, e \in RemoteEvent, i \in RemoteId : RemotePacket(s, u, e, i)
    \/ Frame
    \/ FrameReceives
    \/ Login
    \/ LogsOut /\ Logout

Spec == Init /\ [][Next]_vars

\* The engine runs process_frame, MultiplayerAPI's poll and EOS_Platform_Tick
\* every frame, and a call that was begun returns.
FairSpec ==
    /\ Spec
    /\ WF_vars(Frame) /\ WF_vars(FrameReceives) /\ WF_vars(PollStep)
    /\ \A p \in Peer : WF_vars(Poll(p))
    /\ \A s \in Socket, u \in User : WF_vars(Tick(s, u))

----------------------------------------------------------------------------
\* Properties

TypeOK ==
    /\ \A p \in Peer :
         /\ instance[p] \in
               [active_mode : Mode, connection_status : ConnectionStatus, unique_id : PeerId,
                peers : [DOMAIN instance[p].peers -> User], requests : [User -> Nat],
                socket : SocketName, incoming_packets : Seq(IncomingPacket), polling : BOOLEAN,
                auto_accept : BOOLEAN, refusing : BOOLEAN, alive : BOOLEAN]
         /\ DOMAIN instance[p].peers \subseteq PeerId \ {0}
    /\ polled \in [by : Peer \cup {NoPeer}, packets : Seq(M!Packet \cup {NullPacket}), in_signal : BOOLEAN]
    /\ link \in [Socket -> [User -> Link]]

\* A remote user has at most one peer id at any instance: _get_peer_id, the
\* cleaning up after a closed connection and get_peer_user_id rely on it,
\* though a user may come back with a new id before the old connection's
\* closing was noticed.
OneIdPerUser == \A p \in Peer : IsInjective(instance[p].peers)

\* The mediator's specification is implemented, whatever the instances do.
MediatorSpec == M!Spec

\* A connection request is listed once at most: at the mediator, at a
\* host, or in a notification not dispatched yet.
RequestListedOnce ==
    \A s \in Socket, u \in User :
       LET at == {p \in Peer : IsHost(instance[p]) /\ instance[p].socket = s /\ instance[p].requests[u] > 0} IN
       /\ Cardinality(at) + pending_connection_requests[s][u] <= 1
       /\ \A p \in at : instance[p].requests[u] = 1

\* A request listed by the mediator or a host can be answered: its connection exists, or the
\* notification that will remove the request is on its way.
RequestsAreLive ==
    \A s \in Socket, u \in User :
       \/ pending_connection_requests[s][u] > 0
       \/ \E p \in Peer : IsHost(instance[p]) /\ instance[p].socket = s /\ instance[p].requests[u] > 0
       => link[s][u].status # "none" \/ link[s][u].notices # << >>

\* register_peer: "Once registered, a peer can receive packets, EOS
\* notifications, and connection requests"; an active instance stays the
\* registered one of its socket.
ActiveIsRegistered ==
    \A p \in Peer :
       IsActive(instance[p]) => /\ instance[p].socket \in DOMAIN active_peers
                                /\ active_peers[instance[p].socket] = p

\* An instance never counts itself among its peers, so that ids are unique in
\* its session.
OwnIdIsNoPeer == \A p \in Peer : instance[p].unique_id \notin DOMAIN instance[p].peers

\* A client knows nobody but the server, and is CONNECTED once it does.
ClientKnowsOnlyServer ==
    \A p \in Peer :
       LET x == instance[p] IN
       x.active_mode = "MODE_CLIENT" =>
          /\ DOMAIN x.peers \subseteq {ServerId}
          /\ DOMAIN x.peers # {} => x.connection_status = "CONNECTION_CONNECTED"

\* What MultiplayerAPI gets to read is in the order in which it arrived.
InboxInOrder ==
    \A p \in Peer :
       LET inbox == instance[p].incoming_packets IN
       \A i, j \in 1..Len(inbox) : i < j => inbox[i].n < inbox[j].n

\* No notification ever reaches a freed instance: the mediator holds plain
\* pointers, "unregistration usually happens when a peer closes".
RegisteredAreAlive == \A s \in DOMAIN active_peers : instance[active_peers[s]].alive

\* remote_connection_closed_callback: "Once all peers have been removed,
\* unregister from the mediator": a closed instance does not keep its socket
\* name for ever.
IsHeldBy(s, p) == s \in DOMAIN active_peers /\ active_peers[s] = p
ClosedIsUnregistered ==
    \A p \in Peer, s \in Socket :
       IsHeldBy(s, p) /\ ~IsActive(instance[p]) ~> ~IsHeldBy(s, p)
===============================================================================
