----------------------------- MODULE EOSMailboxes -----------------------------
(***************************************************************************)
(* What EOSPacketPeerMediator promises its multiplayer instances, without  *)
(* queues, frames, limits or log-ins: a mailbox for every socket somebody  *)
(* has opened.  The packets that have arrived are taken in one by one,     *)
(* oldest first; one for a socket nobody opened is thrown away.  A mailbox *)
(* is a set: the order is promised where packets are handed out, all peer  *)
(* id packets before any other, the others as they arrived.  Requests of   *)
(* users who want to connect wait until their socket is opened.            *)
(***************************************************************************)
EXTENDS Naturals

CONSTANTS Socket, User,
          Packet       \* records with a socket, a sender, an event and a number n

VARIABLES open,        \* the sockets opened
          mail,        \* socket -> packets to be handed out
          transit,     \* packets that arrived and were not taken in
          waiting      \* socket -> users whose request waits

vars == <<open, mail, transit, waiting>>

Init ==
    /\ open = {}
    /\ mail = [s \in Socket |-> {}]
    /\ transit = {}
    /\ waiting = [s \in Socket |-> {}]

Arrive(m) ==
    /\ \A k \in transit \cup UNION {mail[s] : s \in Socket} : k.n < m.n
    /\ transit' = transit \cup {m}
    /\ UNCHANGED <<open, mail, waiting>>

IsOldest(m) == \A k \in transit : m.n <= k.n

TakeIn(m) ==
    /\ m \in transit /\ IsOldest(m)
    /\ m.socket \in open
    /\ mail' = [mail EXCEPT ![m.socket] = @ \cup {m}]
    /\ transit' = transit \ {m}
    /\ UNCHANGED <<open, waiting>>

ThrowAway(m) ==
    /\ m \in transit /\ IsOldest(m)
    /\ m.socket \notin open
    /\ transit' = transit \ {m}
    /\ UNCHANGED <<open, mail, waiting>>

(* The SDK forgets what it had received.                                   *)
Forget == transit' = {} /\ UNCHANGED <<open, mail, waiting>>

Urgent(m) == m.event = "EVENT_RECEIVE_PEER_ID"
MayPrecede(m, k) == Urgent(m) \/ (~Urgent(k) /\ m.n < k.n)

(* The packets D are handed out, those that must precede the rest.         *)
HandOut(s, D) ==
    /\ s \in open
    /\ D \subseteq mail[s]
    /\ \A m \in D, k \in mail[s] \ D : MayPrecede(m, k)
    /\ mail' = [mail EXCEPT ![s] = @ \ D]
    /\ UNCHANGED <<open, transit, waiting>>

(* Whoever opens a socket is given the requests that wait for it; create-  *)
(* client may open and close it at once.                                   *)
Open(s) ==
    /\ s \notin open
    /\ open' \in {open, open \cup {s}}
    /\ waiting' = [waiting EXCEPT ![s] = {}]
    /\ UNCHANGED <<mail, transit>>

Closed(s) == open' = open \ {s} /\ mail' = [mail EXCEPT ![s] = {}]

Close(s) == s \in open /\ Closed(s) /\ UNCHANGED <<transit, waiting>>

Ask(s, u) ==
    /\ s \notin open
    /\ waiting' = [waiting EXCEPT ![s] = @ \cup {u}]
    /\ UNCHANGED <<open, mail, transit>>

(* The connection of user u at socket s is gone.  Whoever has opened s may *)
(* then close the socket t it has by now, or let go of the user's packets  *)
(* there, and of no others.                                                *)
Discarded(t, u) ==
    /\ mail' = [mail EXCEPT ![t] = {m \in @ : m.sender # u}]
    /\ UNCHANGED open

Disconnect(s, u) ==
    /\ waiting' \in {waiting, [waiting EXCEPT ![s] = @ \ {u}]}
    /\ \/ UNCHANGED <<open, mail>>
       \/ s \in open /\ \E t \in open : Discarded(t, u) \/ Closed(t)
    /\ UNCHANGED transit

Next ==
    \/ \E m \in Packet : Arrive(m)
    \/ \E m \in transit : TakeIn(m) \/ ThrowAway(m)
    \/ Forget
    \/ \E s \in Socket : \E D \in SUBSET mail[s] : HandOut(s, D)
    \/ \E s \in Socket : Open(s) \/ Close(s)
    \/ \E s \in Socket, u \in User : Ask(s, u) \/ Disconnect(s, u)

Spec == Init /\ [][Next]_vars
================================================================================
