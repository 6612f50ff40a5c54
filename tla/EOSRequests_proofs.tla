--------------------------- MODULE EOSRequests_proofs ---------------------------
(***************************************************************************)
(* The way of a connection request: notified by the SDK, held by the       *)
(* mediator or listed by the host registered for its socket, until it is   *)
(* answered or its connection is closed.  For every set of instances,      *)
(* names and users, and any number of requests: each is listed in one      *)
(* place, once, and only as long as something can come of it.              *)
(***************************************************************************)
EXTENDS EOSMultiplayerPeer_proofs

Listed(x, u) == IF IsHost(x) THEN x.requests[u] ELSE 0

\* The requests of a user that wait for an answer, at the registered host or
\* at the mediator.
Waiting(s, u) ==
    IF s \in DOMAIN active_peers THEN Listed(instance[active_peers[s]], u)
                                 ELSE pending_connection_requests[s][u]

\* The places of a user's requests: 0 for one that waits, then those of the
\* notifications; and the places of the closings.
Requests(l, n) == {j \in 1..Len(l.notices) : l.notices[j] = "request"} \cup {j \in {0} : n > 0}
Closings(l) == {j \in 1..Len(l.notices) : l.notices[j] \in {"closed_by_local_user", "closed_by_remote"}}

\* Between two requests, and after the last if the connection is no more, a
\* closing is notified.
OneAtOnce(l, n) ==
    /\ n <= 1
    /\ \A j, k \in Requests(l, n) : j < k => \E i \in Closings(l) : j < i /\ i < k
    /\ l.status = "none" => \A j \in Requests(l, n) : \E i \in Closings(l) : j < i

\* An instance that was not created lists nothing.
NothingListed == \A p \in Peer : instance[p].socket = NoSocket => instance[p].requests = NoRequests

OnceEverywhere == \A s \in Socket, u \in User : OneAtOnce(link[s][u], Waiting(s, u))

\* The inductive invariant.
RequestInv == OnceEverywhere /\ NothingListed

----------------------------------------------------------------------------
\* What happens to a link

IsRequest(l, j) == j \in 1..Len(l.notices) /\ l.notices[j] = "request"
IsClosing(l, j) == j \in 1..Len(l.notices) /\ l.notices[j] \in {"closed_by_local_user", "closed_by_remote"}

LEMMA Places ==
  ASSUME NEW l, NEW n, NEW j
  PROVE  /\ j \in Requests(l, n) <=> IsRequest(l, j) \/ (j = 0 /\ n > 0)
         /\ j \in Closings(l) <=> IsClosing(l, j)
BY DEF Requests, Closings, IsRequest, IsClosing

LEMMA LinkFacts ==
  ASSUME NEW l \in Link
  PROVE  l.status \in Status /\ l.notices \in Seq(Notice) /\ Len(l.notices) \in Nat
BY DEF Link

\* Fewer requests may wait than before.
LEMMA FewerWait ==
  ASSUME NEW l \in Link, NEW n \in Nat, NEW k \in Nat, OneAtOnce(l, n), k <= n
  PROVE  OneAtOnce(l, k)
<1>1. Requests(l, k) \subseteq Requests(l, n)
  BY DEF Requests
<1> QED
  BY <1>1 DEF OneAtOnce

LEMMA MovedPlaces ==
  ASSUME NEW l \in Link, NEW n \in Nat, NEW status \in Status, NEW notice \in Notice, NEW j
  PROVE  LET m == Moved(l, status, notice) IN
         /\ m.status = status
         /\ IsRequest(m, j) <=> IsRequest(l, j) \/ (j = Len(l.notices) + 1 /\ notice = "request")
         /\ IsClosing(m, j) <=>
               IsClosing(l, j) \/ (j = Len(l.notices) + 1 /\ notice \in {"closed_by_local_user", "closed_by_remote"})
<1> DEFINE q == l.notices
           r == Append(q, notice)
<1>1. q \in Seq(Notice) /\ Len(q) \in Nat
  BY LinkFacts
<1>2. Len(r) = Len(q) + 1 /\ r[Len(q) + 1] = notice /\ \A i \in 1..Len(q) : r[i] = q[i]
  BY <1>1
<1>3. Moved(l, status, notice).status = status /\ Moved(l, status, notice).notices = r
  BY DEF Moved
<1> HIDE DEF q, r
<1>4. j \in 1..Len(r) <=> j \in 1..Len(q) \/ j = Len(q) + 1
  BY <1>1, <1>2
<1>5. Len(q) + 1 \notin 1..Len(q)
  BY <1>1
<1> QED
  BY <1>2, <1>3, <1>4, <1>5 DEF IsRequest, IsClosing, q

\* An establishing changes nothing, a closing answers all before it, and a
\* request comes only where there is no connection.
LEMMA MovedOnce ==
  ASSUME NEW l \in Link, NEW n \in Nat, NEW status \in Status, NEW notice \in Notice, OneAtOnce(l, n),
         \/ notice = "established" /\ status # "none"
         \/ notice = "request" /\ status # "none" /\ l.status = "none"
         \/ notice \in {"closed_by_local_user", "closed_by_remote"}
  PROVE  OneAtOnce(Moved(l, status, notice), n)
<1> DEFINE m == Moved(l, status, notice)
           e == Len(l.notices) + 1
<1>1. /\ m.status = status
      /\ \A j : j \in Requests(m, n) <=> j \in Requests(l, n) \/ (j = e /\ notice = "request")
      /\ \A j : j \in Closings(m) <=>
                   j \in Closings(l) \/ (j = e /\ notice \in {"closed_by_local_user", "closed_by_remote"})
  <2>1. m.status = status
    BY MovedPlaces
  <2>2. ASSUME NEW j
        PROVE  /\ IsRequest(m, j) <=> IsRequest(l, j) \/ (j = e /\ notice = "request")
               /\ IsClosing(m, j) <=>
                     IsClosing(l, j) \/ (j = e /\ notice \in {"closed_by_local_user", "closed_by_remote"})
    BY MovedPlaces
  <2> HIDE DEF m, e
  <2> QED
    BY <2>1, <2>2, Places, Zenon
<1>2. /\ \A j \in Requests(l, n) \cup Closings(l) : j \in Nat /\ j < e
      /\ e \in Nat
  BY LinkFacts DEF Requests, Closings
<1> HIDE DEF m, e
<1>3. ASSUME NEW j \in Requests(m, n), NEW k \in Requests(m, n), j < k
      PROVE  \E i \in Closings(m) : j < i /\ i < k
  <2>1. CASE k \in Requests(l, n)
    <3>1. j \in Requests(l, n)
      BY <1>1, <1>2, <1>3, <2>1
    <3> QED
      BY <1>1, <1>3, <2>1, <3>1 DEF OneAtOnce
  <2>2. CASE k = e /\ notice = "request"
    <3>1. j \in Requests(l, n)
      BY <1>1, <1>2, <1>3, <2>2
    <3>2. l.status = "none"
      BY <2>2
    <3>3. PICK i \in Closings(l) : j < i
      BY <3>1, <3>2 DEF OneAtOnce
    <3> QED
      BY <1>1, <1>2, <2>2, <3>3
  <2> QED
    BY <1>1, <2>1, <2>2
<1>4. ASSUME m.status = "none", NEW j \in Requests(m, n)
      PROVE  \E i \in Closings(m) : j < i
  <2>1. notice \in {"closed_by_local_user", "closed_by_remote"}
    BY <1>1, <1>4
  <2>2. j \in Requests(l, n) /\ e \in Closings(m)
    BY <1>1, <2>1
  <2> QED
    BY <1>2, <2>2
<1> QED
  BY <1>3, <1>4 DEF OneAtOnce, m

\* What a call of the application makes of a link.
Used(l) == {l, Sent(l), Accepted(l), Closed(l)}

LEMMA UsedOnceMore ==
  ASSUME NEW l \in Link, NEW n \in Nat, OneAtOnce(l, n), NEW m \in Used(l)
  PROVE  m \in Link /\ OneAtOnce(m, n)
<1> USE DEF Status, Notice
<1>1. m \in Link
  BY LinkType DEF Used
<1>2. CASE m = l
  BY <1>2
<1>3. CASE l.status = "none" /\ m = [l EXCEPT !.status = "outgoing"]
  <2>1. m.notices = l.notices /\ m.status = "outgoing"
    BY <1>3 DEF Link
  <2> QED
    BY <1>1, <2>1 DEF OneAtOnce, Requests, Closings
<1>4. OneAtOnce(Moved(l, "open", "established"), n)
  BY MovedOnce
<1>5. OneAtOnce(Moved(l, "none", "closed_by_local_user"), n)
  BY MovedOnce
<1>6. m = l \/ m = Moved(l, "open", "established") \/ m = Moved(l, "none", "closed_by_local_user")
      \/ (l.status = "none" /\ m = [l EXCEPT !.status = "outgoing"])
  BY DEF Used, Sent, Accepted, Closed
<1> QED
  BY <1>1, <1>2, <1>3, <1>4, <1>5, <1>6

\* The oldest notification is dispatched: all places but that of the request
\* that waits move to the front.
LEMMA DispatchedPlaces ==
  ASSUME NEW l \in Link, l.notices # << >>
  PROVE  /\ Dispatched(l) \in Link /\ Dispatched(l).status = l.status
         /\ \A j : IsRequest(Dispatched(l), j) <=> j \in Nat \ {0} /\ IsRequest(l, j + 1)
         /\ \A j : IsClosing(Dispatched(l), j) <=> j \in Nat \ {0} /\ IsClosing(l, j + 1)
<1> DEFINE q == l.notices
           r == Tail(q)
<1>1. q \in Seq(Notice) /\ q # << >> /\ Len(q) \in Nat
  BY LinkFacts
<1>2. r \in Seq(Notice) /\ Len(r) = Len(q) - 1 /\ \A j \in 1..Len(r) : r[j] = q[j + 1]
  BY <1>1, HeadTailProperties
<1>3. Dispatched(l) \in Link /\ Dispatched(l).status = l.status /\ Dispatched(l).notices = r
  BY <1>2 DEF Dispatched, Link
<1> HIDE DEF q, r
<1>4. \A j : j \in 1..Len(r) <=> j \in Nat \ {0} /\ j + 1 \in 1..Len(q)
  BY <1>1, <1>2
<1> QED
  BY <1>2, <1>3, <1>4 DEF IsRequest, IsClosing, q

LEMMA DispatchedOnce ==
  ASSUME NEW l \in Link, NEW n \in Nat, NEW k \in Nat, OneAtOnce(l, n), l.notices # << >>,
         \/ Head(l.notices) = "request" /\ k <= n + 1
         \/ Head(l.notices) = "established" /\ k <= n
         \/ Head(l.notices) \in {"closed_by_local_user", "closed_by_remote"} /\ (k = 0 \/ k + 1 <= n)
  PROVE  Dispatched(l) \in Link /\ OneAtOnce(Dispatched(l), k)
<1> DEFINE m == Dispatched(l)
<1>1. /\ m \in Link /\ m.status = l.status
      /\ \A j : IsRequest(m, j) <=> j \in Nat \ {0} /\ IsRequest(l, j + 1)
      /\ \A j : IsClosing(m, j) <=> j \in Nat \ {0} /\ IsClosing(l, j + 1)
  BY DispatchedPlaces
<1> HIDE DEF m
<1>2. Head(l.notices) = l.notices[1] /\ 1 \in 1..Len(l.notices)
  BY LinkFacts
<1>3. Head(l.notices) = "request" => IsRequest(l, 1) /\ ~IsClosing(l, 1)
  BY <1>2 DEF IsRequest, IsClosing
<1>4. Head(l.notices) = "established" => ~IsRequest(l, 1) /\ ~IsClosing(l, 1)
  BY <1>2 DEF IsRequest, IsClosing
<1>5. /\ \A j \in Closings(l) : j \in Nat /\ j > 0
      /\ 1 \in Closings(l) <=> IsClosing(l, 1)
  BY LinkFacts DEF Closings, IsClosing
\* A request is dispatched only when none waits.
<1>6. Head(l.notices) = "request" => n = 0
  <2> SUFFICES ASSUME Head(l.notices) = "request", n > 0 PROVE FALSE
    OBVIOUS
  <2>1. 0 \in Requests(l, n) /\ 1 \in Requests(l, n)
    BY <1>3, Places
  <2>2. PICK i \in Closings(l) : 0 < i /\ i < 1
    BY <2>1 DEF OneAtOnce
  <2> QED
    BY <1>5, <2>2, Places
<1>7. k <= 1 /\ (k > 0 => Head(l.notices) = "request" \/ (Head(l.notices) = "established" /\ n > 0))
  BY <1>6 DEF OneAtOnce
\* Where a request was before.
<1>8. ASSUME NEW j \in Requests(m, k)
      PROVE  \/ j + 1 \in Requests(l, n) /\ j \in Nat
             \/ j = 0 /\ 0 \in Requests(l, n) /\ 1 \notin Closings(l)
  <2>1. CASE IsRequest(m, j)
    BY <1>1, <2>1, Places
  <2>2. CASE j = 0 /\ k > 0
    BY <1>3, <1>4, <1>7, <2>2, Places
  <2> QED
    BY <1>8, <2>1, <2>2, Places
<1>9. \A i : i \in Closings(l) /\ i # 1 => i - 1 \in Closings(m) /\ i \in Nat
  <2>1. ASSUME NEW i \in Closings(l), i # 1 PROVE i - 1 \in Nat \ {0} /\ (i - 1) + 1 = i /\ IsClosing(l, i)
    BY <1>5, <2>1, Places
  <2>2. \A i \in Closings(l) : i # 1 => IsClosing(m, i - 1)
    BY <1>1, <2>1
  <2> QED
    BY <1>5, <2>2, Places
<1>10. ASSUME NEW a \in Requests(m, k), NEW b \in Requests(m, k), a < b
       PROVE  \E i \in Closings(m) : a < i /\ i < b
  <2>1. b # 0 /\ b + 1 \in Requests(l, n) /\ b \in Nat /\ a \in Nat
    BY <1>8, <1>10
  <2>2. PICK c \in Requests(l, n) : c \in {a, a + 1} /\ (c = a => c = 0 /\ 1 \notin Closings(l))
    BY <1>8
  <2>3. PICK i \in Closings(l) : c < i /\ i < b + 1
    BY <1>10, <2>1, <2>2 DEF OneAtOnce
  <2>4. i # 1 /\ a < i - 1
    BY <1>5, <2>1, <2>2, <2>3
  <2> QED
    BY <1>9, <2>1, <2>3, <2>4
<1>11. ASSUME m.status = "none", NEW a \in Requests(m, k)
       PROVE  \E i \in Closings(m) : a < i
  <2>1. a \in Nat
    BY <1>8
  <2>2. PICK c \in Requests(l, n) : c \in {a, a + 1} /\ (c = a => c = 0 /\ 1 \notin Closings(l))
    BY <1>8
  <2>3. PICK i \in Closings(l) : c < i
    BY <1>1, <1>11, <2>2 DEF OneAtOnce
  <2>4. i # 1 /\ a < i - 1
    BY <1>5, <2>1, <2>2, <2>3
  <2> QED
    BY <1>9, <2>4
<1> QED
  BY <1>1, <1>7, <1>10, <1>11 DEF OneAtOnce, m

----------------------------------------------------------------------------
\* Steps that add no request

Fewer(x, y) == (IsHost(y) => IsHost(x)) /\ \A u \in User : y.requests[u] <= x.requests[u]

LEMMA FewerSame == ASSUME NEW x \in InstanceType PROVE Fewer(x, x)
BY DEF Fewer, InstanceType

LEMMA FewerSameLists ==
  ASSUME NEW x \in InstanceType, NEW y, y.requests = x.requests, y.active_mode = x.active_mode
  PROVE  Fewer(x, y)
BY DEF Fewer, IsHost, InstanceType

LEMMA FewerReset == ASSUME NEW x \in InstanceType, NEW y \in InstanceType PROVE Fewer(x, Reset(y))
<1>1. Reset(y).requests = NoRequests /\ Reset(y).active_mode = "MODE_NONE"
  BY DEF Reset, InstanceType
<1> QED
  BY <1>1 DEF Fewer, IsHost, InstanceType, NoRequests

LEMMA OneFewer ==
  ASSUME TypeInv, NEW q \in Peer, NEW y, instance' = [instance EXCEPT ![q] = y], Fewer(instance[q], y)
  PROVE  \A p \in Peer : Fewer(instance[p], instance'[p])
<1>1. instance'[q] = y /\ \A p \in Peer \ {q} : instance'[p] = instance[p] /\ instance[p] \in InstanceType
  BY DEF TypeInv
<1> QED
  BY <1>1, FewerSame

LEMMA NoneFewer == ASSUME TypeInv, UNCHANGED instance PROVE \A p \in Peer : Fewer(instance[p], instance'[p])
BY FewerSame DEF TypeInv

UsedLinks(ln) == \A s \in Socket, u \in User : link'[s][u] \in Used(ln[s][u])

LEMMA LinksUnused == UNCHANGED link => UsedLinks(link)
BY DEF UsedLinks, Used

LEMMA OneLinkUsed ==
  ASSUME NEW ln \in Links, NEW s, NEW u, NEW m, m \in Used(ln[s][u]), link' = [ln EXCEPT ![s][u] = m]
  PROVE  UsedLinks(ln)
BY DEF UsedLinks, Used, Links

LEMMA SocketClosedUsed == ASSUME NEW ln \in Links, NEW s, link' = SocketClosed(ln, s) PROVE UsedLinks(ln)
BY DEF UsedLinks, Used, Links, SocketClosed

LEMMA SomeLinksUsed ==
  ASSUME NEW ln \in Links, NEW t, NEW used, link' = [ln EXCEPT ![t] = used],
         \A u \in User : used[u] \in Used(ln[t][u])
  PROVE  UsedLinks(ln)
BY DEF UsedLinks, Used, Links

WaitingAreNumbers == \A s \in Socket, u \in User : Waiting(s, u) \in Nat

LEMMA WaitingType == PeerInv => WaitingAreNumbers
<1> SUFFICES ASSUME PeerInv, NEW s \in Socket, NEW u \in User PROVE Waiting(s, u) \in Nat
  BY DEF WaitingAreNumbers
<1>1. s \in DOMAIN active_peers => active_peers[s] \in Peer /\ instance[active_peers[s]] \in InstanceType
  BY InstanceFacts DEF PeerInv, RefinementInv, M!TypeOK
<1>2. pending_connection_requests[s][u] \in Nat
  BY DEF PeerInv, RefinementInv, M!TypeOK
<1> QED
  BY <1>1, <1>2 DEF Waiting, Listed, InstanceType

LEMMA WaitingTypeNext == PeerInv' => WaitingAreNumbers'
BY WaitingType, PTL

LEMMA OnceKept ==
  ASSUME PeerInv, PeerInv', OnceEverywhere, UsedLinks(link),
         \A s \in Socket, u \in User : Waiting(s, u)' <= Waiting(s, u)
  PROVE  OnceEverywhere'
<1> SUFFICES ASSUME NEW s \in Socket, NEW u \in User PROVE OneAtOnce(link'[s][u], Waiting(s, u)')
  BY DEF OnceEverywhere, OneAtOnce, Requests, Closings
<1>1. Waiting(s, u) \in Nat /\ Waiting(s, u)' \in Nat /\ Waiting(s, u)' <= Waiting(s, u)
  BY WaitingType, WaitingTypeNext DEF WaitingAreNumbers
<1>2. link[s][u] \in Link /\ link'[s][u] \in Used(link[s][u])
  BY DEF UsedLinks, PeerInv, TypeInv
<1>3. OneAtOnce(link[s][u], Waiting(s, u))
  BY DEF OnceEverywhere
<1>4. OneAtOnce(link[s][u], Waiting(s, u)')
  BY <1>1, <1>2, <1>3, FewerWait
<1> QED
  BY <1>1, <1>2, <1>4, UsedOnceMore

NoneRegistered ==
    \A t \in DOMAIN active_peers' : t \in DOMAIN active_peers /\ active_peers'[t] = active_peers[t]

NoneHeld ==
    \A s \in Socket, u \in User : pending_connection_requests'[s][u] <= pending_connection_requests[s][u]

Quiet ==
    /\ \A p \in Peer : Fewer(instance[p], instance'[p])
    /\ UsedLinks(link)
    /\ NoneRegistered
    /\ NoneHeld

LEMMA RegistryUnused == UNCHANGED active_peers => NoneRegistered
BY DEF NoneRegistered

LEMMA UnregisterUnused == ASSUME NEW cond, NEW s, UnregisterIf(cond, s) PROVE NoneRegistered
BY UnregisterIfFacts DEF NoneRegistered

LEMMA HeldUnused == M!TypeOK /\ UNCHANGED pending_connection_requests => NoneHeld
BY DEF NoneHeld, M!TypeOK

\* Nobody's list and no held request grows, nor do the waiting ones.
LEMMA QuietOnce ==
  ASSUME RegisteredInv, PeerInv', OnceEverywhere, Quiet
  PROVE  OnceEverywhere'
<1>0. PeerInv
  BY DEF RegisteredInv
<1>1. ASSUME NEW s \in Socket, NEW u \in User PROVE Waiting(s, u)' <= Waiting(s, u)
  <2>1. Waiting(s, u) \in Nat /\ Waiting(s, u)' \in Nat
    BY <1>0, WaitingType, WaitingTypeNext DEF WaitingAreNumbers
  <2>2. CASE s \in DOMAIN active_peers'
    <3>1. PICK p \in Peer : p = active_peers[s] /\ p = active_peers'[s] /\ s \in DOMAIN active_peers
      BY <2>2, RegistryFacts DEF Quiet, NoneRegistered
    <3>2. instance[p] \in InstanceType /\ instance'[p] \in InstanceType /\ Fewer(instance[p], instance'[p])
      BY <1>0 DEF PeerInv, TypeInv, Quiet
    <3>3. Listed(instance'[p], u) <= Listed(instance[p], u)
      BY <3>2 DEF Listed, Fewer, InstanceType
    <3> QED
      BY <2>2, <3>1, <3>3 DEF Waiting
  <2>3. CASE s \notin DOMAIN active_peers'
    <3>1. s \in DOMAIN active_peers => pending_connection_requests[s][u] = 0
      BY <1>0 DEF PeerInv, RefinementInv, M!NoRequestHeldBack
    <3>2. pending_connection_requests'[s][u] <= pending_connection_requests[s][u]
      BY DEF Quiet, NoneHeld
    <3> QED
      BY <2>1, <2>3, <3>1, <3>2 DEF Waiting
  <2> QED
    BY <2>2, <2>3
<1> QED
  BY <1>0, <1>1, OnceKept DEF Quiet

\* A call that leaves the mediator alone.
LEMMA QuietCall ==
  ASSUME M!TypeOK, UNCHANGED mediatorVars, \A p \in Peer : Fewer(instance[p], instance'[p]), UsedLinks(link)
  PROVE  Quiet
BY RegistryUnused, HeldUnused DEF Quiet, mediatorVars

LEMMA CreateQuiet ==
  ASSUME ~Reuses, RegisteredInv, NEW p \in Peer,
         \/ \E s \in SocketName, mode \in {"MODE_SERVER", "MODE_MESH"} : CreateHostFails(p, s, mode)
         \/ \E s \in Socket : CreateClientCannotSend(p, s)
         \/ \E s \in SocketName : CreateClientFails(p, s)
  PROVE  Quiet
<1>0. TypeInv /\ M!TypeOK /\ link \in Links /\ instance[p] \in InstanceType /\ ServerId \in PeerId
  BY InstanceFacts DEF RegisteredInv, PeerInv, RefinementInv, TypeInv, Links, PeerId
<1>1. ASSUME NEW s \in SocketName, NEW mode \in {"MODE_SERVER", "MODE_MESH"}, CreateHostFails(p, s, mode)
      PROVE  Quiet
  <2>1. Fewer(instance[p], Reset(Hosting(p, s, mode, ServerId)))
    BY <1>0, HostingType, FewerReset
  <2>2. \A q \in Peer : Fewer(instance[q], instance'[q])
    BY <1>0, <1>1, <2>1, OneFewer DEF CreateHostFails
  <2>3. UsedLinks(link)
    BY <1>0, <1>1, SocketClosedUsed DEF CreateHostFails
  <2>4. NoneRegistered
    BY <1>1, UnregisterUnused DEF CreateHostFails
  <2>5. NoneHeld
    BY <1>0, <1>1, HeldUnused DEF CreateHostFails
  <2> QED
    BY <2>2, <2>3, <2>4, <2>5 DEF Quiet
<1>2. ASSUME NEW s \in SocketName PROVE Dialling(p, s) \in InstanceType /\ Fewer(instance[p], Dialling(p, s))
  <2>1. Dialling(p, s) \in InstanceType
    BY <1>0, DiallingType
  <2>2. Dialling(p, s).requests = instance[p].requests /\ Dialling(p, s).active_mode = instance[p].active_mode
    BY <1>0 DEF Dialling, InstanceType
  <2> QED
    BY <1>0, <2>1, <2>2, FewerSameLists
<1>3. ASSUME NEW s \in Socket, CreateClientCannotSend(p, s) PROVE Quiet
  <2>1. Fewer(instance[p], Reset(Dialling(p, s)))
    BY <1>0, <1>2, FewerReset DEF SocketName
  <2>2. \A q \in Peer : Fewer(instance[q], instance'[q])
    BY <1>0, <1>3, <2>1, OneFewer DEF CreateClientCannotSend
  <2>3. UsedLinks(link)
    BY <1>0, <1>3, SocketClosedUsed DEF CreateClientCannotSend
  <2>4. DOMAIN instance[p].peers = {}
    BY <1>3 DEF CreateClientCannotSend, MayCreate, RegisteredInv, UsedOnce
  <2>5. UNCHANGED active_peers /\ M!ForwardPendingConnectionRequests(s)
    BY <1>3, <2>4 DEF CreateClientCannotSend, M!RegisterAndUnregisterPeer
  <2>6. NoneHeld
    BY <1>0, <2>5 DEF NoneHeld, M!TypeOK, M!ForwardPendingConnectionRequests
  <2> QED
    BY <2>2, <2>3, <2>5, <2>6, RegistryUnused DEF Quiet
<1>4. ASSUME NEW s \in SocketName, CreateClientFails(p, s) PROVE Quiet
  <2>1. \A q \in Peer : Fewer(instance[q], instance'[q])
    BY <1>0, <1>2, <1>4, OneFewer DEF CreateClientFails
  <2>2. UNCHANGED mediatorVars /\ UsedLinks(link)
    BY <1>4, LinksUnused DEF CreateClientFails
  <2> QED
    BY <1>0, <2>1, <2>2, QuietCall
<1> QED
  BY <1>1, <1>3, <1>4

LEMMA ClosingQuiet ==
  ASSUME M!TypeOK, link \in Links, NEW p \in Peer, Closing(p), UNCHANGED pending_connection_requests,
         \A q \in Peer : Fewer(instance[q], instance'[q])
  PROVE  Quiet
<1>1. UsedLinks(link) /\ NoneRegistered
  BY SocketClosedUsed, UnregisterUnused DEF Closing
<1> QED
  BY <1>1, HeldUnused DEF Quiet

\* One user's link, or some of an active instance's, and its list may shrink.
LEMMA AnswerQuiet ==
  ASSUME RegisteredInv, NEW p \in Peer, NEW u \in User,
         AcceptConnectionRequest(p, u) \/ DenyConnectionRequest(p, u)
  PROVE  Quiet
<1>0. TypeInv /\ M!TypeOK /\ link \in Links /\ instance[p] \in InstanceType
  BY InstanceFacts DEF RegisteredInv, PeerInv, RefinementInv, TypeInv, Links
<1> DEFINE x == instance[p]
           y == [x EXCEPT !.requests = [x.requests EXCEPT ![u] = @ - 1]]
<1>1. instance' = [instance EXCEPT ![p] = y] /\ UNCHANGED mediatorVars
  BY DEF AcceptConnectionRequest, DenyConnectionRequest, AnswerRequest
<1>2. Fewer(x, y)
  <2>1. y.requests = [x.requests EXCEPT ![u] = @ - 1] /\ y.active_mode = x.active_mode
    BY <1>0 DEF InstanceType
  <2>2. x.requests \in [User -> Nat]
    BY <1>0 DEF InstanceType
  <2> HIDE DEF x, y
  <2> QED
    BY <2>1, <2>2 DEF Fewer, IsHost
<1>3. UsedLinks(link)
  <2>1. PICK m \in Used(link[x.socket][u]) : link' = [link EXCEPT ![x.socket][u] = m]
    BY DEF AcceptConnectionRequest, DenyConnectionRequest, AnswerRequest, Used
  <2> QED
    BY <1>0, <2>1, OneLinkUsed
<1> HIDE DEF y
<1> QED
  BY <1>0, <1>1, <1>2, <1>3, OneFewer, QuietCall

LEMMA AnswerAllQuiet ==
  ASSUME RegisteredInv, NEW p \in Peer, AcceptAllConnectionRequests(p) \/ DenyAllConnectionRequests(p)
  PROVE  Quiet
<1>0. TypeInv /\ M!TypeOK /\ link \in Links /\ instance[p] \in InstanceType
  BY InstanceFacts DEF RegisteredInv, PeerInv, RefinementInv, TypeInv, Links
<1>1. UNCHANGED mediatorVars
  BY DEF AcceptAllConnectionRequests, DenyAllConnectionRequests, AnswerAll
<1>2. UsedLinks(link)
  <2>1. PICK used :
           /\ link' = [link EXCEPT ![instance[p].socket] = used]
           /\ \E reached \in SUBSET User :
                 \/ used = [u \in User |-> IF u \in reached THEN Accepted(link[instance[p].socket][u])
                                                          ELSE link[instance[p].socket][u]]
                 \/ used = [u \in User |-> IF u \in reached THEN Closed(link[instance[p].socket][u])
                                                          ELSE link[instance[p].socket][u]]
    BY DEF AcceptAllConnectionRequests, DenyAllConnectionRequests
  <2>2. \A u \in User : used[u] \in Used(link[instance[p].socket][u])
    BY <2>1 DEF Used
  <2> QED
    BY <1>0, <2>1, <2>2, SomeLinksUsed
<1>3. PICK asked :
         /\ instance' = [instance EXCEPT ![p] = [@ EXCEPT !.requests = asked]]
         /\ \/ asked = NoRequests
            \/ \E reached \in SUBSET User :
                  /\ asked = [u \in User |-> IF u \in reached THEN instance[p].requests[u] - 1
                                                            ELSE instance[p].requests[u]]
                  /\ \A u \in reached : instance[p].requests[u] > 0
  <2>1. CASE AcceptAllConnectionRequests(p)
    BY <2>1 DEF AcceptAllConnectionRequests, AnswerAll
  <2>2. CASE DenyAllConnectionRequests(p)
    BY <2>2 DEF DenyAllConnectionRequests, AnswerAll
  <2> QED
    BY <2>1, <2>2
<1>4. Fewer(instance[p], [instance[p] EXCEPT !.requests = asked])
  <2>1. [instance[p] EXCEPT !.requests = asked].requests = asked
    BY <1>0 DEF InstanceType
  <2>2. [instance[p] EXCEPT !.requests = asked].active_mode = instance[p].active_mode
    BY <1>0 DEF InstanceType
  <2>3. instance[p].requests \in [User -> Nat]
    BY <1>0 DEF InstanceType
  <2>4. \A u \in User : asked[u] <= instance[p].requests[u]
    BY <1>3, <2>3 DEF NoRequests
  <2> QED
    BY <2>1, <2>2, <2>4 DEF Fewer, IsHost
<1>5. \A q \in Peer : Fewer(instance[q], instance'[q])
  BY <1>0, <1>3, <1>4, OneFewer
<1> QED
  BY <1>0, <1>1, <1>2, <1>5, QuietCall

LEMMA ApplicationQuiet ==
  ASSUME ~Reuses, RegisteredInv, NEW p \in Peer, Application(p),
         \A s \in Socket, mode \in {"MODE_SERVER", "MODE_MESH"} : ~CreateHost(p, s, mode),
         \A s \in Socket, u \in User : ~CreateClient(p, s, u)
  PROVE  Quiet
<1> DEFINE x == instance[p]
<1>0. TypeInv /\ M!TypeOK /\ link \in Links /\ x \in InstanceType
  BY InstanceFacts DEF RegisteredInv, PeerInv, RefinementInv, TypeInv, Links
<1>1. ASSUME NEW y, y.requests = x.requests, y.active_mode = x.active_mode, instance' = [instance EXCEPT ![p] = y]
      PROVE  \A q \in Peer : Fewer(instance[q], instance'[q])
  BY <1>0, <1>1, FewerSameLists, OneFewer
<1>2. Reset(x) \in InstanceType /\ Fewer(x, Reset(x))
  BY <1>0, ResetType, FewerReset
<1>3. CASE Close(p)
  <2>1. \A q \in Peer : Fewer(instance[q], instance'[q])
    BY <1>0, <1>2, <1>3, OneFewer DEF Close
  <2> QED
    BY <1>0, <1>3, <2>1, ClosingQuiet DEF Close
<1>4. CASE Free(p)
  <2> DEFINE z == IF IsActive(x) THEN Reset(x) ELSE x
             y == [z EXCEPT !.alive = FALSE]
  <2>1. z \in InstanceType /\ Fewer(x, z)
    BY <1>0, <1>2, FewerSame
  <2>2. instance' = [instance EXCEPT ![p] = y]
    BY <1>4 DEF Free
  <2> HIDE DEF z
  <2>3. y.requests = z.requests /\ y.active_mode = z.active_mode
    BY <2>1 DEF InstanceType
  <2>4. Fewer(x, y)
    BY <2>1, <2>3 DEF Fewer, IsHost
  <2> HIDE DEF y
  <2>5. \A q \in Peer : Fewer(instance[q], instance'[q])
    BY <1>0, <2>2, <2>4, OneFewer
  <2>6. CASE IsActive(x)
    BY <1>0, <1>4, <2>5, <2>6, ClosingQuiet DEF Free
  <2>7. CASE ~IsActive(x)
    <3>1. UNCHANGED <<link, active_peers, pending_connection_requests>>
      BY <1>4, <2>7 DEF Free
    <3> QED
      BY <1>0, <2>5, <3>1, LinksUnused, RegistryUnused, HeldUnused DEF Quiet
  <2> QED
    BY <2>6, <2>7
<1>5. ASSUME NEW u \in User, AddMeshPeer(p, u) PROVE Quiet
  <2>1. UNCHANGED <<mediatorVars, instance>> /\ link' = [link EXCEPT ![x.socket][u] = Sent(link[x.socket][u])]
    BY <1>5 DEF AddMeshPeer
  <2>2. UsedLinks(link)
    BY <1>0, <2>1, OneLinkUsed DEF Used
  <2> QED
    BY <1>0, <2>1, <2>2, NoneFewer, QuietCall
<1>6. ASSUME NEW i, NEW force, DisconnectPeer(p, i, force) PROVE Quiet
  <2> DEFINE y == [x EXCEPT !.peers = Restrict(@, DOMAIN @ \ {i})]
  <2>1. y.requests = x.requests /\ y.active_mode = x.active_mode
    BY <1>0 DEF InstanceType
  <2>2. instance' = [instance EXCEPT ![p] = y] \/ UNCHANGED instance
    BY <1>6 DEF DisconnectPeer
  <2> HIDE DEF y
  <2>3. \A q \in Peer : Fewer(instance[q], instance'[q])
    BY <1>0, <1>1, <2>1, <2>2, NoneFewer
  <2>4. UNCHANGED mediatorVars /\ link' = [link EXCEPT ![x.socket][x.peers[i]] = Closed(link[x.socket][x.peers[i]])]
    BY <1>6 DEF DisconnectPeer
  <2>5. UsedLinks(link)
    BY <1>0, <2>4, OneLinkUsed DEF Used
  <2> QED
    BY <1>0, <2>3, <2>4, <2>5, QuietCall
<1>7. ASSUME NEW field \in {"auto_accept", "refusing", "polling"}, NEW value, Set(p, field, value) PROVE Quiet
  <2> DEFINE y == [x EXCEPT ![field] = value]
  <2>1. y.requests = x.requests /\ y.active_mode = x.active_mode
    BY <1>0 DEF InstanceType
  <2>2. instance' = [instance EXCEPT ![p] = y] /\ UNCHANGED <<mediatorVars, link>>
    BY <1>7 DEF Set
  <2> HIDE DEF y
  <2> QED
    BY <1>0, <1>1, <2>1, <2>2, LinksUnused, QuietCall
<1>8. CASE GetPacket(p)
  <2> DEFINE y == [x EXCEPT !.incoming_packets = Tail(@)]
  <2>1. y.requests = x.requests /\ y.active_mode = x.active_mode
    BY <1>0 DEF InstanceType
  <2>2. instance' = [instance EXCEPT ![p] = y] /\ UNCHANGED <<mediatorVars, link>>
    BY <1>8 DEF GetPacket
  <2> HIDE DEF y
  <2> QED
    BY <1>0, <1>1, <2>1, <2>2, LinksUnused, QuietCall
<1>9. CASE PutPacket(p)
  <2>1. UNCHANGED <<mediatorVars, instance>>
    BY <1>9 DEF PutPacket
  <2>2. PICK reached : link' = [link EXCEPT ![x.socket] =
          [u \in User |-> IF \E i \in reached : x.peers[i] = u THEN Sent(link[x.socket][u]) ELSE link[x.socket][u]]]
    BY <1>9 DEF PutPacket
  <2> DEFINE used ==
          [u \in User |-> IF \E i \in reached : x.peers[i] = u THEN Sent(link[x.socket][u]) ELSE link[x.socket][u]]
  <2>3. \A u \in User : used[u] \in Used(link[x.socket][u])
    BY DEF Used
  <2>4. link' = [link EXCEPT ![x.socket] = used]
    BY <2>2
  <2> HIDE DEF used, x
  <2>5. UsedLinks(link)
    BY <1>0, <2>3, <2>4, SomeLinksUsed
  <2> QED
    BY <1>0, <2>1, <2>5, NoneFewer, QuietCall
<1>10. CASE ~Close(p) /\ ~Free(p) /\ ~GetPacket(p) /\ ~PutPacket(p)
  BY <1>5, <1>6, <1>7, <1>10, CreateQuiet, AnswerQuiet, AnswerAllQuiet DEF Application
<1> QED
  BY <1>3, <1>4, <1>8, <1>9, <1>10


LEMMA PollStepQuiet == ASSUME RegisteredInv, PollStep PROVE Quiet
<1>0. TypeInv /\ RefinementInv /\ M!TypeOK /\ link \in Links
  BY DEF RegisteredInv, PeerInv, RefinementInv, TypeInv, Links
<1>1. ASSUME NEW q \in Peer, NEW y, y.requests = instance[q].requests, y.active_mode = instance[q].active_mode,
             instance' = [instance EXCEPT ![q] = y]
      PROVE  \A p \in Peer : Fewer(instance[p], instance'[p])
  BY <1>0, <1>1, InstanceFacts, FewerSameLists, OneFewer
<1>2. CASE PollStorePacket
  <2>1. PICK q \in Peer : q = polled.by
    BY <1>0, <1>2, Events, PolledFacts DEF PollStorePacket, RefinementInv
  <2>2. PICK inbox : UNCHANGED instance \/ instance' = [instance EXCEPT ![q] = [@ EXCEPT !.incoming_packets = inbox]]
    BY <1>2, <2>1 DEF PollStorePacket
  <2> DEFINE y == [instance[q] EXCEPT !.incoming_packets = inbox]
  <2>3. y.requests = instance[q].requests /\ y.active_mode = instance[q].active_mode
    BY <1>0 DEF TypeInv, InstanceType
  <2>4. UNCHANGED instance \/ instance' = [instance EXCEPT ![q] = y]
    BY <2>2
  <2> HIDE DEF y
  <2>5. \A p \in Peer : Fewer(instance[p], instance'[p])
    BY <1>0, <1>1, <2>3, <2>4, NoneFewer
  <2>6. UNCHANGED <<mediatorVars, link>>
    BY <1>2 DEF PollStorePacket
  <2> QED
    BY <1>0, <2>5, <2>6, LinksUnused, QuietCall
<1>3. CASE PollMeshConnectionRequest \/ PollUnwantedPeerId \/ PollReturns
  <2>1. UNCHANGED <<mediatorVars, instance, link>>
    BY <1>3 DEF PollMeshConnectionRequest, PollUnwantedPeerId, PollReturns
  <2> QED
    BY <1>0, <2>1, LinksUnused, NoneFewer, QuietCall
<1>4. CASE PollNotAServer
  <2>1. PICK q \in Peer : q = polled.by
    BY <1>0, <1>4, Events, PolledFacts DEF PollNotAServer, RefinementInv
  <2>2. /\ instance' = [instance EXCEPT ![q] = Reset(instance[q])]
        /\ Closing(q) /\ UNCHANGED pending_connection_requests
    BY <1>4, <2>1 DEF PollNotAServer
  <2>3. \A p \in Peer : Fewer(instance[p], instance'[p])
    BY <1>0, <2>2, InstanceFacts, FewerReset, OneFewer
  <2> QED
    BY <1>0, <2>2, <2>3, ClosingQuiet
<1>5. CASE PollInvalidPeerId
  <2>1. PICK t, u : link' = [link EXCEPT ![t][u] = Closed(link[t][u])]
    BY <1>5 DEF PollInvalidPeerId
  <2>2. UsedLinks(link)
    BY <1>0, <2>1, OneLinkUsed DEF Used
  <2>3. UNCHANGED <<mediatorVars, instance>>
    BY <1>5 DEF PollInvalidPeerId
  <2> QED
    BY <1>0, <2>2, <2>3, NoneFewer, QuietCall
<1>6. CASE PollPeerId
  <2>1. PICK q \in Peer : q = polled.by
    BY <1>0, <1>6, Events, PolledFacts DEF PollPeerId, RefinementInv
  <2>2. PICK peers, status :
           instance' = [instance EXCEPT ![q] = [@ EXCEPT !.peers = peers, !.connection_status = status]]
    BY <1>6, <2>1 DEF PollPeerId
  <2> DEFINE y == [instance[q] EXCEPT !.peers = peers, !.connection_status = status]
  <2>3. y.requests = instance[q].requests /\ y.active_mode = instance[q].active_mode
    BY <1>0 DEF TypeInv, InstanceType
  <2>4. instance' = [instance EXCEPT ![q] = y]
    BY <2>2
  <2> HIDE DEF y
  <2>5. \A p \in Peer : Fewer(instance[p], instance'[p])
    BY <1>0, <1>1, <2>3, <2>4
  <2>6. UNCHANGED <<mediatorVars, link>>
    BY <1>6 DEF PollPeerId
  <2> QED
    BY <1>0, <2>5, <2>6, LinksUnused, QuietCall
<1> QED
  BY <1>2, <1>3, <1>4, <1>5, <1>6 DEF PollStep

----------------------------------------------------------------------------
\* Steps that hand requests on

LEMMA RequestsAcceptedUsed ==
  ASSUME NEW ln \in Links, NEW x, NEW s, NEW asked, link' = RequestsAccepted(ln, x, s, asked)
  PROVE  UsedLinks(ln)
BY DEF UsedLinks, Used, Links, RequestsAccepted

\* What the mediator held for a name goes to the instance that takes it.
LEMMA RegisteringOnce ==
  ASSUME RegisteredInv, PeerInv', OnceEverywhere, NEW p \in Peer, NEW s \in Socket, NEW y, M!RegisterPeer(p, s),
         instance[p].socket = NoSocket, instance' = [instance EXCEPT ![p] = y],
         \A u \in User : Listed(y, u) <= pending_connection_requests[s][u], UsedLinks(link)
  PROVE  OnceEverywhere'
<1>0. PeerInv /\ TypeInv
  BY DEF RegisteredInv, PeerInv
<1>1. /\ s \notin DOMAIN active_peers /\ DOMAIN active_peers' = DOMAIN active_peers \cup {s}
      /\ active_peers'[s] = p
      /\ \A t \in DOMAIN active_peers : active_peers'[t] = active_peers[t]
  BY DEF M!RegisterPeer, M!Insert
<1>2. \A t \in DOMAIN active_peers : active_peers[t] # p /\ active_peers[t] \in Peer
  BY RegistryFacts DEF RegisteredInv, Registered
<1>3. instance'[p] = y /\ \A q \in Peer \ {p} : instance'[q] = instance[q]
  BY <1>0, NotTouched
<1>4. \A t \in Socket \ {s} : pending_connection_requests'[t] = pending_connection_requests[t]
  BY <1>0 DEF M!RegisterPeer, M!ForwardPendingConnectionRequests, PeerInv, RefinementInv, M!TypeOK
<1>5. ASSUME NEW t \in Socket, NEW u \in User PROVE Waiting(t, u)' <= Waiting(t, u)
  <2>1. CASE t = s
    BY <1>1, <1>3, <2>1 DEF Waiting
  <2>2. CASE t # s
    <3>1. Waiting(t, u)' = Waiting(t, u)
      BY <1>1, <1>2, <1>3, <1>4, <2>2 DEF Waiting
    <3>2. Waiting(t, u) \in Nat
      BY <1>0, WaitingType DEF WaitingAreNumbers
    <3> QED
      BY <3>1, <3>2
  <2> QED
    BY <2>1, <2>2
<1> QED
  BY <1>0, <1>5, OnceKept

LEMMA CreateHostOnce ==
  ASSUME ~Reuses, RegisteredInv, PeerInv', RequestInv, NEW p \in Peer, NEW s \in Socket,
         NEW mode \in {"MODE_SERVER", "MODE_MESH"}, CreateHost(p, s, mode)
  PROVE  OnceEverywhere' /\ instance'[p].socket = s /\ \A q \in Peer \ {p} : instance'[q] = instance[q]
<1>0. TypeInv /\ M!TypeOK /\ link \in Links
  BY DEF RegisteredInv, PeerInv, RefinementInv, TypeInv, Links
<1>1. PICK id \in HostIds(mode) :
         LET x == Hosting(p, s, mode, id)
             asked == pending_connection_requests[s] IN
         /\ instance' = [instance EXCEPT ![p] = RequestsTaken(x, asked)]
         /\ link' = RequestsAccepted(link, x, s, asked)
  BY DEF CreateHost
<1> DEFINE x == Hosting(p, s, mode, id)
           asked == pending_connection_requests[s]
           y == RequestsTaken(x, asked)
<1>2. instance' = [instance EXCEPT ![p] = y] /\ link' = RequestsAccepted(link, x, s, asked)
  BY <1>1
<1>3. instance[p].socket = NoSocket /\ instance[p].requests = NoRequests
  BY DEF CreateHost, MayCreate, RequestInv, NothingListed
<1>4. x.socket = s /\ x.requests = NoRequests /\ x \in InstanceType
  <2>1. id \in PeerId /\ s \in SocketName
    BY DEF HostIds, PeerId, SocketName
  <2>2. x.socket = s /\ x.requests = instance[p].requests
    BY <1>0 DEF Hosting, TypeInv, InstanceType
  <2> QED
    BY <1>0, <1>3, <2>1, <2>2, HostingType
<1>5. asked \in [User -> Nat]
  BY <1>0 DEF M!TypeOK
<1> HIDE DEF x, asked
<1>6. y.socket = s /\ \A u \in User : Listed(y, u) <= asked[u]
  <2>1. y = x \/ y = [x EXCEPT !.requests = [u \in User |-> x.requests[u] + asked[u]]]
    BY DEF RequestsTaken
  <2>2. y.socket = s /\ \A u \in User : y.requests[u] = 0 \/ y.requests[u] = asked[u]
    <3>1. CASE y = x
      BY <1>4, <3>1 DEF NoRequests
    <3>2. CASE y = [x EXCEPT !.requests = [u \in User |-> x.requests[u] + asked[u]]]
      <4>1. y.socket = s /\ y.requests = [u \in User |-> x.requests[u] + asked[u]]
        BY <1>4, <3>2 DEF InstanceType
      <4>2. \A u \in User : x.requests[u] = 0
        BY <1>4 DEF NoRequests
      <4> HIDE DEF y
      <4> QED
        BY <1>5, <4>1, <4>2
    <3> QED
      BY <2>1, <3>1, <3>2
  <2> QED
    BY <1>5, <2>2 DEF Listed
<1> HIDE DEF y
<1>7. M!RegisterPeer(p, s)
  BY DEF CreateHost
<1>8. UsedLinks(link)
  BY <1>0, <1>2, RequestsAcceptedUsed
<1>9. instance'[p] = y /\ \A q \in Peer \ {p} : instance'[q] = instance[q]
  BY <1>0, <1>2, NotTouched
<1>10. OnceEverywhere'
  BY <1>2, <1>3, <1>6, <1>7, <1>8, RegisteringOnce DEF RequestInv, asked
<1> QED
  BY <1>6, <1>9, <1>10

LEMMA CreateClientOnce ==
  ASSUME ~Reuses, RegisteredInv, PeerInv', RequestInv, NEW p \in Peer, NEW s \in Socket, NEW u \in User,
         CreateClient(p, s, u)
  PROVE  OnceEverywhere' /\ instance'[p].socket = s /\ \A q \in Peer \ {p} : instance'[q] = instance[q]
<1>0. TypeInv /\ M!TypeOK /\ link \in Links
  BY DEF RegisteredInv, PeerInv, RefinementInv, TypeInv, Links
<1> DEFINE d == Dialling(p, s)
           r == RequestsTaken(d, pending_connection_requests[s])
<1>1. PICK id \in GeneratedId : instance' = [instance EXCEPT ![p] = Client(r, id)]
  BY DEF CreateClient
<1>2. instance[p].socket = NoSocket
  BY DEF CreateClient, MayCreate
<1>3. pending_connection_requests[s] \in [User -> Nat]
  BY <1>0 DEF M!TypeOK
<1>4. d \in InstanceType /\ d.socket = s
  <2>1. d.socket = s
    BY <1>0 DEF Dialling, TypeInv, InstanceType
  <2> QED
    BY <1>0, <2>1, DiallingType DEF SocketName
<1> HIDE DEF d
<1>5. r \in InstanceType /\ r.socket = s
  <2>1. r \in InstanceType
    BY <1>3, <1>4, RequestsTakenType
  <2> QED
    BY <1>4, <2>1 DEF RequestsTaken, InstanceType
<1> HIDE DEF r
<1>6. Client(r, id).socket = s /\ Client(r, id).active_mode = "MODE_CLIENT"
  BY <1>5 DEF Client, InstanceType
<1>7. \A v \in User : Listed(Client(r, id), v) <= pending_connection_requests[s][v]
  BY <1>3, <1>6 DEF Listed, IsHost
<1>8. UsedLinks(link)
  <2>1. link' = [link EXCEPT ![s][u] = Sent(link[s][u])]
    BY DEF CreateClient
  <2> QED
    BY <1>0, <2>1, OneLinkUsed DEF Used
<1>9. M!RegisterPeer(p, s)
  BY DEF CreateClient
<1>10. instance'[p].socket = s /\ \A q \in Peer \ {p} : instance'[q] = instance[q]
  BY <1>0, <1>1, <1>6, NotTouched
<1>11. OnceEverywhere'
  BY <1>1, <1>2, <1>7, <1>8, <1>9, RegisteringOnce DEF RequestInv
<1> QED
  BY <1>10, <1>11

----------------------------------------------------------------------------
\* Steps that dispatch a notification

AtHead(s, u) == Head(link[s][u].notices)

Counted(s, u, notice) ==
    CASE notice = "request"     -> Waiting(s, u)' <= Waiting(s, u) + 1
      [] notice = "established" -> Waiting(s, u)' <= Waiting(s, u)
      [] OTHER                  -> Waiting(s, u)' = 0 \/ Waiting(s, u)' + 1 <= Waiting(s, u)

LEMMA DispatchedLinks ==
  ASSUME TypeInv, NEW s \in Socket, NEW u \in User, link[s][u].notices # << >>
  PROVE  /\ LinkDispatched(s, u) \in Links /\ LinkDispatched(s, u)[s][u] = Dispatched(link[s][u])
         /\ \A t \in Socket, v \in User : <<t, v>> # <<s, u>> => LinkDispatched(s, u)[t][v] = link[t][v]
<1>1. Dispatched(link[s][u]) \in Link
  BY LinkType DEF TypeInv
<1> QED
  BY <1>1 DEF LinkDispatched, TypeInv, Links

LEMMA TickOnce ==
  ASSUME PeerInv, PeerInv', OnceEverywhere, NEW s \in Socket, NEW u \in User, link[s][u].notices # << >>,
         NEW notice \in Notice, AtHead(s, u) = notice, UsedLinks(LinkDispatched(s, u)), Counted(s, u, notice),
         \A t \in Socket, v \in User : <<t, v>> # <<s, u>> => Waiting(t, v)' <= Waiting(t, v)
  PROVE  OnceEverywhere'
<1> SUFFICES ASSUME NEW t \in Socket, NEW v \in User PROVE OneAtOnce(link'[t][v], Waiting(t, v)')
  BY DEF OnceEverywhere, OneAtOnce, Requests, Closings
<1>0. TypeInv
  BY DEF PeerInv
<1>1. Waiting(t, v) \in Nat /\ Waiting(t, v)' \in Nat
  BY WaitingType, WaitingTypeNext DEF WaitingAreNumbers
<1>2. link[t][v] \in Link /\ OneAtOnce(link[t][v], Waiting(t, v))
  BY <1>0 DEF TypeInv, OnceEverywhere
<1>3. CASE <<t, v>> = <<s, u>>
  <2>0. t = s /\ v = u
    BY <1>3
  <2>1. \/ notice = "request" /\ Waiting(t, v)' <= Waiting(t, v) + 1
        \/ notice = "established" /\ Waiting(t, v)' <= Waiting(t, v)
        \/ /\ notice \in {"closed_by_local_user", "closed_by_remote"}
           /\ Waiting(t, v)' = 0 \/ Waiting(t, v)' + 1 <= Waiting(t, v)
    BY <2>0 DEF Counted, Notice
  <2>2. Head(link[t][v].notices) = notice /\ link[t][v].notices # << >>
    BY <2>0 DEF AtHead
  <2>3. Dispatched(link[t][v]) \in Link /\ OneAtOnce(Dispatched(link[t][v]), Waiting(t, v)')
    BY <1>1, <1>2, <2>1, <2>2, DispatchedOnce
  <2>4. link'[t][v] \in Used(Dispatched(link[t][v]))
    BY <1>0, <2>0, DispatchedLinks DEF UsedLinks
  <2> QED
    BY <1>1, <2>3, <2>4, UsedOnceMore
<1>4. CASE <<t, v>> # <<s, u>>
  <2>1. link'[t][v] \in Used(link[t][v])
    BY <1>0, <1>4, DispatchedLinks DEF UsedLinks
  <2>2. Waiting(t, v)' <= Waiting(t, v)
    BY <1>4
  <2>3. OneAtOnce(link[t][v], Waiting(t, v)')
    BY <1>1, <1>2, <2>2, FewerWait
  <2> QED
    BY <1>1, <1>2, <2>1, <2>3, UsedOnceMore
<1> QED
  BY <1>3, <1>4

LEMMA DispatchedUnused ==
  ASSUME NEW s, NEW u, link' = LinkDispatched(s, u)
  PROVE  UsedLinks(LinkDispatched(s, u))
BY DEF UsedLinks, Used

\* With no instance registered, the mediator's list alone counts.
LEMMA HeldOnce ==
  ASSUME RegisteredInv, PeerInv', OnceEverywhere, NEW s \in Socket, NEW u \in User,
         OnHeldConnectionRequest(s, u)
         \/ \E notice \in {"closed_by_local_user", "closed_by_remote"} : OnUnregisteredConnectionClosed(s, u, notice)
  PROVE  OnceEverywhere'
<1>0. PeerInv /\ TypeInv /\ M!TypeOK
  BY DEF RegisteredInv, PeerInv, RefinementInv
<1>1. PICK notice \in Notice, k \in Nat :
         /\ link[s][u].notices # << >> /\ AtHead(s, u) = notice /\ s \notin DOMAIN active_peers
         /\ UNCHANGED <<instance, active_peers>> /\ link' = LinkDispatched(s, u)
         /\ pending_connection_requests' = [pending_connection_requests EXCEPT ![s][u] = k]
         /\ \/ notice = "request" /\ k = pending_connection_requests[s][u] + 1
            \/ /\ notice \in {"closed_by_local_user", "closed_by_remote"}
               /\ k = IF pending_connection_requests[s][u] > 0 THEN pending_connection_requests[s][u] - 1 ELSE 0
  <2>1. pending_connection_requests[s][u] \in Nat
    BY <1>0 DEF M!TypeOK
  <2>2. CASE OnHeldConnectionRequest(s, u)
    <3>1. pending_connection_requests[s][u] + 1 \in Nat /\ "request" \in Notice
      BY <2>1 DEF Notice
    <3> QED
      BY <2>2, <3>1 DEF OnHeldConnectionRequest, Notified, M!HoldConnectionRequest, AtHead
  <2>3. ASSUME NEW notice \in {"closed_by_local_user", "closed_by_remote"},
               OnUnregisteredConnectionClosed(s, u, notice)
        PROVE  /\ notice \in Notice /\ link[s][u].notices # << >> /\ AtHead(s, u) = notice
               /\ s \notin DOMAIN active_peers
               /\ UNCHANGED <<instance, active_peers>> /\ link' = LinkDispatched(s, u)
               /\ pending_connection_requests' = [pending_connection_requests EXCEPT ![s][u] =
                     IF pending_connection_requests[s][u] > 0 THEN pending_connection_requests[s][u] - 1 ELSE 0]
    BY <2>3 DEF OnUnregisteredConnectionClosed, Notified, M!OnRemoteConnectionClosed, AtHead, Notice
  <2>4. (IF pending_connection_requests[s][u] > 0 THEN pending_connection_requests[s][u] - 1 ELSE 0) \in Nat
    BY <2>1
  <2> QED
    BY <2>2, <2>3, <2>4
<1>2. /\ pending_connection_requests'[s][u] = k
      /\ \A t \in Socket, v \in User : <<t, v>> # <<s, u>> =>
            pending_connection_requests'[t][v] = pending_connection_requests[t][v]
  BY <1>0, <1>1 DEF M!TypeOK
<1>3. \A t \in Socket, v \in User : <<t, v>> # <<s, u>> => Waiting(t, v)' <= Waiting(t, v)
  <2> SUFFICES ASSUME NEW t \in Socket, NEW v \in User, <<t, v>> # <<s, u>> PROVE Waiting(t, v)' <= Waiting(t, v)
    OBVIOUS
  <2>1. Waiting(t, v)' = Waiting(t, v)
    BY <1>1, <1>2 DEF Waiting
  <2>2. Waiting(t, v) \in Nat
    BY <1>0, WaitingType DEF WaitingAreNumbers
  <2> QED
    BY <2>1, <2>2
<1>4. Waiting(s, u) = pending_connection_requests[s][u] /\ Waiting(s, u)' = k /\ Waiting(s, u) \in Nat
  BY <1>0, <1>1, <1>2, WaitingType DEF Waiting, WaitingAreNumbers
<1>5. Counted(s, u, notice)
  BY <1>1, <1>4 DEF Counted
<1>6. UsedLinks(LinkDispatched(s, u))
  BY <1>1, DispatchedUnused
<1> QED
  BY <1>0, <1>1, <1>3, <1>5, <1>6, TickOnce

LEMMA RequestOnce ==
  ASSUME RegisteredInv, PeerInv', OnceEverywhere, NEW s \in Socket, NEW u \in User, OnConnectionRequest(s, u)
  PROVE  OnceEverywhere'
<1>0. PeerInv /\ TypeInv /\ M!TypeOK
  BY DEF RegisteredInv, PeerInv, RefinementInv
<1>1. /\ s \in DOMAIN active_peers /\ link[s][u].notices # << >> /\ AtHead(s, u) = "request"
      /\ UNCHANGED <<active_peers, pending_connection_requests>>
  BY DEF OnConnectionRequest, Notified, AtHead, mediatorVars
<1>2. PICK p \in Peer : p = active_peers[s] /\ instance[p].socket = s
  BY <1>1, RegistryFacts DEF RegisteredInv, Registered
<1> DEFINE x == instance[p]
           asked == [NoRequests EXCEPT ![u] = 1]
           y == RequestsTaken(x, asked)
<1>3. instance' = [instance EXCEPT ![p] = y] /\ link' = RequestsAccepted(LinkDispatched(s, u), x, x.socket, asked)
  BY <1>2 DEF OnConnectionRequest
<1>4. \A v \in User : asked[v] = IF v = u THEN 1 ELSE 0
  BY DEF NoRequests
<1>5. x \in InstanceType
  BY <1>0, InstanceFacts
<1> HIDE DEF x, asked
<1>6. \A v \in User : Listed(y, v) <= Listed(x, v) + asked[v]
  <2>1. x.requests \in [User -> Nat]
    BY <1>5 DEF InstanceType
  <2>2. CASE y = x
    BY <1>4, <2>1, <2>2 DEF Listed
  <2>3. CASE y = [x EXCEPT !.requests = [v \in User |-> x.requests[v] + asked[v]]]
    <3>1. y.requests = [v \in User |-> x.requests[v] + asked[v]] /\ y.active_mode = x.active_mode
      BY <1>5, <2>3 DEF InstanceType
    <3> HIDE DEF y
    <3> QED
      BY <1>4, <2>1, <3>1 DEF Listed, IsHost
  <2> QED
    BY <2>2, <2>3 DEF RequestsTaken
<1> HIDE DEF y
<1>7. instance'[p] = y /\ \A q \in Peer \ {p} : instance'[q] = instance[q]
  BY <1>0, <1>3, NotTouched
<1>8. Waiting(s, u)' <= Waiting(s, u) + 1
  BY <1>1, <1>2, <1>4, <1>6, <1>7 DEF Waiting, x
<1>9. \A t \in Socket, v \in User : <<t, v>> # <<s, u>> => Waiting(t, v)' <= Waiting(t, v)
  <2> SUFFICES ASSUME NEW t \in Socket, NEW v \in User, <<t, v>> # <<s, u>> PROVE Waiting(t, v)' <= Waiting(t, v)
    OBVIOUS
  <2>0. Waiting(t, v) \in Nat
    BY <1>0, WaitingType DEF WaitingAreNumbers
  <2>1. CASE t = s
    <3>1. v # u /\ asked[v] = 0
      BY <1>4, <2>1
    <3>2. Waiting(t, v) = Listed(x, v) /\ Waiting(t, v)' = Listed(y, v)
      BY <1>1, <1>2, <1>7, <2>1 DEF Waiting, x
    <3> QED
      BY <1>6, <2>0, <3>1, <3>2
  <2>2. CASE t # s
    <3>1. t \in DOMAIN active_peers => active_peers[t] \in Peer /\ active_peers[t] # p
      BY <1>2, <2>2, RegistryFacts DEF RegisteredInv, Registered
    <3>2. Waiting(t, v)' = Waiting(t, v)
      BY <1>1, <1>7, <3>1 DEF Waiting
    <3> QED
      BY <2>0, <3>2
  <2> QED
    BY <2>1, <2>2
<1>10. UsedLinks(LinkDispatched(s, u))
  BY <1>0, <1>1, <1>3, DispatchedLinks, RequestsAcceptedUsed
<1>11. Counted(s, u, "request") /\ "request" \in Notice
  BY <1>8 DEF Counted, Notice
<1> QED
  BY <1>0, <1>1, <1>9, <1>10, <1>11, TickOnce

LEMMA EstablishedOnce ==
  ASSUME RegisteredInv, PeerInv', OnceEverywhere, NEW s \in Socket, NEW u \in User, OnPeerConnectionEstablished(s, u)
  PROVE  OnceEverywhere'
<1>0. PeerInv /\ TypeInv
  BY DEF RegisteredInv, PeerInv
<1>1. /\ link[s][u].notices # << >> /\ AtHead(s, u) = "established" /\ "established" \in Notice
      /\ UNCHANGED <<instance, active_peers, pending_connection_requests>>
  BY DEF OnPeerConnectionEstablished, Notified, AtHead, mediatorVars, Notice
<1>2. ASSUME NEW t \in Socket, NEW v \in User PROVE Waiting(t, v)' <= Waiting(t, v)
  <2>1. Waiting(t, v)' = Waiting(t, v)
    BY <1>1 DEF Waiting
  <2>2. Waiting(t, v) \in Nat
    BY <1>0, WaitingType DEF WaitingAreNumbers
  <2> QED
    BY <2>1, <2>2
<1>3. UsedLinks(LinkDispatched(s, u))
  <2>1. LinkDispatched(s, u) \in Links
    BY <1>0, <1>1, DispatchedLinks
  <2>2. CASE link' = LinkDispatched(s, u)
    BY <2>2, DispatchedUnused
  <2>3. CASE \E t : link' = [LinkDispatched(s, u) EXCEPT ![t][u] = Sent(@)]
    <3>1. PICK t : link' = [LinkDispatched(s, u) EXCEPT ![t][u] = Sent(LinkDispatched(s, u)[t][u])]
      BY <2>3
    <3> QED
      BY <2>1, <3>1, OneLinkUsed DEF Used
  <2> QED
    BY <2>2, <2>3 DEF OnPeerConnectionEstablished
<1>4. Counted(s, u, "established")
  BY <1>2 DEF Counted
<1> QED
  BY <1>0, <1>1, <1>2, <1>3, <1>4, TickOnce

LEMMA ClosedOnce ==
  ASSUME RegisteredInv, PeerInv', OnceEverywhere, NEW s \in Socket, NEW u \in User,
         NEW notice \in {"closed_by_local_user", "closed_by_remote"}, OnRemoteConnectionClosed(s, u, notice)
  PROVE  OnceEverywhere' /\ \A p \in Peer : Fewer(instance[p], instance'[p])
<1>0. PeerInv /\ TypeInv /\ M!TypeOK /\ M!NoRequestHeldBack
  BY DEF RegisteredInv, PeerInv, RefinementInv
<1>1. s \in DOMAIN active_peers /\ link[s][u].notices # << >> /\ AtHead(s, u) = notice /\ notice \in Notice
  BY DEF OnRemoteConnectionClosed, Notified, AtHead, Notice
<1>2. PICK p \in Peer : p = active_peers[s] /\ instance[p].socket = s
  BY <1>1, RegistryFacts DEF RegisteredInv, Registered
<1> DEFINE x == instance[p]
           w == WithoutRemoteUser(x, u)
           y == IF LostServer(x, notice) THEN Reset(w) ELSE w
<1>3. instance' = [instance EXCEPT ![p] = y]
  BY <1>2 DEF OnRemoteConnectionClosed
<1>4. x \in InstanceType /\ w \in InstanceType
  BY <1>0, InstanceFacts, WithoutRemoteUserType
<1>5. Fewer(x, y) /\ (IsHost(y) => y.requests[u] = 0 \/ y.requests[u] + 1 <= x.requests[u])
  <2>1. w.active_mode = x.active_mode /\ w.requests = [x.requests EXCEPT ![u] = IF @ > 0 THEN @ - 1 ELSE 0]
    BY <1>4 DEF WithoutRemoteUser, InstanceType
  <2>2. x.requests \in [User -> Nat]
    BY <1>4 DEF InstanceType
  <2>3. CASE LostServer(x, notice)
    <3>1. Reset(w).active_mode = "MODE_NONE"
      BY <1>4 DEF Reset, InstanceType
    <3>2. Fewer(x, Reset(w))
      BY <1>4, FewerReset
    <3> QED
      BY <2>3, <3>1, <3>2 DEF IsHost
  <2>4. CASE ~LostServer(x, notice)
    <3> HIDE DEF x, w
    <3>1. Fewer(x, w)
      BY <2>1, <2>2 DEF Fewer, IsHost
    <3>2. w.requests[u] = 0 \/ w.requests[u] + 1 <= x.requests[u]
      BY <2>1, <2>2
    <3> QED
      BY <2>4, <3>1, <3>2
  <2> QED
    BY <2>3, <2>4
<1> HIDE DEF y
<1>6. \A q \in Peer : Fewer(instance[q], instance'[q])
  BY <1>0, <1>3, <1>5, OneFewer
<1>7. instance'[p] = y /\ \A q \in Peer \ {p} : instance'[q] = instance[q]
  BY <1>0, <1>3, NotTouched
<1>8. /\ DOMAIN active_peers' \in {DOMAIN active_peers, DOMAIN active_peers \ {s}}
      /\ \A t \in DOMAIN active_peers' : active_peers'[t] = active_peers[t]
  <2>1. UnregisterIf(TRUE, s) \/ UNCHANGED active_peers
    BY <1>1, <1>2 DEF OnRemoteConnectionClosed, M!ClearedPacketsFromRemoteUser
  <2>2. CASE UnregisterIf(TRUE, s)
    BY <2>2, UnregisterIfFacts
  <2>3. CASE UNCHANGED active_peers
    BY <2>3
  <2> QED
    BY <2>1, <2>2, <2>3
<1>9. /\ \A t \in Socket, v \in User : <<t, v>> # <<s, u>> =>
            pending_connection_requests'[t][v] = pending_connection_requests[t][v]
      /\ \A v \in User : pending_connection_requests[s][v] = 0 /\ pending_connection_requests'[s][v] = 0
  <2>1. pending_connection_requests' =
           [pending_connection_requests EXCEPT ![s][u] = IF @ > 0 THEN @ - 1 ELSE 0]
    BY DEF OnRemoteConnectionClosed
  <2>2. \A v \in User : pending_connection_requests[s][v] = 0
    BY <1>0, <1>1 DEF M!NoRequestHeldBack
  <2> QED
    BY <1>0, <2>1, <2>2 DEF M!TypeOK
<1>10. \A v \in User : Waiting(s, v)' = 0 \/ Waiting(s, v)' = Listed(y, v)
  BY <1>2, <1>7, <1>8, <1>9 DEF Waiting
<1>11. \A v \in User : Waiting(s, v) = Listed(x, v) /\ Waiting(s, v) \in Nat
  BY <1>0, <1>1, <1>2, WaitingType DEF Waiting, WaitingAreNumbers
<1>12. Waiting(s, u)' = 0 \/ Waiting(s, u)' + 1 <= Waiting(s, u)
  <2> HIDE DEF x
  <2>1. Listed(y, u) = 0 \/ Listed(y, u) + 1 <= Listed(x, u)
    BY <1>5 DEF Listed, Fewer
  <2> QED
    BY <1>10, <1>11, <2>1
<1>13. \A t \in Socket, v \in User : <<t, v>> # <<s, u>> => Waiting(t, v)' <= Waiting(t, v)
  <2> SUFFICES ASSUME NEW t \in Socket, NEW v \in User, <<t, v>> # <<s, u>> PROVE Waiting(t, v)' <= Waiting(t, v)
    OBVIOUS
  <2>0. Waiting(t, v) \in Nat
    BY <1>0, WaitingType DEF WaitingAreNumbers
  <2>1. CASE t = s
    <3> HIDE DEF x
    <3>1. Listed(y, v) <= Listed(x, v)
      <4>1. IsHost(y) => IsHost(x) /\ y.requests[v] <= x.requests[v]
        BY <1>5 DEF Fewer
      <4>2. Listed(x, v) \in Nat
        BY <1>11
      <4> QED
        BY <4>1, <4>2 DEF Listed
    <3> QED
      BY <1>10, <1>11, <2>0, <2>1, <3>1
  <2>2. CASE t # s
    <3>1. t \in DOMAIN active_peers => active_peers[t] \in Peer /\ active_peers[t] # p
      BY <1>2, <2>2, RegistryFacts DEF RegisteredInv, Registered
    <3>2. t \in DOMAIN active_peers' <=> t \in DOMAIN active_peers
      BY <1>8, <2>2
    <3>3. Waiting(t, v)' = Waiting(t, v)
      BY <1>7, <1>8, <1>9, <2>2, <3>1, <3>2 DEF Waiting
    <3> QED
      BY <2>0, <3>3
  <2> QED
    BY <2>1, <2>2
<1>14. UsedLinks(LinkDispatched(s, u))
  <2>1. link' = SocketClosed(LinkDispatched(s, u), s) \/ link' = LinkDispatched(s, u)
    BY <1>2 DEF OnRemoteConnectionClosed
  <2>2. LinkDispatched(s, u) \in Links
    BY <1>0, <1>1, DispatchedLinks
  <2> QED
    BY <2>1, <2>2, DispatchedUnused, SocketClosedUsed
<1>15. Counted(s, u, notice)
  BY <1>12 DEF Counted
<1>16. OnceEverywhere'
  BY <1>0, <1>1, <1>13, <1>14, <1>15, TickOnce
<1> QED
  BY <1>6, <1>16

----------------------------------------------------------------------------
\* The theorems

\* The remote side asks only where there is no connection.
LEMMA RemoteStepOnce ==
  ASSUME PeerInv, PeerInv', OnceEverywhere, NEW s \in Socket, NEW u \in User, RemoteStep(s, u)
  PROVE  OnceEverywhere'
<1> SUFFICES ASSUME NEW t \in Socket, NEW v \in User PROVE OneAtOnce(link'[t][v], Waiting(t, v)')
  BY DEF OnceEverywhere, OneAtOnce, Requests, Closings
<1> USE DEF Status, Notice
<1>1. Waiting(t, v)' = Waiting(t, v)
  BY DEF RemoteStep, Waiting, mediatorVars
<1>2. Waiting(t, v) \in Nat
  BY WaitingType DEF WaitingAreNumbers
<1>3. link[t][v] \in Link /\ OneAtOnce(link[t][v], Waiting(t, v))
  BY DEF PeerInv, TypeInv, OnceEverywhere
<1>4. CASE link'[t][v] = link[t][v]
  BY <1>1, <1>3, <1>4
<1>5. CASE link[t][v].status = "none" /\ link'[t][v] = RemoteRequested(link[t][v])
  <2>1. OneAtOnce(Moved(link[t][v], "incoming", "request"), Waiting(t, v))
    BY <1>2, <1>3, <1>5, MovedOnce
  <2> QED
    BY <1>1, <1>5, <2>1 DEF RemoteRequested
<1>6. CASE link'[t][v] = RemoteAccepted(link[t][v])
  <2>1. OneAtOnce(Moved(link[t][v], "open", "established"), Waiting(t, v))
    BY <1>2, <1>3, MovedOnce
  <2> QED
    BY <1>1, <1>6, <2>1 DEF RemoteAccepted
<1>7. CASE link'[t][v] = RemoteClosed(link[t][v])
  <2>1. OneAtOnce(Moved(link[t][v], "none", "closed_by_remote"), Waiting(t, v))
    BY <1>2, <1>3, MovedOnce
  <2> QED
    BY <1>1, <1>7, <2>1 DEF RemoteClosed
<1>8. /\ <<t, v>> # <<s, u>> => link'[t][v] = link[t][v]
      /\ <<t, v>> = <<s, u>> => \/ link[t][v].status = "none" /\ link'[t][v] = RemoteRequested(link[t][v])
                                \/ link'[t][v] = RemoteAccepted(link[t][v])
                                \/ link'[t][v] = RemoteClosed(link[t][v])
  BY DEF RemoteStep, PeerInv, TypeInv
<1> QED
  BY <1>4, <1>5, <1>6, <1>7, <1>8

LEMMA NothingListedKept ==
  ASSUME ~Reuses, RegisteredInv, PeerInv', [Next]_vars, NothingListed,
         \A p \in Peer : instance[p].socket = NoSocket /\ instance'[p].socket = NoSocket =>
                            Fewer(instance[p], instance'[p])
  PROVE  NothingListed'
<1> SUFFICES ASSUME NEW p \in Peer, instance'[p].socket = NoSocket PROVE instance'[p].requests = NoRequests
  BY DEF NothingListed
<1>1. IdentityStep(p)
  BY NextIdentity DEF RegisteredInv
<1>2. instance[p].socket = NoSocket
  BY <1>1 DEF IdentityStep, KeptStep, Shrunk, Joined, Created, MayCreate
<1>3. Fewer(instance[p], instance'[p]) /\ instance[p].requests = NoRequests
  BY <1>2 DEF NothingListed
<1>4. instance'[p].requests \in [User -> Nat]
  BY DEF PeerInv, TypeInv, InstanceType
<1> QED
  BY <1>3, <1>4 DEF Fewer, NoRequests

LEMMA QuietRequestInv ==
  ASSUME ~Reuses, RegisteredInv, PeerInv', [Next]_vars, RequestInv, Quiet
  PROVE  RequestInv'
BY QuietOnce, NothingListedKept DEF RequestInv, Quiet

LEMMA CreationRequestInv ==
  ASSUME ~Reuses, RegisteredInv, PeerInv', [Next]_vars, RequestInv, NEW p \in Peer,
         \/ \E s \in Socket, mode \in {"MODE_SERVER", "MODE_MESH"} : CreateHost(p, s, mode)
         \/ \E s \in Socket, u \in User : CreateClient(p, s, u)
  PROVE  RequestInv'
<1>1. /\ OnceEverywhere'
      /\ instance'[p].socket \in Socket /\ \A q \in Peer \ {p} : instance'[q] = instance[q]
  BY CreateHostOnce, CreateClientOnce
<1>2. \A q \in Peer \ {p} : Fewer(instance[q], instance'[q])
  BY <1>1, FewerSame DEF RegisteredInv, PeerInv, TypeInv
<1>3. NothingListed'
  BY <1>1, <1>2, NothingListedKept, NoneAssumption DEF RequestInv
<1> QED
  BY <1>1, <1>3 DEF RequestInv

LEMMA TickRequestInv ==
  ASSUME ~Reuses, RegisteredInv, PeerInv', [Next]_vars, RequestInv, NEW s \in Socket, NEW u \in User, Tick(s, u)
  PROVE  RequestInv'
<1>0. TypeInv /\ OnceEverywhere /\ NothingListed
  BY DEF RegisteredInv, PeerInv, RequestInv
<1>1. CASE OnHeldConnectionRequest(s, u)
           \/ \E notice \in {"closed_by_local_user", "closed_by_remote"} : OnUnregisteredConnectionClosed(s, u, notice)
  <2>1. UNCHANGED instance
    BY <1>1 DEF OnHeldConnectionRequest, OnUnregisteredConnectionClosed
  <2> QED
    BY <1>0, <1>1, <2>1, HeldOnce, NoneFewer, NothingListedKept DEF RequestInv
<1>2. CASE OnPeerConnectionEstablished(s, u)
  <2>1. UNCHANGED instance
    BY <1>2 DEF OnPeerConnectionEstablished
  <2> QED
    BY <1>0, <1>2, <2>1, EstablishedOnce, NoneFewer, NothingListedKept DEF RequestInv
<1>3. CASE OnConnectionRequest(s, u)
  <2>1. PICK p \in Peer : p = active_peers[s] /\ instance[p].socket = s
    BY <1>3, RegistryFacts DEF OnConnectionRequest, RegisteredInv, Registered
  <2>2. \A q \in Peer \ {p} : instance'[q] = instance[q]
    BY <1>0, <1>3, <2>1 DEF OnConnectionRequest, TypeInv
  <2>3. \A q \in Peer \ {p} : Fewer(instance[q], instance'[q])
    BY <1>0, <2>2, FewerSame DEF TypeInv
  <2>4. NothingListed'
    BY <1>0, <2>1, <2>3, NothingListedKept, NoneAssumption
  <2> QED
    BY <1>0, <1>3, <2>4, RequestOnce DEF RequestInv
<1>4. CASE \E notice \in {"closed_by_local_user", "closed_by_remote"} : OnRemoteConnectionClosed(s, u, notice)
  BY <1>0, <1>4, ClosedOnce, NothingListedKept DEF RequestInv
<1> QED
  BY <1>1, <1>2, <1>3, <1>4 DEF Tick

LEMMA RequestInvStep ==
  ASSUME ~Reuses, ~LogsOut, RegisteredInv, PeerInv', RequestInv, [Next]_vars
  PROVE  RequestInv'
<1>0. TypeInv /\ M!TypeOK /\ PeerInv
  BY DEF RegisteredInv, PeerInv, RefinementInv
<1>1. ASSUME UNCHANGED <<instance, link, active_peers, pending_connection_requests>> PROVE RequestInv'
  <2>1. Quiet
    BY <1>0, <1>1, NoneFewer, LinksUnused, RegistryUnused, HeldUnused DEF Quiet
  <2> QED
    BY <2>1, QuietRequestInv
<1>2. ASSUME NEW p \in Peer, Application(p) PROVE RequestInv'
  <2>1. CASE \/ \E s \in Socket, mode \in {"MODE_SERVER", "MODE_MESH"} : CreateHost(p, s, mode)
             \/ \E s \in Socket, u \in User : CreateClient(p, s, u)
    BY <2>1, CreationRequestInv
  <2>2. CASE ~(\/ \E s \in Socket, mode \in {"MODE_SERVER", "MODE_MESH"} : CreateHost(p, s, mode)
               \/ \E s \in Socket, u \in User : CreateClient(p, s, u))
    <3>1. Quiet
      BY <1>2, <2>2, ApplicationQuiet
    <3> QED
      BY <3>1, QuietRequestInv
  <2> QED
    BY <2>1, <2>2
<1>3. CASE PollStep
  BY <1>3, PollStepQuiet, QuietRequestInv
<1>4. ASSUME NEW s \in Socket, NEW u \in User, RemoteStep(s, u) PROVE RequestInv'
  <2>1. UNCHANGED instance
    BY <1>4 DEF RemoteStep
  <2> QED
    BY <1>0, <1>4, <2>1, RemoteStepOnce, NoneFewer, NothingListedKept DEF RequestInv
<1>5. ASSUME NEW s, NEW u, NEW e, NEW i, RemotePacket(s, u, e, i) PROVE RequestInv'
  BY <1>1, <1>5 DEF RemotePacket, M!PacketArrives, M!registry
<1>6. ASSUME NEW p \in Peer, Poll(p) PROVE RequestInv'
  BY <1>1, <1>6 DEF Poll
<1>7. CASE Frame \/ FrameReceives \/ Login \/ UNCHANGED vars
  <2>1. UNCHANGED <<instance, link, active_peers, pending_connection_requests>>
    BY <1>7 DEF Frame, FrameReceives, Login, vars, mediatorVars, M!OnProcessFrame, M!ReceivePacket,
                M!NoPacketLeft, M!DropPacket, M!FilePacket, M!Login, M!registry
  <2> QED
    BY <1>1, <2>1
<1> QED
  BY <1>2, <1>3, <1>4, <1>5, <1>6, <1>7, TickRequestInv DEF Next

LEMMA InitRequestInv == Init => RequestInv
<1> SUFFICES ASSUME Init PROVE RequestInv
  OBVIOUS
<1>1. /\ active_peers = << >> /\ pending_connection_requests = [s \in Socket |-> [u \in User |-> 0]]
      /\ instance = [p \in Peer |-> NewInstance] /\ link = [s \in Socket |-> [u \in User |-> NoLink]]
  BY DEF Init, M!Init
<1>2. \A s \in Socket, u \in User : Waiting(s, u) = 0 /\ link[s][u] = NoLink
  BY <1>1 DEF Waiting
<1>3. Requests(NoLink, 0) = {}
  BY DEF Requests, NoLink
<1>4. OnceEverywhere
  BY <1>2, <1>3 DEF OnceEverywhere, OneAtOnce
<1> QED
  BY <1>1, <1>4 DEF RequestInv, NothingListed, NewInstance

LEMMA RequestInvCorrect ==
  ASSUME ~Reuses, HostsAreAlone, ~LogsOut
  PROVE  Spec => [](RequestInv /\ RegisteredInv)
<1>1. RegisteredInv /\ PeerInv' /\ RequestInv /\ [Next]_vars => RequestInv'
  BY RequestInvStep
<1> QED
  BY <1>1, InitRequestInv, RegisteredInvCorrect, PeerInvCorrect, PTL DEF Spec

\* Where an active host is registered, its list is what waits.
LEMMA ListedWaits ==
  ASSUME RegisteredInv, NEW s \in Socket, NEW u \in User, NEW p \in Peer,
         IsHost(instance[p]), instance[p].socket = s
  PROVE  /\ s \in DOMAIN active_peers /\ active_peers[s] = p
         /\ Waiting(s, u) = instance[p].requests[u] /\ pending_connection_requests[s][u] = 0
<1>1. s \in DOMAIN active_peers /\ active_peers[s] = p
  BY DEF RegisteredInv, Registered, ActiveIsRegistered, IsActive, IsHost
<1> QED
  BY <1>1 DEF Waiting, Listed, RegisteredInv, PeerInv, RefinementInv, M!NoRequestHeldBack

\* Whether a request was held by the mediator, handed to the host that took the
\* name or notified to it, it is never listed twice, however often the user
\* asks, gives up and asks again before the notifications are dispatched.
THEOREM RequestsListedOnce ==
  ASSUME ~Reuses, HostsAreAlone, ~LogsOut
  PROVE  Spec => []RequestListedOnce
<1>1. RequestInv /\ RegisteredInv => RequestListedOnce
  <2> SUFFICES ASSUME RequestInv, RegisteredInv, NEW s \in Socket, NEW u \in User
               PROVE  LET at == {p \in Peer : /\ IsHost(instance[p]) /\ instance[p].socket = s
                                              /\ instance[p].requests[u] > 0} IN
                      /\ Cardinality(at) + pending_connection_requests[s][u] <= 1
                      /\ \A p \in at : instance[p].requests[u] = 1
    BY DEF RequestListedOnce
  <2> DEFINE at == {p \in Peer : IsHost(instance[p]) /\ instance[p].socket = s /\ instance[p].requests[u] > 0}
  <2>1. Waiting(s, u) \in Nat /\ Waiting(s, u) <= 1
    BY WaitingType DEF WaitingAreNumbers, RegisteredInv, RequestInv, OnceEverywhere, OneAtOnce
  <2>2. \A p \in at : /\ active_peers[s] = p /\ Waiting(s, u) = instance[p].requests[u]
                      /\ pending_connection_requests[s][u] = 0 /\ instance[p].requests[u] > 0
    BY ListedWaits
  <2> HIDE DEF at
  <2>3. CASE at = {}
    <3>1. Cardinality(at) = 0
      BY <2>3, FS_EmptySet
    <3>2. pending_connection_requests[s][u] \in {0, Waiting(s, u)}
      BY DEF Waiting, RegisteredInv, PeerInv, RefinementInv, M!NoRequestHeldBack
    <3> QED
      BY <2>1, <2>3, <3>1, <3>2 DEF at
  <2>4. CASE at # {}
    <3>1. PICK p \in at : TRUE
      BY <2>4
    <3>2. at = {p}
      BY <2>2, <3>1
    <3>3. Cardinality(at) = 1
      BY <3>2, FS_Singleton
    <3>4. instance[p].requests[u] = 1 /\ pending_connection_requests[s][u] = 0
      BY <2>1, <2>2, <3>1
    <3> QED
      BY <3>2, <3>3, <3>4 DEF at
  <2> QED
    BY <2>3, <2>4
<1> QED
  BY <1>1, RequestInvCorrect, PTL

\* A request stays listed only while its connection exists or a notification of
\* its end is under way: nobody is asked about what can no longer be answered.
THEOREM RequestsStayLive ==
  ASSUME ~Reuses, HostsAreAlone, ~LogsOut
  PROVE  Spec => []RequestsAreLive
<1>1. RequestInv /\ RegisteredInv => RequestsAreLive
  <2> SUFFICES ASSUME RequestInv, RegisteredInv, NEW s \in Socket, NEW u \in User,
                      \/ pending_connection_requests[s][u] > 0
                      \/ \E p \in Peer : /\ IsHost(instance[p]) /\ instance[p].socket = s
                                         /\ instance[p].requests[u] > 0,
                      link[s][u].status = "none"
               PROVE  link[s][u].notices # << >>
    BY DEF RequestsAreLive
  <2>1. Waiting(s, u) > 0
    <3>1. CASE \E p \in Peer : IsHost(instance[p]) /\ instance[p].socket = s /\ instance[p].requests[u] > 0
      BY <3>1, ListedWaits
    <3>2. CASE pending_connection_requests[s][u] > 0
      BY <3>2 DEF Waiting, RegisteredInv, PeerInv, RefinementInv, M!NoRequestHeldBack
    <3> QED
      BY <3>1, <3>2
  <2>2. 0 \in Requests(link[s][u], Waiting(s, u))
    BY <2>1, Places
  <2>3. PICK i \in Closings(link[s][u]) : 0 < i
    BY <2>2 DEF RequestInv, OnceEverywhere, OneAtOnce
  <2> QED
    BY <2>3 DEF Closings
<1> QED
  BY <1>1, RequestInvCorrect, PTL
=================================================================================
