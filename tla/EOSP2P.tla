-------------------------------- MODULE EOSP2P --------------------------------
(***************************************************************************)
(* EXTERNAL: the EOS SDK's P2P interface, as src/gd_eos uses it.           *)
(*                                                                         *)
(* A link is what the SDK knows of one remote user on one socket name: the *)
(* state of the connection and the notifications about it that wait for    *)
(* the next EOS_Platform_Tick, oldest first.  Notifications of different   *)
(* links are not ordered among themselves.                                 *)
(***************************************************************************)
EXTENDS Sequences

Status == {"none", "incoming", "outgoing", "open"}
Notice == {"request", "established", "closed_by_local_user", "closed_by_remote"}
Link   == [status : Status, notices : Seq(Notice)]

NoLink == [status |-> "none", notices |-> << >>]

Moved(l, status, notice) == [status |-> status, notices |-> Append(l.notices, notice)]

\* EOS_P2P_SendPacket with delayed delivery and automatic acceptance: it asks
\* for a connection where there is none and accepts the one asked for.
Sent(l) ==
    CASE l.status = "none"     -> [l EXCEPT !.status = "outgoing"]
      [] l.status = "incoming" -> Moved(l, "open", "established")
      [] OTHER                 -> l

\* EOS_P2P_AcceptConnection.
Accepted(l) == IF l.status = "incoming" THEN Moved(l, "open", "established") ELSE l

\* EOS_P2P_CloseConnection; EOS_P2P_CloseConnections does it for a whole socket.
Closed(l) == IF l.status = "none" THEN l ELSE Moved(l, "none", "closed_by_local_user")

\* What the remote side does.
RemoteRequested(l) == Moved(l, "incoming", "request")
RemoteAccepted(l)  == Moved(l, "open", "established")
RemoteClosed(l)    == Moved(l, "none", "closed_by_remote")

\* The first notification has been dispatched.
Dispatched(l) == [l EXCEPT !.notices = Tail(@)]
===============================================================================
