------------------------------ MODULE MCMediator ------------------------------
(***************************************************************************)
(* Instances of EOSPacketPeerMediator for TLC.  Instances, sockets and     *)
(* users are interchangeable.                                              *)
(***************************************************************************)
EXTENDS EOSPacketPeerMediator, TLC

Symmetry == Permutations(Peer) \cup Permutations(Socket) \cup Permutations(User)
=============================================================================
