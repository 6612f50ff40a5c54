--------------------------- MODULE MCMultiplayerPeer ---------------------------
(***************************************************************************)
(* Instances of EOSMultiplayerPeer for TLC.                                *)
(***************************************************************************)
EXTENDS EOSMultiplayerPeer, TLC

CONSTANTS p1, p2

OneServer == (p1 :> {"MODE_SERVER"})
OneMesh == (p1 :> {"MODE_MESH"})
OneHost == (p1 :> {"MODE_SERVER", "MODE_MESH"})
TwoClients == (p1 :> {"MODE_CLIENT"}) @@ (p2 :> {"MODE_CLIENT"})
TwoServers == (p1 :> {"MODE_SERVER"}) @@ (p2 :> {"MODE_SERVER"})
AnyMode == (p1 :> {"MODE_SERVER", "MODE_CLIENT"}) @@ (p2 :> {"MODE_MESH"})

Users == Permutations(User)
UsersAndSockets == Permutations(User) \cup Permutations(Socket)
================================================================================
