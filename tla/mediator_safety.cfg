SPECIFICATION Spec
CONSTANTS
  Peer = {p1}
  Socket = {s1, s2}
  User = {u1, u2}
  PeerId = {1}
  QueueLimit = {0, 1, 2}
  DefaultQueueLimit = 2
  MaxArrivals = 3
  MaxHeld = 2
INVARIANTS
  TypeOK
  QueuesMatchPeers
  NoRequestHeldBack
  PeerIdPacketsFirst
  DeliveredInOrder
PROPERTIES
  QueuesBounded
  RegisteredPacketsAreFiled
  MailboxSpec
SYMMETRY Symmetry
