SPECIFICATION FairSpec
CONSTANTS
  Peer = {p1}
  Socket = {s1, s2}
  User = {u1}
  PeerId = {1}
  QueueLimit = {1, 2}
  DefaultQueueLimit = 2
  MaxArrivals = 3
  MaxHeld = 1
PROPERTIES
  SdkQueueDrains
