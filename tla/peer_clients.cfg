SPECIFICATION FairSpec
CONSTANTS
  p1 = p1
  p2 = p2
  Peer = {p1, p2}
  Socket = {s1}
  User = {u1}
  NoPeer = NoPeer
  NoSocket = NoSocket
  GeneratedId = {2}
  RemoteId = {1, 3}
  RemoteEvent = {"EVENT_RECEIVE_PEER_ID"}
  ModesOf <- TwoClients
  AutoAccept = {}
  Refuse = {}
  Polling = {}
  Forcible = {FALSE}
  Sends = TRUE
  Reuses = FALSE
  Frees = {}
  LogsOut = FALSE
  QueueLimit = {}
  DefaultQueueLimit = 2
  MaxArrivals = 3
  MaxHeld = 1
  MaxNotices = 2
INVARIANTS
  ActiveIsRegistered
  ClientKnowsOnlyServer
PROPERTIES
  ClosedIsUnregistered
CHECK_DEADLOCK FALSE
