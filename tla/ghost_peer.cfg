SPECIFICATION FairSpec
CONSTANTS
  p1 = p1
  p2 = p2
  Peer = {p1}
  Socket = {s1}
  User = {u1}
  NoPeer = NoPeer
  NoSocket = NoSocket
  GeneratedId = {2}
  RemoteId = {2, 3}
  RemoteEvent = {"EVENT_STORE_PACKET", "EVENT_RECEIVE_PEER_ID"}
  ModesOf <- OneServer
  AutoAccept = {}
  Refuse = {}
  Polling = {}
  Forcible = {FALSE}
  Sends = FALSE
  Reuses = FALSE
  Frees = {}
  LogsOut = FALSE
  QueueLimit = {}
  DefaultQueueLimit = 2
  MaxArrivals = 1
  MaxHeld = 1
  MaxNotices = 1
PROPERTY
  ClosedIsUnregistered
CHECK_DEADLOCK FALSE
