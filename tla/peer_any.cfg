SPECIFICATION Spec
CONSTANTS
  p1 = p1
  p2 = p2
  Peer = {p1, p2}
  Socket = {s1}
  User = {u1}
  NoPeer = NoPeer
  NoSocket = NoSocket
  GeneratedId = {2}
  RemoteId = {1, 3}
  RemoteEvent = {"EVENT_RECEIVE_PEER_ID"}
  ModesOf <- AnyMode
  AutoAccept = {}
  Refuse = {}
  Polling = {FALSE}
  Forcible = {TRUE}
  Sends = TRUE
  Reuses = TRUE
  Frees = {p2}
  LogsOut = TRUE
  QueueLimit = {}
  DefaultQueueLimit = 1
  MaxArrivals = 2
  MaxHeld = 1
  MaxNotices = 1
PROPERTIES
  MediatorSpec
CHECK_DEADLOCK FALSE
