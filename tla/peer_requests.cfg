SPECIFICATION Spec
CONSTANTS
  p1 = p1
  p2 = p2
  Peer = {p1}
  Socket = {s1}
  User = {u1, u2}
  NoPeer = NoPeer
  NoSocket = NoSocket
  GeneratedId = {2}
  RemoteId = {0, 3}
  RemoteEvent = {"EVENT_RECEIVE_PEER_ID", "EVENT_MESH_CONNECTION_REQUEST"}
  ModesOf <- OneHost
  AutoAccept = {FALSE}
  Refuse = {TRUE}
  Polling = {}
  Forcible = {FALSE}
  Sends = FALSE
  Reuses = FALSE
  Frees = {}
  LogsOut = FALSE
  QueueLimit = {}
  DefaultQueueLimit = 2
  MaxArrivals = 1
  MaxHeld = 2
  MaxNotices = 2
INVARIANTS
  TypeOK
  RequestListedOnce
  RequestsAreLive
SYMMETRY Users
