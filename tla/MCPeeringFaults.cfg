CONSTANTS
  p = p
  q = q
  r = r
  x = x
  Node = {p, q}
  NoNode = NoNode
  NoId = 0
  NoAddress = NoAddress
  ListensAt <- LocalListens
  RemoteIp <- LocalIp
  Port <- LocalPort
  Bootnodes <- LocalBootnodes
  Genesis <- SameGenesis
  NodeIds = {1, 2, 3}
  FirstIds <- Ascending
  Copy = {1, 2}
  MaxFaults = 1
  MaxFailures = 1
  MaxSize = 2
SPECIFICATION FairSpec
CHECK_DEADLOCK FALSE
INVARIANTS
  OneSocketPerPeer
  TableSound
  SharedHealthy
PROPERTIES
  MeshSettles
