CONSTANTS
  p = p
  q = q
  r = r
  x = x
  Node = {p, q, r, x}
  NoNode = NoNode
  NoId = 0
  NoAddress = NoAddress
  ListensAt <- LanListens
  RemoteIp <- LanIp
  Port <- LocalPort
  Bootnodes <- LanBootnodes
  Genesis <- LanGenesis
  NodeIds = {1, 2, 3, 4}
  FirstIds <- Middle
  Copy = {1}
  MaxFaults = 0
  MaxFailures = 1
  MaxSize = 2
SPECIFICATION FairSpec
CHECK_DEADLOCK FALSE
INVARIANTS
  TypeOK
  SameSocketClosed
  SharedReachable
  TableSound
PROPERTIES
  MeshSettles
