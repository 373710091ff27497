CONSTANTS
  root = root
  dA = dA
  dB = dB
  dC = dC
  f1 = f1
  f2 = f2
  n1 = n1
  n2 = n2
  s1 = s1
  s2 = s2
  p1 = p1
  p2 = p2
  NullInode = NULL
  NoEdge = NoEdge
  NoDir = NoDir
  NoReq = NoReq
  NoTxn = NoTxn
  MOVE_DIRECTORY_LOCK = MOVE
  Root = root
  Dirs = {root, dA, dB, dC}
  Names = {n1, n2}
  Shards = {s1, s2}
  ShardOf <- TwoShards
  NewDirs <- OneNew
  Tree <- EmptyDirs
  Files = {}
  Tags = {p1, p2}
  OwnInfo <- OwnPolicy
  Menu <- ClientMenu
  Direct = {"SAME_DIRECTORY_RENAME", "SET_DIRECTORY_INFO"}
  Reorder = FALSE
  MaxTxns = 2
  MaxTimeouts = 0
  MaxRestarts = 1
  MaxDirect = 1
  MaxTies = 0
SPECIFICATION Spec
INVARIANTS NoLeakedLock RemovedIsEmpty
PROPERTY RemovedHasPolicies
CHECK_DEADLOCK FALSE
