CONSTANTS
  root = root
  dA = dA
  dB = dB
  dC = dC
  f1 = f1
  f2 = f2
  n1 = n1
  n2 = n2
  s1 = s1
  s2 = s2
  p1 = p1
  p2 = p2
  NullInode = NULL
  NoEdge = NoEdge
  NoDir = NoDir
  NoReq = NoReq
  NoTxn = NoTxn
  MOVE_DIRECTORY_LOCK = MOVE
  Root = root
  Dirs = {root, dA, dB, dC}
  Names = {n1, n2}
  Shards = {s1, s2}
  ShardOf <- FilesInOne
  NewDirs <- OneNew
  Tree <- TwoFiles
  Files = {f1, f2}
  Tags = {p1}
  OwnInfo <- NoInfo
  Menu <- LiveMenu
  Direct = {}
  Reorder = FALSE
  MaxTxns = 2
  MaxTimeouts = 1
  MaxRestarts = 1
  MaxDirect = 0
  MaxTies = 0
SPECIFICATION FairSpec
INVARIANT NoLostFile
PROPERTY EveryTxnEnds
CHECK_DEADLOCK FALSE
