CONSTANTS
  root = root
  dA = dA
  dB = dB
  dC = dC
  f1 = f1
  f2 = f2
  n1 = n1
  n2 = n2
  s1 = s1
  s2 = s2
  p1 = p1
  p2 = p2
  NullInode = NULL
  NoEdge = NoEdge
  NoDir = NoDir
  NoReq = NoReq
  NoTxn = NoTxn
  MOVE_DIRECTORY_LOCK = MOVE
  Root = root
  Dirs = {root, dA, dB, dC}
  Names = {n1, n2}
  Shards = {s1, s2}
  ShardOf <- TwoShards
  NewDirs <- OneNew
  Tree <- Siblings
  Files = {f1, f2}
  Tags = {p1}
  OwnInfo <- NoInfo
  Menu <- FileMoves
  Direct = {"LINK_FILE", "SAME_DIRECTORY_RENAME", "SOFT_UNLINK_FILE", "REMOVE_NON_OWNED_EDGE", "SAME_SHARD_HARD_FILE_UNLINK", "REMOVE_INODE", "SAME_DIRECTORY_RENAME_SNAPSHOT"}
  Reorder = FALSE
  MaxTxns = 2
  MaxTimeouts = 0
  MaxRestarts = 0
  MaxDirect = 3
  MaxTies = 1
SPECIFICATION Spec
INVARIANTS OwnedOnce NoDataLoss NoLostFile
CHECK_DEADLOCK FALSE
