CONSTANTS
  d1 = d1
  d2 = d2
  d3 = d3
  MOVE_DIRECTORY_LOCK = MOVE
  NoReq = NoReq
  Dirs = {d1, d2, d3}
  Reqs <- Requests
  MaxTxns = 4
SPECIFICATION FairSpec
INVARIANTS QueueInv NoSharedDirectory NoForgottenTxn
PROPERTIES RefinesSerialTxns EveryTxnEnds
CHECK_DEADLOCK FALSE
