CONSTANTS
  Replicas = {0, 1, 2}
  FirstLeader = 0
  Base = 1
  Window = 2
  None = None
  Gaps = FALSE
  Overlap = FALSE
  MaxAppends = 2
  MaxElections = 2
  MaxCrashes = 2
  MaxLate = 1
  LateTypes = {"LOG_RECOVERY_WRITE"}
SPECIFICATION Spec
INVARIANTS ReadersAgree OneLeaderPerEpoch ReleasedSurvives NoReplicaAborts
PROPERTIES ReleasedIsFinal
CHECK_DEADLOCK FALSE
