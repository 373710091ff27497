SPECIFICATION Spec
CONSTANTS
    nameA = nameA
    nameB = nameB
    Slots = {1}
    Names = {nameA, nameB}
    Compounds <- MCCompounds
    MaxOps = 2
    Start <- MCStart
    SeqIds = 8
    MaxReqs = 2
    MaxKills = 2
    MaxFaults = 2
    MaxTimeouts = 1
    MaxOthers = 1
    MaxTrouble = 3
INVARIANTS AtMostOnce SuccessIsTrue IntentCoversEffect
CHECK_DEADLOCK FALSE
PROPERTIES RecordsAdvance
