SPECIFICATION LiveSpec
CONSTANTS
  w1 = w1
  w2 = w2
  v1 = v1
  v2 = v2
  u = u
  x = x
  Workers = {w1}
  Boots <- MCReboot
  MaxInc = 2
  MaxWire = 2
  MaxSess = 2
  MaxKills = 1
  MaxFaults = 1
  MaxTrouble = 1
  MaxCalls = 5
CHECK_DEADLOCK FALSE
PROPERTIES QuietIsReaped
