SPECIFICATION Spec
CONSTANTS
  Val = {0, 1, 4}
  Hold = 5
  Gap = 5
  CHANS = 2
  BYTE = 2
  Wave <- MCWave
  Addrs = {4}
  Datas = {0, 1}
  PowerOn <- TwoChannels
  Polite = TRUE
  Settled = TRUE
  MaxHold = 5
  MinClk = 3
  MaxClk = 4
INVARIANTS OwnStep
