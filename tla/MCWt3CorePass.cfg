SPECIFICATION Spec
CONSTANTS
  Val = {0, 1, 2}
  Hold = 3
  Gap = 3
  CHANS = 1
  BYTE = 2
  Wave <- MCWave
  Addrs = {2}
  Datas = {0, 1}
  PowerOn <- OneChannel
  Polite = FALSE
  Settled = FALSE
  MaxHold = 4
  MinClk = 2
  MaxClk = 3
INVARIANTS TypeOK CleanPass ParamsKept
