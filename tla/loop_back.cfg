SPECIFICATION FairSpec
CONSTANTS
  BYTE = 8
  AB = 6
  F5 = 7
  CC = 6
  F57 = 7
  DLOOP = 1
  Datas <- MCDatas
  Seqns = {0}
  Noises = {0, 6, 7}
  MaxFaults = 2
INVARIANTS TypeOK NothingForged StaysInBuffer
PROPERTIES CleanSucceeds Recovers
