SPECIFICATION Spec
CONSTANTS
  BYTE = 32
  AB = 20
  F5 = 21
  CC = 20
  F57 = 21
  DLOOP = 1
  Datas <- MCDatas
  Seqns = {0}
  Noises = {0}
  MaxFaults = 1
INVARIANTS TrueMeansChecksum
