SPECIFICATION FairSpec
CONSTANTS
  default = default
  hostA = hostA
  sigS = sigS
  sigT = sigT
  NoSignal = NoSignal
  NUM_AD_CHANS = 2
  TIMEOUT_VAL = 4
  SETTLE = 1
  PAUSE = 2
  LONG_PAUSE = 4
  CLEANUPS = 2
  TICKS = 5
  Configs = {default, hostA}
  Default = default
  Signals = {sigS, sigT}
  Enbl <- MC_Enbl
  Name <- MC_Name
INVARIANTS TypeOK MeasuredHere SignalsCurrent ReplyConfigured
PROPERTIES ConfigLands AllSampled
