SPECIFICATION FairSpec
CONSTANTS
  Users = {u1}
  Programs = {"Dloop"}
  Data = {1, 2}
  LOOPS = 2
  HWM = 1
  Nobody = Nobody
INVARIANTS TypeOK InStep
PROPERTIES LoopsWereLooped Answered
