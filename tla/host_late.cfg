SPECIFICATION Spec
CONSTANTS
  Users = {u1}
  Programs = {}
  Data = {1, 2}
  LOOPS = 2
  HWM = 1
  Nobody = Nobody
PROPERTIES DumpsUnexpected
