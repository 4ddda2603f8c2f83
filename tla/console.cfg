SPECIFICATION FairSpec
CONSTANTS
  SERO_SQENTRYS = 5
  SERI_MAX_CHARS = 3
  ROW = 3
  ROWS = 3
  ATONCE = 2
INVARIANTS TypeOK LineStable RoomForAll
PROPERTIES RowByRow Answered
