SPECIFICATION FairSpec
CONSTANTS
  DBUF_NUMBUFS = 3
  RQ_ELEMENTS = 3
  SQ_ELEMENTS = 5
  SKIPCOUNT = 1
  Commands = {"GET", "IMUP"}
  Payloads = {1}
  Window = 3
  Console = FALSE
PROPERTIES BuffersComeBack
