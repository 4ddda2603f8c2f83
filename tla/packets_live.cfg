SPECIFICATION FairSpec
CONSTANTS
  DBUF_NUMBUFS = 3
  RQ_ELEMENTS = 3
  SQ_ELEMENTS = 4
  SKIPCOUNT = 1
  Commands = {"GET", "LOCAL", "IMUP"}
  Payloads = {1}
  Window = 2
  Console = FALSE
INVARIANTS NoLeak
PROPERTIES NothingDropped BuffersComeBack HostComesUp
