SPECIFICATION Spec
CONSTANTS
  DBUF_NUMBUFS = 2
  RQ_ELEMENTS = 2
  SQ_ELEMENTS = 2
  SKIPCOUNT = 2
  Commands = {"GET", "DLOOP", "IMUP"}
  Payloads = {1}
  Window = 2
  Console = TRUE
INVARIANTS TypeOK OnePlace Handover ReplyIntact
PROPERTIES ImplementsLink
