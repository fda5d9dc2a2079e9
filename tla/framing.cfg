SPECIFICATION Spec
CONSTANTS
  ChunkSize = 4
  RxBufSize = 12
  MaxField = 12
  Payloads <- MCPayloads
  Cmds = {"A", "B"}
  MaxSent = 3
  MARK = MARK
INVARIANTS
  TypeOK
  BareNeverJoins
PROPERTIES
  InOrder
  OnlyOversizeRefused
